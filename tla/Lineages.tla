------------------------------- MODULE Lineages -------------------------------
(***************************************************************************)
(* What supersession promises, with no pointers in it: the agreements of   *)
(* all buyers are partitioned into lineages, each a sequence that only     *)
(* ever grows at its end, and only the last agreement of a lineage can be  *)
(* in force.  Linking a successor retires the agreement it replaces.       *)
(***************************************************************************)
EXTENDS Naturals, Sequences

CONSTANT Ids

VARIABLES
  lineages,  \* a set of sequences of agreement ids
  inForce    \* the agreements that are signed

vars == <<lineages, inForce>>

End(l) == l[Len(l)]

New(a) ==
  /\ \A l \in lineages : \A i \in 1 .. Len(l) : l[i] # a
  /\ lineages' = lineages \cup {<<a>>}
  /\ UNCHANGED inForce

Sign(l) ==
  /\ End(l) \notin inForce
  /\ inForce' = inForce \cup {End(l)}
  /\ UNCHANGED lineages

Cancel(l) ==
  /\ End(l) \in inForce
  /\ inForce' = inForce \ {End(l)}
  /\ UNCHANGED lineages

\* The lineage m continues the lineage l.
Link(l, m) ==
  /\ l # m
  /\ End(l) \in inForce
  /\ lineages' = (lineages \ {l, m}) \cup {l \o m}
  /\ inForce' = inForce \ {End(l)}

\* A new agreement continues the lineage l at once.
Renew(l, a) ==
  /\ \A m \in lineages : \A i \in 1 .. Len(m) : m[i] # a
  /\ End(l) \in inForce
  /\ lineages' = (lineages \ {l}) \cup {Append(l, a)}
  /\ inForce' = inForce \ {End(l)}

Init == lineages = {} /\ inForce = {}

Next ==
  \/ \E a \in Ids : New(a)
  \/ \E l \in lineages : Sign(l) \/ Cancel(l)
  \/ \E l, m \in lineages : Link(l, m)
  \/ \E l \in lineages, a \in Ids : Renew(l, a)

Spec == Init /\ [][Next]_vars
=============================================================================
