---------------------------- MODULE AgreementChains ----------------------------
(***************************************************************************)
(* How the readers of the agreements table rebuild the chains and pick the *)
(* governing agreement: walkChainInternal, buildChainsInternal and         *)
(* resolveCurrentGoverningFromRows of convex/agreementSupersession.ts.     *)
(* The chains they rebuild refine the pointer-free Lineages.               *)
(***************************************************************************)
EXTENDS Agreements, Sequences

\* What makes w the walk of walkChainInternal: it follows replacedById, until
\* that is undefined, points outside the loaded rows, or comes back to a row
\* already seen.
IsWalk(rows, w) ==
  /\ \A i \in 1 .. Len(w) - 1 : w[i + 1] = agreements[w[i]].replacedById
  /\ agreements[w[Len(w)]].replacedById \notin rows \ {w[i] : i \in 1 .. Len(w)}
  /\ \A i, j \in 1 .. Len(w) : w[i] = w[j] => i = j

SuccessorIds(rows) == {agreements[a].replacedById : a \in rows}

\* walkChainInternal: after the head only successors are visited.
Walks(rows, head) ==
  LET rest == rows \cap SuccessorIds(rows)
  IN {w \in {<<head>> \o v : v \in UNION {[1 .. n -> rest] : n \in 0 .. Cardinality(rest)}} :
        IsWalk(rows, w)}

\* Mutant: the heads are sought among all rows instead of the loaded ones.
BuildChains_GlobalHeads(rows) ==
  UNION {Walks(rows, head) : head \in rows \ SuccessorIds(Rows(agreements))}

\* buildChainsInternal: one chain per row that no loaded row points to.
BuildChains(rows) ==
  UNION {Walks(rows, head) : head \in rows \ SuccessorIds(rows)}

MostRecentlySigned(S) ==
  CHOOSE a \in S : \A b \in S : agreements[a].signedAt >= agreements[b].signedAt

\* The full-representation agreement of S signed last, else the tour pass.
Preferred(S) ==
  LET fullRep == SignedOf(agreements, S, "full_representation")
      passes  == SignedOf(agreements, S, "tour_pass")
  IN IF fullRep # {} THEN MostRecentlySigned(fullRep)
     ELSE IF passes # {} THEN MostRecentlySigned(passes)
     ELSE None

\* resolveCurrentGoverningFromRows.
ResolveCurrentGoverning(rows) ==
  Preferred({chain[Len(chain)] : chain \in BuildChains(rows)})

Chain == INSTANCE Lineages WITH
  lineages <- BuildChains(Rows(agreements)),
  inForce  <- WithStatus(agreements, Rows(agreements), {"signed"})
-----------------------------------------------------------------------------
(***************************************************************************)
(* Every mutation on the pointer table is a step of Lineages, seen through *)
(* the chains the code rebuilds: no agreement is ever dropped from, shared *)
(* by or moved between chains, and only the end of a chain is in force.    *)
(***************************************************************************)
ImplementsLineages == Chain!Spec

(***************************************************************************)
(* The resolver never misses an agreement in force, whichever rows it is   *)
(* given - all rows of the buyer (getCurrentGoverning) or those of a deal  *)
(* room, whose chains may lead out of the room (getByDealRoom).  It agrees *)
(* with a flat search over the signed rows; the flat search is what        *)
(* computeOfferEligibility does.                                           *)
(***************************************************************************)
ResolverMissesNothing ==
  /\ \A b \in Buyers : LET S == OfBuyer(agreements, b)
                       IN ResolveCurrentGoverning(S) = Preferred(S)
  /\ \A r \in Rooms : LET S == InRoom(agreements, r)
                      IN ResolveCurrentGoverning(S) = Preferred(S)

(***************************************************************************)
(* Two modules decide on their own what a buyer may do: the governing      *)
(* agreement is a full representation exactly when some deal room of the   *)
(* buyer has a fresh eligible verdict.                                     *)
(***************************************************************************)
GoverningMatchesEligibility ==
  \A b \in Buyers :
    LET g == ResolveCurrentGoverning(OfBuyer(agreements, b)) IN
    (g # None /\ agreements[g].type = "full_representation")
      <=> \E r \in Rooms : BuyerOf[r] = b /\ RoomVerdict(agreements, r).isEligible

(***************************************************************************)
(* All readers of the agreements agree: the two lookups by chain, the flat *)
(* search, and the verdict that lets the buyer make offers; and the audit  *)
(* trails tell the same story.                                             *)
(***************************************************************************)
ReadersAgree ==
  ResolverMissesNothing /\ GoverningMatchesEligibility /\ AuditReconstructsState
=============================================================================
