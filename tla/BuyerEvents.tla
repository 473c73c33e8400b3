------------------------------ MODULE BuyerEvents ------------------------------
(***************************************************************************)
(* Updates that a buyer is shown (convex/buyerUpdateEvents.ts,             *)
(* convex/lib/buyerEvents.ts).                                             *)
(*                                                                         *)
(* News about one thing coalesce in one row: what is emitted again renews  *)
(* the row, also after the buyer has seen or dismissed it, so emissions    *)
(* race what buyer and broker do with the row.  Every change leaves an     *)
(* audit entry.                                                            *)
(***************************************************************************)
EXTENDS Integers, Sequences, SequencesExt, FiniteSetsExt

CONSTANTS
  DedupeKeys,      \* deal room, event type and what the news is about
  PriorityOf,      \* defaultPriorityFor of the event type of each
  MaxEmissions, MaxActs   \* bounds on the emissions and on what people do

Priorities == 1 .. 3      \* priorityRank
ASSUME BuyerEventsAssumption ==
  PriorityOf \in [DedupeKeys -> Priorities] /\ {MaxEmissions, MaxActs} \subseteq Nat

VARIABLES
  updates,      \* buyerUpdateEvents, by age
  updateAudit,  \* auditLog: per row its entries
  emissions     \* the clock, and what is told: every emission is other news

updateVars == <<updates, updateAudit, emissions>>

People == {"buyer", "broker"}
UpdateStatuses == {"pending", "seen", "resolved"}
UpdateRow == [dedupeKey : DedupeKeys, status : UpdateStatuses, priority : Priorities,
              emittedAt : 1 .. MaxEmissions, createdAt : 1 .. MaxEmissions,
              dedupeCount : 1 .. MaxEmissions, resolvedBy : People \cup {"nobody"}]
AuditEntry == [action : {"emitted", "bumped", "seen", "resolved"}, by : People \cup {"system"},
               dedupeCount : 0 .. MaxEmissions]

Count(i, actions) == Len(SelectSeq(updateAudit[i], LAMBDA e : e.action \in actions))
Acts == FoldLeftDomain(LAMBDA sum, i : sum + Count(i, {"seen", "resolved"}), 0, updateAudit)
RowFor(key) == {i \in DOMAIN updates : updates[i].dedupeKey = key}
Log(i, action, person, count) ==
  updateAudit' = [updateAudit EXCEPT ![i] =
    Append(@, [action |-> action, by |-> person, dedupeCount |-> count])]
-----------------------------------------------------------------------------
NewUpdate(key, priority) ==
  [dedupeKey |-> key, status |-> "pending", priority |-> priority,
   emittedAt |-> emissions', createdAt |-> emissions', dedupeCount |-> 1,
   resolvedBy |-> "nobody"]

\* Mutant: what was dismissed stays dismissed.
Bumped_StaysResolved(row, priority) ==
  [row EXCEPT !.priority = priority, !.emittedAt = emissions', !.dedupeCount = @ + 1]

Bumped(row, priority) ==
  [row EXCEPT !.status = "pending", !.priority = priority, !.emittedAt = emissions',
              !.dedupeCount = @ + 1, !.resolvedBy = "nobody"]

\* unique() throws when two rows have the key.
Emit(key, priority) ==
  /\ emissions < MaxEmissions
  /\ emissions' = emissions + 1
  /\ \/ /\ RowFor(key) = {}
        /\ updates' = Append(updates, NewUpdate(key, priority))
        /\ updateAudit' = Append(updateAudit,
             <<[action |-> "emitted", by |-> "system", dedupeCount |-> 1]>>)
     \/ \E i \in RowFor(key) :
          /\ RowFor(key) = {i}
          /\ updates' = [updates EXCEPT ![i] = Bumped(@, priority)]
          /\ Log(i, "bumped", "system", updates[i].dedupeCount + 1)

MarkSeen(person, i) ==
  /\ updates[i].status = "pending"
  /\ updates' = [updates EXCEPT ![i].status = "seen"]
  /\ Log(i, "seen", person, 0)
  /\ UNCHANGED emissions

Resolvable(row) == row.status # "resolved"

\* A buyer resolves as buyer only, staff in either name.
Resolve(person, i, resolvedBy) ==
  /\ resolvedBy = "broker" => person = "broker"
  /\ Resolvable(updates[i])
  /\ updates' = [updates EXCEPT ![i].status = "resolved", ![i].resolvedBy = resolvedBy]
  /\ Log(i, "resolved", person, 0)
  /\ UNCHANGED emissions
-----------------------------------------------------------------------------
\* What getPendingForBuyer answers: the live rows, urgent and new ones first.
Pending(i) == updates[i].status \in {"pending", "seen"}
ShownBefore(i, k) ==
  \/ updates[i].priority > updates[k].priority
  \/ updates[i].priority = updates[k].priority /\ updates[i].emittedAt > updates[k].emittedAt
Feed ==   \* the place of each
  [i \in {i \in DOMAIN updates : Pending(i)} |->
     1 + Cardinality({k \in DOMAIN updates : Pending(k) /\ ShownBefore(k, i)})]

UpdateInit == updates = <<>> /\ updateAudit = <<>> /\ emissions = 0

UpdateNext ==
  \/ \E key \in DedupeKeys : \E priority \in {PriorityOf[key], 3} : Emit(key, priority)
  \/ /\ Acts < MaxActs
     /\ \E person \in People, i \in DOMAIN updates :
          MarkSeen(person, i) \/ \E resolvedBy \in People : Resolve(person, i, resolvedBy)

UpdateSpec == UpdateInit /\ [][UpdateNext]_updateVars
-----------------------------------------------------------------------------
UpdateTypeOK ==
  /\ updates \in Seq(UpdateRow)
  /\ updateAudit \in Seq(Seq(AuditEntry))
  /\ DOMAIN updateAudit = DOMAIN updates
  /\ emissions \in 0 .. MaxEmissions

NewsCounted ==
  {news \in (DOMAIN updates) \X (1 .. MaxEmissions) : news[2] <= updates[news[1]].dedupeCount}

\* No news is lost: all emissions are counted in one row per key, and what
\* was told last is on display until somebody dismisses it after that, at a
\* place of its own.
NewsShown ==
  /\ \A i, k \in DOMAIN updates : updates[i].dedupeKey = updates[k].dedupeKey => i = k
  /\ Cardinality(NewsCounted) = emissions
  /\ DOMAIN Feed = {i \in DOMAIN updates : Last(updateAudit[i]).action # "resolved"}
  /\ IsInjective(Feed)
  /\ emissions > 0 =>
       \E i \in DOMAIN updates : updates[i].emittedAt = emissions

\* The audit trail of a row reconstructs its status, its count and who
\* dismissed it, and nothing is dismissed twice without news in between.
Told(trail, n) ==
  {m \in DOMAIN trail : m <= n /\ trail[m].action \in {"emitted", "bumped"}}

UpdateAuditTrue ==
  \A i \in DOMAIN updates :
    LET trail == updateAudit[i]
    IN /\ Cardinality(Told(trail, Len(trail))) = updates[i].dedupeCount
       /\ \A n \in Told(trail, Len(trail)) : trail[n].dedupeCount = Cardinality(Told(trail, n))
       /\ updates[i].status = (CASE Last(trail).action = "seen" -> "seen"
                                 [] Last(trail).action = "resolved" -> "resolved"
                                 [] OTHER -> "pending")
       /\ updates[i].status = "resolved" <=> updates[i].resolvedBy # "nobody"
       /\ updates[i].resolvedBy = "broker" => Last(trail).by = "broker"
       /\ \A n \in 1 .. Len(trail) - 1 :
            trail[n].action = "resolved" => trail[n + 1].action = "bumped"

(***************************************************************************)
(* Whatever order news, looks and dismissals come in, the latest news of   *)
(* everything is shown until it is dismissed, and the trail tells how.     *)
(***************************************************************************)
UpdatesSound == UpdateTypeOK /\ NewsShown /\ UpdateAuditTrue
=============================================================================
