------------------------------- MODULE Closing -------------------------------
(***************************************************************************)
(* The milestones of a contract and the dashboard the buyer follows them   *)
(* on (convex/contractMilestones.ts, src/lib/contracts/milestones.ts,      *)
(* convex/closeDashboard.ts, src/lib/dealroom/close-dashboard-logic.ts).   *)
(* One deal room with one contract; an instant is a day.  The names of     *)
(* milestones are abstracted to who is responsible for them.  The tasks of *)
(* the close phase, which no milestone touches, come at the end.           *)
(***************************************************************************)
EXTENDS FiniteSets, FiniteSetsExt, Integers, Sequences

CONSTANTS
  Calendar,       \* days the clock can show
  FieldMaps,      \* the dates of typed contracts
  Secondary,      \* milestones the parser of the legacy text may add
  Dates,          \* dates people put in
  MaxExtractions, MaxManual, MaxEdits   \* bounds

Workstreams == {"inspection", "financing", "appraisal", "title", "insurance", "escrow",
                "hoa", "walkthrough", "closing", "other"}
NoDate == -1                   \* a field that is missing or is no date

ASSUME ClosingAssumption ==
  /\ Calendar \cup Dates \subseteq Nat /\ Calendar # {}
  /\ {MaxExtractions, MaxManual, MaxEdits} \subseteq Nat
  /\ \A f \in FieldMaps :
       {f.agreement, f.dueDiligence, f.earnest, f.closing} \subseteq Nat \cup {NoDate}
  /\ Secondary \subseteq [workstream : Workstreams, dueDate : Int, flaggedForReview : BOOLEAN]

VARIABLES
  milestones,   \* contractMilestones of the contract, by age: the older ones
                \* have the smaller numbers, and a deleted one leaves a gap
  today,        \* the clock
  extractions,  \* history: how many batches were persisted
  edits         \* history: how often somebody completed, flagged or resolved

closingVars == <<milestones, today, extractions, edits>>

Milestone == [workstream : Workstreams, dueDate : Int, buyerDriven : BOOLEAN,
              status : {"pending", "completed", "overdue", "needs_review"},
              source : {"auto_extracted", "manual", "amended"},
              flaggedForReview : BOOLEAN, byHand : BOOLEAN]
-----------------------------------------------------------------------------
(* What the extractor derives. *)

\* inferResponsibleParty over the names the extractor gives: the keywords
\* deposit and review, and the table of workstreams.
BuyerDriven == {"escrow", "walkthrough", "insurance", "title", "hoa"}

Derived(workstream, dueDate, flagged) ==
  [workstream |-> workstream, dueDate |-> dueDate, flaggedForReview |-> flagged]

\* A date the contract lacks is guessed, and the guess is for review.
OrDefault(workstream, field, guess) ==
  IF field # NoDate THEN Derived(workstream, field, FALSE)
                     ELSE Derived(workstream, guess, TRUE)

DeriveContractMilestones(f) ==
  LET dated == f.agreement # NoDate
      ending == OrDefault("closing", f.closing, f.agreement + 30)
  IN (IF dated THEN <<OrDefault("inspection", f.dueDiligence, f.agreement + 15),
                      OrDefault("escrow", f.earnest, f.agreement + 3)>>
               ELSE <<>>)
     \o (IF dated \/ f.closing # NoDate
           THEN <<ending, [ending EXCEPT !.workstream = "walkthrough", !.dueDate = @ - 1]>>
           ELSE <<>>)

\* A date that is past already is for review as well.
Finalize(batch) ==
  [i \in DOMAIN batch |-> [batch[i] EXCEPT !.flaggedForReview = @ \/ batch[i].dueDate < today]]

\* A workstream is taken once.  The sort by due date at the end is left out: the
\* order of rows decides only between those of one day, and the sort keeps that.
MergeByWorkstream(primary, secondary) ==
  LET kept == {j \in DOMAIN secondary :
                 /\ \A i \in DOMAIN primary :
                      primary[i].workstream # secondary[j].workstream
                 /\ \A k \in 1 .. j - 1 :
                      secondary[k].workstream # secondary[j].workstream}
  IN [n \in DOMAIN primary \cup {Len(primary) + j : j \in kept} |->
        IF n \in DOMAIN primary THEN primary[n] ELSE secondary[n - Len(primary)]]
-----------------------------------------------------------------------------
(* The rows. *)

Newest == Max({0} \cup DOMAIN milestones)

ExtractedRow(m) ==
  [workstream |-> m.workstream, dueDate |-> m.dueDate,
   buyerDriven |-> m.workstream \in BuyerDriven,
   status |-> IF m.flaggedForReview THEN "needs_review" ELSE "pending",
   source |-> "auto_extracted", flaggedForReview |-> m.flaggedForReview, byHand |-> FALSE]

PersistExtractionBatch(batch) ==
  LET stay == {i \in DOMAIN milestones : milestones[i].source = "manual"}
  IN milestones' = [i \in stay \cup {Newest + k : k \in DOMAIN batch} |->
       IF i \in stay THEN milestones[i] ELSE ExtractedRow(batch[i - Newest])]

\* The milestone part of createFromOffer, once the contract exists.
Extract(fieldMap, secondary) ==
  /\ extractions < MaxExtractions
  /\ PersistExtractionBatch(MergeByWorkstream(
       Finalize(DeriveContractMilestones(fieldMap)),
       Finalize(secondary)))
  /\ extractions' = extractions + 1
  /\ UNCHANGED <<today, edits>>

CreateManual(workstream, dueDate, buyerDriven) ==
  /\ Cardinality({i \in DOMAIN milestones : milestones[i].byHand}) < MaxManual
  /\ milestones' = [i \in DOMAIN milestones \cup {Newest + 1} |->
       IF i \in DOMAIN milestones THEN milestones[i]
       ELSE [workstream |-> workstream, dueDate |-> dueDate, buyerDriven |-> buyerDriven,
             status |-> "pending", source |-> "manual", flaggedForReview |-> FALSE,
             byHand |-> TRUE]]
  /\ UNCHANGED <<today, extractions, edits>>

Edit ==
  /\ edits < MaxEdits
  /\ edits' = edits + 1
  /\ UNCHANGED <<today, extractions>>

MarkCompleted(i) ==
  /\ milestones' = [milestones EXCEPT ![i].status = "completed"]
  /\ Edit

FlagForReview(i) ==
  /\ milestones' = [milestones EXCEPT ![i].flaggedForReview = TRUE,
                                      ![i].status = "needs_review"]
  /\ Edit

\* A completed milestone that is still flagged is pending again.
ResolveReview(i, correctedDueDate) ==
  /\ milestones[i].flaggedForReview
  /\ milestones' = [milestones EXCEPT ![i].flaggedForReview = FALSE,
       ![i].status = "pending", ![i].source = "amended",
       ![i].dueDate = IF correctedDueDate = NoDate THEN @ ELSE correctedDueDate]
  /\ Edit

LateAndSettled(m) == m.status = "pending" /\ m.dueDate < today /\ ~m.flaggedForReview

MarkOverdueBatch ==
  /\ milestones' = [i \in DOMAIN milestones |->
       IF LateAndSettled(milestones[i]) THEN [milestones[i] EXCEPT !.status = "overdue"]
                                        ELSE milestones[i]]
  /\ UNCHANGED <<today, extractions, edits>>

NextDay ==
  /\ \E d \in Calendar : d > today /\ today' = Min({e \in Calendar : e > today})
  /\ UNCHANGED <<milestones, extractions, edits>>
-----------------------------------------------------------------------------
(* The dashboard, over the milestones a viewer gets.  A list is the set of *)
(* its rows: their numbers order it.                                       *)

ProjectMilestonesForViewer(level) ==
  {i \in DOMAIN milestones : level = "buyer" => milestones[i].status # "needs_review"}

DaysUntilDue(m) == m.dueDate - today

Urgency(m) ==
  CASE m.status = "completed" -> "completed"
    [] m.status # "completed" /\ DaysUntilDue(m) < 0 -> "overdue"
    [] m.status # "completed" /\ DaysUntilDue(m) \in 0 .. 7 -> "this_week"
    [] m.status # "completed" /\ DaysUntilDue(m) \in 8 .. 14 -> "next_week"
    [] OTHER -> "later"

OffTrack(m) == Urgency(m) = "overdue"

\* Mutant: the week of the bucket ends a day before the week of the plan.
Bucket_ShortWeek(m) ==
  CASE m.status = "completed" -> "on_track"
    [] m.status # "completed" /\ (OffTrack(m) \/ (m.buyerDriven /\ DaysUntilDue(m) \in 0 .. 6))
         -> "needs_attention"
    [] OTHER -> IF m.buyerDriven THEN "on_track" ELSE "waiting_on_others"

Bucket(m) ==
  CASE m.status = "completed" -> "on_track"
    [] m.status # "completed" /\ (OffTrack(m) \/ (m.buyerDriven /\ Urgency(m) = "this_week"))
         -> "needs_attention"
    [] OTHER -> IF m.buyerDriven THEN "on_track" ELSE "waiting_on_others"

\* The first of those that are due soonest, none when there is none.
Soonest(shown) ==
  LET Days(i) == DaysUntilDue(milestones[i])
  IN {i \in shown : \A j \in shown : Days(i) < Days(j) \/ (Days(i) = Days(j) /\ i <= j)}

NextStep(shown) ==
  LET late == {i \in shown : OffTrack(milestones[i])}
      attention == {i \in shown : Bucket(milestones[i]) = "needs_attention"}
  IN CASE late # {} -> Soonest(late)
       [] late = {} /\ attention # {} -> Soonest(attention)
       [] OTHER -> Soonest({i \in shown : milestones[i].status # "completed"})

InWindow(m) == DaysUntilDue(m) \in 0 .. 7 /\ m.status # "completed"
ActionsThisWeek(shown) ==
  {i \in shown : InWindow(milestones[i]) /\ milestones[i].buyerDriven}
BlockedOnOthers(shown) ==
  {i \in shown : /\ milestones[i].status # "completed" /\ ~milestones[i].buyerDriven
                 /\ DaysUntilDue(milestones[i]) <= 14}

\* The close date comes from the open closing milestones, by due date.
CloseDate(shown) ==
  Soonest({i \in shown : /\ milestones[i].workstream = "closing"
                         /\ milestones[i].status # "completed"})
OverallOffTrack(shown) == \E i \in shown : OffTrack(milestones[i])
-----------------------------------------------------------------------------
ClosingInit == milestones = <<>> /\ today = Min(Calendar) /\ extractions = 0 /\ edits = 0

ClosingNext ==
  \/ \E f \in FieldMaps, secondary \in {<<>>} \cup {<<m>> : m \in Secondary} :
       Extract(f, secondary)
  \/ \E workstream \in {"closing", "other"}, d \in Dates, buyers \in BOOLEAN :
       CreateManual(workstream, d, buyers)
  \/ \E i \in DOMAIN milestones :
       \/ MarkCompleted(i) \/ FlagForReview(i)
       \/ \E d \in Dates \cup {NoDate} : ResolveReview(i, d)
  \/ MarkOverdueBatch \/ NextDay

ClosingSpec == ClosingInit /\ [][ClosingNext]_closingVars
-----------------------------------------------------------------------------
(***************************************************************************)
(* What the buyer reads is settled and agrees with itself.  A date that    *)
(* still needs review never reaches the dashboard of the buyer, open; the  *)
(* stored status overdue may come late and never early; whatever is late   *)
(* puts the close off track, needs attention and is the next step; what    *)
(* needs attention besides is exactly the week's plan of actions, and the  *)
(* dashboard congratulates only when nothing is open.                      *)
(***************************************************************************)
DashboardTruthful ==
  /\ milestones \in [DOMAIN milestones -> Milestone] /\ today \in Calendar
  /\ IsFiniteSet(DOMAIN milestones) /\ DOMAIN milestones \subseteq Nat \ {0}
  /\ \A i \in DOMAIN milestones :
       milestones[i].status = "overdue" => milestones[i].dueDate < today
  /\ \A i \in ProjectMilestonesForViewer("buyer") :
       milestones[i].flaggedForReview => milestones[i].status = "completed"
  /\ \A level \in {"buyer", "staff"} :
       LET shown == ProjectMilestonesForViewer(level)
           open == {i \in shown : milestones[i].status # "completed"}
           attention == {i \in shown : Bucket(milestones[i]) = "needs_attention"}
           late == {i \in open : milestones[i].dueDate < today}
       IN /\ late \subseteq attention
          /\ attention \ late = ActionsThisWeek(shown)
          /\ \A i \in BlockedOnOthers(shown) : Bucket(milestones[i]) # "on_track"
          /\ OverallOffTrack(shown) <=> late # {}
          /\ NextStep(shown) = {} <=> open = {}
          /\ late # {} => NextStep(shown) \subseteq late
          /\ CloseDate(shown) \subseteq open
-----------------------------------------------------------------------------
(* The tasks of the close phase (convex/closeTasks.ts,                     *)
(* convex/lib/closeTasks.ts).  Everything is done by brokers; the buyer    *)
(* reads what toBuyerSafeTask leaves.                                      *)

CONSTANTS Reasons,             \* texts that explain a blocked task
          NoReason,            \* none given
          Owners,              \* people a task may be given to
          MaxTasks, MaxMoment  \* bounds

ASSUME CloseTasksAssumption == NoReason \notin Reasons /\ {MaxTasks, MaxMoment} \subseteq Nat

TaskStatus == {"pending", "in_progress", "completed", "blocked", "canceled"}
CloseTask == [status : TaskStatus, visibility : {"buyer_visible", "internal_only"},
              ownerUserId : Owners, blockedReason : Reasons \cup {NoReason},
              updatedAt : Nat, completedAt : Nat]

VARIABLES
  closeTasks,  \* closeTasks, by age
  moment,      \* the clock: every write takes one
  settled      \* history: for every task the moments it completed or was canceled

taskVars == <<closeTasks, moment, settled>>
-----------------------------------------------------------------------------
ValidTransitions ==
  [pending |-> {"in_progress", "blocked", "canceled"},
   in_progress |-> {"completed", "blocked", "canceled"},
   blocked |-> {"pending", "in_progress", "canceled"},
   completed |-> {}, canceled |-> {}]

\* A transition to the status a task has is accepted, terminal or not.
ValidateTransition(from, to) == from = to \/ to \in ValidTransitions[from]

TransitionPatch(task, to, reason) ==
  [task EXCEPT !.status = to, !.updatedAt = moment,
     !.completedAt = IF to = "completed" /\ task.status # "completed" THEN moment ELSE @,
     !.blockedReason = CASE to = "blocked" -> reason
                         [] to # "blocked" /\ task.status = "blocked" -> NoReason
                         [] OTHER -> @]

Stamp == moment < MaxMoment /\ moment' = moment + 1

CreateTask(visibility, owner) ==
  /\ Len(closeTasks) < MaxTasks /\ Stamp
  /\ closeTasks' = Append(closeTasks,
       [status |-> "pending", visibility |-> visibility, ownerUserId |-> owner,
        blockedReason |-> NoReason, updatedAt |-> moment, completedAt |-> 0])
  /\ settled' = Append(settled, <<>>)

TransitionStatus(t, to, reason) ==
  /\ ValidateTransition(closeTasks[t].status, to) /\ Stamp
  /\ closeTasks' = [closeTasks EXCEPT ![t] = TransitionPatch(@, to, reason)]
  /\ settled' = [settled EXCEPT ![t] =
       IF to \in {"completed", "canceled"} /\ to # closeTasks[t].status
         THEN Append(@, moment) ELSE @]

\* update: the owner stands for all the fields it may change.
UpdateTask(t, owner) ==
  /\ owner # closeTasks[t].ownerUserId /\ Stamp
  /\ closeTasks' = [closeTasks EXCEPT ![t].ownerUserId = owner, ![t].updatedAt = moment]
  /\ UNCHANGED settled
-----------------------------------------------------------------------------
TasksInit == closeTasks = <<>> /\ moment = 1 /\ settled = <<>>

TasksNext ==
  \/ \E visibility \in {"buyer_visible", "internal_only"}, owner \in Owners :
       CreateTask(visibility, owner)
  \/ \E t \in DOMAIN closeTasks :
       \/ \E to \in TaskStatus, reason \in Reasons \cup {NoReason} :
            TransitionStatus(t, to, reason)
       \/ \E owner \in Owners : UpdateTask(t, owner)

TasksSpec == TasksInit /\ [][TasksNext]_taskVars
-----------------------------------------------------------------------------
\* Whatever is repeated or edited afterwards, a task settles once, keeps the
\* moment it was completed at, and carries a reason only while it is blocked.
TasksSettleOnce ==
  /\ closeTasks \in Seq(CloseTask)
  /\ \A t \in DOMAIN closeTasks :
       LET task == closeTasks[t]
       IN /\ Len(settled[t]) <= 1
          /\ task.status \in {"completed", "canceled"} <=> settled[t] # <<>>
          /\ task.completedAt = IF task.status = "completed" THEN settled[t][1] ELSE 0
          /\ task.blockedReason # NoReason => task.status = "blocked"
          /\ task.completedAt <= task.updatedAt

\* The days before a closing: its dashboard agrees with itself, and no task is
\* settled twice.
ClosingSound == DashboardTruthful /\ TasksSettleOnce
=============================================================================
