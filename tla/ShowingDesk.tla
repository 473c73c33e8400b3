----------------------------- MODULE ShowingDesk -----------------------------
(***************************************************************************)
(* What coordinators see of showings, and what they plan them by: the      *)
(* queue of tour requests (convex/showingCoordination.ts over              *)
(* src/lib/tours/coordinationFilters.ts), the windows people are free in   *)
(* (convex/availability.ts, convex/lib/availability.ts, scheduling.ts) and *)
(* the visitors who announce themselves for an open house                  *)
(* (convex/visitorPreregistrations.ts).                                    *)
(*                                                                         *)
(* The queue is of one request, whose steps are those of TourWorkflow seen *)
(* with the agent and the timestamps that module leaves out; time passes   *)
(* in units of twelve hours.  The three tables share nothing, and a        *)
(* behaviour works on one of them.                                         *)
(***************************************************************************)
EXTENDS Integers, Sequences, FiniteSets

CONSTANTS Agents, Nobody,  \* agents of the request
          MaxClock,        \* bound: 12-hour units
          MaxSpan,         \* longest window, a week
          MaxInstant,      \* bound: instants of windows
          MaxWindows, MaxVisits  \* bounds: rows

ASSUME ShowingDeskAssumption == Nobody \notin Agents /\ MaxClock \in Nat /\ MaxSpan \in Nat \ {0} /\ MaxInstant \in Nat

VARIABLES
  station,   \* the table at work
  clock,
  request,   \* the tour request: status, agentId, submittedAt, assignedAt, updatedAt
  since,     \* history: when the request took its status
  work,      \* its active assignment: status, agentId, queue (the manual queue), showami
  signed,    \* whether the buyer has a signed agreement now
  windows,   \* availabilityWindows
  visits     \* visitorPreregistrations of one visitor for one property

deskOfShowings == <<station, clock, request, since, work, signed, windows, visits>>

Never == 0 - 1  \* no timestamp
Older(a, b) == IF a = Never THEN b ELSE a
At(place, v) == station \in {"none", place} /\ station' = place /\ UNCHANGED v
-----------------------------------------------------------------------------
(* The request. *)

Terminal == {"completed", "canceled", "failed"}
ActiveStatuses == {"submitted", "blocked", "assigned", "confirmed"}
NoWork == [status |-> "none", agentId |-> Nobody, queue |-> FALSE, showami |-> FALSE]

QueueRests == At("queue", <<windows, visits>>) /\ UNCHANGED <<clock, signed>>

Patch(row) ==
  /\ request' = [row EXCEPT !.updatedAt = clock]
  /\ since' = IF row.status = request.status THEN since ELSE clock
  /\ QueueRests

Step(from, to) == request.status \in from /\ Patch([request EXCEPT !.status = to]) /\ UNCHANGED work

\* The agreement is looked up again, and the copy of it refreshed.
Submit ==
  /\ request.status = "draft" /\ signed
  /\ Patch([request EXCEPT !.status = "submitted", !.submittedAt = clock]) /\ UNCHANGED work

AssignAgent(g) ==
  /\ request.status = "submitted"
  /\ Patch([request EXCEPT !.status = "assigned", !.agentId = g, !.assignedAt = clock])
  /\ UNCHANGED work

HandMade ==
  \/ Step({"blocked"}, "submitted") \/ Step({"submitted"}, "blocked")
  \/ Step({"assigned"}, "confirmed") \/ Step({"confirmed"}, "completed")
  \/ Step(ActiveStatuses \cup {"draft"}, "canceled") \/ Step(ActiveStatuses, "failed")

\* createAssignmentRecord; a manual routing or a Showami booking looks at no
\* status.  The queue of the broker keeps the agent the request had.
CreateAssignmentRecord(g, showami) ==
  LET queue == ~showami /\ g = Nobody
  IN /\ work = NoWork
     /\ work' = [status |-> "pending", agentId |-> g, queue |-> queue, showami |-> showami]
     /\ Patch(IF queue THEN [request EXCEPT !.status = "blocked"]
              ELSE [request EXCEPT !.status = "assigned", !.agentId = g, !.assignedAt = clock])

LegalAssignment == [pending |-> {"confirmed", "canceled"},
                    confirmed |-> {"in_progress", "canceled"},
                    in_progress |-> {"completed", "canceled"}]

\* syncCanonicalStateFromAssignment: g may come with a Showami event.
AdvanceAssignment(next, g) ==
  LET agent == IF g # Nobody /\ work.showami THEN g ELSE work.agentId
  IN /\ work # NoWork /\ next \in LegalAssignment[work.status]
     /\ next # "canceled" => agent # Nobody
     /\ work' = IF next \in {"completed", "canceled"} THEN NoWork
                ELSE [work EXCEPT !.status = next, !.agentId = agent]
     /\ CASE next = "canceled" ->
               Patch([request EXCEPT !.status = IF work.showami THEN "blocked" ELSE "submitted",
                                     !.agentId = Nobody])
          [] next = "in_progress" -> UNCHANGED <<request, since>> /\ QueueRests
          [] OTHER -> Patch([request EXCEPT !.status = next, !.agentId = agent])

TimePasses ==
  /\ clock < MaxClock /\ clock' = clock + 1
  /\ At("queue", <<windows, visits>>) /\ UNCHANGED <<request, since, work, signed>>

SignedChanges ==
  /\ signed' = ~signed
  /\ At("queue", <<windows, visits>>) /\ UNCHANGED <<request, since, work, clock>>
-----------------------------------------------------------------------------
(* What the workspace shows of it. *)

\* Past 24, 48 and 12 hours; the request was created at 0.
Stale ==
  \/ request.status = "submitted" /\ clock - Older(request.submittedAt, 0) > 2
  \/ request.status = "blocked" /\ clock - request.updatedAt > 4
  \/ request.status = "assigned" /\ clock - Older(request.assignedAt, 0) > 1

Bucket ==
  IF request.status = "submitted"
    THEN IF request.agentId = Nobody THEN "incoming" ELSE "none"
    ELSE IF request.status \in ActiveStatuses THEN request.status ELSE "none"

Failures ==  \* detectPrerequisiteFailures, of the agreement as it is now
  (IF signed THEN {} ELSE {"missing_agreement"})
  \cup (IF Stale /\ request.status = "submitted" /\ request.agentId = Nobody
          THEN {"no_agent_coverage"} ELSE {})
  \cup (IF Stale THEN {request.status} ELSE {})

Ages == {"all", "last_24h", "older_than_24h", "older_than_48h", "stale"}
Filters ==  \* what the address of the page may ask for
  [status : ActiveStatuses \cup {"all"}, assignment : {"all", "unassigned", "assigned"},
   age : Ages, failing : BOOLEAN]

OfAge(age) == CASE age = "all" -> TRUE
                [] age = "last_24h" -> clock <= 2
                [] age = "older_than_24h" -> clock >= 2
                [] age = "older_than_48h" -> clock >= 4
                [] age = "stale" -> Stale

\* applyCoordinationFilters, over the active requests unless a status is named.
Listed(f) ==
  /\ request.status \in IF f.status = "all" THEN ActiveStatuses ELSE {f.status}
  /\ f.assignment # "all" => (request.agentId = Nobody) = (f.assignment = "unassigned")
  /\ OfAge(f.age)
  /\ f.failing => Failures # {}
-----------------------------------------------------------------------------
(* Windows: the instants asked for, as the row keeps them twice, and their *)
(* normal form.  A row of before the normal form has none.                 *)

WindowsRest == At("windows", <<clock, request, since, work, signed, visits>>)
NoForm == [startUtc |-> 0, endUtc |-> 0, duration |-> 0]
NoCap == 0 - 1

\* buildAvailabilityWindowState: one week at most, and no longer than the cap.
IsValid(from, to, cap) == to > from /\ to - from <= MaxSpan /\ (cap # NoCap => to - from <= cap)
Form(from, to) == [startUtc |-> from, endUtc |-> to, duration |-> to - from]

CreateWindow(from, to, cap) ==
  /\ Len(windows) < MaxWindows /\ IsValid(from, to, cap)
  /\ windows' = Append(windows, [startAt |-> from, endAt |-> to, form |-> Form(from, to),
                                 cap |-> cap, status |-> "available"])
  /\ WindowsRest

\* updateWindow: what is not named stays; constraints are replaced as a whole.
\* Naming none of the times and no constraints leaves the normal form as it is.
UpdateWindow(w, from, to, cap) ==
  /\ IsValid(from, to, cap)
  /\ windows' = [windows EXCEPT ![w] =
       [startAt |-> from, endAt |-> to, cap |-> cap, status |-> @.status,
        form |-> IF from # @.startAt \/ to # @.endAt \/ cap # @.cap THEN Form(from, to) ELSE @.form]]
  /\ WindowsRest

\* deleteWindow, and a status patched by updateWindow.
SetStatus(w, status) == windows' = [windows EXCEPT ![w].status = status] /\ WindowsRest

Hydrated(row) == IF row.form = NoForm THEN Form(row.startAt, row.endAt) ELSE row.form
InRange(w, from, to) ==
  Hydrated(windows[w]).startUtc < to /\ from < Hydrated(windows[w]).endUtc
-----------------------------------------------------------------------------
(* Visitors: rows of one visitor for one event. *)

VisitsRest == At("visits", <<clock, request, since, work, signed, windows>>)
LiveVisit == {"created", "reminded"}
With(statuses) == {i \in DOMAIN visits : visits[i].status \in statuses}

From == [reminded |-> {"created"}, attended |-> LiveVisit, noShow |-> LiveVisit,
         canceled |-> LiveVisit, converted |-> LiveVisit \cup {"attended", "noShow"}]

\* A conversion answers with itself, a live row is used again.
Register ==
  /\ IF With({"converted"}) # {} \/ With(LiveVisit) # {} THEN UNCHANGED visits
     ELSE Len(visits) < MaxVisits
          /\ visits' = Append(visits, [status |-> "created", after |-> With({"converted"})])
  /\ VisitsRest

Move(i, to) ==
  visits[i].status \in From[to] /\ visits' = [visits EXCEPT ![i].status = to] /\ VisitsRest

\* What the shared logic of the page allows, of which the mutations have a copy.
CanTransition ==
  [created |-> {"reminded", "attended", "noShow", "converted", "canceled"},
   reminded |-> {"attended", "noShow", "converted", "canceled"},
   attended |-> {"converted"}, noShow |-> {"converted"}, converted |-> {}, canceled |-> {}]

MarkReminded(i) == Move(i, "reminded")
MarkAttended(i) == Move(i, "attended")
MarkNoShow(i) == Move(i, "noShow")
CancelVisit(i) == Move(i, "canceled")
RecordConversion(i) == Move(i, "converted")
-----------------------------------------------------------------------------
ShowingDeskInit ==
  /\ station = "none" /\ clock = 0 /\ since = 0 /\ work = NoWork /\ signed = FALSE
  /\ request = [status |-> "draft", agentId |-> Nobody, submittedAt |-> Never,
                assignedAt |-> Never, updatedAt |-> 0]
  /\ windows = <<[startAt |-> 0, endAt |-> 1, form |-> NoForm, cap |-> NoCap,
                  status |-> "available"]>>
  /\ visits = <<>>

Instants == 0 .. MaxInstant

ShowingDeskNext ==
  \/ Submit \/ HandMade \/ TimePasses \/ SignedChanges
  \/ \E g \in Agents : AssignAgent(g)
  \/ \E g \in Agents \cup {Nobody} :
       \/ \E showami \in BOOLEAN : CreateAssignmentRecord(g, showami)
       \/ \E next \in {"confirmed", "in_progress", "completed", "canceled"} : AdvanceAssignment(next, g)
  \/ \E from, to \in Instants, cap \in {NoCap, 1} :
       \/ CreateWindow(from, to, cap)
       \/ \E w \in DOMAIN windows : UpdateWindow(w, from, to, cap)
  \/ \E w \in DOMAIN windows, status \in {"available", "unavailable"} : SetStatus(w, status)
  \/ Register
  \/ \E i \in DOMAIN visits : \/ MarkReminded(i) \/ MarkAttended(i) \/ MarkNoShow(i)
                              \/ CancelVisit(i) \/ RecordConversion(i)

ShowingDeskSpec == ShowingDeskInit /\ [][ShowingDeskNext]_deskOfShowings
-----------------------------------------------------------------------------
\* Every active request stands in a bucket, but one: it has an agent of before,
\* and its assignment waits in the broker's queue, so that it is not routed again
\* either.  The list shows that one too, and finds no agent missing.
NoRequestOverlooked ==
  /\ request.status \in ActiveStatuses /\ Bucket = "none" =>
       /\ request.status = "submitted" /\ work.queue /\ work.status = "pending"
       /\ "no_agent_coverage" \notin Failures
  /\ \A f \in Filters :
       Listed(f) <=>
         /\ Bucket # "none" \/ request.status = "submitted"
         /\ f.status \in {"all", request.status}
         /\ (f.assignment = "unassigned" => request.agentId = Nobody)
         /\ (f.assignment = "assigned" => Bucket # "incoming" /\ request.agentId # Nobody)
         /\ (f.age = "stale" => Failures # {} /\ Stale) /\ OfAge(f.age)
         /\ (f.failing => Stale \/ ~signed)

\* A request that waits too long in its status is called stale: at once when it was
\* submitted or, while nobody routed it again, blocked or assigned; and one that is
\* blocked or assigned is never called so too early.
StaleIsTrue ==
  /\ request.status = "submitted" /\ clock - since > 2 => Stale
  /\ request.status = "blocked" /\ Stale => clock - since > 4
  /\ request.status = "assigned" /\ Stale => clock - since > 1
  /\ request.status \in {"blocked", "assigned"} /\ since = request.updatedAt =>
       (Stale <=> clock - since > IF request.status = "blocked" THEN 4 ELSE 1)

\* However a window was patched, its two forms tell the same instants, it has a
\* length its constraints allow, and a search finds it just where the instants
\* asked for overlap what is searched.
WindowsTrue ==
  \A w \in DOMAIN windows :
    LET row == windows[w]
    IN /\ row.form # NoForm => row.form = Form(row.startAt, row.endAt)
       /\ IsValid(row.startAt, row.endAt, row.cap)
       /\ \A from \in Instants : \A to \in (from + 1) .. MaxInstant :
            InRange(w, from, to) <=> \E t \in Instants : /\ from <= t /\ t < to
                                                         /\ row.startAt <= t /\ t < row.endAt

\* A visitor has one live row at most, the youngest, and no row that was made after
\* a conversion; and the mutations allow just what the page does.
VisitorsTold ==
  \A i \in DOMAIN visits :
    /\ visits[i].after = {}
    /\ visits[i].status \in LiveVisit => i = Len(visits)
    /\ \A to \in DOMAIN From : visits[i].status \in From[to] <=> to \in CanTransition[visits[i].status]

ShowingDeskSound == NoRequestOverlooked /\ StaleIsTrue /\ WindowsTrue /\ VisitorsTold
=============================================================================
