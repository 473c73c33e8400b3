----------------------------- MODULE TourWorkflow -----------------------------
(***************************************************************************)
(* Tour requests of one buyer, the agent assignments that serve them, the  *)
(* tours they execute and the payouts they owe: convex/tourRequests.ts,    *)
(* convex/agentCoverage.ts, convex/lib/tourWorkflow.ts, convex/tours.ts    *)
(* and convex/showingPayouts.ts.                                           *)
(*                                                                         *)
(* One action per mutation, with the conditions under which it throws as   *)
(* guards.  Buyer, brokers and the Showami sync call them in any order.    *)
(***************************************************************************)
EXTENDS Naturals, FiniteSets

CONSTANTS
  MaxRequests, MaxAssignments, MaxTours,  \* bounds on the rows of the tables
  Properties,   \* properties, each with the buyer's one deal room for it
  Agents,       \* users that can be attached to a showing
  NoAgent,      \* an agentId that is undefined
  FallbackIds,  \* ids that Showami gives its bookings
  NoFallback,   \* a showamiFallbackId that is undefined
  Types         \* types of agreements the buyer may sign

ASSUME TourAssumption ==
  /\ {MaxRequests, MaxAssignments, MaxTours} \subseteq Nat
  /\ NoAgent \notin Agents
  /\ NoFallback \notin FallbackIds

RequestIds == 1 .. MaxRequests
AssignmentIds == 1 .. MaxAssignments
TourIds == 1 .. MaxTours
None == 0                                  \* an id field that is undefined

RequestStates == {"draft", "submitted", "blocked", "assigned", "confirmed",
                  "completed", "canceled", "failed"}
AssignmentStates == {"pending", "confirmed", "in_progress", "completed",
                     "canceled"}
TourStates == {"requested", "confirmed", "completed", "canceled", "no_show"}

Request == [propertyId          : Properties,
            status              : RequestStates,
            currentAssignmentId : AssignmentIds \cup {None},
            linkedTourId        : TourIds \cup {None}]
Assignment == [tourId            : TourIds,
               tourRequestId     : RequestIds,
               agentId           : Agents \cup {NoAgent},
               showamiFallbackId : FallbackIds \cup {NoFallback},
               status            : AssignmentStates]
Tour == [propertyId    : Properties,
         tourRequestId : RequestIds \cup {None},
         status        : TourStates]

Absent == [status |-> "absent"]            \* an id that no row has yet

VARIABLES
  requests,     \* tourRequests
  assignments,  \* tourAssignments
  tours,        \* tours
  payouts,      \* tourAssignmentId -> agentId of its showingPayouts row
  signedTypes   \* the types of the buyer's signed agreements

vars == <<requests, assignments, tours, payouts, signedTypes>>
-----------------------------------------------------------------------------
(***************************************************************************)
(* The two state machines.                                                 *)
(***************************************************************************)
Legal == [draft     |-> {"submitted", "canceled"},
          submitted |-> {"blocked", "assigned", "canceled", "failed"},
          blocked   |-> {"submitted", "assigned", "canceled", "failed"},
          assigned  |-> {"blocked", "submitted", "confirmed", "canceled", "failed"},
          confirmed |-> {"blocked", "submitted", "completed", "canceled", "failed"},
          completed |-> {}, canceled |-> {}, failed |-> {}]

LegalAssignment == [pending     |-> {"confirmed", "canceled"},
                    confirmed   |-> {"in_progress", "canceled"},
                    in_progress |-> {"completed", "canceled"},
                    completed   |-> {}, canceled |-> {}]

Active == {"pending", "confirmed", "in_progress"}
OpenRequest == {"draft", "submitted", "blocked", "assigned", "confirmed"}
NeedsAgent == {"confirmed", "in_progress", "completed"}

Rows(t) == {i \in DOMAIN t : t[i] # Absent}
IsNextId(t, i) == Rows(t) = 1 .. (i - 1)

ActiveAssignments(q) ==
  {a \in Rows(assignments) : /\ assignments[a].tourRequestId = q
                             /\ assignments[a].status \in Active}
-----------------------------------------------------------------------------
(***************************************************************************)
(* tourRequests.ts: the request envelope.                                  *)
(***************************************************************************)
OnlyRequests == UNCHANGED <<assignments, tours, payouts, signedTypes>>

\* A mutation that moves a request from one of a few states to the next.
Advance(q, from, row) ==
  /\ q \in Rows(requests)
  /\ requests[q].status \in from
  /\ row.status \in Legal[requests[q].status]
  /\ requests' = [requests EXCEPT ![q] = row]
  /\ OnlyRequests

\* A signed agreement and no other open request for the property.
CreateDraft(q, p) ==
  /\ IsNextId(requests, q)
  /\ signedTypes # {}
  /\ \A r \in Rows(requests) :
       requests[r].propertyId = p => requests[r].status \notin OpenRequest
  /\ requests' = [requests EXCEPT ![q] =
                    [propertyId |-> p, status |-> "draft",
                     currentAssignmentId |-> None, linkedTourId |-> None]]
  /\ OnlyRequests

\* The agreement is looked up again: it may be gone since the draft.
Submit(q) ==
  /\ signedTypes # {}
  /\ Advance(q, {"draft"}, [requests[q] EXCEPT !.status = "submitted"])

Unblock(q) ==
  Advance(q, {"blocked"}, [requests[q] EXCEPT !.status = "submitted"])

MarkBlocked(q) ==
  Advance(q, {"submitted"}, [requests[q] EXCEPT !.status = "blocked"])

AssignAgent(q) ==
  Advance(q, {"submitted"}, [requests[q] EXCEPT !.status = "assigned"])

\* The linked tour, if any, must show the property of the request.
Confirm(q, t) ==
  /\ t # None => /\ t \in Rows(tours)
                 /\ tours[t].propertyId = requests[q].propertyId
  /\ Advance(q, {"assigned"}, [requests[q] EXCEPT !.status = "confirmed",
                                                  !.linkedTourId = t])

MarkCompleted(q) ==
  Advance(q, {"confirmed"}, [requests[q] EXCEPT !.status = "completed"])

Cancel(q) ==
  Advance(q, OpenRequest, [requests[q] EXCEPT !.status = "canceled"])

MarkFailed(q) ==
  Advance(q, OpenRequest \ {"draft"}, [requests[q] EXCEPT !.status = "failed"])
-----------------------------------------------------------------------------
(***************************************************************************)
(* agentCoverage.ts and lib/tourWorkflow.ts: assignments.                  *)
(***************************************************************************)

\* A routing decision: the network and a preferred agent always come with an
\* agent, Showami with its booking id and perhaps an agent, and the manual
\* queue with neither.
Routing(path, g, f) ==
  [routingPath |-> path, agentId |-> g, showamiFallbackId |-> f]

ShowamiRoutings == {Routing("showami", g, f) : g \in Agents \cup {NoAgent},
                                               f \in FallbackIds}
ManualRoutings == {Routing("manual", g, NoFallback) : g \in Agents \cup {NoAgent}}
NetworkRoutings == {Routing("network", g, NoFallback) : g \in Agents}

InBrokerQueue(routing) ==
  routing.routingPath = "manual" /\ routing.agentId = NoAgent

\* ensureCanonicalTourForRequest: the linked tour, or a new one with id t.
EnsureCanonicalTour(q, t) ==
  LET linked == requests[q].linkedTourId IN
  IF linked # None
    THEN tours' = [tours EXCEPT ![linked].tourRequestId = q]
    ELSE /\ IsNextId(tours, t)
         /\ tours' = [tours EXCEPT ![t] =
                        [propertyId |-> requests[q].propertyId,
                         tourRequestId |-> q, status |-> "requested"]]

\* Mutant: the status of the request is taken to tell of an assignment.
HasActiveAssignment_ByStatus(q) ==
  requests[q].status \in {"assigned", "confirmed"}
HasActiveAssignment(q) == ActiveAssignments(q) # {}

\* createAssignmentRecord.  The request is replaced as a whole by the copy
\* read before the tour was created, so the linkedTourId that
\* ensureCanonicalTourForRequest has just patched in is lost again.
CreateAssignmentRecord(q, a, t, routing) ==
  LET linked == requests[q].linkedTourId IN
  /\ IsNextId(assignments, a)
  /\ EnsureCanonicalTour(q, t)
  /\ ~HasActiveAssignment(q)
  /\ assignments' = [assignments EXCEPT ![a] =
       [tourId |-> IF linked # None THEN linked ELSE t,
        tourRequestId |-> q, agentId |-> routing.agentId,
        showamiFallbackId |-> routing.showamiFallbackId, status |-> "pending"]]
  /\ requests' = [requests EXCEPT ![q] =
       [@ EXCEPT !.status = IF InBrokerQueue(routing) THEN "blocked" ELSE "assigned",
                 !.currentAssignmentId = a]]
  /\ UNCHANGED <<payouts, signedTypes>>

RouteTourRequest(q, a, t, routing) ==
  /\ requests[q].status \in {"submitted", "blocked", "assigned"}
  /\ routing \in NetworkRoutings \cup ShowamiRoutings \cup ManualRoutings
  /\ CreateAssignmentRecord(q, a, t, routing)

\* The next two do not look at the status of the request.
RecordAssignmentFromShowami(q, a, t, routing) ==
  /\ routing \in ShowamiRoutings
  /\ CreateAssignmentRecord(q, a, t, routing)

RecordManualAssignment(q, a, t, routing) ==
  /\ routing \in ManualRoutings
  /\ CreateAssignmentRecord(q, a, t, routing)

\* syncCanonicalStateFromAssignment: the request follows its assignment a,
\* from whatever status it has.
SyncedRequest(row, a, next, blocked) ==
  CASE next = "canceled" ->
         [row EXCEPT !.status = IF blocked THEN "blocked" ELSE "submitted",
                     !.currentAssignmentId = None]
    [] next \in {"confirmed", "completed"} ->
         [row EXCEPT !.status = next, !.currentAssignmentId = a]
    [] OTHER -> row

\* ... and so does the tour, which has no "in_progress".
SyncedTour(row, next) ==
  CASE next = "canceled" -> [row EXCEPT !.status = "requested"]
    [] next \in {"confirmed", "completed"} -> [row EXCEPT !.status = next]
    [] OTHER -> row

\* Mutant: the payee is read before the sync has patched the agent.
CreatePayoutObligation_StaleAgent(a, next, agent) ==
  IF next = "completed"
    THEN /\ payouts[a] = NoAgent
         /\ assignments[a].agentId # NoAgent
         /\ payouts' = [payouts EXCEPT ![a] = assignments[a].agentId]
    ELSE UNCHANGED payouts

\* createPayoutObligationCore throws unless the assignment is completed, has
\* an agent and has no payout.
CreatePayoutObligation(a, next, agent) ==
  IF next = "completed"
    THEN /\ payouts[a] = NoAgent
         /\ agent # NoAgent
         /\ payouts' = [payouts EXCEPT ![a] = agent]
    ELSE UNCHANGED payouts

CanTransitionAssignment(from, next) == next \in LegalAssignment[from]

\* What updateAssignmentStatus and syncShowamiStatus share.
AdvanceAssignment(a, next, agent, blocked) ==
  LET row == assignments[a] IN
  /\ CanTransitionAssignment(row.status, next)
  /\ next \in NeedsAgent => agent # NoAgent
  /\ assignments' = [assignments EXCEPT ![a] =
                       [@ EXCEPT !.status = next, !.agentId = agent]]
  /\ requests' = [requests EXCEPT ![row.tourRequestId] =
                    SyncedRequest(@, a, next, blocked)]
  /\ tours' = [tours EXCEPT ![row.tourId] = SyncedTour(@, next)]
  /\ CreatePayoutObligation(a, next, agent)
  /\ UNCHANGED signedTypes

UpdateAssignmentStatus(a, next) ==
  AdvanceAssignment(a, next, assignments[a].agentId, FALSE)

\* The lookup by booking id throws when two assignments carry it.
SyncShowamiStatus(f, a, next, g) ==
  /\ {b \in Rows(assignments) : assignments[b].showamiFallbackId = f} = {a}
  /\ AdvanceAssignment(a, next, IF g # NoAgent THEN g ELSE assignments[a].agentId,
                       next = "canceled")
-----------------------------------------------------------------------------
(***************************************************************************)
(* tours.ts and the agreements of the buyer.                               *)
(***************************************************************************)
RequestTour(t, p) ==
  /\ "tour_pass" \in signedTypes
  /\ IsNextId(tours, t)
  /\ tours' = [tours EXCEPT ![t] = [propertyId |-> p, tourRequestId |-> None,
                                    status |-> "requested"]]
  /\ UNCHANGED <<requests, assignments, payouts, signedTypes>>

UpdateTourStatus(t, next) ==
  /\ \/ tours[t].status = "requested" /\ next \in {"confirmed", "canceled"}
     \/ tours[t].status = "confirmed" /\ next \in {"completed", "canceled", "no_show"}
  /\ tours' = [tours EXCEPT ![t].status = next]
  /\ UNCHANGED <<requests, assignments, payouts, signedTypes>>

\* Agreements are signed, canceled and replaced meanwhile.
AgreementsChange(S) ==
  /\ signedTypes' = S
  /\ signedTypes' # signedTypes
  /\ UNCHANGED <<requests, assignments, tours, payouts>>
-----------------------------------------------------------------------------
Init ==
  /\ requests = [q \in RequestIds |-> Absent]
  /\ assignments = [a \in AssignmentIds |-> Absent]
  /\ tours = [t \in TourIds |-> Absent]
  /\ payouts = [a \in AssignmentIds |-> NoAgent]
  /\ signedTypes = {}

RequestStep ==
  \/ \E q \in RequestIds, p \in Properties : CreateDraft(q, p)
  \/ \E q \in Rows(requests) :
       \/ Submit(q) \/ Unblock(q) \/ MarkBlocked(q) \/ AssignAgent(q)
       \/ \E t \in TourIds \cup {None} : Confirm(q, t)
       \/ MarkCompleted(q) \/ Cancel(q) \/ MarkFailed(q)

AssignmentStep ==
  \/ \E q \in Rows(requests), a \in AssignmentIds, t \in TourIds :
       \/ \E routing \in NetworkRoutings \cup ShowamiRoutings \cup ManualRoutings :
            RouteTourRequest(q, a, t, routing)
       \/ \E routing \in ShowamiRoutings : RecordAssignmentFromShowami(q, a, t, routing)
       \/ \E routing \in ManualRoutings : RecordManualAssignment(q, a, t, routing)
  \/ \E a \in Rows(assignments), next \in AssignmentStates :
       \/ UpdateAssignmentStatus(a, next)
       \/ \E f \in FallbackIds, g \in Agents \cup {NoAgent} :
            SyncShowamiStatus(f, a, next, g)

Next ==
  \/ RequestStep
  \/ AssignmentStep
  \/ \E t \in TourIds, p \in Properties : RequestTour(t, p)
  \/ \E t \in Rows(tours), next \in TourStates : UpdateTourStatus(t, next)
  \/ \E S \in SUBSET Types : AgreementsChange(S)

Spec == Init /\ [][Next]_vars
-----------------------------------------------------------------------------
\* Shape of the tables.
TypeOK ==
  /\ requests \in [RequestIds -> Request \cup {Absent}]
  /\ assignments \in [AssignmentIds -> Assignment \cup {Absent}]
  /\ tours \in [TourIds -> Tour \cup {Absent}]
  /\ payouts \in [AssignmentIds -> Agents \cup {NoAgent}]
  /\ \A q \in Rows(requests) :
       LET current == requests[q].currentAssignmentId IN
       current # None => current \in Rows(assignments)

(***************************************************************************)
(* A request has at most one active assignment and points to it, although  *)
(* five mutations of two files write the pointer or the status it stands   *)
(* for and none checks the other; and what it points to is an assignment   *)
(* of its own that was not canceled.                                       *)
(***************************************************************************)
CurrentAssignment ==
  /\ \A a \in Rows(assignments) :
       LET q == assignments[a].tourRequestId IN
       /\ q \in Rows(requests)
       /\ assignments[a].status \in Active => requests[q].currentAssignmentId = a
  /\ \A q \in Rows(requests) :
       LET current == requests[q].currentAssignmentId IN
       current # None => /\ assignments[current].tourRequestId = q
                         /\ assignments[current].status # "canceled"

(***************************************************************************)
(* A showing is paid for exactly once: an assignment has a payout just     *)
(* when it is completed, and the payout goes to the agent who is on the    *)
(* assignment now.                                                         *)
(***************************************************************************)
PaidExactlyOnce ==
  \A a \in AssignmentIds :
    /\ (assignments[a].status = "completed") <=> (payouts[a] # NoAgent)
    /\ payouts[a] # NoAgent => payouts[a] = assignments[a].agentId

(***************************************************************************)
(* The tour an assignment executes shows the property its request asked    *)
(* for, also when the tour was linked by hand or taken over from another   *)
(* request of the buyer.                                                   *)
(***************************************************************************)
ShowsRequestedProperty ==
  /\ \A a \in Rows(assignments) :
       LET t == assignments[a].tourId IN
       /\ t \in Rows(tours)
       /\ tours[t].propertyId = requests[assignments[a].tourRequestId].propertyId
  /\ \A q \in Rows(requests) :
       LET t == requests[q].linkedTourId IN
       t # None => /\ t \in Rows(tours)
                   /\ tours[t].propertyId = requests[q].propertyId

(***************************************************************************)
(* What the shared state machine of requestValidation.ts says of a         *)
(* request that is completed, canceled or failed: "the record cannot       *)
(* transition out of them".  The code breaks it through an assignment.     *)
(***************************************************************************)
TerminalRequestsStay ==
  [][\A q \in Rows(requests) :
       requests[q].status \in {"completed", "canceled", "failed"}
         => requests'[q].status = requests[q].status]_vars

\* Requests, assignments and tours point to each other as the screens of
\* buyer, broker and agent expect it.
AssignmentsSound == TypeOK /\ CurrentAssignment /\ ShowsRequestedProperty
=============================================================================
