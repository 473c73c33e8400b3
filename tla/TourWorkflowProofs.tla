-------------------------- MODULE TourWorkflowProofs --------------------------
(***************************************************************************)
(* Proofs about TourWorkflow, for any number of requests, assignments and  *)
(* tours: the invariants of its runs are inductive together; and about     *)
(* ShowingPayouts, for any number of showings, fees and months.            *)
(***************************************************************************)
EXTENDS TourWorkflow, ShowingPayouts, FiniteFacts

\* Inductive: an assignment that moves relies on the pointer to it, on the
\* payouts made so far and on the request and the tour it names.
IInv == TypeOK /\ CurrentAssignment /\ PaidExactlyOnce /\ ShowsRequestedProperty

\* Ids are positive, so no id is the undefined id, and no row is Absent.
LEMMA IdsAndRows ==
  /\ None \notin RequestIds /\ None \notin AssignmentIds /\ None \notin TourIds
  /\ Absent \notin Request /\ Absent \notin Assignment /\ Absent \notin Tour
  <1>1. /\ \A r \in Request : r.status \in RequestStates
        /\ \A r \in Assignment : r.status \in AssignmentStates
        /\ \A r \in Tour : r.status \in TourStates
    BY DEF Request, Assignment, Tour
  <1>2. /\ Absent.status \notin RequestStates
        /\ Absent.status \notin AssignmentStates
        /\ Absent.status \notin TourStates
    BY DEF Absent, RequestStates, AssignmentStates, TourStates
  <1> QED
    BY <1>1, <1>2 DEF None, RequestIds, AssignmentIds, TourIds

\* The rows of the tables have the type of their table.
LEMMA RowTypes ==
  ASSUME TypeOK
  PROVE  /\ \A q \in Rows(requests) : q \in RequestIds /\ requests[q] \in Request
         /\ \A a \in Rows(assignments) :
              a \in AssignmentIds /\ assignments[a] \in Assignment
         /\ \A t \in Rows(tours) : t \in TourIds /\ tours[t] \in Tour
         /\ Rows(requests) = {q \in RequestIds : requests[q] # Absent}
         /\ Rows(assignments) = {a \in AssignmentIds : assignments[a] # Absent}
         /\ Rows(tours) = {t \in TourIds : tours[t] # Absent}
  BY DEF TypeOK, Rows

\* The id handed out by an insert has no row yet.
LEMMA NextIdIsFree ==
  ASSUME NEW t, NEW i \in Nat, IsNextId(t, i)
  PROVE  i \notin Rows(t)
  BY DEF IsNextId

\* The empty tables satisfy the invariant.
LEMMA InitIInv == Init => IInv
  BY TourAssumption, IdsAndRows
     DEF Init, IInv, TypeOK, CurrentAssignment, PaidExactlyOnce,
         ShowsRequestedProperty, Rows, Absent

(***************************************************************************)
(* A step that writes one request, keeps its property and its current      *)
(* assignment if it has a row already, and links at most a tour that shows *)
(* its property.                                                           *)
(***************************************************************************)
LEMMA RequestStepKeeps ==
  ASSUME IInv, OnlyRequests,
         NEW q \in RequestIds, NEW row \in Request,
         requests' = [requests EXCEPT ![q] = row],
         q \in Rows(requests) =>
           /\ row.propertyId = requests[q].propertyId
           /\ row.currentAssignmentId = requests[q].currentAssignmentId,
         q \notin Rows(requests) => row.currentAssignmentId = None,
         row.linkedTourId # None =>
           /\ row.linkedTourId \in Rows(tours)
           /\ tours[row.linkedTourId].propertyId = row.propertyId
  PROVE  IInv'
  <1>1. /\ requests' \in [RequestIds -> Request \cup {Absent}]
        /\ requests'[q] = row
        /\ \A r \in RequestIds : r # q => requests'[r] = requests[r]
    BY DEF IInv, TypeOK
  <1>2. Rows(requests') = Rows(requests) \cup {q}
    BY <1>1, IdsAndRows DEF Rows
  <1>3. UNCHANGED <<assignments, tours, payouts>>
    BY DEF OnlyRequests
  <1>4. \A a \in Rows(assignments) :
          /\ assignments[a].tourRequestId \in Rows(requests)
          /\ assignments[a].tourRequestId \in RequestIds
    BY RowTypes DEF IInv, CurrentAssignment
  <1>5. \A r \in Rows(requests) :
          /\ requests'[r].propertyId = requests[r].propertyId
          /\ requests'[r].currentAssignmentId = requests[r].currentAssignmentId
    BY <1>1, RowTypes DEF IInv
  <1>6. \A r \in Rows(requests') :
          \/ r \in Rows(requests)
          \/ r = q /\ requests'[r].currentAssignmentId = None
    BY <1>1, <1>2
  <1>7. TypeOK'
    BY <1>1, <1>3, <1>5, <1>6 DEF IInv, TypeOK
  <1>8. CurrentAssignment'
    <2>1. \A a \in Rows(assignments) :
            LET r == assignments[a].tourRequestId IN
            /\ r \in Rows(requests')
            /\ assignments[a].status \in Active => requests'[r].currentAssignmentId = a
      BY <1>2, <1>4, <1>5 DEF IInv, CurrentAssignment
    <2>2. \A r \in Rows(requests') :
            LET current == requests'[r].currentAssignmentId IN
            current # None => /\ assignments[current].tourRequestId = r
                              /\ assignments[current].status # "canceled"
      BY <1>5, <1>6 DEF IInv, CurrentAssignment
    <2> QED
      BY <1>3, <2>1, <2>2 DEF CurrentAssignment
  <1>9. PaidExactlyOnce'
    BY <1>3 DEF IInv, PaidExactlyOnce
  <1>10. ShowsRequestedProperty'
    <2>1. \A a \in Rows(assignments) :
            LET t == assignments[a].tourId IN
            /\ t \in Rows(tours)
            /\ tours[t].propertyId = requests'[assignments[a].tourRequestId].propertyId
      BY <1>4, <1>5 DEF IInv, ShowsRequestedProperty
    <2>2. \A r \in Rows(requests') :
            LET t == requests'[r].linkedTourId IN
            t # None => /\ t \in Rows(tours)
                        /\ tours[t].propertyId = requests'[r].propertyId
      BY <1>1, <1>2, RowTypes DEF IInv, ShowsRequestedProperty
    <2> QED
      BY <1>3, <2>1, <2>2 DEF ShowsRequestedProperty
  <1> QED
    BY <1>7, <1>8, <1>9, <1>10 DEF IInv

\* A step of Advance that keeps the link.
LEMMA AdvanceKeeps ==
  ASSUME IInv, NEW q, NEW from, NEW row,
         Advance(q, from, row),
         q \in Rows(requests) =>
           /\ row \in Request
           /\ row.propertyId = requests[q].propertyId
           /\ row.currentAssignmentId = requests[q].currentAssignmentId
           /\ row.linkedTourId # None =>
                /\ row.linkedTourId \in Rows(tours)
                /\ tours[row.linkedTourId].propertyId = row.propertyId
  PROVE  IInv'
  <1>1. q \in Rows(requests) /\ q \in RequestIds
    BY RowTypes DEF Advance, IInv
  <1> QED
    BY <1>1, RequestStepKeeps DEF Advance

\* createDraft: a new request, with nothing assigned and nothing linked.
LEMMA CreateDraftStep ==
  ASSUME IInv, NEW q \in RequestIds, NEW p \in Properties, CreateDraft(q, p)
  PROVE  IInv'
  <1> DEFINE row == [propertyId |-> p, status |-> "draft",
                     currentAssignmentId |-> None, linkedTourId |-> None]
  <1>1. row \in Request
    BY DEF Request, RequestStates
  <1>2. q \notin Rows(requests)
    BY NextIdIsFree DEF CreateDraft, RequestIds
  <1>3. /\ requests' = [requests EXCEPT ![q] = row] /\ OnlyRequests
        /\ row.currentAssignmentId = None /\ row.linkedTourId = None
    BY DEF CreateDraft
  <1> HIDE DEF row
  <1> QED
    BY <1>1, <1>2, <1>3, RequestStepKeeps

\* The moves of a request that write its status only.
LEMMA StatusSteps ==
  ASSUME IInv, NEW q \in Rows(requests),
         \/ Submit(q) \/ Unblock(q) \/ MarkBlocked(q) \/ AssignAgent(q)
         \/ MarkCompleted(q) \/ Cancel(q) \/ MarkFailed(q)
  PROVE  IInv'
  <1> DEFINE row == requests[q]
  <1>1. row \in Request
    BY RowTypes DEF IInv
  <1>2. row.linkedTourId # None =>
          /\ row.linkedTourId \in Rows(tours)
          /\ tours[row.linkedTourId].propertyId = row.propertyId
    BY DEF IInv, ShowsRequestedProperty
  <1>3. \A st \in RequestStates : \A from :
          Advance(q, from, [row EXCEPT !.status = st]) => IInv'
    <2> SUFFICES ASSUME NEW st \in RequestStates, NEW from,
                        Advance(q, from, [row EXCEPT !.status = st])
                 PROVE  IInv'
      OBVIOUS
    <2> DEFINE next == [row EXCEPT !.status = st]
    <2>1. /\ next \in Request
          /\ next.propertyId = row.propertyId
          /\ next.currentAssignmentId = row.currentAssignmentId
          /\ next.linkedTourId = row.linkedTourId
      BY <1>1 DEF Request
    <2>2. Advance(q, from, next)
      OBVIOUS
    <2> HIDE DEF next
    <2> QED
      BY <1>2, <2>1, <2>2, AdvanceKeeps
  <1>4. {"submitted", "blocked", "assigned", "completed", "canceled", "failed"}
          \subseteq RequestStates
    BY DEF RequestStates
  <1> QED
    BY <1>3, <1>4
       DEF Submit, Unblock, MarkBlocked, AssignAgent, MarkCompleted, Cancel, MarkFailed

\* confirm: the tour that is linked shows the property of the request.
LEMMA ConfirmStep ==
  ASSUME IInv, NEW q \in Rows(requests), NEW t \in TourIds \cup {None}, Confirm(q, t)
  PROVE  IInv'
  <1> DEFINE row == [requests[q] EXCEPT !.status = "confirmed", !.linkedTourId = t]
  <1>1. requests[q] \in Request
    BY RowTypes DEF IInv
  <1>2. /\ row \in Request
        /\ row.propertyId = requests[q].propertyId
        /\ row.currentAssignmentId = requests[q].currentAssignmentId
        /\ row.linkedTourId = t
    BY <1>1 DEF Request, RequestStates
  <1>3. /\ Advance(q, {"assigned"}, row)
        /\ t # None => t \in Rows(tours) /\ tours[t].propertyId = requests[q].propertyId
    BY DEF Confirm
  <1> HIDE DEF row
  <1> QED
    BY <1>2, <1>3, AdvanceKeeps

(***************************************************************************)
(* Recording an assignment: the new one is the only active one, and it is  *)
(* on the canonical tour of its request.                                   *)
(***************************************************************************)
LEMMA CreateAssignmentStep ==
  ASSUME IInv, NEW q \in Rows(requests), NEW a \in AssignmentIds, NEW t \in TourIds,
         NEW routing, routing.agentId \in Agents \cup {NoAgent},
         routing.showamiFallbackId \in FallbackIds \cup {NoFallback},
         CreateAssignmentRecord(q, a, t, routing)
  PROVE  IInv'
  <1> DEFINE linked == requests[q].linkedTourId
             tour == IF linked # None THEN linked ELSE t
             row == [tourId |-> tour, tourRequestId |-> q,
                     agentId |-> routing.agentId,
                     showamiFallbackId |-> routing.showamiFallbackId,
                     status |-> "pending"]
  <1>1. a \notin Rows(assignments)
    BY NextIdIsFree DEF CreateAssignmentRecord, AssignmentIds
  <1>2. /\ q \in RequestIds /\ requests[q] \in Request
        /\ linked # None => /\ linked \in Rows(tours) /\ linked \in TourIds
                            /\ tours[linked] \in Tour
                            /\ tours[linked].propertyId = requests[q].propertyId
    BY RowTypes DEF IInv, ShowsRequestedProperty
  <1>3. /\ tours' \in [TourIds -> Tour \cup {Absent}]
        /\ Rows(tours') = Rows(tours) \cup {tour}
        /\ tour \in TourIds
        /\ tours'[tour].propertyId = requests[q].propertyId
        /\ \A u \in Rows(tours) : tours'[u].propertyId = tours[u].propertyId
    <2>1. CASE linked # None
      <3>1. /\ tours' = [tours EXCEPT ![linked].tourRequestId = q] /\ tour = linked
        BY <2>1 DEF CreateAssignmentRecord, EnsureCanonicalTour
      <3>2. [tours[linked] EXCEPT !.tourRequestId = q] \in Tour
        BY <1>2, <2>1 DEF Tour
      <3> QED
        BY <1>2, <2>1, <3>1, <3>2, RowTypes, IdsAndRows DEF IInv, TypeOK, Rows, Tour
    <2>2. CASE linked = None
      <3> DEFINE new == [propertyId |-> requests[q].propertyId,
                         tourRequestId |-> q, status |-> "requested"]
      <3>1. tours' = [tours EXCEPT ![t] = new] /\ tour = t /\ IsNextId(tours, t)
        BY <2>2 DEF CreateAssignmentRecord, EnsureCanonicalTour
      <3>2. new \in Tour /\ new.propertyId = requests[q].propertyId
        BY <1>2 DEF Tour, Request, TourStates
      <3>3. t \notin Rows(tours)
        BY <3>1, NextIdIsFree DEF TourIds
      <3> HIDE DEF new
      <3> QED
        BY <3>1, <3>2, <3>3, IdsAndRows DEF IInv, TypeOK, Rows
    <2> QED
      BY <2>1, <2>2
  <1>4. row \in Assignment
    BY <1>2, <1>3 DEF Assignment, AssignmentStates
  <1>5. /\ assignments' = [assignments EXCEPT ![a] = row]
        /\ \A b \in Rows(assignments) :
             assignments[b].tourRequestId = q => assignments[b].status \notin Active
        /\ payouts' = payouts
    BY DEF CreateAssignmentRecord, HasActiveAssignment, ActiveAssignments
  <1>6. /\ row.tourId = tour /\ row.tourRequestId = q /\ row.status = "pending"
    OBVIOUS
  <1> HIDE DEF row
  <1>7. /\ assignments' \in [AssignmentIds -> Assignment \cup {Absent}]
        /\ assignments'[a] = row
        /\ \A b \in AssignmentIds : b # a => assignments'[b] = assignments[b]
        /\ Rows(assignments') = Rows(assignments) \cup {a}
    BY <1>4, <1>5, IdsAndRows DEF IInv, TypeOK, Rows
  <1>8. \E st \in RequestStates :
          requests' = [requests EXCEPT ![q] =
                         [@ EXCEPT !.status = st, !.currentAssignmentId = a]]
    BY DEF CreateAssignmentRecord, RequestStates
  <1>9. /\ requests' \in [RequestIds -> Request \cup {Absent}]
        /\ requests'[q].currentAssignmentId = a
        /\ requests'[q].propertyId = requests[q].propertyId
        /\ requests'[q].linkedTourId = linked
        /\ \A r \in RequestIds : r # q => requests'[r] = requests[r]
        /\ Rows(requests') = Rows(requests)
    <2> PICK st \in RequestStates :
          requests' = [requests EXCEPT ![q] =
                         [@ EXCEPT !.status = st, !.currentAssignmentId = a]]
      BY <1>8
    <2>1. [requests[q] EXCEPT !.status = st, !.currentAssignmentId = a] \in Request
      BY <1>2 DEF Request
    <2>2. /\ requests' \in [RequestIds -> Request \cup {Absent}]
          /\ requests'[q] = [requests[q] EXCEPT !.status = st, !.currentAssignmentId = a]
          /\ \A r \in RequestIds : r # q => requests'[r] = requests[r]
      BY <1>2, <2>1 DEF IInv, TypeOK
    <2>3. Rows(requests') = Rows(requests)
      BY <1>2, <2>1, <2>2, RowTypes, IdsAndRows DEF IInv, Rows
    <2> QED
      BY <1>2, <2>2, <2>3 DEF Request
  <1> HIDE DEF tour
  <1>10. TypeOK'
    <2>1. payouts' \in [AssignmentIds -> Agents \cup {NoAgent}]
      BY <1>5 DEF IInv, TypeOK
    <2>2. \A r \in Rows(requests') :
            LET current == requests'[r].currentAssignmentId IN
            current # None => current \in Rows(assignments')
      <3>1. SUFFICES ASSUME NEW r \in Rows(requests)
                     PROVE  requests'[r].currentAssignmentId # None
                              => requests'[r].currentAssignmentId \in Rows(assignments')
        BY <1>9
      <3>2. CASE r = q
        BY <1>7, <1>9, <3>2
      <3>3. CASE r # q
        <4>1. requests'[r] = requests[r]
          BY <1>9, <3>3, RowTypes DEF IInv
        <4>2. requests[r].currentAssignmentId # None
                => requests[r].currentAssignmentId \in Rows(assignments)
          BY DEF IInv, TypeOK
        <4> QED
          BY <1>7, <4>1, <4>2
      <3> QED
        BY <3>2, <3>3
    <2> QED
      BY <1>3, <1>7, <1>9, <2>1, <2>2 DEF TypeOK
  <1>11. CurrentAssignment'
    <2>1. \A b \in Rows(assignments') :
            LET r == assignments'[b].tourRequestId IN
            /\ r \in Rows(requests')
            /\ assignments'[b].status \in Active => requests'[r].currentAssignmentId = b
      BY <1>5, <1>6, <1>7, <1>9, RowTypes DEF IInv, CurrentAssignment
    <2>2. \A r \in Rows(requests') :
            LET current == requests'[r].currentAssignmentId IN
            current # None => /\ assignments'[current].tourRequestId = r
                              /\ assignments'[current].status # "canceled"
      BY <1>1, <1>6, <1>7, <1>9, RowTypes DEF IInv, CurrentAssignment, TypeOK
    <2> QED
      BY <2>1, <2>2 DEF CurrentAssignment
  <1>12. PaidExactlyOnce'
    BY <1>1, <1>5, <1>6, <1>7 DEF IInv, PaidExactlyOnce, Rows, Absent, TypeOK
  <1>13. ShowsRequestedProperty'
    <2>1. \A b \in Rows(assignments') :
            LET u == assignments'[b].tourId IN
            /\ u \in Rows(tours')
            /\ tours'[u].propertyId = requests'[assignments'[b].tourRequestId].propertyId
      BY <1>3, <1>6, <1>7, <1>9, RowTypes DEF IInv, ShowsRequestedProperty, CurrentAssignment
    <2>2. \A r \in Rows(requests') :
            LET u == requests'[r].linkedTourId IN
            u # None => /\ u \in Rows(tours')
                        /\ tours'[u].propertyId = requests'[r].propertyId
      BY <1>3, <1>9, RowTypes DEF IInv, ShowsRequestedProperty
    <2> QED
      BY <2>1, <2>2 DEF ShowsRequestedProperty
  <1> QED
    BY <1>10, <1>11, <1>12, <1>13 DEF IInv

\* An assignment that moves is still active, and stops at its next state.
LEMMA MovingIsActive ==
  ASSUME NEW from \in AssignmentStates, NEW next, CanTransitionAssignment(from, next)
  PROVE  from \in Active /\ next \in AssignmentStates
  BY DEF AssignmentStates, CanTransitionAssignment, LegalAssignment, Active

\* What the sync makes of a request and of a tour.
LEMMA SyncedRows ==
  ASSUME NEW a \in AssignmentIds, NEW next \in AssignmentStates, NEW blocked \in BOOLEAN
  PROVE  /\ \A row \in Request :
              LET synced == SyncedRequest(row, a, next, blocked) IN
              /\ synced \in Request
              /\ synced.propertyId = row.propertyId
              /\ synced.linkedTourId = row.linkedTourId
              /\ synced.currentAssignmentId
                   \in {IF next = "canceled" THEN None ELSE a, row.currentAssignmentId}
              /\ next = "canceled" => synced.currentAssignmentId = None
         /\ \A row \in Tour : /\ SyncedTour(row, next) \in Tour
                              /\ SyncedTour(row, next).propertyId = row.propertyId
  <1>1. /\ {"blocked", "submitted", "confirmed", "completed"} \subseteq RequestStates
        /\ {"requested", "confirmed", "completed"} \subseteq TourStates
    BY DEF RequestStates, TourStates
  <1>2. CASE next = "canceled"
    BY <1>1, <1>2 DEF SyncedRequest, SyncedTour, Request, Tour
  <1>3. CASE next \in {"confirmed", "completed"}
    BY <1>1, <1>3 DEF SyncedRequest, SyncedTour, Request, Tour
  <1>4. CASE next \notin {"canceled", "confirmed", "completed"}
    BY <1>4 DEF SyncedRequest, SyncedTour
  <1> QED
    BY <1>2, <1>3, <1>4

(***************************************************************************)
(* An assignment moves on.  It was active, so its request points to it,    *)
(* no other assignment of the request is active, and it has no payout yet. *)
(***************************************************************************)
LEMMA AdvanceAssignmentStep ==
  ASSUME IInv, NEW a \in Rows(assignments), NEW next,
         NEW agent \in Agents \cup {NoAgent}, NEW blocked \in BOOLEAN,
         AdvanceAssignment(a, next, agent, blocked)
  PROVE  IInv'
  <1> DEFINE q == assignments[a].tourRequestId
             t == assignments[a].tourId
             moved == [assignments[a] EXCEPT !.status = next, !.agentId = agent]
             request == SyncedRequest(requests[q], a, next, blocked)
             tour == SyncedTour(tours[t], next)
  <1>1. a \in AssignmentIds /\ assignments[a] \in Assignment
    BY RowTypes DEF IInv
  <1>2. /\ q \in Rows(requests) /\ q \in RequestIds /\ requests[q] \in Request
        /\ t \in Rows(tours) /\ t \in TourIds /\ tours[t] \in Tour
    BY RowTypes DEF IInv, CurrentAssignment, ShowsRequestedProperty
  <1>3. assignments[a].status \in Active /\ next \in AssignmentStates
    <2>1. assignments[a].status \in AssignmentStates
      BY <1>1 DEF Assignment
    <2> QED
      BY <2>1, MovingIsActive DEF AdvanceAssignment
  <1>4. requests[q].currentAssignmentId = a
    BY <1>3 DEF IInv, CurrentAssignment
  <1>5. payouts[a] = NoAgent
    BY <1>1, <1>3 DEF IInv, PaidExactlyOnce, Active
  <1>6. /\ moved \in Assignment /\ moved.status = next /\ moved.agentId = agent
        /\ moved.tourRequestId = q /\ moved.tourId = t
    BY <1>1, <1>3 DEF Assignment
  <1>7. /\ request \in Request
        /\ request.propertyId = requests[q].propertyId
        /\ request.linkedTourId = requests[q].linkedTourId
        /\ request.currentAssignmentId = IF next = "canceled" THEN None ELSE a
        /\ tour \in Tour
        /\ tour.propertyId = tours[t].propertyId
    BY <1>1, <1>2, <1>3, <1>4, SyncedRows
  <1>8. /\ assignments' = [assignments EXCEPT ![a] = moved]
        /\ requests' = [requests EXCEPT ![q] = request]
        /\ tours' = [tours EXCEPT ![t] = tour]
        /\ CreatePayoutObligation(a, next, agent)
    BY DEF AdvanceAssignment
  <1>9. /\ assignments' \in [AssignmentIds -> Assignment \cup {Absent}]
        /\ assignments'[a] = moved
        /\ \A b \in AssignmentIds : b # a => assignments'[b] = assignments[b]
        /\ Rows(assignments') = Rows(assignments)
    <2> HIDE DEF moved
    <2> QED
      BY <1>1, <1>6, <1>8, IdsAndRows DEF IInv, TypeOK, Rows
  <1>10. /\ requests' \in [RequestIds -> Request \cup {Absent}]
         /\ requests'[q] = request
         /\ \A r \in RequestIds : r # q => requests'[r] = requests[r]
         /\ Rows(requests') = Rows(requests)
    <2> HIDE DEF request, q
    <2> QED
      BY <1>2, <1>7, <1>8, IdsAndRows DEF IInv, TypeOK, Rows
  <1>11. /\ tours' \in [TourIds -> Tour \cup {Absent}]
         /\ tours'[t] = tour
         /\ \A u \in TourIds : u # t => tours'[u] = tours[u]
         /\ Rows(tours') = Rows(tours)
    <2> HIDE DEF tour, t
    <2> QED
      BY <1>2, <1>7, <1>8, IdsAndRows DEF IInv, TypeOK, Rows
  <1> HIDE DEF moved, request, tour
  <1>12. PaidExactlyOnce' /\ payouts' \in [AssignmentIds -> Agents \cup {NoAgent}]
    <2>1. /\ payouts' \in [AssignmentIds -> Agents \cup {NoAgent}]
          /\ payouts'[a] = IF next = "completed" THEN agent ELSE NoAgent
          /\ next = "completed" => agent # NoAgent
          /\ \A b \in AssignmentIds : b # a => payouts'[b] = payouts[b]
      BY <1>1, <1>5, <1>8 DEF CreatePayoutObligation, IInv, TypeOK
    <2>2. SUFFICES ASSUME NEW b \in AssignmentIds
                   PROVE  /\ (assignments'[b].status = "completed") <=> (payouts'[b] # NoAgent)
                          /\ payouts'[b] # NoAgent => payouts'[b] = assignments'[b].agentId
      BY <2>1 DEF PaidExactlyOnce
    <2>3. CASE b = a
      BY <1>6, <1>9, <2>1, <2>3
    <2>4. CASE b # a
      BY <1>9, <2>1, <2>4 DEF IInv, PaidExactlyOnce
    <2> QED
      BY <2>3, <2>4
  <1>13. CurrentAssignment'
    <2>1. ASSUME NEW b \in Rows(assignments)
          PROVE  LET r == assignments'[b].tourRequestId IN
                 /\ r \in Rows(requests')
                 /\ assignments'[b].status \in Active => requests'[r].currentAssignmentId = b
      <3>1. CASE b = a
        BY <1>2, <1>6, <1>7, <1>9, <1>10, <3>1 DEF Active
      <3>2. CASE b # a
        <4>1. assignments'[b] = assignments[b]
          BY <1>9, <3>2, RowTypes DEF IInv
        <4>2. /\ assignments[b].tourRequestId \in Rows(requests)
              /\ assignments[b].tourRequestId \in RequestIds
              /\ assignments[b].status \in Active =>
                   requests[assignments[b].tourRequestId].currentAssignmentId = b
          BY RowTypes DEF IInv, CurrentAssignment
        <4>3. assignments[b].status \in Active => assignments[b].tourRequestId # q
          BY <1>4, <3>2, <4>2
        <4> QED
          BY <1>10, <4>1, <4>2, <4>3
      <3> QED
        BY <3>1, <3>2
    <2>2. ASSUME NEW r \in Rows(requests)
          PROVE  LET current == requests'[r].currentAssignmentId IN
                 current # None => /\ assignments'[current].tourRequestId = r
                                   /\ assignments'[current].status # "canceled"
      <3>1. CASE r = q
        BY <1>6, <1>7, <1>9, <1>10, <3>1
      <3>2. CASE r # q
        <4> DEFINE current == requests[r].currentAssignmentId
        <4>1. requests'[r] = requests[r]
          BY <1>10, <3>2, RowTypes DEF IInv
        <4>2. current # None => /\ assignments[current].tourRequestId = r
                                /\ assignments[current].status # "canceled"
                                /\ current \in AssignmentIds
          BY RowTypes DEF IInv, CurrentAssignment, TypeOK
        <4>3. current # None => current # a
          BY <3>2, <4>2
        <4>4. current # None => assignments'[current] = assignments[current]
          BY <1>9, <4>2, <4>3
        <4> QED
          BY <4>1, <4>2, <4>4
      <3> QED
        BY <3>1, <3>2
    <2> QED
      BY <1>9, <1>10, <2>1, <2>2 DEF CurrentAssignment
  <1>14. \A r \in Rows(requests) :
           /\ requests'[r].propertyId = requests[r].propertyId
           /\ requests'[r].linkedTourId = requests[r].linkedTourId
           /\ \/ requests'[r].currentAssignmentId = requests[r].currentAssignmentId
              \/ requests'[r].currentAssignmentId \in {None, a}
    BY <1>7, <1>10, RowTypes DEF IInv
  <1>15. TypeOK'
    <2>1. \A r \in Rows(requests') :
            LET current == requests'[r].currentAssignmentId IN
            current # None => current \in Rows(assignments')
      BY <1>9, <1>10, <1>14 DEF IInv, TypeOK
    <2> QED
      BY <1>9, <1>10, <1>11, <1>12, <2>1 DEF TypeOK
  <1>16. ShowsRequestedProperty'
    <2>1. \A u \in Rows(tours) : tours'[u].propertyId = tours[u].propertyId
      BY <1>7, <1>11, RowTypes DEF IInv
    <2>2. \A b \in Rows(assignments) :
            /\ assignments'[b].tourId = assignments[b].tourId
            /\ assignments'[b].tourRequestId = assignments[b].tourRequestId
      BY <1>6, <1>9, RowTypes DEF IInv
    <2>3. \A b \in Rows(assignments') :
            LET u == assignments'[b].tourId IN
            /\ u \in Rows(tours')
            /\ tours'[u].propertyId = requests'[assignments'[b].tourRequestId].propertyId
      BY <1>9, <1>11, <1>14, <2>1, <2>2 DEF IInv, ShowsRequestedProperty, CurrentAssignment
    <2>4. \A r \in Rows(requests') :
            LET u == requests'[r].linkedTourId IN
            u # None => /\ u \in Rows(tours')
                        /\ tours'[u].propertyId = requests'[r].propertyId
      BY <1>10, <1>11, <1>14, <2>1 DEF IInv, ShowsRequestedProperty
    <2> QED
      BY <2>3, <2>4 DEF ShowsRequestedProperty
  <1> QED
    BY <1>12, <1>13, <1>15, <1>16 DEF IInv

(***************************************************************************)
(* The tours themselves: a new one, or a new status of one.                *)
(***************************************************************************)
LEMMA TourStep ==
  ASSUME IInv, NEW t \in TourIds, NEW row \in Tour,
         tours' = [tours EXCEPT ![t] = row],
         UNCHANGED <<requests, assignments, payouts>>,
         t \in Rows(tours) => row.propertyId = tours[t].propertyId
  PROVE  IInv'
  <1>1. /\ tours' \in [TourIds -> Tour \cup {Absent}]
        /\ Rows(tours') = Rows(tours) \cup {t}
        /\ \A u \in Rows(tours) : tours'[u].propertyId = tours[u].propertyId
    BY IdsAndRows, RowTypes DEF IInv, TypeOK, Rows
  <1>2. TypeOK' /\ CurrentAssignment' /\ PaidExactlyOnce'
    BY <1>1 DEF IInv, TypeOK, CurrentAssignment, PaidExactlyOnce
  <1>3. ShowsRequestedProperty'
    BY <1>1, ZenonT(60) DEF IInv, ShowsRequestedProperty
  <1> QED
    BY <1>2, <1>3 DEF IInv

\* requestTour: a new tour that no request names yet.
LEMMA RequestTourStep ==
  ASSUME IInv, NEW t \in TourIds, NEW p \in Properties, RequestTour(t, p)
  PROVE  IInv'
  <1> DEFINE row == [propertyId |-> p, tourRequestId |-> None, status |-> "requested"]
  <1>1. row \in Tour
    BY DEF Tour, TourStates
  <1>2. t \notin Rows(tours)
    BY NextIdIsFree DEF RequestTour, TourIds
  <1>3. tours' = [tours EXCEPT ![t] = row] /\ UNCHANGED <<requests, assignments, payouts>>
    BY DEF RequestTour
  <1> HIDE DEF row
  <1> QED
    BY <1>1, <1>2, <1>3, TourStep

\* updateStatus of tours.ts: the property of the tour stays.
LEMMA UpdateTourStatusStep ==
  ASSUME IInv, NEW t \in Rows(tours), NEW next \in TourStates, UpdateTourStatus(t, next)
  PROVE  IInv'
  <1> DEFINE row == [tours[t] EXCEPT !.status = next]
  <1>1. t \in TourIds /\ tours[t] \in Tour
    BY RowTypes DEF IInv
  <1>2. row \in Tour /\ row.propertyId = tours[t].propertyId
    BY <1>1 DEF Tour
  <1>3. tours' = [tours EXCEPT ![t] = row] /\ UNCHANGED <<requests, assignments, payouts>>
    BY DEF UpdateTourStatus
  <1> HIDE DEF row
  <1> QED
    BY <1>1, <1>2, <1>3, TourStep

\* The two ways an assignment is moved on.
LEMMA AssignmentMoves ==
  ASSUME IInv, NEW a \in Rows(assignments), NEW next \in AssignmentStates,
         \/ UpdateAssignmentStatus(a, next)
         \/ \E f \in FallbackIds, g \in Agents \cup {NoAgent} :
              SyncShowamiStatus(f, a, next, g)
  PROVE  IInv'
  <1>1. assignments[a].agentId \in Agents \cup {NoAgent}
    BY RowTypes DEF IInv, Assignment
  <1>2. CASE UpdateAssignmentStatus(a, next)
    BY <1>1, <1>2, AdvanceAssignmentStep DEF UpdateAssignmentStatus
  <1>3. CASE \E f \in FallbackIds, g \in Agents \cup {NoAgent} :
               SyncShowamiStatus(f, a, next, g)
    <2> PICK f \in FallbackIds, g \in Agents \cup {NoAgent} :
          SyncShowamiStatus(f, a, next, g)
      BY <1>3
    <2> DEFINE agent == IF g # NoAgent THEN g ELSE assignments[a].agentId
               blocked == next = "canceled"
    <2>1. agent \in Agents \cup {NoAgent} /\ blocked \in BOOLEAN
      BY <1>1
    <2>2. AdvanceAssignment(a, next, agent, blocked)
      BY DEF SyncShowamiStatus
    <2> HIDE DEF agent, blocked
    <2> QED
      BY <2>1, <2>2, AdvanceAssignmentStep
  <1> QED
    BY <1>2, <1>3

\* The three ways an assignment is recorded.
LEMMA AssignmentRecords ==
  ASSUME IInv, NEW q \in Rows(requests), NEW a \in AssignmentIds, NEW t \in TourIds,
         \/ \E routing \in NetworkRoutings \cup ShowamiRoutings \cup ManualRoutings :
              RouteTourRequest(q, a, t, routing)
         \/ \E routing \in ShowamiRoutings : RecordAssignmentFromShowami(q, a, t, routing)
         \/ \E routing \in ManualRoutings : RecordManualAssignment(q, a, t, routing)
  PROVE  IInv'
  <1>1. PICK routing \in NetworkRoutings \cup ShowamiRoutings \cup ManualRoutings :
          CreateAssignmentRecord(q, a, t, routing)
    BY DEF RouteTourRequest, RecordAssignmentFromShowami, RecordManualAssignment
  <1>2. /\ routing.agentId \in Agents \cup {NoAgent}
        /\ routing.showamiFallbackId \in FallbackIds \cup {NoFallback}
    BY DEF NetworkRoutings, ShowamiRoutings, ManualRoutings, Routing
  <1> QED
    BY <1>1, <1>2, CreateAssignmentStep

\* Every step keeps the invariant.
LEMMA NextIInv == IInv /\ [Next]_vars => IInv'
  <1> SUFFICES ASSUME IInv, [Next]_vars
               PROVE  IInv'
    OBVIOUS
  <1>1. CASE RequestStep
    BY <1>1, CreateDraftStep, StatusSteps, ConfirmStep DEF RequestStep
  <1>2. CASE AssignmentStep
    BY <1>2, AssignmentRecords, AssignmentMoves DEF AssignmentStep
  <1>3. CASE \E t \in TourIds, p \in Properties : RequestTour(t, p)
    BY <1>3, RequestTourStep
  <1>4. CASE \E t \in Rows(tours), next \in TourStates : UpdateTourStatus(t, next)
    BY <1>4, UpdateTourStatusStep
  <1>5. CASE \/ \E S \in SUBSET Types : AgreementsChange(S)
             \/ UNCHANGED vars
    <2>1. UNCHANGED <<requests, assignments, tours, payouts>>
      BY <1>5 DEF AgreementsChange, vars
    <2> QED
      BY <2>1 DEF IInv, TypeOK, CurrentAssignment, PaidExactlyOnce,
                  ShowsRequestedProperty, Rows
  <1> QED
    BY <1>1, <1>2, <1>3, <1>4, <1>5 DEF Next

\* The four invariants of the runs hold together in every behavior.
THEOREM ToursInductive == Spec => []IInv
  <1>1. IInv /\ [Next]_vars => IInv'
    BY NextIInv
  <1>2. Init => IInv
    BY InitIInv
  <1> QED
    BY <1>1, <1>2, PTL DEF Spec

\* The tables keep their shape: a current assignment is always a stored one.
THEOREM ToursTypeCorrect == Spec => []TypeOK
  <1>1. IInv => TypeOK
    BY DEF IInv
  <1> QED
    BY <1>1, ToursInductive, PTL

\* At most one active assignment per request, and the request points to it.
THEOREM OneCurrentAssignment == Spec => []CurrentAssignment
  <1>1. IInv => CurrentAssignment
    BY DEF IInv
  <1> QED
    BY <1>1, ToursInductive, PTL

\* One payout per completed assignment, to the agent who is on it.
THEOREM ShowingsPaidOnce == Spec => []PaidExactlyOnce
  <1>1. IInv => PaidExactlyOnce
    BY DEF IInv
  <1> QED
    BY <1>1, ToursInductive, PTL

\* Every assignment is on a tour of the property its request asked for.
THEOREM ToursShowTheProperty == Spec => []ShowsRequestedProperty
  <1>1. IInv => ShowsRequestedProperty
    BY DEF IInv
  <1> QED
    BY <1>1, ToursInductive, PTL

\* Together: what the screens of buyer, broker and agent rely on.
THEOREM AssignmentsAreSound == Spec => []AssignmentsSound
  <1>1. TypeOK /\ CurrentAssignment /\ ShowsRequestedProperty => AssignmentsSound
    BY DEF AssignmentsSound
  <1> QED
    BY <1>1, ToursTypeCorrect, OneCurrentAssignment, ToursShowTheProperty, PTL
-----------------------------------------------------------------------------
(***************************************************************************)
(* PAYOUTS.  What is said of a payout is said of its row and its trail, so *)
(* one lemma for each action that can be added to a trail is enough.       *)
(***************************************************************************)
\* Inductive: nothing is on record of a payout that was not created.
PayoutIInv ==
  PayoutTrailTrue /\ \A s \in Showings : payoutRows[s] = NoPayout => payoutAudit[s] = <<>>

LEMMA AtAppended ==
  ASSUME NEW trail \in Seq(PayoutActions), NEW e \in PayoutActions
  PROVE  /\ Len(trail) \in Nat /\ DOMAIN trail = 1 .. Len(trail)
         /\ Append(trail, e) \in Seq(PayoutActions)
         /\ At(Append(trail, e), e) = At(trail, e) \cup {Len(trail) + 1}
         /\ \A action : action # e => At(Append(trail, e), action) = At(trail, action)
         /\ \A action : At(trail, action) \subseteq 1 .. Len(trail)
<1>1. Len(trail) \in Nat /\ DOMAIN trail = 1 .. Len(trail)
  OBVIOUS
<1> DEFINE longer == Append(trail, e)
<1>2. /\ longer \in Seq(PayoutActions) /\ DOMAIN longer = 1 .. Len(trail) + 1
      /\ longer[Len(trail) + 1] = e /\ \A i \in 1 .. Len(trail) : longer[i] = trail[i]
  BY <1>1, AppendProperties
<1> HIDE DEF longer
<1>3. \A i \in 1 .. Len(trail) + 1 : i \in 1 .. Len(trail) \/ i = Len(trail) + 1
  BY <1>1
<1>4. \A i \in 1 .. Len(trail) : i \in 1 .. Len(trail) + 1
  BY <1>1
<1>5. Len(trail) + 1 \in 1 .. Len(trail) + 1
  BY <1>1
<1>6. At(longer, e) = At(trail, e) \cup {Len(trail) + 1}
  BY <1>1, <1>2, <1>3, <1>4, <1>5 DEF At
<1>7. ASSUME NEW action, action # e PROVE At(longer, action) = At(trail, action)
  BY <1>1, <1>2, <1>3, <1>4, <1>5, <1>7 DEF At
<1>8. \A action : At(trail, action) \subseteq 1 .. Len(trail)
  BY <1>1 DEF At
<1> QED
  BY <1>1, <1>2, <1>6, <1>7, <1>8 DEF longer

\* Running a batch counts for a payout that is not paid; paying does not undo it.
LEMMA InTimeAppended ==
  ASSUME NEW trail \in Seq(PayoutActions), NEW e \in PayoutActions
  PROVE  /\ e # "batch ran" => (InTime(Append(trail, e)) <=> InTime(trail))
         /\ e = "batch ran" =>
              (InTime(Append(trail, e)) <=> InTime(trail) \/ At(trail, "paid") = {})
<1> DEFINE n == Len(trail) + 1
           longer == Append(trail, e)
<1>1. /\ Len(trail) \in Nat
      /\ At(longer, e) = At(trail, e) \cup {n}
      /\ \A action : action # e => At(longer, action) = At(trail, action)
      /\ \A action : At(trail, action) \subseteq 1 .. Len(trail)
  BY AtAppended
<1>2. \A action : \A i \in At(trail, action) : i \in Nat /\ i < n /\ ~(n < i)
  BY <1>1
<1> HIDE DEF n, longer
<1>3. CASE e = "paid"
  <2>1. At(longer, "batch ran") = At(trail, "batch ran") /\ At(longer, "paid") = At(trail, "paid") \cup {n}
    BY <1>1, <1>3
  <2>2. \A i \in At(trail, "batch ran") : i < n
    BY <1>2
  <2>3. InTime(longer) <=> InTime(trail)
    BY <2>1, <2>2 DEF InTime
  <2> QED
    BY <1>3, <2>3 DEF longer
<1>4. CASE e = "batch ran"
  <2>1. At(longer, "batch ran") = At(trail, "batch ran") \cup {n} /\ At(longer, "paid") = At(trail, "paid")
    BY <1>1, <1>4
  <2>2. \A k \in At(trail, "paid") : ~(n < k)
    BY <1>2
  <2>3. InTime(longer) <=> InTime(trail) \/ At(trail, "paid") = {}
    BY <2>1, <2>2 DEF InTime
  <2> QED
    BY <1>4, <2>3 DEF longer
<1>5. CASE e \notin {"paid", "batch ran"}
  <2>1. At(longer, "batch ran") = At(trail, "batch ran") /\ At(longer, "paid") = At(trail, "paid")
    BY <1>1, <1>5
  <2> QED
    BY <1>5, <2>1 DEF InTime, longer
<1> QED
  BY <1>3, <1>4, <1>5

LEMMA Created ==
  ASSUME NEW row, row.payoutStatus = "pending", row.batchMonth = Unbatched
  PROVE  PaidInOrder(row, <<"created">>)
<1>1. <<"created">> = Append(<<>>, "created") /\ <<>> \in Seq(PayoutActions)
  OBVIOUS
<1>2. "created" \in PayoutActions
  BY DEF PayoutActions
<1>3. \A action : At(<<>>, action) = {}
  BY DEF At
<1>4. /\ At(<<"created">>, "created") = {1}
      /\ \A action : action # "created" => At(<<"created">>, action) = {}
  BY <1>1, <1>2, <1>3, AtAppended, ZenonT(60)
<1>5. ~InTime(<<"created">>)
  BY <1>4 DEF InTime
<1>6. \A action \in PayoutActions \ {"batch ran"} : \A i, k \in At(<<"created">>, action) : i = k
  <2> SUFFICES ASSUME NEW action \in PayoutActions \ {"batch ran"}
               PROVE  \A i, k \in At(<<"created">>, action) : i = k
    OBVIOUS
  <2>1. CASE action = "created"
    <3>1. At(<<"created">>, action) = {1}
      BY <1>4, <2>1
    <3> QED
      BY <3>1
  <2>2. CASE action # "created"
    <3>1. At(<<"created">>, action) = {}
      BY <1>4, <2>2
    <3> QED
      BY <3>1
  <2> QED
    BY <2>1, <2>2
<1> QED
  BY <1>4, <1>5, <1>6 DEF PaidInOrder

LEMMA Moved ==
  ASSUME NEW row, NEW later, NEW trail \in Seq(PayoutActions), PaidInOrder(row, trail),
         NEW next \in {"approved", "paid"},
         row.payoutStatus = (IF next = "approved" THEN "pending" ELSE "approved"),
         later.payoutStatus = next, later.batchMonth = row.batchMonth,
         later.completedAt = row.completedAt
  PROVE  PaidInOrder(later, Append(trail, next))
<1> DEFINE n == Len(trail) + 1
           longer == Append(trail, next)
<1>1. next \in PayoutActions /\ next # "batch ran" /\ next # "created" /\ next # "batched"
  BY DEF PayoutActions
<1>2. /\ Len(trail) \in Nat
      /\ At(longer, next) = At(trail, next) \cup {n}
      /\ \A action : action # next => At(longer, action) = At(trail, action)
      /\ \A action : At(trail, action) \subseteq 1 .. Len(trail)
  BY <1>1, AtAppended
<1>3. InTime(longer) <=> InTime(trail)
  BY <1>1, InTimeAppended
<1>4. \A action : \A i \in At(trail, action) : i < n
  BY <1>2
<1>5. At(trail, next) = {} /\ At(trail, "paid") = {} /\ (next = "paid" => At(trail, "approved") # {})
  BY DEF PaidInOrder
<1> HIDE DEF n, longer
<1>6. \A action \in PayoutActions \ {"batch ran"} : \A i, k \in At(longer, action) : i = k
  <2> SUFFICES ASSUME NEW action \in PayoutActions \ {"batch ran"}
               PROVE  \A i, k \in At(longer, action) : i = k
    OBVIOUS
  <2>1. CASE action = next
    BY <1>2, <1>5, <2>1
  <2>2. CASE action # next
    BY <1>2, <2>2 DEF PaidInOrder
  <2> QED
    BY <2>1, <2>2
<1>7. 1 \in At(longer, "created")
  BY <1>1, <1>2 DEF PaidInOrder
<1>8. At(longer, "batched") = At(trail, "batched")
  BY <1>1, <1>2
<1>9. CASE next = "approved"
  <2>1. At(longer, "approved") = {n} /\ At(longer, "paid") = {}
    BY <1>2, <1>5, <1>9
  <2>2. PaidInOrder(later, longer)
    BY <1>3, <1>6, <1>7, <1>8, <1>9, <2>1 DEF PaidInOrder
  <2> QED
    BY <1>9, <2>2 DEF longer
<1>10. CASE next = "paid"
  <2>1. At(longer, "approved") = At(trail, "approved") /\ At(longer, "paid") = {n}
    BY <1>2, <1>5, <1>10
  <2>2. \A i \in At(longer, "approved"), k \in At(longer, "paid") : i < k
    BY <1>4, <2>1
  <2>3. PaidInOrder(later, longer)
    BY <1>3, <1>5, <1>6, <1>7, <1>8, <1>10, <2>1, <2>2 DEF PaidInOrder
  <2> QED
    BY <1>10, <2>3 DEF longer
<1> QED
  BY <1>9, <1>10

\* A batch of its month finds a payout that is neither paid nor batched, and includes it.
LEMMA Batched ==
  ASSUME NEW row, NEW later, NEW trail \in Seq(PayoutActions), PaidInOrder(row, trail),
         row.payoutStatus \in {"pending", "approved"}, row.batchMonth = Unbatched,
         row.completedAt # Unbatched,
         later.payoutStatus = row.payoutStatus, later.batchMonth = row.completedAt,
         later.completedAt = row.completedAt
  PROVE  /\ Append(Append(trail, "batch ran"), "batched") \in Seq(PayoutActions)
         /\ PaidInOrder(later, Append(Append(trail, "batch ran"), "batched"))
<1> DEFINE mid == Append(trail, "batch ran")
           longer == Append(mid, "batched")
<1>1. "batch ran" \in PayoutActions /\ "batched" \in PayoutActions
  BY DEF PayoutActions
<1>2. /\ Len(trail) \in Nat /\ mid \in Seq(PayoutActions)
      /\ \A action : action # "batch ran" => At(mid, action) = At(trail, action)
  BY <1>1, AtAppended
<1>3. InTime(mid) <=> InTime(trail) \/ At(trail, "paid") = {}
  BY <1>1, InTimeAppended
<1> HIDE DEF mid
<1>4. /\ Len(mid) \in Nat /\ longer \in Seq(PayoutActions)
      /\ At(longer, "batched") = At(mid, "batched") \cup {Len(mid) + 1}
      /\ \A action : action # "batched" => At(longer, action) = At(mid, action)
  BY <1>1, <1>2, AtAppended
<1>5. InTime(longer) <=> InTime(mid)
  BY <1>1, <1>2, InTimeAppended
<1>6. At(trail, "paid") = {} /\ At(trail, "batched") = {}
  BY DEF PaidInOrder
<1> HIDE DEF longer
<1>7. /\ InTime(longer)
      /\ At(longer, "batched") = {Len(mid) + 1}
      /\ \A action \in {"created", "approved", "paid"} : At(longer, action) = At(trail, action)
  BY <1>2, <1>3, <1>4, <1>5, <1>6
<1>8. \A action \in PayoutActions \ {"batch ran"} : \A i, k \in At(longer, action) : i = k
  <2> SUFFICES ASSUME NEW action \in PayoutActions \ {"batch ran"}
               PROVE  \A i, k \in At(longer, action) : i = k
    OBVIOUS
  <2>1. CASE action = "batched"
    BY <1>7, <2>1
  <2>2. CASE action # "batched"
    <3>1. action \in {"created", "approved", "paid"}
      BY <2>2 DEF PayoutActions
    <3> QED
      BY <1>7, <3>1 DEF PaidInOrder
  <2> QED
    BY <2>1, <2>2
<1>9. PaidInOrder(later, longer)
  BY <1>7, <1>8 DEF PaidInOrder
<1> QED
  BY <1>4, <1>9 DEF longer, mid

\* One that is batched or paid is passed over.
LEMMA PassedOver ==
  ASSUME NEW row, NEW trail \in Seq(PayoutActions), PaidInOrder(row, trail),
         row.payoutStatus = "paid" \/ row.batchMonth # Unbatched
  PROVE  PaidInOrder(row, Append(trail, "batch ran"))
<1> DEFINE longer == Append(trail, "batch ran")
<1>1. "batch ran" \in PayoutActions
  BY DEF PayoutActions
<1>2. \A action : action # "batch ran" => At(longer, action) = At(trail, action)
  BY <1>1, AtAppended
<1>3. InTime(longer) <=> InTime(trail) \/ At(trail, "paid") = {}
  BY <1>1, InTimeAppended
<1>4. InTime(longer) <=> InTime(trail)
  BY <1>3 DEF PaidInOrder
<1> HIDE DEF longer
<1>5. \A action \in PayoutActions \ {"batch ran"} : \A i, k \in At(longer, action) : i = k
  BY <1>2 DEF PaidInOrder
<1>6. PaidInOrder(row, longer)
  BY <1>2, <1>4, <1>5 DEF PaidInOrder
<1> QED
  BY <1>6 DEF longer

LEMMA RowsOf ==
  ASSUME PayoutTypeOK, NEW s \in Showings
  PROVE  /\ payoutRows[s] \in Payout \/ payoutRows[s] = NoPayout
         /\ s \in Owed <=> payoutRows[s] # NoPayout
         /\ payoutRows[s] \in Payout => payoutRows[s] # NoPayout
         /\ payoutAudit[s] \in Seq(PayoutActions)
         /\ payoutRows = [u \in Showings |-> payoutRows[u]]
         /\ payoutAudit = [u \in Showings |-> payoutAudit[u]]
  BY DEF PayoutTypeOK, Owed, NoPayout, Payout

\* A step on one showing keeps the invariant if it keeps it of this one.
LEMMA OneShowing ==
  ASSUME PayoutIInv, NEW s \in Showings, NEW row \in Payout, NEW trail \in Seq(PayoutActions),
         PaidInOrder(row, trail),
         payoutRows' = [payoutRows EXCEPT ![s] = row],
         payoutAudit' = [payoutAudit EXCEPT ![s] = trail],
         UNCHANGED <<coverageFee, feeConfigs>>
  PROVE  PayoutIInv'
<1>1. PayoutTypeOK /\ \A u \in Owed : PaidInOrder(payoutRows[u], payoutAudit[u])
  BY DEF PayoutIInv, PayoutTrailTrue
<1>2. \A u \in Showings : /\ payoutRows'[u] = IF u = s THEN row ELSE payoutRows[u]
                          /\ payoutAudit'[u] = IF u = s THEN trail ELSE payoutAudit[u]
  BY <1>1 DEF PayoutTypeOK
<1>3. PayoutTypeOK'
  BY <1>1 DEF PayoutTypeOK
<1>4. row # NoPayout
  BY DEF Payout, NoPayout
<1>5. \A u \in Owed' : PaidInOrder(payoutRows'[u], payoutAudit'[u])
  BY <1>1, <1>2, <1>4 DEF Owed
<1>6. \A u \in Showings : payoutRows'[u] = NoPayout => payoutAudit'[u] = <<>>
  BY <1>2, <1>4 DEF PayoutIInv
<1> QED
  BY <1>3, <1>5, <1>6 DEF PayoutIInv, PayoutTrailTrue

ConfigsOf(g) == {i \in DOMAIN feeConfigs : /\ feeConfigs[i].isActive
                                           /\ feeConfigs[i].geographyType = Geographies[g]}
Found == {g \in 1 .. 3 : ConfigsOf(g) # {}}
FirstIn(S) == CHOOSE i \in S : \A k \in S : i <= k

LEMMA GeographiesAre ==
  /\ Geographies[1] = "zip" /\ Geographies[2] = "county" /\ Geographies[3] = "statewide"
  /\ \A g \in 1 .. 3 : g = 1 \/ g = 2 \/ g = 3
  /\ \A g, h \in 1 .. 3 : Geographies[g] = Geographies[h] => g = h
  /\ \A type \in {"zip", "county", "statewide"} : \E g \in 1 .. 3 : Geographies[g] = type
<1>1. Geographies[1] = "zip" /\ Geographies[2] = "county" /\ Geographies[3] = "statewide"
  BY DEF Geographies
<1>2. \A g \in 1 .. 3 : g = 1 \/ g = 2 \/ g = 3
  OBVIOUS
<1>3. 1 \in 1 .. 3 /\ 2 \in 1 .. 3 /\ 3 \in 1 .. 3
  OBVIOUS
<1>4. \A g, h \in 1 .. 3 : Geographies[g] = Geographies[h] => g = h
  BY <1>1, <1>2
<1>5. \A type \in {"zip", "county", "statewide"} : \E g \in 1 .. 3 : Geographies[g] = type
  BY <1>1, <1>3
<1> QED
  BY <1>1, <1>2, <1>4, <1>5

LEMMA FeeIs ==
  ASSUME NEW agent
  PROVE  ResolveFixedFee(agent) =
           IF coverageFee[agent] # Unpaid THEN coverageFee[agent]
           ELSE IF Found = {} THEN DefaultFee ELSE feeConfigs[FirstIn(ConfigsOf(FirstIn(Found)))].feeAmount
  BY DEF ResolveFixedFee, ConfigsOf, Found, FirstIn

\* The fee is the oldest of the most specific geography that has any.
LEMMA FeeFound ==
  ASSUME PayoutTypeOK, Found # {}
  PROVE  LET i == FirstIn(ConfigsOf(FirstIn(Found)))
         IN /\ i \in DOMAIN feeConfigs /\ feeConfigs[i].isActive /\ feeConfigs[i].feeAmount \in Fees
            /\ FirstIn(Found) \in 1 .. 3 /\ Geographies[FirstIn(Found)] = feeConfigs[i].geographyType
            /\ \A g \in Found : FirstIn(Found) <= g
<1>1. Found \subseteq 1 .. 3
  BY DEF Found
<1>2. PICK g : g = FirstIn(Found)
  OBVIOUS
<1>3. g \in Found /\ \A h \in Found : g <= h
  BY <1>1, <1>2, FirstOf DEF FirstIn
<1>4. PICK n : n = Len(feeConfigs)
  OBVIOUS
<1>5. feeConfigs \in Seq(FeeConfig) /\ DOMAIN feeConfigs = 1 .. n /\ n \in Nat
  BY <1>4 DEF PayoutTypeOK
<1>6. ConfigsOf(g) \subseteq 1 .. n /\ ConfigsOf(g) # {}
  BY <1>3, <1>5 DEF ConfigsOf, Found
<1>7. PICK i : i = FirstIn(ConfigsOf(g))
  OBVIOUS
<1>8. i \in ConfigsOf(g)
  BY <1>5, <1>6, <1>7, FirstOf DEF FirstIn
<1>9. i \in DOMAIN feeConfigs /\ feeConfigs[i].isActive /\ feeConfigs[i].geographyType = Geographies[g]
  BY <1>8 DEF ConfigsOf
<1>10. feeConfigs[i] \in FeeConfig
  BY <1>5, <1>9
<1>11. feeConfigs[i].feeAmount \in Fees
  BY <1>10 DEF FeeConfig
<1> QED
  BY <1>1, <1>2, <1>3, <1>7, <1>9, <1>11

LEMMA FeesAreFees ==
  ASSUME PayoutTypeOK, NEW agent \in AgentsPaid
  PROVE  ResolveFixedFee(agent) \in Fees
<1>1. coverageFee[agent] # Unpaid => coverageFee[agent] \in Fees
  BY DEF PayoutTypeOK
<1>2. Found # {} => feeConfigs[FirstIn(ConfigsOf(FirstIn(Found)))].feeAmount \in Fees
  BY FeeFound
<1>3. DefaultFee \in Fees
  BY PayoutsAssumption
<1> QED
  BY <1>1, <1>2, <1>3, FeeIs

LEMMA FeesImplied == PayoutTypeOK => FeesMostSpecific
<1> SUFFICES ASSUME PayoutTypeOK, NEW agent \in AgentsPaid
             PROVE  LET fee == ResolveFixedFee(agent)
                        Rank(i) == CHOOSE g \in 1 .. 3 : Geographies[g] = feeConfigs[i].geographyType
                        Live == {i \in DOMAIN feeConfigs : feeConfigs[i].isActive}
                    IN \/ coverageFee[agent] # Unpaid /\ fee = coverageFee[agent]
                       \/ coverageFee[agent] = Unpaid /\ Live = {} /\ fee = DefaultFee
                       \/ /\ coverageFee[agent] = Unpaid
                          /\ \E i \in Live : /\ feeConfigs[i].feeAmount = fee
                                             /\ \A k \in Live : Rank(i) <= Rank(k)
  BY DEF FeesMostSpecific
<1> DEFINE Rank(i) == CHOOSE g \in 1 .. 3 : Geographies[g] = feeConfigs[i].geographyType
           Live == {i \in DOMAIN feeConfigs : feeConfigs[i].isActive}
<1>1. ASSUME NEW i \in DOMAIN feeConfigs
      PROVE  /\ Rank(i) \in 1 .. 3 /\ Geographies[Rank(i)] = feeConfigs[i].geographyType
             /\ \A g \in 1 .. 3 : Geographies[g] = feeConfigs[i].geographyType => g = Rank(i)
  <2>1. feeConfigs[i] \in FeeConfig
    BY DEF PayoutTypeOK
  <2>2. feeConfigs[i].geographyType \in {"zip", "county", "statewide"}
    BY <2>1 DEF FeeConfig
  <2>3. \E g \in 1 .. 3 : Geographies[g] = feeConfigs[i].geographyType
    BY <2>2, GeographiesAre
  <2>4. Rank(i) \in 1 .. 3 /\ Geographies[Rank(i)] = feeConfigs[i].geographyType
    BY <2>3
  <2> QED
    BY <2>4, GeographiesAre
<1>2. \A k \in Live : Rank(k) \in Found
  <2> SUFFICES ASSUME NEW k \in Live PROVE Rank(k) \in Found
    OBVIOUS
  <2>1. k \in DOMAIN feeConfigs /\ feeConfigs[k].isActive
    OBVIOUS
  <2>2. Rank(k) \in 1 .. 3 /\ Geographies[Rank(k)] = feeConfigs[k].geographyType
    BY <1>1, <2>1
  <2> HIDE DEF Rank
  <2> QED
    BY <2>1, <2>2 DEF Found, ConfigsOf
<1> HIDE DEF Rank
<1>3. CASE coverageFee[agent] # Unpaid
  BY <1>3, FeeIs
<1>4. CASE coverageFee[agent] = Unpaid /\ Found = {}
  <2>1. Live = {}
    BY <1>2, <1>4
  <2> QED
    BY <1>4, <2>1, FeeIs
<1>5. CASE coverageFee[agent] = Unpaid /\ Found # {}
  <2>1. PICK g : g = FirstIn(Found)
    OBVIOUS
  <2>2. PICK i : i = FirstIn(ConfigsOf(g))
    OBVIOUS
  <2>3. /\ i \in DOMAIN feeConfigs /\ feeConfigs[i].isActive
        /\ g \in 1 .. 3 /\ Geographies[g] = feeConfigs[i].geographyType
        /\ \A h \in Found : g <= h
    BY <1>5, <2>1, <2>2, FeeFound
  <2>4. Rank(i) = g
    BY <1>1, <2>3
  <2>5. ResolveFixedFee(agent) = feeConfigs[i].feeAmount
    BY <1>5, <2>1, <2>2, FeeIs
  <2>6. i \in Live /\ \A k \in Live : Rank(i) <= Rank(k)
    BY <1>2, <2>3, <2>4
  <2>7. \E j \in Live : /\ feeConfigs[j].feeAmount = ResolveFixedFee(agent)
                        /\ \A k \in Live : Rank(j) <= Rank(k)
    BY <2>5, <2>6
  <2> QED
    BY <1>5, <2>7 DEF Rank
<1> QED
  BY <1>3, <1>4, <1>5

LEMMA CreatePayoutKeeps ==
  ASSUME PayoutIInv, NEW s \in Showings, NEW completed \in Months,
         CreatePayoutObligationCore(s, completed)
  PROVE  PayoutIInv'
<1>1. PayoutTypeOK /\ payoutAudit[s] = <<>>
  BY DEF PayoutIInv, PayoutTrailTrue, PayoutTypeOK, CreatePayoutObligationCore
<1>2. PICK row : row = [payoutStatus |-> "pending", feeAmount |-> ResolveFixedFee(AgentOf[s]),
                        completedAt |-> completed, batchMonth |-> Unbatched]
  OBVIOUS
<1>3. ResolveFixedFee(AgentOf[s]) \in Fees
  BY <1>1, FeesAreFees DEF AgentsPaid
<1>4. row \in Payout /\ row.payoutStatus = "pending" /\ row.batchMonth = Unbatched
  BY <1>1, <1>2, <1>3 DEF Payout
<1>5. PaidInOrder(row, <<"created">>) /\ <<"created">> \in Seq(PayoutActions)
  BY <1>4, Created DEF PayoutActions
<1>6. /\ payoutRows' = [payoutRows EXCEPT ![s] = row]
      /\ payoutAudit' = [payoutAudit EXCEPT ![s] = <<"created">>]
      /\ UNCHANGED <<coverageFee, feeConfigs>>
  BY <1>1, <1>2 DEF CreatePayoutObligationCore, Note
<1> QED
  BY <1>4, <1>5, <1>6, OneShowing

LEMMA MovePayoutKeeps ==
  ASSUME PayoutIInv, NEW s \in Showings, NEW next \in {"approved", "paid"},
         MovePayout(s, IF next = "approved" THEN "pending" ELSE "approved", next)
  PROVE  PayoutIInv'
<1>1. PayoutTypeOK /\ s \in Owed /\ PaidInOrder(payoutRows[s], payoutAudit[s])
  BY DEF PayoutIInv, PayoutTrailTrue, MovePayout
<1>2. payoutRows[s] \in Payout /\ payoutAudit[s] \in Seq(PayoutActions)
  BY <1>1, RowsOf
<1>3. PICK row : row = [payoutRows[s] EXCEPT !.payoutStatus = next]
  OBVIOUS
<1>4. /\ row \in Payout /\ row.payoutStatus = next /\ row.batchMonth = payoutRows[s].batchMonth
      /\ row.completedAt = payoutRows[s].completedAt
  BY <1>2, <1>3 DEF Payout
<1>5. payoutRows[s].payoutStatus = IF next = "approved" THEN "pending" ELSE "approved"
  BY DEF MovePayout
<1>6. PaidInOrder(row, Append(payoutAudit[s], next))
  BY <1>1, <1>2, <1>4, <1>5, Moved
<1>7. Append(payoutAudit[s], next) \in Seq(PayoutActions)
  <2>1. next \in PayoutActions
    BY DEF PayoutActions
  <2> QED
    BY <1>2, <2>1, AppendProperties
<1>8. /\ payoutRows' = [payoutRows EXCEPT ![s] = row]
      /\ payoutAudit' = [payoutAudit EXCEPT ![s] = Append(payoutAudit[s], next)]
      /\ UNCHANGED <<coverageFee, feeConfigs>>
  BY <1>1, <1>3 DEF MovePayout, Note, PayoutTypeOK
<1> QED
  BY <1>4, <1>6, <1>7, <1>8, OneShowing

\* What a batch makes of the row and the trail of one showing.
LEMMA BatchOfOne ==
  ASSUME PayoutIInv, NEW m \in Months, GenerateMonthlyBatch(m), NEW s \in Showings
  PROVE  /\ payoutRows'[s] \in Payout \cup {NoPayout}
         /\ payoutRows'[s] = NoPayout <=> payoutRows[s] = NoPayout
         /\ payoutAudit'[s] \in Seq(PayoutActions)
         /\ payoutRows'[s] = NoPayout => payoutAudit'[s] = <<>>
         /\ payoutRows'[s] # NoPayout => PaidInOrder(payoutRows'[s], payoutAudit'[s])
<1>1. /\ PayoutTypeOK
      /\ payoutRows[s] \in Payout \/ payoutRows[s] = NoPayout
      /\ payoutRows[s] \in Payout => payoutRows[s] # NoPayout
      /\ s \in Owed <=> payoutRows[s] # NoPayout
      /\ payoutAudit[s] \in Seq(PayoutActions)
  BY RowsOf DEF PayoutIInv, PayoutTrailTrue
<1>2. /\ s \in Owed => PaidInOrder(payoutRows[s], payoutAudit[s])
      /\ s \notin Owed => payoutAudit[s] = <<>>
  BY <1>1 DEF PayoutIInv, PayoutTrailTrue
<1>3. m # Unbatched
  BY PayoutsAssumption DEF Months, Unbatched
<1>4. Included(m) \subseteq Owed
  BY DEF Included
<1>5. CASE s \in Included(m)
  <2>1. /\ s \in Owed /\ payoutRows[s].payoutStatus \in {"pending", "approved"}
        /\ payoutRows[s].batchMonth = Unbatched /\ payoutRows[s].completedAt = m
    BY <1>5 DEF Included
  <2>2. PICK later : later = [payoutRows[s] EXCEPT !.batchMonth = m]
    OBVIOUS
  <2>3. /\ later \in Payout /\ later.payoutStatus = payoutRows[s].payoutStatus
        /\ later.batchMonth = m /\ later.completedAt = m
    BY <1>1, <2>1, <2>2 DEF Payout
  <2>4. later # NoPayout
    BY <2>3 DEF Payout, NoPayout
  <2>5. /\ payoutRows'[s] = later
        /\ payoutAudit'[s] = Append(Append(payoutAudit[s], "batch ran"), "batched")
    BY <1>5, <2>2 DEF GenerateMonthlyBatch
  <2>6. /\ Append(Append(payoutAudit[s], "batch ran"), "batched") \in Seq(PayoutActions)
        /\ PaidInOrder(later, Append(Append(payoutAudit[s], "batch ran"), "batched"))
    BY <1>1, <1>2, <1>3, <2>1, <2>3, Batched
  <2> QED
    BY <1>1, <2>1, <2>3, <2>4, <2>5, <2>6
<1>6. CASE s \in Owed \ Included(m) /\ payoutRows[s].completedAt = m
  <2>1. payoutRows'[s] = payoutRows[s] /\ payoutAudit'[s] = Append(payoutAudit[s], "batch ran")
    BY <1>6 DEF GenerateMonthlyBatch
  <2>2. payoutRows[s] \in Payout
    BY <1>1, <1>6
  <2>3. payoutRows[s].payoutStatus = "paid" \/ payoutRows[s].batchMonth # Unbatched
    BY <1>6, <2>2 DEF Included, Payout
  <2>4. PaidInOrder(payoutRows[s], Append(payoutAudit[s], "batch ran"))
    BY <1>1, <1>2, <1>6, <2>3, PassedOver
  <2>5. Append(payoutAudit[s], "batch ran") \in Seq(PayoutActions)
    <3>1. "batch ran" \in PayoutActions
      BY DEF PayoutActions
    <3> QED
      BY <1>1, <3>1, AppendProperties
  <2> QED
    BY <1>1, <1>6, <2>1, <2>4, <2>5
<1>7. CASE s \notin Included(m) /\ ~(s \in Owed /\ payoutRows[s].completedAt = m)
  <2>1. payoutRows'[s] = payoutRows[s] /\ payoutAudit'[s] = payoutAudit[s]
    BY <1>7 DEF GenerateMonthlyBatch
  <2> QED
    BY <1>1, <1>2, <2>1
<1> QED
  BY <1>4, <1>5, <1>6, <1>7

LEMMA BatchKeeps ==
  ASSUME PayoutIInv, NEW m \in Months, GenerateMonthlyBatch(m)
  PROVE  PayoutIInv'
<1>1. PayoutTypeOK
  BY DEF PayoutIInv, PayoutTrailTrue
<1>2. \A s \in Showings :
        /\ payoutRows'[s] \in Payout \cup {NoPayout}
        /\ payoutAudit'[s] \in Seq(PayoutActions)
        /\ payoutRows'[s] = NoPayout => payoutAudit'[s] = <<>>
        /\ payoutRows'[s] # NoPayout => PaidInOrder(payoutRows'[s], payoutAudit'[s])
  BY BatchOfOne
<1>3. /\ payoutRows' = [s \in Showings |-> payoutRows'[s]]
      /\ payoutAudit' = [s \in Showings |-> payoutAudit'[s]]
  BY DEF GenerateMonthlyBatch
<1>4. PayoutTypeOK'
  <2>1. coverageFee' = coverageFee /\ feeConfigs' = feeConfigs
    BY DEF GenerateMonthlyBatch
  <2>2. payoutRows' \in [Showings -> Payout \cup {NoPayout}] /\ payoutAudit' \in [Showings -> Seq(PayoutActions)]
    BY <1>2, <1>3
  <2> QED
    BY <1>1, <2>1, <2>2 DEF PayoutTypeOK
<1> QED
  BY <1>2, <1>4 DEF PayoutIInv, PayoutTrailTrue, Owed

LEMMA PayoutStep == PayoutIInv /\ [PayoutNext]_payoutVars => PayoutIInv'
<1> SUFFICES ASSUME PayoutIInv, [PayoutNext]_payoutVars
             PROVE  PayoutIInv'
  OBVIOUS
<1>1. PayoutTypeOK
  BY DEF PayoutIInv, PayoutTrailTrue
<1>2. ASSUME UNCHANGED <<payoutRows, payoutAudit>>, PayoutTypeOK'
      PROVE  PayoutIInv'
  BY <1>2 DEF PayoutIInv, PayoutTrailTrue, Owed
<1>3. CASE UNCHANGED payoutVars
  <2>1. PayoutTypeOK'
    BY <1>1, <1>3 DEF PayoutTypeOK, payoutVars
  <2> QED
    BY <1>2, <1>3, <2>1 DEF payoutVars
<1>4. CASE \E i \in 1 .. MaxConfigs, config \in FeeConfig : SaveFeeConfig(i, config)
  <2>1. PICK i \in 1 .. MaxConfigs, config \in FeeConfig : SaveFeeConfig(i, config)
    BY <1>4
  <2>2. feeConfigs' \in Seq(FeeConfig)
    BY <1>1, <2>1 DEF SaveFeeConfig, PayoutTypeOK
  <2>3. PayoutTypeOK'
    BY <1>1, <2>1, <2>2 DEF SaveFeeConfig, PayoutTypeOK
  <2> QED
    BY <1>2, <2>1, <2>3 DEF SaveFeeConfig
<1>5. CASE \E agent \in AgentsPaid, fee \in Fees : SetCoverageFee(agent, fee)
  <2>1. PayoutTypeOK'
    BY <1>1, <1>5 DEF SetCoverageFee, PayoutTypeOK
  <2> QED
    BY <1>2, <1>5, <2>1 DEF SetCoverageFee
<1>6. ASSUME NEW s \in Showings, ApprovePayout(s) \/ MarkPayoutPaid(s)
      PROVE  PayoutIInv'
  <2>1. ApprovePayout(s) => PayoutIInv'
    BY MovePayoutKeeps DEF ApprovePayout
  <2>2. MarkPayoutPaid(s) => PayoutIInv'
    BY MovePayoutKeeps DEF MarkPayoutPaid
  <2> QED
    BY <1>6, <2>1, <2>2
<1> QED
  BY <1>3, <1>4, <1>5, <1>6, CreatePayoutKeeps, BatchKeeps DEF PayoutNext

\* Whatever fees change and batches run: every payout is created, approved and paid
\* once and in that order, and is in the batch of its month exactly if one was run
\* in time (convex/showingPayouts.ts); its fee was the most specific there was.
THEOREM PayoutsAreSound == PayoutSpec => []PayoutsSound
<1>1. PayoutInit => PayoutIInv
  <2> SUFFICES ASSUME PayoutInit PROVE PayoutIInv
    OBVIOUS
  <2>1. 1 \in Months
    BY PayoutsAssumption DEF Months
  <2>2. PayoutTypeOK
    BY <2>1 DEF PayoutInit, PayoutTypeOK
  <2> QED
    BY <2>2 DEF PayoutInit, PayoutIInv, PayoutTrailTrue, Owed
<1>2. PayoutIInv => PayoutsSound
  BY FeesImplied DEF PayoutIInv, PayoutTrailTrue, PayoutsSound
<1> QED
  BY <1>1, <1>2, PayoutStep, PTL DEF PayoutSpec
=============================================================================
