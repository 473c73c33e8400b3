--------------------------- MODULE AgreementsProofs ---------------------------
(***************************************************************************)
(* Theorems about Agreements, for any number of agreements, rooms and      *)
(* buyers.  The table invariants are proved about the three ways a         *)
(* mutation changes the table - insert a draft, move a row to another      *)
(* status, link a predecessor to a successor - and then about Next.  At    *)
(* the end, about AgreementChains: what the readers of a chain find, and   *)
(* that the table implements Lineages.                                     *)
(***************************************************************************)
EXTENDS AgreementChains, FiniteFacts

Table == [Ids -> Row \cup {Absent}]

TableInv(t) ==
  /\ t \in Table
  /\ LinearIn(t)
  /\ AcyclicIn(t)
  /\ OwnedIn(t)

LEMMA AbsentIsNoRow == Absent \notin Row
  BY DEF Absent, Row, Statuses

LEMMA NoneIsNoId == None \notin Ids
  BY AgreementsAssumption DEF None, Ids

LEMMA RowsOfTable ==
  ASSUME NEW t \in Table, NEW a \in Ids
  PROVE  /\ a \in Rows(t) <=> t[a] \in Row
         /\ a \in Rows(t) <=> t[a].status \in Statuses
         /\ a \notin Rows(t) <=> t[a] = Absent
  BY AbsentIsNoRow DEF Table, Rows, Row, Absent, Statuses

LEMMA InsertKeepsTable ==
  ASSUME NEW t, TableInv(t), NEW a \in Ids, a \notin Rows(t),
         NEW r \in Rooms, NEW ty \in Types
  PROVE  TableInv([t EXCEPT ![a] = NewDraft(r, BuyerOf[r], ty)])
  <1> DEFINE u == [t EXCEPT ![a] = NewDraft(r, BuyerOf[r], ty)]
  <1>1. NewDraft(r, BuyerOf[r], ty) \in Row
    BY AgreementsAssumption DEF NewDraft, Row, Statuses, None
  <1>2. u \in Table /\ u[a] = NewDraft(r, BuyerOf[r], ty)
    BY <1>1 DEF TableInv, Table
  <1>3. \A b \in Ids : b # a => u[b] = t[b]
    BY DEF TableInv, Table
  <1>4. t[a].replacedById = None /\ u[a].replacedById = None
        /\ u[a].status = "draft"
    BY RowsOfTable, <1>2 DEF TableInv, NewDraft, Absent
  <1>5. Rows(u) = Rows(t) \cup {a}
    BY <1>1, <1>2, <1>3, AbsentIsNoRow DEF Rows
  <1>6. LinearIn(u)
    BY <1>3, <1>4, <1>5 DEF TableInv, LinearIn, Rows, None
  <1>7. AcyclicIn(u)
    BY <1>3, <1>4 DEF TableInv, AcyclicIn
  <1>8. OwnedIn(u)
    BY <1>2, <1>3, <1>5 DEF TableInv, OwnedIn, NewDraft, Rows
  <1> QED
    BY <1>2, <1>6, <1>7, <1>8 DEF TableInv

\* A row moved to another status, its links and its owner untouched.
Moved(t, u, a) ==
  /\ u \in Table
  /\ \A b \in Ids : b # a => u[b] = t[b]
  /\ {t[a].status, u[a].status} \subseteq Statuses \ {"replaced"}
  /\ u[a].replacedById = t[a].replacedById
  /\ u[a].buyerId = t[a].buyerId
  /\ u[a].dealRoomId = t[a].dealRoomId

LEMMA MoveKeepsTable ==
  ASSUME NEW t, TableInv(t), NEW u, NEW a \in Ids, Moved(t, u, a)
  PROVE  TableInv(u)
  <1>1. Rows(u) = Rows(t)
    BY RowsOfTable DEF Moved, TableInv, Rows
  <1>2. \A b \in Ids : /\ u[b].replacedById = t[b].replacedById
                       /\ u[b].status = "replaced" <=> t[b].status = "replaced"
    BY DEF Moved
  <1>3. \A b \in Ids : /\ u[b].buyerId = t[b].buyerId
                       /\ u[b].dealRoomId = t[b].dealRoomId
    BY DEF Moved
  <1>4. LinearIn(u)
    BY <1>1, <1>2, <1>3 DEF TableInv, LinearIn, Rows
  <1>5. AcyclicIn(u)
    BY <1>2 DEF TableInv, AcyclicIn
  <1>6. OwnedIn(u)
    BY <1>1, <1>3 DEF TableInv, OwnedIn, Rows
  <1> QED
    BY <1>4, <1>5, <1>6 DEF TableInv, Moved

(***************************************************************************)
(* Linking keeps the chains linear and acyclic.  Of the checks the proof   *)
(* uses, "the successor is not replaced" makes the explicit cycle check of *)
(* applySupersessionState redundant: the successor ends its own chain.     *)
(***************************************************************************)
LEMMA LinkKeepsTable ==
  ASSUME NEW t, TableInv(t), NEW p \in Rows(t), NEW s \in Rows(t),
         CanSupersede(t, p, s)
  PROVE  TableInv(Superseded(t, p, s))
  <1> DEFINE u == Superseded(t, p, s)
  <1>0. p \in Ids /\ s \in Ids /\ t \in Table /\ t[p] \in Row /\ t[s] \in Row
    BY RowsOfTable DEF TableInv, Rows
  <1>1. u[p] = [t[p] EXCEPT !.status = "replaced", !.replacedById = s]
    BY <1>0 DEF Superseded, Table
  <1>2. \A b \in Ids : b # p => u[b] = t[b]
    BY <1>0 DEF Superseded, Table
  <1>3. /\ u[p] \in Row
        /\ u[p].status = "replaced"
        /\ u[p].replacedById = s
        /\ u[p].buyerId = t[p].buyerId
        /\ u[p].dealRoomId = t[p].dealRoomId
    BY <1>0, <1>1 DEF Row, Statuses
  <1>4. u \in Table
    BY <1>0, <1>2, <1>3 DEF Superseded, Table
  <1>5. Rows(u) = Rows(t)
    BY <1>0, <1>2, <1>3, AbsentIsNoRow DEF Rows
  <1>6. p # s /\ t[p].replacedById = None /\ t[p].buyerId = t[s].buyerId
        /\ s # None
    BY <1>0 DEF CanSupersede, Ids, None
  <1>7. t[s].replacedById = None
    BY <1>0 DEF CanSupersede, TableInv, LinearIn
  <1>8. \A b \in Ids : t[b].replacedById # s
    BY <1>0, <1>6 DEF CanSupersede, TableInv, LinearIn, OfBuyer, Rows, Absent
  <1>9. LinearIn(u)
    BY <1>0, <1>2, <1>3, <1>5, <1>6, <1>8 DEF TableInv, LinearIn, Rows
  <1>10. AcyclicIn(u)
    <2> SUFFICES ASSUME NEW S \in SUBSET Ids, S # {}
                 PROVE  \E a \in S : u[a].replacedById \notin S
      BY DEF AcyclicIn
    <2>1. PICK a \in S : t[a].replacedById \notin S
      BY DEF TableInv, AcyclicIn
    <2>2. CASE a # p \/ s \notin S
      BY <2>1, <2>2, <1>2, <1>3
    <2>3. CASE s \in S
      <3>1. None \notin S
        BY NoneIsNoId
      <3>2. u[s].replacedById = None
        BY <1>0, <1>2, <1>6, <1>7
      <3> QED
        BY <2>3, <3>1, <3>2
    <2> QED
      BY <2>2, <2>3
  <1>11. OwnedIn(u)
    BY <1>0, <1>2, <1>3, <1>5 DEF TableInv, OwnedIn, Rows
  <1> QED
    BY <1>4, <1>9, <1>10, <1>11 DEF TableInv
-----------------------------------------------------------------------------
(***************************************************************************)
(* The verdict.                                                            *)
(***************************************************************************)
LEMMA FirstIsMember ==
  ASSUME NEW S \in SUBSET Ids, S # {}
  PROVE  First(S) \in S
  <1>1. S \in SUBSET Nat
    BY AgreementsAssumption DEF Ids
  <1>2. PICK x \in S : \A y \in S : ~ (<<y, x>> \in OpToRel(<, Nat))
    BY <1>1, NatLessThanWellFounded, WFMin
  <1>3. \A y \in S : ~ (y < x)
    BY <1>1, <1>2 DEF OpToRel
  <1>4. \A y \in S : x <= y
    BY <1>1, <1>3
  <1> QED
    BY <1>4 DEF First

\* What an eligible verdict of a room says of the agreement that governs it.
Governs(t, r, v) ==
  v.isEligible => /\ v.governingAgreementId \in InRoom(t, r)
                  /\ t[v.governingAgreementId].type = "full_representation"
                  /\ t[v.governingAgreementId].status \in {"signed", "replaced"}

LEMMA VerdictGoverned ==
  ASSUME NEW t \in Table, NEW r \in Rooms
  PROVE  /\ RoomVerdict(t, r) \in Verdict
         /\ Governs(t, r, RoomVerdict(t, r))
  <1> DEFINE scope == InRoom(t, r)
             full == SignedOf(t, scope, "full_representation")
             pass == SignedOf(t, scope, "tour_pass")
             repl == WithStatus(t, scope, {"replaced"})
             canc == WithStatus(t, scope, {"canceled"})
             pend == WithStatus(t, scope, Pending)
             v == RoomVerdict(t, r)
  <1>1. /\ full \in SUBSET Ids /\ pass \in SUBSET Ids
        /\ repl \in SUBSET Ids /\ canc \in SUBSET Ids
    BY DEF SignedOf, WithStatus, InRoom, Rows
  <1>2. CASE full # {}
    <2>1. v = [isEligible |-> TRUE, currentAgreementType |-> "full_representation",
               governingAgreementId |-> First(full),
               blockingReasonCode |-> "none", requiredAction |-> "none"]
      BY <1>2 DEF RoomVerdict, ComputeOfferEligibility
    <2>2. First(full) \in full
      BY <1>1, <1>2, FirstIsMember
    <2> QED
      BY <2>1, <2>2, <1>1 DEF Verdict, Governs, SignedOf, Types
  <1>3. CASE full = {}
    <2>1. v \in Verdict /\ v.isEligible = FALSE
      <3>1. CASE pass # {}
        BY <1>1, <1>3, <3>1, FirstIsMember
        DEF RoomVerdict, ComputeOfferEligibility, Ineligible, Verdict, Types
      <3>2. CASE pass = {} /\ repl # {} /\ pend = {}
        BY <1>1, <1>3, <3>2, FirstIsMember
        DEF RoomVerdict, ComputeOfferEligibility, Ineligible, Verdict, Types
      <3>3. CASE pass = {} /\ ~(repl # {} /\ pend = {}) /\ canc # {} /\ canc = scope
        BY <1>1, <1>3, <3>3, FirstIsMember
        DEF RoomVerdict, ComputeOfferEligibility, Ineligible, Verdict, Types
      <3>4. CASE pass = {} /\ ~(repl # {} /\ pend = {}) /\ ~(canc # {} /\ canc = scope)
        BY <1>1, <1>3, <3>4
        DEF RoomVerdict, ComputeOfferEligibility, Ineligible, Verdict, Types
      <3> QED
        BY <3>1, <3>2, <3>3, <3>4
    <2> QED
      BY <2>1 DEF Governs
  <1> QED
    BY <1>2, <1>3
-----------------------------------------------------------------------------
(***************************************************************************)
(* The inductive invariant: the table invariants, and every persisted      *)
(* eligible row governed by an agreement that was not canceled.            *)
(***************************************************************************)
RowsGoverned(t, e) == \A r \in Rooms : Governs(t, r, e[r])

IInv ==
  /\ TableInv(agreements)
  /\ eligibility \in [Rooms -> Verdict \cup {NoVerdict}]
  /\ RowsGoverned(agreements, eligibility)
  /\ clock \in Nat
  /\ DOMAIN eligibilityAudit = Rooms
  /\ DOMAIN agreementAudit = Ids

LEMMA InitIInv == Init => IInv
  <1> SUFFICES ASSUME Init PROVE IInv
    OBVIOUS
  <1>1. agreements \in Table /\ \A a \in Ids : agreements[a] = Absent
    BY DEF Init, Table
  <1>2. Rows(agreements) = {}
    BY <1>1 DEF Rows
  <1>3. LinearIn(agreements)
    BY <1>1, <1>2 DEF LinearIn, Absent, None
  <1>4. AcyclicIn(agreements)
    <2>1. \A a \in Ids : agreements[a].replacedById \notin Ids
      BY <1>1, NoneIsNoId DEF Absent
    <2> QED
      BY <2>1 DEF AcyclicIn
  <1>5. OwnedIn(agreements)
    BY <1>2 DEF OwnedIn
  <1>6. RowsGoverned(agreements, eligibility)
    BY DEF Init, RowsGoverned, Governs, NoVerdict
  <1> QED
    BY <1>1, <1>3, <1>4, <1>5, <1>6 DEF IInv, TableInv, Init

\* A recalculation writes one row, and writes it sound.
LEMMA RecalculateSound ==
  ASSUME NEW r \in Rooms, NEW b, RecalculateInternal(b, r),
         agreements' \in Table, IInv
  PROVE  /\ BuyerOf[r] = b
         /\ eligibility' \in [Rooms -> Verdict \cup {NoVerdict}]
         /\ Governs(agreements', r, eligibility'[r])
         /\ \A q \in Rooms : q # r => eligibility'[q] = eligibility[q]
         /\ DOMAIN eligibilityAudit' = Rooms
  <1>1. /\ RoomVerdict(agreements', r) \in Verdict
        /\ Governs(agreements', r, RoomVerdict(agreements', r))
    BY VerdictGoverned
  <1>2. eligibility' = [eligibility EXCEPT ![r] = RoomVerdict(agreements', r)]
    BY DEF RecalculateInternal
  <1>3. DOMAIN eligibilityAudit' = Rooms
    BY DEF RecalculateInternal, IInv
  <1> QED
    BY <1>1, <1>2, <1>3 DEF RecalculateInternal, IInv

\* A row stays governed while its agreement keeps its room, its type and a
\* status other than canceled.
LEMMA GovernsKept ==
  ASSUME NEW t \in Table, NEW u \in Table, NEW r \in Rooms, NEW v,
         Governs(t, r, v),
         \A a \in InRoom(t, r) : t[a].status \in {"signed", "replaced"} =>
           /\ a \in InRoom(u, r)
           /\ u[a].type = t[a].type
           /\ u[a].status \in {"signed", "replaced"}
  PROVE  Governs(u, r, v)
  BY DEF Governs

\* After a step that recalculates room r, all rows are governed if those of
\* the other rooms are.
LEMMA RecalculatedGoverned ==
  ASSUME NEW r \in Rooms, NEW b, RecalculateInternal(b, r),
         agreements' \in Table, IInv,
         \A q \in Rooms \ {r} : \A a \in InRoom(agreements, q) :
           agreements[a].status \in {"signed", "replaced"} =>
             agreements'[a] = agreements[a]
  PROVE  RowsGoverned(agreements', eligibility')
  <1> SUFFICES ASSUME NEW q \in Rooms
               PROVE  Governs(agreements', q, eligibility'[q])
    BY DEF RowsGoverned
  <1>1. CASE q = r
    BY <1>1, RecalculateSound
  <1>2. CASE q # r
    <2>1. eligibility'[q] = eligibility[q] /\ Governs(agreements, q, eligibility[q])
      BY <1>2, RecalculateSound DEF IInv, RowsGoverned
    <2>2. \A a \in InRoom(agreements, q) :
            agreements[a].status \in {"signed", "replaced"} =>
              /\ a \in InRoom(agreements', q)
              /\ agreements'[a].type = agreements[a].type
              /\ agreements'[a].status \in {"signed", "replaced"}
      BY <1>2 DEF InRoom, Rows
    <2> QED
      BY <2>1, <2>2, GovernsKept DEF IInv, TableInv
  <1> QED
    BY <1>1, <1>2

LEMMA NextIdIsFree ==
  ASSUME NEW a, IsNextId(a)
  PROVE  a \in Ids /\ a \notin Rows(agreements)
  BY AgreementsAssumption DEF IsNextId, Ids

LEMMA CreateDraftStep ==
  ASSUME IInv, NEW a \in Ids, NEW r \in Rooms, NEW b \in Buyers, NEW ty \in Types,
         CreateDraft(a, r, b, ty)
  PROVE  IInv'
  <1>1. a \notin Rows(agreements) /\ BuyerOf[r] = b
    BY NextIdIsFree DEF CreateDraft, RecalculateInternal
  <1>2. TableInv(agreements')
    BY <1>1, InsertKeepsTable DEF CreateDraft, IInv
  <1>3. \A c \in Ids : c # a => agreements'[c] = agreements[c]
    BY DEF CreateDraft, IInv, TableInv, Table
  <1>4. RowsGoverned(agreements', eligibility')
    BY <1>1, <1>2, <1>3, RecalculatedGoverned DEF CreateDraft, InRoom, Rows, TableInv
  <1> QED
    BY <1>2, <1>4, RecalculateSound DEF CreateDraft, IInv, TableInv

\* The three mutations that only move a row to another status.
LEMMA MoveStep ==
  ASSUME IInv, NEW a \in Rows(agreements),
         Moved(agreements, agreements', a),
         RecalculateInternal(agreements[a].buyerId, agreements[a].dealRoomId),
         clock' \in Nat, DOMAIN agreementAudit' = Ids
  PROVE  IInv'
  <1>1. a \in Ids /\ agreements[a].dealRoomId \in Rooms
    BY RowsOfTable DEF IInv, TableInv, Rows, Row
  <1>2. TableInv(agreements')
    BY <1>1, MoveKeepsTable DEF IInv
  <1>3. RowsGoverned(agreements', eligibility')
    BY <1>1, <1>2, RecalculatedGoverned DEF Moved, InRoom, Rows, TableInv
  <1> QED
    BY <1>1, <1>2, <1>3, RecalculateSound DEF IInv, TableInv

LEMMA StatusSteps ==
  ASSUME IInv, NEW a \in Ids,
         SendForSigning(a) \/ RecordSignature(a) \/ CancelAgreement(a)
  PROVE  IInv'
  <1>1. agreements[a].status \in {"draft", "sent", "signed"}
    BY DEF SendForSigning, RecordSignature, CancelAgreement
  <1>2. a \in Rows(agreements) /\ agreements[a] \in Row /\ agreements \in Table
    BY <1>1, RowsOfTable DEF IInv, TableInv, Statuses
  <1>3. Moved(agreements, agreements', a)
    <2>1. CASE SendForSigning(a)
      BY <2>1, <1>1, <1>2 DEF SendForSigning, Moved, Table, Row, Statuses
    <2>2. CASE RecordSignature(a)
      <3> DEFINE row == [agreements[a] EXCEPT !.status = "signed",
                                              !.signedAt = clock + 1]
      <3>1. clock + 1 \in Nat
        BY DEF IInv
      <3>2. row \in Row /\ row.status = "signed"
            /\ row.replacedById = agreements[a].replacedById
            /\ row.buyerId = agreements[a].buyerId
            /\ row.dealRoomId = agreements[a].dealRoomId
        BY <1>2, <3>1 DEF Row, Statuses
      <3>3. agreements' = [agreements EXCEPT ![a] = row]
        BY <2>2 DEF RecordSignature
      <3>4. agreements' \in Table /\ agreements'[a] = row
            /\ \A b \in Ids : b # a => agreements'[b] = agreements[b]
        BY <1>2, <3>2, <3>3 DEF Table
      <3> QED
        BY <1>1, <3>2, <3>4 DEF Moved, Statuses
    <2>3. CASE CancelAgreement(a)
      BY <2>3, <1>1, <1>2 DEF CancelAgreement, Moved, Table, Row, Statuses
    <2> QED
      BY <2>1, <2>2, <2>3
  <1>4. /\ RecalculateInternal(agreements[a].buyerId, agreements[a].dealRoomId)
        /\ clock' \in Nat /\ DOMAIN agreementAudit' = Ids
    BY DEF SendForSigning, RecordSignature, CancelAgreement, IInv
  <1> QED
    BY <1>2, <1>3, <1>4, MoveStep

\* What linking does to the single rows.
LEMMA SupersededRows ==
  ASSUME NEW t \in Table, NEW p \in Rows(t), NEW s
  PROVE  /\ Superseded(t, p, s)[p].dealRoomId = t[p].dealRoomId
         /\ Superseded(t, p, s)[p].type = t[p].type
         /\ Superseded(t, p, s)[p].status = "replaced"
         /\ \A c \in Ids : c # p => Superseded(t, p, s)[c] = t[c]
  BY RowsOfTable DEF Superseded, Rows, Table, Row

\* The two mutations that insert a draft and link it in one transaction.
LEMMA InsertAndLinkStep ==
  ASSUME IInv, NEW a \in Ids, IsNextId(a), NEW p \in Rows(agreements),
         NEW r \in Rooms, NEW ty \in Types,
         agreements[p].dealRoomId = r,
         CanSupersede([agreements EXCEPT ![a] = NewDraft(r, BuyerOf[r], ty)], p, a),
         agreements' = Superseded([agreements EXCEPT ![a] = NewDraft(r, BuyerOf[r], ty)],
                                  p, a),
         RecalculateInternal(BuyerOf[r], r),
         clock' = clock, DOMAIN agreementAudit' = Ids
  PROVE  IInv'
  <1> DEFINE t == [agreements EXCEPT ![a] = NewDraft(r, BuyerOf[r], ty)]
  <1>1. a \in Ids /\ a \notin Rows(agreements)
    BY NextIdIsFree
  <1>2. TableInv(t) /\ t \in Table
    BY <1>1, InsertKeepsTable DEF IInv, TableInv
  <1>3. /\ t[a] = NewDraft(r, BuyerOf[r], ty)
        /\ \A c \in Ids : c # a => t[c] = agreements[c]
    BY DEF IInv, TableInv, Table
  <1>4. p # a /\ p \in Rows(t) /\ a \in Rows(t)
    <2>1. p # a /\ p \in Ids
      BY <1>1 DEF Rows
    <2>2. p \in Rows(t)
      BY <1>3, <2>1 DEF Rows
    <2>3. t[a].status = "draft"
      BY <1>3 DEF NewDraft
    <2>4. a \in Rows(t)
      BY <2>3 DEF Rows, Absent
    <2> QED
      BY <2>1, <2>2, <2>4
  <1>5. TableInv(agreements')
    BY <1>2, <1>4, LinkKeepsTable
  <1>6. \A c \in Ids : c # p => agreements'[c] = t[c]
    <2>1. agreements' = Superseded(t, p, a)
      OBVIOUS
    <2>2. \A c \in Ids : c # p => Superseded(t, p, a)[c] = t[c]
      <3> HIDE DEF t
      <3> QED
        BY <1>2, <1>4, SupersededRows
    <2> QED
      BY <2>1, <2>2
  <1>7. \A q \in Rooms \ {r} : \A c \in InRoom(agreements, q) :
          agreements'[c] = agreements[c]
    BY <1>1, <1>3, <1>6 DEF InRoom, Rows
  <1>8. RowsGoverned(agreements', eligibility')
    BY <1>5, <1>7, RecalculatedGoverned DEF TableInv
  <1> QED
    BY <1>5, <1>8, RecalculateSound DEF IInv, TableInv

LEMMA ReplaceAgreementStep ==
  ASSUME IInv, NEW p \in Ids, NEW a \in Ids, NEW ty \in Types,
         ReplaceAgreement(p, a, ty)
  PROVE  IInv'
  <1>1. p \in Rows(agreements) /\ agreements[p] \in Row
    BY RowsOfTable DEF ReplaceAgreement, IInv, TableInv, Statuses
  <1>2. /\ agreements[p].dealRoomId \in Rooms
        /\ agreements[p].buyerId = BuyerOf[agreements[p].dealRoomId]
    BY <1>1 DEF IInv, TableInv, OwnedIn, Row
  <1>3. DOMAIN agreementAudit' = Ids
    BY DEF ReplaceAgreement, IInv
  <1> QED
    BY <1>1, <1>2, <1>3, InsertAndLinkStep DEF ReplaceAgreement

LEMMA InitiateUpgradeStep ==
  ASSUME IInv, NEW r \in Rooms, NEW a \in Ids, InitiateUpgrade(r, a)
  PROVE  IInv'
  <1> DEFINE passes == SignedOf(agreements,
                         InRoom(agreements, r) \cap OfBuyer(agreements, BuyerOf[r]),
                         "tour_pass")
  <1>1. First(passes) \in passes
    BY FirstIsMember DEF InitiateUpgrade, SignedOf, InRoom, Rows
  <1>2. /\ First(passes) \in Rows(agreements)
        /\ agreements[First(passes)].dealRoomId = r
    BY <1>1 DEF SignedOf, InRoom
  <1>3. DOMAIN agreementAudit' = Ids
    BY DEF InitiateUpgrade, IInv
  <1> QED
    BY <1>2, <1>3, InsertAndLinkStep DEF InitiateUpgrade, Types

\* No row is recalculated, but a link takes no agreement out of "signed or
\* replaced", so the persisted rows stay governed.
LEMMA SupersedeStep ==
  ASSUME IInv, NEW p \in Ids, NEW s \in Ids, Supersede(p, s)
  PROVE  IInv'
  <1>1. p \in Rows(agreements) /\ s \in Rows(agreements)
    BY DEF Supersede
  <1>2. TableInv(agreements')
    BY <1>1, LinkKeepsTable DEF Supersede, IInv
  <1>3. /\ \A c \in Ids : c # p => agreements'[c] = agreements[c]
        /\ agreements'[p].dealRoomId = agreements[p].dealRoomId
        /\ agreements'[p].type = agreements[p].type
        /\ agreements'[p].status = "replaced"
    <2>1. agreements' = Superseded(agreements, p, s) /\ agreements \in Table
      BY DEF Supersede, IInv, TableInv
    <2>2. /\ \A c \in Ids : c # p => Superseded(agreements, p, s)[c] = agreements[c]
          /\ Superseded(agreements, p, s)[p].dealRoomId = agreements[p].dealRoomId
          /\ Superseded(agreements, p, s)[p].type = agreements[p].type
          /\ Superseded(agreements, p, s)[p].status = "replaced"
      BY <1>1, <2>1, SupersededRows
    <2> QED
      BY <2>1, <2>2
  <1>4. Rows(agreements') = Rows(agreements)
    BY <1>1, <1>2, <1>3, RowsOfTable DEF TableInv, Rows, Statuses
  <1>5. RowsGoverned(agreements', eligibility)
    <2> SUFFICES ASSUME NEW q \in Rooms
                 PROVE  Governs(agreements', q, eligibility[q])
      BY DEF RowsGoverned
    <2>1. \A c \in InRoom(agreements, q) :
            agreements[c].status \in {"signed", "replaced"} =>
              /\ c \in InRoom(agreements', q)
              /\ agreements'[c].type = agreements[c].type
              /\ agreements'[c].status \in {"signed", "replaced"}
      BY <1>3, <1>4 DEF InRoom, Rows
    <2>2. Governs(agreements, q, eligibility[q])
      BY DEF IInv, RowsGoverned
    <2> QED
      BY <1>2, <2>1, <2>2, GovernsKept DEF IInv, TableInv
  <1> QED
    BY <1>2, <1>5 DEF Supersede, IInv

LEMMA RecalculateStep ==
  ASSUME IInv, NEW r \in Rooms, RecalculateEligibility(r)
  PROVE  IInv'
  <1>1. agreements' = agreements /\ agreements' \in Table
    BY DEF RecalculateEligibility, IInv, TableInv
  <1>2. RowsGoverned(agreements', eligibility')
    BY <1>1, RecalculatedGoverned DEF RecalculateEligibility
  <1> QED
    BY <1>1, <1>2, RecalculateSound DEF RecalculateEligibility, IInv

LEMMA NextIInv == IInv /\ [Next]_vars => IInv'
  <1> SUFFICES ASSUME IInv, [Next]_vars PROVE IInv'
    OBVIOUS
  <1>1. CASE UNCHANGED vars
    BY <1>1 DEF vars, IInv, TableInv, LinearIn, AcyclicIn, OwnedIn, Rows,
                RowsGoverned, Governs, InRoom
  <1>2. CASE Next
    BY <1>2, CreateDraftStep, StatusSteps, ReplaceAgreementStep, SupersedeStep,
       InitiateUpgradeStep, RecalculateStep DEF Next
  <1> QED
    BY <1>1, <1>2

THEOREM Inductive == Spec => []IInv
  BY InitIInv, NextIInv, PTL DEF Spec

(***************************************************************************)
(* Types.  The tables keep their shape whatever mutations run.             *)
(***************************************************************************)
THEOREM TypeCorrect == Spec => []TypeOK
  <1>1. IInv => TypeOK
    BY DEF IInv, TableInv, Table, TypeOK
  <1> QED
    BY <1>1, Inductive, PTL

(***************************************************************************)
(* Supersession keeps every buyer's agreements in linear chains: replaced  *)
(* means linked, links stay with the buyer, and no successor has two       *)
(* predecessors - for three mutations that link independently.             *)
(***************************************************************************)
THEOREM ChainsAreLinear == Spec => []LinearChain
  <1>1. IInv => LinearChain
    BY DEF IInv, TableInv, LinearChain
  <1> QED
    BY <1>1, Inductive, PTL

(***************************************************************************)
(* Chains never close into a cycle, so every walk over replacedById ends.  *)
(***************************************************************************)
THEOREM ChainsAreAcyclic == Spec => []AcyclicChains
  <1>1. IInv => AcyclicChains
    BY DEF IInv, TableInv, AcyclicChains
  <1> QED
    BY <1>1, Inductive, PTL

(***************************************************************************)
(* An agreement belongs to the owner of its deal room.                     *)
(***************************************************************************)
THEOREM AgreementsAreOwned == Spec => []RoomOwner
  <1>1. IInv => RoomOwner
    BY DEF IInv, TableInv, RoomOwner
  <1> QED
    BY <1>1, Inductive, PTL

(***************************************************************************)
(* What every mutation relies on: the four facts above together.           *)
(***************************************************************************)
THEOREM TablesAreSound == Spec => []TablesSound
  <1>1. TypeOK /\ LinearChain /\ AcyclicChains /\ RoomOwner => TablesSound
    BY DEF TablesSound
  <1> QED
    BY <1>1, TypeCorrect, ChainsAreLinear, ChainsAreAcyclic, AgreementsAreOwned, PTL

(***************************************************************************)
(* A persisted eligible row is governed by a full-representation agreement *)
(* of its room that was signed and never canceled.                         *)
(***************************************************************************)
THEOREM EligibleRowsAreGoverned == Spec => []EligibleRowGoverned
  <1>1. IInv => EligibleRowGoverned
    BY DEF IInv, RowsGoverned, Governs, EligibleRowGoverned
  <1> QED
    BY <1>1, Inductive, PTL

-----------------------------------------------------------------------------
(***************************************************************************)
(* What a step changes.  A mutation that recalculates writes agreements of *)
(* one room only, and the verdict of a room reads that room's agreements.  *)
(***************************************************************************)
LEMMA VerdictIsLocal ==
  ASSUME NEW t, NEW u, NEW r \in Rooms, InRoom(u, r) = InRoom(t, r),
         \A a \in InRoom(t, r) : u[a] = t[a]
  PROVE  RoomVerdict(u, r) = RoomVerdict(t, r)
  <1> DEFINE scope == InRoom(t, r)
  <1>1. /\ \A ty : SignedOf(u, scope, ty) = SignedOf(t, scope, ty)
        /\ \A st : WithStatus(u, scope, st) = WithStatus(t, scope, st)
    BY DEF SignedOf, WithStatus
  <1> HIDE DEF scope
  <1>2. ComputeOfferEligibility(u, scope) = ComputeOfferEligibility(t, scope)
    BY <1>1 DEF ComputeOfferEligibility
  <1> QED
    BY <1>2 DEF RoomVerdict, scope

OnlyRoom(r) ==
  \A q \in Rooms \ {r} :
    /\ InRoom(agreements', q) = InRoom(agreements, q)
    /\ \A a \in InRoom(agreements, q) : agreements'[a] = agreements[a]

ClosedKept ==
  \A a \in Ids : agreements[a].status \in {"canceled", "replaced"} =>
                  agreements'[a] = agreements[a]

\* The step recalculates room r of buyer b, changes no other room's rows and
\* no closed row.
Recalculates(b, r) == RecalculateInternal(b, r) /\ OnlyRoom(r) /\ ClosedKept

LEMMA CreateDraftChanges ==
  ASSUME IInv, NEW a \in Ids, NEW r \in Rooms, NEW b \in Buyers, NEW ty \in Types,
         CreateDraft(a, r, b, ty)
  PROVE  Recalculates(b, r)
  <1>1. a \notin Rows(agreements) /\ agreements[a] = Absent
    BY NextIdIsFree DEF CreateDraft, Rows
  <1>2. /\ agreements'[a] = NewDraft(r, b, ty)
        /\ \A c \in Ids : c # a => agreements'[c] = agreements[c]
    BY DEF CreateDraft, IInv, TableInv, Table
  <1>3. OnlyRoom(r)
    BY <1>1, <1>2 DEF OnlyRoom, InRoom, Rows, NewDraft
  <1>4. ClosedKept
    BY <1>1, <1>2 DEF ClosedKept, Absent
  <1> QED
    BY <1>3, <1>4 DEF Recalculates, CreateDraft

LEMMA StatusChanges ==
  ASSUME IInv, NEW a \in Ids,
         SendForSigning(a) \/ RecordSignature(a) \/ CancelAgreement(a)
  PROVE  /\ agreements[a].dealRoomId \in Rooms
         /\ Recalculates(agreements[a].buyerId, agreements[a].dealRoomId)
  <1>1. agreements[a].status \in {"draft", "sent", "signed"}
    BY DEF SendForSigning, RecordSignature, CancelAgreement
  <1>2. a \in Rows(agreements) /\ agreements[a] \in Row /\ agreements \in Table
    BY <1>1, RowsOfTable DEF IInv, TableInv, Statuses
  <1>3. \A c \in Ids : c # a => agreements'[c] = agreements[c]
    BY <1>2 DEF SendForSigning, RecordSignature, CancelAgreement, Table
  <1>4. agreements'[a].dealRoomId = agreements[a].dealRoomId /\ agreements'[a].status # "absent"
    <2>1. CASE SendForSigning(a)
      BY <1>2, <2>1 DEF SendForSigning, Table, Row
    <2>2. CASE RecordSignature(a)
      BY <1>2, <2>2 DEF RecordSignature, Table, Row
    <2>3. CASE CancelAgreement(a)
      BY <1>2, <2>3 DEF CancelAgreement, Table, Row
    <2> QED
      BY <2>1, <2>2, <2>3
  <1>5. OnlyRoom(agreements[a].dealRoomId)
    BY <1>2, <1>3, <1>4 DEF OnlyRoom, InRoom, Rows, Absent
  <1>6. ClosedKept
    BY <1>1, <1>3 DEF ClosedKept
  <1> QED
    BY <1>2, <1>5, <1>6
    DEF Recalculates, SendForSigning, RecordSignature, CancelAgreement, Row

LEMMA TwoRowsChange ==
  ASSUME NEW a \in Ids, NEW p \in Ids, NEW r \in Rooms, agreements[a] = Absent,
         agreements[p].dealRoomId = r, agreements[p].status = "signed",
         agreements'[p].dealRoomId = r, agreements'[a].dealRoomId = r,
         \A c \in Ids \ {a, p} : agreements'[c] = agreements[c]
  PROVE  OnlyRoom(r) /\ ClosedKept
  <1>1. ASSUME NEW q \in Rooms \ {r}, NEW c \in Ids
        PROVE  /\ c \in InRoom(agreements', q) <=> c \in InRoom(agreements, q)
               /\ c \in InRoom(agreements, q) => agreements'[c] = agreements[c]
    BY DEF InRoom, Rows
  <1>2. OnlyRoom(r)
    BY <1>1 DEF OnlyRoom, InRoom, Rows
  <1>3. ClosedKept
    <2> SUFFICES ASSUME NEW c \in Ids, agreements[c].status \in {"canceled", "replaced"}
                 PROVE  agreements'[c] = agreements[c]
      BY DEF ClosedKept
    <2>1. c # a /\ c # p
      BY DEF Absent
    <2> QED
      BY <2>1
  <1> QED
    BY <1>2, <1>3

LEMMA InsertAndLinkChanges ==
  ASSUME IInv, NEW a \in Ids, IsNextId(a), NEW p \in Rows(agreements),
         NEW r \in Rooms, NEW ty \in Types,
         agreements[p].dealRoomId = r, agreements[p].status = "signed",
         agreements' = Superseded([agreements EXCEPT ![a] = NewDraft(r, BuyerOf[r], ty)],
                                  p, a)
  PROVE  OnlyRoom(r) /\ ClosedKept
  <1> DEFINE t == [agreements EXCEPT ![a] = NewDraft(r, BuyerOf[r], ty)]
  <1>1. a \notin Rows(agreements) /\ agreements[a] = Absent /\ p # a /\ p \in Ids
    BY NextIdIsFree DEF Rows
  <1>2. t \in Table
    BY <1>1, InsertKeepsTable DEF IInv, TableInv
  <1>3. /\ t[a] = NewDraft(r, BuyerOf[r], ty) /\ t[p] = agreements[p]
        /\ \A c \in Ids \ {a} : t[c] = agreements[c]
    BY <1>1 DEF IInv, TableInv, Table
  <1>4. p \in Rows(t)
    BY <1>1, <1>3 DEF Rows
  <1> HIDE DEF t
  <1>5. /\ Superseded(t, p, a)[p].dealRoomId = r
        /\ Superseded(t, p, a)[p].status = "replaced"
        /\ \A c \in Ids : c # p => Superseded(t, p, a)[c] = t[c]
    BY <1>2, <1>3, <1>4, SupersededRows
  <1>6. agreements' = Superseded(t, p, a)
    BY DEF t
  <1>7. /\ agreements'[p].dealRoomId = r /\ agreements'[p].status = "replaced"
        /\ agreements'[a] = NewDraft(r, BuyerOf[r], ty)
        /\ \A c \in Ids \ {a, p} : agreements'[c] = agreements[c]
    <2>1. \A c \in Ids : c # p => agreements'[c] = t[c]
      BY <1>5, <1>6
    <2>2. agreements'[p].dealRoomId = r /\ agreements'[p].status = "replaced"
      BY <1>5, <1>6
    <2> QED
      BY <1>1, <1>3, <2>1, <2>2
  <1>8. agreements'[a].dealRoomId = r
    BY <1>7 DEF NewDraft
  <1> QED
    BY <1>1, <1>7, <1>8, TwoRowsChange

LEMMA ReplaceAgreementChanges ==
  ASSUME IInv, NEW p \in Ids, NEW a \in Ids, NEW ty \in Types,
         ReplaceAgreement(p, a, ty)
  PROVE  /\ agreements[p].dealRoomId \in Rooms
         /\ Recalculates(agreements[p].buyerId, agreements[p].dealRoomId)
  <1>1. p \in Rows(agreements) /\ agreements[p] \in Row
    BY RowsOfTable DEF ReplaceAgreement, IInv, TableInv, Statuses
  <1>2. /\ agreements[p].dealRoomId \in Rooms
        /\ agreements[p].buyerId = BuyerOf[agreements[p].dealRoomId]
    BY <1>1 DEF IInv, TableInv, OwnedIn, Row
  <1>3. OnlyRoom(agreements[p].dealRoomId) /\ ClosedKept
    BY <1>1, <1>2, InsertAndLinkChanges DEF ReplaceAgreement
  <1> QED
    BY <1>2, <1>3 DEF Recalculates, ReplaceAgreement

LEMMA InitiateUpgradeChanges ==
  ASSUME IInv, NEW r \in Rooms, NEW a \in Ids, InitiateUpgrade(r, a)
  PROVE  Recalculates(BuyerOf[r], r)
  <1> DEFINE passes == SignedOf(agreements,
                         InRoom(agreements, r) \cap OfBuyer(agreements, BuyerOf[r]),
                         "tour_pass")
  <1>1. First(passes) \in passes
    BY FirstIsMember DEF InitiateUpgrade, SignedOf, InRoom, Rows
  <1>2. /\ First(passes) \in Rows(agreements)
        /\ agreements[First(passes)].dealRoomId = r
        /\ agreements[First(passes)].status = "signed"
    BY <1>1 DEF SignedOf, InRoom
  <1>3. OnlyRoom(r) /\ ClosedKept
    BY <1>2, InsertAndLinkChanges DEF InitiateUpgrade, Types
  <1> QED
    BY <1>3 DEF Recalculates, InitiateUpgrade

LEMMA SupersedeChanges ==
  ASSUME IInv, NEW p \in Ids, NEW s \in Ids, Supersede(p, s)
  PROVE  LinkedByHand /\ ClosedKept
  <1>1. p \in Rows(agreements) /\ agreements \in Table /\ agreements[p].status = "signed"
    BY DEF Supersede, CanSupersede, IInv, TableInv
  <1>2. agreements' = Superseded(agreements, p, s)
    BY DEF Supersede
  <1>3. /\ agreements'[p].status = "replaced"
        /\ \A c \in Ids : c # p => agreements'[c] = agreements[c]
    BY <1>1, <1>2, SupersededRows
  <1>4. Rows(agreements') = Rows(agreements)
    BY <1>1, <1>3 DEF Rows, Absent
  <1> QED
    BY <1>1, <1>3, <1>4 DEF LinkedByHand, ClosedKept, Rows

\* Every step either recalculates the one room it changes, or links by hand.
LEMMA NextChanges ==
  ASSUME IInv, Next
  PROVE  ClosedKept /\ (LinkedByHand \/ \E r \in Rooms, b \in Buyers : Recalculates(b, r))
  <1>1. ASSUME NEW r \in Rooms, NEW b, Recalculates(b, r)
        PROVE  ClosedKept /\ \E q \in Rooms, c \in Buyers : Recalculates(c, q)
    BY <1>1, AgreementsAssumption DEF Recalculates, RecalculateInternal
  <1>2. ASSUME NEW r \in Rooms, RecalculateEligibility(r)
        PROVE  Recalculates(BuyerOf[r], r)
    BY <1>2 DEF Recalculates, RecalculateEligibility, OnlyRoom, ClosedKept
  <1> QED
    BY <1>1, <1>2, CreateDraftChanges, StatusChanges, ReplaceAgreementChanges,
       InitiateUpgradeChanges, SupersedeChanges DEF Next

(***************************************************************************)
(* Canceled and replaced agreements are never written again.               *)
(***************************************************************************)
THEOREM ClosedRowsStayClosed == Spec => ClosedRowsFrozen
  <1>1. IInv /\ [Next]_vars
          => [\A a \in Ids : agreements[a].status \in {"canceled", "replaced"}
                               => agreements'[a] = agreements[a]]_vars
    BY NextChanges DEF ClosedKept, vars
  <1> QED
    BY <1>1, Inductive, PTL DEF Spec, ClosedRowsFrozen

(***************************************************************************)
(* A mutation recalculates every room whose verdict it changes, except     *)
(* when two existing agreements are linked by hand.                        *)
(***************************************************************************)
THEOREM EligibilityIsRecalculated == Spec => EligibilityFollowsLifecycle
  <1>1. ASSUME IInv, Next, NEW r \in Rooms,
               RoomVerdict(agreements', r) # RoomVerdict(agreements, r), ~LinkedByHand
        PROVE  eligibility'[r] = RoomVerdict(agreements', r)
    <2>1. PICK q \in Rooms, b \in Buyers : Recalculates(b, q)
      BY <1>1, NextChanges
    <2>2. r = q
      BY <1>1, <2>1, VerdictIsLocal DEF Recalculates, OnlyRoom
    <2> QED
      BY <1>1, <2>1, <2>2 DEF Recalculates, RecalculateInternal, IInv
  <1>2. IInv /\ [Next]_vars
          => [\A r \in Rooms :
                RoomVerdict(agreements, r)' # RoomVerdict(agreements, r) /\ ~LinkedByHand
                  => eligibility'[r] = RoomVerdict(agreements, r)']_vars
    BY <1>1
  <1> QED
    BY <1>2, Inductive, PTL DEF Spec, EligibilityFollowsLifecycle
-----------------------------------------------------------------------------
(***************************************************************************)
(* The audit trails.                                                       *)
(***************************************************************************)
EligibilityLogged ==
  \A r \in Rooms : eligibility[r] # NoVerdict =>
                      eligibilityAudit[r] = Logged(eligibility[r])

LifecycleLogged ==
  \A a \in Ids : agreementAudit[a] = Event(agreements[a].status, agreements[a].replacedById)

LEMMA RecalculateLogs ==
  ASSUME IInv, EligibilityLogged, NEW r \in Rooms, NEW b, RecalculateInternal(b, r),
         agreements' \in Table
  PROVE  EligibilityLogged'
  <1> DEFINE v == RoomVerdict(agreements', r)
  <1>1. v \in Verdict
    BY VerdictGoverned
  <1>2. v # NoVerdict
    BY <1>1 DEF Verdict, NoVerdict
  <1>3. /\ eligibility' = [eligibility EXCEPT ![r] = v]
        /\ eligibilityAudit' = IF eligibility[r] # v
                                THEN [eligibilityAudit EXCEPT ![r] = Logged(v)]
                                ELSE eligibilityAudit
    BY DEF RecalculateInternal, DidVerdictChange
  <1> HIDE DEF v
  <1>4. eligibilityAudit'[r] = Logged(v)
    BY <1>2, <1>3 DEF EligibilityLogged, IInv
  <1>5. eligibility'[r] = v /\ \A q \in Rooms \ {r} : /\ eligibility'[q] = eligibility[q]
                                                    /\ eligibilityAudit'[q] = eligibilityAudit[q]
    BY <1>3 DEF IInv
  <1> QED
    BY <1>4, <1>5 DEF EligibilityLogged

LEMMA StepLogsEligibility ==
  ASSUME IInv, EligibilityLogged, [Next]_vars
  PROVE  EligibilityLogged'
  <1>1. agreements' \in Table
    BY NextIInv DEF IInv, TableInv
  <1>2. CASE UNCHANGED vars
    BY <1>2 DEF vars, EligibilityLogged
  <1>3. CASE Next
    <2>1. ASSUME NEW p \in Ids, NEW s \in Ids, Supersede(p, s) PROVE EligibilityLogged'
      BY <2>1 DEF Supersede, EligibilityLogged
    <2>2. ASSUME NEW r \in Rooms, NEW b, Recalculates(b, r) PROVE EligibilityLogged'
      BY <1>1, <2>2, RecalculateLogs DEF Recalculates
    <2>3. ASSUME NEW r \in Rooms, RecalculateEligibility(r) PROVE EligibilityLogged'
      BY <1>1, <2>3, RecalculateLogs DEF RecalculateEligibility
    <2> QED
      BY <1>3, <2>1, <2>2, <2>3, CreateDraftChanges, StatusChanges, ReplaceAgreementChanges,
         InitiateUpgradeChanges DEF Next
  <1> QED
    BY <1>2, <1>3

LEMMA StepLogsLifecycle ==
  ASSUME IInv, LifecycleLogged, [Next]_vars
  PROVE  LifecycleLogged'
  <1>1. ASSUME NEW a \in Ids, NEW r \in Rooms, NEW b \in Buyers, NEW ty \in Types,
               CreateDraft(a, r, b, ty)
        PROVE  LifecycleLogged'
    BY <1>1 DEF CreateDraft, LifecycleLogged, NewDraft, IInv, TableInv, Table
  <1>2. ASSUME NEW a \in Ids,
               SendForSigning(a) \/ RecordSignature(a) \/ CancelAgreement(a)
        PROVE  LifecycleLogged'
    <2>1. agreements[a].status \in {"draft", "sent", "signed"}
      BY <1>2 DEF SendForSigning, RecordSignature, CancelAgreement
    <2>2. agreements[a] \in Row /\ agreements \in Table
      BY <2>1, RowsOfTable DEF IInv, TableInv, Statuses
    <2>3. agreements[a].replacedById = None
      BY <2>1 DEF IInv, TableInv, LinearIn
    <2>4. PICK status : /\ agreements'[a].status = status
                        /\ agreements'[a].replacedById = None
                        /\ agreementAudit' = [agreementAudit EXCEPT ![a] = Event(status, None)]
                        /\ \A c \in Ids \ {a} : agreements'[c] = agreements[c]
      <3>1. CASE SendForSigning(a)
        BY <2>2, <2>3, <3>1 DEF SendForSigning, Table, Row
      <3>2. CASE RecordSignature(a)
        BY <2>2, <2>3, <3>2 DEF RecordSignature, Table, Row
      <3>3. CASE CancelAgreement(a)
        BY <2>2, <2>3, <3>3 DEF CancelAgreement, Table, Row
      <3> QED
        BY <1>2, <3>1, <3>2, <3>3
    <2> QED
      BY <2>4 DEF LifecycleLogged, IInv
  <1>3. ASSUME NEW p \in Ids, NEW s \in Ids, NEW t \in Table, p \in Rows(t), p # s,
               agreements' = Superseded(t, p, s),
               \A c \in Ids \ {p} : agreementAudit'[c] = Event(t[c].status, t[c].replacedById),
               agreementAudit'[p] = Event("replaced", s)
        PROVE  LifecycleLogged'
    <2>1. /\ agreements'[p].status = "replaced" /\ agreements'[p].replacedById = s
          /\ \A c \in Ids \ {p} : agreements'[c] = t[c]
      <3>1. t[p] \in Row
        BY <1>3, RowsOfTable
      <3> QED
        BY <1>3, <3>1 DEF Superseded, Table, Row
    <2> QED
      BY <1>3, <2>1 DEF LifecycleLogged
  <1>4. ASSUME NEW p \in Ids, NEW s \in Ids, Supersede(p, s) PROVE LifecycleLogged'
    BY <1>3, <1>4 DEF Supersede, CanSupersede, LifecycleLogged, IInv, TableInv
  <1>5. ASSUME NEW p \in Rows(agreements), NEW a \in Ids, IsNextId(a), NEW r \in Rooms, NEW ty \in Types,
               agreements' = Superseded([agreements EXCEPT ![a] = NewDraft(r, BuyerOf[r], ty)],
                                        p, a),
               agreementAudit' = [agreementAudit EXCEPT ![a] = Event("draft", None),
                                                        ![p] = Event("replaced", a)]
        PROVE  LifecycleLogged'
    <2> DEFINE t == [agreements EXCEPT ![a] = NewDraft(r, BuyerOf[r], ty)]
    <2>1. a \notin Rows(agreements) /\ p # a /\ p \in Ids
      BY <1>5, NextIdIsFree DEF Rows
    <2>2. t \in Table
      BY <2>1, InsertKeepsTable DEF IInv, TableInv
    <2>3. /\ t[a] = NewDraft(r, BuyerOf[r], ty)
          /\ \A c \in Ids \ {a} : t[c] = agreements[c]
      BY DEF IInv, TableInv, Table
    <2>4. p \in Rows(t)
      BY <2>1, <2>3 DEF Rows
    <2>5. /\ agreementAudit'[p] = Event("replaced", a)
          /\ agreementAudit'[a] = Event("draft", None)
          /\ \A c \in Ids \ {a, p} : agreementAudit'[c] = agreementAudit[c]
      BY <1>5, <2>1 DEF IInv
    <2>6. \A c \in Ids \ {p} : agreementAudit'[c] = Event(t[c].status, t[c].replacedById)
      BY <2>1, <2>3, <2>5 DEF LifecycleLogged, NewDraft
    <2>7. agreements' = Superseded(t, p, a)
      BY <1>5
    <2> HIDE DEF t
    <2> QED
      BY <1>3, <2>1, <2>2, <2>4, <2>5, <2>6, <2>7
  <1>6. ASSUME NEW p \in Ids, NEW a \in Ids, NEW ty \in Types, ReplaceAgreement(p, a, ty)
        PROVE  LifecycleLogged'
    <2>1. p \in Rows(agreements) /\ agreements[p] \in Row
      BY <1>6, RowsOfTable DEF ReplaceAgreement, IInv, TableInv, Statuses
    <2>2. /\ agreements[p].dealRoomId \in Rooms
          /\ agreements[p].buyerId = BuyerOf[agreements[p].dealRoomId]
      BY <2>1 DEF IInv, TableInv, OwnedIn, Row
    <2> QED
      BY <1>5, <1>6, <2>1, <2>2 DEF ReplaceAgreement
  <1>7. ASSUME NEW r \in Rooms, NEW a \in Ids, InitiateUpgrade(r, a)
        PROVE  LifecycleLogged'
    <2> DEFINE passes == SignedOf(agreements,
                           InRoom(agreements, r) \cap OfBuyer(agreements, BuyerOf[r]),
                           "tour_pass")
    <2>1. First(passes) \in passes
      BY <1>7, FirstIsMember DEF InitiateUpgrade, SignedOf, InRoom, Rows
    <2>2. First(passes) \in Rows(agreements)
      BY <2>1 DEF SignedOf, InRoom
    <2> QED
      BY <1>5, <1>7, <2>2 DEF InitiateUpgrade, Types
  <1>8. ASSUME UNCHANGED <<agreements, agreementAudit>> PROVE LifecycleLogged'
    BY <1>8 DEF LifecycleLogged
  <1> QED
    BY <1>1, <1>2, <1>4, <1>6, <1>7, <1>8 DEF Next, vars, RecalculateEligibility

(***************************************************************************)
(* The audit log reconstructs what it describes: the last lifecycle event  *)
(* of every agreement names its status and its successor, the last entry   *)
(* of every room what its persisted eligibility says.                      *)
(***************************************************************************)
THEOREM AuditIsComplete == Spec => []AuditReconstructsState
  <1>1. Init => EligibilityLogged /\ LifecycleLogged
    BY DEF Init, EligibilityLogged, LifecycleLogged, Absent
  <1>2. IInv /\ EligibilityLogged /\ LifecycleLogged /\ [Next]_vars
          => (EligibilityLogged /\ LifecycleLogged)'
    BY StepLogsEligibility, StepLogsLifecycle
  <1>3. EligibilityLogged /\ LifecycleLogged => AuditReconstructsState
    BY DEF EligibilityLogged, LifecycleLogged, AuditReconstructsState
  <1> QED
    BY <1>1, <1>2, <1>3, Inductive, PTL DEF Spec

-----------------------------------------------------------------------------
(***************************************************************************)
(* CHAINS.  The chains that the readers rebuild implement Lineages, and no *)
(* reader misses an agreement in force.  The chains of a table are first   *)
(* described without the loaded rows and the walk, then through the three  *)
(* ways a mutation changes the table.                                      *)
(***************************************************************************)

LEMMA IdsAreFinite ==
  ASSUME NEW S \in SUBSET Ids
  PROVE  IsFiniteSet(S) /\ Cardinality(S) \in Nat
  <1>1. IsFiniteSet(1 .. MaxAgreements)
    BY FS_Interval, AgreementsAssumption
  <1>2. IsFiniteSet(S)
    BY <1>1, FS_Subset DEF Ids
  <1> QED
    BY <1>2, FS_CardinalityType

\* A sequence without repetition is no longer than the set it is drawn from.
LEMMA NoLongerThanRows ==
  ASSUME NEW S \in SUBSET Ids, NEW w \in Seq(S),
         \A i, j \in 1 .. Len(w) : w[i] = w[j] => i = j
  PROVE  Len(w) <= Cardinality(S)
  <1>1. IsFiniteSet(S)
    BY IdsAreFinite
  <1>2. Len(w) \in Nat /\ w \in [1 .. Len(w) -> S]
    BY LenProperties
  <1>3. w \in Injection(1 .. Len(w), S)
    BY <1>2 DEF Injection, IsInjective
  <1>4. Cardinality(1 .. Len(w)) <= Cardinality(S)
    BY <1>1, <1>3, FS_Injection
  <1> QED
    BY <1>2, <1>4, FS_Interval

LEMMA SingletonSeq ==
  ASSUME NEW S, NEW a \in S
  PROVE  <<a>> \in Seq(S) /\ Len(<<a>>) = 1 /\ <<a>>[1] = a
  OBVIOUS

\* A walk is its head and then successors only, each once.
LEMMA WalksAreSequences ==
  ASSUME NEW S \in SUBSET Ids, NEW head \in S, NEW w
  PROVE  w \in Walks(S, head)
           <=> w \in Seq(S) /\ Len(w) >= 1 /\ w[1] = head /\ IsWalk(S, w)
  <1> DEFINE rest == S \cap SuccessorIds(S)
  <1>1. rest \in SUBSET Ids /\ rest \subseteq S /\ Cardinality(rest) \in Nat
    BY IdsAreFinite
  <1>2. ASSUME NEW n \in 0 .. Cardinality(rest), NEW v \in [1 .. n -> rest],
               w = <<head>> \o v
        PROVE  w \in Seq(S) /\ Len(w) >= 1 /\ w[1] = head
    <2>1. v \in Seq(S) /\ Len(v) \in Nat
      <3>1. v \in Seq(rest)
        BY <1>1, SeqDef
      <3> QED
        BY <1>1, <3>1, SeqMonotonic, LenProperties
    <2> QED
      BY <1>2, <2>1, SingletonSeq, ConcatProperties
  <1>3. ASSUME w \in Seq(S), Len(w) >= 1, w[1] = head, IsWalk(S, w)
        PROVE  \E n \in 0 .. Cardinality(rest) : \E v \in [1 .. n -> rest] : w = <<head>> \o v
    <2>1. Len(w) \in Nat /\ \A i \in 1 .. Len(w) : w[i] \in S
      BY <1>3, LenProperties
    <2> DEFINE v == SubSeq(w, 2, Len(w))
    <2>2. \A i \in 2 .. Len(w) : w[i] \in rest
      <3>1. SUFFICES ASSUME NEW i \in 2 .. Len(w) PROVE w[i] \in rest
        OBVIOUS
      <3>2. i - 1 \in 1 .. Len(w) - 1 /\ i \in 1 .. Len(w) /\ i - 1 \in 1 .. Len(w)
        BY <2>1
      <3>3. w[i] = agreements[w[i - 1]].replacedById
        BY <1>3, <3>2 DEF IsWalk
      <3> QED
        BY <2>1, <3>2, <3>3 DEF SuccessorIds
    <2>3. /\ v \in Seq(rest) /\ Len(v) = Len(w) - 1
          /\ \A i \in 1 .. Len(w) - 1 : v[i] = w[i + 1]
      <3>1. /\ v \in Seq(rest)
            /\ Len(v) = IF 2 <= Len(w) THEN Len(w) - 2 + 1 ELSE 0
            /\ \A i \in 1 .. Len(w) - 2 + 1 : v[i] = w[2 + i - 1]
        <4> HIDE DEF rest
        <4> QED
          BY <2>1, <2>2, SubSeqProperties
      <3>2. Len(w) - 2 + 1 = Len(w) - 1
        BY <2>1
      <3>3. \A i \in 1 .. Len(w) - 1 : 2 + i - 1 = i + 1
        BY <2>1
      <3>4. Len(v) = Len(w) - 1
        BY <1>3, <2>1, <3>1, <3>2
      <3> HIDE DEF v
      <3> QED
        BY <2>1, <3>1, <3>2, <3>3, <3>4
    <2> HIDE DEF v
    <2>4. \A i, j \in 1 .. Len(v) : v[i] = v[j] => i = j
      <3>1. SUFFICES ASSUME NEW i \in 1 .. Len(v), NEW j \in 1 .. Len(v), v[i] = v[j]
                     PROVE  i = j
        OBVIOUS
      <3>2. w[i + 1] = w[j + 1] /\ i + 1 \in 1 .. Len(w) /\ j + 1 \in 1 .. Len(w)
        BY <2>1, <2>3, <3>1
      <3> QED
        BY <1>3, <2>1, <2>3, <3>2 DEF IsWalk
    <2>5. Len(v) <= Cardinality(rest)
      <3> HIDE DEF rest
      <3> QED
        BY <1>1, <2>3, <2>4, NoLongerThanRows
    <2>6. Len(v) \in Nat /\ v \in [1 .. Len(v) -> rest] /\ v \in Seq(S)
      <3> HIDE DEF rest
      <3> QED
        BY <1>1, <2>3, LenProperties, SeqMonotonic
    <2>7. w = <<head>> \o v
      <3>1. /\ <<head>> \o v \in Seq(S) /\ Len(<<head>> \o v) = Len(w)
            /\ \A i \in 1 .. Len(w) : (<<head>> \o v)[i] = IF i <= 1 THEN head ELSE v[i - 1]
        <4>1. /\ <<head>> \in Seq(S) /\ Len(<<head>>) = 1 /\ <<head>>[1] = head
              /\ 1 + Len(v) = Len(w)
          BY <2>1, <2>3, SingletonSeq
        <4>2. /\ <<head>> \o v \in Seq(S)
              /\ Len(<<head>> \o v) = 1 + Len(v)
              /\ \A i \in 1 .. 1 + Len(v) : (<<head>> \o v)[i] =
                    IF i <= 1 THEN <<head>>[i] ELSE v[i - 1]
          BY <2>6, <4>1, ConcatProperties
        <4> QED
          BY <2>1, <4>1, <4>2
      <3>2. \A i \in 1 .. Len(w) : w[i] = (<<head>> \o v)[i]
        BY <1>3, <2>1, <2>3, <3>1
      <3> QED
        BY <1>3, <3>1, <3>2, SeqEqual
    <2>8. Len(v) \in 0 .. Cardinality(rest)
      BY <1>1, <2>5, <2>6
    <2> HIDE DEF rest
    <2> QED
      BY <2>6, <2>7, <2>8
  <1>4. w \in Walks(S, head)
          <=> /\ \E n \in 0 .. Cardinality(rest) : \E v \in [1 .. n -> rest] : w = <<head>> \o v
              /\ IsWalk(S, w)
    BY DEF Walks
  <1> QED
    BY <1>2, <1>3, <1>4

LEMMA ChainsAreWalks ==
  ASSUME NEW S \in SUBSET Ids, NEW w
  PROVE  w \in BuildChains(S)
           <=> /\ w \in Seq(S) /\ Len(w) >= 1 /\ IsWalk(S, w)
               /\ \A a \in S : agreements[a].replacedById # w[1]
  <1>1. w \in Seq(S) /\ Len(w) >= 1 => w[1] \in S
    BY LenProperties
  <1> QED
    BY <1>1, WalksAreSequences DEF BuildChains, SuccessorIds
-----------------------------------------------------------------------------
(***************************************************************************)
(* The chains of a whole table.                                            *)
(***************************************************************************)
IsChain(t, w) ==
  /\ w \in Seq(Rows(t)) /\ Len(w) >= 1
  /\ \A i, j \in 1 .. Len(w) : w[i] = w[j] => i = j
  /\ \A i \in 1 .. Len(w) - 1 : w[i + 1] = t[w[i]].replacedById
  /\ t[w[Len(w)]].replacedById = None
  /\ \A a \in Rows(t) : t[a].replacedById # w[1]

Chains(t) == {w \in Seq(Rows(t)) : IsChain(t, w)}

LEMMA ChainElements ==
  ASSUME NEW t, NEW w \in Chains(t)
  PROVE  /\ IsChain(t, w)
         /\ Len(w) \in Nat /\ Len(w) >= 1
         /\ w \in Seq(Rows(t))
         /\ \A i \in 1 .. Len(w) : w[i] \in Rows(t)
  BY LenProperties DEF Chains, IsChain

\* Over a linear table the walks over all rows end where there is no
\* successor.
LEMMA ChainsOfTable ==
  TableInv(agreements) => BuildChains(Rows(agreements)) = Chains(agreements)
  <1> SUFFICES ASSUME TableInv(agreements)
               PROVE  BuildChains(Rows(agreements)) = Chains(agreements)
    OBVIOUS
  <1> DEFINE S == Rows(agreements)
  <1>1. S \in SUBSET Ids
    BY DEF Rows
  <1>2. ASSUME NEW w \in BuildChains(S)
        PROVE  w \in Chains(agreements)
    <2>1. w \in Seq(S) /\ Len(w) >= 1 /\ IsWalk(S, w)
      BY <1>1, ChainsAreWalks
    <2>2. \A a \in S : agreements[a].replacedById # w[1]
      BY <1>1, ChainsAreWalks
    <2>3. Len(w) \in Nat /\ \A i \in 1 .. Len(w) : w[i] \in S
      BY <2>1, LenProperties
    <2> DEFINE next == agreements[w[Len(w)]].replacedById
    <2>4. ASSUME next # None PROVE FALSE
      <3>1. w[Len(w)] \in Ids /\ next \in S
        BY <1>1, <2>1, <2>3, <2>4 DEF TableInv, LinearIn
      <3>2. PICK j \in 1 .. Len(w) : next = w[j]
        BY <2>1, <3>1 DEF IsWalk
      <3>3. j # 1
        BY <2>1, <2>2, <2>3, <3>2
      <3>4. j - 1 \in 1 .. Len(w) - 1 /\ w[j] = agreements[w[j - 1]].replacedById
        BY <2>1, <2>3, <3>3 DEF IsWalk
      <3>5. w[j - 1] = w[Len(w)]
        BY <1>1, <2>1, <2>3, <2>4, <3>1, <3>2, <3>4 DEF TableInv, LinearIn
      <3> QED
        BY <2>1, <2>3, <3>4, <3>5 DEF IsWalk
    <2> QED
      BY <2>1, <2>2, <2>4 DEF Chains, IsChain, IsWalk
  <1>3. ASSUME NEW w \in Chains(agreements)
        PROVE  w \in BuildChains(S)
    <2>1. IsChain(agreements, w)
      BY DEF Chains
    <2>2. None \notin S
      BY <1>1, NoneIsNoId
    <2>3. IsWalk(S, w)
      BY <2>1, <2>2 DEF IsChain, IsWalk
    <2> QED
      BY <1>1, <2>1, <2>3, ChainsAreWalks DEF IsChain
  <1> QED
    BY <1>2, <1>3

\* Two chains that share an agreement are one.
LEMMA ChainsAreDisjoint ==
  ASSUME NEW t, TableInv(t), NEW u \in Chains(t), NEW w \in Chains(t),
         NEW k \in 1 .. Len(u), NEW h \in 1 .. Len(w), u[k] = w[h]
  PROVE  u = w
  <1>1. /\ IsChain(t, u) /\ Len(u) \in Nat /\ Len(u) >= 1 /\ u \in Seq(Rows(t))
        /\ IsChain(t, w) /\ Len(w) \in Nat /\ Len(w) >= 1 /\ w \in Seq(Rows(t))
        /\ \A i \in 1 .. Len(u) : u[i] \in Rows(t)
        /\ \A i \in 1 .. Len(w) : w[i] \in Rows(t)
    BY ChainElements
  <1>2. Rows(t) \in SUBSET Ids
    BY DEF Rows
  <1>3. u[1] = w[1]
    <2> DEFINE Shared == {i \in 1 .. Len(u) : \E j \in 1 .. Len(w) : u[i] = w[j]}
    <2>1. PICK i \in Shared : \A x \in Shared : i <= x
      <3>1. Shared \in SUBSET Nat /\ k \in Shared
        BY <1>1
      <3> HIDE DEF Shared
      <3> QED
        BY <3>1, LeastOf
    <2>2. PICK j \in 1 .. Len(w) : u[i] = w[j]
      OBVIOUS
    <2>3. ASSUME i # 1 PROVE FALSE
      <3>1. i - 1 \in 1 .. Len(u) - 1 /\ u[i] = t[u[i - 1]].replacedById
        BY <1>1, <2>3 DEF IsChain
      <3>0. u[i - 1] \in Rows(t)
        BY <1>1, <3>1
      <3>2. j # 1
        BY <1>1, <2>2, <3>0, <3>1 DEF IsChain
      <3>3. j - 1 \in 1 .. Len(w) - 1 /\ w[j] = t[w[j - 1]].replacedById
        BY <1>1, <3>2 DEF IsChain
      <3>4. u[i] # None
        BY <1>1, <1>2, NoneIsNoId
      <3>5. u[i - 1] \in Ids /\ w[j - 1] \in Ids
        BY <1>1, <1>2, <3>1, <3>3
      <3>6. u[i - 1] = w[j - 1]
        BY <2>2, <3>1, <3>3, <3>4, <3>5 DEF TableInv, LinearIn
      <3>7. i - 1 \in Shared
        <4>1. i - 1 \in 1 .. Len(u) /\ j - 1 \in 1 .. Len(w)
          BY <1>1, <3>1, <3>3
        <4> QED
          BY <3>6, <4>1
      <3> QED
        BY <1>1, <2>1, <3>7
    <2>4. ASSUME j # 1 PROVE FALSE
      <3>1. j - 1 \in 1 .. Len(w) - 1 /\ w[j] = t[w[j - 1]].replacedById
        BY <1>1, <2>4 DEF IsChain
      <3> QED
        BY <1>1, <2>2, <2>3, <3>1 DEF IsChain
    <2> QED
      BY <2>2, <2>3, <2>4
  <1>4. \A i \in 1 .. Len(u) : i <= Len(w) => u[i] = w[i]
    <2> DEFINE Differ == {i \in 1 .. Len(u) : i <= Len(w) /\ u[i] # w[i]}
    <2>1. SUFFICES ASSUME Differ # {} PROVE FALSE
      OBVIOUS
    <2>2. PICK i \in Differ : \A x \in Differ : i <= x
      <3>1. Differ \in SUBSET Nat
        BY <1>1
      <3> HIDE DEF Differ
      <3> QED
        BY <2>1, <3>1, LeastOf
    <2>3. i - 1 \in 1 .. Len(u) - 1 /\ i - 1 \in 1 .. Len(w) - 1
      BY <1>1, <1>3, <2>2
    <2>4. u[i - 1] = w[i - 1]
      BY <1>1, <2>2, <2>3
    <2> QED
      BY <1>1, <2>2, <2>3, <2>4 DEF IsChain
  <1>5. Len(u) = Len(w)
    <2>1. CASE Len(u) < Len(w)
      <3>1. u[Len(u)] = w[Len(u)] /\ Len(u) \in 1 .. Len(w) - 1
        BY <1>1, <1>4, <2>1
      <3>2. w[Len(u) + 1] = None
        BY <1>1, <3>1 DEF IsChain
      <3> QED
        BY <1>1, <1>2, <2>1, <3>2, NoneIsNoId
    <2>2. CASE Len(w) < Len(u)
      <3>1. u[Len(w)] = w[Len(w)] /\ Len(w) \in 1 .. Len(u) - 1
        BY <1>1, <1>4, <2>2
      <3>2. u[Len(w) + 1] = None
        BY <1>1, <3>1 DEF IsChain
      <3> QED
        BY <1>1, <1>2, <2>2, <3>2, NoneIsNoId
    <2> QED
      BY <1>1, <2>1, <2>2
  <1> QED
    BY <1>1, <1>4, <1>5, SeqEqual
-----------------------------------------------------------------------------
(***************************************************************************)
(* The three ways a table changes, seen through its chains.                *)
(***************************************************************************)
LEMMA ChainKept ==
  ASSUME NEW t, NEW u, NEW w \in Seq(Rows(u)), IsChain(t, w),
         \A i \in 1 .. Len(w) : u[w[i]].replacedById = t[w[i]].replacedById,
         \A a \in Rows(u) : u[a].replacedById # w[1]
  PROVE  w \in Chains(u)
  <1>1. Len(w) \in Nat
    BY LenProperties
  <1> QED
    BY <1>1 DEF IsChain, Chains

LEMMA MovedChains ==
  ASSUME NEW t, NEW u, Rows(u) = Rows(t),
         \A c \in Rows(t) : u[c].replacedById = t[c].replacedById
  PROVE  Chains(u) = Chains(t)
  <1>1. ASSUME NEW w \in Seq(Rows(t))
        PROVE  IsChain(u, w) <=> IsChain(t, w)
    <2>1. Len(w) \in Nat /\ \A i \in 1 .. Len(w) : w[i] \in Rows(t)
      BY LenProperties
    <2>2. Len(w) >= 1 => u[w[Len(w)]].replacedById = t[w[Len(w)]].replacedById
      BY <2>1
    <2>3. \A i \in 1 .. Len(w) - 1 : u[w[i]].replacedById = t[w[i]].replacedById
      BY <2>1
    <2> QED
      BY <2>2, <2>3 DEF IsChain
  <1> QED
    BY <1>1 DEF Chains

LEMMA InsertedChains ==
  ASSUME NEW t, NEW u, TableInv(t), TableInv(u), NEW a \in Ids, a \notin Rows(t),
         Rows(u) = Rows(t) \cup {a}, u[a].replacedById = None,
         \A c \in Rows(t) : u[c] = t[c]
  PROVE  /\ <<a>> \notin Chains(t)
         /\ \A w \in Chains(t) : \A i \in 1 .. Len(w) : w[i] # a
         /\ Chains(u) = Chains(t) \cup {<<a>>}
  <1>1. \A w \in Chains(t) : \A i \in 1 .. Len(w) : w[i] \in Rows(t)
    BY ChainElements
  <1>2. <<a>> \notin Chains(t)
    BY <1>1, SingletonSeq
  <1>3. \A c \in Rows(u) : u[c].replacedById # a
    <2>1. \A c \in Rows(t) : t[c].replacedById \in Rows(t) \cup {None}
      BY DEF TableInv, LinearIn, Rows
    <2> QED
      BY <2>1, NoneIsNoId
  <1>4. ASSUME NEW w \in Chains(t)
        PROVE  w \in Chains(u)
    <2>1. /\ IsChain(t, w) /\ Len(w) \in Nat /\ Len(w) >= 1 /\ w \in Seq(Rows(t))
          /\ \A i \in 1 .. Len(w) : w[i] \in Rows(t)
      BY ChainElements
    <2>2. w \in Seq(Rows(u))
      BY <2>1, SeqMonotonic
    <2>3. \A i \in 1 .. Len(w) : u[w[i]] = t[w[i]]
      BY <2>1
    <2>4. \A c \in Rows(u) : u[c].replacedById # w[1]
      <3>1. w[1] \in Rows(t) /\ w[1] # None
        BY <2>1, NoneIsNoId DEF Rows
      <3> QED
        BY <2>1, <3>1 DEF IsChain
    <2> QED
      BY <2>1, <2>2, <2>3, <2>4 DEF IsChain, Chains
  <1>5. ASSUME NEW w \in Chains(u), NEW k \in 1 .. Len(w), w[k] = a
        PROVE  w = <<a>>
    <2>1. /\ IsChain(u, w) /\ Len(w) \in Nat /\ Len(w) >= 1 /\ w \in Seq(Rows(u))
          /\ \A i \in 1 .. Len(w) : w[i] \in Rows(u)
      BY ChainElements
    <2>2. k = 1
      <3>1. SUFFICES ASSUME k # 1 PROVE FALSE
        OBVIOUS
      <3>2. k - 1 \in 1 .. Len(w) - 1 /\ w[k] = u[w[k - 1]].replacedById
        BY <2>1, <3>1 DEF IsChain
      <3>3. w[k - 1] \in Rows(u)
        BY <2>1, <3>2
      <3> QED
        BY <1>3, <1>5, <3>2, <3>3
    <2>3. ASSUME Len(w) >= 2 PROVE FALSE
      <3>1. 1 \in 1 .. Len(w) - 1 /\ 2 \in 1 .. Len(w)
        BY <2>1, <2>3
      <3>2. w[2] = None
        BY <1>5, <2>1, <2>2, <3>1 DEF IsChain
      <3> QED
        BY <2>1, <3>1, <3>2, NoneIsNoId DEF Rows
    <2>4. Len(w) = 1
      <3>1. Len(w) \in Nat /\ Len(w) >= 1 /\ ~ (Len(w) >= 2)
        BY <2>1, <2>3
      <3>2. \A n \in Nat : n >= 1 /\ ~ (n >= 2) => n = 1
        OBVIOUS
      <3> QED
        BY <3>1, <3>2
    <2> QED
      BY <1>5, <2>1, <2>2, <2>4, SingletonSeq, SeqEqual
  <1>6. ASSUME NEW w \in Chains(u), \A k \in 1 .. Len(w) : w[k] # a
        PROVE  w \in Chains(t)
    <2>1. /\ IsChain(u, w) /\ Len(w) \in Nat /\ Len(w) >= 1 /\ w \in Seq(Rows(u))
          /\ \A i \in 1 .. Len(w) : w[i] \in Rows(t)
      BY <1>6, ChainElements
    <2>2. w \in Seq(Rows(t))
      BY <2>1, LenProperties, SeqDef
    <2>3. \A i \in 1 .. Len(w) : u[w[i]] = t[w[i]]
      BY <2>1
    <2> QED
      BY <2>1, <2>2, <2>3 DEF IsChain, Chains
  <1>7. <<a>> \in Chains(u)
    BY <1>3, SingletonSeq DEF IsChain, Chains
  <1> QED
    BY <1>1, <1>2, <1>4, <1>5, <1>6, <1>7

\* The walk of the code from the successor reaches every agreement of the
\* chain the successor heads.
LEMMA ChainInLineage ==
  ASSUME NEW t, TableInv(t), NEW s, NEW m \in Chains(t), m[1] = s,
         NEW i \in 1 .. Len(m)
  PROVE  m[i] \in Lineage(t, s)
  <1>1. /\ IsChain(t, m) /\ Len(m) \in Nat /\ Len(m) >= 1
        /\ \A j \in 1 .. Len(m) : m[j] \in Rows(t)
    BY ChainElements
  <1>2. \A j \in 1 .. Len(m) : m[j] \in Ids /\ m[j] # None
    BY <1>1, NoneIsNoId DEF Rows
  <1>3. SUFFICES ASSUME NEW C \in SUBSET Ids, s \in C,
                        \A c \in C : t[c].replacedById # None => t[c].replacedById \in C
                 PROVE  m[i] \in C
    BY <1>2 DEF Lineage
  <1> DEFINE Outside == {j \in 1 .. Len(m) : m[j] \notin C}
  <1>4. SUFFICES ASSUME Outside # {} PROVE FALSE
    OBVIOUS
  <1>5. PICK j \in Outside : \A x \in Outside : j <= x
    <2>1. Outside \in SUBSET Nat
      BY <1>1
    <2> HIDE DEF Outside
    <2> QED
      BY <1>4, <2>1, LeastOf
  <1>6. j # 1
    BY <1>3, <1>5
  <1>7. j - 1 \in 1 .. Len(m) - 1 /\ j - 1 \in 1 .. Len(m) /\ j - 1 + 1 = j /\ j - 1 < j
    BY <1>1, <1>5, <1>6
  <1>8. m[j - 1] \in C
    BY <1>5, <1>7
  <1>9. m[j] = t[m[j - 1]].replacedById
    BY <1>1, <1>7 DEF IsChain
  <1> QED
    BY <1>2, <1>3, <1>5, <1>8, <1>9

LEMMA LinkedTable ==
  ASSUME NEW t, TableInv(t), NEW p \in Rows(t), NEW s \in Rows(t), CanSupersede(t, p, s)
  PROVE  /\ TableInv(Superseded(t, p, s))
         /\ Rows(Superseded(t, p, s)) = Rows(t)
         /\ Superseded(t, p, s)[p].replacedById = s
         /\ \A c \in Ids : c # p => Superseded(t, p, s)[c] = t[c]
         /\ \A a \in Rows(t) : t[a].replacedById # s
  <1>1. TableInv(Superseded(t, p, s))
    BY LinkKeepsTable
  <1>2. t \in Table /\ t[p] \in Row /\ p \in Ids
    BY RowsOfTable DEF TableInv, Rows
  <1>3. /\ Superseded(t, p, s)[p].replacedById = s
        /\ Superseded(t, p, s)[p].status = "replaced"
        /\ \A c \in Ids : c # p => Superseded(t, p, s)[c] = t[c]
    BY <1>2 DEF Superseded, Table, Row
  <1>4. Superseded(t, p, s)[p] # Absent
    BY <1>3 DEF Absent
  <1>5. Rows(Superseded(t, p, s)) = Rows(t)
    BY <1>2, <1>3, <1>4 DEF Rows
  <1>6. ASSUME NEW a \in Rows(t), t[a].replacedById = s PROVE FALSE
    <2>1. a \in Ids /\ s # None
      BY NoneIsNoId DEF Rows
    <2>2. t[s].buyerId = t[a].buyerId
      BY <1>6, <2>1 DEF TableInv, LinearIn
    <2> QED
      BY <1>6, <2>2 DEF CanSupersede, OfBuyer
  <1> QED
    BY <1>1, <1>3, <1>5, <1>6

LEMMA LinkedChains ==
  ASSUME NEW t, TableInv(t), NEW p \in Rows(t), NEW s \in Rows(t), CanSupersede(t, p, s),
         NEW l \in Chains(t), l[Len(l)] = p, NEW m \in Chains(t), m[1] = s
  PROVE  /\ l # m
         /\ Chains(Superseded(t, p, s)) = (Chains(t) \ {l, m}) \cup {l \o m}
  <1> DEFINE u == Superseded(t, p, s)
  <1>1. /\ TableInv(u) /\ Rows(u) = Rows(t) /\ u[p].replacedById = s
        /\ \A c \in Ids : c # p => u[c] = t[c]
        /\ \A a \in Rows(t) : t[a].replacedById # s
    BY LinkedTable
  <1> HIDE DEF u
  <1>2. /\ IsChain(t, l) /\ Len(l) \in Nat /\ Len(l) >= 1 /\ l \in Seq(Rows(t))
        /\ \A i \in 1 .. Len(l) : l[i] \in Rows(t)
        /\ IsChain(t, m) /\ Len(m) \in Nat /\ Len(m) >= 1 /\ m \in Seq(Rows(t))
        /\ \A i \in 1 .. Len(m) : m[i] \in Rows(t)
    BY ChainElements
  <1>3. Rows(t) \subseteq Ids /\ p # None /\ s # None
    BY NoneIsNoId DEF Rows
  <1>4. \A i \in 1 .. Len(m) : m[i] # p
    BY ChainInLineage DEF CanSupersede
  <1>5. l # m
    BY <1>2, <1>4
  <1>6. \A i \in 1 .. Len(l), j \in 1 .. Len(m) : l[i] # m[j]
    BY <1>5, ChainsAreDisjoint
  <1>7. \A i \in 1 .. Len(l) - 1 : l[i] # p
    BY <1>2 DEF IsChain
  <1> DEFINE lm == l \o m
  <1>13. Len(l) \in Nat /\ Len(l) >= 1 /\ Len(m) \in Nat /\ Len(m) >= 1
    BY <1>2
  <1>8. /\ lm \in Seq(Rows(t)) /\ Len(lm) = Len(l) + Len(m) /\ Len(lm) \in Nat
        /\ \A i \in 1 .. Len(l) : lm[i] = l[i]
        /\ \A i \in 1 .. Len(m) : lm[Len(l) + i] = m[i]
        /\ \A i \in 1 .. Len(lm) : i > Len(l) => i - Len(l) \in 1 .. Len(m) /\ lm[i] = m[i - Len(l)]
    BY <1>2, ConcatProperties
  <1> HIDE DEF lm
  <1>14. Len(lm) = Len(l) + Len(m) /\ Len(lm) \in Nat
    BY <1>8
  <1>15. \A i \in 1 .. Len(l) : lm[i] = l[i]
    BY <1>8
  <1>16. \A i \in 1 .. Len(m) : lm[Len(l) + i] = m[i]
    BY <1>8
  <1>9. lm \in Chains(u)
    <2>1. \A i, j \in 1 .. Len(lm) : lm[i] = lm[j] => i = j
      <3>1. SUFFICES ASSUME NEW i \in 1 .. Len(lm), NEW j \in 1 .. Len(lm), lm[i] = lm[j]
                     PROVE  i = j
        OBVIOUS
      <3>2. CASE i <= Len(l) /\ j <= Len(l)
        BY <1>2, <1>8, <3>1, <3>2 DEF IsChain
      <3>3. CASE i > Len(l) /\ j > Len(l)
        <4>1. m[i - Len(l)] = m[j - Len(l)]
          BY <1>8, <3>1, <3>3
        <4>2. i - Len(l) = j - Len(l)
          BY <1>2, <1>8, <3>3, <4>1 DEF IsChain
        <4> QED
          BY <1>2, <1>8, <4>2
      <3>4. CASE i <= Len(l) /\ j > Len(l)
        <4>1. i \in 1 .. Len(l) /\ j - Len(l) \in 1 .. Len(m)
          BY <1>8, <1>13, <3>4
        <4> QED
          BY <1>6, <1>8, <3>1, <3>4, <4>1
      <3>5. CASE i > Len(l) /\ j <= Len(l)
        <4>1. j \in 1 .. Len(l) /\ i - Len(l) \in 1 .. Len(m)
          BY <1>8, <1>13, <3>5
        <4> QED
          BY <1>6, <1>8, <3>1, <3>5, <4>1
      <3> QED
        BY <1>8, <1>13, <3>2, <3>3, <3>4, <3>5
    <2>2. \A i \in 1 .. Len(lm) - 1 : lm[i + 1] = u[lm[i]].replacedById
      <3>1. SUFFICES ASSUME NEW i \in 1 .. Len(lm) - 1
                     PROVE  lm[i + 1] = u[lm[i]].replacedById
        OBVIOUS
      <3>2. CASE i < Len(l)
        <4>3. i \in 1 .. Len(l) - 1 /\ i \in 1 .. Len(l) /\ i + 1 \in 1 .. Len(l)
          BY <1>13, <1>14, <3>2
        <4>1. i \in 1 .. Len(l) - 1 /\ lm[i] = l[i] /\ lm[i + 1] = l[i + 1]
          BY <1>15, <4>3
        <4>2. l[i] # p /\ l[i] \in Ids
          BY <1>2, <1>3, <1>7, <4>1
        <4> QED
          BY <1>1, <1>2, <4>1, <4>2 DEF IsChain
      <3>3. CASE i = Len(l)
        <4>2. i \in 1 .. Len(l) /\ 1 \in 1 .. Len(m)
          BY <1>13, <3>3
        <4>1. lm[i] = p /\ lm[i + 1] = s
          BY <1>2, <1>15, <1>16, <3>3, <4>2
        <4> QED
          BY <1>1, <4>1
      <3>4. CASE i > Len(l)
        <4>1. PICK j \in 1 .. Len(m) - 1 : i = Len(l) + j
          <5>1. i - Len(l) \in 1 .. Len(m) - 1 /\ i = Len(l) + (i - Len(l))
            BY <1>8, <1>13, <3>4
          <5> QED
            BY <5>1
        <4>2. j \in 1 .. Len(m) /\ j + 1 \in 1 .. Len(m) /\ i + 1 = Len(l) + (j + 1)
          BY <1>13, <4>1
        <4>3. lm[i] = m[j] /\ lm[i + 1] = m[j + 1]
          BY <1>16, <4>1, <4>2
        <4>4. m[j] # p /\ m[j] \in Ids
          BY <1>2, <1>3, <1>4, <4>2
        <4>5. m[j + 1] = t[m[j]].replacedById
          BY <1>2, <4>1 DEF IsChain
        <4> QED
          BY <1>1, <4>3, <4>4, <4>5
      <3> QED
        BY <1>8, <1>13, <3>2, <3>3, <3>4
    <2>3. u[lm[Len(lm)]].replacedById = None
      <3>1. lm[Len(lm)] = m[Len(m)]
        BY <1>13, <1>14, <1>16
      <3>2. m[Len(m)] # p /\ m[Len(m)] \in Ids
        BY <1>2, <1>3, <1>4
      <3> QED
        BY <1>1, <1>2, <3>1, <3>2 DEF IsChain
    <2>4. \A a \in Rows(u) : u[a].replacedById # lm[1]
      <3>2. 1 \in 1 .. Len(l)
        BY <1>13
      <3>1. lm[1] = l[1] /\ l[1] # s
        BY <1>2, <1>6, <1>15, <3>2
      <3> QED
        BY <1>1, <1>2, <1>3, <3>1 DEF IsChain
    <2>5. lm \in Seq(Rows(u)) /\ Len(lm) >= 1
      BY <1>1, <1>8, <1>13
    <2> QED
      BY <2>1, <2>2, <2>3, <2>4, <2>5 DEF IsChain, Chains
  <1>10. ASSUME NEW w \in Chains(t), w # l, w # m
         PROVE  w \in Chains(u)
    <2>1. /\ IsChain(t, w) /\ Len(w) \in Nat /\ Len(w) >= 1 /\ w \in Seq(Rows(t))
          /\ \A i \in 1 .. Len(w) : w[i] \in Rows(t)
      BY ChainElements
    <2>2. \A i \in 1 .. Len(w) : w[i] # p
      BY <1>2, <1>10, ChainsAreDisjoint
    <2>3. w[1] # s
      BY <1>2, <1>10, <2>1, ChainsAreDisjoint
    <2>4. \A i \in 1 .. Len(w) : u[w[i]] = t[w[i]]
      BY <1>1, <1>3, <2>1, <2>2
    <2>5. \A a \in Rows(u) : u[a].replacedById # w[1]
      BY <1>1, <1>3, <2>1, <2>3 DEF IsChain
    <2>6. w \in Seq(Rows(u))
      BY <1>1, <2>1
    <2> QED
      BY <2>1, <2>4, <2>5, <2>6, ChainKept
  <1>11. ASSUME NEW w \in Chains(u), \A i \in 1 .. Len(w) : w[i] # p
         PROVE  w \in Chains(t) \ {l, m}
    <2>1. /\ IsChain(u, w) /\ Len(w) \in Nat /\ Len(w) >= 1 /\ w \in Seq(Rows(t))
          /\ \A i \in 1 .. Len(w) : w[i] \in Rows(t)
      BY <1>1, ChainElements
    <2>2. \A i \in 1 .. Len(w) : u[w[i]] = t[w[i]]
      BY <1>1, <1>3, <1>11, <2>1
    <2>3. w[1] # s
      BY <1>1, <2>1 DEF IsChain
    <2>4. \A a \in Rows(t) : t[a].replacedById # w[1]
      <3>1. t[p].replacedById = None /\ w[1] # None
        BY <1>2, <2>1, NoneIsNoId DEF IsChain, Rows
      <3> QED
        BY <1>1, <1>3, <2>1, <3>1 DEF IsChain
    <2>5. w \in Chains(t)
      BY <2>1, <2>2, <2>4, ChainKept
    <2> QED
      BY <1>2, <1>11, <2>3, <2>5
  <1>12. ASSUME NEW w \in Chains(u), NEW k \in 1 .. Len(w), w[k] = p
         PROVE  w = lm
    <2>1. Len(l) \in 1 .. Len(lm) /\ Len(l) \in 1 .. Len(l)
      BY <1>8, <1>13
    <2>2. lm[Len(l)] = p
      BY <1>8, <2>1
    <2> QED
      BY <1>1, <1>9, <1>12, <2>1, <2>2, ChainsAreDisjoint
  <1> QED
    BY <1>5, <1>9, <1>10, <1>11, <1>12 DEF lm, u
-----------------------------------------------------------------------------
(***************************************************************************)
(* Every agreement is in a chain: the part of the argument that needs an   *)
(* invariant, since a pointer table by itself might have cycles.           *)
(***************************************************************************)
Covered(t) ==
  \A a \in Rows(t) : \E w \in Chains(t) : \E i \in 1 .. Len(w) : w[i] = a

Signed(t) == WithStatus(t, Rows(t), {"signed"})

LEMMA EndOfChain ==
  ASSUME NEW t, Covered(t), NEW a \in Rows(t), t[a].replacedById = None
  PROVE  \E l \in Chains(t) : l[Len(l)] = a
  <1>0. PICK w \in Chains(t) : \E i \in 1 .. Len(w) : w[i] = a
    BY DEF Covered
  <1>1. PICK i \in 1 .. Len(w) : w[i] = a
    BY <1>0
  <1>2. /\ IsChain(t, w) /\ Len(w) \in Nat
        /\ \A j \in 1 .. Len(w) : w[j] \in Rows(t)
    BY ChainElements
  <1>3. ASSUME i < Len(w) PROVE FALSE
    <2>1. i \in 1 .. Len(w) - 1 /\ i + 1 \in 1 .. Len(w)
      BY <1>2, <1>3
    <2>2. w[i + 1] = None
      BY <1>1, <1>2, <2>1 DEF IsChain
    <2> QED
      BY <1>2, <2>1, <2>2, NoneIsNoId DEF Rows
  <1>4. i = Len(w)
    BY <1>2, <1>3
  <1> QED
    BY <1>1, <1>4

LEMMA HeadOfChain ==
  ASSUME NEW t, Covered(t), NEW a \in Rows(t), \A c \in Rows(t) : t[c].replacedById # a
  PROVE  \E m \in Chains(t) : m[1] = a
  <1>0. PICK w \in Chains(t) : \E i \in 1 .. Len(w) : w[i] = a
    BY DEF Covered
  <1>1. PICK i \in 1 .. Len(w) : w[i] = a
    BY <1>0
  <1>2. /\ IsChain(t, w) /\ Len(w) \in Nat
        /\ \A j \in 1 .. Len(w) : w[j] \in Rows(t)
    BY ChainElements
  <1>3. ASSUME i > 1 PROVE FALSE
    <2>1. i - 1 \in 1 .. Len(w) - 1 /\ i - 1 \in 1 .. Len(w) /\ i - 1 + 1 = i
      BY <1>2, <1>3
    <2>2. w[i] = t[w[i - 1]].replacedById
      BY <1>2, <2>1 DEF IsChain
    <2> QED
      BY <1>1, <1>2, <2>1, <2>2
  <1>4. i = 1
    BY <1>2, <1>3
  <1> QED
    BY <1>1, <1>4

LEMMA InsertedCovered ==
  ASSUME NEW t, NEW u, NEW a, Covered(t), Rows(u) = Rows(t) \cup {a},
         Chains(u) = Chains(t) \cup {<<a>>}
  PROVE  Covered(u)
  <1>1. 1 \in 1 .. Len(<<a>>) /\ <<a>>[1] = a
    OBVIOUS
  <1> QED
    BY <1>1 DEF Covered

LEMMA LinkedCovered ==
  ASSUME NEW t, NEW u, Covered(t), Rows(u) = Rows(t), NEW l \in Chains(t), NEW m \in Chains(t),
         Chains(u) = (Chains(t) \ {l, m}) \cup {l \o m}
  PROVE  Covered(u)
  <1>1. /\ l \in Seq(Rows(t)) /\ m \in Seq(Rows(t))
        /\ Len(l) \in Nat /\ Len(m) \in Nat
    BY ChainElements
  <1>2. /\ Len(l \o m) = Len(l) + Len(m)
        /\ \A i \in 1 .. Len(l) + Len(m) : (l \o m)[i] =
              IF i <= Len(l) THEN l[i] ELSE m[i - Len(l)]
    BY <1>1, ConcatProperties
  <1>3. ASSUME NEW i \in 1 .. Len(l)
        PROVE  \E j \in 1 .. Len(l \o m) : (l \o m)[j] = l[i]
    BY <1>1, <1>2
  <1>4. ASSUME NEW i \in 1 .. Len(m)
        PROVE  \E j \in 1 .. Len(l \o m) : (l \o m)[j] = m[i]
    <2>1. Len(l) + i \in 1 .. Len(l) + Len(m) /\ ~ (Len(l) + i <= Len(l))
          /\ Len(l) + i - Len(l) = i
      BY <1>1
    <2> QED
      BY <1>2, <2>1
  <1>5. ASSUME NEW a \in Rows(u)
        PROVE  \E w \in Chains(u) : \E i \in 1 .. Len(w) : w[i] = a
    <2>0. PICK w \in Chains(t) : \E i \in 1 .. Len(w) : w[i] = a
      BY DEF Covered
    <2>1. PICK i \in 1 .. Len(w) : w[i] = a
      BY <2>0
    <2>2. CASE w = l
      BY <1>3, <2>1, <2>2
    <2>3. CASE w = m
      BY <1>4, <2>1, <2>3
    <2>4. CASE w # l /\ w # m
      BY <2>1, <2>4
    <2> QED
      BY <2>2, <2>3, <2>4
  <1> QED
    BY <1>5 DEF Covered
-----------------------------------------------------------------------------
(***************************************************************************)
(* Every action is a step of Lineages or none.                             *)
(***************************************************************************)
LineageStep == Chain!Next \/ UNCHANGED Chain!vars

LEMMA ChainsBefore == IInv => BuildChains(Rows(agreements)) = Chains(agreements)
  BY ChainsOfTable DEF IInv

LEMMA ChainsAfter == IInv' => (BuildChains(Rows(agreements)) = Chains(agreements))'
  BY ChainsBefore, PTL

LEMMA ChainsNow ==
  ASSUME IInv, IInv'
  PROVE  /\ BuildChains(Rows(agreements)) = Chains(agreements)
         /\ BuildChains(Rows(agreements))' = Chains(agreements')
  BY ChainsBefore, ChainsAfter

LEMMA CreateDraftLineage ==
  ASSUME IInv, IInv', Covered(agreements), NEW a \in Ids, NEW r \in Rooms, NEW b \in Buyers,
         NEW ty \in Types, CreateDraft(a, r, b, ty)
  PROVE  Covered(agreements') /\ LineageStep
  <1>1. a \notin Rows(agreements) /\ agreements[a] = Absent
    BY NextIdIsFree DEF CreateDraft, Rows
  <1>2. /\ agreements'[a] = NewDraft(r, b, ty)
        /\ \A c \in Ids : c # a => agreements'[c] = agreements[c]
    BY DEF CreateDraft, IInv, TableInv, Table
  <1>3. Rows(agreements') = Rows(agreements) \cup {a} /\ agreements'[a].replacedById = None
        /\ \A c \in Rows(agreements) : agreements'[c] = agreements[c]
    BY <1>1, <1>2 DEF Rows, NewDraft, Absent
  <1>4. TableInv(agreements) /\ TableInv(agreements')
    BY DEF IInv
  <1>5. /\ \A w \in Chains(agreements) : \A i \in 1 .. Len(w) : w[i] # a
        /\ Chains(agreements') = Chains(agreements) \cup {<<a>>}
    BY <1>1, <1>3, <1>4, InsertedChains
  <1>6. Covered(agreements')
    BY <1>3, <1>5, InsertedCovered
  <1>7. Signed(agreements') = Signed(agreements)
    BY <1>1, <1>2, <1>3 DEF Signed, WithStatus, NewDraft
  <1>8. Chain!New(a)
    BY <1>5, <1>7, ChainsNow DEF Chain!New, Signed
  <1> QED
    BY <1>6, <1>8 DEF LineageStep, Chain!Next

LEMMA SameChainsLineage ==
  ASSUME IInv, IInv', Covered(agreements), Chains(agreements') = Chains(agreements),
         Rows(agreements') = Rows(agreements), Signed(agreements') = Signed(agreements)
  PROVE  Covered(agreements') /\ LineageStep
  <1>1. Covered(agreements')
    BY DEF Covered
  <1>2. UNCHANGED Chain!vars
    BY ChainsNow DEF Chain!vars, Signed
  <1> QED
    BY <1>1, <1>2 DEF LineageStep

LEMMA StatusLineage ==
  ASSUME IInv, IInv', Covered(agreements), NEW a \in Ids,
         SendForSigning(a) \/ RecordSignature(a) \/ CancelAgreement(a)
  PROVE  Covered(agreements') /\ LineageStep
  <1>1. agreements[a].status \in {"draft", "sent", "signed"}
    BY DEF SendForSigning, RecordSignature, CancelAgreement
  <1>2. a \in Rows(agreements) /\ agreements[a] \in Row /\ agreements \in Table
    BY <1>1, RowsOfTable DEF IInv, TableInv, Statuses
  <1>3. \A c \in Ids : c # a => agreements'[c] = agreements[c]
    BY <1>2 DEF SendForSigning, RecordSignature, CancelAgreement, Table
  <1>4. /\ agreements'[a].replacedById = agreements[a].replacedById
        /\ agreements'[a].status # "absent"
        /\ \/ agreements'[a].status = "signed" /\ agreements[a].status # "signed"
           \/ agreements'[a].status # "signed" /\ agreements[a].status = "signed"
           \/ agreements'[a].status # "signed" /\ agreements[a].status # "signed"
    <2>1. CASE SendForSigning(a)
      BY <1>2, <2>1 DEF SendForSigning, Table, Row
    <2>2. CASE RecordSignature(a)
      BY <1>2, <2>2 DEF RecordSignature, Table, Row
    <2>3. CASE CancelAgreement(a)
      BY <1>2, <2>3 DEF CancelAgreement, Table, Row
    <2> QED
      BY <2>1, <2>2, <2>3
  <1>5. Rows(agreements') = Rows(agreements)
    BY <1>2, <1>3, <1>4 DEF Rows, Absent
  <1>6. Chains(agreements') = Chains(agreements)
    BY <1>3, <1>4, <1>5, MovedChains DEF Rows
  <1>7. Covered(agreements')
    BY <1>5, <1>6 DEF Covered
  <1>8. PICK l \in Chains(agreements) : l[Len(l)] = a
    <2>1. agreements[a].replacedById = None
      BY <1>1 DEF IInv, TableInv, LinearIn
    <2> QED
      BY <1>2, <2>1, EndOfChain
  <1>9. CASE agreements'[a].status = "signed" /\ agreements[a].status # "signed"
    <2>1. a \notin Signed(agreements) /\ Signed(agreements') = Signed(agreements) \cup {a}
      BY <1>2, <1>3, <1>5, <1>9 DEF Signed, WithStatus, Rows
    <2>2. Chain!Sign(l)
      BY <1>6, <1>8, <2>1, ChainsNow DEF Chain!Sign, Chain!End, Signed
    <2> QED
      BY <1>7, <1>8, <2>2, ChainsNow DEF LineageStep, Chain!Next
  <1>10. CASE agreements'[a].status # "signed" /\ agreements[a].status = "signed"
    <2>1. a \in Signed(agreements) /\ Signed(agreements') = Signed(agreements) \ {a}
      BY <1>2, <1>3, <1>5, <1>10 DEF Signed, WithStatus, Rows
    <2>2. Chain!Cancel(l)
      BY <1>6, <1>8, <2>1, ChainsNow DEF Chain!Cancel, Chain!End, Signed
    <2> QED
      BY <1>7, <1>8, <2>2, ChainsNow DEF LineageStep, Chain!Next
  <1>11. CASE agreements'[a].status # "signed" /\ agreements[a].status # "signed"
    <2>1. Signed(agreements') = Signed(agreements)
      BY <1>2, <1>3, <1>5, <1>11 DEF Signed, WithStatus, Rows
    <2> QED
      BY <1>5, <1>6, <2>1, SameChainsLineage
  <1> QED
    BY <1>4, <1>9, <1>10, <1>11

\* What linking does to the agreements in force.
LEMMA LinkedSigned ==
  ASSUME NEW t, TableInv(t), NEW p \in Rows(t), NEW s \in Rows(t), CanSupersede(t, p, s)
  PROVE  /\ p \in Signed(t)
         /\ Signed(Superseded(t, p, s)) = Signed(t) \ {p}
  <1>1. t \in Table /\ p \in Ids
    BY DEF TableInv, Rows
  <1>2. /\ Rows(Superseded(t, p, s)) = Rows(t)
        /\ Superseded(t, p, s)[p].status = "replaced"
        /\ \A c \in Ids : c # p => Superseded(t, p, s)[c] = t[c]
    BY <1>1, LinkedTable, SupersededRows
  <1>3. p \in Signed(t)
    BY DEF CanSupersede, Signed, WithStatus
  <1> QED
    BY <1>2, <1>3 DEF Signed, WithStatus, Rows

LEMMA SupersedeLineage ==
  ASSUME IInv, IInv', Covered(agreements), NEW p \in Ids, NEW s \in Ids, Supersede(p, s)
  PROVE  Covered(agreements') /\ LineageStep
  <1>1. /\ p \in Rows(agreements) /\ s \in Rows(agreements)
        /\ CanSupersede(agreements, p, s) /\ TableInv(agreements)
        /\ agreements' = Superseded(agreements, p, s)
    BY DEF Supersede, IInv
  <1>2. PICK l \in Chains(agreements) : l[Len(l)] = p
    <2>1. agreements[p].replacedById = None
      BY <1>1 DEF CanSupersede
    <2> QED
      BY <1>1, <2>1, EndOfChain
  <1>3. PICK m \in Chains(agreements) : m[1] = s
    BY <1>1, LinkedTable, HeadOfChain
  <1>4. /\ l # m
        /\ Chains(agreements') = (Chains(agreements) \ {l, m}) \cup {l \o m}
    BY <1>1, <1>2, <1>3, LinkedChains, ZenonT(60)
  <1>5. Rows(agreements') = Rows(agreements)
    BY <1>1, LinkedTable
  <1>6. Covered(agreements')
    BY <1>4, <1>5, LinkedCovered
  <1>7. p \in Signed(agreements) /\ Signed(agreements') = Signed(agreements) \ {p}
    BY <1>1, LinkedSigned
  <1>8. Chain!Link(l, m)
    BY <1>2, <1>4, <1>7, ChainsNow DEF Chain!Link, Chain!End, Signed
  <1> QED
    BY <1>6, <1>8, ChainsNow DEF LineageStep, Chain!Next

\* A mutation that inserts a draft and links it renews a lineage.
LEMMA InsertAndLinkLineage ==
  ASSUME IInv, IInv', Covered(agreements), NEW a \in Ids, IsNextId(a),
         NEW p \in Rows(agreements), NEW r \in Rooms, NEW ty \in Types,
         CanSupersede([agreements EXCEPT ![a] = NewDraft(r, BuyerOf[r], ty)], p, a),
         agreements' = Superseded([agreements EXCEPT ![a] = NewDraft(r, BuyerOf[r], ty)], p, a)
  PROVE  Covered(agreements') /\ LineageStep
  <1> DEFINE t == [agreements EXCEPT ![a] = NewDraft(r, BuyerOf[r], ty)]
  <1>1. a \notin Rows(agreements) /\ agreements[a] = Absent /\ p # a /\ p \in Ids
    BY NextIdIsFree DEF Rows
  <1>2. TableInv(t) /\ TableInv(agreements)
    BY <1>1, InsertKeepsTable DEF IInv
  <1>3. /\ t[a] = NewDraft(r, BuyerOf[r], ty)
        /\ \A c \in Ids : c # a => t[c] = agreements[c]
    BY DEF IInv, TableInv, Table
  <1>4. CanSupersede(t, p, a) /\ agreements' = Superseded(t, p, a)
    OBVIOUS
  <1> HIDE DEF t
  <1>5. Rows(t) = Rows(agreements) \cup {a} /\ t[a].replacedById = None
        /\ \A c \in Rows(agreements) : t[c] = agreements[c]
    BY <1>1, <1>3 DEF Rows, NewDraft, Absent
  <1>6. /\ <<a>> \notin Chains(agreements)
        /\ \A w \in Chains(agreements) : \A i \in 1 .. Len(w) : w[i] # a
        /\ Chains(t) = Chains(agreements) \cup {<<a>>}
    BY <1>1, <1>2, <1>5, InsertedChains
  <1>7. PICK l \in Chains(agreements) : l[Len(l)] = p
    <2>1. agreements[p].replacedById = None
      BY <1>1, <1>3, <1>4 DEF CanSupersede
    <2> QED
      BY <2>1, EndOfChain
  <1>8. /\ l # <<a>>
        /\ Chains(agreements') = (Chains(t) \ {l, <<a>>}) \cup {l \o <<a>>}
    BY <1>2, <1>4, <1>5, <1>6, <1>7, LinkedChains, SingletonSeq, SMTT(30)
  <1>9. l \o <<a>> = Append(l, a)
    <2>1. l \in Seq(Ids)
      BY ChainElements, SeqMonotonic DEF Rows
    <2> QED
      BY <2>1, AppendIsConcat
  <1>10. Chains(agreements') = (Chains(agreements) \ {l}) \cup {Append(l, a)}
    BY <1>6, <1>8, <1>9
  <1>11. Covered(t)
    BY <1>5, <1>6, InsertedCovered
  <1>12. Rows(agreements') = Rows(t)
    BY <1>2, <1>4, <1>5, LinkedTable
  <1>13. Covered(agreements')
    BY <1>6, <1>8, <1>11, <1>12, LinkedCovered
  <1>14. Signed(t) = Signed(agreements)
    BY <1>1, <1>3, <1>5 DEF Signed, WithStatus, NewDraft
  <1>15. p \in Signed(agreements) /\ Signed(agreements') = Signed(agreements) \ {p}
    BY <1>2, <1>4, <1>5, <1>14, LinkedSigned
  <1>16. Chain!Renew(l, a)
    BY <1>6, <1>7, <1>10, <1>15, ChainsNow DEF Chain!Renew, Chain!End, Signed
  <1> QED
    BY <1>13, <1>16, ChainsNow DEF LineageStep, Chain!Next

LEMMA NextLineage ==
  ASSUME IInv, IInv', Covered(agreements), [Next]_vars
  PROVE  Covered(agreements') /\ LineageStep
  <1>1. ASSUME NEW p \in Ids, NEW a \in Ids, NEW ty \in Types, ReplaceAgreement(p, a, ty)
        PROVE  Covered(agreements') /\ LineageStep
    <2>1. p \in Rows(agreements) /\ agreements[p] \in Row
      BY <1>1, RowsOfTable DEF ReplaceAgreement, IInv, TableInv, Statuses
    <2>2. /\ agreements[p].dealRoomId \in Rooms
          /\ agreements[p].buyerId = BuyerOf[agreements[p].dealRoomId]
      BY <2>1 DEF IInv, TableInv, OwnedIn, Row
    <2> QED
      BY <1>1, <2>1, <2>2, InsertAndLinkLineage DEF ReplaceAgreement
  <1>2. ASSUME NEW r \in Rooms, NEW a \in Ids, InitiateUpgrade(r, a)
        PROVE  Covered(agreements') /\ LineageStep
    <2> DEFINE passes == SignedOf(agreements,
                           InRoom(agreements, r) \cap OfBuyer(agreements, BuyerOf[r]),
                           "tour_pass")
    <2>1. First(passes) \in passes
      BY <1>2, FirstIsMember DEF InitiateUpgrade, SignedOf, InRoom, Rows
    <2>2. First(passes) \in Rows(agreements)
      BY <2>1 DEF SignedOf, InRoom
    <2> QED
      BY <1>2, <2>2, InsertAndLinkLineage DEF InitiateUpgrade, Types
  <1>3. ASSUME UNCHANGED agreements
        PROVE  Covered(agreements') /\ LineageStep
    BY <1>3, SameChainsLineage
  <1> QED
    BY <1>1, <1>2, <1>3, CreateDraftLineage, StatusLineage, SupersedeLineage
    DEF Next, vars, RecalculateEligibility

(***************************************************************************)
(* The chains the readers rebuild from the pointers implement Lineages:    *)
(* no mutation ever drops an agreement from a chain, shares it between two *)
(* or moves it, a chain only grows at its end, and only its end is in      *)
(* force.                                                                  *)
(***************************************************************************)
THEOREM RefinesLineages == Spec => ImplementsLineages
  <1>1. Init => Covered(agreements) /\ Chain!Init
    <2> SUFFICES ASSUME Init PROVE Covered(agreements) /\ Chain!Init
      OBVIOUS
    <2>1. Rows(agreements) = {}
      BY DEF Init, Rows
    <2>2. BuildChains(Rows(agreements)) = {} /\ WithStatus(agreements, Rows(agreements), {"signed"}) = {}
      BY <2>1 DEF BuildChains, WithStatus
    <2> QED
      BY <2>1, <2>2 DEF Covered, Chain!Init
  <1>2. IInv /\ IInv' /\ Covered(agreements) /\ [Next]_vars
          => Covered(agreements)' /\ [Chain!Next]_(Chain!vars)
    BY NextLineage DEF LineageStep
  <1> QED
    BY <1>1, <1>2, Inductive, PTL DEF Spec, ImplementsLineages, Chain!Spec
-----------------------------------------------------------------------------
(***************************************************************************)
(* The readers.                                                            *)
(***************************************************************************)

\* The part of a chain from the first row after which all rows are loaded is
\* a walk over the loaded rows, so every agreement in force is found.
LEMMA SignedRowsEndWalks ==
  ASSUME IInv, Covered(agreements), NEW S \in SUBSET Rows(agreements),
         NEW x \in S, agreements[x].status = "signed"
  PROVE  \E c \in BuildChains(S) : c[Len(c)] = x
  <1>1. S \in SUBSET Ids /\ Rows(agreements) \in SUBSET Ids /\ None \notin S
    BY NoneIsNoId DEF Rows
  <1>2. agreements[x].replacedById = None
    BY <1>1 DEF IInv, TableInv, LinearIn
  <1>3. PICK w \in Chains(agreements) : w[Len(w)] = x
    BY <1>2, EndOfChain
  <1>4. /\ IsChain(agreements, w) /\ Len(w) \in Nat /\ Len(w) >= 1
        /\ \A i \in 1 .. Len(w) : w[i] \in Rows(agreements)
    BY ChainElements
  <1>5. Len(w) \in Nat /\ Len(w) >= 1
    BY <1>4
  <1> DEFINE Loaded == {i \in 1 .. Len(w) : \A j \in 1 .. Len(w) : i <= j => w[j] \in S}
  <1>6. PICK i \in Loaded : \A y \in Loaded : i <= y
    <2>1. Loaded \in SUBSET Nat
      BY <1>5
    <2>2. Len(w) \in Loaded
      <3>1. \A j \in 1 .. Len(w) : Len(w) <= j => j = Len(w)
        BY <1>5
      <3> QED
        BY <1>3, <1>5, <3>1
    <2> HIDE DEF Loaded
    <2> QED
      BY <2>1, <2>2, LeastOf
  <1>7. i \in Nat /\ i >= 1 /\ i <= Len(w) /\ \A j \in i .. Len(w) : w[j] \in S
    BY <1>5, <1>6
  <1> DEFINE c == SubSeq(w, i, Len(w))
  <1>8. /\ c \in Seq(S) /\ Len(c) = Len(w) - i + 1 /\ Len(c) \in Nat /\ Len(c) >= 1
        /\ \A k \in 1 .. Len(c) : c[k] = w[i + k - 1]
    <2>1. /\ SubSeq(w, i, Len(w)) \in Seq(S)
          /\ Len(SubSeq(w, i, Len(w))) = IF i <= Len(w) THEN Len(w) - i + 1 ELSE 0
          /\ \A k \in 1 .. Len(w) - i + 1 : SubSeq(w, i, Len(w))[k] = w[i + k - 1]
      BY <1>5, <1>7, SubSeqProperties
    <2> QED
      BY <1>5, <1>7, <2>1
  <1> HIDE DEF c
  <1>9. c[1] = w[i] /\ c[Len(c)] = x
    <2>1. i + 1 - 1 = i /\ i + Len(c) - 1 = Len(w) /\ 1 \in 1 .. Len(c) /\ Len(c) \in 1 .. Len(c)
      BY <1>5, <1>7, <1>8
    <2> QED
      BY <1>3, <1>8, <2>1
  <1>10. \A k, h \in 1 .. Len(c) : c[k] = c[h] => k = h
    <2>1. SUFFICES ASSUME NEW k \in 1 .. Len(c), NEW h \in 1 .. Len(c), c[k] = c[h]
                   PROVE  k = h
      OBVIOUS
    <2>2. i + k - 1 \in 1 .. Len(w) /\ i + h - 1 \in 1 .. Len(w)
      BY <1>5, <1>7, <1>8
    <2>3. w[i + k - 1] = w[i + h - 1]
      BY <1>8, <2>1
    <2>4. i + k - 1 = i + h - 1
      BY <1>4, <2>2, <2>3 DEF IsChain
    <2> QED
      BY <1>7, <1>8, <2>4
  <1>11. \A k \in 1 .. Len(c) - 1 : c[k + 1] = agreements[c[k]].replacedById
    <2>1. SUFFICES ASSUME NEW k \in 1 .. Len(c) - 1
                   PROVE  c[k + 1] = agreements[c[k]].replacedById
      OBVIOUS
    <2>2. /\ i + k - 1 \in 1 .. Len(w) - 1 /\ k \in 1 .. Len(c) /\ k + 1 \in 1 .. Len(c)
          /\ i + (k + 1) - 1 = (i + k - 1) + 1
      BY <1>5, <1>7, <1>8
    <2>3. c[k] = w[i + k - 1] /\ c[k + 1] = w[(i + k - 1) + 1]
      BY <1>8, <2>2
    <2> QED
      BY <1>4, <2>2, <2>3 DEF IsChain
  <1>12. IsWalk(S, c)
    BY <1>1, <1>2, <1>9, <1>10, <1>11 DEF IsWalk
  <1>13. ASSUME NEW y \in S, agreements[y].replacedById = w[i] PROVE FALSE
    <2>1. i # 1
      BY <1>4, <1>13 DEF IsChain
    <2>2. i - 1 \in 1 .. Len(w) - 1 /\ i - 1 \in 1 .. Len(w) /\ i - 1 + 1 = i
      BY <1>5, <1>7, <2>1
    <2>3. w[i] = agreements[w[i - 1]].replacedById
      BY <1>4, <2>2 DEF IsChain
    <2>4. y \in Ids /\ w[i - 1] \in Ids /\ w[i] # None
      <3>1. w[i] \in Rows(agreements) /\ w[i - 1] \in Rows(agreements)
        BY <1>4, <1>6, <2>2
      <3> QED
        BY <1>1, <3>1, NoneIsNoId
    <2>5. y = w[i - 1]
      BY <1>13, <2>3, <2>4 DEF IInv, TableInv, LinearIn
    <2>6. i - 1 \in Loaded
      <3>1. \A j \in 1 .. Len(w) : i - 1 <= j => j = i - 1 \/ i <= j
        BY <1>7
      <3> QED
        BY <1>6, <1>13, <2>2, <2>5, <3>1
    <2> QED
      BY <1>6, <1>7, <2>6
  <1> QED
    BY <1>1, <1>8, <1>9, <1>12, <1>13, ChainsAreWalks

LEMMA ResolverFindsSigned ==
  ASSUME IInv, Covered(agreements), NEW S \in SUBSET Rows(agreements)
  PROVE  ResolveCurrentGoverning(S) = Preferred(S)
  <1> DEFINE ends == {chain[Len(chain)] : chain \in BuildChains(S)}
  <1>1. ends \subseteq S
    <2>1. S \in SUBSET Ids
      BY DEF Rows
    <2>2. ASSUME NEW c \in BuildChains(S) PROVE c[Len(c)] \in S
      <3>1. c \in Seq(S) /\ Len(c) >= 1
        BY <2>1, ChainsAreWalks
      <3>2. Len(c) \in Nat /\ c \in [1 .. Len(c) -> S]
        BY <3>1, LenProperties
      <3> QED
        BY <3>1, <3>2
    <2> QED
      BY <2>2
  <1>2. ASSUME NEW x \in S, agreements[x].status = "signed" PROVE x \in ends
    BY <1>2, SignedRowsEndWalks
  <1> HIDE DEF ends
  <1>3. \A ty : SignedOf(agreements, ends, ty) = SignedOf(agreements, S, ty)
    BY <1>1, <1>2 DEF SignedOf
  <1>4. Preferred(ends) = Preferred(S)
    BY <1>3 DEF Preferred
  <1> QED
    BY <1>4 DEF ResolveCurrentGoverning, ends

\* Among finitely many agreements one was signed last.
LEMMA LastSignedExists ==
  ASSUME NEW S \in SUBSET Ids, S # {}, \A a \in S : agreements[a].signedAt \in Nat
  PROVE  MostRecentlySigned(S) \in S
  <1> DEFINE at(a) == agreements[a].signedAt
             Bound(k) == {N \in Nat : \A a \in S : a <= k => at(a) <= N}
             Unbounded == {k \in Nat : Bound(k) = {}}
  <1>1. MaxAgreements \in Nat /\ S \subseteq Nat /\ \A a \in S : a >= 1 /\ a <= MaxAgreements
    BY AgreementsAssumption DEF Ids
  <1>2. Unbounded = {}
    <2>1. SUFFICES ASSUME Unbounded # {} PROVE FALSE
      OBVIOUS
    <2>2. PICK k \in Unbounded : \A x \in Unbounded : k <= x
      <3>1. Unbounded \in SUBSET Nat
        OBVIOUS
      <3> HIDE DEF Unbounded
      <3> QED
        BY <2>1, <3>1, LeastOf
    <2>3. k # 0
      <3>1. \A a \in S : ~ (a <= 0)
        BY <1>1
      <3>2. 0 \in Bound(0)
        BY <3>1
      <3> QED
        BY <3>2
    <2>4. k - 1 \in Nat /\ k - 1 \notin Unbounded
      BY <2>2, <2>3
    <2>5. PICK N \in Nat : \A a \in S : a <= k - 1 => at(a) <= N
      BY <2>4
    <2>6. CASE k \in S
      <3>1. \A a \in S : a <= k => a = k \/ a <= k - 1
        BY <1>1
      <3>2. N + at(k) \in Nat /\ at(k) <= N + at(k) /\ \A n \in Nat : n <= N => n <= N + at(k)
        BY <2>6
      <3>3. \A a \in S : a <= k => at(a) <= N + at(k)
        BY <2>5, <3>1, <3>2
      <3>4. N + at(k) \in Bound(k)
        BY <3>2, <3>3
      <3> QED
        BY <3>4
    <2>7. CASE k \notin S
      <3>1. \A a \in S : a <= k => a <= k - 1
        BY <1>1, <2>7
      <3>2. N \in Bound(k)
        BY <2>5, <3>1
      <3> QED
        BY <3>2
    <2> QED
      BY <2>6, <2>7
  <1> DEFINE Above == {N \in Nat : \A a \in S : at(a) <= N}
  <1>3. PICK N \in Above : \A x \in Above : N <= x
    <2>1. Above # {}
      <3>1. PICK M \in Nat : \A a \in S : a <= MaxAgreements => at(a) <= M
        BY <1>1, <1>2
      <3> QED
        BY <1>1, <3>1
    <2>2. Above \in SUBSET Nat
      OBVIOUS
    <2> HIDE DEF Above
    <2> QED
      BY <2>1, <2>2, LeastOf
  <1>4. PICK a \in S : at(a) = N
    <2>1. SUFFICES ASSUME \A a \in S : at(a) # N PROVE FALSE
      OBVIOUS
    <2>2. N # 0
      BY <1>3, <2>1
    <2>3. N - 1 \in Above
      BY <1>3, <2>1, <2>2
    <2> QED
      BY <1>3, <2>3
  <1>5. \A b \in S : agreements[a].signedAt >= agreements[b].signedAt
    BY <1>3, <1>4
  <1> QED
    BY <1>5 DEF MostRecentlySigned

LEMMA ReadersOfCovered ==
  ASSUME IInv, Covered(agreements)
  PROVE  ResolverMissesNothing /\ GoverningMatchesEligibility
  <1>1. ResolverMissesNothing
    <2>1. \A b \in Buyers : OfBuyer(agreements, b) \in SUBSET Rows(agreements)
      BY DEF OfBuyer
    <2>2. \A r \in Rooms : InRoom(agreements, r) \in SUBSET Rows(agreements)
      BY DEF InRoom
    <2> QED
      BY <2>1, <2>2, ResolverFindsSigned DEF ResolverMissesNothing
  <1>2. ASSUME NEW b \in Buyers
        PROVE  LET g == ResolveCurrentGoverning(OfBuyer(agreements, b)) IN
               (g # None /\ agreements[g].type = "full_representation")
                 <=> \E r \in Rooms : BuyerOf[r] = b /\ RoomVerdict(agreements, r).isEligible
    <2> DEFINE S == OfBuyer(agreements, b)
               full == SignedOf(agreements, S, "full_representation")
               pass == SignedOf(agreements, S, "tour_pass")
               g == ResolveCurrentGoverning(S)
    <2>1. /\ S \subseteq Rows(agreements) /\ full \subseteq S /\ pass \subseteq S
          /\ S \subseteq Ids /\ None \notin S
      BY NoneIsNoId DEF OfBuyer, SignedOf, Rows
    <2>2. \A a \in S : agreements[a] \in Row /\ agreements[a].signedAt \in Nat
      BY <2>1, RowsOfTable DEF IInv, TableInv, Row
    <2>3. g = IF full # {} THEN MostRecentlySigned(full)
              ELSE IF pass # {} THEN MostRecentlySigned(pass) ELSE None
      BY <2>1, ResolverFindsSigned DEF Preferred
    <2>4. full # {} => g \in full
      BY <2>1, <2>2, <2>3, LastSignedExists
    <2>5. full = {} => g = None \/ agreements[g].type = "tour_pass"
      <3>1. CASE full = {} /\ pass # {}
        <4>1. g \in pass
          BY <2>1, <2>2, <2>3, <3>1, LastSignedExists
        <4> QED
          BY <4>1 DEF SignedOf
      <3> QED
        BY <2>3, <3>1
    <2>6. (g # None /\ agreements[g].type = "full_representation") <=> full # {}
      <3>1. full # {} => g # None /\ agreements[g].type = "full_representation"
        BY <2>1, <2>4 DEF SignedOf
      <3> QED
        BY <2>5, <3>1
    <2>7. \A r \in Rooms : RoomVerdict(agreements, r).isEligible
             <=> SignedOf(agreements, InRoom(agreements, r), "full_representation") # {}
      BY DEF RoomVerdict, ComputeOfferEligibility, Ineligible
    <2>8. full # {} <=> \E r \in Rooms : /\ BuyerOf[r] = b
            /\ SignedOf(agreements, InRoom(agreements, r), "full_representation") # {}
      <3>1. \A a \in Rows(agreements) : /\ agreements[a].dealRoomId \in Rooms
                                        /\ agreements[a].buyerId = BuyerOf[agreements[a].dealRoomId]
        <4>1. \A a \in Rows(agreements) : agreements[a] \in Row
          BY RowsOfTable DEF IInv, TableInv, Rows
        <4> QED
          BY <4>1 DEF IInv, TableInv, OwnedIn, Row
      <3> QED
        BY <3>1 DEF SignedOf, InRoom, OfBuyer
    <2> QED
      BY <2>6, <2>7, <2>8
  <1> QED
    BY <1>1, <1>2 DEF GoverningMatchesEligibility

(***************************************************************************)
(* All readers agree, for any number of agreements: neither lookup by      *)
(* chain misses an agreement in force, whichever rows it loads, the        *)
(* governing agreement of a buyer is a full representation exactly when    *)
(* some room of the buyer is eligible, and the audit trails tell the same. *)
(***************************************************************************)
THEOREM ReadersAlwaysAgree == Spec => []ReadersAgree
  <1>1. Init => Covered(agreements)
    BY DEF Init, Rows, Covered
  <1>2. IInv /\ IInv' /\ Covered(agreements) /\ [Next]_vars => Covered(agreements)'
    BY NextLineage
  <1>3. IInv /\ Covered(agreements) /\ AuditReconstructsState => ReadersAgree
    BY ReadersOfCovered DEF ReadersAgree
  <1> QED
    BY <1>1, <1>2, <1>3, Inductive, AuditIsComplete, PTL DEF Spec
=============================================================================
