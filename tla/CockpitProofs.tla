----------------------------- MODULE CockpitProofs -----------------------------
(***************************************************************************)
(* Theorems about OfferCockpit and CockpitEditor, for any number of rooms, *)
(* agreements and edits.  That what reaches the broker was submitted under *)
(* an agreement rests on the theorems about Agreements.                    *)
(***************************************************************************)
EXTENDS CockpitEditor, AgreementsProofs

-----------------------------------------------------------------------------
(***************************************************************************)
(* The drafts.  That one draft is active is kept because a room never gets *)
(* a second row: upsertDraft inserts only where there is none.             *)
(***************************************************************************)
ReviewColumnsAgree(d) ==
  IF d.status \in {"pending_review", "approved", "rejected"}
    THEN d.brokerReviewState = d.status
    ELSE d.brokerReviewState \in {"not_submitted", "rejected"}

DraftsOk(rows) ==
  \/ rows = <<>>
  \/ /\ rows \in [1 .. 1 -> Draft]
     /\ ReviewColumnsAgree(rows[1])

CockpitIInv ==
  /\ drafts = [r \in Rooms |-> drafts[r]]
  /\ \A r \in Rooms : DraftsOk(drafts[r])

LEMMA OneRow ==
  ASSUME NEW rows, DraftsOk(rows)
  PROVE  /\ rows \in Seq(Draft)
         /\ rows = <<>> => Len(rows) = 0
         /\ rows # <<>> => /\ Len(rows) = 1 /\ DOMAIN rows = 1 .. 1
                           /\ rows[1] \in Draft /\ ReviewColumnsAgree(rows[1])
  <1>1. CASE rows = <<>>
    BY <1>1
  <1>2. CASE rows # <<>>
    <2>1. rows \in [1 .. 1 -> Draft] /\ ReviewColumnsAgree(rows[1])
      BY <1>2 DEF DraftsOk
    <2>2. rows \in Seq(Draft)
      BY <2>1, SeqDef
    <2>3. Len(rows) = 1
      BY <2>1, <2>2, LenProperties
    <2> QED
      BY <1>2, <2>1, <2>2, <2>3
  <1> QED
    BY <1>1, <1>2

LEMMA DraftsAreSound == CockpitIInv => CockpitTypeOK /\ OneActiveDraft
  <1> SUFFICES ASSUME CockpitIInv PROVE CockpitTypeOK /\ OneActiveDraft
    OBVIOUS
  <1>1. CockpitTypeOK
    <2>1. \A r \in Rooms : drafts[r] \in UNION {[1 .. n -> Draft] : n \in 0 .. MaxDrafts}
      <3> SUFFICES ASSUME NEW r \in Rooms
                   PROVE  \E n \in 0 .. MaxDrafts : drafts[r] \in [1 .. n -> Draft]
        OBVIOUS
      <3>1. CASE drafts[r] = <<>>
        <4>1. drafts[r] \in [1 .. 0 -> Draft]
          BY <3>1
        <4>2. 0 \in 0 .. MaxDrafts
          BY OfferCockpitAssumption
        <4> QED
          BY <4>1, <4>2
      <3>2. CASE drafts[r] # <<>>
        <4>1. drafts[r] \in [1 .. 1 -> Draft]
          BY <3>2 DEF CockpitIInv, DraftsOk
        <4>2. 1 \in 0 .. MaxDrafts
          BY OfferCockpitAssumption
        <4> QED
          BY <4>1, <4>2
      <3> QED
        BY <3>1, <3>2
    <2> QED
      BY <2>1 DEF CockpitIInv, CockpitTypeOK
  <1>2. OneActiveDraft
    <2> SUFFICES ASSUME NEW r \in Rooms
                 PROVE  /\ Cardinality({i \in DOMAIN drafts[r] :
                                          drafts[r][i].status # "abandoned"}) <= 1
                        /\ \A i \in DOMAIN drafts[r] : ReviewColumnsAgree(drafts[r][i])
      BY DEF OneActiveDraft, ReviewColumnsAgree
    <2>1. DraftsOk(drafts[r])
      BY DEF CockpitIInv
    <2>2. \A i \in DOMAIN drafts[r] : i = 1 /\ ReviewColumnsAgree(drafts[r][i])
      BY <2>1, OneRow
    <2> DEFINE active == {i \in DOMAIN drafts[r] : drafts[r][i].status # "abandoned"}
    <2>3. active \subseteq {1}
      BY <2>2
    <2>4. Cardinality(active) <= 1
      <3>1. IsFiniteSet({1}) /\ Cardinality({1}) = 1
        BY FS_Singleton
      <3>2. Cardinality(active) <= Cardinality({1}) /\ Cardinality(active) \in Nat
        BY <2>3, <3>1, FS_Subset, FS_CardinalityType
      <3> QED
        BY <3>1, <3>2
    <2> QED
      BY <2>2, <2>4
  <1> QED
    BY <1>1, <1>2

LEMMA InitCockpit == CockpitInit => CockpitIInv
  BY DEF CockpitInit, CockpitIInv, DraftsOk

\* A mutation that writes the drafts of one room.
LEMMA OneRoomDrafts ==
  ASSUME CockpitIInv, NEW r \in Rooms, drafts' = [drafts EXCEPT ![r] = drafts'[r]],
         DraftsOk(drafts'[r])
  PROVE  CockpitIInv'
  BY DEF CockpitIInv

\* What patching the only row of a room leaves.
LEMMA PatchLatestWrites ==
  ASSUME CockpitIInv, NEW r \in Rooms, HasDraft(r), NEW row \in Draft,
         ReviewColumnsAgree(row), PatchLatest(r, row)
  PROVE  /\ CockpitIInv'
         /\ drafts'[r] \in [1 .. 1 -> Draft] /\ drafts'[r][1] = row
         /\ \A q \in Rooms \ {r} : drafts'[q] = drafts[q]
  <1>1. DraftsOk(drafts[r])
    BY DEF CockpitIInv
  <1>2. Len(drafts[r]) = 1 /\ drafts[r] \in [1 .. 1 -> Draft]
    BY <1>1, OneRow DEF HasDraft, DraftsOk
  <1>3. drafts' = [drafts EXCEPT ![r] = [drafts[r] EXCEPT ![1] = row]]
    BY <1>2 DEF PatchLatest, CockpitIInv
  <1>4. drafts'[r] \in [1 .. 1 -> Draft] /\ drafts'[r][1] = row
    BY <1>2, <1>3 DEF CockpitIInv
  <1>5. drafts' = [drafts EXCEPT ![r] = drafts'[r]]
    BY <1>3 DEF CockpitIInv
  <1> QED
    BY <1>3, <1>4, <1>5, OneRoomDrafts DEF DraftsOk, CockpitIInv

LEMMA LatestDraft ==
  ASSUME CockpitIInv, NEW r \in Rooms, HasDraft(r)
  PROVE  /\ DOMAIN drafts[r] = {1} /\ Len(drafts[r]) = 1
         /\ Latest(r) = drafts[r][1] /\ Latest(r) \in Draft
         /\ ReviewColumnsAgree(Latest(r))
  <1>1. DraftsOk(drafts[r])
    BY DEF CockpitIInv
  <1> QED
    BY <1>1, OneRow DEF HasDraft, Latest

LEMMA UpsertWrites ==
  ASSUME CockpitIInv, NEW r \in Rooms, UpsertDraft(r)
  PROVE  /\ CockpitIInv'
         /\ drafts'[r] \in [1 .. 1 -> Draft] /\ drafts'[r][1].status = "draft"
         /\ drafts'[r][1].version = IF HasDraft(r) THEN Latest(r).version + 1 ELSE 1
         /\ \A q \in Rooms \ {r} : drafts'[q] = drafts[q]
  <1>1. CASE HasDraft(r)
    <2> DEFINE row == [status |-> "draft",
                       brokerReviewState |-> IF Latest(r).brokerReviewState = "rejected"
                                               THEN "not_submitted"
                                               ELSE Latest(r).brokerReviewState,
                       version |-> Latest(r).version + 1]
    <2>1. /\ PatchLatest(r, row) /\ Latest(r).version < MaxVersion
          /\ Latest(r).status \in EditableDraftStatuses
      BY <1>1 DEF UpsertDraft, UpsertRefused
    <2>2. row \in Draft /\ ReviewColumnsAgree(row)
      BY <1>1, <2>1, LatestDraft, OfferCockpitAssumption
      DEF Draft, DraftStatuses, ReviewStates, ReviewColumnsAgree, EditableDraftStatuses
    <2> HIDE DEF row
    <2>3. /\ CockpitIInv' /\ drafts'[r] \in [1 .. 1 -> Draft] /\ drafts'[r][1] = row
          /\ \A q \in Rooms \ {r} : drafts'[q] = drafts[q]
      BY <1>1, <2>1, <2>2, PatchLatestWrites
    <2> QED
      BY <1>1, <2>3 DEF row
  <1>2. CASE ~HasDraft(r)
    <2> DEFINE row == [status |-> "draft", version |-> 1, brokerReviewState |-> "not_submitted"]
    <2>1. drafts[r] = <<>> /\ drafts' = [drafts EXCEPT ![r] = Append(drafts[r], row)]
      BY <1>2 DEF UpsertDraft, HasDraft, CockpitIInv
    <2>2. row \in Draft /\ ReviewColumnsAgree(row)
      BY OfferCockpitAssumption DEF Draft, DraftStatuses, ReviewStates, ReviewColumnsAgree
    <2>3. /\ drafts'[r] \in [1 .. 1 -> Draft] /\ drafts'[r][1] = row
          /\ drafts' = [drafts EXCEPT ![r] = drafts'[r]]
      <3>1. drafts'[r] = <<row>>
        BY <2>1 DEF CockpitIInv
      <3> QED
        BY <2>1, <2>2, <3>1 DEF CockpitIInv
    <2> QED
      BY <1>2, <2>1, <2>2, <2>3, OneRoomDrafts DEF DraftsOk, CockpitIInv
  <1> QED
    BY <1>1, <1>2

LEMMA SubmitWrites ==
  ASSUME CockpitIInv, NEW r \in Rooms, SubmitForReview(r)
  PROVE  /\ CockpitIInv' /\ HasDraft(r)
         /\ drafts'[r] \in [1 .. 1 -> Draft] /\ drafts'[r][1].status = "pending_review"
         /\ drafts'[r][1].version = Latest(r).version
         /\ \A q \in Rooms \ {r} : drafts'[q] = drafts[q]
  <1> DEFINE row == [Latest(r) EXCEPT !.status = "pending_review",
                                      !.brokerReviewState = "pending_review"]
  <1>1. PatchLatest(r, row) /\ HasDraft(r)
    BY DEF SubmitForReview
  <1>2. row \in Draft /\ ReviewColumnsAgree(row) /\ row.status = "pending_review"
        /\ row.version = Latest(r).version
    BY <1>1, LatestDraft DEF Draft, DraftStatuses, ReviewStates, ReviewColumnsAgree
  <1> HIDE DEF row
  <1> QED
    BY <1>1, <1>2, PatchLatestWrites

LEMMA DecisionWrites ==
  ASSUME CockpitIInv, NEW r \in Rooms, NEW i \in DOMAIN drafts[r],
         NEW decision \in {"approved", "rejected"}, RecordBrokerDecision(r, i, decision)
  PROVE  /\ CockpitIInv' /\ HasDraft(r) /\ Latest(r).status = "pending_review"
         /\ drafts'[r] \in [1 .. 1 -> Draft] /\ drafts'[r][1].status = decision
         /\ drafts'[r][1].version = Latest(r).version
         /\ \A q \in Rooms \ {r} : drafts'[q] = drafts[q]
  <1> DEFINE row == [drafts[r][1] EXCEPT !.status = decision, !.brokerReviewState = decision]
  <1>1. HasDraft(r)
    BY DEF HasDraft
  <1>2. i = 1 /\ Latest(r) = drafts[r][1] /\ Latest(r) \in Draft
        /\ drafts[r] \in [1 .. 1 -> Draft]
    BY <1>1, LatestDraft DEF CockpitIInv, DraftsOk, HasDraft
  <1>3. row \in Draft /\ ReviewColumnsAgree(row) /\ row.status = decision
        /\ row.version = Latest(r).version
    BY <1>2 DEF Draft, DraftStatuses, ReviewStates, ReviewColumnsAgree
  <1>4. drafts' = [drafts EXCEPT ![r] = [drafts[r] EXCEPT ![1] = row]]
    BY <1>2 DEF RecordBrokerDecision, CockpitIInv
  <1> HIDE DEF row
  <1>5. /\ drafts'[r] \in [1 .. 1 -> Draft] /\ drafts'[r][1] = row
        /\ drafts' = [drafts EXCEPT ![r] = drafts'[r]]
        /\ \A q \in Rooms \ {r} : drafts'[q] = drafts[q]
    BY <1>2, <1>3, <1>4 DEF CockpitIInv
  <1> QED
    BY <1>1, <1>2, <1>3, <1>5, OneRoomDrafts DEF DraftsOk, RecordBrokerDecision

LEMMA DiscardWrites ==
  ASSUME CockpitIInv, NEW r \in Rooms, DiscardDraft(r)
  PROVE  /\ CockpitIInv' /\ HasDraft(r) /\ Latest(r).status \in EditableDraftStatuses
         /\ drafts'[r] \in [1 .. 1 -> Draft] /\ drafts'[r][1].status = "abandoned"
         /\ drafts'[r][1].version = Latest(r).version
         /\ \A q \in Rooms \ {r} : drafts'[q] = drafts[q]
  <1> DEFINE row == [Latest(r) EXCEPT !.status = "abandoned"]
  <1>1. PatchLatest(r, row) /\ HasDraft(r) /\ Latest(r).status \in EditableDraftStatuses
    BY DEF DiscardDraft
  <1>2. row \in Draft /\ ReviewColumnsAgree(row) /\ row.status = "abandoned"
        /\ row.version = Latest(r).version
    BY <1>1, LatestDraft
    DEF Draft, DraftStatuses, ReviewStates, ReviewColumnsAgree, EditableDraftStatuses
  <1> HIDE DEF row
  <1> QED
    BY <1>1, <1>2, PatchLatestWrites

LEMMA NextCockpit ==
  ASSUME CockpitIInv, [CockpitNext]_cockpitVars
  PROVE  CockpitIInv'
  <1>1. CASE drafts' = drafts
    BY <1>1 DEF CockpitIInv
  <1>2. CASE CockpitStep
    BY <1>2, UpsertWrites, SubmitWrites, DecisionWrites, DiscardWrites DEF CockpitStep
  <1> QED
    BY <1>1, <1>2 DEF CockpitNext, cockpitVars

-----------------------------------------------------------------------------
(***************************************************************************)
(* The agreement behind a draft.  A save inserts only under an eligible    *)
(* verdict, which a signed or a replaced agreement governs; from then on   *)
(* that row may be canceled or replaced, and never goes back to a draft.   *)
(***************************************************************************)
KeptOrClosed(a) ==
  /\ a \in Rows(agreements')
  /\ agreements'[a].dealRoomId = agreements[a].dealRoomId
  /\ agreements'[a].type = agreements[a].type
  /\ agreements'[a].status \notin Pending

SignedKept == \A a \in Ids : agreements[a].status = "signed" => KeptOrClosed(a)

LEMMA CreateKeepsSigned ==
  ASSUME IInv, NEW a \in Ids, NEW r \in Rooms, NEW b \in Buyers, NEW ty \in Types,
         CreateDraft(a, r, b, ty)
  PROVE  SignedKept
  <1>1. agreements[a] = Absent
    BY NextIdIsFree DEF CreateDraft, Rows
  <1>2. \A c \in Ids : c # a => agreements'[c] = agreements[c]
    BY DEF CreateDraft, IInv, TableInv, Table
  <1> QED
    BY <1>1, <1>2 DEF SignedKept, KeptOrClosed, Absent, Rows, Pending

LEMMA MoveKeepsSigned ==
  ASSUME IInv, NEW a \in Ids,
         SendForSigning(a) \/ RecordSignature(a) \/ CancelAgreement(a)
  PROVE  SignedKept
  <1>1. agreements \in Table
    BY DEF IInv, TableInv
  <1>2. agreements[a].status \in Statuses
    BY DEF SendForSigning, RecordSignature, CancelAgreement, Statuses
  <1>3. agreements[a] \in Row
    BY <1>1, <1>2, RowsOfTable
  <1>4. \A c \in Ids : c # a => agreements'[c] = agreements[c]
    BY <1>1 DEF SendForSigning, RecordSignature, CancelAgreement, Table
  <1>5. agreements[a].status = "signed" =>
          /\ agreements'[a].dealRoomId = agreements[a].dealRoomId
          /\ agreements'[a].type = agreements[a].type
          /\ agreements'[a].status = "canceled"
    BY <1>1, <1>3 DEF SendForSigning, RecordSignature, CancelAgreement, Table, Row
  <1> QED
    BY <1>4, <1>5 DEF SignedKept, KeptOrClosed, Absent, Rows, Pending

LEMMA LinkKeepsSigned ==
  ASSUME NEW t \in Table, NEW p \in Rows(t), NEW s, agreements' = Superseded(t, p, s),
         \A c \in Ids : agreements[c].status = "signed" => t[c] = agreements[c]
  PROVE  SignedKept
  <1>1. /\ agreements'[p].dealRoomId = t[p].dealRoomId
        /\ agreements'[p].type = t[p].type
        /\ agreements'[p].status = "replaced"
        /\ \A c \in Ids : c # p => agreements'[c] = t[c]
    BY SupersededRows
  <1>2. p \in Ids
    BY DEF Rows
  <1> QED
    BY <1>1, <1>2 DEF SignedKept, KeptOrClosed, Absent, Rows, Pending

LEMMA InsertAndLinkKeepsSigned ==
  ASSUME IInv, NEW a \in Ids, IsNextId(a), NEW p \in Rows(agreements),
         NEW r \in Rooms, NEW ty \in Types,
         agreements' = Superseded([agreements EXCEPT ![a] = NewDraft(r, BuyerOf[r], ty)],
                                  p, a)
  PROVE  SignedKept
  <1> DEFINE t == [agreements EXCEPT ![a] = NewDraft(r, BuyerOf[r], ty)]
  <1>1. a \notin Rows(agreements) /\ agreements[a] = Absent /\ p # a /\ p \in Ids
    BY NextIdIsFree DEF Rows
  <1>2. t \in Table
    BY <1>1, InsertKeepsTable DEF IInv, TableInv
  <1>3. t[p] = agreements[p] /\ \A c \in Ids \ {a} : t[c] = agreements[c]
    BY <1>1 DEF IInv, TableInv, Table
  <1>4. p \in Rows(t)
    BY <1>1, <1>3 DEF Rows
  <1>5. \A c \in Ids : agreements[c].status = "signed" => t[c] = agreements[c]
    BY <1>1, <1>3 DEF Absent
  <1>6. agreements' = Superseded(t, p, a)
    OBVIOUS
  <1> HIDE DEF t
  <1> QED
    BY <1>2, <1>4, <1>5, <1>6, LinkKeepsSigned

LEMMA ReplaceKeepsSigned ==
  ASSUME IInv, NEW p \in Ids, NEW a \in Ids, NEW ty \in Types,
         ReplaceAgreement(p, a, ty)
  PROVE  SignedKept
  <1>1. p \in Rows(agreements) /\ agreements[p] \in Row
    BY RowsOfTable DEF ReplaceAgreement, IInv, TableInv, Statuses
  <1>2. /\ agreements[p].dealRoomId \in Rooms
        /\ agreements[p].buyerId = BuyerOf[agreements[p].dealRoomId]
    BY <1>1 DEF IInv, TableInv, OwnedIn, Row
  <1> QED
    BY <1>1, <1>2, InsertAndLinkKeepsSigned DEF ReplaceAgreement

LEMMA UpgradeKeepsSigned ==
  ASSUME IInv, NEW r \in Rooms, NEW a \in Ids, InitiateUpgrade(r, a)
  PROVE  SignedKept
  <1> DEFINE passes == SignedOf(agreements,
                         InRoom(agreements, r) \cap OfBuyer(agreements, BuyerOf[r]),
                         "tour_pass")
  <1>1. First(passes) \in passes
    BY FirstIsMember DEF InitiateUpgrade, SignedOf, InRoom, Rows
  <1>2. First(passes) \in Rows(agreements)
    BY <1>1 DEF SignedOf, InRoom
  <1> QED
    BY <1>2, InsertAndLinkKeepsSigned DEF InitiateUpgrade, Types

LEMMA SupersedeKeepsSigned ==
  ASSUME IInv, NEW p \in Ids, NEW s \in Ids, Supersede(p, s)
  PROVE  SignedKept
  BY LinkKeepsSigned DEF Supersede, IInv, TableInv

LEMMA NextKeepsSigned ==
  ASSUME IInv, Next
  PROVE  SignedKept
  <1>1. ASSUME NEW r \in Rooms, RecalculateEligibility(r)
        PROVE  SignedKept
    BY <1>1 DEF RecalculateEligibility, SignedKept, KeptOrClosed, Absent, Rows, Pending
  <1> QED
    BY <1>1, CreateKeepsSigned, MoveKeepsSigned, ReplaceKeepsSigned,
       UpgradeKeepsSigned, SupersedeKeepsSigned DEF Next

\* An agreement that left the drafting stage stays out of it.
LEMMA CommitmentStays ==
  ASSUME IInv, [Next]_vars, NEW r \in Rooms, NEW a \in InRoom(agreements, r),
         agreements[a].status \notin Pending
  PROVE  a \in InRoom(agreements', r) /\ agreements'[a].type = agreements[a].type
         /\ agreements'[a].status \notin Pending
  <1>1. a \in Ids /\ a \in Rows(agreements) /\ agreements[a].dealRoomId = r
    BY DEF InRoom, Rows
  <1>2. agreements[a].status \in Statuses /\ agreements \in Table
    BY <1>1, RowsOfTable DEF IInv, TableInv
  <1>3. CASE agreements'[a] = agreements[a]
    BY <1>1, <1>3 DEF InRoom, Rows
  <1>4. CASE agreements'[a] # agreements[a]
    <2>1. Next
      BY <1>4 DEF vars
    <2>2. agreements[a].status = "signed"
      BY <1>1, <1>2, <1>4, <2>1, NextChanges DEF ClosedKept, Statuses, Pending
    <2>3. KeptOrClosed(a)
      BY <1>1, <2>1, <2>2, NextKeepsSigned DEF SignedKept
    <2> QED
      BY <1>1, <2>3 DEF KeptOrClosed, InRoom
  <1> QED
    BY <1>3, <1>4

LEMMA DraftsStayUnderAgreement ==
  ASSUME CockpitIInv, IInv, DraftsUnderAgreement, [CockpitNext]_cockpitVars
  PROVE  DraftsUnderAgreement'
  <1> SUFFICES ASSUME NEW r \in Rooms, HasDraft(r)'
               PROVE  \E a \in InRoom(agreements', r) :
                        /\ agreements'[a].type = "full_representation"
                        /\ agreements'[a].status \notin Pending
    BY DEF DraftsUnderAgreement
  <1>1. [Next]_vars
    BY DEF CockpitNext, CockpitStep, cockpitVars, vars
  <1>2. CASE HasDraft(r)
    <2>1. PICK a \in InRoom(agreements, r) : /\ agreements[a].type = "full_representation"
                                            /\ agreements[a].status \notin Pending
      BY <1>2 DEF DraftsUnderAgreement
    <2> QED
      BY <1>1, <2>1, CommitmentStays
  <1>3. CASE ~HasDraft(r)
    <2>1. drafts'[r] # drafts[r]
      BY <1>3 DEF HasDraft
    <2>2. CockpitStep /\ UNCHANGED vars
      BY <2>1 DEF CockpitNext, cockpitVars
    <2>3. PICK q \in Rooms : \/ UpsertDraft(q) \/ SubmitForReview(q) \/ DiscardDraft(q)
                             \/ \E i \in DOMAIN drafts[q] : \E decision \in {"approved", "rejected"} :
                                  RecordBrokerDecision(q, i, decision)
      BY <2>2 DEF CockpitStep
    <2>4. q = r
      BY <2>1, <2>3, UpsertWrites, SubmitWrites, DecisionWrites, DiscardWrites
    <2>5. UpsertDraft(r)
      BY <1>3, <2>3, <2>4, SubmitWrites, DecisionWrites, DiscardWrites
    <2>6. eligibility[r].isEligible
      BY <2>5 DEF UpsertDraft
    <2>7. \E a \in InRoom(agreements, r) : /\ agreements[a].type = "full_representation"
                                          /\ agreements[a].status \in {"signed", "replaced"}
      BY <2>6 DEF IInv, RowsGoverned, Governs
    <2> QED
      BY <2>2, <2>7 DEF vars, Pending
  <1> QED
    BY <1>2, <1>3

\* The agreements of a cockpit behave as Agreements says.
LEMMA CockpitAgreements ==
  ASSUME IInv, [CockpitNext]_cockpitVars
  PROVE  IInv'
  BY NextIInv DEF CockpitNext, CockpitStep, cockpitVars, vars

(***************************************************************************)
(* A room has one active draft, whose two review columns say the same, and *)
(* has it under an agreement that was signed, whatever the buyer, the      *)
(* broker and the agreements do.                                           *)
(***************************************************************************)
THEOREM CockpitIsSound == CockpitSpec => []CockpitSound
  <1>1. CockpitInit => CockpitIInv /\ IInv /\ DraftsUnderAgreement
    BY InitCockpit, InitIInv DEF CockpitInit, DraftsUnderAgreement, HasDraft
  <1>2. CockpitIInv /\ IInv /\ DraftsUnderAgreement /\ [CockpitNext]_cockpitVars
          => (CockpitIInv /\ IInv /\ DraftsUnderAgreement)'
    BY NextCockpit, CockpitAgreements, DraftsStayUnderAgreement
  <1>3. CockpitIInv /\ IInv /\ DraftsUnderAgreement => CockpitSound
    BY DraftsAreSound DEF CockpitSound
  <1> QED
    BY <1>1, <1>2, <1>3, PTL DEF CockpitSpec

-----------------------------------------------------------------------------
LEMMA LatestNext ==
  ASSUME NEW r \in Rooms, drafts'[r] \in [1 .. 1 -> Draft]
  PROVE  /\ DOMAIN drafts'[r] = {1}
         /\ Latest(r)' = drafts'[r][1]
  <1>1. drafts'[r] \in Seq(Draft)
    BY SeqDef
  <1>2. Len(drafts'[r]) = 1
    BY <1>1, LenProperties
  <1> QED
    BY <1>1, <1>2, LenProperties DEF Latest

\* A step that leaves the draft of a room as it is breaks nothing.
LEMMA RestingDraft ==
  ASSUME CockpitIInv, NEW r \in Rooms, drafts'[r] = drafts[r]
  PROVE  TermsFrozen(r) /\ EntersUnderAgreement(r)
  BY DEF TermsFrozen, EntersUnderAgreement, Latest

LEMMA ReviewOfTheSubmission ==
  ASSUME CockpitIInv, IInv, [CockpitNext]_cockpitVars, NEW r \in Rooms
  PROVE  TermsFrozen(r) /\ EntersUnderAgreement(r)
  <1>1. CASE drafts'[r] = drafts[r]
    BY <1>1, RestingDraft
  <1>2. ASSUME NEW q \in Rooms, UpsertDraft(q), drafts'[r] # drafts[r]
        PROVE  TermsFrozen(r) /\ EntersUnderAgreement(r)
    <2>1. q = r /\ drafts'[r] \in [1 .. 1 -> Draft] /\ drafts'[r][1].status = "draft"
      BY <1>2, UpsertWrites
    <2>2. HasDraft(r) => Latest(r).status \in EditableDraftStatuses
      BY <1>2, <2>1 DEF UpsertDraft, UpsertRefused
    <2>3. TermsFrozen(r)
      <3>1. CASE HasDraft(r)
        BY <2>2, <3>1, LatestDraft DEF TermsFrozen, EditableDraftStatuses
      <3>2. CASE ~HasDraft(r)
        BY <3>2 DEF TermsFrozen, HasDraft
      <3> QED
        BY <3>1, <3>2
    <2> QED
      BY <2>1, <2>3, LatestNext DEF EntersUnderAgreement
  <1>3. ASSUME NEW q \in Rooms, SubmitForReview(q), drafts'[r] # drafts[r], UNCHANGED vars
        PROVE  TermsFrozen(r) /\ EntersUnderAgreement(r)
    <2>1. /\ q = r /\ HasDraft(r) /\ drafts'[r] \in [1 .. 1 -> Draft]
          /\ drafts'[r][1].version = Latest(r).version
      BY <1>3, SubmitWrites
    <2>2. Latest(r).status \in {"draft", "rejected"} /\ eligibility[r].isEligible
      BY <1>3, <2>1 DEF SubmitForReview
    <2>3. TermsFrozen(r)
      BY <2>1, <2>2, LatestDraft DEF TermsFrozen
    <2>4. EligibleRowGoverned
      BY DEF IInv, RowsGoverned, Governs, EligibleRowGoverned
    <2> QED
      BY <2>2, <2>3, <2>4 DEF EligibleRowGoverned, EntersUnderAgreement
  <1>4. ASSUME NEW q \in Rooms, NEW i \in DOMAIN drafts[q],
               NEW decision \in {"approved", "rejected"},
               RecordBrokerDecision(q, i, decision), drafts'[r] # drafts[r]
        PROVE  TermsFrozen(r) /\ EntersUnderAgreement(r)
    <2>1. /\ q = r /\ HasDraft(r) /\ drafts'[r] \in [1 .. 1 -> Draft]
          /\ Latest(r).status = "pending_review"
          /\ drafts'[r][1].version = Latest(r).version
      BY <1>4, DecisionWrites
    <2> QED
      BY <2>1, LatestDraft DEF TermsFrozen, EntersUnderAgreement
  <1>5. ASSUME NEW q \in Rooms, DiscardDraft(q), drafts'[r] # drafts[r]
        PROVE  TermsFrozen(r) /\ EntersUnderAgreement(r)
    <2>1. /\ q = r /\ HasDraft(r) /\ drafts'[r] \in [1 .. 1 -> Draft]
          /\ Latest(r).status \in EditableDraftStatuses
          /\ drafts'[r][1].status = "abandoned"
      BY <1>5, DiscardWrites
    <2>2. TermsFrozen(r)
      BY <2>1, LatestDraft DEF TermsFrozen, EditableDraftStatuses
    <2> QED
      BY <2>1, <2>2, LatestNext DEF EntersUnderAgreement
  <1>6. ASSUME CockpitStep, UNCHANGED vars, drafts'[r] # drafts[r]
        PROVE  TermsFrozen(r) /\ EntersUnderAgreement(r)
    BY <1>2, <1>3, <1>4, <1>5, <1>6 DEF CockpitStep
  <1> QED
    BY <1>1, <1>6 DEF CockpitNext, cockpitVars

(***************************************************************************)
(* What the broker reviews was submitted while a full-representation       *)
(* agreement of the room was signed or replaced by hand, and keeps the     *)
(* version the buyer submitted until the broker rejects it.                *)
(***************************************************************************)
THEOREM SubmissionsAreReviewed == CockpitSpec => ReviewIsOfTheSubmission
  <1>1. CockpitInit => CockpitIInv /\ IInv
    BY InitCockpit, InitIInv DEF CockpitInit
  <1>2. CockpitIInv /\ IInv /\ [CockpitNext]_cockpitVars => (CockpitIInv /\ IInv)'
    BY NextCockpit, CockpitAgreements
  <1>3. CockpitIInv /\ IInv /\ [CockpitNext]_cockpitVars
          => [\A r \in Rooms : TermsFrozen(r) /\ EntersUnderAgreement(r)]_cockpitVars
    BY ReviewOfTheSubmission
  <1> QED
    BY <1>1, <1>2, <1>3, PTL DEF CockpitSpec, ReviewIsOfTheSubmission

(***************************************************************************)
(* The agreements' own invariants hold under the cockpit.                  *)
(***************************************************************************)
THEOREM CockpitKeepsAgreements == CockpitSpec => [](TablesSound /\ EligibleRowGoverned)
  <1>1. CockpitInit => IInv
    BY InitIInv DEF CockpitInit
  <1>2. IInv /\ [CockpitNext]_cockpitVars => IInv'
    BY CockpitAgreements
  <1>3. IInv => TablesSound /\ EligibleRowGoverned
    BY DEF IInv, TableInv, Table, TypeOK, LinearChain, AcyclicChains, RoomOwner, TablesSound,
           RowsGoverned, Governs, EligibleRowGoverned
  <1> QED
    BY <1>1, <1>2, <1>3, PTL DEF CockpitSpec

-----------------------------------------------------------------------------
(***************************************************************************)
(* The editor.  EditorTruthful says what a window shows when nothing is    *)
(* under way; that it comes true again rests on what is under way.  The    *)
(* calls of a window are at most one that saves or discards and one that   *)
(* submits, answered in the order they were made.  With one window, what   *)
(* it takes for stored is stored unless a save was carried out whose       *)
(* answer is still on its way - and then the last such save says what is   *)
(* stored, under the version it was answered with.                         *)
(***************************************************************************)
SavingKinds == {"save", "discard"}
StoringKinds == {"save", "save_and_submit"}

StoredVersion == IF HasDraft(EditedRoom) THEN Latest(EditedRoom).version ELSE 0

QueueOk(window) ==
  LET sent == window.sent IN
  /\ window.saving <=> \E i \in DOMAIN sent : sent[i].kind \in SavingKinds
  /\ window.submitting <=> \E i \in DOMAIN sent : sent[i].kind \notin SavingKinds
  /\ \A i, k \in DOMAIN sent :
       /\ (sent[i].kind \in SavingKinds <=> sent[k].kind \in SavingKinds) => i = k
       /\ i < k /\ sent[k].answer # "none" => sent[i].answer # "none"
       /\ sent[i].kind = "discard" => k = i
       /\ sent[i].kind = "submit" => i = 1

SnapshotTrue(data) ==
  /\ data.version <= StoredVersion
  /\ data.version = StoredVersion => data.terms = StoredTerms

CarriedOut(sent, i) == sent[i].kind \in StoringKinds /\ sent[i].answer = "done"

\* What the only window takes for stored, and what its calls will make it take.
TermsFollow(window) ==
  LET sent == window.sent IN
  /\ (\A i \in DOMAIN sent : ~CarriedOut(sent, i)) =>
       window.pristineTerms = StoredTerms /\ window.data.version = StoredVersion
  /\ \A i \in DOMAIN sent :
       /\ (CarriedOut(sent, i) /\ \A k \in DOMAIN sent : k > i => ~CarriedOut(sent, k)) =>
            sent[i].terms = StoredTerms /\ sent[i].version = StoredVersion
       /\ sent[i].kind = "discard" => sent[i].terms = StoredTerms
       /\ sent[i].kind = "submit" /\ sent[i].answer = "none" => sent[i].terms = StoredTerms

OneWindow == \A v, w \in Windows : v = w

EditorIInv ==
  /\ IInv
  /\ CockpitIInv
  /\ DOMAIN draftTerms = Rooms
  /\ EditorTypeOK
  /\ \A w \in Windows : QueueOk(windows[w]) /\ SnapshotTrue(windows[w].data)
  /\ OneWindow => /\ \A w \in Windows : TermsFollow(windows[w])
                  /\ HasDraft(EditedRoom) => shownAt = StoredTerms

LEMMA StoredTypes ==
  ASSUME EditorIInv
  PROVE  /\ EditedRoom \in Rooms
         /\ StoredTerms \in Shown /\ StoredVersion \in 0 .. MaxVersion
         /\ HasDraft(EditedRoom) =>
              /\ StoredTerms = draftTerms[EditedRoom][1]
              /\ DOMAIN draftTerms[EditedRoom] = {1}
              /\ Len(draftTerms[EditedRoom]) = 1
  <1>1. EditedRoom \in Rooms
    BY CockpitEditorAssumption
  <1>2. CASE HasDraft(EditedRoom)
    <2>1. /\ DOMAIN drafts[EditedRoom] = {1} /\ Latest(EditedRoom) \in Draft
      BY <1>1, <1>2, LatestDraft DEF EditorIInv
    <2>2. draftTerms[EditedRoom] \in [1 .. 1 -> Shown]
      <3>1. draftTerms[EditedRoom] \in [DOMAIN drafts[EditedRoom] -> Shown]
        BY <1>1 DEF EditorIInv, EditorTypeOK
      <3>2. DOMAIN drafts[EditedRoom] = 1 .. 1
        BY <2>1
      <3> QED
        BY <3>1, <3>2
    <2>3. draftTerms[EditedRoom] \in Seq(Shown)
      BY <2>2, SeqDef
    <2>4. Len(draftTerms[EditedRoom]) = 1
      BY <2>2, <2>3, LenProperties
    <2> QED
      BY <1>1, <1>2, <2>1, <2>2, <2>4 DEF StoredTerms, StoredVersion, Last, Draft
  <1>3. CASE ~HasDraft(EditedRoom)
    BY <1>1, <1>3, OfferCockpitAssumption DEF StoredTerms, StoredVersion, Shown
  <1> QED
    BY <1>2, <1>3

LEMMA OneWindowIsOne == Cardinality(Windows) = 1 => OneWindow
  BY FS_Singleton, CockpitEditorAssumption DEF OneWindow

LEMMA EditorIInvIsTruthful == EditorIInv => EditorTruthful
  <1> SUFFICES ASSUME EditorIInv, OneWindow PROVE CleanMeansStored /\ ReviewedAsShown
    BY OneWindowIsOne DEF EditorTruthful, EditorIInv
  <1>1. \A w \in Windows : windows[w].sent = <<>> => windows[w].pristineTerms = StoredTerms
    BY DEF EditorIInv, TermsFollow
  <1> QED
    BY <1>1 DEF EditorIInv, CleanMeansStored, ReviewedAsShown, Dirty

LEMMA InitEditor == EditorInit => EditorIInv
  <1> SUFFICES ASSUME EditorInit PROVE EditorIInv
    OBVIOUS
  <1>1. IInv /\ CockpitIInv
    BY InitIInv, InitCockpit DEF EditorInit, CockpitInit
  <1>2. \A r \in Rooms : drafts[r] = <<>> /\ draftTerms[r] = <<>>
    BY DEF EditorInit, CockpitInit
  <1>3. EditedRoom \in Rooms /\ ~HasDraft(EditedRoom)
    BY <1>2, CockpitEditorAssumption DEF HasDraft
  <1>4. GetCockpit \in Snapshot /\ SnapshotTrue(GetCockpit)
        /\ GetCockpit.version = StoredVersion /\ StoredTerms = Blank
    <2>1. eligibility[EditedRoom].isEligible \in BOOLEAN
      BY <1>3 DEF EditorInit, CockpitInit, Init, NoVerdict
    <2> QED
      BY <1>3, <2>1, OfferCockpitAssumption
      DEF GetCockpit, Snapshot, SnapshotTrue, StoredVersion, StoredTerms, DraftStatuses, Shown
  <1>5. \A w \in Windows :
          /\ windows[w] = [terms |-> Blank, pristineTerms |-> Blank, data |-> GetCockpit,
                           saving |-> FALSE, submitting |-> FALSE, sent |-> <<>>]
          /\ windows[w] \in Window
    BY <1>4 DEF EditorInit, Window, Shown
  <1>6. EditorTypeOK
    <2>1. CockpitTypeOK
      BY <1>1, DraftsAreSound
    <2>2. \A r \in Rooms : draftTerms[r] \in [DOMAIN drafts[r] -> Shown]
      <3>1. DOMAIN <<>> = {} /\ <<>> \in [{} -> Shown]
        OBVIOUS
      <3> QED
        BY <1>2, <3>1
    <2>3. windows \in [Windows -> Window]
      BY <1>5 DEF EditorInit
    <2> QED
      BY <2>1, <2>2, <2>3 DEF EditorTypeOK
  <1>7. \A w \in Windows : /\ QueueOk(windows[w]) /\ SnapshotTrue(windows[w].data)
                           /\ TermsFollow(windows[w])
    BY <1>4, <1>5 DEF QueueOk, TermsFollow
  <1> QED
    BY <1>1, <1>3, <1>6, <1>7 DEF EditorIInv, EditorInit

-----------------------------------------------------------------------------
(* Steps of a window that leave the server alone. *)

LEMMA WindowMoves ==
  ASSUME EditorIInv, NEW w \in Windows, NEW window \in Window, Update(w, window),
         ServerRests, shownAt' = shownAt,
         QueueOk(window), SnapshotTrue(window.data), OneWindow => TermsFollow(window)
  PROVE  EditorIInv'
  <1>1. /\ drafts' = drafts /\ draftTerms' = draftTerms
        /\ StoredTerms' = StoredTerms /\ StoredVersion' = StoredVersion
        /\ HasDraft(EditedRoom)' = HasDraft(EditedRoom)
    BY DEF ServerRests, cockpitVars, StoredTerms, StoredVersion, HasDraft, Latest
  <1>2. /\ windows' \in [Windows -> Window] /\ windows'[w] = window
        /\ \A v \in Windows \ {w} : windows'[v] = windows[v]
    BY DEF EditorIInv, EditorTypeOK, Update
  <1>3. IInv' /\ CockpitIInv'
    BY <1>1, NextIInv DEF EditorIInv, CockpitIInv, ServerRests, cockpitVars, vars
  <1>4. EditorTypeOK'
    BY <1>1, <1>2 DEF EditorIInv, EditorTypeOK, CockpitTypeOK
  <1>5. \A v \in Windows : (QueueOk(windows[v]) /\ SnapshotTrue(windows[v].data))'
    <2> SUFFICES ASSUME NEW v \in Windows
                 PROVE  (QueueOk(windows[v]) /\ SnapshotTrue(windows[v].data))'
      OBVIOUS
    <2>1. CASE v = w
      BY <1>1, <1>2, <2>1 DEF QueueOk, SnapshotTrue
    <2>2. CASE v # w
      BY <1>1, <1>2, <2>2 DEF EditorIInv, QueueOk, SnapshotTrue
    <2> QED
      BY <2>1, <2>2
  <1>6. ASSUME OneWindow PROVE \A v \in Windows : TermsFollow(windows[v])'
    BY <1>1, <1>2, <1>6 DEF OneWindow, TermsFollow, CarriedOut
  <1>7. DOMAIN draftTerms' = Rooms /\ (OneWindow => (HasDraft(EditedRoom) => shownAt = StoredTerms)')
    BY <1>1 DEF EditorIInv
  <1> QED
    BY <1>3, <1>4, <1>5, <1>6, <1>7 DEF EditorIInv, OneWindow

LEMMA WindowFacts ==
  ASSUME EditorIInv, NEW w \in Windows
  PROVE  /\ windows[w] \in Window /\ windows[w].sent \in Seq(Request)
         /\ QueueOk(windows[w]) /\ SnapshotTrue(windows[w].data)
         /\ OneWindow => TermsFollow(windows[w])
  BY DEF EditorIInv, EditorTypeOK, Window

LEMMA SetTermsKeepsEditor ==
  ASSUME EditorIInv, NEW w \in Windows, NEW t \in Terms, SetTerms(w, t)
  PROVE  EditorIInv'
  <1> DEFINE window == [windows[w] EXCEPT !.terms = t]
  <1>1. /\ window \in Window /\ window.data = windows[w].data /\ window.sent = windows[w].sent
        /\ window.saving = windows[w].saving /\ window.submitting = windows[w].submitting
        /\ window.pristineTerms = windows[w].pristineTerms
    BY WindowFacts DEF Window, Shown
  <1>2. Update(w, window) /\ ServerRests /\ shownAt' = shownAt
    BY DEF SetTerms
  <1> HIDE DEF window
  <1>3. QueueOk(window) /\ SnapshotTrue(window.data) /\ (OneWindow => TermsFollow(window))
    BY <1>1, WindowFacts DEF QueueOk, TermsFollow
  <1> QED
    BY <1>1, <1>2, <1>3, WindowMoves

LEMMA ResetKeepsEditor ==
  ASSUME EditorIInv, NEW w \in Windows, Reset(w)
  PROVE  EditorIInv'
  <1> DEFINE window == [windows[w] EXCEPT !.terms = windows[w].pristineTerms]
  <1>1. /\ window \in Window /\ window.data = windows[w].data /\ window.sent = windows[w].sent
        /\ window.saving = windows[w].saving /\ window.submitting = windows[w].submitting
        /\ window.pristineTerms = windows[w].pristineTerms
    BY WindowFacts DEF Window
  <1>2. Update(w, window) /\ ServerRests /\ shownAt' = shownAt
    BY DEF Reset
  <1> HIDE DEF window
  <1>3. QueueOk(window) /\ SnapshotTrue(window.data) /\ (OneWindow => TermsFollow(window))
    BY <1>1, WindowFacts DEF QueueOk, TermsFollow
  <1> QED
    BY <1>1, <1>2, <1>3, WindowMoves

\* A window that has sent one more call, and is the same otherwise.
SentOneMore(window, next, kind, terms) ==
  /\ next \in Window /\ next.data = window.data
  /\ next.terms = window.terms /\ next.pristineTerms = window.pristineTerms
  /\ next.saving = window.saving /\ next.submitting = window.submitting
  /\ Len(window.sent) \in Nat /\ DOMAIN window.sent = 1 .. Len(window.sent)
  /\ DOMAIN next.sent = 1 .. Len(window.sent) + 1
  /\ \A i \in 1 .. Len(window.sent) : next.sent[i] = window.sent[i]
  /\ next.sent[Len(window.sent) + 1].kind = kind
  /\ next.sent[Len(window.sent) + 1].terms = terms
  /\ next.sent[Len(window.sent) + 1].answer = "none"

LEMMA SendWrites ==
  ASSUME NEW window \in Window, NEW kind \in RequestKinds, NEW terms \in Shown
  PROVE  SentOneMore(window, Send(window, kind, terms), kind, terms)
  <1> DEFINE request == [kind |-> kind, terms |-> terms, answer |-> "none", version |-> 0]
             next == Send(window, kind, terms)
  <1>1. request \in Request
    BY OfferCockpitAssumption DEF Request
  <1>2. window.sent \in Seq(Request)
    BY DEF Window
  <1>3. next = [window EXCEPT !.sent = Append(window.sent, request)]
    BY DEF Send
  <1>4. /\ next \in Window /\ next.data = window.data /\ next.sent = Append(window.sent, request)
        /\ next.terms = window.terms /\ next.pristineTerms = window.pristineTerms
        /\ next.saving = window.saving /\ next.submitting = window.submitting
    <2>1. Append(window.sent, request) \in Seq(Request)
      BY <1>1, <1>2, AppendProperties
    <2> QED
      BY <1>3, <2>1 DEF Window
  <1> HIDE DEF next
  <1> QED
    BY <1>1, <1>2, <1>4, AppendProperties, LenProperties DEF next, SentOneMore

LEMMA PressSaveKeepsEditor ==
  ASSUME EditorIInv, NEW w \in Windows, PressSave(w)
  PROVE  EditorIInv'
  <1> DEFINE old == windows[w]
             pressed == [old EXCEPT !.saving = TRUE]
             next == Send(pressed, "save", old.terms)
  <1>1. /\ pressed \in Window /\ pressed.data = old.data /\ pressed.sent = old.sent
        /\ pressed.saving /\ pressed.submitting = old.submitting
        /\ pressed.pristineTerms = old.pristineTerms /\ old.terms \in Shown
    BY WindowFacts DEF Window
  <1>2. ~old.saving /\ Update(w, next) /\ ServerRests /\ shownAt' = shownAt
    BY DEF PressSave
  <1>3. SentOneMore(pressed, next, "save", old.terms)
    BY <1>1, SendWrites DEF RequestKinds
  <1> HIDE DEF next, pressed, old
  <1>4. QueueOk(old) /\ (OneWindow => TermsFollow(old)) /\ SnapshotTrue(next.data)
    BY <1>1, <1>3, WindowFacts DEF old, SentOneMore
  <1> DEFINE n == Len(old.sent)
  <1>5. /\ next.data = old.data /\ next.saving /\ next.submitting = old.submitting
        /\ next.pristineTerms = old.pristineTerms
        /\ n \in Nat /\ DOMAIN old.sent = 1 .. n /\ DOMAIN next.sent = 1 .. n + 1
        /\ \A i \in 1 .. n : next.sent[i] = old.sent[i]
        /\ next.sent[n + 1].kind = "save" /\ next.sent[n + 1].answer = "none"
    BY <1>1, <1>3 DEF SentOneMore
  <1> HIDE DEF n
  <1>6. QueueOk(next)
    BY <1>2, <1>4, <1>5, SMTT(30) DEF QueueOk, SavingKinds
  <1>7. ASSUME TermsFollow(old) PROVE TermsFollow(next)
    <2>1. \A i \in 1 .. n : CarriedOut(next.sent, i) = CarriedOut(old.sent, i)
      BY <1>5 DEF CarriedOut
    <2>2. ~CarriedOut(next.sent, n + 1)
      BY <1>5 DEF CarriedOut
    <2>3. 1 .. n \subseteq 1 .. n + 1
      BY <1>5
    <2>4. ASSUME NEW i \in 1 .. n + 1,
                 CarriedOut(next.sent, i), \A k \in 1 .. n + 1 : k > i => ~CarriedOut(next.sent, k)
          PROVE  next.sent[i].terms = StoredTerms /\ next.sent[i].version = StoredVersion
      <3>1. i \in 1 .. n
        BY <1>5, <2>2, <2>4
      <3>2. CarriedOut(old.sent, i) /\ \A k \in 1 .. n : k > i => ~CarriedOut(old.sent, k)
        BY <2>1, <2>3, <2>4, <3>1
      <3> QED
        BY <1>5, <1>7, <3>1, <3>2 DEF TermsFollow
    <2>5. ASSUME NEW i \in 1 .. n + 1
          PROVE  /\ next.sent[i].kind = "discard" => next.sent[i].terms = StoredTerms
                 /\ next.sent[i].kind = "submit" /\ next.sent[i].answer = "none" =>
                      next.sent[i].terms = StoredTerms
      <3>1. CASE i \in 1 .. n
        BY <1>5, <1>7, <3>1 DEF TermsFollow
      <3>2. CASE i = n + 1
        BY <1>5, <3>2
      <3> QED
        BY <1>5, <3>1, <3>2
    <2>6. ASSUME \A i \in 1 .. n + 1 : ~CarriedOut(next.sent, i)
          PROVE  next.pristineTerms = StoredTerms /\ next.data.version = StoredVersion
      <3>1. \A i \in 1 .. n : ~CarriedOut(old.sent, i)
        BY <2>1, <2>3, <2>6
      <3> QED
        BY <1>5, <1>7, <3>1 DEF TermsFollow
    <2> QED
      BY <1>5, <2>4, <2>5, <2>6 DEF TermsFollow
  <1> QED
    BY <1>2, <1>3, <1>4, <1>6, <1>7, WindowMoves DEF SentOneMore, old

LEMMA NothingUnderWay ==
  ASSUME NEW window \in Window, QueueOk(window), ~window.saving, ~window.submitting
  PROVE  window.sent = <<>> /\ Len(window.sent) = 0 /\ DOMAIN window.sent = {}
  <1>1. window.sent \in Seq(Request)
    BY DEF Window
  <1>2. DOMAIN window.sent = {}
    <2> SUFFICES ASSUME NEW i \in DOMAIN window.sent PROVE FALSE
      OBVIOUS
    <2> QED
      BY DEF QueueOk
  <1>3. Len(window.sent) = 0
    <2>1. Len(window.sent) \in Nat /\ DOMAIN window.sent = 1 .. Len(window.sent)
      BY <1>1, LenProperties
    <2>2. Len(window.sent) # 0 => 1 \in DOMAIN window.sent
      BY <2>1
    <2> QED
      BY <1>2, <2>2
  <1> QED
    BY <1>1, <1>2, <1>3, EmptySeq

LEMMA PressSubmitKeepsEditor ==
  ASSUME EditorIInv, NEW w \in Windows, PressSubmit(w)
  PROVE  EditorIInv'
  <1> DEFINE old == windows[w]
             pressed == [old EXCEPT !.submitting = TRUE]
             kind == IF Dirty(w) THEN "save_and_submit" ELSE "submit"
             next == Send(pressed, kind, old.terms)
  <1>1. /\ pressed \in Window /\ pressed.data = old.data /\ pressed.sent = old.sent
        /\ pressed.submitting /\ pressed.saving = old.saving /\ pressed.terms = old.terms
        /\ pressed.pristineTerms = old.pristineTerms /\ old.terms \in Shown
    BY WindowFacts DEF Window
  <1>2. ~old.saving /\ ~old.submitting /\ Update(w, next) /\ ServerRests /\ shownAt' = shownAt
    BY DEF PressSubmit
  <1>3. kind \in {"save_and_submit", "submit"} /\ (kind = "submit" => old.terms = old.pristineTerms)
    BY DEF Dirty
  <1> HIDE DEF kind
  <1>4. SentOneMore(pressed, next, kind, old.terms)
    BY <1>1, <1>3, SendWrites DEF RequestKinds
  <1> HIDE DEF next, pressed, old
  <1>5. /\ old \in Window /\ QueueOk(old) /\ (OneWindow => TermsFollow(old))
        /\ SnapshotTrue(next.data)
    BY <1>1, <1>4, WindowFacts DEF old, SentOneMore
  <1>6. Len(old.sent) = 0 /\ DOMAIN old.sent = {}
    BY <1>2, <1>5, NothingUnderWay
  <1>7. /\ next.data = old.data /\ ~next.saving /\ next.submitting
        /\ next.pristineTerms = old.pristineTerms /\ DOMAIN next.sent = {1}
        /\ next.sent[1].kind = kind /\ next.sent[1].answer = "none"
        /\ next.sent[1].terms = old.terms
    BY <1>1, <1>2, <1>4, <1>6 DEF SentOneMore
  <1>8. QueueOk(next)
    BY <1>3, <1>7 DEF QueueOk, SavingKinds
  <1>9. ASSUME TermsFollow(old) PROVE TermsFollow(next)
    BY <1>3, <1>6, <1>7, <1>9 DEF TermsFollow, CarriedOut
  <1> QED
    BY <1>2, <1>4, <1>5, <1>8, <1>9, WindowMoves DEF SentOneMore, old

LEMMA PressDiscardKeepsEditor ==
  ASSUME EditorIInv, NEW w \in Windows, PressDiscard(w)
  PROVE  EditorIInv'
  <1> DEFINE old == windows[w]
             pressed == [old EXCEPT !.saving = TRUE]
             next == Send(pressed, "discard", old.data.terms)
  <1>1. /\ pressed \in Window /\ pressed.data = old.data /\ pressed.sent = old.sent
        /\ pressed.saving /\ pressed.submitting = old.submitting
        /\ pressed.pristineTerms = old.pristineTerms /\ old.data.terms \in Shown
    BY WindowFacts DEF Window, Snapshot
  <1>2. ~old.saving /\ ~old.submitting /\ Update(w, next) /\ ServerRests /\ shownAt' = shownAt
    BY DEF PressDiscard
  <1>3. SentOneMore(pressed, next, "discard", old.data.terms)
    BY <1>1, SendWrites DEF RequestKinds
  <1> HIDE DEF next, pressed, old
  <1>4. /\ old \in Window /\ QueueOk(old) /\ (OneWindow => TermsFollow(old))
        /\ SnapshotTrue(old.data) /\ next.data = old.data
    BY <1>1, <1>3, WindowFacts DEF old, SentOneMore
  <1>5. Len(old.sent) = 0 /\ DOMAIN old.sent = {}
    BY <1>2, <1>4, NothingUnderWay
  <1>6. /\ next.saving /\ ~next.submitting
        /\ next.pristineTerms = old.pristineTerms /\ DOMAIN next.sent = {1}
        /\ next.sent[1].kind = "discard" /\ next.sent[1].answer = "none"
        /\ next.sent[1].terms = old.data.terms
    BY <1>1, <1>2, <1>3, <1>5 DEF SentOneMore
  <1>7. QueueOk(next)
    BY <1>6 DEF QueueOk, SavingKinds
  <1>8. ASSUME TermsFollow(old) PROVE TermsFollow(next)
    <2>1. old.pristineTerms = StoredTerms /\ old.data.version = StoredVersion
      BY <1>5, <1>8 DEF TermsFollow
    <2>2. old.data.terms = StoredTerms
      BY <1>4, <2>1 DEF SnapshotTrue
    <2> QED
      BY <1>4, <1>6, <2>1, <2>2 DEF TermsFollow, CarriedOut, StoringKinds
  <1> QED
    BY <1>2, <1>3, <1>4, <1>7, <1>8, WindowMoves DEF SentOneMore, old

LEMMA GetCockpitTrue ==
  ASSUME EditorIInv
  PROVE  /\ GetCockpit \in Snapshot /\ SnapshotTrue(GetCockpit)
         /\ GetCockpit.version = StoredVersion /\ GetCockpit.terms = StoredTerms
  <1>1. eligibility[EditedRoom].isEligible \in BOOLEAN
    <2>1. eligibility[EditedRoom] \in Verdict \cup {NoVerdict}
      BY StoredTypes DEF EditorIInv, IInv, TypeOK
    <2>2. CASE eligibility[EditedRoom] \in Verdict
      BY <2>2 DEF Verdict
    <2>3. CASE eligibility[EditedRoom] = NoVerdict
      BY <2>3 DEF NoVerdict
    <2> QED
      BY <2>1, <2>2, <2>3
  <1>2. HasDraft(EditedRoom) => Latest(EditedRoom) \in Draft
    BY StoredTypes, LatestDraft DEF EditorIInv
  <1> QED
    BY <1>1, <1>2, StoredTypes
    DEF GetCockpit, Snapshot, SnapshotTrue, StoredVersion, Draft, DraftStatuses

LEMMA DeliverKeepsEditor ==
  ASSUME EditorIInv, NEW w \in Windows, Deliver(w)
  PROVE  EditorIInv'
  <1> DEFINE old == windows[w]
             data == GetCockpit
             next == Rehydrated(old, data)
  <1>1. Update(w, next) /\ ServerRests /\ shownAt' = shownAt
    BY DEF Deliver
  <1>2. /\ data \in Snapshot /\ SnapshotTrue(data)
        /\ data.version = StoredVersion /\ data.terms = StoredTerms
    BY GetCockpitTrue
  <1>3. /\ old \in Window /\ QueueOk(old) /\ (OneWindow => TermsFollow(old))
    BY WindowFacts
  <1> HIDE DEF data, old
  <1>4. /\ next \in Window /\ next.data = data /\ next.sent = old.sent
        /\ next.saving = old.saving /\ next.submitting = old.submitting
        /\ next.pristineTerms \in {old.pristineTerms, data.terms}
    BY <1>2, <1>3 DEF Rehydrated, Window, Snapshot
  <1> HIDE DEF next
  <1>5. QueueOk(next)
    BY <1>3, <1>4 DEF QueueOk
  <1>6. ASSUME TermsFollow(old) PROVE TermsFollow(next)
    BY <1>2, <1>4, <1>6 DEF TermsFollow
  <1> QED
    BY <1>1, <1>2, <1>3, <1>4, <1>5, <1>6, WindowMoves DEF old

\* A window whose first call was taken off the queue, and which may have sent
\* the submission of what was saved.
Dequeued(old, next) ==
  LET n == Len(old.sent)
      m == Len(next.sent)
  IN /\ next.data = old.data
     /\ n \in Nat /\ n >= 1 /\ DOMAIN old.sent = 1 .. n
     /\ m \in Nat /\ (m = n - 1 \/ m = n) /\ DOMAIN next.sent = 1 .. m
     /\ \A i \in 1 .. (n - 1) : next.sent[i] = old.sent[i + 1]
     /\ \A i \in DOMAIN next.sent : i >= n => /\ next.sent[i].kind = "submit_saved"
                                               /\ next.sent[i].answer = "none"

\* What the queues of before and after have to do with each other.
LEMMA DequeuedShifts ==
  ASSUME NEW old \in Window, NEW next \in Window, Dequeued(old, next)
  PROVE  /\ 1 \in DOMAIN old.sent
         /\ \A k \in DOMAIN old.sent :
              k # 1 => k - 1 \in DOMAIN next.sent /\ next.sent[k - 1] = old.sent[k]
         /\ \A i \in DOMAIN next.sent :
              /\ i \in Nat
              /\ i < Len(old.sent) => i + 1 \in DOMAIN old.sent /\ next.sent[i] = old.sent[i + 1]
              /\ i >= Len(old.sent) => i = Len(old.sent)
  <1> DEFINE n == Len(old.sent)
             m == Len(next.sent)
  <1>1. /\ n \in Nat /\ n >= 1 /\ DOMAIN old.sent = 1 .. n
        /\ m \in Nat /\ (m = n - 1 \/ m = n) /\ DOMAIN next.sent = 1 .. m
        /\ \A i \in 1 .. (n - 1) : next.sent[i] = old.sent[i + 1]
    BY DEF Dequeued
  <1> HIDE DEF n, m
  <1>2. ASSUME NEW k \in DOMAIN old.sent, k # 1
        PROVE  k - 1 \in DOMAIN next.sent /\ next.sent[k - 1] = old.sent[k]
    <2>1. k - 1 \in 1 .. (n - 1) /\ k - 1 \in 1 .. m /\ (k - 1) + 1 = k
      BY <1>1, <1>2
    <2> QED
      BY <1>1, <2>1
  <1>3. ASSUME NEW i \in DOMAIN next.sent
        PROVE  /\ i \in Nat
               /\ i < n => i + 1 \in DOMAIN old.sent /\ next.sent[i] = old.sent[i + 1]
               /\ i >= n => i = n
    <2>1. i \in 1 .. m /\ i \in Nat
      BY <1>1
    <2>2. i < n => i \in 1 .. (n - 1) /\ i + 1 \in 1 .. n
      BY <1>1, <2>1
    <2> QED
      BY <1>1, <2>1, <2>2
  <1> QED
    BY <1>1, <1>2, <1>3 DEF n

LEMMA TailQueue ==
  ASSUME NEW old \in Window, NEW next \in Window, Dequeued(old, next), QueueOk(old),
         \/ /\ Len(next.sent) = Len(old.sent) - 1
            /\ old.sent[1].kind \in SavingKinds
            /\ ~next.saving /\ next.submitting = old.submitting
         \/ /\ Len(next.sent) = Len(old.sent) - 1
            /\ old.sent[1].kind \notin SavingKinds
            /\ next.saving = old.saving /\ ~next.submitting
         \/ /\ Len(next.sent) = Len(old.sent)
            /\ old.sent[1].kind = "save_and_submit"
            /\ next.saving = old.saving /\ next.submitting = old.submitting
  PROVE  QueueOk(next)
  <1> DEFINE n == Len(old.sent)
             m == Len(next.sent)
  <1>1. /\ n \in Nat /\ n >= 1 /\ DOMAIN old.sent = 1 .. n
        /\ m \in Nat /\ (m = n - 1 \/ m = n) /\ DOMAIN next.sent = 1 .. m
        /\ \A i \in DOMAIN next.sent : i >= n => /\ next.sent[i].kind = "submit_saved"
                                                /\ next.sent[i].answer = "none"
    BY DEF Dequeued
  <1>2. /\ 1 \in DOMAIN old.sent
        /\ \A k \in DOMAIN old.sent :
             k # 1 => k - 1 \in DOMAIN next.sent /\ next.sent[k - 1] = old.sent[k]
        /\ \A i \in DOMAIN next.sent :
             /\ i \in Nat
             /\ i < n => i + 1 \in DOMAIN old.sent /\ next.sent[i] = old.sent[i + 1]
             /\ i >= n => i = n
    BY DequeuedShifts
  <1>3. \/ /\ m = n - 1
           /\ old.sent[1].kind \in SavingKinds
           /\ ~next.saving /\ next.submitting = old.submitting
        \/ /\ m = n - 1
           /\ old.sent[1].kind \notin SavingKinds
           /\ next.saving = old.saving /\ ~next.submitting
        \/ /\ m = n
           /\ old.sent[1].kind = "save_and_submit"
           /\ next.saving = old.saving /\ next.submitting = old.submitting
    OBVIOUS
  <1> HIDE DEF n, m
  <1>4. \A i \in DOMAIN next.sent : i < n => /\ next.sent[i].kind # "discard"
                                            /\ next.sent[i].kind # "submit"
                                            /\ (next.sent[i].kind \in SavingKinds <=>
                                                   old.sent[1].kind \notin SavingKinds)
    <2> SUFFICES ASSUME NEW i \in DOMAIN next.sent, i < n
                 PROVE  /\ next.sent[i].kind # "discard" /\ next.sent[i].kind # "submit"
                        /\ (next.sent[i].kind \in SavingKinds <=>
                               old.sent[1].kind \notin SavingKinds)
      OBVIOUS
    <2>1. i + 1 \in DOMAIN old.sent /\ i + 1 # 1 /\ next.sent[i] = old.sent[i + 1]
      BY <1>1, <1>2
    <2> QED
      BY <1>2, <2>1 DEF QueueOk
  <1>5. \A i, k \in DOMAIN next.sent :
          i < k /\ next.sent[k].answer # "none" => next.sent[i].answer # "none"
    <2> SUFFICES ASSUME NEW i \in DOMAIN next.sent, NEW k \in DOMAIN next.sent, i < k,
                        next.sent[k].answer # "none"
                 PROVE  next.sent[i].answer # "none"
      OBVIOUS
    <2>1. k < n /\ i < n
      BY <1>1, <1>2
    <2>2. /\ i + 1 \in DOMAIN old.sent /\ next.sent[i] = old.sent[i + 1]
          /\ k + 1 \in DOMAIN old.sent /\ next.sent[k] = old.sent[k + 1] /\ i + 1 < k + 1
      BY <1>2, <2>1
    <2> QED
      BY <2>2 DEF QueueOk
  <1>6. \A i, k \in DOMAIN next.sent :
          (next.sent[i].kind \in SavingKinds <=> next.sent[k].kind \in SavingKinds) => i = k
    <2> SUFFICES ASSUME NEW i \in DOMAIN next.sent, NEW k \in DOMAIN next.sent,
                        next.sent[i].kind \in SavingKinds <=> next.sent[k].kind \in SavingKinds
                 PROVE  i = k
      OBVIOUS
    <2>1. CASE i < n /\ k < n
      <3>1. /\ i + 1 \in DOMAIN old.sent /\ next.sent[i] = old.sent[i + 1]
            /\ k + 1 \in DOMAIN old.sent /\ next.sent[k] = old.sent[k + 1]
            /\ (i + 1 = k + 1 => i = k)
        BY <1>2, <2>1
      <3> QED
        BY <3>1 DEF QueueOk
    <2>2. CASE i >= n /\ k >= n
      BY <1>2, <2>2
    <2>3. CASE i < n /\ k >= n
      <3>1. old.sent[1].kind = "save_and_submit"
        BY <1>1, <1>3, <2>3
      <3> QED
        BY <1>1, <1>4, <2>3, <3>1 DEF SavingKinds
    <2>4. CASE i >= n /\ k < n
      <3>1. old.sent[1].kind = "save_and_submit"
        BY <1>1, <1>3, <2>4
      <3> QED
        BY <1>1, <1>4, <2>4, <3>1 DEF SavingKinds
    <2> QED
      BY <1>1, <1>2, <2>1, <2>2, <2>3, <2>4
  <1>7. \A i \in DOMAIN next.sent : next.sent[i].kind # "discard" /\ next.sent[i].kind # "submit"
    BY <1>1, <1>2, <1>4
  <1>8. next.saving <=> \E i \in DOMAIN next.sent : next.sent[i].kind \in SavingKinds
    <2>1. CASE old.sent[1].kind \in SavingKinds
      <3>1. ~next.saving /\ \A i \in DOMAIN next.sent : i < n
        BY <1>1, <1>3, <2>1 DEF SavingKinds
      <3> QED
        BY <1>4, <2>1, <3>1
    <2>2. CASE old.sent[1].kind \notin SavingKinds
      <3>1. next.saving = old.saving
        BY <1>3, <2>2
      <3>2. old.saving <=> \E k \in DOMAIN old.sent : k # 1 /\ old.sent[k].kind \in SavingKinds
        BY <2>2 DEF QueueOk
      <3>3. (\E k \in DOMAIN old.sent : k # 1 /\ old.sent[k].kind \in SavingKinds)
            => \E i \in DOMAIN next.sent : next.sent[i].kind \in SavingKinds
        BY <1>2
      <3>4. (\E i \in DOMAIN next.sent : next.sent[i].kind \in SavingKinds)
            => \E k \in DOMAIN old.sent : k # 1 /\ old.sent[k].kind \in SavingKinds
        <4> SUFFICES ASSUME NEW i \in DOMAIN next.sent, next.sent[i].kind \in SavingKinds
                     PROVE  \E k \in DOMAIN old.sent : k # 1 /\ old.sent[k].kind \in SavingKinds
          OBVIOUS
        <4>1. i < n /\ i + 1 # 1
          BY <1>1, <1>2 DEF SavingKinds
        <4> QED
          BY <1>2, <4>1
      <3> QED
        BY <3>1, <3>2, <3>3, <3>4
    <2> QED
      BY <2>1, <2>2
  <1>9. next.submitting <=> \E i \in DOMAIN next.sent : next.sent[i].kind \notin SavingKinds
    <2>1. CASE m = n
      <3>1. next.submitting = old.submitting /\ old.sent[1].kind \notin SavingKinds
        BY <1>1, <1>3, <2>1 DEF SavingKinds
      <3>2. n \in DOMAIN next.sent /\ next.sent[n].kind \notin SavingKinds
        BY <1>1, <2>1 DEF SavingKinds
      <3> QED
        BY <1>2, <3>1, <3>2 DEF QueueOk
    <2>2. CASE m = n - 1 /\ old.sent[1].kind \notin SavingKinds
      <3>1. ~next.submitting /\ \A i \in DOMAIN next.sent : i < n
        BY <1>1, <1>3, <2>2
      <3> QED
        BY <1>4, <2>2, <3>1
    <2>3. CASE m = n - 1 /\ old.sent[1].kind \in SavingKinds
      <3>1. next.submitting = old.submitting /\ \A i \in DOMAIN next.sent : i < n
        BY <1>1, <1>3, <2>3
      <3>2. old.submitting <=> \E k \in DOMAIN old.sent : k # 1 /\ old.sent[k].kind \notin SavingKinds
        BY <2>3 DEF QueueOk
      <3> QED
        BY <1>2, <1>4, <2>3, <3>1, <3>2
    <2> QED
      BY <1>3, <2>1, <2>2, <2>3
  <1> QED
    BY <1>5, <1>6, <1>7, <1>8, <1>9 DEF QueueOk

LEMMA TailFollows ==
  ASSUME NEW old \in Window, NEW next \in Window, Dequeued(old, next), QueueOk(old),
         SnapshotTrue(old.data), TermsFollow(old), StoredVersion \in Nat,
         old.sent[1].answer # "none", old.data.version >= old.sent[1].version,
         IF CarriedOut(old.sent, 1) THEN next.pristineTerms = old.sent[1].terms
                                    ELSE \/ next.pristineTerms = old.pristineTerms
                                         \/ next.pristineTerms = StoredTerms
  PROVE  TermsFollow(next)
  <1> DEFINE n == Len(old.sent)
             m == Len(next.sent)
  <1>1. /\ next.data = old.data
        /\ n \in Nat /\ n >= 1 /\ DOMAIN old.sent = 1 .. n
        /\ m \in Nat /\ (m = n - 1 \/ m = n) /\ DOMAIN next.sent = 1 .. m
        /\ \A i \in 1 .. (n - 1) : next.sent[i] = old.sent[i + 1]
        /\ \A i \in DOMAIN next.sent : i >= n => /\ next.sent[i].kind = "submit_saved"
                                               /\ next.sent[i].answer = "none"
    BY DEF Dequeued
  <1>2. old.data.version \in Nat /\ old.sent[1].version \in Nat
    <2>1. old.sent \in Seq(Request) /\ 1 \in DOMAIN old.sent
      BY <1>1 DEF Window
    <2>2. old.sent[1] \in Request
      BY <2>1
    <2> QED
      BY <2>2, OfferCockpitAssumption DEF Window, Snapshot, Request
  <1> HIDE DEF n, m
  <1>3. \A k \in 2 .. n : /\ k - 1 \in 1 .. (n - 1) /\ k - 1 \in DOMAIN next.sent
                          /\ next.sent[k - 1] = old.sent[k]
    BY <1>1
  <1>4. \A i \in DOMAIN next.sent :
          IF i = n THEN next.sent[i].kind = "submit_saved"
                   ELSE i \in 1 .. (n - 1) /\ i + 1 \in 2 .. n /\ next.sent[i] = old.sent[i + 1]
    BY <1>1
  <1>5. ASSUME \A i \in DOMAIN next.sent : ~CarriedOut(next.sent, i)
        PROVE  next.pristineTerms = StoredTerms /\ next.data.version = StoredVersion
    <2>1. ASSUME NEW k \in 2 .. n PROVE ~CarriedOut(old.sent, k)
      <3>1. ~CarriedOut(next.sent, k - 1)
        BY <1>3, <1>5
      <3> QED
        BY <1>3, <3>1 DEF CarriedOut
    <2>2. CASE CarriedOut(old.sent, 1)
      <3>1. 1 \in DOMAIN old.sent /\ \A k \in DOMAIN old.sent : k > 1 => k \in 2 .. n
        BY <1>1
      <3>2. old.sent[1].terms = StoredTerms /\ old.sent[1].version = StoredVersion
        BY <2>1, <2>2, <3>1 DEF TermsFollow
      <3> QED
        BY <1>1, <1>2, <2>2, <3>2 DEF SnapshotTrue
    <2>3. CASE ~CarriedOut(old.sent, 1)
      <3>1. \A k \in DOMAIN old.sent : k = 1 \/ k \in 2 .. n
        BY <1>1
      <3>2. old.pristineTerms = StoredTerms /\ old.data.version = StoredVersion
        BY <2>1, <2>3, <3>1 DEF TermsFollow
      <3> QED
        BY <1>1, <2>3, <3>2
    <2> QED
      BY <2>2, <2>3
  <1>6. ASSUME NEW i \in DOMAIN next.sent, CarriedOut(next.sent, i),
               \A k \in DOMAIN next.sent : k > i => ~CarriedOut(next.sent, k)
        PROVE  next.sent[i].terms = StoredTerms /\ next.sent[i].version = StoredVersion
    <2>1. i \in 1 .. (n - 1) /\ i + 1 \in DOMAIN old.sent /\ next.sent[i] = old.sent[i + 1]
      BY <1>1, <1>4, <1>6 DEF CarriedOut, StoringKinds
    <2>2. ASSUME NEW k \in DOMAIN old.sent, k > i + 1 PROVE ~CarriedOut(old.sent, k)
      <3>1. k \in 2 .. n /\ k - 1 > i
        BY <1>1, <2>1, <2>2
      <3>2. ~CarriedOut(next.sent, k - 1)
        BY <1>3, <1>6, <3>1
      <3> QED
        BY <1>3, <3>1, <3>2 DEF CarriedOut
    <2>3. CarriedOut(old.sent, i + 1)
      BY <1>6, <2>1 DEF CarriedOut
    <2> QED
      BY <2>1, <2>2, <2>3 DEF TermsFollow
  <1>7. ASSUME NEW i \in DOMAIN next.sent
        PROVE  next.sent[i].kind # "discard" /\ next.sent[i].kind # "submit"
    <2>1. CASE i = n
      BY <1>4, <2>1
    <2>2. CASE i # n
      <3>1. i + 1 \in DOMAIN old.sent /\ 1 \in DOMAIN old.sent /\ i + 1 # 1
            /\ next.sent[i] = old.sent[i + 1]
        BY <1>1, <1>4, <2>2
      <3> QED
        BY <3>1 DEF QueueOk
    <2> QED
      BY <2>1, <2>2
  <1> QED
    BY <1>5, <1>6, <1>7 DEF TermsFollow

LEMMA ResolveKeepsEditor ==
  ASSUME EditorIInv, NEW w \in Windows, Resolve(w)
  PROVE  EditorIInv'
  <1> DEFINE old == windows[w]
             request == Head(old.sent)
             done == request.answer = "done"
             rest == [old EXCEPT !.sent = Tail(old.sent)]
             n == Len(old.sent)
  <1>1. /\ old \in Window /\ QueueOk(old) /\ SnapshotTrue(old.data)
        /\ OneWindow => TermsFollow(old)
    BY WindowFacts
  <1>2. /\ old.sent # <<>> /\ request.answer # "none" /\ old.data.version >= request.version
        /\ ServerRests /\ shownAt' = shownAt
    BY <1>1 DEF Resolve, Window
  <1>3. /\ n \in Nat /\ n >= 1 /\ DOMAIN old.sent = 1 .. n /\ request = old.sent[1]
        /\ request \in Request /\ rest \in Window /\ Len(rest.sent) = n - 1
        /\ DOMAIN rest.sent = 1 .. (n - 1)
        /\ \A i \in 1 .. (n - 1) : rest.sent[i] = old.sent[i + 1]
        /\ rest.data = old.data /\ rest.pristineTerms = old.pristineTerms
        /\ rest.saving = old.saving /\ rest.submitting = old.submitting
    <2>1. old.sent \in Seq(Request)
      BY <1>1 DEF Window
    <2>2. n \in Nat /\ DOMAIN old.sent = 1 .. n /\ n # 0
      BY <1>2, <2>1, LenProperties, EmptySeq
    <2>3. /\ Tail(old.sent) \in Seq(Request) /\ Len(Tail(old.sent)) = n - 1
          /\ request = old.sent[1] /\ request \in Request
          /\ \A i \in 1 .. (n - 1) : Tail(old.sent)[i] = old.sent[i + 1]
      BY <1>2, <2>1, <2>2, HeadTailProperties
    <2>4. DOMAIN Tail(old.sent) = 1 .. (n - 1)
      BY <2>3, LenProperties
    <2> QED
      BY <1>1, <2>2, <2>3, <2>4 DEF Window
  <1>4. StoredVersion \in Nat
    BY StoredTypes, OfferCockpitAssumption
  <1>5. request.kind \in RequestKinds
    BY <1>3 DEF Request
  <1> DEFINE saved == IF done THEN Stored(rest, request) ELSE rest
             next == CASE request.kind = "save" -> [saved EXCEPT !.saving = FALSE]
                       [] request.kind = "save_and_submit" ->
                            IF done THEN Send(Stored(rest, request), "submit_saved", request.terms)
                                    ELSE [rest EXCEPT !.submitting = FALSE]
                       [] request.kind \in {"submit", "submit_saved"} ->
                            [rest EXCEPT !.submitting = FALSE]
                       [] request.kind = "discard" ->
                            IF done THEN [rest EXCEPT !.saving = FALSE, !.terms = request.terms,
                                                      !.pristineTerms = request.terms]
                                    ELSE [rest EXCEPT !.saving = FALSE]
  <1>6. Update(w, next)
    BY DEF Resolve
  <1>7. /\ Stored(rest, request) \in Window
        /\ Stored(rest, request).data = rest.data /\ Stored(rest, request).sent = rest.sent
        /\ Stored(rest, request).saving = rest.saving
        /\ Stored(rest, request).submitting = rest.submitting
        /\ Stored(rest, request).pristineTerms = request.terms
    BY <1>3 DEF Stored, Window, Request
  <1>8. SentOneMore(Stored(rest, request),
                    Send(Stored(rest, request), "submit_saved", request.terms),
                    "submit_saved", request.terms)
    BY <1>3, <1>7, SendWrites DEF RequestKinds, Request
  <1>9. request.terms \in Shown
    BY <1>3 DEF Request
  <1> HIDE DEF request, rest
  <1>10. CASE request.kind = "save"
    <2>1. /\ next \in Window /\ next.data = old.data /\ next.sent = rest.sent
          /\ ~next.saving /\ next.submitting = old.submitting
          /\ next.pristineTerms = IF done THEN request.terms ELSE old.pristineTerms
      BY <1>3, <1>7, <1>10 DEF Window
    <2> HIDE DEF next, old, n
    <2>2. Dequeued(old, next)
      BY <1>3, <2>1 DEF Dequeued, n
    <2>3. QueueOk(next)
      BY <1>1, <1>3, <1>10, <2>1, <2>2, TailQueue DEF n, SavingKinds
    <2>4. ASSUME TermsFollow(old) PROVE TermsFollow(next)
      BY <1>1, <1>2, <1>3, <1>4, <1>10, <2>1, <2>2, <2>4, TailFollows DEF CarriedOut, StoringKinds
    <2> QED
      BY <1>1, <1>2, <1>6, <2>1, <2>3, <2>4, WindowMoves
  <1>11. CASE request.kind = "save_and_submit" /\ done
    <2>1. SentOneMore(Stored(rest, request), next, "submit_saved", request.terms)
      BY <1>8, <1>11
    <2> HIDE DEF next, old
    <2>2. /\ next \in Window /\ next.data = old.data
          /\ next.saving = old.saving /\ next.submitting = old.submitting
          /\ next.pristineTerms = request.terms
      BY <1>3, <1>7, <2>1 DEF SentOneMore
    <2>21. Len(Stored(rest, request).sent) = n - 1
      BY <1>3, <1>7
    <2>22. (n - 1) + 1 = n
      BY <1>3
    <2> HIDE DEF n
    <2>23. /\ DOMAIN next.sent = 1 .. n
           /\ \A i \in 1 .. (n - 1) : next.sent[i] = rest.sent[i]
           /\ next.sent[n].kind = "submit_saved" /\ next.sent[n].answer = "none"
      BY <1>7, <2>1, <2>21, <2>22 DEF SentOneMore
    <2>3. Len(next.sent) = n
      <3>1. next.sent \in Seq(Request)
        BY <2>2 DEF Window
      <3> QED
        BY <1>3, <2>23, <3>1, LenProperties
    <2>4. Dequeued(old, next)
      <3>1. \A i \in 1 .. n : i >= n => i = n
        BY <1>3
      <3> QED
        BY <1>3, <2>2, <2>23, <2>3, <3>1 DEF Dequeued, n
    <2>5. QueueOk(next)
      BY <1>1, <1>3, <1>11, <2>2, <2>3, <2>4, TailQueue DEF n
    <2>6. ASSUME TermsFollow(old) PROVE TermsFollow(next)
      BY <1>1, <1>2, <1>3, <1>4, <1>11, <2>2, <2>4, <2>6, TailFollows DEF CarriedOut, StoringKinds
    <2> QED
      BY <1>1, <1>2, <1>6, <2>2, <2>5, <2>6, WindowMoves
  <1>12. CASE \/ request.kind = "save_and_submit" /\ ~done
              \/ request.kind \in {"submit", "submit_saved"}
    <2>1. next = [rest EXCEPT !.submitting = FALSE]
      BY <1>12 DEF RequestKinds
    <2> HIDE DEF next
    <2>2. /\ next \in Window /\ next.data = old.data /\ next.sent = rest.sent
          /\ next.saving = old.saving /\ ~next.submitting
          /\ next.pristineTerms = old.pristineTerms
      BY <1>3, <2>1 DEF Window
    <2> HIDE DEF old, n
    <2>3. Dequeued(old, next)
      BY <1>3, <2>2, SMTT(30) DEF Dequeued, n
    <2>4. QueueOk(next)
      BY <1>1, <1>3, <1>12, <2>2, <2>3, TailQueue DEF n, SavingKinds
    <2>5. ASSUME TermsFollow(old) PROVE TermsFollow(next)
      BY <1>1, <1>2, <1>3, <1>4, <1>12, <2>2, <2>3, <2>5, TailFollows DEF CarriedOut, StoringKinds
    <2> QED
      BY <1>1, <1>2, <1>6, <2>2, <2>4, <2>5, WindowMoves
  <1>13. CASE request.kind = "discard"
    <2>1. /\ next \in Window /\ next.data = old.data /\ next.sent = rest.sent
          /\ ~next.saving /\ next.submitting = old.submitting
          /\ next.pristineTerms = IF done THEN request.terms ELSE old.pristineTerms
      BY <1>3, <1>9, <1>13 DEF Window
    <2> HIDE DEF next, old, n
    <2>2. Dequeued(old, next)
      BY <1>3, <2>1 DEF Dequeued, n
    <2>3. QueueOk(next)
      BY <1>1, <1>3, <1>13, <2>1, <2>2, TailQueue DEF n, SavingKinds
    <2>4. ASSUME TermsFollow(old) PROVE TermsFollow(next)
      <3>1. old.sent[1].terms = StoredTerms /\ ~CarriedOut(old.sent, 1)
        BY <1>3, <1>13, <2>4, SMTT(30) DEF TermsFollow, CarriedOut, StoringKinds
      <3> QED
        BY <1>1, <1>2, <1>3, <1>4, <2>1, <2>2, <2>4, <3>1, TailFollows
    <2> QED
      BY <1>1, <1>2, <1>6, <2>1, <2>3, <2>4, WindowMoves
  <1> QED
    BY <1>5, <1>10, <1>11, <1>12, <1>13 DEF RequestKinds

-----------------------------------------------------------------------------
(* Steps of the server. *)

\* A mutation other than a save leaves terms and version of the draft.
LEMMA DraftStays ==
  ASSUME EditorIInv, CockpitIInv', draftTerms' = draftTerms,
         \A q \in Rooms \ {EditedRoom} : drafts'[q] = drafts[q],
         \/ drafts'[EditedRoom] = drafts[EditedRoom]
         \/ /\ HasDraft(EditedRoom)
            /\ drafts'[EditedRoom] \in [1 .. 1 -> Draft]
            /\ drafts'[EditedRoom][1].version = Latest(EditedRoom).version
  PROVE  /\ StoredTerms' = StoredTerms /\ StoredVersion' = StoredVersion
         /\ HasDraft(EditedRoom)' = HasDraft(EditedRoom)
         /\ \A r \in Rooms : draftTerms'[r] \in [DOMAIN drafts'[r] -> Shown]
  <1>1. EditedRoom \in Rooms
    BY CockpitEditorAssumption
  <1>2. CASE drafts'[EditedRoom] = drafts[EditedRoom]
    BY <1>1, <1>2 DEF StoredTerms, StoredVersion, HasDraft, Latest, EditorIInv, EditorTypeOK
  <1>3. CASE /\ HasDraft(EditedRoom)
             /\ drafts'[EditedRoom] \in [1 .. 1 -> Draft]
             /\ drafts'[EditedRoom][1].version = Latest(EditedRoom).version
    <2>1. /\ HasDraft(EditedRoom)' /\ Latest(EditedRoom)' = drafts'[EditedRoom][1]
      BY <1>1, <1>3, LatestNext DEF HasDraft, Latest
    <2>2. DOMAIN drafts[EditedRoom] = {1} /\ DOMAIN drafts'[EditedRoom] = {1}
      BY <1>1, <1>3, LatestDraft DEF EditorIInv
    <2> QED
      BY <1>1, <1>3, <2>1, <2>2 DEF StoredTerms, StoredVersion, EditorIInv, EditorTypeOK
  <1> QED
    BY <1>2, <1>3

LEMMA ServerMoves ==
  ASSUME EditorIInv, IInv', CockpitIInv', windows' = windows, shownAt' = shownAt,
         draftTerms' = draftTerms,
         StoredTerms' = StoredTerms, StoredVersion' = StoredVersion,
         HasDraft(EditedRoom)' = HasDraft(EditedRoom),
         \A r \in Rooms : draftTerms'[r] \in [DOMAIN drafts'[r] -> Shown]
  PROVE  EditorIInv'
  <1>1. CockpitTypeOK'
    <2>1. CockpitIInv' => (CockpitTypeOK /\ OneActiveDraft)'
      BY DraftsAreSound, PTL
    <2> QED
      BY <2>1
  <1>2. EditorTypeOK'
    BY <1>1 DEF EditorIInv, EditorTypeOK
  <1>3. \A v \in Windows : (QueueOk(windows[v]) /\ SnapshotTrue(windows[v].data))'
    BY DEF EditorIInv, QueueOk, SnapshotTrue
  <1>4. ASSUME OneWindow PROVE \A v \in Windows : TermsFollow(windows[v])'
    BY <1>4 DEF EditorIInv, TermsFollow, CarriedOut
  <1> QED
    BY <1>2, <1>3, <1>4 DEF EditorIInv, OneWindow

LEMMA BrokerDecidesKeepsEditor ==
  ASSUME EditorIInv, BrokerDecides
  PROVE  EditorIInv'
  <1>1. PICK i \in DOMAIN drafts[EditedRoom], decision \in {"approved", "rejected"} :
          RecordBrokerDecision(EditedRoom, i, decision)
    BY DEF BrokerDecides
  <1>2. /\ CockpitIInv' /\ HasDraft(EditedRoom)
        /\ drafts'[EditedRoom] \in [1 .. 1 -> Draft]
        /\ drafts'[EditedRoom][1].version = Latest(EditedRoom).version
        /\ \A q \in Rooms \ {EditedRoom} : drafts'[q] = drafts[q]
    BY <1>1, DecisionWrites, CockpitEditorAssumption DEF EditorIInv
  <1>3. IInv'
    BY NextIInv DEF BrokerDecides, EditorIInv, vars
  <1> QED
    BY <1>2, <1>3, DraftStays, ServerMoves DEF BrokerDecides

LEMMA AgreementsKeepEditor ==
  ASSUME EditorIInv, [Next]_vars, UNCHANGED <<drafts, draftTerms, windows, shownAt>>
  PROVE  EditorIInv'
  <1>1. IInv' /\ CockpitIInv'
    BY NextIInv DEF EditorIInv, CockpitIInv
  <1> QED
    BY <1>1, DraftStays, ServerMoves

LEMMA StoreTermsWrites ==
  ASSUME EditorIInv, NEW t \in Shown, StoreTerms(t)
  PROVE  /\ CockpitIInv' /\ HasDraft(EditedRoom)'
         /\ StoredTerms' = t /\ StoredVersion' = StoredVersion + 1
         /\ StoredVersion' \in 0 .. MaxVersion /\ Latest(EditedRoom)'.version = StoredVersion'
         /\ DOMAIN draftTerms' = Rooms
         /\ \A r \in Rooms : draftTerms'[r] \in [DOMAIN drafts'[r] -> Shown]
  <1> DEFINE r == EditedRoom
  <1>1. r \in Rooms /\ UpsertDraft(r) /\ CockpitIInv
    BY CockpitEditorAssumption DEF StoreTerms, EditorIInv
  <1>2. /\ CockpitIInv' /\ drafts'[r] \in [1 .. 1 -> Draft]
        /\ drafts'[r][1].version = IF HasDraft(r) THEN Latest(r).version + 1 ELSE 1
        /\ \A q \in Rooms \ {r} : drafts'[q] = drafts[q]
    BY <1>1, UpsertWrites
  <1>3. /\ HasDraft(r)' /\ Latest(r)' = drafts'[r][1] /\ DOMAIN drafts'[r] = {1}
    BY <1>1, <1>2, LatestNext DEF HasDraft, Latest
  <1>4. StoredVersion' = StoredVersion + 1 /\ StoredVersion' \in 0 .. MaxVersion
        /\ Latest(r)'.version = StoredVersion'
    <2>1. Latest(r)' \in Draft
      BY <1>2, <1>3
    <2> QED
      BY <1>2, <1>3, <2>1, OfferCockpitAssumption DEF StoredVersion, Draft
  <1>5. draftTerms'[r] \in [1 .. 1 -> Shown] /\ draftTerms'[r][1] = t
    <2>1. CASE HasDraft(r)
      <3>1. draftTerms[r] \in [{1} -> Shown] /\ Len(draftTerms[r]) = 1
        <4>1. DOMAIN drafts[r] = {1}
          BY <1>1, <2>1, LatestDraft
        <4> QED
          BY <1>1, <2>1, <4>1, StoredTypes DEF EditorIInv, EditorTypeOK
      <3>2. draftTerms'[r] = [draftTerms[r] EXCEPT ![1] = t]
        BY <1>1, <2>1, <3>1 DEF StoreTerms, EditorIInv
      <3> QED
        BY <3>1, <3>2
    <2>2. CASE ~HasDraft(r)
      <3>1. drafts[r] = <<>>
        BY <2>2 DEF HasDraft
      <3>2. draftTerms[r] \in [{} -> Shown]
        <4>1. DOMAIN drafts[r] = {}
          BY <3>1
        <4> QED
          BY <1>1, <4>1 DEF EditorIInv, EditorTypeOK
      <3>3. draftTerms[r] = <<>>
        BY <3>2
      <3>4. draftTerms'[r] = Append(<<>>, t)
        BY <1>1, <2>2, <3>3 DEF StoreTerms, EditorIInv
      <3> QED
        BY <3>4
    <2> QED
      BY <2>1, <2>2
  <1>6. StoredTerms' = t
    <2>1. draftTerms'[r] \in Seq(Shown)
      BY <1>5, SeqDef
    <2>2. Len(draftTerms'[r]) = 1
      BY <1>5, <2>1, LenProperties
    <2> QED
      BY <1>3, <1>5, <2>2 DEF StoredTerms, Last
  <1>7. DOMAIN draftTerms' = Rooms /\ \A q \in Rooms \ {r} : draftTerms'[q] = draftTerms[q]
    BY <1>1 DEF StoreTerms, EditorIInv
  <1>8. \A q \in Rooms : draftTerms'[q] \in [DOMAIN drafts'[q] -> Shown]
    <2>1. draftTerms'[r] \in [DOMAIN drafts'[r] -> Shown]
      BY <1>3, <1>5
    <2> QED
      BY <1>2, <1>7, <2>1 DEF EditorIInv, EditorTypeOK
  <1> QED
    BY <1>2, <1>3, <1>4, <1>6, <1>7, <1>8

\* A window whose call i was answered.
Answered(old, next, i, answer, version) ==
  /\ next \in Window /\ next.data = old.data
  /\ next.saving = old.saving /\ next.submitting = old.submitting
  /\ next.pristineTerms = old.pristineTerms
  /\ DOMAIN next.sent = DOMAIN old.sent
  /\ \A k \in DOMAIN old.sent : /\ next.sent[k].kind = old.sent[k].kind
                                /\ next.sent[k].terms = old.sent[k].terms
                                /\ k # i => next.sent[k] = old.sent[k]
  /\ next.sent[i].answer = answer /\ next.sent[i].version = version

LEMMA AnswerWrites ==
  ASSUME NEW old \in Window, NEW i \in DOMAIN old.sent,
         NEW answer \in {"done", "error"}, NEW version \in 0 .. MaxVersion
  PROVE  Answered(old, [old EXCEPT !.sent[i].answer = answer, !.sent[i].version = version],
                  i, answer, version)
  <1> DEFINE request == [old.sent[i] EXCEPT !.answer = answer, !.version = version]
             sent == [old.sent EXCEPT ![i] = request]
             next == [old EXCEPT !.sent = sent]
  <1>1. old.sent \in Seq(Request) /\ old.sent[i] \in Request
    <2>1. old.sent \in Seq(Request)
      BY DEF Window
    <2> QED
      BY <2>1
  <1>2. /\ request \in Request /\ request.kind = old.sent[i].kind
        /\ request.terms = old.sent[i].terms
        /\ request.answer = answer /\ request.version = version
    BY <1>1 DEF Request
  <1>3. [old EXCEPT !.sent[i].answer = answer, !.sent[i].version = version] = next
    BY <1>1 DEF Window, Request
  <1> HIDE DEF request
  <1>4. /\ sent \in Seq(Request) /\ DOMAIN sent = DOMAIN old.sent /\ sent[i] = request
        /\ \A k \in DOMAIN old.sent : k # i => sent[k] = old.sent[k]
    BY <1>1, <1>2, ExceptSeq
  <1> HIDE DEF sent
  <1>5. /\ next \in Window /\ next.data = old.data /\ next.sent = sent
        /\ next.saving = old.saving /\ next.submitting = old.submitting
        /\ next.pristineTerms = old.pristineTerms
    BY <1>4 DEF Window
  <1> QED
    BY <1>2, <1>3, <1>4, <1>5 DEF Answered

LEMMA AnsweredQueue ==
  ASSUME NEW old \in Window, NEW next \in Window, NEW i \in DOMAIN old.sent, NEW answer, NEW version,
         Answered(old, next, i, answer, version), answer # "none", QueueOk(old),
         \A k \in DOMAIN old.sent : k < i => old.sent[k].answer # "none"
  PROVE  QueueOk(next)
  <1>1. DOMAIN old.sent \subseteq Nat
    <2>1. old.sent \in Seq(Request)
      BY DEF Window
    <2> QED
      BY <2>1, LenProperties
  <1>2. /\ DOMAIN next.sent = DOMAIN old.sent
        /\ next.saving = old.saving /\ next.submitting = old.submitting
        /\ \A k \in DOMAIN old.sent :
             /\ next.sent[k].kind = old.sent[k].kind
             /\ next.sent[k].answer # "none" => k = i \/ old.sent[k].answer # "none"
             /\ old.sent[k].answer # "none" => next.sent[k].answer # "none"
    BY DEF Answered
  <1>3. next.sent[i].answer # "none"
    BY DEF Answered
  <1>4. \A j, k \in DOMAIN old.sent :
          j < k /\ old.sent[k].answer # "none" => old.sent[j].answer # "none"
    BY DEF QueueOk
  <1>5. ASSUME NEW j \in DOMAIN next.sent, NEW k \in DOMAIN next.sent, j < k,
               next.sent[k].answer # "none"
        PROVE  next.sent[j].answer # "none"
    <2>1. old.sent[j].answer # "none"
      BY <1>2, <1>4, <1>5
    <2> QED
      BY <1>2, <2>1
  <1>6. \A k \in DOMAIN old.sent :
          next.sent[k].kind \in SavingKinds <=> old.sent[k].kind \in SavingKinds
    BY <1>2
  <1>7. /\ old.saving <=> \E k \in DOMAIN old.sent : old.sent[k].kind \in SavingKinds
        /\ old.submitting <=> \E k \in DOMAIN old.sent : old.sent[k].kind \notin SavingKinds
        /\ \A j, k \in DOMAIN old.sent :
             /\ (old.sent[j].kind \in SavingKinds <=> old.sent[k].kind \in SavingKinds) => j = k
             /\ old.sent[j].kind = "discard" => k = j
             /\ old.sent[j].kind = "submit" => j = 1
    BY DEF QueueOk
  <1>8. /\ next.saving <=> \E k \in DOMAIN next.sent : next.sent[k].kind \in SavingKinds
        /\ next.submitting <=> \E k \in DOMAIN next.sent : next.sent[k].kind \notin SavingKinds
    BY <1>2, <1>6, <1>7
  <1>9. \A j, k \in DOMAIN next.sent :
          /\ (next.sent[j].kind \in SavingKinds <=> next.sent[k].kind \in SavingKinds) => j = k
          /\ next.sent[j].kind = "discard" => k = j
          /\ next.sent[j].kind = "submit" => j = 1
    BY <1>2, <1>6, <1>7
  <1> QED
    BY <1>5, <1>8, <1>9 DEF QueueOk

LEMMA WindowsFollow ==
  ASSUME EditorIInv, IInv', CockpitIInv', DOMAIN draftTerms' = Rooms,
         \A r \in Rooms : draftTerms'[r] \in [DOMAIN drafts'[r] -> Shown],
         \/ StoredVersion' = StoredVersion /\ StoredTerms' = StoredTerms
         \/ StoredVersion' = StoredVersion + 1,
         NEW w \in Windows, NEW next \in Window, windows' = [windows EXCEPT ![w] = next],
         next.data = windows[w].data, QueueOk(next),
         OneWindow => /\ TermsFollow(next)'
                      /\ HasDraft(EditedRoom)' => shownAt' = StoredTerms'
  PROVE  EditorIInv'
  <1>1. CockpitTypeOK'
    <2>1. CockpitIInv' => (CockpitTypeOK /\ OneActiveDraft)'
      BY DraftsAreSound, PTL
    <2> QED
      BY <2>1
  <1>2. /\ windows' \in [Windows -> Window] /\ windows'[w] = next
        /\ \A v \in Windows \ {w} : windows'[v] = windows[v]
    BY DEF EditorIInv, EditorTypeOK
  <1>3. EditorTypeOK'
    BY <1>1, <1>2 DEF EditorTypeOK
  <1>4. ASSUME NEW v \in Windows PROVE (QueueOk(windows[v]) /\ SnapshotTrue(windows[v].data))'
    <2>1. windows'[v].data = windows[v].data /\ QueueOk(windows'[v])
      BY <1>2 DEF EditorIInv
    <2>2. windows[v].data.version \in Nat /\ StoredVersion \in Nat
      <3>1. windows[v] \in Window
        BY DEF EditorIInv, EditorTypeOK
      <3>2. windows[v].data \in Snapshot
        BY <3>1 DEF Window
      <3> QED
        BY <3>2, StoredTypes, OfferCockpitAssumption DEF Snapshot
    <2>3. SnapshotTrue(windows[v].data)
      BY DEF EditorIInv
    <2>4. SnapshotTrue(windows[v].data)'
      BY <2>1, <2>2, <2>3 DEF SnapshotTrue
    <2> QED
      BY <2>1, <2>4 DEF QueueOk
  <1>5. ASSUME OneWindow PROVE \A v \in Windows : TermsFollow(windows[v])'
    BY <1>2, <1>5 DEF OneWindow, TermsFollow, CarriedOut
  <1> QED
    BY <1>3, <1>4, <1>5 DEF EditorIInv, OneWindow

LEMMA ServeKeepsEditor ==
  ASSUME EditorIInv, NEW w \in Windows, Serve(w)
  PROVE  EditorIInv'
  <1> DEFINE old == windows[w]
  <1>1. PICK i \in DOMAIN old.sent :
          LET request == old.sent[i]
              Answer(answer, version) ==
                windows' = [windows EXCEPT ![w].sent[i].answer = answer,
                                           ![w].sent[i].version = version]
          IN /\ request.answer = "none"
             /\ \A k \in 1 .. (i - 1) : old.sent[k].answer # "none"
             /\ UNCHANGED vars
             /\ \/ /\ ~Succeeds(request.kind)
                   /\ Answer("error", 0)
                   /\ UNCHANGED <<drafts, draftTerms, shownAt>>
                \/ /\ Succeeds(request.kind)
                   /\ shownAt' = IF request.kind \in {"save", "save_and_submit", "submit"}
                                   THEN request.terms ELSE shownAt
                   /\ \/ /\ request.kind \in {"save", "save_and_submit"}
                         /\ StoreTerms(request.terms)
                         /\ Answer("done", Latest(EditedRoom)'.version)
                      \/ /\ request.kind \in {"submit", "submit_saved"}
                         /\ SubmitForReview(EditedRoom)
                         /\ Answer("done", 0)
                         /\ UNCHANGED draftTerms
                      \/ /\ request.kind = "discard"
                         /\ IF HasDraft(EditedRoom) THEN DiscardDraft(EditedRoom)
                                                    ELSE UNCHANGED drafts
                         /\ Answer("done", 0)
                         /\ UNCHANGED draftTerms
    BY DEF Serve
  <1> DEFINE request == old.sent[i]
             next(answer, version) ==
               [old EXCEPT !.sent[i].answer = answer, !.sent[i].version = version]
  <1>2. /\ old \in Window /\ QueueOk(old) /\ (OneWindow => TermsFollow(old))
        /\ request.answer = "none" /\ UNCHANGED vars
    BY <1>1, WindowFacts
  <1>3. /\ \A k \in DOMAIN old.sent : k \in Nat /\ k >= 1
        /\ request \in Request
        /\ \A k \in DOMAIN old.sent : k < i => old.sent[k].answer # "none"
    <2>1. old.sent \in Seq(Request)
      BY <1>2 DEF Window
    <2>2. Len(old.sent) \in Nat /\ DOMAIN old.sent = 1 .. Len(old.sent)
      BY <2>1, LenProperties
    <2>3. i \in Nat /\ \A k \in DOMAIN old.sent : k < i => k \in 1 .. (i - 1)
      BY <2>2
    <2>4. \A k \in 1 .. (i - 1) : old.sent[k].answer # "none"
      BY <1>1
    <2>5. request \in Request
      BY <2>1
    <2> HIDE DEF old, request
    <2> QED
      BY <2>2, <2>3, <2>4, <2>5
  <1>4. 0 \in 0 .. MaxVersion /\ EditedRoom \in Rooms /\ CockpitIInv
    BY OfferCockpitAssumption, CockpitEditorAssumption DEF EditorIInv
  <1>5. IInv'
    BY <1>2, NextIInv DEF EditorIInv
  <1>6. ASSUME NEW answer \in {"done", "error"}, NEW version \in 0 .. MaxVersion,
               windows' = [windows EXCEPT ![w].sent[i].answer = answer,
                                          ![w].sent[i].version = version]
        PROVE  /\ windows' = [windows EXCEPT ![w] = next(answer, version)]
               /\ Answered(old, next(answer, version), i, answer, version)
               /\ next(answer, version) \in Window /\ next(answer, version).data = old.data
               /\ QueueOk(next(answer, version))
    <2>1. Answered(old, next(answer, version), i, answer, version)
      BY <1>2, AnswerWrites
    <2>2. windows' = [windows EXCEPT ![w] = next(answer, version)]
      BY <1>6
    <2> HIDE DEF next, old
    <2>3. /\ next(answer, version) \in Window /\ next(answer, version).data = old.data
      BY <2>1 DEF Answered
    <2> QED
      BY <1>2, <1>3, <2>1, <2>2, <2>3, AnsweredQueue
  <1> HIDE DEF next
  <1>7. CASE request.kind \in StoringKinds /\ Succeeds(request.kind)
    <2> DEFINE version == Latest(EditedRoom)'.version
               result == next("done", version)
    <2>1. StoreTerms(request.terms) /\ request.terms \in Shown /\ shownAt' = request.terms
      BY <1>1, <1>3, <1>7 DEF StoringKinds, Request
    <2>2. /\ CockpitIInv' /\ StoredTerms' = request.terms /\ StoredVersion' = StoredVersion + 1
          /\ version = StoredVersion' /\ version \in 0 .. MaxVersion
          /\ DOMAIN draftTerms' = Rooms
          /\ \A r \in Rooms : draftTerms'[r] \in [DOMAIN drafts'[r] -> Shown]
      BY <2>1, StoreTermsWrites
    <2>3. /\ windows' = [windows EXCEPT ![w] = result] /\ Answered(old, result, i, "done", version)
          /\ result \in Window /\ result.data = old.data /\ QueueOk(result)
      BY <1>1, <1>6, <1>7, <2>2 DEF StoringKinds
    <2> HIDE DEF result
    <2>4. PICK done \in Window : done = result
      BY <2>3
    <2>5. OneWindow => TermsFollow(done)'
      <3>1. /\ DOMAIN done.sent = DOMAIN old.sent
            /\ \A k \in DOMAIN old.sent : /\ done.sent[k].kind = old.sent[k].kind
                                          /\ done.sent[k].terms = old.sent[k].terms
                                          /\ k # i => done.sent[k] = old.sent[k]
            /\ done.sent[i].answer = "done" /\ done.sent[i].version = StoredVersion'
        BY <2>2, <2>3, <2>4 DEF Answered
      <3>2. CarriedOut(done.sent, i)
        BY <1>7, <3>1 DEF CarriedOut
      <3>3. \A k \in DOMAIN old.sent : k > i => done.sent[k].answer = "none"
        <4> SUFFICES ASSUME NEW k \in DOMAIN old.sent, k > i PROVE old.sent[k].answer = "none"
          BY <1>3, <3>1
        <4> QED
          BY <1>2, <1>3 DEF QueueOk
      <3>4. ASSUME NEW k \in DOMAIN done.sent, CarriedOut(done.sent, k),
                   \A j \in DOMAIN done.sent : j > k => ~CarriedOut(done.sent, j)
            PROVE  done.sent[k].terms = StoredTerms' /\ done.sent[k].version = StoredVersion'
        <4>1. k = i
          BY <1>3, <3>1, <3>2, <3>3, <3>4 DEF CarriedOut
        <4> QED
          BY <2>2, <3>1, <4>1
      <3>5. ASSUME NEW k \in DOMAIN done.sent
            PROVE  /\ done.sent[k].kind # "discard"
                   /\ done.sent[k].kind = "submit" => done.sent[k].answer # "none"
        <4>1. CASE k = i
          BY <1>7, <3>1, <4>1 DEF StoringKinds
        <4>2. CASE k # i
          <5>1. done.sent[k].kind # "discard"
            BY <1>2, <3>1, <4>2 DEF QueueOk
          <5>2. done.sent[k].kind = "submit" => k = 1
            BY <1>2, <3>1 DEF QueueOk
          <5>3. k = 1 => k < i
            BY <1>3, <3>1, <4>2
          <5> QED
            BY <1>3, <3>1, <4>2, <5>1, <5>2, <5>3
        <4> QED
          BY <4>1, <4>2
      <3> QED
        BY <3>1, <3>2, <3>4, <3>5 DEF TermsFollow, CarriedOut
    <2>6. windows' = [windows EXCEPT ![w] = done] /\ done.data = windows[w].data /\ QueueOk(done)
      BY <2>3, <2>4
    <2> QED
      BY <1>5, <2>1, <2>2, <2>5, <2>6, WindowsFollow
  <1>8. CASE ~(request.kind \in StoringKinds /\ Succeeds(request.kind))
    <2>1. /\ CockpitIInv' /\ draftTerms' = draftTerms
          /\ \A q \in Rooms \ {EditedRoom} : drafts'[q] = drafts[q]
          /\ \/ drafts'[EditedRoom] = drafts[EditedRoom]
             \/ /\ HasDraft(EditedRoom)
                /\ drafts'[EditedRoom] \in [1 .. 1 -> Draft]
                /\ drafts'[EditedRoom][1].version = Latest(EditedRoom).version
      <3>1. CASE ~Succeeds(request.kind)
        BY <1>1, <1>4, <3>1 DEF CockpitIInv
      <3>2. CASE Succeeds(request.kind) /\ request.kind \in {"submit", "submit_saved"}
        <4>1. SubmitForReview(EditedRoom) /\ UNCHANGED draftTerms
          BY <1>1, <3>2
        <4> QED
          BY <1>4, <4>1, SubmitWrites
      <3>3. CASE Succeeds(request.kind) /\ request.kind = "discard" /\ HasDraft(EditedRoom)
        <4>1. DiscardDraft(EditedRoom) /\ UNCHANGED draftTerms
          BY <1>1, <3>3
        <4> QED
          BY <1>4, <4>1, DiscardWrites
      <3>4. CASE Succeeds(request.kind) /\ request.kind = "discard" /\ ~HasDraft(EditedRoom)
        <4>1. UNCHANGED <<drafts, draftTerms>>
          BY <1>1, <3>4
        <4> QED
          BY <1>4, <4>1 DEF CockpitIInv
      <3> QED
        BY <1>3, <1>8, <3>1, <3>2, <3>3, <3>4 DEF Request, RequestKinds, StoringKinds
    <2>2. /\ StoredTerms' = StoredTerms /\ StoredVersion' = StoredVersion
          /\ HasDraft(EditedRoom)' = HasDraft(EditedRoom)
          /\ \A r \in Rooms : draftTerms'[r] \in [DOMAIN drafts'[r] -> Shown]
      BY <2>1, DraftStays
    <2>3. PICK answer \in {"done", "error"} :
            /\ windows' = [windows EXCEPT ![w].sent[i].answer = answer, ![w].sent[i].version = 0]
            /\ answer = "done" => request.kind \notin StoringKinds
      BY <1>1, <1>3, <1>8 DEF Request, RequestKinds, StoringKinds
    <2>4. PICK done \in Window :
            /\ windows' = [windows EXCEPT ![w] = done] /\ done.data = windows[w].data
            /\ QueueOk(done) /\ Answered(old, done, i, answer, 0)
      BY <1>4, <1>6, <2>3
    <2>5. OneWindow => TermsFollow(done)'
      <3> SUFFICES ASSUME OneWindow PROVE TermsFollow(done)'
        OBVIOUS
      <3>1. /\ DOMAIN done.sent = DOMAIN old.sent
            /\ done.pristineTerms = old.pristineTerms /\ done.data = old.data
            /\ \A k \in DOMAIN old.sent : /\ done.sent[k].kind = old.sent[k].kind
                                          /\ done.sent[k].terms = old.sent[k].terms
                                          /\ k # i => done.sent[k] = old.sent[k]
            /\ done.sent[i].answer = answer
        BY <2>4 DEF Answered
      <3>2. \A k \in DOMAIN old.sent :
              /\ CarriedOut(done.sent, k) <=> CarriedOut(old.sent, k)
              /\ CarriedOut(done.sent, k) => done.sent[k] = old.sent[k]
              /\ done.sent[k].answer = "none" => old.sent[k].answer = "none"
        BY <1>2, <2>3, <3>1 DEF CarriedOut
      <3>3. TermsFollow(old)
        BY <1>2
      <3> HIDE DEF old
      <3> QED
        BY <2>2, <3>1, <3>2, <3>3 DEF TermsFollow, CarriedOut
    <2>6. OneWindow /\ HasDraft(EditedRoom)' => shownAt' = StoredTerms'
      <3> SUFFICES ASSUME OneWindow, HasDraft(EditedRoom) PROVE shownAt' = StoredTerms
        BY <2>2
      <3>1. shownAt = StoredTerms
        BY DEF EditorIInv
      <3>2. request.kind = "submit" => request.terms = StoredTerms
        BY <1>2 DEF TermsFollow
      <3>3. shownAt' = shownAt \/ (request.kind = "submit" /\ shownAt' = request.terms)
        BY <1>1, <1>8 DEF StoringKinds
      <3> QED
        BY <3>1, <3>2, <3>3
    <2>7. DOMAIN draftTerms' = Rooms
      BY <2>1 DEF EditorIInv
    <2> QED
      BY <1>5, <2>1, <2>2, <2>4, <2>5, <2>6, <2>7, WindowsFollow
  <1> QED
    BY <1>7, <1>8

LEMMA NextEditor ==
  ASSUME EditorIInv, [EditorNext]_editorVars
  PROVE  EditorIInv'
  <1>1. ASSUME NEW w \in Windows, WindowStep(w) PROVE EditorIInv'
    BY <1>1, SetTermsKeepsEditor, ResetKeepsEditor, PressSaveKeepsEditor, PressSubmitKeepsEditor,
       PressDiscardKeepsEditor, ServeKeepsEditor, DeliverKeepsEditor, ResolveKeepsEditor
    DEF WindowStep
  <1>2. CASE UNCHANGED editorVars
    BY <1>2, AgreementsKeepEditor DEF editorVars, cockpitVars, vars
  <1> QED
    BY <1>1, <1>2, BrokerDecidesKeepsEditor, AgreementsKeepEditor DEF EditorNext

(***************************************************************************)
(* The editor of the buyer's only window never takes unsaved terms for     *)
(* saved and never shows stale ones as the stored draft, and what the      *)
(* broker reviews is what the buyer had on the screen when pressing - for  *)
(* any terms, and any overlap of edits, snapshots, answers and decisions.  *)
(***************************************************************************)
THEOREM EditorIsTruthful == EditorSpec => []EditorTruthful
  <1>1. EditorIInv /\ [EditorNext]_editorVars => EditorIInv'
    BY NextEditor
  <1> QED
    BY <1>1, InitEditor, EditorIInvIsTruthful, PTL DEF EditorSpec
=============================================================================
