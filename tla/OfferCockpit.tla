----------------------------- MODULE OfferCockpit -----------------------------
(***************************************************************************)
(* The buyer's offer draft and its broker review (convex/offerCockpit.ts), *)
(* composed with the agreements whose persisted eligibility gates them.    *)
(* The agreement mutations and the cockpit mutations interleave freely.    *)
(***************************************************************************)
EXTENDS Agreements, Sequences

CONSTANTS
  MaxDrafts,   \* bound on the draft rows of a deal room
  MaxVersion   \* bound on the saves of a draft

ASSUME OfferCockpitAssumption == {MaxDrafts, MaxVersion} \subseteq Nat \ {0}

VARIABLE drafts  \* offerCockpitDrafts: per deal room, its rows by age

cockpitVars == <<agreements, eligibility, eligibilityAudit, agreementAudit,
                 clock, drafts>>

DraftStatuses == {"draft", "pending_review", "approved", "rejected", "abandoned"}
ReviewStates == {"not_submitted", "pending_review", "approved", "rejected"}

EditableDraftStatuses == {"draft", "rejected"}

Draft == [status : DraftStatuses, brokerReviewState : ReviewStates,
          version : 1 .. MaxVersion]

HasDraft(r) == drafts[r] # <<>>
Latest(r) == drafts[r][Len(drafts[r])]                        \* loadDraft
PatchLatest(r, row) == drafts' = [drafts EXCEPT ![r][Len(drafts[r])] = row]

\* upsertDraft throws when the latest draft is not editable.
UpsertRefused(r) == HasDraft(r) /\ Latest(r).status \notin EditableDraftStatuses

\* Mutant: a draft that cannot be edited gets a new one beside it.
UpsertDraft_InsertsBeside(r) ==
  /\ eligibility[r].isEligible
  /\ ~HasDraft(r) \/ UpsertRefused(r)
  /\ Len(drafts[r]) < MaxDrafts
  /\ drafts' = [drafts EXCEPT ![r] = Append(@,
                  [status |-> "draft", version |-> 1,
                   brokerReviewState |-> "not_submitted"])]

UpsertDraft(r) ==
  /\ eligibility[r].isEligible
  /\ ~UpsertRefused(r)
  /\ \/ /\ HasDraft(r)
        /\ Latest(r).version < MaxVersion
        /\ LET d == Latest(r) IN
           PatchLatest(r, [status |-> "draft",
                           brokerReviewState |->
                             IF d.brokerReviewState = "rejected"
                               THEN "not_submitted" ELSE d.brokerReviewState,
                           version |-> d.version + 1])
     \/ /\ ~HasDraft(r)
        /\ Len(drafts[r]) < MaxDrafts
        /\ drafts' = [drafts EXCEPT ![r] = Append(@,
                        [status |-> "draft", version |-> 1,
                         brokerReviewState |-> "not_submitted"])]

\* Mutant: the eligibility is checked when saving, not when submitting.
SubmitForReview_Unchecked(r) ==
  /\ HasDraft(r)
  /\ Latest(r).status \in {"draft", "rejected"}
  /\ PatchLatest(r, [Latest(r) EXCEPT !.status = "pending_review",
                                      !.brokerReviewState = "pending_review"])

SubmitForReview(r) ==
  /\ HasDraft(r)
  /\ Latest(r).status \in {"draft", "rejected"}
  /\ eligibility[r].isEligible
  /\ PatchLatest(r, [Latest(r) EXCEPT !.status = "pending_review",
                                      !.brokerReviewState = "pending_review"])

\* recordBrokerDecision takes a draft id, so any row of the room.
RecordBrokerDecision(r, i, decision) ==
  /\ drafts[r][i].status = "pending_review"
  /\ drafts' = [drafts EXCEPT ![r][i] =
                  [@ EXCEPT !.status = decision, !.brokerReviewState = decision]]

DiscardDraft(r) ==
  /\ HasDraft(r)
  /\ Latest(r).status \in EditableDraftStatuses
  /\ PatchLatest(r, [Latest(r) EXCEPT !.status = "abandoned"])

CockpitInit == Init /\ drafts = [r \in Rooms |-> <<>>]

CockpitStep ==
  \E r \in Rooms :
    \/ UpsertDraft(r)
    \/ SubmitForReview(r)
    \/ \E i \in DOMAIN drafts[r] : \E decision \in {"approved", "rejected"} :
         RecordBrokerDecision(r, i, decision)
    \/ DiscardDraft(r)

CockpitNext ==
  \/ Next /\ UNCHANGED drafts
  \/ CockpitStep /\ UNCHANGED vars

CockpitSpec == CockpitInit /\ [][CockpitNext]_cockpitVars
-----------------------------------------------------------------------------
\* Shape of the draft table.
CockpitTypeOK == drafts \in [Rooms -> UNION {[1 .. n -> Draft] : n \in 0 .. MaxDrafts}]

(***************************************************************************)
(* The "one active draft per buyer per deal room" invariant the code       *)
(* comments on in upsertDraft, and the two columns that both encode the    *)
(* review: a draft is with the broker in both or in neither, and a decided *)
(* draft carries its decision in both.                                     *)
(***************************************************************************)
OneActiveDraft ==
  \A r \in Rooms :
    /\ Cardinality({i \in DOMAIN drafts[r] : drafts[r][i].status # "abandoned"}) <= 1
    /\ \A i \in DOMAIN drafts[r] :
         LET d == drafts[r][i] IN
         IF d.status \in {"pending_review", "approved", "rejected"}
           THEN d.brokerReviewState = d.status
           ELSE d.brokerReviewState \in {"not_submitted", "rejected"}

\* A room has drafts only if a full-representation agreement of it was signed
\* once, however many rows were canceled, replaced or linked since.
DraftsUnderAgreement ==
  \A r \in Rooms : HasDraft(r) =>
    \E a \in InRoom(agreements, r) :
      /\ agreements[a].type = "full_representation"
      /\ agreements[a].status \notin Pending

\* The drafts of a room keep their shape, one of them is active, its two review
\* columns say the same, and an agreement stands behind them.
CockpitSound == CockpitTypeOK /\ OneActiveDraft /\ DraftsUnderAgreement

(***************************************************************************)
(* No shadow edits: from submission until a rejection reopens it, a draft  *)
(* keeps the version the broker is looking at, and an approved one keeps   *)
(* it forever, whatever the buyer's autosave, discard and resubmit calls.  *)
(***************************************************************************)
TermsFrozen(r) ==
  \A i \in DOMAIN drafts[r] :
    LET d == drafts[r][i] IN
    /\ d.status \in {"pending_review", "approved"} =>
         drafts'[r][i].version = d.version
    /\ d.status = "approved" => drafts'[r][i].status = "approved"

(***************************************************************************)
(* Nothing reaches the broker after a cancellation: a draft enters review  *)
(* only while a full-representation agreement of its room is signed or was *)
(* superseded by hand - never when all of them are canceled.               *)
(***************************************************************************)
EntersUnderAgreement(r) ==
  (HasDraft(r) /\ Latest(r).status # "pending_review" /\ Latest(r)'.status = "pending_review")
  => \E a \in InRoom(agreements, r) :
       /\ agreements[a].type = "full_representation"
       /\ agreements[a].status \in {"signed", "replaced"}

\* What the broker reviews was submitted under an agreement, and is what the
\* buyer submitted.
ReviewIsOfTheSubmission ==
  [][\A r \in Rooms : TermsFrozen(r) /\ EntersUnderAgreement(r)]_cockpitVars
=============================================================================
