---------------------------- MODULE DealReadiness ----------------------------
(***************************************************************************)
(* What keeps a buyer from the next step, and the one recommendation made  *)
(* of it: blockers and checkpoints, risks, and the next best action        *)
(* (src/lib/dealroom/buyer-readiness.ts, convex/dealRoomBuyerReadiness.ts, *)
(* convex/lib/riskSummary.ts, src/lib/dealroom/next-best-action.ts).       *)
(* One room.  The facts are those of other components, which change one at *)
(* a time; everything else is computed when somebody looks.                *)
(***************************************************************************)
EXTENDS FiniteSets, Naturals, Sequences

CONSTANTS DocTypes,        \* types of the one document that is on file
          LenderOutcomes,  \* verdicts of the lender-credit validation
          WithheldKinds,   \* "none", or why the recommendation is withheld
          MissingTones,    \* "none", or the tone of a missing signal of the case
          Leanings,        \* what the case says of the property: its confidence in
                           \* per cent, verdict, weakness, and conflict with the buyer
          Documentary      \* conditions that speak of a document

VARIABLES
  eligibility,   \* offerEligibilityState: blocking reason, "none" when eligible,
                 \* and the agreement it was computed from
  financing,     \* buyerProfiles: whether the purchase is covered, age of the letter
  lender,        \* newest lenderCreditValidations
  document,      \* fileAnalysisJobs: type and status
  evidence,      \* the dossier's offer_recommendation section
  transaction    \* newest offer, newest contract, one of its milestones

readinessVars == <<eligibility, financing, lender, document, evidence, transaction>>

Checkpoints == {"tour", "offer", "negotiate", "close"}
\* What the computation writes.  A canceled or replaced agreement keeps from what a
\* missing one keeps from.
Eligibilities == {[reason |-> "none", agreement |-> "full_representation"],
                  [reason |-> "tour_pass_only_no_full_rep", agreement |-> "tour_pass"],
                  [reason |-> "no_signed_agreement", agreement |-> "none"]}
Letters == {"clear", "expiring", "expired"}
JobStatuses == {"running", "review_required", "failed", "completed"}
EvidenceStates == {"waiting_on_evidence", "low", "supported"}

\* A milestone under review for a weak reason and for a grave one.
UnderReview == {"needs_review", "missing_required"}

When(condition, item) == IF condition THEN {item} ELSE {}
Blocker(id, effect, on) == [id |-> id, effect |-> effect, on |-> on]
-----------------------------------------------------------------------------
(* buildBuyerReadiness *)

\* A Tour Pass covers the tour, and is no missing agreement whatever the reason
\* says.  Nothing is asked of the agreement at the close.
AgreementBlockers ==
  When(eligibility.reason = "tour_pass_only_no_full_rep",
       Blocker("agreement", "blocks", {"offer", "negotiate"}))
  \cup When(eligibility.reason = "no_signed_agreement" /\ eligibility.agreement # "tour_pass",
            Blocker("agreement", "blocks", {"tour", "offer", "negotiate"}))

\* approved stands for cash, or for a financing type with a pre-approval that covers
\* the list price.  The age of the letter counts for cash buyers too.
FinancingBlockers ==
  LET on == {"offer", "negotiate", "close"}
  IN When(~financing.approved, Blocker("financing-approval", "blocks", on))
     \cup When(financing.letter = "expired", Blocker("financing-letter", "blocks", on))
     \cup When(financing.letter = "expiring", Blocker("financing-letter", "warns", on))
     \cup When(lender = "invalid", Blocker("financing-credit", "blocks", on))
     \cup When(lender = "review_required", Blocker("financing-credit", "warns", on))

ConfidenceBlockers ==
  When(evidence # "supported",
       Blocker("confidence", IF evidence = "low" THEN "warns" ELSE "blocks",
               {"offer", "negotiate"}))

DocumentCheckpoints ==
  CASE document.type \in {"seller_disclosure", "hoa_document", "inspection_report"} -> {"negotiate"}
    [] document.type = "loan_estimate" -> {"offer", "close"}
    [] document.type \in {"title_commitment", "purchase_contract", "survey", "appraisal"} -> {"close"}
    [] OTHER -> {}

DocumentBlockers ==
  When(DocumentCheckpoints # {} /\ document.status # "completed",
       Blocker("document", IF document.status = "running" THEN "warns" ELSE "blocks",
               DocumentCheckpoints))

\* accepted stands for every offer that is out: submitted and countered ones too.
NegotiationBlockers ==
  When(transaction.offer # "accepted",
       Blocker("negotiation", "blocks", {"negotiate"}))

CloseBlockers ==
  When(transaction.contract # "fully_executed", Blocker("contract", "blocks", {"close"}))
  \cup When(transaction.milestone = "overdue", Blocker("milestone", "blocks", {"close"}))
  \cup When(transaction.milestone \in UnderReview, Blocker("milestone", "warns", {"close"}))

Blockers == AgreementBlockers \cup FinancingBlockers \cup ConfidenceBlockers
            \cup DocumentBlockers \cup NegotiationBlockers \cup CloseBlockers

Scoped(checkpoint) == {b \in Blockers : checkpoint \in b.on}
CheckpointState(checkpoint) ==
  CASE Scoped(checkpoint) = {} -> "ready"
    [] \E b \in Scoped(checkpoint) : b.effect = "blocks" -> "blocked"
    [] OTHER -> "needs_attention"

\* dealRooms.status stays "intake": a room never leaves the stage "tour".
CurrentStage == "tour"
-----------------------------------------------------------------------------
(* composeRiskSummary, and what it adds to the conditions *)

\* A buyer does not see the risks that a milestone under review makes.
Risks(role, exposed) ==
  When(exposed, [id |-> "flood", severity |-> "high", review |-> "ready"])
  \cup When(role # "buyer" /\ transaction.milestone \in UnderReview,
            [id |-> "milestone-risk", review |-> "review_required",
             severity |-> IF transaction.milestone = "missing_required" THEN "high" ELSE "medium"])

RiskConditions(role, exposed) ==
  {[id |-> r.id, effect |-> IF r.review = "review_required" THEN r.review ELSE "warns"] :
      r \in {r \in Risks(role, exposed) : r.review = "review_required" \/ r.severity = "high"}}

ConfidenceConditions(overview) ==
  LET missing(id, tone) ==
        When(tone # "none",
             [id |-> id,
              effect |-> IF tone \in {"blocked", "review_required"} THEN "blocks" ELSE "warns"])
  IN When(overview.withheld # "none",
          [id |-> "withheld",
           effect |-> IF overview.withheld = "review_required" THEN overview.withheld ELSE "blocks"])
     \cup missing("missing", overview.missing) \cup missing("missing-too", overview.also)

Conditions(role, overview) ==
  {[id |-> b.id, effect |-> b.effect] : b \in Blockers}
  \cup RiskConditions(role, overview.exposed) \cup ConfidenceConditions(overview)
-----------------------------------------------------------------------------
(* buildPropertyRecommendation *)

EffectOrder == [blocks |-> 0, review_required |-> 100, warns |-> 200]

\* What the conditions are called, in the order of the titles; that of the
\* withheld output stands for any.
Titles == <<"contract", "flood", "milestone", "milestone-risk", "financing-credit", "document",
            "missing", "negotiation", "confidence", "missing-too", "financing-letter",
            "financing-approval", "withheld", "agreement">>
TitleOrder == [id \in {Titles[i] : i \in DOMAIN Titles} |->
                 CHOOSE i \in DOMAIN Titles : Titles[i] = id]

\* The first four of a list; no two conditions have one rank.
Cut(conditions, rank) ==
  LET ranks == {rank[c] : c \in conditions}
      first == {r \in ranks : Cardinality({q \in ranks : q < r}) < 4}
  IN IF Cardinality(conditions) <= 4 THEN conditions ELSE {c \in conditions : rank[c] \in first}

\* The list is cut before it is sorted by effect.
Kept_CutFirst(conditions) == Cut(conditions, [c \in conditions |-> TitleOrder[c.id]])

\* Four are shown, and only these four are looked at again.
Kept(conditions) ==
  Cut(conditions, [c \in conditions |-> EffectOrder[c.effect] + TitleOrder[c.id]])

\* What the buyer keeps turning away from counts before the verdict.
Direction(role, overview) ==
  LET case == overview.leaning
  IN IF case.confidence >= 72 /\ case.weak
          /\ \E r \in Risks(role, overview.exposed) : r.severity = "high" THEN "negative"
     ELSE IF case.conflicts THEN IF case.confidence >= 68 THEN "negative" ELSE "caution"
     ELSE IF case.verdict = "worth_pursuing" /\ case.confidence >= 68 THEN "positive"
     ELSE IF case.verdict = "pursue_with_caution" \/ case.confidence >= 55 THEN "caution"
     ELSE "unclear"

\* The panel asks for it when readiness is loaded, so there is a stage.
HasEffect(conditions, effect) == \E c \in conditions : c.effect = effect
Kind(role, overview) ==
  LET shown == Kept(Conditions(role, overview))
      onDocuments == \E c \in shown : c.id \in Documentary
      held == HasEffect(shown, "blocks") \/ HasEffect(shown, "review_required")
  IN IF Direction(role, overview) = "negative" THEN "skip"
     ELSE IF onDocuments THEN "ask_for_docs"
     ELSE IF Direction(role, overview) = "unclear" THEN "wait_and_watch"
     ELSE IF held THEN "proceed_with_conditions" ELSE CurrentStage

-----------------------------------------------------------------------------
ReadinessInit ==
  /\ eligibility = [reason |-> "no_signed_agreement", agreement |-> "none"]
  /\ financing = [approved |-> FALSE, letter |-> "clear"]
  /\ lender = "none"
  /\ document = [type |-> "none", status |-> "completed"]
  /\ evidence = "waiting_on_evidence"
  /\ transaction = [offer |-> "draft", contract |-> "none", milestone |-> "none"]

AgreementChanges ==
  /\ \E e \in Eligibilities \ {eligibility} : eligibility' = e
  /\ UNCHANGED <<financing, lender, document, evidence, transaction>>

ProfileChanges ==
  /\ \/ financing' = [financing EXCEPT !.approved = ~@]
     \/ \E letter \in Letters \ {financing.letter} : financing' = [financing EXCEPT !.letter = letter]
  /\ UNCHANGED <<eligibility, lender, document, evidence, transaction>>

LenderValidates ==
  /\ \E outcome \in LenderOutcomes \ {lender} : lender' = outcome
  /\ UNCHANGED <<eligibility, financing, document, evidence, transaction>>

DocumentMoves ==
  /\ \/ \E type \in DocTypes : document.type = "none" /\ document' = [type |-> type, status |-> "running"]
     \/ /\ document.type # "none"
        /\ \E status \in JobStatuses \ {document.status} : document' = [document EXCEPT !.status = status]
  /\ UNCHANGED <<eligibility, financing, lender, evidence, transaction>>

EvidenceChanges ==
  /\ \E e \in EvidenceStates \ {evidence} : evidence' = e
  /\ UNCHANGED <<eligibility, financing, lender, document, transaction>>

\* The newest offer may be another one than the contract was made of.
OfferProgresses ==
  /\ \E status \in {"draft", "approved", "accepted"} \ {transaction.offer} :
       transaction' = [transaction EXCEPT !.offer = status]
  /\ UNCHANGED <<eligibility, financing, lender, document, evidence>>

\* An open contract waits for signatures, or was amended or terminated.
ContractProgresses ==
  /\ transaction.contract = "none" => transaction.offer \in {"approved", "accepted"}
  /\ \E status \in {"open", "fully_executed"} \ {transaction.contract} :
       transaction' = [transaction EXCEPT !.contract = status]
  /\ UNCHANGED <<eligibility, financing, lender, document, evidence>>

\* "none" is a milestone that is neither overdue nor under review, too.
MilestoneProgresses ==
  /\ transaction.contract # "none"
  /\ \E status \in ({"none", "overdue"} \cup UnderReview) \ {transaction.milestone} :
       transaction' = [transaction EXCEPT !.milestone = status]
  /\ UNCHANGED <<eligibility, financing, lender, document, evidence>>

ReadinessNext == \/ AgreementChanges \/ ProfileChanges \/ LenderValidates
                 \/ DocumentMoves \/ EvidenceChanges
                 \/ OfferProgresses \/ ContractProgresses \/ MilestoneProgresses

ReadinessSpec == ReadinessInit /\ [][ReadinessNext]_readinessVars
-----------------------------------------------------------------------------
Overviews ==
  {overview \in [withheld : WithheldKinds, missing : MissingTones, also : MissingTones,
                 leaning : Leanings, exposed : BOOLEAN] :
     overview.missing = "none" => overview.also = "none"}
Blocked(checkpoint) == CheckpointState(checkpoint) = "blocked"

\* A buyer may negotiate only where an offer may be made, but for the loan
\* estimate, which nobody asks for at the table; may offer only where a tour may
\* be made; and closes on financing that would carry an offer.
CheckpointsInOrder ==
  /\ Blocked("tour") => Blocked("offer")
  /\ Blocked("offer") /\ ~Blocked("negotiate") => document.type = "loan_estimate"
  /\ ~Blocked("close") => \A b \in FinancingBlockers : b.effect = "warns"

\* "Tour it next" is said only to a buyer whom nothing blocks and nothing holds
\* for a review, whatever was cut off the list; a broker who reads it can rely on
\* the buyer reading it too; and no buyer is told to skip what the broker is not.
AdviceIsClear ==
  \A overview \in Overviews :
    LET buyers == Kind("buyer", overview)  brokers == Kind("broker", overview)
    IN /\ buyers = "tour" =>
            /\ \A c \in Conditions("buyer", overview) : c.effect = "warns"
            /\ \A checkpoint \in Checkpoints : ~Blocked(checkpoint)
       /\ brokers = "tour" => buyers = "tour" /\ transaction.milestone \notin UnderReview
       /\ buyers = "skip" => brokers = "skip"

ReadinessSound == CheckpointsInOrder /\ AdviceIsClear

=============================================================================
