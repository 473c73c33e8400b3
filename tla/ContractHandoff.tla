--------------------------- MODULE ContractHandoff ---------------------------
(***************************************************************************)
(* Turning an offer into a contract that is out for signature              *)
(* (convex/contracts.ts, convex/http.ts), while the offer may still be     *)
(* countered.                                                              *)
(*                                                                         *)
(* createFromOffer is an action: only the mutations it calls are           *)
(* transactions, so each of its awaits is a step of its own, calls for one *)
(* offer overlap, and a call can stop between any two steps.  Sabal Sign   *)
(* posts webhooks until one is answered with 200, in any order and perhaps *)
(* more than once.                                                         *)
(***************************************************************************)
EXTENDS CounterOffers

CONSTANTS
  Calls,                \* calls of createFromOffer; also the ids of the rows
                        \* and of the envelope that a call creates
  Events,               \* webhook events that are sent
  Decided,              \* statuses a broker gives a contract by hand
  WebhooksNameContract  \* webhook payloads carry the contractId

ASSUME ContractHandoffAssumption ==
  /\ "sent" \in Events /\ Events \subseteq {"sent", "viewed", "signed", "declined"}
  /\ Decided \subseteq {"fully_executed", "amended", "terminated"}
  /\ WebhooksNameContract \in BOOLEAN

VARIABLES
  calls,            \* the calls: how far they are, and what they have read
  runs,             \* contractAdapterRuns
  contracts,        \* contracts
  signatureEvents,  \* contractSignatureEvents: per contract, the events recorded
  envelopes,        \* Sabal Sign: the signature envelopes
  webhooks          \* Sabal Sign: the webhooks not answered with 200 yet

handoff == <<calls, runs, contracts, signatureEvents, envelopes, webhooks>>
handoffVars == <<negotiation, handoff>>

NoRow == [status |-> "absent", handoffStatus |-> "absent"]
NoCall == [pc |-> "idle"]

Steps == {"loaded", "mapped", "recorded", "synced", "submitted", "form_recorded",
          "sent", "failing", "done", "crashed"}
HandoffStatuses == {"validation_blocked", "ready", "form_submitted",
                    "signature_sent", "signed", "declined", "failed"}

Call == [pc : Steps, offerId : Offers, offerStatus : {"approved", "accepted"},
         purchasePrice : Prices]
Run == [status : (HandoffStatuses \ {"ready"}) \cup {"mapped"},
        handoffStatus : HandoffStatuses, purchasePrice : Prices]
Contract == [offerId : Offers, handoffStatus : HandoffStatuses,
             status : {"pending_signatures", "fully_executed", "amended", "terminated"},
             hasEnvelopeId : BOOLEAN, milestones : BOOLEAN]
Webhook == [envelopeId : Calls, event : Events]

ContractRows == {c \in Calls : contracts[c] # NoRow}

\* Call c goes on from one step to the next.
Goes(c, from, to) ==
  /\ calls[c].pc = from
  /\ calls' = [calls EXCEPT ![c].pc = to]
-----------------------------------------------------------------------------
(***************************************************************************)
(* The mutations.  updateHandoffStateInternal writes run and contract, or  *)
(* the run alone as long as there is no contract.                          *)
(***************************************************************************)

UpdateHandoffState(c, status) ==
  /\ runs' = [runs EXCEPT ![c].status = status, ![c].handoffStatus = status]
  /\ contracts' = IF contracts[c] = NoRow THEN contracts
                    ELSE [contracts EXCEPT ![c].handoffStatus = status]

\* recordSignatureEvent, whatever happened to the contract before.
RecordSignatureEvent(c, event) ==
  /\ signatureEvents' = [signatureEvents EXCEPT ![c] = @ \cup {event}]
  /\ CASE event = "sent" -> UpdateHandoffState(c, "signature_sent")
       [] event = "declined" -> UpdateHandoffState(c, "declined")
       [] event = "viewed" -> UNCHANGED <<runs, contracts>>
       [] event = "signed" ->
            /\ runs' = [runs EXCEPT ![c].status = "signed",
                                    ![c].handoffStatus = "signed"]
            /\ contracts' = [contracts EXCEPT ![c].handoffStatus = "signed",
                                              ![c].status = "fully_executed"]
-----------------------------------------------------------------------------
(***************************************************************************)
(* createFromOffer, await by await.                                        *)
(***************************************************************************)
LoadContext(c, o) ==
  /\ calls[c] = NoCall
  /\ offers[o].status \in {"approved", "accepted"}
  /\ calls' = [calls EXCEPT ![c] =
                 [pc |-> "loaded", offerId |-> o, offerStatus |-> offers[o].status,
                  purchasePrice |-> offers[o].offerPrice]]
  /\ UNCHANGED <<runs, contracts, signatureEvents, envelopes, webhooks>>

\* The adapter maps the context, or misses fields and ends the call.
CreateAdapterRun(c) ==
  \E status \in {"mapped", "validation_blocked"} :
    /\ Goes(c, "loaded", IF status = "mapped" THEN "mapped" ELSE "done")
    /\ runs' = [runs EXCEPT ![c] =
         [status |-> status, purchasePrice |-> calls[c].purchasePrice,
          handoffStatus |-> IF status = "mapped" THEN "ready" ELSE status]]
    /\ UNCHANGED <<contracts, signatureEvents, envelopes, webhooks>>

MissProviderConfig(c) ==
  /\ Goes(c, "mapped", "done")
  /\ UpdateHandoffState(c, "failed")
  /\ UNCHANGED <<signatureEvents, envelopes, webhooks>>

CreateContractRecord(c) ==
  /\ Goes(c, "mapped", "recorded")
  /\ contracts' = [contracts EXCEPT ![c] =
       [offerId |-> calls[c].offerId, handoffStatus |-> "ready",
        status |-> "pending_signatures", hasEnvelopeId |-> FALSE,
        milestones |-> FALSE]]
  /\ UNCHANGED <<runs, signatureEvents, envelopes, webhooks>>

SyncContractMilestones(c) ==
  /\ Goes(c, "recorded", "synced")
  /\ contracts' = [contracts EXCEPT ![c].milestones = TRUE]
  /\ UNCHANGED <<runs, signatureEvents, envelopes, webhooks>>

SubmitToFormSimplicity(c) ==
  /\ Goes(c, "synced", "submitted") \/ Goes(c, "synced", "failing")
  /\ UNCHANGED <<runs, contracts, signatureEvents, envelopes, webhooks>>

RecordForm(c) ==
  /\ Goes(c, "submitted", "form_recorded")
  /\ UpdateHandoffState(c, "form_submitted")
  /\ UNCHANGED <<signatureEvents, envelopes, webhooks>>

\* Mutant: a failing request for an envelope is not caught.
CreateSabalSignatureEnvelope_Uncaught(c) ==
  \/ /\ Goes(c, "form_recorded", "done")
     /\ UNCHANGED <<envelopes, webhooks, runs, contracts, signatureEvents>>
  \/ /\ Goes(c, "form_recorded", "sent")
     /\ envelopes' = [envelopes EXCEPT ![c] = "sent"]
     /\ webhooks' = webhooks \cup {[envelopeId |-> c, event |-> "sent"]}
     /\ UNCHANGED <<runs, contracts, signatureEvents>>

\* The envelope may exist although its request fails for the caller.
CreateSabalSignatureEnvelope(c) ==
  /\ \/ Goes(c, "form_recorded", "failing") /\ UNCHANGED <<envelopes, webhooks>>
     \/ /\ Goes(c, "form_recorded", "sent") \/ Goes(c, "form_recorded", "failing")
        /\ envelopes' = [envelopes EXCEPT ![c] = "sent"]
        /\ webhooks' = webhooks \cup {[envelopeId |-> c, event |-> "sent"]}
  /\ UNCHANGED <<runs, contracts, signatureEvents>>

RecordEnvelope(c) ==
  /\ Goes(c, "sent", "done")
  /\ runs' = [runs EXCEPT ![c].status = "signature_sent",
                          ![c].handoffStatus = "signature_sent"]
  /\ contracts' = [contracts EXCEPT ![c].handoffStatus = "signature_sent",
                                    ![c].hasEnvelopeId = TRUE]
  /\ UNCHANGED <<signatureEvents, envelopes, webhooks>>

RecordRunFailure(c) ==
  /\ Goes(c, "failing", "done")
  /\ UpdateHandoffState(c, "failed")
  /\ UNCHANGED <<signatureEvents, envelopes, webhooks>>

Continue(c) ==
  \/ CreateAdapterRun(c) \/ MissProviderConfig(c) \/ CreateContractRecord(c)
  \/ SyncContractMilestones(c) \/ SubmitToFormSimplicity(c) \/ RecordForm(c)
  \/ CreateSabalSignatureEnvelope(c) \/ RecordEnvelope(c) \/ RecordRunFailure(c)

\* The process that runs the action is gone; nothing takes the call up again.
Crash(c) ==
  /\ calls[c].pc \in Steps \ {"done", "crashed"}
  /\ calls' = [calls EXCEPT ![c].pc = "crashed"]
  /\ UNCHANGED <<runs, contracts, signatureEvents, envelopes, webhooks>>
-----------------------------------------------------------------------------
(***************************************************************************)
(* The signers, the webhooks and the broker.                               *)
(***************************************************************************)

\* External: a signer looks at an envelope, signs it or declines.
SignerActs(c, event) ==
  /\ envelopes[c] = "sent"
  /\ event \in {"viewed", "signed", "declined"}
  /\ [envelopeId |-> c, event |-> event] \notin webhooks
  /\ envelopes' = IF event = "viewed" THEN envelopes
                    ELSE [envelopes EXCEPT ![c] = event]
  /\ webhooks' = webhooks \cup {[envelopeId |-> c, event |-> event]}
  /\ UNCHANGED <<calls, runs, contracts, signatureEvents>>

\* Mutant: the contract is looked up by the offer of the envelope.
WebhookTarget_ByOffer(m) ==
  {c \in ContractRows : contracts[c].offerId = calls[m.envelopeId].offerId}

\* Mutant: only the envelope id is looked up.
WebhookTarget_ByEnvelope(m) ==
  {c \in ContractRows : c = m.envelopeId /\ contracts[c].hasEnvelopeId}

\* The contract named in the payload, or the one with the envelope's id.
WebhookTarget(m) ==
  {c \in ContractRows : /\ c = m.envelopeId
                        /\ WebhooksNameContract \/ contracts[c].hasEnvelopeId}

\* processSignatureWebhook.  The lookup and recordSignatureEvent are two
\* transactions; contracts stay and keep their ids, so what was found is found
\* still.  An event without contract is ignored and answered with 200 as well.
DeliverWebhook(m, again) ==
  /\ \/ \E c \in WebhookTarget(m) : RecordSignatureEvent(c, m.event)
     \/ WebhookTarget(m) = {} /\ UNCHANGED <<runs, contracts, signatureEvents>>
  /\ webhooks' = IF again THEN webhooks ELSE webhooks \ {m}
  /\ UNCHANGED <<calls, envelopes>>

UpdateStatus(c, status) ==
  /\ contracts' = [contracts EXCEPT ![c].status = status]
  /\ contracts' # contracts
  /\ UNCHANGED <<calls, runs, signatureEvents, envelopes, webhooks>>
-----------------------------------------------------------------------------
HandoffInit ==
  /\ NegotiationInit
  /\ calls = [c \in Calls |-> NoCall]
  /\ runs = [c \in Calls |-> NoRow]
  /\ contracts = [c \in Calls |-> NoRow]
  /\ signatureEvents = [c \in Calls |-> {}]
  /\ envelopes = [c \in Calls |-> "none"]
  /\ webhooks = {}

HandoffStep ==
  \/ \E c \in Calls : \/ \E o \in Offers : LoadContext(c, o)
                      \/ Continue(c)
                      \/ Crash(c)
                      \/ \E event \in Events : SignerActs(c, event)
  \/ \E m \in webhooks, again \in BOOLEAN : DeliverWebhook(m, again)
  \/ \E c \in ContractRows, status \in Decided : UpdateStatus(c, status)

HandoffNext ==
  \/ HandoffStep /\ UNCHANGED negotiation
  \/ NegotiationNext /\ UNCHANGED handoff

HandoffSpec == HandoffInit /\ [][HandoffNext]_handoffVars

\* A call that has not crashed goes on, and a webhook is posted until it is
\* answered with 200.
Progress ==
  /\ \A c \in Calls : WF_handoffVars(Continue(c) /\ UNCHANGED negotiation)
  /\ \A m \in Webhook : WF_handoffVars(/\ m \in webhooks
                                       /\ DeliverWebhook(m, FALSE)
                                       /\ UNCHANGED negotiation)

FairHandoffSpec == HandoffSpec /\ Progress
-----------------------------------------------------------------------------
\* Shape of the tables and of the calls.
HandoffTypeOK ==
  /\ calls \in [Calls -> Call \cup {NoCall}]
  /\ runs \in [Calls -> Run \cup {NoRow}]
  /\ contracts \in [Calls -> Contract \cup {NoRow}]
  /\ signatureEvents \in [Calls -> SUBSET Events]
  /\ envelopes \in [Calls -> {"none", "sent", "signed", "declined"}]
  /\ webhooks \subseteq Webhook

(***************************************************************************)
(* A run and its contract are written by an action, by its error handler   *)
(* and by webhooks that overtake both, and always tell the same            *)
(* handoffStatus.                                                          *)
(***************************************************************************)
RunMirrorsContract ==
  \A c \in ContractRows : /\ runs[c] # NoRow
                          /\ runs[c].handoffStatus = contracts[c].handoffStatus

(***************************************************************************)
(* No contract shows the signature of another: a contract is signed or     *)
(* declined only if its own envelope was, also when two contracts of one   *)
(* offer are out for signature, and only after its milestones were synced. *)
(***************************************************************************)
HandoffMatchesEnvelope ==
  \A c \in ContractRows :
    contracts[c].handoffStatus \in {"signed", "declined"} =>
      /\ envelopes[c] = contracts[c].handoffStatus
      /\ contracts[c].milestones

(***************************************************************************)
(* No answer of a signer is lost, although the call may have crashed, the  *)
(* envelope id may not be stored yet and webhooks come in any order: it is *)
(* recorded, or a webhook under way still carries it and will find the     *)
(* contract.  It needs webhooks that name the contract, see                *)
(* SignatureRecorded.                                                      *)
(***************************************************************************)
AnswersNotLost ==
  \A c \in Calls :
    WebhooksNameContract /\ envelopes[c] \in {"signed", "declined"} =>
      \/ envelopes[c] \in signatureEvents[c]
      \/ \E m \in webhooks : m.event = envelopes[c] /\ WebhookTarget(m) = {c}

\* The two records of one handoff never disagree with each other, nor with
\* what was signed, and what was signed reaches them.
HandoffSound ==
  HandoffTypeOK /\ RunMirrorsContract /\ HandoffMatchesEnvelope /\ AnswersNotLost

(***************************************************************************)
(* An adapter run is not left half way: unless the process dies, it is     *)
(* blocked, failed or out for signature at some point.                     *)
(***************************************************************************)
RunsSettle ==
  \A c \in Calls :
    runs[c] # NoRow ~>
      \/ runs[c].status \notin {"mapped", "form_submitted"}
      \/ calls[c].pc = "crashed"

(***************************************************************************)
(* A signed envelope is recorded on its contract at some point, in         *)
(* whatever order the webhook, the answer with the envelope id and the     *)
(* mutation that stores it come, and although the call may crash between   *)
(* them.  This needs webhooks that name the contract: one that carries the *)
(* envelope id alone and comes before it is stored is answered with 200    *)
(* and "ignored", and not sent again.                                      *)
(***************************************************************************)
SignatureRecorded ==
  \A c \in Calls : envelopes[c] = "signed" ~> "signed" \in signatureEvents[c]

(***************************************************************************)
(* A contract for an offer that was accepted through a counter carries the *)
(* accepted price, the one respondToCounter records for calibration.  The  *)
(* code hands over the price of the original offer.                        *)
(***************************************************************************)
ContractAtAgreedPrice ==
  \A c \in ContractRows :
    LET chain == counterOffers[calls[c].offerId] IN
    calls[c].offerStatus = "accepted" /\ chain # <<>> =>
      runs[c].purchasePrice = Newest(chain).price
=============================================================================
