----------------------------- MODULE HandoffProofs -----------------------------
(***************************************************************************)
(* Theorems about CounterOffers, ContractHandoff and EngineOutputs, for    *)
(* any number of offers, counters, calls and webhooks, and any catalog of  *)
(* prompts, outputs and runs of engines.                                   *)
(***************************************************************************)
EXTENDS ContractHandoff, EngineOutputs, FiniteFacts

-----------------------------------------------------------------------------
(***************************************************************************)
(* The negotiation.  Its invariant is inductive as it stands: a record is  *)
(* only about a chain whose newest counter is answered, and such a chain   *)
(* is never touched again.                                                 *)
(***************************************************************************)
LEMMA NoRecordIsNone ==
  /\ NoRecord \notin Backtest /\ NoRecord \notin Calibration
  /\ \A d \in Decisions : d # "none"
  BY DEF NoRecord, Backtest, Calibration, Decisions

\* A chain of typed counters, and its newest row.
LEMMA ChainFacts ==
  ASSUME NegotiationTypeOK, NEW o \in Offers
  PROVE  /\ counterOffers[o] \in Seq(Counter)
         /\ Len(counterOffers[o]) \in Nat
         /\ DOMAIN counterOffers[o] = 1 .. Len(counterOffers[o])
         /\ counterOffers[o] # <<>> => /\ Len(counterOffers[o]) \in 1 .. MaxCounters
                                       /\ Newest(counterOffers[o]) \in Counter
  <1>1. counterOffers[o] \in Seq(Counter) /\ Len(counterOffers[o]) <= MaxCounters
    BY DEF NegotiationTypeOK
  <1>2. counterOffers[o] # <<>> => Len(counterOffers[o]) \in DOMAIN counterOffers[o]
    BY <1>1, EmptySeq, LenProperties
  <1> QED
    BY <1>1, <1>2, LenProperties, ElementOfSeq, CounterOffersAssumption DEF Newest

LEMMA InitNegotiationSound == NegotiationInit => NegotiationSound
  <1> SUFFICES ASSUME NegotiationInit PROVE NegotiationSound
    OBVIOUS
  <1>1. \A o \in Offers : counterOffers[o] = <<>> /\ Len(counterOffers[o]) = 0
    BY DEF NegotiationInit
  <1>2. NegotiationTypeOK
    BY <1>1, CounterOffersAssumption DEF NegotiationInit, NegotiationTypeOK
  <1>3. ChainAlternates /\ OfferFollowsChain
    BY <1>1 DEF ChainAlternates, OfferFollowsChain
  <1>4. RecordsStayTrue
    BY DEF NegotiationInit, RecordsStayTrue
  <1> QED
    BY <1>2, <1>3, <1>4 DEF NegotiationSound

\* An answered counter is the newest one of its chain.
LEMMA PendingIsNewest ==
  ASSUME NegotiationSound, NEW o \in Offers, NEW i \in DOMAIN counterOffers[o],
         counterOffers[o][i].status = "pending"
  PROVE  i = Len(counterOffers[o])
  BY ChainFacts DEF NegotiationSound, ChainAlternates

\* What is recorded of an offer is about a chain that has ended.
LEMMA RecordedChainsEnded ==
  ASSUME NegotiationSound, NEW o \in Offers,
         \/ counterOffers[o] = <<>>
         \/ Newest(counterOffers[o]).status = "pending"
  PROVE  /\ backtests[o] = NoRecord
         /\ \A e \in Outputs : calibrations[e] # NoRecord => calibrations[e].offerId # o
  <1>1. counterOffers[o] = <<>> => Len(counterOffers[o]) = 0
    OBVIOUS
  <1>2. backtests[o] = NoRecord
    <2> SUFFICES ASSUME backtests[o] # NoRecord PROVE FALSE
      OBVIOUS
    <2>1. backtests[o] \in Backtest
      BY DEF NegotiationSound, NegotiationTypeOK
    <2>2. /\ backtests[o].outcome \in Decisions
          /\ backtests[o].countersMade \in 1 .. MaxCounters
      BY <2>1 DEF Backtest
    <2> QED
      BY <1>1, <2>2 DEF NegotiationSound, RecordsStayTrue, Decisions
  <1>3. ASSUME NEW e \in Outputs, calibrations[e] # NoRecord PROVE calibrations[e].offerId # o
    <2>1. calibrations[e] \in Calibration
      BY <1>3 DEF NegotiationSound, NegotiationTypeOK
    <2>2. calibrations[e].countersMade \in 1 .. MaxCounters
      BY <2>1 DEF Calibration
    <2> QED
      BY <1>1, <1>3, <2>2 DEF NegotiationSound, RecordsStayTrue
  <1> QED
    BY <1>2, <1>3

LEMMA AppendKeepsNegotiationSound ==
  ASSUME NegotiationSound, NEW o \in Offers, NEW party \in Parties, NEW price \in Prices,
         AppendCounter(o, party, price)
  PROVE  NegotiationSound'
  <1> DEFINE chain == counterOffers[o]
             old == SupersededChain(chain)
             row == [fromParty |-> party, price |-> price, status |-> "pending"]
  <1>1. /\ chain \in Seq(Counter) /\ Len(chain) \in Nat /\ DOMAIN chain = 1 .. Len(chain)
        /\ chain # <<>> => /\ Len(chain) \in 1 .. MaxCounters
                           /\ chain[Len(chain)].status = "pending"
                           /\ chain[Len(chain)].fromParty # party
    BY ChainFacts DEF NegotiationSound, AppendCounter, CanAppendCounter, Newest
  <1>2. row \in Counter
    BY DEF Counter, Decisions
  <1>3. /\ old \in Seq(Counter) /\ Len(old) = Len(chain)
        /\ \A i \in 1 .. Len(chain) :
             /\ i # Len(chain) => old[i] = chain[i]
             /\ i = Len(chain) => old[i].status = "superseded"
             /\ old[i].fromParty = chain[i].fromParty
    <2>1. \A i \in 1 .. Len(chain) : chain[i] \in Counter
      BY <1>1, ElementOfSeq
    <2>2. \A i \in 1 .. Len(chain) : old[i] \in Counter
      BY <1>1, <2>1 DEF SupersededChain, Counter
    <2>3. old \in [1 .. Len(chain) -> Counter]
      BY <1>1, <2>2 DEF SupersededChain
    <2> QED
      BY <1>1, <2>1, <2>3, IsASeq DEF SupersededChain, Counter
  <1>4. /\ counterOffers' = [counterOffers EXCEPT ![o] = Append(old, row)]
        /\ offers' = [offers EXCEPT ![o].status = "countered"]
        /\ UNCHANGED <<backtests, calibrations>>
        /\ Len(chain) < MaxCounters
    BY DEF AppendCounter, PromoteOffer
  <1>5. /\ counterOffers'[o] \in Seq(Counter) /\ Len(counterOffers'[o]) = Len(chain) + 1
        /\ counterOffers'[o][Len(chain) + 1] = row
        /\ \A i \in 1 .. Len(chain) : counterOffers'[o][i] = old[i]
        /\ \A p \in Offers \ {o} : counterOffers'[p] = counterOffers[p]
    BY <1>2, <1>3, <1>4, AppendProperties DEF NegotiationSound, NegotiationTypeOK
  <1>6. NegotiationTypeOK'
    <2>1. offers' \in [Offers -> Offer]
      BY <1>4 DEF NegotiationSound, NegotiationTypeOK, Offer, OfferStatuses
    <2>2. counterOffers' \in [Offers -> Seq(Counter)]
      BY <1>4, <1>5 DEF NegotiationSound, NegotiationTypeOK
    <2> QED
      BY <1>1, <1>4, <1>5, <2>1, <2>2, CounterOffersAssumption
      DEF NegotiationSound, NegotiationTypeOK
  <1>7. ChainAlternates'
    <2> SUFFICES ASSUME NEW p \in Offers, NEW i \in 1 .. Len(counterOffers'[p]) - 1
                 PROVE  /\ counterOffers'[p][i].status = "superseded"
                        /\ counterOffers'[p][i].fromParty # counterOffers'[p][i + 1].fromParty
      BY DEF ChainAlternates
    <2>1. CASE p # o
      BY <1>5, <2>1 DEF NegotiationSound, ChainAlternates
    <2>2. CASE p = o
      <3>1. i \in 1 .. Len(chain)
        BY <1>1, <1>5, <2>2
      <3>2. CASE i = Len(chain)
        BY <1>1, <1>3, <1>5, <2>2, <3>1, <3>2
      <3>3. CASE i # Len(chain)
        <4>1. /\ i \in 1 .. Len(chain) - 1 /\ i + 1 \in 1 .. Len(chain)
              /\ chain[i + 1] \in Counter
          BY <1>1, <3>1, <3>3, ElementOfSeq
        <4>2. chain[i].status = "superseded" /\ chain[i].fromParty # chain[i + 1].fromParty
          BY <4>1 DEF NegotiationSound, ChainAlternates
        <4>3. /\ counterOffers'[p][i] = chain[i]
              /\ counterOffers'[p][i + 1].fromParty = chain[i + 1].fromParty
          BY <1>3, <1>5, <2>2, <3>1, <3>3, <4>1
        <4> QED
          BY <4>2, <4>3
      <3> QED
        BY <3>2, <3>3
    <2> QED
      BY <2>1, <2>2
  <1>8. OfferFollowsChain'
    <2>1. offers'[o].status = "countered" /\ \A p \in Offers \ {o} : offers'[p] = offers[p]
      BY <1>4 DEF NegotiationSound, NegotiationTypeOK
    <2>2. counterOffers'[o][Len(counterOffers'[o])].status = "pending"
      BY <1>5
    <2> QED
      BY <1>5, <2>1, <2>2 DEF NegotiationSound, OfferFollowsChain, Newest
  <1>9. RecordsStayTrue'
    <2>1. backtests[o] = NoRecord
      BY <1>1, RecordedChainsEnded DEF Newest
    <2>2. \A e \in Outputs : calibrations[e] # NoRecord => calibrations[e].offerId # o
      BY <1>1, RecordedChainsEnded DEF Newest
    <2>3. \A e \in Outputs : calibrations[e] # NoRecord => calibrations[e].offerId \in Offers
      BY DEF NegotiationSound, NegotiationTypeOK, Calibration
    <2> QED
      BY <1>4, <1>5, <2>1, <2>2, <2>3 DEF NegotiationSound, RecordsStayTrue, Newest
  <1> QED
    BY <1>6, <1>7, <1>8, <1>9 DEF NegotiationSound

LEMMA RespondKeepsNegotiationSound ==
  ASSUME NegotiationSound, NEW o \in Offers, NEW i \in DOMAIN counterOffers[o],
         NEW decision \in Decisions, RespondToCounter(o, i, decision)
  PROVE  NegotiationSound'
  <1> DEFINE chain == counterOffers[o]
             price == chain[i].price
  <1>1. /\ chain \in Seq(Counter) /\ DOMAIN chain = 1 .. Len(chain)
        /\ i = Len(chain) /\ i \in 1 .. MaxCounters
        /\ chain[i] \in Counter /\ chain[i].status = "pending"
        /\ chain # <<>> /\ price \in Prices
    <2>1. chain[i].status = "pending"
      BY DEF RespondToCounter
    <2>2. chain # <<>> /\ i = Len(chain)
      BY <2>1, PendingIsNewest, EmptySeq
    <2> QED
      BY <2>1, <2>2, ChainFacts DEF NegotiationSound, Newest, Counter
  <1>2. /\ counterOffers' = [counterOffers EXCEPT ![o] = [@ EXCEPT ![i].status = decision]]
        /\ RecordBacktest(o, decision, price)
        /\ IF decision = "accepted" /\ offers[o].status \notin Decisions
             THEN /\ offers' = [offers EXCEPT ![o].status = "accepted"]
                  /\ RecordCalibration(o, price)
             ELSE UNCHANGED <<offers, calibrations>>
    BY DEF RespondToCounter
  <1>3. /\ counterOffers'[o] \in Seq(Counter) /\ Len(counterOffers'[o]) = Len(chain)
        /\ counterOffers'[o][i] = [chain[i] EXCEPT !.status = decision]
        /\ \A k \in 1 .. Len(chain) : k # i => counterOffers'[o][k] = chain[k]
        /\ \A p \in Offers \ {o} : counterOffers'[p] = counterOffers[p]
    <2>1. [chain[i] EXCEPT !.status = decision] \in Counter
      BY <1>1 DEF Counter
    <2>2. counterOffers'[o] = [chain EXCEPT ![i] = [chain[i] EXCEPT !.status = decision]]
      BY <1>2 DEF NegotiationSound, NegotiationTypeOK
    <2> QED
      BY <1>1, <1>2, <2>1, <2>2, ExceptSeq DEF NegotiationSound, NegotiationTypeOK
  <1>4. backtests[o] = NoRecord
        /\ \A e \in Outputs : calibrations[e] # NoRecord => calibrations[e].offerId # o
    BY <1>1, RecordedChainsEnded DEF Newest
  <1>5. offers[o].status = "countered"
    BY <1>1 DEF NegotiationSound, OfferFollowsChain, Newest
  <1>6. /\ offers' \in [Offers -> Offer]
        /\ offers'[o].status = IF decision = "accepted" THEN "accepted" ELSE "countered"
        /\ \A p \in Offers \ {o} : offers'[p] = offers[p]
    <2>1. offers \in [Offers -> Offer]
      BY DEF NegotiationSound, NegotiationTypeOK
    <2>2. CASE decision = "accepted"
      <3>1. offers' = [offers EXCEPT ![o].status = "accepted"]
        BY <1>2, <1>5, <2>2 DEF Decisions
      <3>2. PICK row : row = [offers[o] EXCEPT !.status = "accepted"]
        OBVIOUS
      <3>3. row \in Offer /\ row.status = "accepted"
        BY <2>1, <3>2 DEF Offer, OfferStatuses
      <3> QED
        BY ONLY <2>1, <2>2, <3>1, <3>2, <3>3, o \in Offers
    <2>3. CASE decision # "accepted"
      BY <1>2, <1>5, <2>1, <2>3
    <2> QED
      BY <2>2, <2>3
  <1> DEFINE backtest == [outcome |-> decision,
                          acceptedPrice |-> IF decision = "accepted" THEN price ELSE NoPrice,
                          countersMade |-> Len(chain)]
             calibration == [outcome |-> "accepted", offerId |-> o, acceptedPrice |-> price,
                             countersMade |-> Len(chain)]
  <1>7. /\ backtest \in Backtest
        /\ \/ backtests' = [backtests EXCEPT ![o] = backtest]
           \/ backtests' = backtests
    BY <1>1, <1>2 DEF RecordBacktest, Backtest
  <1>8. /\ calibration \in Calibration
        /\ \/ /\ decision = "accepted"
              /\ \E e \in Outputs : calibrations' = [calibrations EXCEPT ![e] = calibration]
           \/ calibrations' = calibrations
    BY <1>1, <1>2 DEF RecordCalibration, Calibration
  <1>9. NegotiationTypeOK'
    <2>1. counterOffers' \in [Offers -> Seq(Counter)]
      BY <1>2, <1>3 DEF NegotiationSound, NegotiationTypeOK
    <2>2. \A p \in Offers : Len(counterOffers'[p]) <= MaxCounters
      BY <1>3 DEF NegotiationSound, NegotiationTypeOK
    <2>3. backtests' \in [Offers -> Backtest \cup {NoRecord}]
      BY <1>7 DEF NegotiationSound, NegotiationTypeOK
    <2>4. calibrations' \in [Outputs -> Calibration \cup {NoRecord}]
      BY <1>8 DEF NegotiationSound, NegotiationTypeOK
    <2> QED
      BY <1>6, <2>1, <2>2, <2>3, <2>4 DEF NegotiationTypeOK
  <1>10. ChainAlternates'
    <2> SUFFICES ASSUME NEW p \in Offers, NEW k \in 1 .. Len(counterOffers'[p]) - 1
                 PROVE  /\ counterOffers'[p][k].status = "superseded"
                        /\ counterOffers'[p][k].fromParty # counterOffers'[p][k + 1].fromParty
      BY DEF ChainAlternates
    <2>1. CASE p # o
      BY <1>3, <2>1 DEF NegotiationSound, ChainAlternates
    <2>2. CASE p = o
      <3>1. k \in 1 .. Len(chain) - 1 /\ k # i /\ k + 1 \in 1 .. Len(chain)
        BY <1>1, <1>3, <2>2
      <3>2. chain[k].status = "superseded" /\ chain[k].fromParty # chain[k + 1].fromParty
        BY <3>1 DEF NegotiationSound, ChainAlternates
      <3>3. counterOffers'[o][k + 1].fromParty = chain[k + 1].fromParty
        BY <1>1, <1>3, <3>1 DEF Counter
      <3> QED
        BY <1>3, <2>2, <3>1, <3>2, <3>3
    <2> QED
      BY <2>1, <2>2
  <1>11. OfferFollowsChain'
    <2>1. counterOffers'[o][Len(counterOffers'[o])].status = decision
      BY <1>1, <1>3 DEF Counter
    <2> QED
      BY <1>3, <1>6, <2>1 DEF NegotiationSound, OfferFollowsChain, Newest
  <1>12. RecordsStayTrue'
    <2>1. /\ counterOffers'[o][Len(counterOffers'[o])].status = decision
          /\ counterOffers'[o][Len(counterOffers'[o])].price = price
      BY <1>1, <1>3 DEF Counter
    <2>2. ASSUME NEW p \in Offers, backtests'[p] # NoRecord
          PROVE  LET record == backtests'[p] IN
                 /\ Len(counterOffers'[p]) = record.countersMade
                 /\ Newest(counterOffers'[p]).status = record.outcome
                 /\ record.acceptedPrice = IF record.outcome = "accepted"
                                             THEN Newest(counterOffers'[p]).price ELSE NoPrice
      <3>1. CASE p = o
        <4>1. backtests'[o] = backtest
          BY <1>4, <1>7, <2>2, <3>1 DEF NegotiationSound, NegotiationTypeOK
        <4> QED
          BY <1>3, <2>1, <3>1, <4>1 DEF Newest
      <3>2. CASE p # o
        <4>1. backtests'[p] = backtests[p]
          BY <1>7, <3>2 DEF NegotiationSound, NegotiationTypeOK
        <4> QED
          BY <1>3, <2>2, <3>2, <4>1 DEF NegotiationSound, RecordsStayTrue
      <3> QED
        BY <3>1, <3>2
    <2>3. ASSUME NEW e \in Outputs, calibrations'[e] # NoRecord
          PROVE  LET record == calibrations'[e]
                     ended == counterOffers'[record.offerId]
                 IN /\ Len(ended) = record.countersMade
                    /\ Newest(ended).status = "accepted"
                    /\ Newest(ended).price = record.acceptedPrice
      <3>1. CASE calibrations'[e] = calibrations[e]
        <4>1. calibrations[e].offerId \in Offers \ {o}
          BY <1>4, <2>3, <3>1 DEF NegotiationSound, NegotiationTypeOK, Calibration
        <4> QED
          BY <1>3, <2>3, <3>1, <4>1 DEF NegotiationSound, RecordsStayTrue
      <3>2. CASE calibrations'[e] # calibrations[e]
        <4>1. decision = "accepted" /\ calibrations'[e] = calibration
          BY <1>8, <3>2 DEF NegotiationSound, NegotiationTypeOK
        <4> QED
          BY <1>3, <2>1, <4>1 DEF Newest
      <3> QED
        BY <3>1, <3>2
    <2> QED
      BY <2>2, <2>3 DEF RecordsStayTrue
  <1> QED
    BY <1>9, <1>10, <1>11, <1>12 DEF NegotiationSound

LEMMA NextNegotiationSound ==
  NegotiationSound /\ [NegotiationNext]_negotiation => NegotiationSound'
  <1> SUFFICES ASSUME NegotiationSound, [NegotiationNext]_negotiation
               PROVE  NegotiationSound'
    OBVIOUS
  <1>1. CASE NegotiationNext
    BY <1>1, AppendKeepsNegotiationSound, RespondKeepsNegotiationSound DEF NegotiationNext
  <1>2. CASE UNCHANGED negotiation
    BY <1>2 DEF negotiation, NegotiationSound, NegotiationTypeOK, ChainAlternates,
                OfferFollowsChain, RecordsStayTrue
  <1> QED
    BY <1>1, <1>2

(***************************************************************************)
(* A negotiation is one alternating chain whose end is what the offer      *)
(* says, and what was recorded of it for backtesting and calibration stays *)
(* true: for any number of offers, brokers that answer any counter at any  *)
(* time, and records that are written or not.                              *)
(***************************************************************************)
THEOREM NegotiationsAreSound == NegotiationSpec => []NegotiationSound
  BY InitNegotiationSound, NextNegotiationSound, PTL DEF NegotiationSpec

-----------------------------------------------------------------------------
(***************************************************************************)
(* The handoff.  HandoffSound is not inductive: it says nothing of the     *)
(* steps of a call that have been taken, nor of a webhook on its way.  The *)
(* strengthening says how far the tables are at each step of a call - its  *)
(* contract appears between "mapped" and "recorded", its envelope only     *)
(* after "form_recorded" - and that the answer of a signer in a webhook is *)
(* the one the envelope keeps.                                             *)
(***************************************************************************)

HandoffFollows(call, run, contract, events, envelope) ==
  /\ call \in Call \cup {NoCall}
  /\ run \in Run \cup {NoRow}
  /\ contract \in Contract \cup {NoRow}
  /\ events \subseteq Events
  /\ envelope \in {"none", "sent", "signed", "declined"}
  /\ contract # NoRow =>
       /\ run # NoRow /\ run.handoffStatus = contract.handoffStatus
       /\ contract.handoffStatus \in {"signed", "declined"} => envelope = contract.handoffStatus
  /\ call.pc \in {"idle", "loaded", "mapped"} => contract = NoRow
  /\ call.pc = "mapped" => run # NoRow /\ run.handoffStatus = "ready"
  /\ call.pc \in {"recorded", "synced", "submitted", "form_recorded", "sent", "failing"} =>
       contract # NoRow
  /\ call.pc \in {"synced", "submitted", "form_recorded", "sent", "failing"} =>
       contract.milestones
  /\ envelope # "none" => /\ call.pc \in {"sent", "failing", "done", "crashed"}
                          /\ contract # NoRow /\ contract.milestones

HandoffFollowsAt(c) ==
  HandoffFollows(calls[c], runs[c], contracts[c], signatureEvents[c], envelopes[c])

AnswerRecordedOrSent(c) ==
  WebhooksNameContract /\ envelopes[c] \in {"signed", "declined"} =>
    \/ envelopes[c] \in signatureEvents[c]
    \/ [envelopeId |-> c, event |-> envelopes[c]] \in webhooks

AnswersKept ==
  \A m \in webhooks : m.event \in {"signed", "declined"} => envelopes[m.envelopeId] = m.event

HandoffIInv ==
  /\ NegotiationTypeOK
  /\ HandoffTypeOK
  /\ \A c \in Calls : HandoffFollowsAt(c)
  /\ AnswersKept

LEMMA HandoffRows ==
  /\ NoCall \notin Call /\ NoRow \notin Run /\ NoRow \notin Contract
  BY DEF NoCall, NoRow, Call, Run, Contract, Steps, HandoffStatuses

AnswersUnderWay == \A c \in Calls : AnswerRecordedOrSent(c)

LEMMA HandoffIInvIsSound == HandoffIInv /\ AnswersUnderWay => HandoffSound
  <1> SUFFICES ASSUME HandoffIInv, AnswersUnderWay PROVE HandoffSound
    OBVIOUS
  <1>1. HandoffTypeOK /\ RunMirrorsContract /\ HandoffMatchesEnvelope
    BY DEF HandoffIInv, HandoffFollowsAt, HandoffFollows, RunMirrorsContract,
           HandoffMatchesEnvelope, ContractRows
  <1>2. ASSUME NEW c \in Calls, WebhooksNameContract, envelopes[c] \in {"signed", "declined"},
               envelopes[c] \notin signatureEvents[c]
        PROVE  \E m \in webhooks : m.event = envelopes[c] /\ WebhookTarget(m) = {c}
    <2>1. PICK m \in webhooks : m = [envelopeId |-> c, event |-> envelopes[c]]
      BY <1>2 DEF AnswersUnderWay, AnswerRecordedOrSent
    <2>2. contracts[c] # NoRow
      BY <1>2 DEF HandoffIInv, HandoffFollowsAt, HandoffFollows
    <2>3. m.envelopeId = c /\ m.event = envelopes[c]
      BY <2>1
    <2>4. WebhookTarget(m) = {c}
      BY <1>2, <2>2, <2>3 DEF WebhookTarget, ContractRows
    <2> QED
      BY <2>3, <2>4
  <1> QED
    BY <1>1, <1>2 DEF HandoffSound, AnswersNotLost

\* A step that writes no handoff but c's.
OnlyHandoff(c) ==
  /\ calls' = [calls EXCEPT ![c] = calls'[c]]
  /\ runs' = [runs EXCEPT ![c] = runs'[c]]
  /\ contracts' = [contracts EXCEPT ![c] = contracts'[c]]
  /\ signatureEvents' = [signatureEvents EXCEPT ![c] = signatureEvents'[c]]
  /\ envelopes' = [envelopes EXCEPT ![c] = envelopes'[c]]

LEMMA OneHandoffMoves ==
  ASSUME HandoffIInv, NEW c \in Calls, OnlyHandoff(c), UNCHANGED negotiation,
         HandoffFollowsAt(c)', webhooks' \subseteq Webhook, AnswersKept'
  PROVE  HandoffIInv'
  <1>1. NegotiationTypeOK'
    BY DEF HandoffIInv, NegotiationTypeOK, negotiation
  <1>2. \A k \in Calls \ {c} :
          /\ calls'[k] = calls[k] /\ runs'[k] = runs[k] /\ contracts'[k] = contracts[k]
          /\ signatureEvents'[k] = signatureEvents[k] /\ envelopes'[k] = envelopes[k]
    BY DEF OnlyHandoff, HandoffIInv, HandoffTypeOK
  <1>3. \A k \in Calls : HandoffFollowsAt(k)'
    BY <1>2 DEF HandoffIInv, HandoffFollowsAt
  <1>4. HandoffTypeOK'
    BY DEF HandoffIInv, HandoffTypeOK, OnlyHandoff, HandoffFollowsAt, HandoffFollows
  <1> QED
    BY <1>1, <1>3, <1>4 DEF HandoffIInv

\* What the building blocks of the steps write.
LEMMA GoesTo ==
  ASSUME HandoffIInv, NEW c \in Calls, NEW from \in Steps, NEW to \in Steps,
         Goes(c, from, to)
  PROVE  /\ calls[c].pc = from /\ calls'[c].pc = to
         /\ calls[c] \in Call /\ calls'[c] \in Call
         /\ calls' = [calls EXCEPT ![c] = calls'[c]]
  BY DEF HandoffIInv, HandoffTypeOK, Goes, Call, NoCall, Steps

LEMMA UpdateWrites ==
  ASSUME HandoffIInv, NEW c \in Calls, runs[c] # NoRow,
         NEW status \in HandoffStatuses \ {"ready"}, UpdateHandoffState(c, status)
  PROVE  /\ runs'[c] \in Run /\ runs'[c] # NoRow /\ runs'[c].handoffStatus = status
         /\ contracts'[c] \in Contract \cup {NoRow}
         /\ contracts[c] = NoRow <=> contracts'[c] = NoRow
         /\ contracts[c] # NoRow => /\ contracts'[c].handoffStatus = status
                                    /\ contracts'[c].milestones = contracts[c].milestones
         /\ runs' = [runs EXCEPT ![c] = runs'[c]]
         /\ contracts' = [contracts EXCEPT ![c] = contracts'[c]]
  <1>1. runs[c] \in Run /\ contracts[c] \in Contract \cup {NoRow}
    BY DEF HandoffIInv, HandoffTypeOK
  <1>2. /\ runs' = [runs EXCEPT ![c] = [runs[c] EXCEPT !.status = status,
                                                      !.handoffStatus = status]]
        /\ contracts' = IF contracts[c] = NoRow THEN contracts
             ELSE [contracts EXCEPT ![c] = [contracts[c] EXCEPT !.handoffStatus = status]]
    BY DEF UpdateHandoffState, HandoffIInv, HandoffTypeOK
  <1>3. /\ runs'[c] \in Run /\ runs'[c].handoffStatus = status
        /\ runs' = [runs EXCEPT ![c] = runs'[c]]
    BY <1>1, <1>2 DEF Run, HandoffIInv, HandoffTypeOK
  <1>4. CASE contracts[c] = NoRow
    BY <1>2, <1>3, <1>4, HandoffRows DEF HandoffIInv, HandoffTypeOK
  <1>5. CASE contracts[c] # NoRow
    <2>1. /\ contracts'[c] = [contracts[c] EXCEPT !.handoffStatus = status]
          /\ contracts' = [contracts EXCEPT ![c] = contracts'[c]]
      BY <1>2, <1>5 DEF HandoffIInv, HandoffTypeOK
    <2>2. /\ contracts'[c] \in Contract /\ contracts'[c].handoffStatus = status
          /\ contracts'[c].milestones = contracts[c].milestones
      BY <1>1, <1>5, <2>1 DEF Contract
    <2> QED
      BY <1>3, <1>5, <2>1, <2>2, HandoffRows
  <1> QED
    BY <1>4, <1>5

LEMMA LoadContextKeepsHandoffs ==
  ASSUME HandoffIInv, NEW c \in Calls, NEW o \in Offers, LoadContext(c, o),
         UNCHANGED negotiation
  PROVE  HandoffIInv'
  <1>1. /\ calls[c].pc = "idle" /\ calls'[c] \in Call /\ calls'[c].pc = "loaded"
        /\ calls' = [calls EXCEPT ![c] = calls'[c]]
    BY DEF LoadContext, HandoffIInv, HandoffTypeOK, NegotiationTypeOK, Offer, Call, NoCall, Steps
  <1>2. UNCHANGED <<runs, contracts, signatureEvents, envelopes, webhooks>>
    BY DEF LoadContext
  <1>3. HandoffFollowsAt(c)'
    BY <1>1, <1>2 DEF HandoffIInv, HandoffFollowsAt, HandoffFollows
  <1> QED
    BY <1>1, <1>2, <1>3, OneHandoffMoves
    DEF OnlyHandoff, HandoffIInv, HandoffTypeOK, AnswersKept

LEMMA CreateAdapterRunKeepsHandoffs ==
  ASSUME HandoffIInv, NEW c \in Calls, CreateAdapterRun(c), UNCHANGED negotiation
  PROVE  HandoffIInv'
  <1>1. PICK status \in {"mapped", "validation_blocked"} :
          /\ Goes(c, "loaded", IF status = "mapped" THEN "mapped" ELSE "done")
          /\ runs' = [runs EXCEPT ![c] =
               [status |-> status, purchasePrice |-> calls[c].purchasePrice,
                handoffStatus |-> IF status = "mapped" THEN "ready" ELSE status]]
    BY DEF CreateAdapterRun
  <1>2. /\ calls[c].pc = "loaded" /\ calls[c] \in Call /\ calls'[c] \in Call
        /\ calls'[c].pc = IF status = "mapped" THEN "mapped" ELSE "done"
        /\ calls' = [calls EXCEPT ![c] = calls'[c]]
    BY <1>1, GoesTo DEF Steps
  <1>3. /\ runs'[c] \in Run /\ runs' = [runs EXCEPT ![c] = runs'[c]]
        /\ runs'[c].handoffStatus = IF status = "mapped" THEN "ready" ELSE status
    BY <1>1, <1>2 DEF Run, Call, HandoffStatuses, HandoffIInv, HandoffTypeOK
  <1>4. UNCHANGED <<contracts, signatureEvents, envelopes, webhooks>>
    BY DEF CreateAdapterRun
  <1>5. HandoffFollowsAt(c)'
    BY <1>2, <1>3, <1>4, HandoffRows DEF HandoffIInv, HandoffFollowsAt, HandoffFollows
  <1> QED
    BY <1>2, <1>3, <1>4, <1>5, OneHandoffMoves
    DEF OnlyHandoff, HandoffIInv, HandoffTypeOK, AnswersKept

LEMMA MissProviderConfigKeepsHandoffs ==
  ASSUME HandoffIInv, NEW c \in Calls, MissProviderConfig(c), UNCHANGED negotiation
  PROVE  HandoffIInv'
  <1>1. /\ calls[c].pc = "mapped" /\ calls'[c].pc = "done"
        /\ calls[c] \in Call /\ calls'[c] \in Call
        /\ calls' = [calls EXCEPT ![c] = calls'[c]]
    BY GoesTo DEF MissProviderConfig, Steps
  <1>2. /\ runs'[c] \in Run /\ runs'[c] # NoRow /\ runs'[c].handoffStatus = "failed"
        /\ contracts'[c] \in Contract \cup {NoRow}
        /\ contracts[c] = NoRow <=> contracts'[c] = NoRow
        /\ contracts[c] # NoRow => /\ contracts'[c].handoffStatus = "failed"
                                   /\ contracts'[c].milestones = contracts[c].milestones
        /\ runs' = [runs EXCEPT ![c] = runs'[c]]
        /\ contracts' = [contracts EXCEPT ![c] = contracts'[c]]
    <2>1. runs[c] # NoRow /\ UpdateHandoffState(c, "failed")
      BY <1>1 DEF MissProviderConfig, HandoffIInv, HandoffFollowsAt, HandoffFollows
    <2>2. "failed" \in HandoffStatuses \ {"ready"}
      BY DEF HandoffStatuses
    <2> QED
      BY <2>1, <2>2, UpdateWrites
  <1>3. /\ webhooks' \subseteq Webhook /\ AnswersKept'
        /\ UNCHANGED <<signatureEvents, envelopes>>
    BY DEF MissProviderConfig, HandoffIInv, HandoffTypeOK, AnswersKept
  <1>4. HandoffFollowsAt(c)'
    BY <1>1, <1>2, <1>3, HandoffRows DEF HandoffIInv, HandoffFollowsAt, HandoffFollows, HandoffTypeOK
  <1> QED
    BY <1>1, <1>2, <1>3, <1>4, OneHandoffMoves DEF OnlyHandoff, HandoffIInv, HandoffTypeOK

LEMMA CreateContractRecordKeepsHandoffs ==
  ASSUME HandoffIInv, NEW c \in Calls, CreateContractRecord(c), UNCHANGED negotiation
  PROVE  HandoffIInv'
  <1>1. /\ calls[c].pc = "mapped" /\ calls'[c].pc = "recorded"
        /\ calls[c] \in Call /\ calls'[c] \in Call
        /\ calls' = [calls EXCEPT ![c] = calls'[c]]
    BY GoesTo DEF CreateContractRecord, Steps
  <1>2. /\ runs' = runs /\ contracts'[c] \in Contract /\ contracts'[c].handoffStatus = "ready"
        /\ contracts' = [contracts EXCEPT ![c] = contracts'[c]]
    BY <1>1 DEF CreateContractRecord, Contract, Call, HandoffStatuses, HandoffIInv, HandoffTypeOK
  <1>3. /\ webhooks' \subseteq Webhook /\ AnswersKept'
        /\ UNCHANGED <<signatureEvents, envelopes>>
    BY DEF CreateContractRecord, HandoffIInv, HandoffTypeOK, AnswersKept
  <1>4. HandoffFollowsAt(c)'
    BY <1>1, <1>2, <1>3, HandoffRows DEF HandoffIInv, HandoffFollowsAt, HandoffFollows, HandoffTypeOK
  <1> QED
    BY <1>1, <1>2, <1>3, <1>4, OneHandoffMoves DEF OnlyHandoff, HandoffIInv, HandoffTypeOK

LEMMA SyncContractMilestonesKeepsHandoffs ==
  ASSUME HandoffIInv, NEW c \in Calls, SyncContractMilestones(c), UNCHANGED negotiation
  PROVE  HandoffIInv'
  <1>1. /\ calls[c].pc = "recorded" /\ calls'[c].pc = "synced"
        /\ calls[c] \in Call /\ calls'[c] \in Call
        /\ calls' = [calls EXCEPT ![c] = calls'[c]]
    BY GoesTo DEF SyncContractMilestones, Steps
  <1>2. /\ runs' = runs /\ contracts[c] # NoRow /\ contracts'[c] \in Contract
        /\ contracts'[c].handoffStatus = contracts[c].handoffStatus
        /\ contracts'[c].milestones
        /\ contracts' = [contracts EXCEPT ![c] = contracts'[c]]
    <2>1. contracts[c] \in Contract /\ contracts[c] # NoRow
      BY <1>1, HandoffRows DEF HandoffIInv, HandoffFollowsAt, HandoffFollows
    <2>2. runs' = runs
          /\ contracts' = [contracts EXCEPT ![c] = [contracts[c] EXCEPT !.milestones = TRUE]]
      BY DEF SyncContractMilestones, HandoffIInv, HandoffTypeOK
    <2> QED
      BY <2>1, <2>2 DEF Contract, HandoffIInv, HandoffTypeOK
  <1>3. /\ webhooks' \subseteq Webhook /\ AnswersKept'
        /\ UNCHANGED <<signatureEvents, envelopes>>
    BY DEF SyncContractMilestones, HandoffIInv, HandoffTypeOK, AnswersKept
  <1>4. HandoffFollowsAt(c)'
    BY <1>1, <1>2, <1>3, HandoffRows DEF HandoffIInv, HandoffFollowsAt, HandoffFollows, HandoffTypeOK
  <1> QED
    BY <1>1, <1>2, <1>3, <1>4, OneHandoffMoves DEF OnlyHandoff, HandoffIInv, HandoffTypeOK

LEMMA RecordFormKeepsHandoffs ==
  ASSUME HandoffIInv, NEW c \in Calls, RecordForm(c), UNCHANGED negotiation
  PROVE  HandoffIInv'
  <1>1. /\ calls[c].pc = "submitted" /\ calls'[c].pc = "form_recorded"
        /\ calls[c] \in Call /\ calls'[c] \in Call
        /\ calls' = [calls EXCEPT ![c] = calls'[c]]
    BY GoesTo DEF RecordForm, Steps
  <1>2. /\ runs'[c] \in Run /\ runs'[c] # NoRow /\ runs'[c].handoffStatus = "form_submitted"
        /\ contracts'[c] \in Contract \cup {NoRow}
        /\ contracts[c] = NoRow <=> contracts'[c] = NoRow
        /\ contracts[c] # NoRow => /\ contracts'[c].handoffStatus = "form_submitted"
                                   /\ contracts'[c].milestones = contracts[c].milestones
        /\ runs' = [runs EXCEPT ![c] = runs'[c]]
        /\ contracts' = [contracts EXCEPT ![c] = contracts'[c]]
    <2>1. runs[c] # NoRow /\ UpdateHandoffState(c, "form_submitted")
      BY <1>1 DEF RecordForm, HandoffIInv, HandoffFollowsAt, HandoffFollows
    <2>2. "form_submitted" \in HandoffStatuses \ {"ready"}
      BY DEF HandoffStatuses
    <2> QED
      BY <2>1, <2>2, UpdateWrites
  <1>3. /\ webhooks' \subseteq Webhook /\ AnswersKept'
        /\ UNCHANGED <<signatureEvents, envelopes>>
    BY DEF RecordForm, HandoffIInv, HandoffTypeOK, AnswersKept
  <1>4. HandoffFollowsAt(c)'
    BY <1>1, <1>2, <1>3, HandoffRows DEF HandoffIInv, HandoffFollowsAt, HandoffFollows, HandoffTypeOK
  <1> QED
    BY <1>1, <1>2, <1>3, <1>4, OneHandoffMoves DEF OnlyHandoff, HandoffIInv, HandoffTypeOK

LEMMA RecordEnvelopeKeepsHandoffs ==
  ASSUME HandoffIInv, NEW c \in Calls, RecordEnvelope(c), UNCHANGED negotiation
  PROVE  HandoffIInv'
  <1>1. /\ calls[c].pc = "sent" /\ calls'[c].pc = "done"
        /\ calls[c] \in Call /\ calls'[c] \in Call
        /\ calls' = [calls EXCEPT ![c] = calls'[c]]
    BY GoesTo DEF RecordEnvelope, Steps
  <1>2. /\ runs'[c] \in Run /\ runs'[c].handoffStatus = "signature_sent"
        /\ contracts[c] # NoRow /\ contracts'[c] \in Contract
        /\ contracts'[c].handoffStatus = "signature_sent"
        /\ contracts'[c].milestones = contracts[c].milestones
        /\ runs' = [runs EXCEPT ![c] = runs'[c]]
        /\ contracts' = [contracts EXCEPT ![c] = contracts'[c]]
    <2>1. runs[c] \in Run /\ contracts[c] \in Contract /\ contracts[c] # NoRow
      BY <1>1, HandoffRows DEF HandoffIInv, HandoffFollowsAt, HandoffFollows
    <2>2. /\ runs' = [runs EXCEPT ![c] = [runs[c] EXCEPT !.status = "signature_sent",
                                                        !.handoffStatus = "signature_sent"]]
          /\ contracts' = [contracts EXCEPT ![c] =
               [contracts[c] EXCEPT !.handoffStatus = "signature_sent", !.hasEnvelopeId = TRUE]]
      BY DEF RecordEnvelope, HandoffIInv, HandoffTypeOK
    <2> QED
      BY <2>1, <2>2 DEF Run, Contract, HandoffStatuses, HandoffIInv, HandoffTypeOK
  <1>3. /\ webhooks' \subseteq Webhook /\ AnswersKept'
        /\ UNCHANGED <<signatureEvents, envelopes>>
    BY DEF RecordEnvelope, HandoffIInv, HandoffTypeOK, AnswersKept
  <1>4. HandoffFollowsAt(c)'
    BY <1>1, <1>2, <1>3, HandoffRows DEF HandoffIInv, HandoffFollowsAt, HandoffFollows, HandoffTypeOK
  <1> QED
    BY <1>1, <1>2, <1>3, <1>4, OneHandoffMoves DEF OnlyHandoff, HandoffIInv, HandoffTypeOK

LEMMA RecordRunFailureKeepsHandoffs ==
  ASSUME HandoffIInv, NEW c \in Calls, RecordRunFailure(c), UNCHANGED negotiation
  PROVE  HandoffIInv'
  <1>1. /\ calls[c].pc = "failing" /\ calls'[c].pc = "done"
        /\ calls[c] \in Call /\ calls'[c] \in Call
        /\ calls' = [calls EXCEPT ![c] = calls'[c]]
    BY GoesTo DEF RecordRunFailure, Steps
  <1>2. /\ runs'[c] \in Run /\ runs'[c] # NoRow /\ runs'[c].handoffStatus = "failed"
        /\ contracts'[c] \in Contract \cup {NoRow}
        /\ contracts[c] = NoRow <=> contracts'[c] = NoRow
        /\ contracts[c] # NoRow => /\ contracts'[c].handoffStatus = "failed"
                                   /\ contracts'[c].milestones = contracts[c].milestones
        /\ runs' = [runs EXCEPT ![c] = runs'[c]]
        /\ contracts' = [contracts EXCEPT ![c] = contracts'[c]]
    <2>1. runs[c] # NoRow /\ UpdateHandoffState(c, "failed")
      BY <1>1 DEF RecordRunFailure, HandoffIInv, HandoffFollowsAt, HandoffFollows
    <2>2. "failed" \in HandoffStatuses \ {"ready"}
      BY DEF HandoffStatuses
    <2> QED
      BY <2>1, <2>2, UpdateWrites
  <1>3. /\ webhooks' \subseteq Webhook /\ AnswersKept'
        /\ UNCHANGED <<signatureEvents, envelopes>>
    BY DEF RecordRunFailure, HandoffIInv, HandoffTypeOK, AnswersKept
  <1>4. HandoffFollowsAt(c)'
    BY <1>1, <1>2, <1>3, HandoffRows DEF HandoffIInv, HandoffFollowsAt, HandoffFollows, HandoffTypeOK
  <1> QED
    BY <1>1, <1>2, <1>3, <1>4, OneHandoffMoves DEF OnlyHandoff, HandoffIInv, HandoffTypeOK

LEMMA SubmitKeepsHandoffs ==
  ASSUME HandoffIInv, NEW c \in Calls, SubmitToFormSimplicity(c), UNCHANGED negotiation
  PROVE  HandoffIInv'
  <1>1. /\ calls[c].pc = "synced" /\ calls'[c].pc \in {"submitted", "failing"}
        /\ calls'[c] \in Call
        /\ calls' = [calls EXCEPT ![c] = calls'[c]]
    BY GoesTo DEF SubmitToFormSimplicity, Steps
  <1>2. UNCHANGED <<runs, contracts, signatureEvents, envelopes, webhooks>>
    BY DEF SubmitToFormSimplicity
  <1>3. HandoffFollowsAt(c)'
    BY <1>1, <1>2 DEF HandoffIInv, HandoffFollowsAt, HandoffFollows
  <1> QED
    BY <1>1, <1>2, <1>3, OneHandoffMoves
    DEF OnlyHandoff, HandoffIInv, HandoffTypeOK, AnswersKept

LEMMA CrashKeepsHandoffs ==
  ASSUME HandoffIInv, NEW c \in Calls, Crash(c), UNCHANGED negotiation
  PROVE  HandoffIInv'
  <1>1. /\ calls'[c].pc = "crashed" /\ calls'[c] \in Call
        /\ calls' = [calls EXCEPT ![c] = calls'[c]]
        /\ calls[c].pc \in Steps \ {"done", "crashed"}
    BY DEF Crash, HandoffIInv, HandoffTypeOK, Call, NoCall, Steps
  <1>2. UNCHANGED <<runs, contracts, signatureEvents, envelopes, webhooks>>
    BY DEF Crash
  <1>3. HandoffFollowsAt(c)'
    BY <1>1, <1>2 DEF HandoffIInv, HandoffFollowsAt, HandoffFollows
  <1> QED
    BY <1>1, <1>2, <1>3, OneHandoffMoves
    DEF OnlyHandoff, HandoffIInv, HandoffTypeOK, AnswersKept

\* The envelope is created when there is none yet, so no signer has answered.
LEMMA CreateEnvelopeKeepsHandoffs ==
  ASSUME HandoffIInv, NEW c \in Calls, CreateSabalSignatureEnvelope(c), UNCHANGED negotiation
  PROVE  HandoffIInv'
  <1>1. /\ calls[c].pc = "form_recorded" /\ calls'[c].pc \in {"sent", "failing"}
        /\ calls'[c] \in Call
        /\ calls' = [calls EXCEPT ![c] = calls'[c]]
    BY GoesTo DEF CreateSabalSignatureEnvelope, Steps
  <1>2. envelopes[c] = "none"
    BY <1>1 DEF HandoffIInv, HandoffFollowsAt, HandoffFollows
  <1>3. /\ \/ envelopes' = envelopes /\ webhooks' = webhooks
           \/ /\ envelopes' = [envelopes EXCEPT ![c] = "sent"]
              /\ webhooks' = webhooks \cup {[envelopeId |-> c, event |-> "sent"]}
        /\ UNCHANGED <<runs, contracts, signatureEvents>>
    BY DEF CreateSabalSignatureEnvelope
  <1>4. envelopes' = [envelopes EXCEPT ![c] = envelopes'[c]] /\ envelopes'[c] \in {"none", "sent"}
    BY <1>2, <1>3 DEF HandoffIInv, HandoffTypeOK
  <1>5. HandoffFollowsAt(c)'
    BY <1>1, <1>3, <1>4 DEF HandoffIInv, HandoffFollowsAt, HandoffFollows
  <1>6. webhooks' \subseteq Webhook
    BY <1>3, ContractHandoffAssumption DEF HandoffIInv, HandoffTypeOK, Webhook
  <1>7. AnswersKept'
    <2> SUFFICES ASSUME NEW m \in webhooks', m.event \in {"signed", "declined"}
                 PROVE  envelopes'[m.envelopeId] = m.event
      BY DEF AnswersKept
    <2>1. m \in webhooks
      BY <1>3
    <2>2. envelopes[m.envelopeId] = m.event /\ m.envelopeId \in Calls
      BY <2>1 DEF HandoffIInv, AnswersKept, HandoffTypeOK, Webhook
    <2> QED
      BY <1>2, <1>3, <2>2 DEF HandoffIInv, HandoffTypeOK
  <1> QED
    BY <1>1, <1>3, <1>4, <1>5, <1>6, <1>7, OneHandoffMoves
    DEF OnlyHandoff, HandoffIInv, HandoffTypeOK

\* A signer answers an envelope once: it is not "sent" any more afterwards.
LEMMA SignerKeepsHandoffs ==
  ASSUME HandoffIInv, NEW c \in Calls, NEW event \in Events, SignerActs(c, event),
         UNCHANGED negotiation
  PROVE  HandoffIInv'
  <1>1. /\ envelopes[c] = "sent" /\ event \in {"viewed", "signed", "declined"}
        /\ webhooks' = webhooks \cup {[envelopeId |-> c, event |-> event]}
        /\ UNCHANGED <<calls, runs, contracts, signatureEvents>>
    BY DEF SignerActs
  <1>2. /\ envelopes' = [envelopes EXCEPT ![c] = envelopes'[c]]
        /\ envelopes'[c] = IF event = "viewed" THEN "sent" ELSE event
    BY <1>1 DEF SignerActs, HandoffIInv, HandoffTypeOK
  <1>3. HandoffFollowsAt(c)'
    BY <1>1, <1>2 DEF HandoffIInv, HandoffFollowsAt, HandoffFollows
  <1>4. webhooks' \subseteq Webhook
    BY <1>1 DEF HandoffIInv, HandoffTypeOK, Webhook
  <1>5. AnswersKept'
    <2> SUFFICES ASSUME NEW m \in webhooks', m.event \in {"signed", "declined"}
                 PROVE  envelopes'[m.envelopeId] = m.event
      BY DEF AnswersKept
    <2>1. CASE m \in webhooks
      <3>1. envelopes[m.envelopeId] = m.event /\ m.envelopeId \in Calls \ {c}
        BY <1>1, <2>1 DEF HandoffIInv, AnswersKept, HandoffTypeOK, Webhook
      <3> QED
        BY <1>2, <3>1 DEF HandoffIInv, HandoffTypeOK
    <2>2. CASE m \notin webhooks
      BY <1>1, <1>2, <2>2
    <2> QED
      BY <2>1, <2>2
  <1> QED
    BY <1>1, <1>2, <1>3, <1>4, <1>5, OneHandoffMoves
    DEF OnlyHandoff, HandoffIInv, HandoffTypeOK

\* What a webhook writes on its contract is what its envelope says.
LEMMA DeliverKeepsHandoffs ==
  ASSUME HandoffIInv, NEW m \in webhooks, NEW again \in BOOLEAN, DeliverWebhook(m, again),
         UNCHANGED negotiation
  PROVE  HandoffIInv'
  <1>1. /\ webhooks' \subseteq webhooks
        /\ UNCHANGED <<calls, envelopes>>
    BY DEF DeliverWebhook
  <1>2. webhooks' \subseteq Webhook /\ AnswersKept'
    BY <1>1 DEF HandoffIInv, HandoffTypeOK, AnswersKept
  <1>3. /\ m.envelopeId \in Calls /\ m.event \in Events
        /\ m.event \in {"signed", "declined"} => envelopes[m.envelopeId] = m.event
    BY DEF HandoffIInv, HandoffTypeOK, Webhook, AnswersKept
  <1>4. ASSUME NEW c \in WebhookTarget(m), RecordSignatureEvent(c, m.event)
        PROVE  HandoffIInv'
    <2>1. c = m.envelopeId /\ c \in Calls /\ contracts[c] # NoRow
      BY <1>3 DEF WebhookTarget, ContractRows
    <2>2. /\ signatureEvents' = [signatureEvents EXCEPT ![c] = signatureEvents'[c]]
          /\ signatureEvents'[c] \subseteq Events
      BY <1>3, <1>4, <2>1 DEF RecordSignatureEvent, HandoffIInv, HandoffTypeOK
    <2>3. /\ runs[c] \in Run /\ runs[c] # NoRow /\ contracts[c] \in Contract
          /\ runs[c].handoffStatus = contracts[c].handoffStatus
      BY <2>1 DEF HandoffIInv, HandoffFollowsAt, HandoffFollows
    <2>4. /\ runs'[c] \in Run /\ contracts'[c] \in Contract
          /\ runs'[c].handoffStatus = contracts'[c].handoffStatus
          /\ contracts'[c].milestones = contracts[c].milestones
          /\ \/ contracts'[c].handoffStatus = contracts[c].handoffStatus
             \/ contracts'[c].handoffStatus = "signature_sent"
             \/ /\ contracts'[c].handoffStatus = m.event
                /\ m.event \in {"signed", "declined"}
          /\ runs' = [runs EXCEPT ![c] = runs'[c]]
          /\ contracts' = [contracts EXCEPT ![c] = contracts'[c]]
      <3>1. CASE m.event = "sent"
        <4>1. UpdateHandoffState(c, "signature_sent") /\ "signature_sent" \in HandoffStatuses \ {"ready"}
          BY <1>4, <3>1 DEF RecordSignatureEvent, HandoffStatuses
        <4> QED
          BY <2>1, <2>3, <4>1, UpdateWrites
      <3>2. CASE m.event = "declined"
        <4>1. UpdateHandoffState(c, "declined") /\ "declined" \in HandoffStatuses \ {"ready"}
          BY <1>4, <3>2 DEF RecordSignatureEvent, HandoffStatuses
        <4> QED
          BY <2>1, <2>3, <3>2, <4>1, UpdateWrites
      <3>3. CASE m.event = "viewed"
        BY <1>4, <2>1, <2>3, <3>3 DEF RecordSignatureEvent, HandoffIInv, HandoffTypeOK
      <3>4. CASE m.event = "signed"
        <4>1. /\ runs' = [runs EXCEPT ![c] = [runs[c] EXCEPT !.status = "signed",
                                                            !.handoffStatus = "signed"]]
              /\ contracts' = [contracts EXCEPT ![c] =
                   [contracts[c] EXCEPT !.handoffStatus = "signed", !.status = "fully_executed"]]
          BY <1>4, <2>1, <3>4 DEF RecordSignatureEvent, HandoffIInv, HandoffTypeOK
        <4> QED
          BY <2>1, <2>3, <3>4, <4>1
          DEF Run, Contract, HandoffStatuses, HandoffIInv, HandoffTypeOK
      <3> QED
        BY <1>3, <3>1, <3>2, <3>3, <3>4, ContractHandoffAssumption
    <2>5. HandoffFollowsAt(c)'
      BY <1>1, <1>3, <2>1, <2>2, <2>3, <2>4, HandoffRows
      DEF HandoffIInv, HandoffFollowsAt, HandoffFollows
    <2> QED
      BY <1>1, <1>2, <2>1, <2>2, <2>4, <2>5, OneHandoffMoves
      DEF OnlyHandoff, HandoffIInv, HandoffTypeOK
  <1>5. ASSUME UNCHANGED <<runs, contracts, signatureEvents>>
        PROVE  HandoffIInv'
    <2>1. UNCHANGED <<calls, runs, contracts, signatureEvents, envelopes>>
      BY <1>1, <1>5
    <2>2. HandoffTypeOK'
      BY <1>2, <2>1 DEF HandoffIInv, HandoffTypeOK
    <2>3. NegotiationTypeOK'
      BY DEF HandoffIInv, NegotiationTypeOK, negotiation
    <2>4. \A c \in Calls : HandoffFollowsAt(c)'
      BY <2>1 DEF HandoffIInv, HandoffFollowsAt
    <2> QED
      BY <1>2, <2>2, <2>3, <2>4 DEF HandoffIInv
  <1> QED
    BY <1>4, <1>5 DEF DeliverWebhook

LEMMA UpdateStatusKeepsHandoffs ==
  ASSUME HandoffIInv, NEW c \in ContractRows, NEW status \in Decided, UpdateStatus(c, status),
         UNCHANGED negotiation
  PROVE  HandoffIInv'
  <1>1. c \in Calls /\ contracts[c] \in Contract /\ contracts[c] # NoRow
    BY DEF ContractRows, HandoffIInv, HandoffTypeOK
  <1>2. /\ contracts' = [contracts EXCEPT ![c] = [contracts[c] EXCEPT !.status = status]]
        /\ UNCHANGED <<calls, runs, signatureEvents, envelopes, webhooks>>
    BY <1>1 DEF UpdateStatus, HandoffIInv, HandoffTypeOK
  <1>3. /\ contracts'[c] \in Contract
        /\ contracts'[c].handoffStatus = contracts[c].handoffStatus
        /\ contracts'[c].milestones = contracts[c].milestones
        /\ contracts' = [contracts EXCEPT ![c] = contracts'[c]]
    BY <1>1, <1>2, ContractHandoffAssumption DEF Contract, HandoffIInv, HandoffTypeOK
  <1>4. HandoffFollowsAt(c)'
    BY <1>1, <1>2, <1>3, HandoffRows DEF HandoffIInv, HandoffFollowsAt, HandoffFollows
  <1> QED
    BY <1>1, <1>2, <1>3, <1>4, OneHandoffMoves
    DEF OnlyHandoff, HandoffIInv, HandoffTypeOK, AnswersKept

LEMMA NegotiationKeepsHandoffs ==
  ASSUME HandoffIInv, NegotiationTypeOK', UNCHANGED handoff
  PROVE  HandoffIInv'
  BY DEF handoff, HandoffIInv, HandoffTypeOK, HandoffFollowsAt, AnswersKept

LEMMA InitHandoffs == HandoffInit => HandoffIInv /\ NegotiationSound
  <1> SUFFICES ASSUME HandoffInit PROVE HandoffIInv /\ NegotiationSound
    OBVIOUS
  <1>1. NegotiationSound
    BY InitNegotiationSound DEF HandoffInit
  <1>2. HandoffTypeOK /\ AnswersKept
    BY DEF HandoffInit, HandoffTypeOK, AnswersKept
  <1>3. \A c \in Calls : HandoffFollowsAt(c)
    BY DEF HandoffInit, HandoffFollowsAt, HandoffFollows, NoCall, NoRow
  <1> QED
    BY <1>1, <1>2, <1>3 DEF HandoffIInv, NegotiationSound

LEMMA NextHandoffs ==
  ASSUME HandoffIInv, NegotiationSound, [HandoffNext]_handoffVars
  PROVE  HandoffIInv' /\ NegotiationSound'
  <1>1. CASE HandoffStep /\ UNCHANGED negotiation
    <2>1. NegotiationSound'
      BY <1>1, NextNegotiationSound
    <2>2. HandoffIInv'
      BY <1>1, LoadContextKeepsHandoffs, CreateAdapterRunKeepsHandoffs,
         MissProviderConfigKeepsHandoffs, CreateContractRecordKeepsHandoffs,
         SyncContractMilestonesKeepsHandoffs, SubmitKeepsHandoffs, RecordFormKeepsHandoffs,
         CreateEnvelopeKeepsHandoffs, RecordEnvelopeKeepsHandoffs,
         RecordRunFailureKeepsHandoffs, CrashKeepsHandoffs, SignerKeepsHandoffs,
         DeliverKeepsHandoffs, UpdateStatusKeepsHandoffs
      DEF HandoffStep, Continue
    <2> QED
      BY <2>1, <2>2
  <1>2. CASE NegotiationNext /\ UNCHANGED handoff
    BY <1>2, NextNegotiationSound, NegotiationKeepsHandoffs DEF NegotiationSound
  <1>3. CASE UNCHANGED handoffVars
    BY <1>3, NextNegotiationSound, NegotiationKeepsHandoffs DEF handoffVars, NegotiationSound
  <1> QED
    BY <1>1, <1>2, <1>3 DEF HandoffNext

(***************************************************************************)
(* The answers under way.  Only a signer gives one, with its webhook, and  *)
(* only the delivery of that webhook takes it away.                        *)
(***************************************************************************)
LEMMA AnswersStay ==
  ASSUME AnswersUnderWay,
         \A k \in Calls : /\ envelopes'[k] = envelopes[k] \/ envelopes'[k] \notin {"signed", "declined"}
                         /\ signatureEvents[k] \subseteq signatureEvents'[k],
         webhooks \subseteq webhooks'
  PROVE  AnswersUnderWay'
  BY DEF AnswersUnderWay, AnswerRecordedOrSent

LEMMA ContinueKeepsAnswers ==
  ASSUME HandoffIInv, AnswersUnderWay, NEW c \in Calls, Continue(c)
  PROVE  AnswersUnderWay'
  <1>1. ASSUME UNCHANGED <<envelopes, signatureEvents, webhooks>> PROVE AnswersUnderWay'
    BY <1>1, AnswersStay
  <1>2. ASSUME CreateSabalSignatureEnvelope(c) PROVE AnswersUnderWay'
    <2>1. /\ \/ envelopes' = envelopes /\ webhooks' = webhooks
             \/ /\ envelopes' = [envelopes EXCEPT ![c] = "sent"]
                /\ webhooks' = webhooks \cup {[envelopeId |-> c, event |-> "sent"]}
          /\ signatureEvents' = signatureEvents
      BY <1>2 DEF CreateSabalSignatureEnvelope
    <2>2. \A k \in Calls : envelopes'[k] = envelopes[k] \/ envelopes'[k] = "sent"
      BY <2>1 DEF HandoffIInv, HandoffTypeOK
    <2> QED
      BY <2>1, <2>2, AnswersStay
  <1> QED
    BY <1>1, <1>2 DEF Continue, CreateAdapterRun, MissProviderConfig, CreateContractRecord,
       SyncContractMilestones, SubmitToFormSimplicity, RecordForm, RecordEnvelope, RecordRunFailure

LEMMA SignerKeepsAnswers ==
  ASSUME HandoffIInv, AnswersUnderWay, NEW c \in Calls, NEW event \in Events,
         SignerActs(c, event)
  PROVE  AnswersUnderWay'
  <1>1. /\ webhooks' = webhooks \cup {[envelopeId |-> c, event |-> event]}
        /\ signatureEvents' = signatureEvents /\ envelopes[c] = "sent"
    BY DEF SignerActs
  <1>2. /\ \A k \in Calls \ {c} : envelopes'[k] = envelopes[k]
        /\ envelopes'[c] \in {"sent", event}
    BY <1>1 DEF SignerActs, HandoffIInv, HandoffTypeOK
  <1> QED
    BY <1>1, <1>2 DEF AnswersUnderWay, AnswerRecordedOrSent

\* The contract of a signed envelope is there to be found, so the webhook that
\* is answered with 200 has been recorded.
LEMMA DeliverKeepsAnswers ==
  ASSUME HandoffIInv, AnswersUnderWay, NEW m \in webhooks, NEW again \in BOOLEAN,
         DeliverWebhook(m, again)
  PROVE  AnswersUnderWay'
  <1>1. /\ webhooks \ {m} \subseteq webhooks' /\ envelopes' = envelopes
        /\ m.envelopeId \in Calls /\ m.event \in Events
    BY DEF DeliverWebhook, HandoffIInv, HandoffTypeOK, Webhook
  <1>2. \A k \in Calls : signatureEvents[k] \subseteq signatureEvents'[k]
    <2>1. CASE \E c \in WebhookTarget(m) : RecordSignatureEvent(c, m.event)
      <3>1. PICK c : signatureEvents' = [signatureEvents EXCEPT ![c] = @ \cup {m.event}]
        BY <2>1 DEF RecordSignatureEvent
      <3>2. signatureEvents \in [Calls -> SUBSET Events]
        BY DEF HandoffIInv, HandoffTypeOK
      <3> QED
        BY ONLY <3>1, <3>2
    <2>2. CASE signatureEvents' = signatureEvents
      BY <2>2
    <2> QED
      BY <2>1, <2>2 DEF DeliverWebhook
  <1>3. ASSUME NEW c \in Calls, WebhooksNameContract, envelopes[c] \in {"signed", "declined"},
               m = [envelopeId |-> c, event |-> envelopes[c]]
        PROVE  envelopes[c] \in signatureEvents'[c]
    <2>1. m.envelopeId = c /\ m.event = envelopes[c]
      BY <1>3
    <2>2. contracts[c] # NoRow
      BY <1>3 DEF HandoffIInv, HandoffFollowsAt, HandoffFollows
    <2>3. WebhookTarget(m) = {c}
      BY <1>3, <2>1, <2>2 DEF WebhookTarget, ContractRows
    <2>4. RecordSignatureEvent(c, m.event)
      BY <2>3 DEF DeliverWebhook
    <2>5. signatureEvents' = [signatureEvents EXCEPT ![c] = @ \cup {m.event}]
      BY <2>4 DEF RecordSignatureEvent
    <2> QED
      BY <2>1, <2>5 DEF HandoffIInv, HandoffTypeOK
  <1> QED
    BY <1>1, <1>2, <1>3 DEF AnswersUnderWay, AnswerRecordedOrSent

LEMMA NextKeepsAnswers ==
  ASSUME HandoffIInv, AnswersUnderWay, [HandoffNext]_handoffVars
  PROVE  AnswersUnderWay'
  <1>1. ASSUME UNCHANGED <<envelopes, signatureEvents, webhooks>> PROVE AnswersUnderWay'
    BY <1>1, AnswersStay
  <1>2. CASE HandoffStep
    <2>1. ASSUME NEW c \in Calls, NEW o \in Offers, LoadContext(c, o) PROVE AnswersUnderWay'
      BY <1>1, <2>1 DEF LoadContext
    <2>2. ASSUME NEW c \in Calls, Crash(c) PROVE AnswersUnderWay'
      BY <1>1, <2>2 DEF Crash
    <2>3. ASSUME NEW c \in ContractRows, NEW status \in Decided, UpdateStatus(c, status)
          PROVE  AnswersUnderWay'
      BY <1>1, <2>3 DEF UpdateStatus
    <2> QED
      BY <1>2, <2>1, <2>2, <2>3, ContinueKeepsAnswers, SignerKeepsAnswers, DeliverKeepsAnswers
      DEF HandoffStep
  <1>3. CASE UNCHANGED handoff
    BY <1>1, <1>3 DEF handoff
  <1> QED
    BY <1>2, <1>3 DEF HandoffNext, handoffVars

(***************************************************************************)
(* The run and the contract of a handoff never disagree, no contract is    *)
(* signed or declined unless its own envelope is, and where webhooks name  *)
(* the contract no answer of a signer is lost: whatever the order of the   *)
(* steps of overlapping calls, their crashes, the webhooks and the         *)
(* broker's decisions.                                                     *)
(***************************************************************************)
THEOREM HandoffsAreSound == HandoffSpec => []HandoffSound
  <1> DEFINE Ok == HandoffIInv /\ NegotiationSound /\ AnswersUnderWay
  <1>1. HandoffInit => Ok
    <2>1. HandoffInit => AnswersUnderWay
      BY DEF HandoffInit, AnswersUnderWay, AnswerRecordedOrSent
    <2> QED
      BY <2>1, InitHandoffs
  <1>2. Ok /\ [HandoffNext]_handoffVars => Ok'
    BY NextHandoffs, NextKeepsAnswers
  <1>3. Ok => HandoffSound
    BY HandoffIInvIsSound
  <1> HIDE DEF Ok
  <1> QED
    BY <1>1, <1>2, <1>3, PTL DEF HandoffSpec

-----------------------------------------------------------------------------
(***************************************************************************)
(* Prompts and engines.  A registry is in order (RegistryOk) when a row is *)
(* known by its type, key and version, and when no two active rows can be  *)
(* found by one lookup.  That it stays so is shown of inserting rows, of   *)
(* switching them off, and of switching on those that have no active rival.*)
(***************************************************************************)
UnderDefault(type) == \E e \in Range(Catalog) : e.engineType = type /\ e.promptKey = Default
SameRow(r, s) ==
  r.engineType = s.engineType /\ r.promptKey = s.promptKey /\ r.version = s.version
\* Two rows of which one lookup of the active row finds both.
Rivals(r, s) ==
  r.engineType = s.engineType /\ (r.promptKey = s.promptKey \/ UnderDefault(r.engineType))

RegistryOk(reg) ==
  /\ reg \subseteq PromptRow
  /\ \A r, s \in reg : SameRow(r, s) => r = s
  /\ \A r, s \in reg : r.isActive /\ s.isActive /\ Rivals(r, s) => r = s
  /\ \A r \in reg : UnderDefault(r.engineType) => r.promptKey \in {Default, NoKey}

\* A key the catalog has for the type.
KeyOf(type, key) == \E e \in Range(Catalog) : e.engineType = type /\ e.promptKey = key

LEMMA EntryRows ==
  /\ \A e \in Range(Catalog) : e \in [engineType : STRING, promptKey : STRING, version : Versions]
  /\ Len(Catalog) \in Nat /\ DOMAIN Catalog = 1 .. Len(Catalog)
<1> DEFINE Entry == [engineType : STRING, promptKey : STRING, version : Versions]
<1>1. Catalog \in Seq(Entry)
  BY EngineAssumption
<1>2. \A i \in DOMAIN Catalog : Catalog[i] \in Entry
  <2> HIDE DEF Entry
  <2> QED
    BY <1>1
<1>3. Len(Catalog) \in Nat /\ DOMAIN Catalog = 1 .. Len(Catalog)
  <2> HIDE DEF Entry
  <2> QED
    BY <1>1, LenProperties
<1> HIDE DEF Entry
<1>4. \A e \in Range(Catalog) : e \in Entry
  BY <1>2 DEF Range
<1> QED
  BY <1>3, <1>4 DEF Entry

LEMMA KeysDoNotMix ==
  ASSUME NEW type, NEW key, KeyOf(type, key)
  PROVE  /\ type \in STRING /\ key \in STRING
         /\ key = Default <=> UnderDefault(type)
<1>1. PICK e \in Range(Catalog) : e.engineType = type /\ e.promptKey = key
  BY DEF KeyOf
<1>3. e \in [engineType : STRING, promptKey : STRING, version : Versions]
  BY <1>1, EntryRows
<1>4. \A f \in Range(Catalog) : e.engineType = f.engineType => (e.promptKey = Default <=> f.promptKey = Default)
  BY <1>1, EngineAssumption
<1> QED
  BY <1>1, <1>3, <1>4 DEF UnderDefault

LEMMA EntriesAre ==
  \A i \in DOMAIN Catalog :
    /\ Catalog[i] \in Range(Catalog) /\ Catalog[i].version \in Versions
    /\ KeyOf(Catalog[i].engineType, Catalog[i].promptKey)
<1> SUFFICES ASSUME NEW i \in DOMAIN Catalog
             PROVE  /\ Catalog[i] \in Range(Catalog) /\ Catalog[i].version \in Versions
                    /\ KeyOf(Catalog[i].engineType, Catalog[i].promptKey)
  OBVIOUS
<1>1. Catalog[i] \in Range(Catalog)
  BY DEF Range
<1>2. Catalog[i] \in [engineType : STRING, promptKey : STRING, version : Versions]
  BY <1>1, EntryRows
<1> QED
  BY <1>1, <1>2 DEF KeyOf

LEMMA FoundRows ==
  ASSUME NEW reg, RegistryOk(reg), NEW type, NEW key, NEW version,
         key = Default => UnderDefault(type)
  PROVE  /\ FindPromptRow(reg, type, key, version) \subseteq reg
         /\ \A r, s \in FindPromptRow(reg, type, key, version) : r = s
         /\ \A r \in FindPromptRow(reg, type, key, version) :
              r.engineType = type /\ r.version = version /\ (key # Default => r.promptKey = key)
         /\ FindPromptRow(reg, type, key, version) = {} <=>
              \A r \in reg : r.engineType = type /\ r.version = version =>
                               key # Default /\ r.promptKey # key
<1> DEFINE typed == {r \in reg : r.engineType = type /\ r.version = version}
           keyed == {r \in typed : r.promptKey = key}
           found == FindPromptRow(reg, type, key, version)
<1>1. found = IF keyed # {} \/ key # Default THEN keyed ELSE typed
  BY DEF FindPromptRow
<1>2. \A r, s \in keyed : r = s
  BY DEF RegistryOk, SameRow
<1>3. key = Default /\ keyed = {} => \A r \in typed : r.promptKey = NoKey
  BY DEF RegistryOk
<1>4. key = Default /\ keyed = {} => \A r, s \in typed : r = s
  BY <1>3 DEF RegistryOk, SameRow
<1> HIDE DEF found
<1>5. \A r, s \in found : r = s
  BY <1>1, <1>2, <1>4
<1>6. found \subseteq reg
  BY <1>1
<1>7. \A r \in found : r.engineType = type /\ r.version = version /\ (key # Default => r.promptKey = key)
  BY <1>1
<1>8. found = {} <=> \A r \in reg : r.engineType = type /\ r.version = version =>
                                      key # Default /\ r.promptKey # key
  BY <1>1
<1> QED
  BY <1>5, <1>6, <1>7, <1>8 DEF found

LEMMA ActiveRows ==
  ASSUME NEW reg, RegistryOk(reg), NEW type, NEW key, key = Default => UnderDefault(type)
  PROVE  /\ FindActivePromptRow(reg, type, key) \subseteq reg
         /\ \A r, s \in FindActivePromptRow(reg, type, key) : r = s
         /\ \A r \in FindActivePromptRow(reg, type, key) :
              r.engineType = type /\ r.isActive /\ (key # Default => r.promptKey = key)
         /\ \A r \in reg : r.engineType = type /\ r.isActive /\ (r.promptKey = key \/ key = Default)
                             => r \in FindActivePromptRow(reg, type, key)
<1> DEFINE typed == {r \in reg : r.engineType = type /\ r.isActive}
           keyed == {r \in typed : r.promptKey = key}
           found == FindActivePromptRow(reg, type, key)
<1>1. found = IF keyed # {} \/ key # Default THEN keyed ELSE typed
  BY DEF FindActivePromptRow
<1>2. \A r, s \in keyed : r = s
  BY DEF RegistryOk, Rivals
<1>3. key = Default => \A r, s \in typed : r = s
  BY DEF RegistryOk, Rivals
<1> HIDE DEF found
<1>5. \A r, s \in found : r = s
  BY <1>1, <1>2, <1>3
<1>6. found \subseteq reg
  BY <1>1
<1>7. \A r \in found : r.engineType = type /\ r.isActive /\ (key # Default => r.promptKey = key)
  BY <1>1
<1>8. \A r \in reg : r.engineType = type /\ r.isActive /\ (r.promptKey = key \/ key = Default) => r \in found
  <2> SUFFICES ASSUME NEW r \in reg, r.engineType = type, r.isActive, r.promptKey = key \/ key = Default
               PROVE  r \in found
    OBVIOUS
  <2>1. r \in typed
    OBVIOUS
  <2>2. CASE key # Default
    BY <1>1, <2>1, <2>2
  <2>3. CASE key = Default
    BY <1>1, <1>3, <2>1, <2>3
  <2> QED
    BY <2>2, <2>3
<1> QED
  BY <1>5, <1>6, <1>7, <1>8 DEF found

\* A version of a type is known when a row has it, under whatever key.
LEMMA KnownIs ==
  ASSUME NEW reg, NEW type, NEW version
  PROVE  FindPromptRow(reg, type, Default, version) # {} <=>
           \E r \in reg : r.engineType = type /\ r.version = version
BY DEF FindPromptRow

-----------------------------------------------------------------------------
(* Switching rows on and off. *)

LEMMA SwitchedAre ==
  ASSUME NEW reg, reg \subseteq PromptRow, NEW rows \in SUBSET reg, NEW on \in BOOLEAN
  PROVE  /\ Switched(reg, rows, on) \subseteq PromptRow
         /\ \A t \in Switched(reg, rows, on) : \E r \in reg :
              SameRow(r, t) /\ (IF r \in rows THEN t.isActive = on ELSE t = r)
         /\ \A r \in reg : \E t \in Switched(reg, rows, on) :
              SameRow(r, t) /\ (IF r \in rows THEN t.isActive = on ELSE t = r)
<1>1. \A r \in rows : /\ [r EXCEPT !.isActive = on] \in PromptRow
                      /\ SameRow(r, [r EXCEPT !.isActive = on])
                      /\ [r EXCEPT !.isActive = on].isActive = on
  BY DEF PromptRow, SameRow
<1>2. \A r \in reg : SameRow(r, r)
  BY DEF SameRow
<1>3. Switched(reg, rows, on) \subseteq PromptRow
  BY <1>1 DEF Switched
<1>4. ASSUME NEW t \in Switched(reg, rows, on)
      PROVE  \E r \in reg : SameRow(r, t) /\ (IF r \in rows THEN t.isActive = on ELSE t = r)
  <2>1. CASE t \in reg \ rows
    BY <1>2, <2>1
  <2>2. CASE t \in {[r EXCEPT !.isActive = on] : r \in rows}
    <3>1. PICK r \in rows : t = [r EXCEPT !.isActive = on]
      BY <2>2
    <3> QED
      BY <1>1, <3>1
  <2> QED
    BY <2>1, <2>2 DEF Switched
<1>5. ASSUME NEW r \in reg
      PROVE  \E t \in Switched(reg, rows, on) :
               SameRow(r, t) /\ (IF r \in rows THEN t.isActive = on ELSE t = r)
  <2>1. CASE r \in rows
    <3>1. [r EXCEPT !.isActive = on] \in Switched(reg, rows, on)
      BY <2>1 DEF Switched
    <3> QED
      BY <1>1, <2>1, <3>1
  <2>2. CASE r \notin rows
    <3>1. r \in Switched(reg, rows, on)
      BY <2>2 DEF Switched
    <3> QED
      BY <1>2, <2>2, <3>1
  <2> QED
    BY <2>1, <2>2
<1> QED
  BY <1>3, <1>4, <1>5

\* Rows are not changed but for their being active.
LEMMA SwitchedSame ==
  ASSUME NEW reg, RegistryOk(reg), NEW rows \in SUBSET reg, NEW on \in BOOLEAN
  PROVE  /\ Switched(reg, rows, on) \subseteq PromptRow
         /\ \A t, u \in Switched(reg, rows, on) : SameRow(t, u) => t = u
         /\ \A t \in Switched(reg, rows, on) : UnderDefault(t.engineType) => t.promptKey \in {Default, NoKey}
<1> DEFINE S == Switched(reg, rows, on)
<1>1. reg \subseteq PromptRow
  BY DEF RegistryOk
<1>2. /\ S \subseteq PromptRow
      /\ \A t \in S : \E r \in reg :
           SameRow(r, t) /\ (IF r \in rows THEN t.isActive = on ELSE t = r)
  BY <1>1, SwitchedAre
<1> HIDE DEF S
<1>3. ASSUME NEW t \in S, NEW u \in S, SameRow(t, u) PROVE t = u
  <2>1. PICK r \in reg : SameRow(r, t) /\ (IF r \in rows THEN t.isActive = on ELSE t = r)
    BY <1>2
  <2>2. PICK s \in reg : SameRow(s, u) /\ (IF s \in rows THEN u.isActive = on ELSE u = s)
    BY <1>2
  <2>3. r = s
    <3>1. SameRow(r, s)
      BY <1>3, <2>1, <2>2 DEF SameRow
    <3> QED
      BY <3>1 DEF RegistryOk
  <2>4. t.isActive = u.isActive
    BY <2>1, <2>2, <2>3
  <2>5. t \in PromptRow /\ u \in PromptRow
    BY <1>2
  <2> QED
    BY <1>3, <2>4, <2>5 DEF SameRow, PromptRow
<1>4. ASSUME NEW t \in S, UnderDefault(t.engineType) PROVE t.promptKey \in {Default, NoKey}
  <2>1. PICK r \in reg : SameRow(r, t)
    BY <1>2
  <2>2. r.engineType = t.engineType /\ r.promptKey = t.promptKey
    BY <2>1 DEF SameRow
  <2> QED
    BY <1>4, <2>2 DEF RegistryOk
<1> QED
  BY <1>2, <1>3, <1>4 DEF S

LEMMA SwitchOff ==
  ASSUME NEW reg, RegistryOk(reg), NEW rows \in SUBSET reg
  PROVE  RegistryOk(Switched(reg, rows, FALSE))
<1> DEFINE S == Switched(reg, rows, FALSE)
<1>1. /\ S \subseteq PromptRow
      /\ \A t, u \in S : SameRow(t, u) => t = u
      /\ \A t \in S : UnderDefault(t.engineType) => t.promptKey \in {Default, NoKey}
  BY SwitchedSame
<1>2. \A t \in S : t.isActive => t \in reg
  <2>1. reg \subseteq PromptRow
    BY DEF RegistryOk
  <2>2. \A t \in S : \E r \in reg : SameRow(r, t) /\ (IF r \in rows THEN t.isActive = FALSE ELSE t = r)
    BY <2>1, SwitchedAre
  <2> HIDE DEF S
  <2> QED
    BY <2>2
<1> HIDE DEF S
<1>3. \A t, u \in S : t.isActive /\ u.isActive /\ Rivals(t, u) => t = u
  BY <1>2 DEF RegistryOk
<1>4. RegistryOk(S)
  BY <1>1, <1>3 DEF RegistryOk
<1> QED
  BY <1>4 DEF S

\* Rows may be switched on that have no active rival but themselves.
LEMMA SwitchOn ==
  ASSUME NEW reg, RegistryOk(reg), NEW rows \in SUBSET reg,
         \A r \in rows : \A s \in reg : Rivals(r, s) /\ (s.isActive \/ s \in rows) => s = r
  PROVE  RegistryOk(Switched(reg, rows, TRUE))
<1> DEFINE S == Switched(reg, rows, TRUE)
<1>1. /\ S \subseteq PromptRow
      /\ \A t, u \in S : SameRow(t, u) => t = u
      /\ \A t \in S : UnderDefault(t.engineType) => t.promptKey \in {Default, NoKey}
  BY SwitchedSame
<1>2. \A t \in S : \E r \in reg : SameRow(r, t) /\ (IF r \in rows THEN t.isActive = TRUE ELSE t = r)
  <2>1. reg \subseteq PromptRow
    BY DEF RegistryOk
  <2> QED
    BY <2>1, SwitchedAre
<1> HIDE DEF S
<1>3. ASSUME NEW t \in S, NEW u \in S, t.isActive, u.isActive, Rivals(t, u) PROVE t = u
  <2>1. PICK r \in reg : SameRow(r, t) /\ (IF r \in rows THEN t.isActive = TRUE ELSE t = r)
    BY <1>2
  <2>2. PICK s \in reg : SameRow(s, u) /\ (IF s \in rows THEN u.isActive = TRUE ELSE u = s)
    BY <1>2
  <2>3. Rivals(r, s) /\ Rivals(s, r)
    BY <1>3, <2>1, <2>2 DEF Rivals, SameRow
  <2>4. r \in rows \/ r.isActive
    BY <1>3, <2>1
  <2>5. s \in rows \/ s.isActive
    BY <1>3, <2>2
  <2>6. r = s
    <3>1. CASE r \in rows
      BY <2>3, <2>5, <3>1
    <3>2. CASE s \in rows
      BY <2>3, <2>4, <3>2
    <3>3. CASE r \notin rows /\ s \notin rows
      BY <2>3, <2>4, <2>5, <3>3 DEF RegistryOk
    <3> QED
      BY <3>1, <3>2, <3>3
  <2>7. SameRow(t, u)
    BY <2>1, <2>2, <2>6 DEF SameRow
  <2> QED
    BY <1>1, <2>7
<1>4. RegistryOk(S)
  BY <1>1, <1>3 DEF RegistryOk
<1> QED
  BY <1>4 DEF S

\* An entry of the catalog finds an active row.
Answered(reg, type, key) ==
  \E r \in reg : r.engineType = type /\ r.isActive /\ (r.promptKey = key \/ key = Default)
\* No row is lost, whatever it becomes.
Keeps(old, new) == \A r \in old : \E t \in new : SameRow(r, t)

LEMMA AnsweredIs ==
  ASSUME NEW reg, RegistryOk(reg), NEW type, NEW key, key = Default => UnderDefault(type)
  PROVE  FindActivePromptRow(reg, type, key) # {} <=> Answered(reg, type, key)
<1>1. /\ FindActivePromptRow(reg, type, key) \subseteq reg
      /\ \A r \in FindActivePromptRow(reg, type, key) :
           r.engineType = type /\ r.isActive /\ (key # Default => r.promptKey = key)
      /\ \A r \in reg : r.engineType = type /\ r.isActive /\ (r.promptKey = key \/ key = Default)
                          => r \in FindActivePromptRow(reg, type, key)
  BY ActiveRows
<1> QED
  BY <1>1 DEF Answered

LEMMA NewRows ==
  ASSUME NEW reg, RegistryOk(reg), NEW news, news \subseteq PromptRow,
         \A r \in news : /\ ~r.isActive
                         /\ KeyOf(r.engineType, r.promptKey)
                         /\ \A s \in reg : ~SameRow(r, s)
  PROVE  RegistryOk(reg \cup news)
<1>1. \A r, s \in news : SameRow(r, s) => r = s
  BY DEF PromptRow, SameRow
<1>2. \A r, s \in reg \cup news : SameRow(r, s) => r = s
  <2>1. \A r \in news, s \in reg : ~SameRow(r, s) /\ ~SameRow(s, r)
    BY DEF SameRow
  <2> QED
    BY <1>1, <2>1 DEF RegistryOk
<1>3. \A r, s \in reg \cup news : r.isActive /\ s.isActive /\ Rivals(r, s) => r = s
  BY DEF RegistryOk
<1>4. ASSUME NEW r \in reg \cup news, UnderDefault(r.engineType)
      PROVE  r.promptKey \in {Default, NoKey}
  <2>1. CASE r \in news
    BY <1>4, <2>1, KeysDoNotMix
  <2> QED
    BY <1>4, <2>1 DEF RegistryOk
<1> QED
  BY <1>2, <1>3, <1>4 DEF RegistryOk

LEMMA NewRowIs ==
  ASSUME NEW type, NEW key, KeyOf(type, key), NEW version \in Versions
  PROVE  LET r == NewRow(type, key, version)
         IN /\ r \in PromptRow /\ ~r.isActive
            /\ r.engineType = type /\ r.promptKey = key /\ r.version = version
<1>1. type \in STRING /\ key \in STRING
  BY KeysDoNotMix
<1> QED
  BY <1>1 DEF NewRow, PromptRow

LEMMA InsertedIs ==
  ASSUME NEW reg, RegistryOk(reg), NEW type, NEW key, KeyOf(type, key), NEW version \in Versions
  PROVE  /\ RegistryOk(Inserted(reg, type, key, version))
         /\ reg \subseteq Inserted(reg, type, key, version)
         /\ \A r \in Inserted(reg, type, key, version) : r.isActive => r \in reg
         /\ FindPromptRow(Inserted(reg, type, key, version), type, key, version) # {}
<1> DEFINE ins == Inserted(reg, type, key, version)
           row == NewRow(type, key, version)
<1>0. key = Default => UnderDefault(type)
  BY KeysDoNotMix
<1>1. /\ row \in PromptRow /\ ~row.isActive
      /\ row.engineType = type /\ row.promptKey = key /\ row.version = version
  BY NewRowIs
<1> HIDE DEF row
<1>2. CASE FindPromptRow(reg, type, key, version) = {}
  <2>1. ins = reg \cup {row}
    BY <1>2 DEF Inserted, row
  <2>2. \A s \in reg : ~SameRow(row, s)
    <3>1. \A r \in reg : r.engineType = type /\ r.version = version => key # Default /\ r.promptKey # key
      BY <1>0, <1>2, FoundRows
    <3> QED
      BY <1>1, <3>1 DEF SameRow
  <2>3. RegistryOk(reg \cup {row})
    <3> DEFINE news == {row}
    <3>1. news \subseteq PromptRow
      BY <1>1
    <3>2. \A r \in news : ~r.isActive /\ KeyOf(r.engineType, r.promptKey) /\ \A s \in reg : ~SameRow(r, s)
      BY <1>1, <2>2
    <3> HIDE DEF news
    <3>3. RegistryOk(reg \cup news)
      BY <3>1, <3>2, NewRows
    <3> QED
      BY <3>3 DEF news
  <2>4. FindPromptRow(reg \cup {row}, type, key, version) # {}
    <3>1. row \in {r \in {q \in reg \cup {row} : q.engineType = type /\ q.version = version} : r.promptKey = key}
      BY <1>1
    <3> QED
      BY <3>1 DEF FindPromptRow
  <2> QED
    BY <1>1, <2>1, <2>3, <2>4
<1>3. CASE FindPromptRow(reg, type, key, version) # {}
  <2>1. ins = reg
    BY <1>3 DEF Inserted
  <2> QED
    BY <1>3, <2>1
<1> QED
  BY <1>2, <1>3

\* What the mutations on one key do to the registry.
LEMMA ActivatedIs ==
  ASSUME NEW reg, RegistryOk(reg), NEW type, NEW key, KeyOf(type, key), NEW version,
         NEW old, old \subseteq reg, \A r \in old : r.isActive,
         \A r \in old : r.engineType = type /\ (key # Default => r.promptKey = key),
         \A r \in reg : r.engineType = type /\ r.isActive /\ (r.promptKey = key \/ key = Default)
                          => r \in old,
         FindPromptRow(reg, type, key, version) # {}
  PROVE  LET new == ActivatedInstead(reg, old, FindPromptRow(reg, type, key, version))
         IN /\ RegistryOk(new) /\ Keeps(reg, new)
            /\ \A e \in Range(Catalog) : Answered(reg, e.engineType, e.promptKey)
                                           => Answered(new, e.engineType, e.promptKey)
<1> DEFINE found == FindPromptRow(reg, type, key, version)
           out == old \ found
           mid == Switched(reg, out, FALSE)
           new == Switched(mid, found, TRUE)
<1>1. key = Default <=> UnderDefault(type)
  BY KeysDoNotMix
<1>2. /\ found \subseteq reg
      /\ \A r, s \in found : r = s
      /\ \A r \in found : r.engineType = type /\ r.version = version /\ (key # Default => r.promptKey = key)
  BY <1>1, FoundRows
<1>3. found # {}
  OBVIOUS
<1> HIDE DEF found
<1>4. reg \subseteq PromptRow
  BY DEF RegistryOk
<1>5. RegistryOk(mid)
  BY SwitchOff
<1>6. /\ mid \subseteq PromptRow
      /\ \A t \in mid : \E r \in reg : SameRow(r, t) /\ (IF r \in out THEN t.isActive = FALSE ELSE t = r)
      /\ \A r \in reg : \E t \in mid : SameRow(r, t) /\ (IF r \in out THEN t.isActive = FALSE ELSE t = r)
  BY <1>4, SwitchedAre
<1>7. found \subseteq mid
  BY <1>2 DEF Switched
<1> HIDE DEF mid
<1>8. ASSUME NEW r \in found, NEW s \in mid, Rivals(r, s), s.isActive \/ s \in found PROVE s = r
  <2>1. CASE s \in found
    BY <1>2, <2>1
  <2>2. CASE s.isActive
    <3>1. PICK q \in reg : SameRow(q, s) /\ (IF q \in out THEN s.isActive = FALSE ELSE s = q)
      BY <1>6
    <3>2. q \notin out /\ s = q
      BY <2>2, <3>1
    <3>3. s.engineType = type /\ (s.promptKey = key \/ key = Default)
      BY <1>1, <1>2, <1>8 DEF Rivals
    <3>4. s \in old
      BY <2>2, <3>2, <3>3
    <3> QED
      BY <1>2, <3>2, <3>4
  <2> QED
    BY <1>8, <2>1, <2>2
<1>9. RegistryOk(new)
  BY <1>5, <1>7, <1>8, SwitchOn
<1>10. /\ \A r \in mid : \E t \in new : SameRow(r, t) /\ (IF r \in found THEN t.isActive = TRUE ELSE t = r)
  BY <1>6, <1>7, SwitchedAre
<1> HIDE DEF new
<1>11. Keeps(reg, new)
  <2> SUFFICES ASSUME NEW r \in reg PROVE \E t \in new : SameRow(r, t)
    BY DEF Keeps
  <2>1. PICK s \in mid : SameRow(r, s)
    BY <1>6
  <2>2. PICK t \in new : SameRow(s, t)
    BY <1>10
  <2> QED
    BY <2>1, <2>2 DEF SameRow
<1>12. ASSUME NEW e \in Range(Catalog), Answered(reg, e.engineType, e.promptKey)
       PROVE  Answered(new, e.engineType, e.promptKey)
  <2>1. PICK r \in reg : r.engineType = e.engineType /\ r.isActive /\ (r.promptKey = e.promptKey \/ e.promptKey = Default)
    BY <1>12 DEF Answered
  <2>2. KeyOf(e.engineType, e.promptKey)
    BY DEF KeyOf
  <2>3. e.promptKey = Default <=> UnderDefault(e.engineType)
    BY <2>2, KeysDoNotMix
  <2>4. CASE r \in old
    <3>1. e.engineType = type
      BY <2>1, <2>4
    <3>2. e.promptKey = Default <=> key = Default
      BY <1>1, <2>3, <3>1
    <3>3. key # Default => r.promptKey = key /\ e.promptKey = key
      BY <2>1, <2>4, <3>2
    <3>4. PICK s \in found : TRUE
      BY <1>3
    <3>5. PICK t \in new : SameRow(s, t) /\ t.isActive = TRUE
      BY <1>7, <1>10
    <3>6. t.engineType = type /\ (key # Default => t.promptKey = key)
      BY <1>2, <3>5 DEF SameRow
    <3> QED
      BY <3>1, <3>2, <3>3, <3>5, <3>6 DEF Answered
  <2>5. CASE r \notin old
    <3>1. PICK s \in mid : SameRow(r, s) /\ s = r
      BY <1>6, <2>5
    <3>2. PICK t \in new : SameRow(s, t) /\ (IF s \in found THEN t.isActive = TRUE ELSE t = s)
      BY <1>10
    <3>3. t.isActive
      BY <2>1, <3>1, <3>2
    <3>4. t.engineType = e.engineType /\ t.promptKey = r.promptKey
      BY <2>1, <3>1, <3>2 DEF SameRow
    <3> QED
      BY <2>1, <3>3, <3>4 DEF Answered
  <2> QED
    BY <2>4, <2>5
<1> QED
  BY <1>9, <1>11, <1>12 DEF ActivatedInstead, found, mid, new

\* Of the entries of one key, the first.
First(i) ==
  \A k \in 1 .. i - 1 : \/ Catalog[k].engineType # Catalog[i].engineType
                        \/ Catalog[k].promptKey # Catalog[i].promptKey

LEMMA EveryKeyHasAFirst ==
  ASSUME NEW i \in DOMAIN Catalog
  PROVE  \E k \in DOMAIN Catalog :
           /\ First(k) /\ Catalog[k].engineType = Catalog[i].engineType
           /\ Catalog[k].promptKey = Catalog[i].promptKey
<1> DEFINE S == {k \in DOMAIN Catalog : /\ Catalog[k].engineType = Catalog[i].engineType
                                        /\ Catalog[k].promptKey = Catalog[i].promptKey}
<1>1. S \in SUBSET Nat /\ S # {}
  BY EntryRows
<1>2. PICK k \in S : \A l \in S : k <= l
  <2> HIDE DEF S
  <2> QED
    BY <1>1, LeastOf
<1>3. \A l \in 1 .. k - 1 : l \in DOMAIN Catalog /\ ~(k <= l)
  BY EntryRows
<1>4. First(k)
  BY <1>2, <1>3 DEF First
<1> QED
  BY <1>4

LEMMA FirstsDiffer ==
  ASSUME NEW i \in DOMAIN Catalog, NEW k \in DOMAIN Catalog, First(i), First(k),
         Catalog[k].engineType = Catalog[i].engineType,
         Catalog[k].promptKey = Catalog[i].promptKey
  PROVE  i = k
<1>1. i \in Nat /\ k \in Nat /\ 1 <= i /\ 1 <= k
  BY EntryRows
<1>2. ~(k \in 1 .. i - 1) /\ ~(i \in 1 .. k - 1)
  BY DEF First
<1> QED
  BY <1>1, <1>2

Missing(reg) == {NewRow(e.engineType, e.promptKey, e.version) :
                   e \in {e \in Range(Catalog) : EntryRow(e, reg) = {}}}
Due(reg) == {i \in DOMAIN Catalog : ActiveRow(Catalog[i], reg) = {} /\ First(i)}
Synced(reg) ==
  Switched(reg \cup Missing(reg),
           UNION {EntryRow(Catalog[i], reg \cup Missing(reg)) : i \in Due(reg)}, TRUE)

LEMMA SyncIs == SyncCatalog => registry' = Synced(registry) /\ seeded' = TRUE
BY DEF SyncCatalog, Synced, Due, Missing, First

LEMMA StoredRows ==
  ASSUME NEW reg, RegistryOk(reg)
  PROVE  /\ RegistryOk(reg \cup Missing(reg))
         /\ \A r \in Missing(reg) : ~r.isActive
         /\ \A e \in Range(Catalog) : EntryRow(e, reg \cup Missing(reg)) # {}
<1> DEFINE news == Missing(reg)
<1>0. ASSUME NEW e \in Range(Catalog)
      PROVE  /\ KeyOf(e.engineType, e.promptKey) /\ e.version \in Versions
             /\ e.promptKey = Default <=> UnderDefault(e.engineType)
  <2>1. KeyOf(e.engineType, e.promptKey)
    BY DEF KeyOf
  <2>2. e \in [engineType : STRING, promptKey : STRING, version : Versions]
    BY EntryRows
  <2>3. e.promptKey = Default <=> UnderDefault(e.engineType)
    BY <2>1, KeysDoNotMix
  <2> QED
    BY <2>1, <2>2, <2>3
<1>1. ASSUME NEW r \in news
      PROVE  r \in PromptRow /\ ~r.isActive /\ KeyOf(r.engineType, r.promptKey) /\ \A s \in reg : ~SameRow(r, s)
  <2>1. PICK e \in Range(Catalog) : EntryRow(e, reg) = {} /\ r = NewRow(e.engineType, e.promptKey, e.version)
    BY DEF Missing
  <2>2. KeyOf(e.engineType, e.promptKey) /\ e.version \in Versions
    BY <1>0
  <2>3. /\ r \in PromptRow /\ ~r.isActive
        /\ r.engineType = e.engineType /\ r.promptKey = e.promptKey /\ r.version = e.version
    BY <2>1, <2>2, NewRowIs
  <2>4. FindPromptRow(reg, e.engineType, e.promptKey, e.version) = {}
    BY <2>1 DEF EntryRow
  <2>5. e.promptKey = Default => UnderDefault(e.engineType)
    BY <1>0
  <2>6. \A s \in reg : s.engineType = e.engineType /\ s.version = e.version
                         => e.promptKey # Default /\ s.promptKey # e.promptKey
    BY <2>4, <2>5, FoundRows
  <2> QED
    BY <2>2, <2>3, <2>6 DEF SameRow
<1>3. ASSUME NEW e \in Range(Catalog)
      PROVE  \E r \in reg \cup news : /\ r.engineType = e.engineType /\ r.version = e.version
                                      /\ (e.promptKey = Default \/ r.promptKey = e.promptKey)
  <2>1. KeyOf(e.engineType, e.promptKey) /\ e.version \in Versions
    BY <1>0
  <2>2. CASE EntryRow(e, reg) = {}
    <3>1. NewRow(e.engineType, e.promptKey, e.version) \in news
      BY <2>2 DEF Missing
    <3> HIDE DEF news
    <3>2. PICK r \in news : r = NewRow(e.engineType, e.promptKey, e.version)
      BY <3>1
    <3>3. r.engineType = e.engineType /\ r.promptKey = e.promptKey /\ r.version = e.version
      BY <2>1, <3>2, NewRowIs
    <3> QED
      BY <3>3
  <2>3. CASE EntryRow(e, reg) # {}
    <3>1. FindPromptRow(reg, e.engineType, e.promptKey, e.version) # {}
      BY <2>3 DEF EntryRow
    <3>2. e.promptKey = Default => UnderDefault(e.engineType)
      BY <1>0
    <3>3. \E r \in reg : /\ r.engineType = e.engineType /\ r.version = e.version
                         /\ (e.promptKey = Default \/ r.promptKey = e.promptKey)
      BY <3>1, <3>2, FoundRows
    <3> QED
      BY <3>3
  <2> QED
    BY <2>2, <2>3
<1> HIDE DEF news
<1>2. RegistryOk(reg \cup news)
  BY <1>1, NewRows
<1>4. ASSUME NEW e \in Range(Catalog) PROVE EntryRow(e, reg \cup news) # {}
  <2>1. e.promptKey = Default => UnderDefault(e.engineType)
    BY <1>0
  <2>2. FindPromptRow(reg \cup news, e.engineType, e.promptKey, e.version) # {}
    <3> DEFINE all == reg \cup news
    <3>1. \E r \in all : /\ r.engineType = e.engineType /\ r.version = e.version
                         /\ (e.promptKey = Default \/ r.promptKey = e.promptKey)
      BY <1>3
    <3>2. RegistryOk(all)
      BY <1>2
    <3> HIDE DEF all
    <3>3. FindPromptRow(all, e.engineType, e.promptKey, e.version) # {}
      BY <2>1, <3>1, <3>2, FoundRows
    <3> QED
      BY <3>3 DEF all
  <2> QED
    BY <2>2 DEF EntryRow
<1> QED
  BY <1>1, <1>2, <1>4 DEF news

\* A sync leaves every entry of the catalog with an active row, and one only.
LEMMA SyncedRegistry ==
  ASSUME NEW reg, RegistryOk(reg)
  PROVE  /\ RegistryOk(Synced(reg)) /\ Keeps(reg, Synced(reg))
         /\ \A e \in Range(Catalog) : Answered(Synced(reg), e.engineType, e.promptKey)
<1> DEFINE news == Missing(reg)
           stored == reg \cup news
           rows == UNION {EntryRow(Catalog[i], stored) : i \in Due(reg)}
           new == Switched(stored, rows, TRUE)
<1>1. /\ RegistryOk(stored)
      /\ \A r \in news : ~r.isActive
      /\ \A e \in Range(Catalog) : EntryRow(e, stored) # {}
  BY StoredRows
<1>0. /\ reg \subseteq stored /\ \A r \in stored : r.isActive => r \in reg
  BY <1>1
<1> HIDE DEF news, stored
<1>2. ASSUME NEW i \in DOMAIN Catalog
      PROVE  /\ Catalog[i] \in Range(Catalog)
             /\ Catalog[i].promptKey = Default <=> UnderDefault(Catalog[i].engineType)
             /\ EntryRow(Catalog[i], stored) \subseteq stored
             /\ \A r, s \in EntryRow(Catalog[i], stored) : r = s
             /\ \A r \in EntryRow(Catalog[i], stored) :
                  /\ r.engineType = Catalog[i].engineType
                  /\ Catalog[i].promptKey # Default => r.promptKey = Catalog[i].promptKey
  <2>1. Catalog[i] \in Range(Catalog) /\ KeyOf(Catalog[i].engineType, Catalog[i].promptKey)
    BY EntriesAre
  <2>2. Catalog[i].promptKey = Default <=> UnderDefault(Catalog[i].engineType)
    BY <2>1, KeysDoNotMix
  <2>3. EntryRow(Catalog[i], stored) =
          FindPromptRow(stored, Catalog[i].engineType, Catalog[i].promptKey, Catalog[i].version)
    BY DEF EntryRow
  <2> QED
    BY <1>1, <2>1, <2>2, <2>3, FoundRows
<1>3. ASSUME NEW i \in Due(reg)
      PROVE  /\ i \in DOMAIN Catalog /\ First(i)
             /\ ~Answered(reg, Catalog[i].engineType, Catalog[i].promptKey)
  <2>1. i \in DOMAIN Catalog /\ First(i) /\ ActiveRow(Catalog[i], reg) = {}
    BY DEF Due
  <2>2. Catalog[i].promptKey = Default => UnderDefault(Catalog[i].engineType)
    BY <1>2, <2>1
  <2>3. FindActivePromptRow(reg, Catalog[i].engineType, Catalog[i].promptKey) = {}
    BY <2>1 DEF ActiveRow
  <2> QED
    BY <2>1, <2>2, <2>3, AnsweredIs
<1>4. \A r \in rows : \E i \in Due(reg) : r \in EntryRow(Catalog[i], stored)
  OBVIOUS
<1>5. \A i \in Due(reg) : EntryRow(Catalog[i], stored) \subseteq rows
  OBVIOUS
<1> HIDE DEF rows
<1>6. rows \subseteq stored
  BY <1>2, <1>3, <1>4
<1>7. ASSUME NEW r \in rows, NEW s \in stored, Rivals(r, s), s.isActive \/ s \in rows PROVE s = r
  <2>1. PICK i \in Due(reg) : r \in EntryRow(Catalog[i], stored)
    BY <1>4
  <2>2. i \in DOMAIN Catalog /\ First(i) /\ ~Answered(reg, Catalog[i].engineType, Catalog[i].promptKey)
    BY <1>3
  <2>3. s.engineType = Catalog[i].engineType /\ r.engineType = Catalog[i].engineType
    BY <1>2, <1>7, <2>1, <2>2 DEF Rivals
  <2>4. Catalog[i].promptKey # Default => s.promptKey = Catalog[i].promptKey
    BY <1>2, <1>7, <2>1, <2>2, <2>3 DEF Rivals
  <2>5. CASE s.isActive
    <3>1. s \in reg
      BY <1>0, <2>5
    <3> QED
      BY <2>2, <2>3, <2>4, <2>5, <3>1 DEF Answered
  <2>6. CASE s \in rows
    <3>1. PICK k \in Due(reg) : s \in EntryRow(Catalog[k], stored)
      BY <1>4, <2>6
    <3>2. k \in DOMAIN Catalog /\ First(k)
      BY <1>3
    <3>3. Catalog[k].engineType = Catalog[i].engineType
      BY <1>2, <2>3, <3>1, <3>2
    <3>4. Catalog[k].promptKey = Default <=> Catalog[i].promptKey = Default
      BY <1>2, <2>2, <3>2, <3>3
    <3>5. Catalog[k].promptKey = Catalog[i].promptKey
      BY <1>2, <2>4, <3>1, <3>2, <3>4
    <3>6. i = k
      BY <2>2, <3>2, <3>3, <3>5, FirstsDiffer
    <3> QED
      BY <1>2, <2>1, <2>2, <3>1, <3>6
  <2> QED
    BY <1>7, <2>5, <2>6
<1>8. RegistryOk(new)
  BY <1>1, <1>6, <1>7, SwitchOn
<1>9. stored \subseteq PromptRow
  BY <1>1 DEF RegistryOk
<1>10. \A r \in stored : \E t \in new : SameRow(r, t) /\ (IF r \in rows THEN t.isActive = TRUE ELSE t = r)
  BY <1>6, <1>9, SwitchedAre
<1> HIDE DEF new
<1>11. Keeps(reg, new)
  BY <1>0, <1>10 DEF Keeps
<1>12. ASSUME NEW i \in DOMAIN Catalog
       PROVE  Answered(new, Catalog[i].engineType, Catalog[i].promptKey)
  <2>1. CASE Answered(reg, Catalog[i].engineType, Catalog[i].promptKey)
    <3>1. PICK r \in reg : /\ r.engineType = Catalog[i].engineType /\ r.isActive
                           /\ r.promptKey = Catalog[i].promptKey \/ Catalog[i].promptKey = Default
      BY <2>1 DEF Answered
    <3>2. PICK t \in new : SameRow(r, t) /\ (IF r \in rows THEN t.isActive = TRUE ELSE t = r)
      BY <1>0, <1>10
    <3>3. t.isActive
      BY <3>1, <3>2
    <3> QED
      BY <3>1, <3>2, <3>3 DEF Answered, SameRow
  <2>2. CASE ~Answered(reg, Catalog[i].engineType, Catalog[i].promptKey)
    <3>1. PICK k \in DOMAIN Catalog :
            /\ First(k) /\ Catalog[k].engineType = Catalog[i].engineType
            /\ Catalog[k].promptKey = Catalog[i].promptKey
      BY EveryKeyHasAFirst
    <3>2. Catalog[k].promptKey = Default => UnderDefault(Catalog[k].engineType)
      BY <1>2
    <3>3. ActiveRow(Catalog[k], reg) = {}
      <4>1. FindActivePromptRow(reg, Catalog[k].engineType, Catalog[k].promptKey) = {}
        BY <2>2, <3>1, <3>2, AnsweredIs
      <4> QED
        BY <4>1 DEF ActiveRow
    <3>4. k \in Due(reg)
      BY <3>1, <3>3 DEF Due
    <3>5. PICK r \in EntryRow(Catalog[k], stored) : TRUE
      BY <1>1, <1>2
    <3>6. r \in rows /\ r \in stored
      BY <1>2, <1>5, <3>4, <3>5
    <3>7. PICK t \in new : SameRow(r, t) /\ t.isActive = TRUE
      BY <1>10, <3>6
    <3>8. r.engineType = Catalog[i].engineType /\ (Catalog[i].promptKey # Default => r.promptKey = Catalog[i].promptKey)
      BY <1>2, <3>1, <3>5
    <3> QED
      BY <3>7, <3>8 DEF Answered, SameRow
  <2> QED
    BY <2>1, <2>2
<1>13. \A e \in Range(Catalog) : Answered(new, e.engineType, e.promptKey)
  BY <1>12 DEF Range
<1> QED
  BY <1>8, <1>11, <1>13 DEF Synced, new, stored, news, rows

-----------------------------------------------------------------------------
(* The runs and what they put out. *)

Known(reg, type, version) == \E r \in reg : r.engineType = type /\ r.version = version

RunningJob == [phase : {"synced", "ready"}, engineType : EngineTypes, version : Versions,
               basis : 0 .. MaxOutputs]
\* What a run is about to use was looked up.
JobOk(job, reg) ==
  job = Idle \/ (job \in RunningJob /\ (job.phase = "ready" => Known(reg, job.engineType, job.version)))
JobsOk(jobs, reg) ==
  /\ jobs = [j \in Jobs |-> jobs[j]]
  /\ \A j \in Jobs : JobOk(jobs[j], reg)

OutputsKnown(outs, reg) ==
  \A i \in DOMAIN outs : outs[i].run => Known(reg, outs[i].engineType, outs[i].promptVersion)

TrailOf(i, adjs) == {a \in DOMAIN adjs : adjs[a].output = i}
TrailTrue(i, outs, adjs) ==
  LET trail == TrailOf(i, adjs)
  IN /\ \A a, b \in trail : a < b /\ (\A c \in trail : c <= a \/ b <= c) =>
          adjs[b].before = adjs[a].after
     /\ \A a \in trail : (\A b \in trail : b <= a) => adjs[a].after = outs[i].reviewState
     /\ outs[i].reviewState = "approved" /\ trail = {} =>
          /\ outs[i].confidence = "high" /\ ~outs[i].reviewFallback
          /\ outs[i].engineType # "offer"
ReviewsOk(outs, adjs) ==
  /\ outs \in Seq(Output) /\ Len(outs) <= MaxOutputs /\ adjs \in Seq(Adjudication)
  /\ \A a \in DOMAIN adjs : adjs[a].output \in DOMAIN outs
  /\ \A i \in DOMAIN outs : TrailTrue(i, outs, adjs)

CatalogAnswered(reg) == \A e \in Range(Catalog) : Answered(reg, e.engineType, e.promptKey)

EngineIInv ==
  /\ RegistryOk(registry) /\ (seeded => CatalogAnswered(registry))
  /\ ReviewsOk(outputs, adjudications)
  /\ OutputsKnown(outputs, registry) /\ JobsOk(engineJobs, registry)

LEMMA KnownStays ==
  ASSUME NEW reg, NEW new, Keeps(reg, new), NEW type, NEW version, Known(reg, type, version)
  PROVE  Known(new, type, version)
<1>1. PICK r \in reg : r.engineType = type /\ r.version = version
  BY DEF Known
<1>2. PICK t \in new : SameRow(r, t)
  BY DEF Keeps
<1> QED
  BY <1>1, <1>2 DEF Known, SameRow

LEMMA RunsStay ==
  ASSUME NEW reg, NEW new, Keeps(reg, new)
  PROVE  /\ \A outs : OutputsKnown(outs, reg) => OutputsKnown(outs, new)
         /\ \A jobs : JobsOk(jobs, reg) => JobsOk(jobs, new)
<1>1. \A type, version : Known(reg, type, version) => Known(new, type, version)
  BY KnownStays
<1> QED
  BY <1>1 DEF OutputsKnown, JobsOk, JobOk

LEMMA JobsMoved ==
  ASSUME NEW reg, NEW jobs, JobsOk(jobs, reg), NEW j \in Jobs, NEW job, JobOk(job, reg)
  PROVE  JobsOk([jobs EXCEPT ![j] = job], reg)
BY DEF JobsOk

\* A put output has no history.
LEMMA OutputPut ==
  ASSUME NEW outs, NEW adjs, ReviewsOk(outs, adjs), Len(outs) < MaxOutputs, NEW o \in Output,
         o.reviewState = "approved" =>
           o.confidence = "high" /\ ~o.reviewFallback /\ o.engineType # "offer"
  PROVE  ReviewsOk(Append(outs, o), adjs)
<1>1. /\ Len(Append(outs, o)) = Len(outs) + 1 /\ Append(outs, o) \in Seq(Output)
      /\ DOMAIN Append(outs, o) = 1 .. Len(outs) + 1 /\ DOMAIN outs = 1 .. Len(outs)
      /\ \A i \in 1 .. Len(outs) : Append(outs, o)[i] = outs[i]
      /\ Append(outs, o)[Len(outs) + 1] = o /\ Len(outs) \in Nat
  <2>1. outs \in Seq(Output)
    BY DEF ReviewsOk
  <2> HIDE DEF Output
  <2> QED
    BY <2>1, AppendProperties
<1> PICK new : new = Append(outs, o)
  OBVIOUS
<1>2. PICK n \in Nat : n = Len(outs)
  BY <1>1
<1>3. MaxOutputs \in Nat
  BY EngineAssumption
<1>4. /\ Len(new) = n + 1 /\ new \in Seq(Output) /\ DOMAIN new = 1 .. n + 1 /\ DOMAIN outs = 1 .. n
      /\ \A i \in 1 .. n : new[i] = outs[i]
      /\ new[n + 1] = o
  BY <1>1, <1>2
<1>5. \A a \in DOMAIN adjs : adjs[a].output \in 1 .. n
  BY <1>4 DEF ReviewsOk
<1>6. \A i \in 1 .. n : TrailTrue(i, new, adjs)
  <2>1. \A i \in 1 .. n : TrailTrue(i, outs, adjs)
    BY <1>4 DEF ReviewsOk
  <2> QED
    BY <1>4, <2>1 DEF TrailTrue
<1>7. TrailTrue(n + 1, new, adjs)
  <2>1. TrailOf(n + 1, adjs) = {}
    BY <1>5 DEF TrailOf
  <2> QED
    BY <1>4, <2>1 DEF TrailTrue
<1>8. \A i \in DOMAIN new : TrailTrue(i, new, adjs)
  <2>1. \A i \in 1 .. n + 1 : i \in 1 .. n \/ i = n + 1
    OBVIOUS
  <2> QED
    BY <1>4, <1>6, <1>7, <2>1
<1>9. Len(new) <= MaxOutputs
  BY <1>2, <1>3, <1>4
<1> QED
  BY <1>4, <1>5, <1>8, <1>9 DEF ReviewsOk

\* A review is added to the history of its output.
LEMMA Reviewed ==
  ASSUME NEW outs, NEW adjs, ReviewsOk(outs, adjs), NEW o \in DOMAIN outs,
         NEW after \in {"approved", "rejected"}
  PROVE  ReviewsOk([outs EXCEPT ![o].reviewState = after],
                   Append(adjs, [output |-> o, before |-> outs[o].reviewState, after |-> after]))
<1>0. /\ outs \in Seq(Output) /\ adjs \in Seq(Adjudication) /\ MaxOutputs \in Nat /\ Len(outs) <= MaxOutputs
  BY EngineAssumption DEF ReviewsOk
<1>1. PICK adj : adj = [output |-> o, before |-> outs[o].reviewState, after |-> after]
  OBVIOUS
<1>2. PICK n \in Nat : n = Len(outs) /\ DOMAIN outs = 1 .. n /\ n <= MaxOutputs
  <2> HIDE DEF Output
  <2> QED
    BY <1>0, LenProperties
<1>3. outs[o] \in Output
  <2> HIDE DEF Output
  <2> QED
    BY <1>0
<1>4. adj \in Adjudication
  <2>1. o \in 1 .. MaxOutputs
    BY <1>0, <1>2
  <2>2. outs[o].reviewState \in {"pending", "approved", "rejected"}
    BY <1>3 DEF Output
  <2> QED
    BY <1>1, <2>1, <2>2 DEF Adjudication
<1>5. PICK row : row = [outs[o] EXCEPT !.reviewState = after]
  OBVIOUS
<1>6. /\ row \in Output /\ row.reviewState = after
  BY <1>3, <1>5 DEF Output
<1>7. PICK new : new = [outs EXCEPT ![o] = row]
  OBVIOUS
<1>8. /\ new \in Seq(Output) /\ Len(new) = n /\ DOMAIN new = 1 .. n
      /\ new[o] = row /\ \A i \in 1 .. n : i # o => new[i] = outs[i]
  <2> HIDE DEF Output
  <2> QED
    BY <1>0, <1>2, <1>6, <1>7, ExceptSeq
<1>9. PICK m \in Nat : m = Len(adjs) /\ DOMAIN adjs = 1 .. m
  <2> HIDE DEF Adjudication
  <2> QED
    BY <1>0, LenProperties
<1>10. PICK more : more = Append(adjs, adj)
  OBVIOUS
<1>11. /\ more \in Seq(Adjudication) /\ DOMAIN more = 1 .. m + 1
       /\ \A a \in 1 .. m : more[a] = adjs[a]
       /\ more[m + 1] = adj
  <2> HIDE DEF Adjudication
  <2> QED
    BY <1>0, <1>4, <1>9, <1>10, AppendProperties
<1>12. \A a \in DOMAIN more : more[a].output \in DOMAIN new
  <2>1. \A a \in 1 .. m : adjs[a].output \in 1 .. n
    BY <1>2, <1>9 DEF ReviewsOk
  <2>2. adj.output \in 1 .. n
    BY <1>1, <1>2
  <2>3. \A a \in 1 .. m + 1 : a \in 1 .. m \/ a = m + 1
    OBVIOUS
  <2> QED
    BY <1>8, <1>11, <2>1, <2>2, <2>3
<1>13. ASSUME NEW i \in 1 .. n, i # o PROVE TrailTrue(i, new, more)
  <2>1. TrailTrue(i, outs, adjs)
    BY <1>2 DEF ReviewsOk
  <2>2. TrailOf(i, more) = TrailOf(i, adjs)
    <3>1. adj.output # i
      BY <1>1, <1>13
    <3>2. \A a \in 1 .. m + 1 : a \in 1 .. m \/ a = m + 1
      OBVIOUS
    <3> QED
      BY <1>9, <1>11, <3>1, <3>2 DEF TrailOf
  <2>3. \A a \in TrailOf(i, adjs) : more[a] = adjs[a]
    BY <1>9, <1>11 DEF TrailOf
  <2>4. new[i] = outs[i]
    BY <1>8, <1>13
  <2> QED
    BY <2>1, <2>2, <2>3, <2>4 DEF TrailTrue
<1>14. TrailTrue(o, new, more)
  <2>1. TrailTrue(o, outs, adjs)
    BY DEF ReviewsOk
  <2>2. TrailOf(o, more) = TrailOf(o, adjs) \cup {m + 1}
    <3>1. adj.output = o
      BY <1>1
    <3>2. \A a \in 1 .. m + 1 : a \in 1 .. m \/ a = m + 1
      OBVIOUS
    <3> QED
      BY <1>9, <1>11, <3>1, <3>2 DEF TrailOf
  <2>3. \A a \in TrailOf(o, adjs) : a \in 1 .. m /\ a \in Nat /\ a < m + 1 /\ more[a] = adjs[a]
    BY <1>9, <1>11 DEF TrailOf
  <2>4. adj.before = outs[o].reviewState /\ adj.after = after
    BY <1>1
  <2>5. ASSUME NEW a \in TrailOf(o, more), NEW b \in TrailOf(o, more), a < b,
               \A c \in TrailOf(o, more) : c <= a \/ b <= c
        PROVE  more[b].before = more[a].after
    <3>1. a \in TrailOf(o, adjs)
      BY <2>2, <2>3, <2>5
    <3>2. CASE b \in TrailOf(o, adjs)
      <4>1. \A c \in TrailOf(o, adjs) : c <= a \/ b <= c
        BY <2>2, <2>5
      <4> QED
        BY <2>1, <2>3, <2>5, <3>1, <3>2, <4>1 DEF TrailTrue
    <3>3. CASE b = m + 1
      <4>1. \A c \in TrailOf(o, adjs) : c <= a
        BY <2>2, <2>3, <2>5, <3>3
      <4>2. adjs[a].after = outs[o].reviewState
        BY <2>1, <3>1, <4>1 DEF TrailTrue
      <4> QED
        BY <1>11, <2>3, <2>4, <3>1, <3>3, <4>2
    <3> QED
      BY <2>2, <2>5, <3>2, <3>3
  <2>6. ASSUME NEW a \in TrailOf(o, more), \A b \in TrailOf(o, more) : b <= a
        PROVE  more[a].after = new[o].reviewState
    <3>1. a = m + 1
      BY <2>2, <2>3, <2>6
    <3> QED
      BY <1>6, <1>8, <1>11, <2>4, <3>1
  <2>7. TrailOf(o, more) # {}
    BY <2>2
  <2> QED
    BY <2>5, <2>6, <2>7 DEF TrailTrue
<1>15. \A i \in DOMAIN new : TrailTrue(i, new, more)
  BY <1>8, <1>13, <1>14
<1>16. ReviewsOk(new, more)
  BY <1>2, <1>8, <1>11, <1>12, <1>15 DEF ReviewsOk
<1> QED
  BY <1>1, <1>5, <1>7, <1>10, <1>16

-----------------------------------------------------------------------------
(* Every action keeps the invariant. *)

LEMMA RegistryMoves ==
  ASSUME EngineIInv, RegistryOk(registry'), Keeps(registry, registry'),
         seeded' => CatalogAnswered(registry'), UNCHANGED <<outputs, adjudications>>,
         JobsOk(engineJobs', registry)
  PROVE  EngineIInv'
<1>1. OutputsKnown(outputs, registry') /\ JobsOk(engineJobs', registry')
  BY RunsStay DEF EngineIInv
<1> QED
  BY <1>1 DEF EngineIInv

LEMMA CatalogSynced ==
  ASSUME EngineIInv, SyncCatalog
  PROVE  /\ RegistryOk(registry') /\ Keeps(registry, registry')
         /\ seeded' => CatalogAnswered(registry')
<1>1. registry' = Synced(registry)
  BY SyncIs
<1>2. RegistryOk(registry)
  BY DEF EngineIInv
<1> QED
  BY <1>1, <1>2, SyncedRegistry DEF CatalogAnswered

LEMMA EnsureCatalogKeeps ==
  ASSUME EngineIInv, EnsureCatalogPrompts
  PROVE  EngineIInv'
<1>1. SyncCatalog /\ UNCHANGED <<outputs, adjudications, engineJobs>>
  BY DEF EnsureCatalogPrompts
<1> QED
  BY <1>1, CatalogSynced, RegistryMoves DEF EngineIInv

LEMMA StartRunKeeps ==
  ASSUME EngineIInv, NEW j \in Jobs, NEW type \in EngineTypes, NEW version \in Versions,
         StartRun(j, type, version)
  PROVE  EngineIInv'
<1>1. SyncCatalog /\ UNCHANGED <<outputs, adjudications>>
  BY DEF StartRun
<1>2. PICK job : job = [phase |-> "synced", engineType |-> type, version |-> version, basis |-> 0]
  OBVIOUS
<1>3. JobOk(job, registry)
  BY <1>2, EngineAssumption DEF JobOk, RunningJob
<1>4. engineJobs' = [engineJobs EXCEPT ![j] = job]
  BY <1>2 DEF StartRun
<1>5. JobsOk(engineJobs', registry)
  BY <1>3, <1>4, JobsMoved DEF EngineIInv
<1> QED
  BY <1>1, <1>5, CatalogSynced, RegistryMoves

LEMMA ActiveNow ==
  ASSUME EngineIInv, NEW type, NEW key, KeyOf(type, key)
  PROVE  LET old == FindActivePromptRow(registry, type, key)
         IN /\ old \subseteq registry /\ \A r \in old : r.isActive
            /\ \A r \in old : r.engineType = type /\ (key # Default => r.promptKey = key)
            /\ \A r \in registry : r.engineType = type /\ r.isActive /\ (r.promptKey = key \/ key = Default)
                                     => r \in old
<1>1. RegistryOk(registry) /\ (key = Default => UnderDefault(type))
  BY KeysDoNotMix DEF EngineIInv
<1> QED
  BY <1>1, ActiveRows

LEMMA RegisterPromptKeeps ==
  ASSUME EngineIInv, NEW type, NEW key, KeyOf(type, key), NEW version \in Versions,
         NEW activate \in BOOLEAN, RegisterPrompt(type, key, version, activate)
  PROVE  EngineIInv'
<1>1. PICK stored : stored = Inserted(registry, type, key, version)
  OBVIOUS
<1>2. PICK old : old = FindActivePromptRow(registry, type, key)
  OBVIOUS
<1>3. /\ UNCHANGED <<outputs, adjudications, engineJobs, seeded>>
      /\ registry' = IF activate
                       THEN ActivatedInstead(stored, old, FindPromptRow(stored, type, key, version))
                       ELSE stored
  BY <1>1, <1>2 DEF RegisterPrompt
<1>4. /\ RegistryOk(stored) /\ registry \subseteq stored
      /\ \A r \in stored : r.isActive => r \in registry
      /\ FindPromptRow(stored, type, key, version) # {}
  <2>1. RegistryOk(registry)
    BY DEF EngineIInv
  <2> QED
    BY <1>1, <2>1, InsertedIs
<1>5. Keeps(registry, stored)
  BY <1>4 DEF Keeps, SameRow
<1>6. CatalogAnswered(registry) => CatalogAnswered(stored)
  BY <1>4 DEF CatalogAnswered, Answered
<1>7. /\ RegistryOk(registry') /\ Keeps(registry, registry')
      /\ CatalogAnswered(registry) => CatalogAnswered(registry')
  <2>1. CASE ~activate
    BY <1>3, <1>4, <1>5, <1>6, <2>1
  <2>2. CASE activate
    <3>1. /\ old \subseteq registry /\ \A r \in old : r.isActive
          /\ \A r \in old : r.engineType = type /\ (key # Default => r.promptKey = key)
          /\ \A r \in registry : r.engineType = type /\ r.isActive /\ (r.promptKey = key \/ key = Default)
                                   => r \in old
      BY <1>2, ActiveNow
    <3>2. old \subseteq stored
      BY <1>4, <3>1
    <3>3. \A r \in stored : r.engineType = type /\ r.isActive /\ (r.promptKey = key \/ key = Default)
                              => r \in old
      BY <1>4, <3>1
    <3>4. registry' = ActivatedInstead(stored, old, FindPromptRow(stored, type, key, version))
      BY <1>3, <2>2
    <3>5. /\ RegistryOk(registry') /\ Keeps(stored, registry')
          /\ \A e \in Range(Catalog) : Answered(stored, e.engineType, e.promptKey)
                                         => Answered(registry', e.engineType, e.promptKey)
      BY <1>4, <3>1, <3>2, <3>3, <3>4, ActivatedIs
    <3>6. Keeps(registry, registry')
      BY <1>4, <3>5 DEF Keeps
    <3> QED
      BY <1>6, <3>5, <3>6 DEF CatalogAnswered
  <2> QED
    BY <2>1, <2>2
<1>8. JobsOk(engineJobs', registry)
  BY <1>3 DEF EngineIInv
<1>9. seeded' => CatalogAnswered(registry')
  BY <1>3, <1>7 DEF EngineIInv
<1> QED
  BY <1>3, <1>7, <1>8, <1>9, RegistryMoves

LEMMA ActivateVersionKeeps ==
  ASSUME EngineIInv, NEW type, NEW key, KeyOf(type, key), NEW version \in Versions,
         ActivateVersion(type, key, version)
  PROVE  EngineIInv'
<1>1. PICK old : old = FindActivePromptRow(registry, type, key)
  OBVIOUS
<1>2. /\ UNCHANGED <<outputs, adjudications, engineJobs, seeded>>
      /\ FindPromptRow(registry, type, key, version) # {}
      /\ registry' = ActivatedInstead(registry, old, FindPromptRow(registry, type, key, version))
  BY <1>1 DEF ActivateVersion
<1>3. /\ old \subseteq registry /\ \A r \in old : r.isActive
      /\ \A r \in old : r.engineType = type /\ (key # Default => r.promptKey = key)
      /\ \A r \in registry : r.engineType = type /\ r.isActive /\ (r.promptKey = key \/ key = Default)
                               => r \in old
  BY <1>1, ActiveNow
<1>4. RegistryOk(registry)
  BY DEF EngineIInv
<1>5. /\ RegistryOk(registry') /\ Keeps(registry, registry')
      /\ \A e \in Range(Catalog) : Answered(registry, e.engineType, e.promptKey)
                                     => Answered(registry', e.engineType, e.promptKey)
  BY <1>2, <1>3, <1>4, ActivatedIs
<1>6. JobsOk(engineJobs', registry)
  BY <1>2 DEF EngineIInv
<1>7. seeded' => CatalogAnswered(registry')
  BY <1>2, <1>5 DEF EngineIInv, CatalogAnswered
<1> QED
  BY <1>2, <1>5, <1>6, <1>7, RegistryMoves

LEMMA JobMoves ==
  ASSUME EngineIInv, NEW j \in Jobs, NEW job, JobOk(job, registry),
         engineJobs' = [engineJobs EXCEPT ![j] = job],
         UNCHANGED <<registry, outputs, adjudications, seeded>>
  PROVE  EngineIInv'
<1>1. JobsOk(engineJobs', registry)
  BY JobsMoved DEF EngineIInv
<1> QED
  BY <1>1 DEF EngineIInv

LEMMA Running ==
  ASSUME EngineIInv, NEW j \in Jobs, engineJobs[j].phase \in {"synced", "ready"}
  PROVE  /\ engineJobs[j] \in RunningJob
         /\ engineJobs[j].phase = "ready" => Known(registry, engineJobs[j].engineType, engineJobs[j].version)
BY DEF EngineIInv, JobsOk, JobOk, Idle

LEMMA ReadInputsKeeps ==
  ASSUME EngineIInv, NEW j \in Jobs, ReadInputs(j)
  PROVE  EngineIInv'
<1>1. /\ engineJobs[j].phase = "synced"
      /\ UNCHANGED <<registry, outputs, adjudications, seeded>>
  BY DEF ReadInputs
<1>2. engineJobs[j] \in RunningJob
  BY <1>1, Running
<1>3. PICK priced : priced = {i \in DOMAIN outputs : outputs[i].engineType = "pricing"}
  OBVIOUS
<1>4. PICK basis : basis = IF engineJobs[j].engineType = "offer" /\ priced # {}
                             THEN CHOOSE i \in priced : \A k \in priced : k <= i
                             ELSE 0
  OBVIOUS
<1>5. PICK found : found = FindPromptRow(registry, engineJobs[j].engineType, Default, engineJobs[j].version)
  OBVIOUS
<1>6. basis \in 0 .. MaxOutputs
  <2>1. outputs \in Seq(Output) /\ Len(outputs) <= MaxOutputs /\ MaxOutputs \in Nat
    BY EngineAssumption DEF EngineIInv, ReviewsOk
  <2>2. PICK n \in Nat : n = Len(outputs) /\ DOMAIN outputs = 1 .. n /\ n <= MaxOutputs
    <3> HIDE DEF Output
    <3> QED
      BY <2>1, LenProperties
  <2>3. priced \subseteq 1 .. n
    BY <1>3, <2>2
  <2>4. CASE priced # {}
    <3>1. PICK last : last = CHOOSE i \in priced : \A k \in priced : k <= i
      OBVIOUS
    <3>2. last \in priced
      BY <2>3, <2>4, <3>1, LastOf
    <3>3. last \in 1 .. n
      BY <2>3, <3>2
    <3>4. last \in 0 .. MaxOutputs
      BY <2>1, <2>2, <3>3
    <3> QED
      BY <1>4, <2>1, <2>4, <3>1, <3>4
  <2>5. CASE priced = {}
    BY <1>4, <2>1, <2>5
  <2> QED
    BY <2>4, <2>5
<1>7. PICK read : read = [engineJobs[j] EXCEPT !.phase = "ready", !.basis = basis]
  OBVIOUS
<1>8. /\ read \in RunningJob /\ read.engineType = engineJobs[j].engineType
      /\ read.version = engineJobs[j].version
  BY <1>2, <1>6, <1>7 DEF RunningJob
<1>9. engineJobs' = [engineJobs EXCEPT ![j] = IF found = {} THEN Idle ELSE read]
  BY <1>3, <1>4, <1>5, <1>7 DEF ReadInputs
<1>10. CASE found = {}
  <2>1. JobOk(Idle, registry)
    BY DEF JobOk
  <2> QED
    BY <1>1, <1>9, <1>10, <2>1, JobMoves
<1>11. CASE found # {}
  <2>1. Known(registry, engineJobs[j].engineType, engineJobs[j].version)
    BY <1>5, <1>11, KnownIs DEF Known
  <2>2. JobOk(read, registry)
    BY <1>8, <2>1 DEF JobOk
  <2> QED
    BY <1>1, <1>9, <1>11, <2>2, JobMoves
<1> QED
  BY <1>10, <1>11

LEMMA AbandonRunKeeps ==
  ASSUME EngineIInv, NEW j \in Jobs, AbandonRun(j)
  PROVE  EngineIInv'
<1>1. JobOk(Idle, registry)
  BY DEF JobOk
<1> QED
  BY <1>1, JobMoves DEF AbandonRun

LEMMA KnownPut ==
  ASSUME NEW outs \in Seq(Output), NEW reg, OutputsKnown(outs, reg), NEW o \in Output,
         o.run => Known(reg, o.engineType, o.promptVersion)
  PROVE  OutputsKnown(Append(outs, o), reg)
<1>1. /\ DOMAIN Append(outs, o) = 1 .. Len(outs) + 1 /\ DOMAIN outs = 1 .. Len(outs)
      /\ \A i \in 1 .. Len(outs) : Append(outs, o)[i] = outs[i]
      /\ Append(outs, o)[Len(outs) + 1] = o /\ Len(outs) \in Nat
  <2> HIDE DEF Output
  <2> QED
    BY AppendProperties
<1> PICK new : new = Append(outs, o)
  OBVIOUS
<1>2. PICK n \in Nat : n = Len(outs)
  BY <1>1
<1>3. /\ DOMAIN new = 1 .. n + 1 /\ DOMAIN outs = 1 .. n /\ \A i \in 1 .. n : new[i] = outs[i]
      /\ new[n + 1] = o
  BY <1>1, <1>2
<1>4. \A i \in 1 .. n + 1 : i \in 1 .. n \/ i = n + 1
  OBVIOUS
<1> QED
  BY <1>3, <1>4 DEF OutputsKnown

LEMMA NothingUnreviewed ==
  ASSUME NEW type, NEW confidence, NEW fallback \in BOOLEAN,
         IF type = "pricing" THEN TRUE ELSE ~fallback,
         DetermineReviewState(type, confidence, fallback) = "approved"
  PROVE  confidence = "high" /\ ~fallback /\ type # "offer"
BY DEF DetermineReviewState, BaseState

LEMMA CreateOutputKeeps ==
  ASSUME EngineIInv, NEW j \in Jobs, NEW confidence \in Confidence, NEW fallback \in BOOLEAN,
         CreateOutput(j, confidence, fallback)
  PROVE  EngineIInv'
<1>1. /\ engineJobs[j].phase = "ready" /\ Len(outputs) < MaxOutputs
      /\ engineJobs' = [engineJobs EXCEPT ![j] = Idle]
      /\ UNCHANGED <<registry, adjudications, seeded>>
      /\ IF engineJobs[j].engineType = "pricing" THEN TRUE ELSE ~fallback
  BY DEF CreateOutput, Put
<1>2. engineJobs[j] \in RunningJob /\ Known(registry, engineJobs[j].engineType, engineJobs[j].version)
  BY <1>1, Running
<1>3. PICK state : state = DetermineReviewState(engineJobs[j].engineType, confidence, fallback)
  OBVIOUS
<1>4. state \in {"approved", "pending"}
  BY <1>3 DEF DetermineReviewState
<1>5. PICK o : o = [engineType |-> engineJobs[j].engineType, promptVersion |-> engineJobs[j].version,
                    confidence |-> confidence, reviewFallback |-> fallback,
                    basis |-> engineJobs[j].basis, run |-> TRUE, reviewState |-> state]
  OBVIOUS
<1>6. outputs' = Append(outputs, o)
  BY <1>3, <1>5 DEF CreateOutput, Put
<1>7. o \in Output
  BY <1>2, <1>4, <1>5 DEF Output, RunningJob
<1>8. o.reviewState = "approved" => o.confidence = "high" /\ ~o.reviewFallback /\ o.engineType # "offer"
  BY <1>1, <1>3, <1>5, NothingUnreviewed
<1>9. o.run => Known(registry, o.engineType, o.promptVersion)
  BY <1>2, <1>5
<1>10. ReviewsOk(outputs', adjudications)
  BY <1>1, <1>6, <1>7, <1>8, OutputPut DEF EngineIInv
<1>11. OutputsKnown(outputs', registry)
  <2>1. outputs \in Seq(Output) /\ OutputsKnown(outputs, registry)
    BY DEF EngineIInv, ReviewsOk
  <2> QED
    BY <1>6, <1>7, <1>9, <2>1, KnownPut
<1>12. JobsOk(engineJobs', registry)
  <2>1. JobOk(Idle, registry)
    BY DEF JobOk
  <2> QED
    BY <1>1, <2>1, JobsMoved DEF EngineIInv
<1> QED
  BY <1>1, <1>10, <1>11, <1>12 DEF EngineIInv

LEMMA SeedOfferScenariosKeeps ==
  ASSUME EngineIInv, SeedOfferScenarios
  PROVE  EngineIInv'
<1>1. PICK e \in Range(Catalog) : Put("offer", e.version, "high", FALSE, 0, FALSE, "pending")
  BY DEF SeedOfferScenarios
<1>2. UNCHANGED <<registry, adjudications, engineJobs, seeded>> /\ Len(outputs) < MaxOutputs
  BY <1>1 DEF SeedOfferScenarios, Put
<1>3. PICK o : o = [engineType |-> "offer", promptVersion |-> e.version, confidence |-> "high",
                    reviewFallback |-> FALSE, basis |-> 0, run |-> FALSE, reviewState |-> "pending"]
  OBVIOUS
<1>4. outputs' = Append(outputs, o)
  BY <1>1, <1>3 DEF Put
<1>5. o \in Output
  <2>1. e.version \in Versions
    BY EntryRows
  <2>2. "offer" \in EngineTypes /\ MaxOutputs \in Nat
    BY EngineAssumption
  <2> QED
    BY <1>3, <2>1, <2>2 DEF Output
<1>6. o.reviewState = "approved" => o.confidence = "high" /\ ~o.reviewFallback /\ o.engineType # "offer"
  BY <1>3
<1>7. o.run => Known(registry, o.engineType, o.promptVersion)
  BY <1>3
<1>8. ReviewsOk(outputs', adjudications)
  BY <1>2, <1>4, <1>5, <1>6, OutputPut DEF EngineIInv
<1>9. OutputsKnown(outputs', registry)
  <2>1. outputs \in Seq(Output) /\ OutputsKnown(outputs, registry)
    BY DEF EngineIInv, ReviewsOk
  <2> QED
    BY <1>4, <1>5, <1>7, <2>1, KnownPut
<1> QED
  BY <1>2, <1>8, <1>9 DEF EngineIInv

LEMMA SubmitAdjudicationKeeps ==
  ASSUME EngineIInv, NEW o \in DOMAIN outputs, NEW visibility,
         SubmitAdjudication(o, visibility)
  PROVE  EngineIInv'
<1>1. PICK after \in {"approved", "rejected"} :
        /\ outputs' = [outputs EXCEPT ![o].reviewState = after]
        /\ adjudications' = Append(adjudications,
             [output |-> o, before |-> outputs[o].reviewState, after |-> after])
  BY DEF SubmitAdjudication
<1>2. UNCHANGED <<registry, engineJobs, seeded>>
  BY DEF SubmitAdjudication
<1>3. ReviewsOk(outputs', adjudications')
  BY <1>1, Reviewed DEF EngineIInv
<1>4. OutputsKnown(outputs', registry)
  <2>1. outputs \in Seq(Output) /\ OutputsKnown(outputs, registry)
    BY DEF EngineIInv, ReviewsOk
  <2>2. DOMAIN outputs' = DOMAIN outputs
    BY <1>1
  <2>3. ASSUME NEW i \in DOMAIN outputs
        PROVE  /\ outputs'[i].run = outputs[i].run /\ outputs'[i].engineType = outputs[i].engineType
               /\ outputs'[i].promptVersion = outputs[i].promptVersion
    <3>1. outputs[i] \in Output
      <4> HIDE DEF Output
      <4> QED
        BY <2>1
    <3>2. i # o => outputs'[i] = outputs[i]
      BY <1>1
    <3>3. outputs'[o] = [outputs[o] EXCEPT !.reviewState = after]
      BY <1>1
    <3> QED
      BY <3>1, <3>2, <3>3 DEF Output
  <2> QED
    BY <2>1, <2>2, <2>3 DEF OutputsKnown
<1> QED
  BY <1>2, <1>3, <1>4 DEF EngineIInv

LEMMA EngineStep == EngineIInv /\ [EngineNext]_engineVars => EngineIInv'
<1> SUFFICES ASSUME EngineIInv, [EngineNext]_engineVars PROVE EngineIInv'
  OBVIOUS
<1>1. CASE EnsureCatalogPrompts
  BY <1>1, EnsureCatalogKeeps
<1>2. CASE SeedOfferScenarios
  BY <1>2, SeedOfferScenariosKeeps
<1>3. ASSUME NEW type \in {e.engineType : e \in Range(Catalog)}, NEW version \in Versions,
             NEW key \in Keys(type), NEW activate \in BOOLEAN,
             RegisterPrompt(type, key, version, activate)
      PROVE  EngineIInv'
  <2>1. KeyOf(type, key)
    BY DEF Keys, KeyOf
  <2> QED
    BY <1>3, <2>1, RegisterPromptKeeps
<1>4. ASSUME NEW type \in {e.engineType : e \in Range(Catalog)}, NEW version \in Versions,
             NEW key \in Keys(type), ActivateVersion(type, key, version)
      PROVE  EngineIInv'
  <2>1. KeyOf(type, key)
    BY DEF Keys, KeyOf
  <2> QED
    BY <1>4, <2>1, ActivateVersionKeeps
<1>5. ASSUME NEW type \in EngineTypes, NEW version \in Versions, NEW j \in Jobs,
             StartRun(j, type, version)
      PROVE  EngineIInv'
  BY <1>5, StartRunKeeps
<1>6. ASSUME NEW j \in Jobs, ReadInputs(j) PROVE EngineIInv'
  BY <1>6, ReadInputsKeeps
<1>7. ASSUME NEW j \in Jobs, AbandonRun(j) PROVE EngineIInv'
  BY <1>7, AbandonRunKeeps
<1>8. ASSUME NEW j \in Jobs, NEW confidence \in Confidence, NEW fallback \in BOOLEAN,
             CreateOutput(j, confidence, fallback)
      PROVE  EngineIInv'
  BY <1>8, CreateOutputKeeps
<1>9. ASSUME NEW o \in DOMAIN outputs, NEW visibility \in {"buyer_safe", "internal_only"},
             SubmitAdjudication(o, visibility)
      PROVE  EngineIInv'
  BY <1>9, SubmitAdjudicationKeeps
<1>10. CASE UNCHANGED engineVars
  BY <1>10 DEF EngineIInv, engineVars
<1> QED
  BY <1>1, <1>2, <1>3, <1>4, <1>5, <1>6, <1>7, <1>8, <1>9, <1>10 DEF EngineNext

LEMMA EngineStart == EngineInit => EngineIInv
<1> SUFFICES ASSUME EngineInit PROVE EngineIInv
  OBVIOUS
<1>1. RegistryOk(registry)
  <2>1. registry = LegacyRows
    BY DEF EngineInit
  <2>2. LegacyRows \subseteq PromptRow /\ \A r \in LegacyRows : r.promptKey = NoKey
    BY EngineAssumption
  <2>3. \A r, s \in LegacyRows : r.engineType = s.engineType /\ r # s =>
          r.version # s.version /\ ~(r.isActive /\ s.isActive)
    BY EngineAssumption
  <2> QED
    BY <2>1, <2>2, <2>3 DEF RegistryOk, SameRow, Rivals
<1>2. ReviewsOk(outputs, adjudications)
  <2>1. outputs = <<>> /\ adjudications = <<>> /\ MaxOutputs \in Nat
    BY EngineAssumption DEF EngineInit
  <2> QED
    BY <2>1 DEF ReviewsOk
<1>3. OutputsKnown(outputs, registry) /\ JobsOk(engineJobs, registry) /\ ~seeded
  BY DEF EngineInit, OutputsKnown, JobsOk, JobOk
<1> QED
  BY <1>1, <1>2, <1>3 DEF EngineIInv

LEMMA EnginesImplied == EngineIInv => EnginesSound
<1> SUFFICES ASSUME EngineIInv PROVE EnginesSound
  OBVIOUS
<1>0. RegistryOk(registry) /\ ReviewsOk(outputs, adjudications) /\ OutputsKnown(outputs, registry)
  BY DEF EngineIInv
<1>1. EngineTypeOK
  BY <1>0 DEF EngineTypeOK, RegistryOk, ReviewsOk
<1>2. \A e \in Range(Catalog) : e.promptKey = Default => UnderDefault(e.engineType)
  BY DEF UnderDefault
<1>3. RegistrySound
  <2>1. ASSUME NEW e \in Range(Catalog), NEW v \in Versions
        PROVE  Readable(registry, e.engineType, e.promptKey, v)
    <3>1. IsUnique(FindPromptRow(registry, e.engineType, e.promptKey, v))
      BY <1>0, <1>2, FoundRows DEF IsUnique
    <3>2. IsUnique(FindActivePromptRow(registry, e.engineType, e.promptKey))
      BY <1>0, <1>2, ActiveRows DEF IsUnique
    <3> QED
      BY <3>1, <3>2 DEF Readable
  <2>2. ASSUME seeded, NEW e \in Range(Catalog)
        PROVE  FindActivePromptRow(registry, e.engineType, e.promptKey) # {}
    <3>1. Answered(registry, e.engineType, e.promptKey)
      BY <2>2 DEF EngineIInv, CatalogAnswered
    <3> QED
      BY <1>0, <1>2, <3>1, AnsweredIs
  <2>3. ASSUME NEW i \in DOMAIN outputs, outputs[i].run
        PROVE  FindPromptRow(registry, outputs[i].engineType, Default, outputs[i].promptVersion) # {}
    BY <1>0, <2>3, KnownIs DEF OutputsKnown, Known
  <2> QED
    BY <2>1, <2>2, <2>3 DEF RegistrySound
<1>4. ReviewsSound
  <2>1. \A i \in DOMAIN outputs : TrailTrue(i, outputs, adjudications)
    BY <1>0 DEF ReviewsOk
  <2>2. ASSUME NEW type \in EngineTypes, NEW i \in ShownOutput(type), NEW k \in DOMAIN outputs,
               outputs[k].engineType = type
        PROVE  k <= i
    <3>1. PICK all : all = {l \in DOMAIN outputs : outputs[l].engineType = type}
      OBVIOUS
    <3>2. PICK n \in Nat : DOMAIN outputs = 1 .. n
      <4>1. outputs \in Seq(Output)
        BY <1>0 DEF ReviewsOk
      <4> HIDE DEF Output
      <4> QED
        BY <4>1, LenProperties
    <3>3. all \subseteq 1 .. n /\ k \in all
      BY <2>2, <3>1, <3>2
    <3>4. \A l \in all : l <= (CHOOSE m \in all : \A q \in all : q <= m)
      BY <3>3, LastOf
    <3>5. i = NewestOutput(type)
      BY <2>2 DEF ShownOutput
    <3>6. NewestOutput(type) = CHOOSE m \in all : \A q \in all : q <= m
      BY <3>1, <3>3 DEF NewestOutput
    <3> QED
      BY <3>3, <3>4, <3>5, <3>6
  <2> QED
    BY <2>1, <2>2 DEF ReviewsSound, TrailTrue, TrailOf
<1> QED
  BY <1>1, <1>3, <1>4 DEF EnginesSound

\* However engines run, prompts are put in and reviews are made, no lookup of a
\* prompt throws, what ran can be looked up, and a buyer sees an engine's newest
\* output or none, one a broker made safe or one no guardrail held back.
THEOREM EnginesAreSound == EngineSpec => []EnginesSound
<1>1. EngineInit => EngineIInv
  BY EngineStart
<1>2. EngineIInv /\ [EngineNext]_engineVars => EngineIInv'
  BY EngineStep
<1>3. EngineIInv => EnginesSound
  BY EnginesImplied
<1> QED
  BY <1>1, <1>2, <1>3, PTL DEF EngineSpec
=============================================================================
