---------------------------- MODULE CounterOffers ----------------------------
(***************************************************************************)
(* Counteroffers on the offers for one property, and the two records that  *)
(* are written when a negotiation ends: convex/counterOfferHistory.ts and  *)
(* convex/lib/counterofferHistory.ts.                                      *)
(*                                                                         *)
(* Brokers append and answer counters for either party.  No mutation       *)
(* creates an offer or moves it before its first counter, so every offer   *)
(* starts in any of its statuses, with no counter yet.                     *)
(***************************************************************************)
EXTENDS Naturals, Sequences

CONSTANTS
  Offers,       \* offers, all for one property
  Prices,       \* positive prices
  NoPrice,      \* no accepted price
  Outputs,      \* pricing engine outputs of the property
  MaxCounters   \* bound on the rounds of a negotiation

ASSUME CounterOffersAssumption ==
  /\ MaxCounters \in Nat
  /\ NoPrice \notin Prices

OfferStatuses == {"draft", "pending_review", "approved", "submitted", "countered",
                  "accepted", "rejected", "withdrawn", "expired"}
Parties == {"seller", "buyer"}
Decisions == {"accepted", "rejected", "expired", "withdrawn"}

Offer == [status : OfferStatuses, offerPrice : Prices]
Counter == [fromParty : Parties, price : Prices,
            status : Decisions \cup {"pending", "superseded"}]

NoRecord == [outcome |-> "none"]
Backtest == [outcome : Decisions, acceptedPrice : Prices \cup {NoPrice},
             countersMade : 1 .. MaxCounters]
Calibration == [outcome : {"accepted"}, offerId : Offers, acceptedPrice : Prices,
                countersMade : 1 .. MaxCounters]

VARIABLES
  offers,        \* offers
  counterOffers, \* counterOffers: per offer, its rows by version
  backtests,     \* recommendationBacktestRecords: at most one per offer
  calibrations   \* pricingCalibrationRecords: at most one per engine output

negotiation == <<offers, counterOffers, backtests, calibrations>>
-----------------------------------------------------------------------------
Newest(chain) == chain[Len(chain)]

\* Mutant: a counter may be appended to a chain that has ended.
CanAppendCounter_AfterEnd(chain, party) ==
  chain # <<>> => Newest(chain).fromParty # party

CanAppendCounter(chain, party) ==
  chain # <<>> => /\ Newest(chain).status = "pending"
                  /\ Newest(chain).fromParty # party

\* The chain with its current node superseded.
SupersededChain(chain) ==
  [i \in DOMAIN chain |->
     IF i = Len(chain) THEN [chain[i] EXCEPT !.status = "superseded"] ELSE chain[i]]

\* The offer shows as countered until the negotiation ends.
PromoteOffer(o) == offers' = [offers EXCEPT ![o].status = "countered"]

AppendCounter(o, party, price) ==
  LET chain == counterOffers[o] IN
  /\ offers[o].status \in {"submitted", "countered", "approved"}
  /\ CanAppendCounter(chain, party)
  /\ Len(chain) < MaxCounters
  /\ counterOffers' = [counterOffers EXCEPT ![o] = Append(SupersededChain(chain),
       [fromParty |-> party, price |-> price, status |-> "pending"])]
  /\ PromoteOffer(o)
  /\ UNCHANGED <<backtests, calibrations>>

\* Written once per offer, and only if the deal room has a property case with
\* a recommendation by now.
RecordBacktest(o, decision, price) ==
  \/ /\ backtests[o] = NoRecord
     /\ backtests' = [backtests EXCEPT ![o] =
          [outcome |-> decision,
           acceptedPrice |-> IF decision = "accepted" THEN price ELSE NoPrice,
           countersMade |-> Len(counterOffers[o])]]
  \/ UNCHANGED backtests

\* Written once per engine output, for the latest output there is by now, if
\* any, and if it can be parsed.
RecordCalibration(o, price) ==
  \/ \E e \in Outputs :
       /\ calibrations[e] = NoRecord
       /\ calibrations' = [calibrations EXCEPT ![e] =
            [outcome |-> "accepted", offerId |-> o, acceptedPrice |-> price,
             countersMade |-> Len(counterOffers[o])]]
  \/ UNCHANGED calibrations

RespondToCounter(o, i, decision) ==
  LET row == counterOffers[o][i] IN
  /\ row.status = "pending"
  /\ counterOffers' = [counterOffers EXCEPT ![o][i].status = decision]
  /\ RecordBacktest(o, decision, row.price)
  /\ IF decision = "accepted" /\ offers[o].status \notin Decisions
       THEN /\ offers' = [offers EXCEPT ![o].status = "accepted"]
            /\ RecordCalibration(o, row.price)
       ELSE UNCHANGED <<offers, calibrations>>
-----------------------------------------------------------------------------
NegotiationInit ==
  /\ offers \in [Offers -> Offer]
  /\ counterOffers = [o \in Offers |-> <<>>]
  /\ backtests = [o \in Offers |-> NoRecord]
  /\ calibrations = [e \in Outputs |-> NoRecord]

NegotiationNext ==
  \E o \in Offers :
    \/ \E party \in Parties, price \in Prices : AppendCounter(o, party, price)
    \/ \E i \in DOMAIN counterOffers[o], decision \in Decisions :
         RespondToCounter(o, i, decision)

NegotiationSpec == NegotiationInit /\ [][NegotiationNext]_negotiation
-----------------------------------------------------------------------------
\* Shape of the four tables.
NegotiationTypeOK ==
  /\ offers \in [Offers -> Offer]
  /\ counterOffers \in [Offers -> Seq(Counter)]
  /\ \A o \in Offers : Len(counterOffers[o]) <= MaxCounters
  /\ backtests \in [Offers -> Backtest \cup {NoRecord}]
  /\ calibrations \in [Outputs -> Calibration \cup {NoRecord}]

(***************************************************************************)
(* The chain the buyer is shown: "one current node", superseded ones       *)
(* before it, the parties alternating.  Every answered counter is the      *)
(* last, because an answer ends the negotiation.                           *)
(***************************************************************************)
ChainAlternates ==
  \A o \in Offers : \A i \in 1 .. Len(counterOffers[o]) - 1 :
    LET chain == counterOffers[o] IN
    /\ chain[i].status = "superseded"
    /\ chain[i].fromParty # chain[i + 1].fromParty

(***************************************************************************)
(* The offer follows its chain: from the first counter on it is countered  *)
(* until a counter is accepted and accepted from then on, so no counter of *)
(* an accepted offer is still open.                                        *)
(***************************************************************************)
OfferFollowsChain ==
  \A o \in Offers :
    LET chain == counterOffers[o] IN
    chain # <<>> =>
      offers[o].status = IF Newest(chain).status = "accepted"
                           THEN "accepted" ELSE "countered"

(***************************************************************************)
(* What was recorded of a negotiation for backtesting and for calibrating  *)
(* the pricing engine stays true: the outcome is the final one, the price  *)
(* the accepted one and the rounds all of them, because the chain is       *)
(* closed when the records are written.                                    *)
(***************************************************************************)
RecordsStayTrue ==
  /\ \A o \in Offers :
       LET chain == counterOffers[o] record == backtests[o] IN
       record # NoRecord =>
         /\ Len(chain) = record.countersMade
         /\ Newest(chain).status = record.outcome
         /\ record.acceptedPrice =
              IF record.outcome = "accepted" THEN Newest(chain).price ELSE NoPrice
  /\ \A e \in Outputs :
       LET record == calibrations[e] IN
       record # NoRecord =>
         LET chain == counterOffers[record.offerId] IN
         /\ Len(chain) = record.countersMade
         /\ Newest(chain).status = "accepted"
         /\ Newest(chain).price = record.acceptedPrice

\* A negotiation as the buyer and the seller see it is one alternating chain
\* whose end is what the offer says, and what was recorded of it stays true.
NegotiationSound ==
  NegotiationTypeOK /\ ChainAlternates /\ OfferFollowsChain /\ RecordsStayTrue
=============================================================================
