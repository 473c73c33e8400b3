---------------------------- MODULE OfferStrategy ----------------------------
(***************************************************************************)
(* The offer engine, and what the cockpit makes of its output: the         *)
(* negotiation playbook and the what-if scenarios                          *)
(* (convex/engines/offer.ts, src/lib/ai/engines/offer.ts,                  *)
(* src/lib/negotiation/playbook.ts, src/lib/dealroom/offer-what-if.ts,     *)
(* getCockpit of convex/offerCockpit.ts).                                  *)
(* One property; prices are per cent of its list price, in 12000ths of a   *)
(* point, which makes every price exact (the code rounds to dollars).      *)
(***************************************************************************)
EXTENDS Integers, Sequences, FiniteSets, FiniteSetsExt

CONSTANTS
  FairValues, Scores, \* what pricing and leverage say; 0 is none
  Waits,              \* days on the market
  Rivals,             \* competing offers
  Budgets,            \* of the buyer; 0 is none
  ReviewShift         \* 2,500 dollars, in per cent of the list price

ASSUME StrategyAssumption ==
  /\ FairValues \cup Scores \cup Waits \cup Rivals \cup Budgets \cup {ReviewShift} \subseteq Nat
  /\ 0 \in FairValues /\ 0 \in Scores /\ 0 \in Budgets

VARIABLES
  pricing,            \* newest output: fair value, the price likely to be accepted,
                      \* and whether it asks for a review
  leverage,           \* newest output: the score
  offer,              \* newest offer output: inputSnapshot and reviewState
  room                \* budget and financing of the buyer, price cuts of the listing

strategyVars == <<pricing, leverage, offer, room>>

Absent == 0
Unit == 12000
List == 100
OfferInputs == [list : {List}, fair : {Unit * v : v \in FairValues}, score : Scores, days : Waits,
                rivals : Rivals, budget : Budgets]
NoOffer == [review |-> "none"]
NoPricing == [fair |-> Absent, likely |-> Absent, review |-> FALSE]
HasPricing == pricing.fair # Absent
-----------------------------------------------------------------------------
(* generateOfferScenarios *)

\* In twentieths of a point: below zero the price goes down.
BaseDiscount(in) ==
  (IF in.score = Absent THEN 0 ELSE 2 * (50 - in.score))
  - (IF in.days > 60 THEN Min({in.days - 60, 60}) ELSE 0)
  + 30 * in.rivals

Reference(in) == IF in.fair = Absent THEN Unit * in.list ELSE in.fair
Shift(in, part) == in.list * BaseDiscount(in) * part  \* part 6: the whole discount
BalancedPrice(in) == Max({10800 * in.list, Reference(in) + Shift(in, 3)})

\* No scenario costs more than the budget the engine was given.
Capped(in, p) == IF in.budget # Absent /\ p > Unit * in.budget THEN Unit * in.budget ELSE p

Scenarios(in) ==
  << [name |-> "Aggressive", days |-> 45, keeps |-> {"inspection", "financing", "appraisal"},
         price |-> Capped(in, Max({10200 * in.list, Reference(in) - 360 * in.list + Shift(in, 6)}))],
     [name |-> "Balanced", days |-> 35, keeps |-> {"inspection", "financing"},
         price |-> Capped(in, BalancedPrice(in))],
     [name |-> "Competitive", days |-> 30, keeps |-> {"inspection"},
         price |-> Capped(in, Min({12600 * in.list,
                            Max({BalancedPrice(in) + 240 * in.list,
                                 Reference(in) + 240 * in.list + Shift(in, 2)})}))] >>

RecommendedIndex(in) == IF in.rivals > 0 THEN 3 ELSE 2
Recommended(in) == Scenarios(in)[RecommendedIndex(in)]
-----------------------------------------------------------------------------
(* buildNegotiationPlaybookBundle, over the outputs of the moment. *)

HasOffer == offer.review # "none"
Shareable == offer.review = "approved"
HasPrimary == HasOffer /\ HasPricing /\ leverage # Absent

\* The scenario after the recommended one, or to hold the ceiling.
HoldsCeiling == RecommendedIndex(offer.input) = Len(Scenarios(offer.input))
Primary == Recommended(offer.input)

\* Mutant: past the last scenario the ladder starts again.
Fallback_Wraps ==
  Scenarios(offer.input)[(RecommendedIndex(offer.input) % Len(Scenarios(offer.input))) + 1]

Fallback ==
  IF HoldsCeiling THEN Primary ELSE Scenarios(offer.input)[RecommendedIndex(offer.input) + 1]

PlaybookStatus ==
  IF ~HasPrimary THEN "insufficient_data" ELSE IF Shareable THEN "ready" ELSE "needs_review"

\* Reviews of the pricing and leverage outputs do not matter here.
BuyerBranches == IF HasPrimary /\ Shareable THEN {Primary, Fallback} ELSE {}

\* What the fallback branch may give up, in this order.
ConcessionOrder ==
  <<"price_step", "credit", "closing_speed", "contingency_trim", "broker_review">>
Apt(k) ==
  CASE k = 1 -> ~HoldsCeiling /\ Fallback.price > Primary.price
    [] k = 2 -> leverage >= 60 \/ room.cut
    [] k = 3 -> room.fast /\ Fallback.days > 21 /\ ~HoldsCeiling
    [] k = 4 -> Cardinality(Fallback.keeps) < Cardinality(Primary.keeps)
    [] k = 5 -> HoldsCeiling

\* The first three are said.
Concessions ==
  {k \in 1 .. 5 : Apt(k) /\ Cardinality({j \in 1 .. k : Apt(j)}) <= 3}

\* Every buyer here is pre-approved.  Without a further scenario the price of the
\* fallback counts as none.
InvalidationConditions ==
  (IF ~HoldsCeiling /\ room.budget # Absent /\ 100 * Fallback.price >= 98 * Unit * room.budget
     THEN {"readiness_tight"} ELSE {})
  \cup (IF HoldsCeiling THEN {"ladder_at_ceiling"} ELSE {})
  \cup (IF Shareable THEN {} ELSE {"under_review"})
-----------------------------------------------------------------------------
(* buildOfferWhatIfModel: the engine again, over its own snapshot. *)

\* The seller trims the ask by two per cent.
PriceScenario(in) == Recommended([in EXCEPT !.list = 98])

\* Two weeks later, counting from the offer's days on the market ...
InTwoWeeks(in) == Recommended([in EXCEPT !.days = @ + 14])

\* ... or from a leverage input's, whose engine is then run again: both may
\* differ from what the offer was made for.
InTwoWeeksFrom(in, days, score) ==
  Recommended([in EXCEPT !.days = days + 14, !.score = score])

TimingScenarios(in) ==
  {InTwoWeeks(in)}
  \cup {InTwoWeeksFrom(in, days, score) : days \in Waits, score \in Scores \ {Absent}}

\* How far the likely price is from the fair value the offer was made for.
PricingShift(in) ==
  LET likely == IF HasPricing THEN Unit * pricing.likely ELSE in.fair
  IN Max({likely - in.fair, in.fair - likely})

\* No scenario of the engine keeps the insurance contingency.
UncertaintyKey(in) ==
  IF pricing.review /\ PricingShift(in) >= Unit * ReviewShift THEN "pricing_review"
  ELSE IF "financing" \in Recommended(in).keeps THEN "financing"
  ELSE IF "appraisal" \in Recommended(in).keeps THEN "appraisal"
  ELSE "pricing_review"

\* Without any fair value, today's recommendation is the anchor.
ClarifiedFairValue(in) ==
  IF HasPricing THEN Unit * pricing.likely
  ELSE IF in.fair # Absent THEN in.fair ELSE Recommended(in).price

\* Financing or appraisal is cleared, or the price is.
UncertaintyScenario(in) ==
  LET clear(c, days, least) ==
        [Recommended(in) EXCEPT !.keeps = @ \ {c}, !.days = Max({least, @ - days})]
  IN CASE UncertaintyKey(in) = "financing" -> clear("financing", 7, 21)
       [] UncertaintyKey(in) = "appraisal" -> clear("appraisal", 5, 25)
       [] OTHER -> Recommended([in EXCEPT !.fair = ClarifiedFairValue(in)])

WhatIfs(in) == {PriceScenario(in), UncertaintyScenario(in)} \cup TimingScenarios(in)
-----------------------------------------------------------------------------
\* The engine takes the newest outputs of pricing and leverage, whatever their
\* review, and its own output waits for a broker.
RunOfferEngine(days, rivals, budget) ==
  /\ offer' = [review |-> "pending",
               input |-> [list |-> List, fair |-> Unit * pricing.fair, score |-> leverage,
                          days |-> days, rivals |-> rivals, budget |-> budget]]
  /\ UNCHANGED <<pricing, leverage, room>>

ReviewOffer(review) ==
  /\ HasOffer /\ offer' = [offer EXCEPT !.review = review]
  /\ UNCHANGED <<pricing, leverage, room>>

\* The other engines and the profile move on; the offer output stays.
RunPricingEngine(fair, likely, review) ==
  /\ pricing' = [fair |-> fair, likely |-> likely, review |-> review]
  /\ UNCHANGED <<leverage, offer, room>>
RunLeverageEngine(v) == leverage' = v /\ UNCHANGED <<pricing, offer, room>>
EditProfile(budget, fast) ==
  room' = [room EXCEPT !.budget = budget, !.fast = fast] /\ UNCHANGED <<pricing, leverage, offer>>
CutPrice == ~room.cut /\ room' = [room EXCEPT !.cut = TRUE] /\ UNCHANGED <<pricing, leverage, offer>>

StrategyInit ==
  /\ pricing = NoPricing /\ leverage = Absent /\ offer = NoOffer
  /\ room = [budget |-> Absent, fast |-> FALSE, cut |-> FALSE]

StrategyNext ==
  \/ \E days \in Waits, rivals \in Rivals, budget \in Budgets : RunOfferEngine(days, rivals, budget)
  \/ \E review \in {"approved", "rejected"} : ReviewOffer(review)
  \/ \E fair, likely \in FairValues \ {Absent}, review \in BOOLEAN :
       RunPricingEngine(fair, likely, review)
  \/ \E v \in Scores \ {Absent} : RunLeverageEngine(v)
  \/ \E budget \in Budgets, fast \in BOOLEAN : EditProfile(budget, fast)
  \/ CutPrice

StrategySpec == StrategyInit /\ [][StrategyNext]_strategyVars
-----------------------------------------------------------------------------
StrategyTypeOK ==
  /\ pricing \in [fair : FairValues, likely : FairValues, review : BOOLEAN]
  /\ leverage \in Scores
  /\ room \in [budget : Budgets, fast : BOOLEAN, cut : BOOLEAN]
  /\ \/ offer = NoOffer
     \/ offer \in [review : {"pending", "approved", "rejected"}, input : OfferInputs]

\* Neither the offer engine nor a what-if of the cockpit, which runs it again
\* over changed facts, asks for more than the budget the offer was made for.
BudgetKept ==
  HasOffer /\ offer.input.budget # Absent =>
    \A s \in {Scenarios(offer.input)[i] : i \in 1 .. 3} \cup WhatIfs(offer.input) :
      s.price <= Unit * offer.input.budget

\* A playbook calls itself ready exactly when the buyer sees its branches, and
\* then a broker has approved the offer output they come from.
ReadyIsShown ==
  /\ PlaybookStatus = "ready" <=> BuyerBranches # {}
  /\ BuyerBranches # {} => offer.review = "approved"

\* The fallback never pays less than the first branch, except where the first
\* lies above the 105 per cent at which the last scenario is cut off.
LadderClimbs ==
  HasPrimary /\ BalancedPrice(offer.input) <= 12600 * List => Fallback.price >= Primary.price

\* The fallback says what it costs: a step in price, a ceiling, and a dropped
\* contingency unless three things are said before it.
CostsTold ==
  HasPrimary =>
    LET told == {ConcessionOrder[k] : k \in Concessions}
    IN /\ Fallback.price > Primary.price => "price_step" \in told
       /\ HoldsCeiling => "broker_review" \in told /\ "ladder_at_ceiling" \in InvalidationConditions
       /\ Fallback.keeps # Primary.keeps => "contingency_trim" \in told \/ Cardinality(Concessions) = 3

\* Two branches at one price are never given as two moves without a warning,
\* as long as the profile has the budget the offer was made for.
SamePriceSaid ==
  /\ HasPrimary /\ Fallback.price = Primary.price /\ room.budget = offer.input.budget
  /\ BalancedPrice(offer.input) < 12600 * List
  => {"ladder_at_ceiling", "readiness_tight"} \cap InvalidationConditions # {}

\* Clearing an uncertainty, the price among them, never slows the closing nor adds
\* a contingency.
ClearingHelps ==
  HasOffer => LET now == Recommended(offer.input) next == UncertaintyScenario(offer.input)
              IN next.days <= now.days /\ next.keeps \subseteq now.keeps

StrategySound ==
  /\ StrategyTypeOK /\ BudgetKept /\ ReadyIsShown /\ LadderClimbs /\ CostsTold /\ SamePriceSaid
  /\ ClearingHelps
=============================================================================
