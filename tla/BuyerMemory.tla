------------------------------ MODULE BuyerMemory ------------------------------
(***************************************************************************)
(* What is remembered of one buyer: the watchlist, the comparison, the     *)
(* stated wishes, and the memory of preferences inferred from saved homes, *)
(* tours and feedback (convex/watchlist.ts,                                *)
(* convex/propertyComparisons.ts, convex/buyerProfiles.ts,                 *)
(* convex/lib/buyerPreferenceMemory.ts, src/lib/buyerPreferenceMemory.ts). *)
(* The memory is a stored row, rebuilt by each operation that changes what *)
(* it is made of; reading it lets no time pass over it.                    *)
(* Time is counted in half-lives of an event (90 days), and weights in     *)
(* units in which every decayed strength is whole.                         *)
(***************************************************************************)
EXTENDS Integers, Sequences, SequencesExt, FiniteSets, FiniteSetsExt

CONSTANTS Homes,              \* properties
          Condos, MidPriced,  \* those of one type, and of one price band
          Wishes,             \* explicit search preferences
          Sentiments, Readiness, PricingSignals, Leans, \* what is said of homes and of advice
          MaxWatchlist, MaxCompared,       \* caps of the lists
          MaxHalfLives, MaxTours, MaxFacts \* bounds: the time and the rows kept

ASSUME MemoryAssumption ==
  /\ IsFiniteSet(Homes) /\ Condos \subseteq Homes /\ MidPriced \subseteq Homes
  /\ MaxHalfLives \in Nat

VARIABLES
  halfLives,  \* the time
  account,    \* whether the buyer can still sign in
  profile,    \* searchPreferences of the row of buyerProfiles; {} while there is none
  saved,      \* watchlistEntries
  tours,      \* tourPostObservations
  opinions,   \* advisoryBuyerFeedback
  memory,     \* the row of buyerPreferenceMemories
  compared    \* the records of propertyComparisons, oldest row first

memoryVars == <<halfLives, account, profile, saved, tours, opinions, memory, compared>>

NoMemory == [at |-> -1, wishes |-> {}, signals |-> {}, state |-> "none"]

MemoryInit ==
  /\ halfLives = 0 /\ account = TRUE /\ profile = {} /\ saved = {}
  /\ tours = <<>> /\ opinions = <<>> /\ memory = NoMemory /\ compared = <<>>
-----------------------------------------------------------------------------
(* Events.  What a row says of its home counts for each feature of it. *)

PriceBand(home) == IF home \in MidPriced THEN "mid" ELSE "entry"
FeaturesOf(home) == {IF home \in Condos THEN "condo" ELSE "house", PriceBand(home)}

Event(row, liked, strength, features) ==
  [home |-> row.home, at |-> row.at, row |-> row.id, liked |-> liked,
   strength |-> strength, features |-> features]

\* The events of a tour.  What is said of the price counts for the price band alone.
TourEvents(t) ==
  {Event(t, e[2], e[3], FeaturesOf(t.home)) :
     e \in {e \in {<<"positive", TRUE, 19>>, <<"negative", FALSE, 19>>} : e[1] = t.sentiment}
      \cup {e \in {<<"ready", TRUE, 13>>, <<"not_ready", FALSE, 14>>} : e[1] = t.readiness}}
  \cup {Event(t, e[2], e[3], {PriceBand(t.home)}) :
     e \in {e \in {<<"below", TRUE, 9>>, <<"above", FALSE, 9>>} : e[1] = t.pricing}}

\* Answers that balance are no event; one that does not fit the plan weighs most,
\* whichever way the answers lean.
OpinionEvents(o) ==
  IF o.lean = "even" THEN {}
  ELSE {Event(o, o.lean = "positive",
              IF o.misfit THEN 14 ELSE IF o.lean = "negative" THEN 11 ELSE 8, FeaturesOf(o.home))}

Events(s, t, o) ==
  {Event([home |-> e.home, at |-> e.at, id |-> 0], TRUE, 11, FeaturesOf(e.home)) : e \in s}
  \cup (UNION {TourEvents([t[i] EXCEPT !.id = i]) : i \in DOMAIN t})
  \cup (UNION {OpinionEvents([o[i] EXCEPT !.id = 100 + i]) : i \in DOMAIN o})
-----------------------------------------------------------------------------
(* Signals, in units of a twentieth of the strength over 2^(MaxHalfLives+1). *)

\* The weight halves with each half-life, so it is a power of two of these units.
Pow2[n \in 0 .. MaxHalfLives + 1] == IF n = 0 THEN 1 ELSE 2 * Pow2[n - 1]

One == 20 * Pow2[MaxHalfLives + 1]
Weigh(events, now) ==
  SumFunction([e \in events |-> e.strength * Pow2[MaxHalfLives + 1 - (now - e.at)]])
Least(a, b) == IF a < b THEN a ELSE b
Most(a, b) == IF a < b THEN b ELSE a
HomesIn(events) == {e.home : e \in events}

\* What the events about a feature weigh, and over how many homes they are spread.
EvidenceOf(events, feature, now) ==
  LET about == {e \in events : feature \in e.features}
      for == Weigh({e \in about : e.liked}, now)
      against == Weigh({e \in about : ~e.liked}, now)
  IN [for |-> for, against |-> against, total |-> for + against,
      homes |-> Cardinality(HomesIn(about))]

\* The confidence is at least c hundredths.
Confident(e, c) ==
  100 * Most(e.for - e.against, e.against - e.for) * Least(e.homes, 3) * Least(5 * e.total, 11 * One)
    >= c * Most(e.total, One) * 3 * 11 * One
Conflicting(e) == 100 * Least(e.for, e.against) >= 35 * e.total /\ 10 * e.total >= 12 * One

Status(e) ==
  IF e.homes >= 2 /\ Conflicting(e) THEN "review"
  ELSE IF e.homes >= 3 /\ Confident(e, 72) /\ 10 * e.total >= 14 * One THEN "durable"
  ELSE IF e.homes >= 2 /\ Confident(e, 38) /\ e.total >= One THEN "emerging"
  ELSE "suppressed"

\* What the buyer reads of the status.
StatusReason(e) ==
  IF e.homes < 2 THEN "one home"
  ELSE IF Conflicting(e) THEN "conflict"
  ELSE IF Confident(e, 72) /\ e.homes >= 3 THEN "repeated"
  ELSE IF Confident(e, 38) THEN "directional"
  ELSE "weak"

Signals(events, now) ==
  {LET e == EvidenceOf(events, f, now)
   IN [feature |-> f, prefer |-> e.for >= e.against, status |-> Status(e)] :
     f \in UNION {e.features : e \in events}}

Visible(signals) == {s \in signals : s.status # "suppressed"}

Snapshot(events, wished, now) ==
  LET signals == Signals(events, now)
      shown == Visible(signals)
  IN [at |-> now, wishes |-> wished, signals |-> signals, state |->
      IF events = {} THEN "cold_start"
      ELSE IF Cardinality(HomesIn(events)) < 2 \/ shown = {} THEN "thin_history"
      ELSE IF Cardinality(shown) >= 2 \/ \E s \in shown : s.status = "durable" THEN "durable"
      ELSE "evolving"]

\* Whether recommendations follow what is learned.
Influences(m) == m.state = "durable" \/ Cardinality(Visible(m.signals)) >= 2

Rebuild(s, t, o, wished) == memory' = Snapshot(Events(s, t, o), wished, halfLives)
-----------------------------------------------------------------------------
(* The watchlist. *)

Facts == Cardinality(saved) + Len(tours) + Len(opinions)
FactsRest == UNCHANGED <<halfLives, account, compared>>

AddToWatchlist(home) ==
  LET added == saved \cup {[home |-> home, position |-> Cardinality(saved), at |-> halfLives]}
  IN /\ account /\ home \notin {e.home : e \in saved}
     /\ Cardinality(saved) < MaxWatchlist /\ Facts < MaxFacts
     /\ saved' = added /\ Rebuild(added, tours, opinions, UNION profile)
     /\ UNCHANGED <<profile, tours, opinions>> /\ FactsRest

\* Mutant: the entries that are left keep the positions they had.
Renumbered_Not(entries) == entries

\* Positions are counted anew, in the order the entries are left in.
Renumbered(entries) ==
  {[e EXCEPT !.position = Cardinality({o \in entries : o.position < e.position})] : e \in entries}

RemoveFromWatchlist(home) ==
  LET left == Renumbered({e \in saved : e.home # home})
  IN /\ account /\ \E e \in saved : e.home = home
     /\ saved' = left /\ Rebuild(left, tours, opinions, UNION profile)
     /\ UNCHANGED <<profile, tours, opinions>> /\ FactsRest

\* The order asked for names each of the entries once.
IsOrder(order) ==
  Len(order) = Cardinality(ToSet(order)) /\ ToSet(order) = {e.home : e \in saved}

ReorderWatchlist(order) ==
  /\ account /\ IsOrder(order)
  /\ saved' = {[e EXCEPT !.position = (CHOOSE i \in DOMAIN order : order[i] = e.home) - 1] :
                 e \in saved}
  /\ UNCHANGED <<profile, tours, opinions, memory>> /\ FactsRest
-----------------------------------------------------------------------------
(* Tours, feedback and the profile. *)

SubmitPostTourObservation(home, sentiment, readiness, pricing) ==  \* the buyer, or the staff
  LET more == Append(tours, [home |-> home, at |-> halfLives, id |-> 0, sentiment |-> sentiment,
                             readiness |-> readiness, pricing |-> pricing])
  IN /\ Len(tours) < MaxTours /\ Facts < MaxFacts
     /\ tours' = more /\ Rebuild(saved, more, opinions, UNION profile)
     /\ UNCHANGED <<profile, saved, opinions>> /\ FactsRest

SubmitFeedback(home, lean, misfit) ==
  LET more == Append(opinions, [home |-> home, at |-> halfLives, id |-> 0,
                                lean |-> lean, misfit |-> misfit])
  IN /\ account /\ Facts < MaxFacts
     /\ opinions' = more /\ Rebuild(saved, tours, more, UNION profile)
     /\ UNCHANGED <<profile, saved, tours>> /\ FactsRest

\* The buyer, or the staff for the buyer; the memory follows a change of wishes.
UpsertProfile(wished) ==
  /\ profile' = {wished}
  /\ IF profile' # profile THEN Rebuild(saved, tours, opinions, wished) ELSE UNCHANGED memory
  /\ UNCHANGED <<saved, tours, opinions>> /\ FactsRest

\* A deletion request: the profile goes, the rest and the memory stay.
DeleteAccount ==
  /\ account' = FALSE /\ profile' = {}
  /\ UNCHANGED <<halfLives, saved, tours, opinions, memory, compared>>

HalfLifePasses ==
  /\ halfLives < MaxHalfLives /\ halfLives' = halfLives + 1
  /\ UNCHANGED <<account, profile, saved, tours, opinions, memory, compared>>
-----------------------------------------------------------------------------
(* The comparison.  The room a record may carry is left out. *)

ComparisonRests == UNCHANGED <<halfLives, account, profile, saved, tours, opinions, memory>>

MayTake(home, position) ==
  home \notin ToSet(compared) /\ Len(compared) < MaxCompared /\ position \in 0..Len(compared)
AddToComparison(home, position) ==
  /\ MayTake(home, position)
  /\ compared' = InsertAt(compared, position + 1, home)
  /\ ComparisonRests

RemoveFromComparison(home) ==
  /\ \E i \in DOMAIN compared : compared[i] = home /\ compared' = RemoveAt(compared, i)
  /\ ComparisonRests

Moved(homes, from, to) == InsertAt(RemoveAt(homes, from), to, homes[from])
ReorderComparison(from, to) ==
  /\ from \in DOMAIN compared /\ to \in DOMAIN compared
  /\ compared' = Moved(compared, from, to)
  /\ ComparisonRests

ResetComparison == compared' = <<>> /\ ComparisonRests
-----------------------------------------------------------------------------
MemoryNext ==
  \/ \E home \in Homes : AddToWatchlist(home) \/ RemoveFromWatchlist(home)
  \/ \E order \in SetToAllKPermutations(Homes) : ReorderWatchlist(order)
  \/ \E home \in Homes, sentiment \in Sentiments, readiness \in Readiness, pricing \in PricingSignals :
       SubmitPostTourObservation(home, sentiment, readiness, pricing)
  \/ \E home \in Homes, lean \in Leans, misfit \in BOOLEAN :
       SubmitFeedback(home, lean, misfit)
  \/ \E wished \in SUBSET Wishes : UpsertProfile(wished)
  \/ DeleteAccount \/ HalfLifePasses

ComparisonNext ==
  \/ \E home \in Homes, i \in 0..MaxCompared : AddToComparison(home, i)
  \/ \E home \in Homes : RemoveFromComparison(home)
  \/ \E from, to \in 1..MaxCompared : ReorderComparison(from, to)
  \/ ResetComparison
-----------------------------------------------------------------------------
\* The stored memory is what its sources make of it at the time it was rebuilt, and its
\* explicit wishes are those of the profile (rebuildBuyerPreferenceMemory in each of the
\* operations); only a deletion request leaves wishes behind.
MemoryKeepsUp ==
  IF memory = NoMemory THEN Facts = 0 /\ profile = {}
  ELSE memory = Snapshot(Events(saved, tours, opinions),
                         IF profile = {} THEN memory.wishes ELSE UNION profile, memory.at)

\* No inferred preference moves a recommendation on the word of a single home
\* (MIN_DISTINCT_PROPERTIES_FOR_SIGNAL, shouldInfluenceRecommendations).
InfluenceNeedsTwoHomes ==
  Influences(memory) => Cardinality(HomesIn(Events(saved, tours, opinions))) >= 2

Fades(status) == CASE status = "durable" -> {"durable", "emerging", "suppressed"}
                   [] status = "emerging" -> {"emerging", "suppressed"}
                   [] status = "review" -> {"review", "suppressed"}
                   [] status = "suppressed" -> {"suppressed"}

\* With no new event the passage of time never strengthens a signal nor turns it around:
\* the weights, their floor of one and the caps of the confidence decay together.
TimeOnlyFades ==
  LET events == Events(saved, tours, opinions)
  IN \A s \in Signals(events, halfLives) : \E t \in Signals(events, halfLives + 1) :
       t.feature = s.feature /\ t.prefer = s.prefer /\ t.status \in Fades(s.status)

\* The reason shown with a signal is the one of its status (buildSignalStatusReason repeats
\* the thresholds of the status), but for light evidence of three homes.
ReasonsMatch ==
  LET events == Events(saved, tours, opinions)
  IN \A f \in UNION {e.features : e \in events} :
       LET e == EvidenceOf(events, f, halfLives)
           reason == StatusReason(e)
       IN CASE Status(e) = "review" -> reason = "conflict"
            [] Status(e) = "durable" -> reason = "repeated"
            [] Status(e) = "emerging" -> reason = "directional"
            [] OTHER -> reason \in {"one home", "weak"}
                        \/ (reason = "directional" /\ e.homes >= 3 /\ e.total < One)

\* Positions run from 0 without a gap, and neither list holds a home twice
\* (addToWatchlist, removeFromWatchlist, reorderWatchlist, addToComparison).
ListsInOrder ==
  /\ {e.position : e \in saved} = 0..Cardinality(saved) - 1
  /\ Cardinality({e.home : e \in saved}) = Cardinality(saved)
  /\ Cardinality(ToSet(compared)) = Len(compared)

MemorySound ==
  /\ MemoryKeepsUp /\ InfluenceNeedsTwoHomes /\ TimeOnlyFades /\ ReasonsMatch /\ ListsInOrder
=============================================================================
