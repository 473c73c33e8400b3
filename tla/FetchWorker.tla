----------------------------- MODULE FetchWorker -----------------------------
(***************************************************************************)
(* The worker that fetches listing pages                                   *)
(* (services/extraction/src/runtime.py, python-workers/fetch/              *)
(* orchestrator.py and unlocker.py).                                       *)
(*                                                                         *)
(* A request takes one of a number of slots and keeps it while it tries,   *)
(* waits and tries again.  A try reserves the cost of a page in the budget *)
(* of the month, waits for the rate limiter, posts to the vendor, and      *)
(* replaces the reservation by the cost it was billed, or gives it back.   *)
(* It can be cut off by its timeout wherever it waits.                     *)
(*                                                                         *)
(* The worker is one event loop: what happens between two points where a   *)
(* try waits is one step.  The locks around budget and limiter are never   *)
(* held at such a point, so they never make anybody wait.  Money is in     *)
(* units of the smallest cost; stamps of the limiter are kept by their     *)
(* age, one unit of which is a tick.                                       *)
(***************************************************************************)
EXTENDS Integers, Sequences, SequencesExt, FiniteSets

CONSTANTS
  Requests,      \* requests to extract a listing
  Retries,       \* request.retries
  MaxConcurrent, \* slots
  MaxPerMinute,  \* posts the limiter lets through in a window
  Window,        \* the window, in ticks
  Budget,        \* monthly_budget_usd
  FallbackCost,  \* fallback_cost_per_request_usd, what is reserved
  Costs,         \* what the vendor may bill
  LastMonth      \* bound on the months that pass

ASSUME FetchAssumption ==
  /\ IsFiniteSet(Requests)
  /\ {Retries, Budget, FallbackCost} \cup Costs \subseteq Nat
  /\ {MaxConcurrent, MaxPerMinute, Window, LastMonth} \subseteq Nat \ {0}

VARIABLES
  fetch,       \* per request, how far it is
  waiters,     \* the requests that wait for a slot, in order
  stamps,      \* ages of the limiter's stamps, oldest first
  spent,       \* monthly_spent_usd
  period,      \* the month it is counted for
  calendar,    \* the month it is
  configured,  \* token and zone are set
  stats,       \* _OrchestratorStats
  billed,      \* history: what the vendor billed in the counted month
  overrun,     \* history: by how much bills of that month exceeded the reservation
  crossed      \* history: a reservation of an earlier month was settled in it

fetchVars == <<fetch, waiters, stamps, spent, period, calendar, configured, stats,
               billed, overrun, crossed>>

Retryable == {"timeout", "transient", "anti_bot", "vendor"}
Permanent == {"quota", "not_configured", "client_error"}

Phases == {"new", "queued", "ready", "sleeping", "posting", "releasing", "backoff", "done"}
FetchState ==
  [phase : Phases, attempts : 0 .. Retries + 1,
   reservedIn : 0 .. LastMonth,    \* history: month of its reservation, 0 for none
   outcome : Retryable \cup Permanent
               \cup {"none", "ok", "parse_failed", "portal_mismatch", "unknown_portal"}]
NewFetch == [phase |-> "new", attempts |-> 0, reservedIn |-> 0, outcome |-> "none"]

\* Mutant: a request that ends in an error keeps its slot.
Inside_Failed ==
  {r \in Requests : fetch[r].attempts > 0 /\ fetch[r].outcome \notin {"ok", "parse_failed"}}

\* A slot is taken from the first try to the end of the last one.
Inside == {r \in Requests :
             fetch[r].phase \in {"ready", "sleeping", "posting", "releasing", "backoff"}}
-----------------------------------------------------------------------------
\* The status of the answer, from _map_exception.  An unknown portal would be
\* a 400 there, but is found out before the call that is mapped.
StatusOf(outcome) ==
  CASE outcome = "ok" -> 200
    [] outcome = "portal_mismatch" -> 400
    [] outcome = "unknown_portal" -> 500
    [] outcome = "parse_failed" -> 422
    [] outcome = "quota" -> 429
    [] outcome \in {"client_error", "not_configured"} -> 502
    [] outcome \in {"anti_bot", "vendor", "transient"} -> 503
    [] outcome = "timeout" -> 504

Record(r, outcome, cost) ==   \* _record_success, _record_error
  stats' = [fetchCount |-> stats.fetchCount + (IF outcome \in {"ok", "parse_failed"} THEN 1 ELSE 0),
            errorCount |-> stats.errorCount + (IF outcome \in {"ok", "parse_failed"} THEN 0 ELSE 1),
            attempts |-> stats.attempts + fetch[r].attempts,
            totalCost |-> stats.totalCost + cost]

End(r, outcome, cost) ==
  /\ fetch' = [fetch EXCEPT ![r] = [@ EXCEPT !.phase = "done", !.outcome = outcome,
                                             !.reservedIn = 0]]
  /\ Record(r, outcome, cost)

MayRetry(r, error) == error \in Retryable /\ fetch[r].attempts < Retries + 1

\* The try has failed: wait and try again, with the slot, or give up.
AfterError(r, error) ==
  IF MayRetry(r, error)
    THEN /\ fetch' = [fetch EXCEPT ![r] = [@ EXCEPT !.phase = "backoff", !.reservedIn = 0]]
         /\ UNCHANGED stats
    ELSE End(r, error, 0)

(* The budget.  Every use of it first starts a new month, when one began. *)

NewPeriod == period # calendar
Counted == IF NewPeriod THEN 0 ELSE spent
StartPeriod ==
  /\ period' = calendar
  /\ crossed' = (IF NewPeriod THEN FALSE ELSE crossed)

NotBelowZero(n) == IF n < 0 THEN 0 ELSE n

\* Mutant: what others have reserved but not paid yet is not looked at.
Fits_BilledOnly == (IF NewPeriod THEN 0 ELSE billed) + FallbackCost <= Budget

Fits == Counted + FallbackCost <= Budget

\* _reconcile_cost and _release_reserved: the difference is applied to the
\* month it is now, also when the reservation was made in an earlier one.
Settle(r, actual) ==
  /\ spent' = NotBelowZero(Counted + actual - FallbackCost)
  /\ period' = calendar
  /\ billed' = (IF NewPeriod THEN 0 ELSE billed)
                 + (IF fetch[r].reservedIn = calendar THEN actual ELSE 0)
  /\ overrun' = (IF NewPeriod THEN 0 ELSE overrun) + NotBelowZero(actual - FallbackCost)
  /\ crossed' = ((IF NewPeriod THEN FALSE ELSE crossed) \/ fetch[r].reservedIn # calendar)

\* _TokenBucket: stamps older than the window leave at the front.
Outdated(ages) ==
  CHOOSE n \in 0 .. Len(ages) : \A i \in DOMAIN ages : i <= n <=> ages[i] > Window
Fresh == SubSeq(stamps, Outdated(stamps) + 1, Len(stamps))
RoomInBucket == Len(Fresh) < MaxPerMinute
-----------------------------------------------------------------------------
Refused == {"portal_mismatch", "unknown_portal"}

\* The portal of the request is checked before it waits for a slot.
Arrive(r) ==
  /\ fetch[r].phase = "new"
  /\ \/ /\ fetch' = [fetch EXCEPT ![r].phase = "queued"]
        /\ waiters' = Append(waiters, r)
     \/ /\ \E refusal \in Refused :
             fetch' = [fetch EXCEPT ![r].phase = "done", ![r].outcome = refusal]
        /\ UNCHANGED waiters
  /\ UNCHANGED <<stamps, spent, period, calendar, configured, stats, billed, overrun, crossed>>

SlotFree == Cardinality(Inside) < MaxConcurrent

TakeSlot(r) ==
  /\ waiters # <<>> /\ Head(waiters) = r /\ SlotFree
  /\ waiters' = Tail(waiters)
  /\ fetch' = [fetch EXCEPT ![r].phase = "ready", ![r].attempts = 1]
  /\ UNCHANGED <<stamps, spent, period, calendar, configured, stats, billed, overrun, crossed>>

NextAttempt(r) ==
  /\ fetch[r].phase = "backoff"
  /\ fetch' = [fetch EXCEPT ![r].phase = "ready", ![r].attempts = @ + 1]
  /\ UNCHANGED <<waiters, stamps, spent, period, calendar, configured, stats, billed,
                 overrun, crossed>>

\* The try begins, up to the post or to its wait for the limiter.
BeginAttempt(r) ==
  /\ fetch[r].phase = "ready"
  /\ IF ~configured
       THEN /\ AfterError(r, "not_configured")
            /\ UNCHANGED <<stamps, spent, period, billed, overrun, crossed>>
       ELSE /\ StartPeriod
            /\ billed' = (IF NewPeriod THEN 0 ELSE billed)
            /\ overrun' = (IF NewPeriod THEN 0 ELSE overrun)
            /\ IF ~Fits
                 THEN AfterError(r, "quota") /\ spent' = Counted /\ UNCHANGED stamps
                 ELSE /\ spent' = Counted + FallbackCost
                      /\ stamps' = IF RoomInBucket THEN Append(Fresh, 0) ELSE Fresh
                      /\ fetch' = [fetch EXCEPT ![r] =
                           [@ EXCEPT !.phase = IF RoomInBucket THEN "posting" ELSE "sleeping",
                                     !.reservedIn = calendar]]
                      /\ UNCHANGED stats
  /\ UNCHANGED <<waiters, calendar, configured>>

Wake(r) ==
  /\ fetch[r].phase = "sleeping" /\ RoomInBucket
  /\ stamps' = Append(Fresh, 0)
  /\ fetch' = [fetch EXCEPT ![r].phase = "posting"]
  /\ UNCHANGED <<waiters, spent, period, calendar, configured, stats, billed, overrun, crossed>>

\* No answer: the timeout of the try cuts it off where it waits, or the post
\* itself fails.
CutOff(r, error) ==
  /\ \/ fetch[r].phase = "posting"
     \/ fetch[r].phase = "sleeping" /\ error = "timeout"
  /\ fetch' = [fetch EXCEPT ![r].phase = "releasing", ![r].outcome = error]
  /\ UNCHANGED <<waiters, stamps, spent, period, calendar, configured, stats, billed,
                 overrun, crossed>>

\* The release runs as a task of its own; the try waits for it.
Release(r) ==
  /\ fetch[r].phase = "releasing"
  /\ Settle(r, 0)
  /\ AfterError(r, fetch[r].outcome)
  /\ UNCHANGED <<waiters, stamps, calendar, configured>>

\* An answer is paid for before its status and its body are looked at.
Respond(r, cost, answer) ==
  /\ fetch[r].phase = "posting"
  /\ Settle(r, cost)
  /\ IF answer \in {"ok", "parse_failed"} THEN End(r, answer, cost) ELSE AfterError(r, answer)
  /\ UNCHANGED <<waiters, stamps, calendar, configured>>

FetchTick ==
  /\ \E i \in DOMAIN stamps : stamps[i] <= Window
  /\ stamps' = [i \in DOMAIN stamps |-> IF stamps[i] <= Window THEN stamps[i] + 1 ELSE stamps[i]]
  /\ UNCHANGED <<fetch, waiters, spent, period, calendar, configured, stats, billed,
                 overrun, crossed>>

NextMonth ==
  /\ calendar < LastMonth
  /\ calendar' = calendar + 1
  /\ UNCHANGED <<fetch, waiters, stamps, spent, period, configured, stats, billed,
                 overrun, crossed>>
-----------------------------------------------------------------------------
FetchInit ==
  /\ fetch = [r \in Requests |-> NewFetch]
  /\ waiters = <<>> /\ stamps = <<>>
  /\ spent = 0 /\ period = 1 /\ calendar = 1
  /\ configured \in BOOLEAN
  /\ stats = [fetchCount |-> 0, errorCount |-> 0, attempts |-> 0, totalCost |-> 0]
  /\ billed = 0 /\ overrun = 0 /\ crossed = FALSE

Answers == {"ok", "parse_failed", "anti_bot", "transient", "vendor", "client_error"}

\* The post ends in one way or another: it has a timeout.
PostEnds(r) ==
  \/ \E error \in {"timeout", "transient"} : CutOff(r, error)
  \/ \E cost \in Costs \cup {FallbackCost}, answer \in Answers : Respond(r, cost, answer)

RunFetch(r) == TakeSlot(r) \/ NextAttempt(r) \/ BeginAttempt(r) \/ Wake(r) \/ PostEnds(r) \/ Release(r)

FetchNext ==
  \/ \E r \in Requests : Arrive(r) \/ RunFetch(r)
  \/ FetchTick
  \/ NextMonth

FetchSpec == FetchInit /\ [][FetchNext]_fetchVars

\* The loop runs what is due, posts time out, and time passes.
FetchProgress ==
  (\A r \in Requests : WF_fetchVars(RunFetch(r))) /\ WF_fetchVars(FetchTick)
-----------------------------------------------------------------------------
FetchTypeOK ==
  /\ fetch \in [Requests -> FetchState]
  /\ stats \in [fetchCount : Nat, errorCount : Nat, attempts : Nat, totalCost : Nat]
  /\ waiters \in Seq(Requests) /\ stamps \in Seq(0 .. Window + 1)
  /\ {spent, billed, overrun} \subseteq Nat
  /\ {period, calendar} \subseteq 1 .. LastMonth
  /\ {configured, crossed} \subseteq BOOLEAN

\* The slots and the limiter hold for any interleaving of tries and waits,
\* and a request waits for a slot exactly while it is queued, once.
SlotsHold ==
  /\ Cardinality(Inside) <= MaxConcurrent
  /\ Len(Fresh) <= MaxPerMinute
  /\ Range(waiters) = {r \in Requests : fetch[r].phase = "queued"}
  /\ IsInjective(waiters)

(***************************************************************************)
(* "The budget counter stays consistent" (unlocker.py, _reserve_budget):   *)
(* however tries fail, time out and are tried again, the counter is what   *)
(* was billed in the month plus what the tries under way have reserved.    *)
(* Not so in a month in which a reservation of an earlier one was settled: *)
(* it is taken off a counter it was never added to.                        *)
(***************************************************************************)
Reserved == {r \in Requests : fetch[r].reservedIn = period}

BudgetConsistent == ~crossed => spent = billed + FallbackCost * Cardinality(Reserved)

\* "N concurrent callers near the cap cannot all" dispatch: the cap is only
\* exceeded by what the vendor billed beyond the reservations.
BudgetCapped == spent <= Budget + overrun

\* Every request that had a slot is counted once, with its tries; and the
\* answer says whether it is worth trying again: it is when all tries ended
\* in an error that might pass.
Ended == {r \in Requests : fetch[r].phase = "done" /\ fetch[r].outcome \notin Refused}
TriesMade == {try \in Ended \X (1 .. Retries + 1) : try[2] <= fetch[try[1]].attempts}

OutcomesTold ==
  /\ stats.fetchCount + stats.errorCount = Cardinality(Ended)
  /\ stats.attempts = Cardinality(TriesMade)
  /\ \A r \in Ended : StatusOf(fetch[r].outcome) \in {503, 504} =>
       fetch[r].attempts = Retries + 1
  /\ \A r \in Requests : fetch[r].attempts <= Retries + 1

\* Nobody waits for nothing: while a request is under way one has a slot to
\* take, one can go on, or a stamp of the limiter is still growing old.
SomebodyMoves ==
  (\E r \in Requests : fetch[r].phase \notin {"new", "done"}) =>
    \/ waiters # <<>> /\ SlotFree
    \/ \E r \in Requests :
         \/ fetch[r].phase \in {"ready", "posting", "releasing", "backoff"}
         \/ fetch[r].phase = "sleeping" /\ RoomInBucket
    \/ \E i \in DOMAIN stamps : stamps[i] <= Window

FetchesSound ==
  FetchTypeOK /\ SlotsHold /\ BudgetConsistent /\ BudgetCapped /\ OutcomesTold /\ SomebodyMoves

(***************************************************************************)
(* And a request only comes nearer to its end: no error, timeout or late   *)
(* answer takes it back to where it was, and its answer is final.          *)
(***************************************************************************)
Stages == [ready |-> 0, sleeping |-> 1, posting |-> 2, releasing |-> 3, backoff |-> 4]
LastStage == 5 * (Retries + 2)
StageOf(f) ==
  CASE f.phase = "new" -> 0
    [] f.phase = "queued" -> 1
    [] f.phase = "done" -> LastStage
    [] OTHER -> 5 * f.attempts + Stages[f.phase]

RequestsAdvance ==
  \A r \in Requests : fetch'[r] # fetch[r] =>
    StageOf(fetch[r]) < StageOf(fetch'[r]) /\ StageOf(fetch'[r]) <= LastStage

(***************************************************************************)
(* A request that has arrived is answered, whatever the vendor does and    *)
(* however many wait for slots and limiter: a slot is never lost.          *)
(***************************************************************************)
FetchesEnd == \A r \in Requests : fetch[r].phase = "queued" ~> fetch[r].phase = "done"
=============================================================================
