----------------------------- MODULE RateLimiter -----------------------------
(***************************************************************************)
(* The limiter of the public intake channels: a sliding window with blocks *)
(* that escalate (convex/lib/rateLimiter.ts, mirrored by                   *)
(* src/lib/security/rate-limiter.ts), the bucket it is kept in             *)
(* (convex/lib/rateLimitBuckets.ts) and the public calls around a request  *)
(* (convex/rateLimits.ts).  One bucket: buckets share nothing.             *)
(***************************************************************************)
EXTENDS Integers, FiniteSetsExt, SequencesExt

CONSTANTS
  MaxPerWindow, WindowTicks, BaseBlock, MaxBlock,   \* CHANNEL_CONFIGS of the channel
  FailureBlockThreshold,
  MaxTick, MaxFailures    \* bounds on the clock and on the failures counted

ASSUME LimiterAssumption ==
  /\ {MaxPerWindow, WindowTicks, BaseBlock, FailureBlockThreshold, MaxTick} \subseteq Nat \ {0}
  /\ {MaxBlock, MaxFailures} \subseteq Nat /\ BaseBlock <= MaxBlock

Free == 0          \* blockedUntil of a bucket that is not blocked; time starts at 1
Bucket == [requestTimestamps : Seq(1 .. MaxTick), consecutiveFailures : 0 .. MaxFailures,
           blockedUntil : Nat]

VARIABLES
  bucket,      \* rateLimitBuckets of one throttle key
  tick,        \* now
  admittedAt   \* history: the times of the requests that were let in

limiterVars == <<bucket, tick, admittedAt>>
-----------------------------------------------------------------------------
PowerOfTwo[n \in 0 .. MaxFailures] == IF n = 0 THEN 1 ELSE 2 * PowerOfTwo[n - 1]
EscalatingBlock(failures) == Min({BaseBlock * PowerOfTwo[failures], MaxBlock})

Blocked(b, now) == b.blockedUntil > now

\* Requests are noted in the order of their times, so that a filter of the later
\* ones leaves the end of the list.
Older(times, t) ==
  CHOOSE n \in 0 .. Len(times) : \A i \in DOMAIN times : i <= n <=> times[i] <= t
Since(times, t) == SubSeq(times, Older(times, t) + 1, Len(times))
ActiveTimestamps(b, now) == Since(b.requestTimestamps, now - WindowTicks)

CheckRateLimit(b, now) ==
  CASE Blocked(b, now) -> [reason |-> "block_active", bucket |-> b]
    [] ~Blocked(b, now) /\ Len(ActiveTimestamps(b, now)) >= MaxPerWindow ->
         [reason |-> "window_exceeded",
          bucket |-> [requestTimestamps |-> ActiveTimestamps(b, now),
                      consecutiveFailures |-> b.consecutiveFailures + 1,
                      blockedUntil |-> now + EscalatingBlock(b.consecutiveFailures)]]
    [] OTHER ->
         [reason |-> "allowed",
          bucket |-> [b EXCEPT !.requestTimestamps = Append(ActiveTimestamps(b, now), now),
                               !.blockedUntil = Free]]

RecordFailure(b, now) ==
  LET failures == b.consecutiveFailures + 1
  IN [b EXCEPT !.consecutiveFailures = failures,
               !.blockedUntil = IF failures >= FailureBlockThreshold
                                  THEN now + EscalatingBlock(failures) ELSE @]

RecordSuccess(b) == [b EXCEPT !.consecutiveFailures = 0]

\* getBucketStatus looks at the bucket without a request.
BucketStatus(b, now) ==
  CASE Blocked(b, now) -> "block_active"
    [] ~Blocked(b, now) /\ Len(ActiveTimestamps(b, now)) >= MaxPerWindow -> "window_exceeded"
    [] OTHER -> "allowed"
-----------------------------------------------------------------------------
CountMore == bucket.consecutiveFailures < MaxFailures

CheckAndRecord ==
  /\ CountMore
  /\ LET result == CheckRateLimit(bucket, tick)
     IN /\ bucket' = result.bucket
        /\ admittedAt' = IF result.reason = "allowed" THEN Append(admittedAt, tick)
                                                      ELSE admittedAt
  /\ UNCHANGED tick

\* The outcomes of requests that overlap come in any order, and repeated.
RecordRequestOutcome(outcome) ==
  /\ admittedAt # <<>>
  /\ CountMore
  /\ bucket' = IF outcome = "failure" THEN RecordFailure(bucket, tick)
                                      ELSE RecordSuccess(bucket)
  /\ UNCHANGED <<tick, admittedAt>>

Wait ==
  /\ tick < MaxTick
  /\ tick' = tick + 1
  /\ UNCHANGED <<bucket, admittedAt>>
-----------------------------------------------------------------------------
LimiterInit ==
  /\ bucket = [requestTimestamps |-> <<>>, consecutiveFailures |-> 0,
               blockedUntil |-> Free]
  /\ tick = 1
  /\ admittedAt = <<>>

LimiterNext ==
  \/ CheckAndRecord
  \/ \E outcome \in {"success", "failure"} : RecordRequestOutcome(outcome)
  \/ Wait

LimiterSpec == LimiterInit /\ [][LimiterNext]_limiterVars
-----------------------------------------------------------------------------
LimiterTypeOK ==
  /\ bucket \in Bucket
  /\ tick \in 1 .. MaxTick
  /\ admittedAt \in Seq(1 .. MaxTick)

InOrder(times) == \A i, k \in DOMAIN times : i <= k => times[i] <= times[k]

\* No window of time, wherever it starts, lets in more requests than the
\* channel allows, whatever outcomes and blocks come in between: of more the
\* last came a window after the first.  And the window that the bucket
\* remembers is the true one.
WindowHolds ==
  /\ InOrder(admittedAt)
  /\ \A i, k \in DOMAIN admittedAt :
       k - i >= MaxPerWindow => admittedAt[k] - admittedAt[i] >= WindowTicks
  /\ ActiveTimestamps(bucket, tick) = Since(admittedAt, tick - WindowTicks)

\* The dashboard and the next request read the bucket the same way, and a
\* block never outlasts the longest one.
ReadersOfBucketAgree ==
  /\ BucketStatus(bucket, tick) = CheckRateLimit(bucket, tick).reason
  /\ bucket.blockedUntil <= tick + MaxBlock

LimitsHold == LimiterTypeOK /\ WindowHolds /\ ReadersOfBucketAgree
=============================================================================
