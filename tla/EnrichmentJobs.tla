--------------------------- MODULE EnrichmentJobs ---------------------------
(***************************************************************************)
(* The enrichment jobs of one property (convex/enrichmentJobs.ts,          *)
(* src/lib/enrichment/scheduler.ts and fallback.ts).                       *)
(*                                                                         *)
(* A source is refreshed by a job: a refresh enqueues one for every source *)
(* that is neither in flight nor fresh, a worker claims it, fetches, and   *)
(* stores the result or reports the failure.  The Browser Use lane reads a *)
(* single listing URL and gives up after a number of rows for it.          *)
(*                                                                         *)
(* The loop of the workers is not part of the repository: it is modelled   *)
(* from the queries and mutations it has to call.  A worker can die, and   *)
(* where RepeatedCalls is set a call may be made once more, at any later   *)
(* time, because its answer was lost.                                      *)
(***************************************************************************)
EXTENDS Integers, Sequences, FiniteSets

CONSTANTS
  Sources,             \* the sources that refreshes enqueue
  Urls,                \* the listing URLs that Browser Use may read
  Triggers,            \* the reasons to run Browser Use
  Workers,             \* workers that run jobs
  MaxAttempts,         \* SOURCE_MAX_ATTEMPTS of the sources
  MaxBrowserAttempts,  \* maxBrowserUseAttempts
  Ttl,                 \* SOURCE_CACHE_TTL_HOURS of the sources
  RepeatedCalls,       \* calls of workers are repeated
  MaxRows,             \* bound on the jobs per source or URL
  MaxHour,             \* bound on the clock
  MaxFetches           \* bound on the fetches

ASSUME EnrichmentAssumption ==
  /\ Sources \cap Urls = {}
  /\ MaxAttempts \in Nat \ {0} /\ MaxBrowserAttempts \in Nat \ {0} /\ Ttl \in Nat \ {0}
  /\ RepeatedCalls \in BOOLEAN
  /\ MaxRows \in Nat /\ MaxHour \in Nat /\ MaxFetches \in Nat

Subjects == Sources \cup Urls
Hours == 0 .. MaxHour
Fetches == 0 .. MaxFetches

DedupeKey == [trigger : Triggers \cup {"refresh"}, priorAttempts : 0 .. MaxRows, hour : Hours]
Job == [dedupeKey : DedupeKey, attempt : Nat, maxAttempts : Nat,
        status : {"queued", "running", "succeeded", "failed", "escalated"},
        retryGate : BOOLEAN, completedAt : Hours \cup {-1}]
NoSnapshot == [payload |-> 0, lastRefreshedAt |-> -1]
Snapshot == [payload : Fetches, lastRefreshedAt : Hours \cup {-1}]
IdleWorker == [pc |-> "idle"]
Worker == [pc : {"picked", "running", "fetched"}, subject : Subjects,
           row : 1 .. MaxRows, payload : Fetches]
WorkerCall == [op : {"persist", "retry", "fail"}, subject : Subjects, row : 1 .. MaxRows,
         payload : Fetches]

VARIABLES
  now,         \* the clock, in hours
  jobs,        \* enrichmentJobs: per source or URL, its rows as inserted
  snapshots,   \* per source, what its last result left: the fetch it came from
  workers,     \* the workers
  fetches,     \* number of fetches so far: data fetched later is newer
  unanswered   \* calls of workers that may be made once more

jobVars == <<now, jobs, snapshots, workers, fetches, unanswered>>

InFlight(job) == job.status \in {"queued", "running"}
SourceInFlight(s) == \E i \in DOMAIN jobs[s] : InFlight(jobs[s][i])
-----------------------------------------------------------------------------
(***************************************************************************)
(* Enqueueing.                                                             *)
(***************************************************************************)

\* The latest row with a dedupe key, as a set of at most one index.
LatestRow(s, key) ==
  LET rows == {i \in DOMAIN jobs[s] : jobs[s][i].dedupeKey = key} IN
  {i \in rows : \A k \in rows : k <= i}

\* enqueueJob returns the latest row with this key instead of a new one.
ShortCircuits(s, key) ==
  \E i \in LatestRow(s, key) :
    LET job == jobs[s][i] IN
    \/ InFlight(job)
    \/ job.status = "succeeded" /\ now - job.completedAt < Ttl

NewJob(key, maxAttempts) ==
  [dedupeKey |-> key, attempt |-> 0, maxAttempts |-> maxAttempts, status |-> "queued",
   retryGate |-> FALSE, completedAt |-> -1]

IsFresh(s) == snapshots[s] # NoSnapshot /\ now - snapshots[s].lastRefreshedAt < Ttl

\* buildSchedule: neither in flight nor fresh.
Due(s, forceRefresh) == ~SourceInFlight(s) /\ (forceRefresh \/ ~IsFresh(s))

\* enqueueAllSourcesForProperty, also on behalf of enqueueScheduledRefreshes.
EnqueueAllSources(forceRefresh) ==
  LET key == [trigger |-> "refresh", priorAttempts |-> 0, hour |-> now]
      new == {s \in Sources : Due(s, forceRefresh) /\ ~ShortCircuits(s, key)}
  IN
  /\ \A s \in new : Len(jobs[s]) < MaxRows
  /\ jobs' = [s \in Subjects |-> IF s \in new
                                   THEN Append(jobs[s], NewJob(key, MaxAttempts))
                                   ELSE jobs[s]]
  /\ UNCHANGED <<now, snapshots, workers, fetches, unanswered>>

\* Mutant: only the rows with the same trigger count.
PriorAttempts_SameTrigger(url, trigger) ==
  Cardinality({i \in DOMAIN jobs[url] : jobs[url][i].dedupeKey.trigger = trigger})

\* All rows for the URL count, the queued and the escalated ones as well.
PriorAttempts(url, trigger) == Len(jobs[url])

EnqueueBrowserUseHosted(url, trigger) ==
  LET prior == PriorAttempts(url, trigger)
      key == [trigger |-> trigger, priorAttempts |-> prior, hour |-> now]
      latest == {jobs[url][i] : i \in LatestRow(url, key)}
      escalation == [NewJob(key, MaxBrowserAttempts) EXCEPT
                       !.status = "escalated", !.attempt = prior, !.completedAt = now]
  IN
  /\ Len(jobs[url]) < MaxRows
  /\ IF prior >= MaxBrowserAttempts
       THEN /\ \A job \in latest : job.status # "escalated"
            /\ jobs' = [jobs EXCEPT ![url] = Append(@, escalation)]
       ELSE /\ \A job \in latest : ~InFlight(job)
            /\ jobs' = [jobs EXCEPT ![url] = Append(@, NewJob(key, MaxBrowserAttempts))]
  /\ UNCHANGED <<now, snapshots, workers, fetches, unanswered>>
-----------------------------------------------------------------------------
(***************************************************************************)
(* Running jobs.                                                           *)
(***************************************************************************)

\* External: worker w takes a job from the answer of getPendingJobs.
PickPending(w, s, i) ==
  /\ workers[w] = IdleWorker
  /\ jobs[s][i].status = "queued" /\ ~jobs[s][i].retryGate
  /\ workers' = [workers EXCEPT ![w] = [pc |-> "picked", subject |-> s, row |-> i,
                                        payload |-> 0]]
  /\ UNCHANGED <<now, jobs, snapshots, fetches, unanswered>>

\* Mutant: the status is not looked at again.
Claimable_Unchecked(job) == TRUE

Claimable(job) == job.status = "queued"

\* Mutant: the attempt is not counted.
MarkRunning_Uncounted(w) ==
  LET s == workers[w].subject  i == workers[w].row IN
  /\ workers[w].pc = "picked"
  /\ IF Claimable(jobs[s][i])
       THEN /\ jobs' = [jobs EXCEPT ![s][i].status = "running", ![s][i].retryGate = FALSE]
            /\ workers' = [workers EXCEPT ![w].pc = "running"]
       ELSE workers' = [workers EXCEPT ![w] = IdleWorker] /\ UNCHANGED jobs
  /\ UNCHANGED <<now, snapshots, fetches, unanswered>>

\* A worker whose job was taken by another one gets an error and starts anew.
MarkRunning(w) ==
  LET s == workers[w].subject  i == workers[w].row IN
  /\ workers[w].pc = "picked"
  /\ IF Claimable(jobs[s][i])
       THEN /\ jobs' = [jobs EXCEPT ![s][i].status = "running", ![s][i].attempt = @ + 1,
                                    ![s][i].retryGate = FALSE]
            /\ workers' = [workers EXCEPT ![w].pc = "running"]
       ELSE workers' = [workers EXCEPT ![w] = IdleWorker] /\ UNCHANGED jobs
  /\ UNCHANGED <<now, snapshots, fetches, unanswered>>

\* External: the worker has fetched the data.
Fetch(w) ==
  /\ workers[w].pc = "running"
  /\ fetches < MaxFetches
  /\ fetches' = fetches + 1
  /\ workers' = [workers EXCEPT ![w].pc = "fetched", ![w].payload = fetches + 1]
  /\ UNCHANGED <<now, jobs, snapshots, unanswered>>

\* persistJobResult, or markSucceeded when there is nothing to store.
PersistJobResult(s, i, payload) ==
  /\ jobs' = [jobs EXCEPT ![s][i].status = "succeeded", ![s][i].completedAt = now,
                          ![s][i].retryGate = FALSE]
  /\ \/ /\ s \in Sources
        /\ snapshots' = [snapshots EXCEPT ![s] = [payload |-> payload,
                                                  lastRefreshedAt |-> now]]
     \/ UNCHANGED snapshots

\* Mutant: one more attempt than the job may make.
HasRetryLeft_OneMore(job) == job.attempt <= job.maxAttempts

HasRetryLeft(job) == job.attempt < job.maxAttempts

FinalStatus(s, job) ==
  IF s \in Urls /\ job.attempt >= job.maxAttempts THEN "escalated" ELSE "failed"

MarkJobFailed(s, i, retryable) ==
  LET job == jobs[s][i] IN
  /\ jobs' = [jobs EXCEPT ![s][i] =
       IF retryable /\ HasRetryLeft(job)
         THEN [job EXCEPT !.status = "queued", !.retryGate = TRUE]
         ELSE [job EXCEPT !.status = FinalStatus(s, job), !.completedAt = now,
                          !.retryGate = FALSE]]
  /\ UNCHANGED snapshots

Handle(call) ==
  CASE call.op = "persist" -> PersistJobResult(call.subject, call.row, call.payload)
    [] call.op = "retry" -> MarkJobFailed(call.subject, call.row, TRUE)
    [] call.op = "fail" -> MarkJobFailed(call.subject, call.row, FALSE)

\* External: the worker reports and is free again.
Report(w, op) ==
  LET call == [op |-> op, subject |-> workers[w].subject, row |-> workers[w].row,
               payload |-> workers[w].payload]
  IN
  /\ workers[w].pc \in (IF op = "persist" THEN {"fetched"} ELSE {"running", "fetched"})
  /\ Handle(call)
  /\ workers' = [workers EXCEPT ![w] = IdleWorker]
  /\ unanswered' = IF RepeatedCalls THEN unanswered \cup {call} ELSE unanswered
  /\ UNCHANGED <<now, fetches>>

RepeatCall(call) ==
  /\ Handle(call)
  /\ unanswered' = unanswered \ {call}
  /\ UNCHANGED <<now, workers, fetches>>

\* The worker dies with its job: nothing takes the job back.
WorkerDies(w) ==
  /\ workers[w].pc \in {"running", "fetched"}
  /\ workers' = [workers EXCEPT ![w] = IdleWorker]
  /\ UNCHANGED <<now, jobs, snapshots, fetches, unanswered>>

\* The delay of a retry, at most an hour, has passed.
OpenRetryGate(s, i) ==
  /\ jobs[s][i].retryGate
  /\ jobs' = [jobs EXCEPT ![s][i].retryGate = FALSE]
  /\ UNCHANGED <<now, snapshots, workers, fetches, unanswered>>

Tick ==
  /\ now < MaxHour
  /\ now' = now + 1
  /\ UNCHANGED <<jobs, snapshots, workers, fetches, unanswered>>
-----------------------------------------------------------------------------
JobsInit ==
  /\ now = 0
  /\ jobs = [s \in Subjects |-> <<>>]
  /\ snapshots = [s \in Sources |-> NoSnapshot]
  /\ workers = [w \in Workers |-> IdleWorker]
  /\ fetches = 0
  /\ unanswered = {}

Pick(w) == \E s \in Subjects : \E i \in DOMAIN jobs[s] : PickPending(w, s, i)

Work(w) ==
  \/ MarkRunning(w)
  \/ Fetch(w)
  \/ \E op \in {"persist", "retry", "fail"} : Report(w, op)

JobsNext ==
  \/ \E force \in BOOLEAN : EnqueueAllSources(force)
  \/ \E url \in Urls, trigger \in Triggers : EnqueueBrowserUseHosted(url, trigger)
  \/ \E w \in Workers : Pick(w) \/ Work(w) \/ WorkerDies(w)
  \/ \E call \in unanswered : RepeatCall(call)
  \/ \E s \in Subjects : \E i \in DOMAIN jobs[s] : OpenRetryGate(s, i)
  \/ Tick

JobsSpec == JobsInit /\ [][JobsNext]_jobVars

\* Workers poll for jobs and finish what they have begun, and delays pass.
JobsProgress ==
  /\ \A w \in Workers : WF_jobVars(Pick(w)) /\ WF_jobVars(Work(w))
  /\ \A s \in Subjects : \A i \in 1 .. MaxRows :
       WF_jobVars(i \in DOMAIN jobs[s] /\ OpenRetryGate(s, i))

FairJobsSpec == JobsSpec /\ JobsProgress
-----------------------------------------------------------------------------
\* Shape of the tables and of the workers.
JobsTypeOK ==
  /\ now \in Hours
  /\ jobs \in [Subjects -> Seq(Job)]
  /\ \A s \in Subjects : Len(jobs[s]) <= MaxRows
  /\ snapshots \in [Sources -> Snapshot]
  /\ workers \in [Workers -> Worker \cup {IdleWorker}]
  /\ fetches \in Fetches
  /\ unanswered \subseteq WorkerCall

(***************************************************************************)
(* "Idempotent enqueue": whatever hour, refresh and retry come together, a *)
(* source has at most one job that is queued or running.                   *)
(***************************************************************************)
OneInFlight ==
  \A s \in Sources : \A i, k \in DOMAIN jobs[s] :
    InFlight(jobs[s][i]) /\ InFlight(jobs[s][k]) => i = k

(***************************************************************************)
(* "Atomic claim": no two workers work on the same job, and the job of a   *)
(* working worker is running, also when several workers have seen it       *)
(* pending and it came back from a failed attempt in between.              *)
(***************************************************************************)
ClaimsExclusive ==
  \A w \in Workers : workers[w].pc \in {"running", "fetched"} =>
    /\ jobs[workers[w].subject][workers[w].row].status = "running"
    /\ \A other \in Workers \ {w} : workers[other].pc \in {"running", "fetched"} =>
         <<workers[other].subject, workers[other].row>> #
           <<workers[w].subject, workers[w].row>>

\* Whatever the requests and the workers do, a source is worked on once at a
\* time and by one worker.
JobsSound == JobsTypeOK /\ OneInFlight /\ ClaimsExclusive

(***************************************************************************)
(* A job that waits for a worker has an attempt left, and no job makes     *)
(* more attempts than it may: also when a failure is reported twice.       *)
(***************************************************************************)
AttemptsCapped ==
  \A s \in Subjects : \A i \in DOMAIN jobs[s] :
    LET job == jobs[s][i] IN
    job.dedupeKey.priorAttempts < MaxBrowserAttempts =>
      /\ job.attempt <= job.maxAttempts
      /\ job.status = "queued" => job.attempt < job.maxAttempts

(***************************************************************************)
(* A result never replaces one that was fetched later, although the row is *)
(* stamped with the time it is stored and the age of the data is not       *)
(* compared: a source is never fetched by two workers at a time.           *)
(***************************************************************************)
SnapshotsNeverRegress ==
  [][\A s \in Sources : snapshots'[s].payload >= snapshots[s].payload]_jobVars

(***************************************************************************)
(* Once a URL has used up its rows, only escalations are added, and an     *)
(* escalated row is left to the operator: no worker touches it again.      *)
(***************************************************************************)
EscalationFinal ==
  [][\A u \in Urls :
       /\ \A i \in DOMAIN jobs[u] :
            jobs[u][i].status = "escalated" => jobs'[u][i] = jobs[u][i]
       /\ Len(jobs[u]) >= MaxBrowserAttempts =>
            \A i \in DOMAIN jobs'[u] \ DOMAIN jobs[u] :
              jobs'[u][i].status = "escalated"]_jobVars

\* What was fetched and what was handed to the operator is never taken back.
OutcomesFinal == SnapshotsNeverRegress /\ EscalationFinal

(***************************************************************************)
(* A job that was enqueued is finished at some point, unless the worker    *)
(* that ran it has died.                                                   *)
(***************************************************************************)
HasWorker(s, i) ==
  \E w \in Workers : /\ workers[w].pc \in {"running", "fetched"}
                     /\ workers[w].subject = s /\ workers[w].row = i

JobsSettle ==
  \A s \in Subjects : \A i \in 1 .. MaxRows :
    i \in DOMAIN jobs[s] ~>
      /\ i \in DOMAIN jobs[s]
      /\ \/ ~InFlight(jobs[s][i])
         \/ jobs[s][i].status = "running" /\ ~HasWorker(s, i)
=============================================================================
