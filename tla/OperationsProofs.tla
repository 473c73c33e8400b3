--------------------------- MODULE OperationsProofs ---------------------------
(***************************************************************************)
(* Proofs about the background work and the records it fills: enrichment   *)
(* jobs, listing agents, lead attribution, listing intake, the limiter of  *)
(* requests, the messages of a phone and the fetch worker, for every set   *)
(* of subjects, sources, workers, fields, sessions, links, addresses,      *)
(* messages and requests and every bound.                                  *)
(***************************************************************************)
EXTENDS EnrichmentJobs, ListingAgents, LeadAttribution, ListingIntake, SmsIntake, FetchWorker,
        FiniteFacts

(***************************************************************************)
(* EnrichmentJobs.  Types and the cap on attempts hold of the whole        *)
(* specification.  The rest of JobsSound and OutcomesFinal hold where      *)
(* every call of a worker is answered (~RepeatedCalls): a failure report   *)
(* that is repeated may retry a job that another worker has claimed.       *)
(***************************************************************************)
Jobs == [Subjects -> Seq(Job)]
Add(new, job) ==
  jobs' = [s \in Subjects |-> IF s \in new THEN Append(jobs[s], job) ELSE jobs[s]]
Put(s, i, job) == jobs' = [jobs EXCEPT ![s] = [@ EXCEPT ![i] = job]]

(***************************************************************************)
(* What the tables of jobs look like after one row was replaced, and after *)
(* one was added to some of them.                                          *)
(***************************************************************************)
LEMMA RowReplaced ==
  ASSUME jobs \in Jobs, NEW s \in Subjects, NEW i \in DOMAIN jobs[s], NEW job \in Job,
         Put(s, i, job)
  PROVE  /\ jobs' \in Jobs
         /\ \A t \in Subjects : /\ Len(jobs'[t]) = Len(jobs[t])
                                /\ DOMAIN jobs'[t] = DOMAIN jobs[t]
         /\ jobs'[s][i] = job
         /\ \A t \in Subjects : \A k \in DOMAIN jobs[t] :
              <<t, k>> # <<s, i>> => jobs'[t][k] = jobs[t][k]
<1>1. jobs[s] \in Seq(Job) /\ i \in 1 .. Len(jobs[s])
  BY DEF Jobs
<1>2. /\ [jobs[s] EXCEPT ![i] = job] \in Seq(Job)
      /\ Len([jobs[s] EXCEPT ![i] = job]) = Len(jobs[s])
      /\ \A k \in 1 .. Len(jobs[s]) :
           [jobs[s] EXCEPT ![i] = job][k] = IF k = i THEN job ELSE jobs[s][k]
  BY <1>1, ExceptSeq
<1>3. /\ jobs' \in Jobs
      /\ jobs'[s] = [jobs[s] EXCEPT ![i] = job]
      /\ \A t \in Subjects \ {s} : jobs'[t] = jobs[t]
  BY <1>2 DEF Jobs, Put
<1>4. \A t \in Subjects : Len(jobs'[t]) = Len(jobs[t]) /\ jobs[t] \in Seq(Job) /\ jobs'[t] \in Seq(Job)
  BY <1>2, <1>3 DEF Jobs
<1>5. \A t \in Subjects : DOMAIN jobs'[t] = DOMAIN jobs[t]
  BY <1>4
<1>6. ASSUME NEW t \in Subjects, NEW k \in DOMAIN jobs[t], <<t, k>> # <<s, i>>
      PROVE  jobs'[t][k] = jobs[t][k]
  <2>1. CASE t = s
    BY <1>1, <1>2, <1>3, <1>6, <2>1
  <2>2. CASE t # s
    BY <1>3, <2>2
  <2> QED
    BY <2>1, <2>2
<1>7. jobs'[s][i] = job
  BY <1>1, <1>2, <1>3
<1> QED
  BY <1>3, <1>4, <1>5, <1>6, <1>7

LEMMA RowsAdded ==
  ASSUME jobs \in Jobs, NEW new \in SUBSET Subjects, NEW job \in Job, Add(new, job)
  PROVE  /\ jobs' \in Jobs
         /\ \A t \in Subjects : \A k \in DOMAIN jobs[t] :
              k \in DOMAIN jobs'[t] /\ jobs'[t][k] = jobs[t][k]
         /\ \A t \in Subjects : \A k \in DOMAIN jobs'[t] \ DOMAIN jobs[t] :
              t \in new /\ k = Len(jobs[t]) + 1 /\ jobs'[t][k] = job
         /\ \A t \in Subjects : Len(jobs'[t]) = IF t \in new THEN Len(jobs[t]) + 1 ELSE Len(jobs[t])
<1>1. ASSUME NEW t \in Subjects
      PROVE  /\ jobs[t] \in Seq(Job)
             /\ jobs'[t] = IF t \in new THEN Append(jobs[t], job) ELSE jobs[t]
  BY DEF Jobs, Add
<1>2. ASSUME NEW t \in Subjects, t \in new
      PROVE  /\ jobs'[t] \in Seq(Job)
             /\ Len(jobs'[t]) = Len(jobs[t]) + 1
             /\ \A k \in 1 .. Len(jobs[t]) : jobs'[t][k] = jobs[t][k]
             /\ jobs'[t][Len(jobs[t]) + 1] = job
  <2>1. jobs[t] \in Seq(Job) /\ jobs'[t] = Append(jobs[t], job)
    BY <1>1, <1>2
  <2>2. /\ Append(jobs[t], job) \in Seq(Job)
        /\ Len(Append(jobs[t], job)) = Len(jobs[t]) + 1
        /\ \A k \in 1 .. Len(jobs[t]) : Append(jobs[t], job)[k] = jobs[t][k]
        /\ Append(jobs[t], job)[Len(jobs[t]) + 1] = job
    BY <2>1, AppendProperties
  <2> QED
    BY <2>1, <2>2
<1>3. ASSUME NEW t \in Subjects
      PROVE  jobs'[t] \in Seq(Job)
  BY <1>1, <1>2
<1>4. jobs' \in Jobs
  BY <1>3 DEF Jobs, Add
<1>5. ASSUME NEW t \in Subjects, NEW k \in DOMAIN jobs[t]
      PROVE  k \in DOMAIN jobs'[t] /\ jobs'[t][k] = jobs[t][k]
  <2>1. CASE t \in new
    <3>1. k \in 1 .. Len(jobs[t]) /\ Len(jobs[t]) \in Nat
      BY <1>1
    <3>2. k \in 1 .. Len(jobs'[t])
      BY <1>2, <2>1, <3>1
    <3> QED
      BY <1>2, <1>3, <2>1, <3>1, <3>2
  <2>2. CASE t \notin new
    BY <1>1, <2>2
  <2> QED
    BY <2>1, <2>2
<1>6. ASSUME NEW t \in Subjects, NEW k \in DOMAIN jobs'[t] \ DOMAIN jobs[t]
      PROVE  t \in new /\ k = Len(jobs[t]) + 1 /\ jobs'[t][k] = job
  <2>1. t \in new
    BY <1>1
  <2>2. k \in 1 .. Len(jobs[t]) + 1 /\ k \notin 1 .. Len(jobs[t]) /\ Len(jobs[t]) \in Nat
    BY <1>1, <1>2, <2>1
  <2>3. k = Len(jobs[t]) + 1
    BY <2>2
  <2> QED
    BY <1>2, <2>1, <2>3
<1>7. \A t \in Subjects : Len(jobs'[t]) = IF t \in new THEN Len(jobs[t]) + 1 ELSE Len(jobs[t])
  BY <1>1, <1>2
<1> QED
  BY <1>4, <1>5, <1>6, <1>7

(***************************************************************************)
(* What the workers and the calls that may be repeated refer to exists.    *)
(***************************************************************************)
RowsExist ==
  /\ \A w \in Workers : workers[w] # IdleWorker =>
       workers[w].row \in DOMAIN jobs[workers[w].subject]
  /\ \A call \in unanswered : call.row \in DOMAIN jobs[call.subject]

JobsBase == JobsTypeOK /\ RowsExist

\* The rows that the steps of a job leave.
Claimed(job) == [job EXCEPT !.status = "running", !.attempt = @ + 1, !.retryGate = FALSE]
Succeeded(job) == [job EXCEPT !.status = "succeeded", !.completedAt = now, !.retryGate = FALSE]
Retried(job) == [job EXCEPT !.status = "queued", !.retryGate = TRUE]
Failed(s, job) == [job EXCEPT !.status = FinalStatus(s, job), !.completedAt = now,
                              !.retryGate = FALSE]
Opened(job) == [job EXCEPT !.retryGate = FALSE]

LEMMA RowTypes ==
  ASSUME now \in Hours, NEW s \in Subjects, NEW job \in Job
  PROVE  /\ Claimed(job) \in Job /\ Succeeded(job) \in Job /\ Retried(job) \in Job
         /\ Failed(s, job) \in Job /\ Opened(job) \in Job
<1>1. job.attempt \in Nat /\ job.attempt + 1 \in Nat
  BY DEF Job
<1>2. Claimed(job) \in Job
  BY <1>1 DEF Claimed, Job
<1>3. Succeeded(job) \in Job
  BY DEF Succeeded, Job
<1>4. Retried(job) \in Job /\ Opened(job) \in Job
  BY DEF Retried, Opened, Job
<1>5. Failed(s, job) \in Job
  BY DEF Failed, FinalStatus, Job
<1> QED
  BY <1>2, <1>3, <1>4, <1>5

LEMMA JobAt ==
  ASSUME JobsTypeOK, NEW s \in Subjects, NEW i \in DOMAIN jobs[s]
  PROVE  /\ jobs \in Jobs /\ jobs[s] \in Seq(Job) /\ jobs[s][i] \in Job
         /\ Len(jobs[s]) \in Nat /\ Len(jobs[s]) <= MaxRows /\ i \in 1 .. Len(jobs[s])
  BY DEF JobsTypeOK, Jobs

LEMMA WorkerAt ==
  ASSUME JobsBase, NEW w \in Workers, workers[w] # IdleWorker
  PROVE  /\ workers[w] \in Worker
         /\ workers[w].subject \in Subjects
         /\ workers[w].row \in DOMAIN jobs[workers[w].subject]
         /\ workers[w].payload \in Fetches
  BY DEF JobsBase, JobsTypeOK, RowsExist, Worker

LEMMA ClaimStep ==
  ASSUME JobsBase, NEW w \in Workers, MarkRunning(w)
  PROVE  LET s == workers[w].subject  i == workers[w].row IN
         /\ workers[w] # IdleWorker
         /\ \/ /\ jobs[s][i].status = "queued"
               /\ Put(s, i, Claimed(jobs[s][i]))
               /\ workers' = [workers EXCEPT ![w].pc = "running"]
            \/ UNCHANGED jobs /\ workers' = [workers EXCEPT ![w] = IdleWorker]
<1> DEFINE s == workers[w].subject
           i == workers[w].row
<1>1. workers[w] # IdleWorker
  <2>1. workers[w].pc = "picked" /\ IdleWorker.pc = "idle"
    BY DEF MarkRunning, IdleWorker
  <2> QED
    BY <2>1
<1>2. /\ s \in Subjects /\ i \in DOMAIN jobs[s]
      /\ jobs \in Jobs /\ jobs[s] \in Seq(Job) /\ jobs[s][i] \in Job
  BY <1>1, WorkerAt, JobAt DEF JobsBase
<1>3. CASE Claimable(jobs[s][i])
  <2>1. jobs' = [jobs EXCEPT ![s][i].status = "running", ![s][i].attempt = @ + 1,
                             ![s][i].retryGate = FALSE]
    BY <1>3 DEF MarkRunning
  <2>2. Put(s, i, Claimed(jobs[s][i]))
    BY <1>2, <2>1 DEF Put, Claimed, Jobs
  <2> QED
    BY <1>1, <1>3, <2>2 DEF MarkRunning, Claimable
<1>4. CASE ~Claimable(jobs[s][i])
  BY <1>1, <1>4 DEF MarkRunning
<1> QED
  BY <1>3, <1>4

LEMMA HandleStep ==
  ASSUME JobsBase, NEW call \in WorkerCall, call.row \in DOMAIN jobs[call.subject],
         Handle(call)
  PROVE  LET s == call.subject  i == call.row  job == jobs[s][i] IN
         \/ /\ call.op = "persist" /\ Put(s, i, Succeeded(job))
            /\ \/ /\ s \in Sources
                  /\ snapshots' = [snapshots EXCEPT ![s] = [payload |-> call.payload,
                                                            lastRefreshedAt |-> now]]
               \/ UNCHANGED snapshots
         \/ /\ UNCHANGED snapshots
            /\ HasRetryLeft(job)
            /\ Put(s, i, Retried(job))
         \/ /\ UNCHANGED snapshots
            /\ Put(s, i, Failed(s, job))
<1> DEFINE s == call.subject
           i == call.row
           job == jobs[s][i]
<1>1. /\ s \in Subjects /\ i \in DOMAIN jobs[s] /\ call.op \in {"persist", "retry", "fail"}
      /\ jobs \in Jobs /\ jobs[s] \in Seq(Job) /\ job \in Job
  BY JobAt DEF JobsBase, WorkerCall
<1>2. CASE call.op = "persist"
  <2>1. PersistJobResult(s, i, call.payload)
    BY <1>2 DEF Handle
  <2>2. Put(s, i, Succeeded(job))
    BY <1>1, <2>1 DEF PersistJobResult, Put, Succeeded, Jobs
  <2> QED
    BY <1>2, <2>1, <2>2 DEF PersistJobResult
<1>3. ASSUME NEW retryable \in BOOLEAN, MarkJobFailed(s, i, retryable)
      PROVE  /\ UNCHANGED snapshots
             /\ \/ HasRetryLeft(job) /\ Put(s, i, Retried(job))
                \/ Put(s, i, Failed(s, job))
  <2>1. CASE retryable /\ HasRetryLeft(job)
    BY <1>1, <1>3, <2>1 DEF MarkJobFailed, Put, Retried, Jobs
  <2>2. CASE ~(retryable /\ HasRetryLeft(job))
    BY <1>1, <1>3, <2>2 DEF MarkJobFailed, Put, Failed, Jobs
  <2> QED
    BY <1>3, <2>1, <2>2 DEF MarkJobFailed
<1>4. CASE call.op = "retry"
  BY <1>3, <1>4 DEF Handle
<1>5. CASE call.op = "fail"
  BY <1>3, <1>5 DEF Handle
<1> QED
  BY <1>1, <1>2, <1>4, <1>5

LEMMA GateStep ==
  ASSUME JobsBase, NEW s \in Subjects, NEW i \in DOMAIN jobs[s], OpenRetryGate(s, i)
  PROVE  jobs[s][i].retryGate /\ Put(s, i, Opened(jobs[s][i]))
<1>1. jobs \in Jobs /\ jobs[s] \in Seq(Job) /\ jobs[s][i] \in Job
  BY JobAt DEF JobsBase
<1> QED
  BY <1>1 DEF OpenRetryGate, Put, Opened, Jobs

\* The tables of jobs after a step that changes one row or adds some.
LEMMA TablesAfterPut ==
  ASSUME JobsBase, NEW s \in Subjects, NEW i \in DOMAIN jobs[s], NEW job \in Job,
         Put(s, i, job)
  PROVE  /\ jobs' \in Jobs
         /\ \A t \in Subjects : Len(jobs'[t]) <= MaxRows /\ DOMAIN jobs'[t] = DOMAIN jobs[t]
         /\ jobs'[s][i] = job
         /\ \A t \in Subjects : \A k \in DOMAIN jobs[t] :
              <<t, k>> # <<s, i>> => jobs'[t][k] = jobs[t][k]
<1>1. jobs \in Jobs /\ \A t \in Subjects : Len(jobs[t]) <= MaxRows
  BY DEF JobsBase, JobsTypeOK, Jobs
<1>3. /\ jobs' \in Jobs
      /\ \A t \in Subjects : Len(jobs'[t]) = Len(jobs[t]) /\ DOMAIN jobs'[t] = DOMAIN jobs[t]
      /\ jobs'[s][i] = job
      /\ \A t \in Subjects : \A k \in DOMAIN jobs[t] :
           <<t, k>> # <<s, i>> => jobs'[t][k] = jobs[t][k]
  BY <1>1, RowReplaced
<1> QED
  BY <1>1, <1>3

LEMMA WorkerMoves ==
  ASSUME JobsBase, NEW w \in Workers, NEW x \in Worker \cup {IdleWorker},
         x # IdleWorker => x.row \in DOMAIN jobs[x.subject],
         workers' = [workers EXCEPT ![w] = x],
         \A t \in Subjects : DOMAIN jobs[t] \subseteq DOMAIN jobs'[t]
  PROVE  /\ workers' \in [Workers -> Worker \cup {IdleWorker}]
         /\ \A v \in Workers : workers'[v] # IdleWorker =>
              workers'[v].row \in DOMAIN jobs'[workers'[v].subject]
<1>1. workers \in [Workers -> Worker \cup {IdleWorker}]
  BY DEF JobsBase, JobsTypeOK
<1>2. ASSUME NEW v \in Workers, workers'[v] # IdleWorker
      PROVE  workers'[v].row \in DOMAIN jobs'[workers'[v].subject]
  <2>1. CASE v = w
    <3>1. workers'[v] = x /\ x \in Worker
      BY <1>1, <1>2, <2>1
    <3>2. x.subject \in Subjects
      BY <3>1 DEF Worker
    <3> QED
      BY <1>2, <3>1, <3>2
  <2>2. CASE v # w
    <3>1. workers'[v] = workers[v]
      BY <1>1, <2>2
    <3>2. workers[v].subject \in Subjects /\ workers[v].row \in DOMAIN jobs[workers[v].subject]
      BY <1>2, <3>1, WorkerAt
    <3> QED
      BY <3>1, <3>2
  <2> QED
    BY <2>1, <2>2
<1> QED
  BY <1>1, <1>2

LEMMA WorkersStay ==
  ASSUME JobsBase, UNCHANGED workers,
         \A t \in Subjects : DOMAIN jobs[t] \subseteq DOMAIN jobs'[t]
  PROVE  /\ workers' \in [Workers -> Worker \cup {IdleWorker}]
         /\ \A v \in Workers : workers'[v] # IdleWorker =>
              workers'[v].row \in DOMAIN jobs'[workers'[v].subject]
<1>1. workers \in [Workers -> Worker \cup {IdleWorker}]
  BY DEF JobsBase, JobsTypeOK
<1> QED
  BY <1>1, WorkerAt

LEMMA CallsStay ==
  ASSUME JobsBase, unanswered' \subseteq unanswered,
         \A t \in Subjects : DOMAIN jobs[t] \subseteq DOMAIN jobs'[t]
  PROVE  /\ unanswered' \subseteq WorkerCall
         /\ \A call \in unanswered' : call.row \in DOMAIN jobs'[call.subject]
<1>1. \A call \in unanswered : /\ call \in WorkerCall /\ call.subject \in Subjects
                                /\ call.row \in DOMAIN jobs[call.subject]
  BY DEF JobsBase, JobsTypeOK, RowsExist, WorkerCall
<1> QED
  BY <1>1

(***************************************************************************)
(* What an enqueue adds.                                                   *)
(***************************************************************************)
LEMMA NewRows ==
  ASSUME JobsBase
  PROVE  /\ \A key \in DedupeKey : /\ NewJob(key, MaxAttempts) \in Job
                                    /\ NewJob(key, MaxBrowserAttempts) \in Job
         /\ \A key \in DedupeKey : \A n \in Nat :
              [NewJob(key, MaxBrowserAttempts) EXCEPT
                 !.status = "escalated", !.attempt = n, !.completedAt = now] \in Job
<1>1. MaxAttempts \in Nat /\ MaxBrowserAttempts \in Nat
  BY EnrichmentAssumption
<1>2. now \in Hours
  BY DEF JobsBase, JobsTypeOK
<1>3. ASSUME NEW key \in DedupeKey, NEW n \in Nat
      PROVE  NewJob(key, n) \in Job
  BY <1>3 DEF NewJob, Job
<1>4. ASSUME NEW key \in DedupeKey, NEW n \in Nat
      PROVE  [NewJob(key, MaxBrowserAttempts) EXCEPT
                !.status = "escalated", !.attempt = n, !.completedAt = now] \in Job
  BY <1>1, <1>2, <1>4 DEF NewJob, Job
<1> QED
  BY <1>1, <1>3, <1>4

LEMMA EnqueueSourcesStep ==
  ASSUME JobsBase, NEW force \in BOOLEAN, EnqueueAllSources(force)
  PROVE  \E new \in SUBSET Sources, key \in DedupeKey :
           /\ key.priorAttempts = 0
           /\ \A s \in new : Len(jobs[s]) < MaxRows /\ ~SourceInFlight(s)
           /\ Add(new, NewJob(key, MaxAttempts))
<1> DEFINE key == [trigger |-> "refresh", priorAttempts |-> 0, hour |-> now]
           new == {s \in Sources : Due(s, force) /\ ~ShortCircuits(s, key)}
<1>1. key \in DedupeKey
  BY EnrichmentAssumption DEF DedupeKey, JobsBase, JobsTypeOK
<1>2. \A s \in new : Len(jobs[s]) < MaxRows /\ ~SourceInFlight(s)
  BY DEF EnqueueAllSources, Due
<1>3. Add(new, NewJob(key, MaxAttempts))
  BY DEF EnqueueAllSources, Add
<1> QED
  BY <1>1, <1>2, <1>3

LEMMA EnqueueBrowserStep ==
  ASSUME JobsBase, NEW url \in Urls, NEW trigger \in Triggers,
         EnqueueBrowserUseHosted(url, trigger)
  PROVE  \E key \in DedupeKey, job \in Job :
           /\ key.priorAttempts = Len(jobs[url])
           /\ Len(jobs[url]) < MaxRows
           /\ Add({url}, job)
           /\ IF Len(jobs[url]) >= MaxBrowserAttempts
                THEN job = [NewJob(key, MaxBrowserAttempts) EXCEPT
                              !.status = "escalated", !.attempt = Len(jobs[url]),
                              !.completedAt = now]
                ELSE job = NewJob(key, MaxBrowserAttempts)
<1> DEFINE prior == Len(jobs[url])
           key == [trigger |-> trigger, priorAttempts |-> prior, hour |-> now]
           esc == [NewJob(key, MaxBrowserAttempts) EXCEPT
                     !.status = "escalated", !.attempt = prior, !.completedAt = now]
           job == IF prior >= MaxBrowserAttempts THEN esc ELSE NewJob(key, MaxBrowserAttempts)
<1>1. url \in Subjects /\ prior \in Nat /\ prior <= MaxRows /\ MaxRows \in Nat
      /\ jobs \in Jobs /\ now \in Hours
  BY EnrichmentAssumption DEF JobsBase, JobsTypeOK, Jobs, Subjects
<1>2. key \in DedupeKey
  BY <1>1 DEF DedupeKey
<1>3. job \in Job
  BY <1>1, <1>2, NewRows
<1>4. prior < MaxRows
  BY DEF EnqueueBrowserUseHosted
<1>5. jobs' = [jobs EXCEPT ![url] = Append(@, job)]
  BY DEF EnqueueBrowserUseHosted, PriorAttempts
<1>6. Add({url}, job)
  BY <1>1, <1>5 DEF Jobs, Add
<1>7. key.priorAttempts = prior
  OBVIOUS
<1> HIDE DEF key
<1> QED
  BY <1>2, <1>3, <1>4, <1>6, <1>7

\* What a step of a worker leaves in its place.
LEMMA WorkerTypes ==
  ASSUME NEW x \in Worker, NEW n \in Fetches
  PROVE  /\ [x EXCEPT !.pc = "running"] \in Worker
         /\ [x EXCEPT !.pc = "running"].row = x.row
         /\ [x EXCEPT !.pc = "running"].subject = x.subject
         /\ [x EXCEPT !.pc = "running"].payload = x.payload
         /\ [x EXCEPT !.pc = "running"].pc = "running"
         /\ [x EXCEPT !.pc = "fetched", !.payload = n] \in Worker
         /\ [x EXCEPT !.pc = "fetched", !.payload = n].row = x.row
         /\ [x EXCEPT !.pc = "fetched", !.payload = n].subject = x.subject
         /\ [x EXCEPT !.pc = "fetched", !.payload = n].pc = "fetched"
         /\ [x EXCEPT !.pc = "fetched", !.payload = n].payload = n
BY DEF Worker

(***************************************************************************)
(* Every step keeps the shape of the tables and what is referred to.       *)
(***************************************************************************)
LEMMA BaseAfterTables ==
  ASSUME JobsBase, jobs' \in Jobs,
         \A t \in Subjects : Len(jobs'[t]) <= MaxRows /\ DOMAIN jobs[t] \subseteq DOMAIN jobs'[t],
         UNCHANGED <<now, snapshots, workers, fetches, unanswered>>
  PROVE  JobsBase'
<1>1. /\ workers' \in [Workers -> Worker \cup {IdleWorker}]
      /\ \A v \in Workers : workers'[v] # IdleWorker =>
           workers'[v].row \in DOMAIN jobs'[workers'[v].subject]
  BY WorkersStay
<1>2. /\ unanswered' \subseteq WorkerCall
      /\ \A call \in unanswered' : call.row \in DOMAIN jobs'[call.subject]
  BY CallsStay
<1> QED
  BY <1>1, <1>2 DEF JobsBase, JobsTypeOK, RowsExist, Jobs

LEMMA BaseAfterWorker ==
  ASSUME JobsBase, NEW w \in Workers, NEW x \in Worker \cup {IdleWorker},
         x # IdleWorker => x.row \in DOMAIN jobs[x.subject],
         workers' = [workers EXCEPT ![w] = x],
         jobs' \in Jobs,
         \A t \in Subjects : Len(jobs'[t]) <= MaxRows /\ DOMAIN jobs[t] \subseteq DOMAIN jobs'[t],
         fetches' \in Fetches, snapshots' \in [Sources -> Snapshot],
         UNCHANGED <<now, unanswered>>
  PROVE  JobsBase'
<1>1. /\ workers' \in [Workers -> Worker \cup {IdleWorker}]
      /\ \A v \in Workers : workers'[v] # IdleWorker =>
           workers'[v].row \in DOMAIN jobs'[workers'[v].subject]
  BY WorkerMoves
<1>2. /\ unanswered' \subseteq WorkerCall
      /\ \A call \in unanswered' : call.row \in DOMAIN jobs'[call.subject]
  BY CallsStay
<1> QED
  BY <1>1, <1>2 DEF JobsBase, JobsTypeOK, RowsExist, Jobs

LEMMA BaseEnqueueSources ==
  ASSUME JobsBase, NEW force \in BOOLEAN, EnqueueAllSources(force)
  PROVE  JobsBase'
<1>1. PICK new \in SUBSET Sources : \E key \in DedupeKey :
           /\ \A s \in new : Len(jobs[s]) < MaxRows
           /\ Add(new, NewJob(key, MaxAttempts))
  BY EnqueueSourcesStep
<1>2. PICK key \in DedupeKey :
           Add(new, NewJob(key, MaxAttempts))
  BY <1>1
<1>3. NewJob(key, MaxAttempts) \in Job /\ new \in SUBSET Subjects /\ jobs \in Jobs
  BY NewRows DEF Subjects, JobsBase, JobsTypeOK, Jobs
<1>4. /\ jobs' \in Jobs
      /\ \A t \in Subjects : DOMAIN jobs[t] \subseteq DOMAIN jobs'[t]
      /\ \A t \in Subjects : Len(jobs'[t]) = IF t \in new THEN Len(jobs[t]) + 1 ELSE Len(jobs[t])
  BY <1>2, <1>3, RowsAdded
<1>5. \A t \in Subjects : Len(jobs[t]) \in Nat /\ Len(jobs[t]) <= MaxRows /\ MaxRows \in Nat
  BY EnrichmentAssumption DEF JobsBase, JobsTypeOK
<1>6. \A t \in Subjects : Len(jobs'[t]) <= MaxRows
  BY <1>1, <1>4, <1>5
<1> QED
  BY <1>4, <1>6, BaseAfterTables DEF EnqueueAllSources

LEMMA BaseEnqueueBrowser ==
  ASSUME JobsBase, NEW url \in Urls, NEW trigger \in Triggers,
         EnqueueBrowserUseHosted(url, trigger)
  PROVE  JobsBase'
<1>1. PICK job \in Job :
           /\ Len(jobs[url]) < MaxRows
           /\ Add({url}, job)
  BY EnqueueBrowserStep
<1>3. {url} \in SUBSET Subjects /\ jobs \in Jobs
  BY DEF Subjects, JobsBase, JobsTypeOK, Jobs
<1>4. /\ jobs' \in Jobs
      /\ \A t \in Subjects : DOMAIN jobs[t] \subseteq DOMAIN jobs'[t]
      /\ \A t \in Subjects : Len(jobs'[t]) = IF t \in {url} THEN Len(jobs[t]) + 1 ELSE Len(jobs[t])
  BY <1>1, <1>3, RowsAdded
<1>5. \A t \in Subjects : Len(jobs[t]) \in Nat /\ Len(jobs[t]) <= MaxRows /\ MaxRows \in Nat
  BY EnrichmentAssumption DEF JobsBase, JobsTypeOK
<1>6. \A t \in Subjects : Len(jobs'[t]) <= MaxRows
  BY <1>1, <1>4, <1>5
<1> QED
  BY <1>4, <1>6, BaseAfterTables DEF EnqueueBrowserUseHosted

LEMMA PickStep ==
  ASSUME JobsBase, NEW w \in Workers, NEW s \in Subjects, NEW i \in DOMAIN jobs[s],
         PickPending(w, s, i)
  PROVE  \E x \in Worker :
           /\ x.pc = "picked" /\ x.row \in DOMAIN jobs[x.subject]
           /\ workers' = [workers EXCEPT ![w] = x]
           /\ UNCHANGED <<now, jobs, snapshots, fetches, unanswered>>
<1> DEFINE x == [pc |-> "picked", subject |-> s, row |-> i, payload |-> 0]
<1>1. i \in 1 .. MaxRows
  BY EnrichmentAssumption, JobAt DEF JobsBase
<1>2. x \in Worker
  BY <1>1, EnrichmentAssumption DEF Worker, Fetches
<1>3. x.pc = "picked" /\ x.row \in DOMAIN jobs[x.subject]
  OBVIOUS
<1>4. workers' = [workers EXCEPT ![w] = x]
  BY DEF PickPending
<1> HIDE DEF x
<1> QED
  BY <1>2, <1>3, <1>4 DEF PickPending

LEMMA FetchStep ==
  ASSUME JobsBase, NEW w \in Workers, Fetch(w)
  PROVE  /\ workers[w].pc = "running" /\ workers[w] # IdleWorker
         /\ fetches + 1 \in Fetches /\ fetches' = fetches + 1
         /\ workers' = [workers EXCEPT ![w] = [workers[w] EXCEPT !.pc = "fetched",
                                                                !.payload = fetches + 1]]
         /\ UNCHANGED <<now, jobs, snapshots, unanswered>>
<1>1. workers[w].pc = "running" /\ IdleWorker.pc = "idle"
  BY DEF Fetch, IdleWorker
<1>2. fetches + 1 \in Fetches
  BY EnrichmentAssumption DEF JobsBase, JobsTypeOK, Fetches, Fetch
<1>3. workers \in [Workers -> Worker \cup {IdleWorker}] /\ workers[w] \in Worker
  BY <1>1, WorkerAt DEF JobsBase, JobsTypeOK
<1>4. workers' = [workers EXCEPT ![w] = [workers[w] EXCEPT !.pc = "fetched",
                                                           !.payload = fetches + 1]]
  BY <1>3 DEF Fetch
<1> QED
  BY <1>1, <1>2, <1>4 DEF Fetch

LEMMA ReportStep ==
  ASSUME JobsBase, NEW w \in Workers, NEW op \in {"persist", "retry", "fail"}, Report(w, op)
  PROVE  /\ workers[w] # IdleWorker /\ workers[w].pc \in {"running", "fetched"}
         /\ op = "persist" => workers[w].pc = "fetched"
         /\ workers' = [workers EXCEPT ![w] = IdleWorker]
         /\ UNCHANGED <<now, fetches>>
         /\ \E call \in WorkerCall :
              /\ call.op = op /\ call.subject = workers[w].subject
              /\ call.row = workers[w].row /\ call.payload = workers[w].payload
              /\ Handle(call)
              /\ unanswered' = IF RepeatedCalls THEN unanswered \cup {call} ELSE unanswered
<1> DEFINE call == [op |-> op, subject |-> workers[w].subject, row |-> workers[w].row,
                    payload |-> workers[w].payload]
<1>1. workers[w].pc \in {"running", "fetched"} /\ IdleWorker.pc = "idle"
  BY DEF Report, IdleWorker
<1>2. workers[w] \in Worker
  BY <1>1, WorkerAt
<1>3. call \in WorkerCall
  BY <1>2 DEF Worker, WorkerCall
<1>4. Handle(call) /\ unanswered' = IF RepeatedCalls THEN unanswered \cup {call} ELSE unanswered
  BY DEF Report
<1>5. op = "persist" => workers[w].pc = "fetched"
  BY DEF Report
<1>6. /\ call.op = op /\ call.subject = workers[w].subject
      /\ call.row = workers[w].row /\ call.payload = workers[w].payload
  OBVIOUS
<1> HIDE DEF call
<1>7. workers' = [workers EXCEPT ![w] = IdleWorker] /\ UNCHANGED <<now, fetches>>
  BY DEF Report
<1> QED
  BY <1>1, <1>3, <1>4, <1>5, <1>6, <1>7

\* A handled call replaces the row of the call, and stores a snapshot at most.
LEMMA HandleTables ==
  ASSUME JobsBase, NEW call \in WorkerCall, call.row \in DOMAIN jobs[call.subject],
         Handle(call)
  PROVE  /\ jobs' \in Jobs
         /\ \A t \in Subjects : Len(jobs'[t]) <= MaxRows /\ DOMAIN jobs'[t] = DOMAIN jobs[t]
         /\ snapshots' \in [Sources -> Snapshot]
<1> DEFINE s == call.subject
           i == call.row
           job == jobs[s][i]
<1>1. /\ s \in Subjects /\ i \in DOMAIN jobs[s] /\ job \in Job /\ now \in Hours
      /\ call.payload \in Fetches
      /\ snapshots \in [Sources -> Snapshot]
  BY JobAt DEF JobsBase, JobsTypeOK, WorkerCall
<1>2. \E new \in Job : Put(s, i, new)
  BY <1>1, HandleStep, RowTypes
<1>3. snapshots' \in [Sources -> Snapshot]
  <2>1. [payload |-> call.payload, lastRefreshedAt |-> now] \in Snapshot
    BY <1>1 DEF Snapshot
  <2> QED
    BY <1>1, <2>1, HandleStep
<1> QED
  BY <1>1, <1>2, <1>3, TablesAfterPut

LEMMA BaseWorker ==
  ASSUME JobsBase, NEW w \in Workers, Pick(w) \/ Work(w) \/ WorkerDies(w)
  PROVE  JobsBase'
<1>0. /\ jobs \in Jobs /\ \A t \in Subjects : Len(jobs[t]) <= MaxRows
      /\ fetches \in Fetches /\ snapshots \in [Sources -> Snapshot]
  BY DEF JobsBase, JobsTypeOK, Jobs
<1>1. CASE Pick(w)
  <2>1. PICK s \in Subjects : \E i \in DOMAIN jobs[s] : PickPending(w, s, i)
    BY <1>1 DEF Pick
  <2>2. PICK i \in DOMAIN jobs[s] : PickPending(w, s, i)
    BY <2>1
  <2>3. PICK x \in Worker :
           /\ x.row \in DOMAIN jobs[x.subject]
           /\ workers' = [workers EXCEPT ![w] = x]
           /\ UNCHANGED <<now, jobs, snapshots, fetches, unanswered>>
    BY <2>2, PickStep
  <2> QED
    BY <1>0, <2>3, BaseAfterWorker
<1>2. CASE MarkRunning(w)
  <2> DEFINE s == workers[w].subject
             i == workers[w].row
  <2>1. /\ workers[w] \in Worker /\ s \in Subjects /\ i \in DOMAIN jobs[s] /\ jobs[s][i] \in Job
        /\ now \in Hours /\ workers[w] # IdleWorker
    BY <1>2, ClaimStep, WorkerAt, JobAt DEF JobsBase, JobsTypeOK
  <2>2. UNCHANGED <<now, snapshots, fetches, unanswered>>
    BY <1>2 DEF MarkRunning
  <2>3. CASE /\ Put(s, i, Claimed(jobs[s][i]))
             /\ workers' = [workers EXCEPT ![w].pc = "running"]
    <3>1. Claimed(jobs[s][i]) \in Job
      BY <2>1, RowTypes
    <3>2. /\ jobs' \in Jobs
          /\ \A t \in Subjects : Len(jobs'[t]) <= MaxRows /\ DOMAIN jobs'[t] = DOMAIN jobs[t]
      BY <2>1, <2>3, <3>1, TablesAfterPut
    <3>3. /\ [workers[w] EXCEPT !.pc = "running"] \in Worker
          /\ [workers[w] EXCEPT !.pc = "running"].row = i
          /\ [workers[w] EXCEPT !.pc = "running"].subject = s
      BY <1>0, <2>1, WorkerTypes
    <3>4. workers' = [workers EXCEPT ![w] = [workers[w] EXCEPT !.pc = "running"]]
      BY <2>3
    <3> QED
      BY <1>0, <2>1, <2>2, <3>2, <3>3, <3>4, BaseAfterWorker
  <2>4. CASE UNCHANGED jobs /\ workers' = [workers EXCEPT ![w] = IdleWorker]
    BY <1>0, <2>2, <2>4, BaseAfterWorker
  <2> QED
    BY <1>2, <2>3, <2>4, ClaimStep
<1>3. CASE Fetch(w)
  <2>1. /\ workers[w] \in Worker /\ workers[w].row \in DOMAIN jobs[workers[w].subject]
        /\ fetches + 1 \in Fetches
    BY <1>3, FetchStep, WorkerAt
  <2> DEFINE x == [workers[w] EXCEPT !.pc = "fetched", !.payload = fetches + 1]
  <2>2. x \in Worker /\ x.row = workers[w].row /\ x.subject = workers[w].subject
    BY <2>1, WorkerTypes, ZenonT(60)
  <2>3. workers' = [workers EXCEPT ![w] = x]
    BY <1>3, FetchStep
  <2> HIDE DEF x
  <2> QED
    BY <1>0, <1>3, <2>1, <2>2, <2>3, FetchStep, BaseAfterWorker
<1>4. ASSUME NEW op \in {"persist", "retry", "fail"}, Report(w, op)
      PROVE  JobsBase'
  <2>1. PICK call \in WorkerCall :
              /\ call.subject = workers[w].subject
              /\ call.row = workers[w].row
              /\ Handle(call)
              /\ unanswered' = IF RepeatedCalls THEN unanswered \cup {call} ELSE unanswered
    BY <1>4, ReportStep
  <2>2. /\ call.row \in DOMAIN jobs[call.subject] /\ call.subject \in Subjects
        /\ workers' = [workers EXCEPT ![w] = IdleWorker]
        /\ UNCHANGED <<now, fetches>>
    BY <1>4, <2>1, ReportStep, WorkerAt
  <2>3. /\ jobs' \in Jobs
        /\ \A t \in Subjects : Len(jobs'[t]) <= MaxRows /\ DOMAIN jobs'[t] = DOMAIN jobs[t]
        /\ snapshots' \in [Sources -> Snapshot]
    BY <2>1, <2>2, HandleTables
  <2>4. /\ workers' \in [Workers -> Worker \cup {IdleWorker}]
        /\ \A v \in Workers : workers'[v] # IdleWorker =>
             workers'[v].row \in DOMAIN jobs'[workers'[v].subject]
    BY <2>2, <2>3, WorkerMoves
  <2>5. /\ unanswered' \subseteq WorkerCall
        /\ \A c \in unanswered' : c.row \in DOMAIN jobs'[c.subject]
    <3>1. \A c \in unanswered : /\ c \in WorkerCall /\ c.subject \in Subjects
                                /\ c.row \in DOMAIN jobs[c.subject]
      BY DEF JobsBase, JobsTypeOK, RowsExist, WorkerCall
    <3> QED
      BY <2>1, <2>2, <2>3, <3>1
  <2> QED
    BY <2>2, <2>3, <2>4, <2>5 DEF JobsBase, JobsTypeOK, RowsExist, Jobs
<1>5. CASE WorkerDies(w)
  BY <1>0, <1>5, BaseAfterWorker DEF WorkerDies
<1> QED
  BY <1>1, <1>2, <1>3, <1>4, <1>5 DEF Work

LEMMA BaseStep == JobsBase /\ [JobsNext]_jobVars => JobsBase'
<1> SUFFICES ASSUME JobsBase, [JobsNext]_jobVars
             PROVE  JobsBase'
  OBVIOUS
<1>1. CASE UNCHANGED jobVars
  BY <1>1 DEF JobsBase, JobsTypeOK, RowsExist, jobVars
<1>2. CASE \E call \in unanswered : RepeatCall(call)
  <2>1. PICK call \in unanswered : RepeatCall(call)
    BY <1>2
  <2>2. /\ call \in WorkerCall /\ call.row \in DOMAIN jobs[call.subject] /\ Handle(call)
        /\ unanswered' \subseteq unanswered /\ UNCHANGED <<now, workers, fetches>>
    BY <2>1 DEF JobsBase, JobsTypeOK, RowsExist, RepeatCall
  <2>3. /\ jobs' \in Jobs
        /\ \A t \in Subjects : Len(jobs'[t]) <= MaxRows /\ DOMAIN jobs'[t] = DOMAIN jobs[t]
        /\ snapshots' \in [Sources -> Snapshot]
    BY <2>2, HandleTables
  <2>4. /\ workers' \in [Workers -> Worker \cup {IdleWorker}]
        /\ \A v \in Workers : workers'[v] # IdleWorker =>
             workers'[v].row \in DOMAIN jobs'[workers'[v].subject]
    BY <2>2, <2>3, WorkersStay
  <2>5. /\ unanswered' \subseteq WorkerCall
        /\ \A c \in unanswered' : c.row \in DOMAIN jobs'[c.subject]
    BY <2>2, <2>3, CallsStay
  <2> QED
    BY <2>2, <2>3, <2>4, <2>5 DEF JobsBase, JobsTypeOK, RowsExist, Jobs
<1>3. CASE \E s \in Subjects : \E i \in DOMAIN jobs[s] : OpenRetryGate(s, i)
  <2>1. PICK s \in Subjects : \E i \in DOMAIN jobs[s] : OpenRetryGate(s, i)
    BY <1>3
  <2>2. PICK i \in DOMAIN jobs[s] : OpenRetryGate(s, i)
    BY <2>1
  <2>3. Opened(jobs[s][i]) \in Job
    BY JobAt, RowTypes DEF JobsBase, JobsTypeOK
  <2>4. /\ jobs' \in Jobs
        /\ \A t \in Subjects : Len(jobs'[t]) <= MaxRows /\ DOMAIN jobs'[t] = DOMAIN jobs[t]
    BY <2>2, <2>3, GateStep, TablesAfterPut
  <2> QED
    BY <2>2, <2>4, BaseAfterTables DEF OpenRetryGate
<1>4. CASE Tick
  <2>1. now' \in Hours
    BY <1>4, EnrichmentAssumption DEF Tick, Hours, JobsBase, JobsTypeOK
  <2> QED
    BY <1>4, <2>1 DEF Tick, JobsBase, JobsTypeOK, RowsExist
<1> QED
  BY <1>1, <1>2, <1>3, <1>4, BaseEnqueueSources, BaseEnqueueBrowser, BaseWorker DEF JobsNext

LEMMA BaseInit == JobsInit => JobsBase
<1> SUFFICES ASSUME JobsInit
             PROVE  JobsBase
  OBVIOUS
<1>1. MaxRows \in Nat /\ MaxHour \in Nat /\ MaxFetches \in Nat
  BY EnrichmentAssumption
<1>2. jobs \in [Subjects -> Seq(Job)] /\ \A s \in Subjects : Len(jobs[s]) <= MaxRows
  BY <1>1 DEF JobsInit
<1>3. snapshots \in [Sources -> Snapshot]
  BY <1>1 DEF JobsInit, Snapshot, NoSnapshot, Fetches
<1>4. now \in Hours /\ fetches \in Fetches
  BY <1>1 DEF JobsInit, Hours, Fetches
<1> QED
  BY <1>2, <1>3, <1>4 DEF JobsInit, JobsBase, JobsTypeOK, RowsExist

\* The tables of jobs, results and workers keep their types in every step.
THEOREM JobsTypeCorrect == JobsSpec => []JobsTypeOK
<1>1. JobsBase => JobsTypeOK
  BY DEF JobsBase
<1> QED
  BY <1>1, BaseInit, BaseStep, PTL DEF JobsSpec

(***************************************************************************)
(* The cap on the attempts, row by row.  It holds whether or not calls are *)
(* repeated.                                                               *)
(***************************************************************************)
Capped(job) ==
  job.dedupeKey.priorAttempts < MaxBrowserAttempts =>
    /\ job.attempt <= job.maxAttempts
    /\ job.status = "queued" => job.attempt < job.maxAttempts

LEMMA CappedRows ==
  ASSUME NEW s \in Subjects, NEW job \in Job, Capped(job)
  PROVE  /\ job.status = "queued" => Capped(Claimed(job))
         /\ Capped(Succeeded(job))
         /\ HasRetryLeft(job) => Capped(Retried(job))
         /\ Capped(Failed(s, job))
         /\ Capped(Opened(job))
<1>1. /\ job.attempt \in Nat /\ job.maxAttempts \in Nat
      /\ job \in [dedupeKey : DedupeKey, attempt : Nat, maxAttempts : Nat,
        status : {"queued", "running", "succeeded", "failed", "escalated"},
        retryGate : BOOLEAN, completedAt : Hours \cup {-1}]
  BY DEF Job
<1>2. ASSUME job.status = "queued"
      PROVE  Capped(Claimed(job))
  BY <1>1, <1>2 DEF Capped, Claimed
<1>3. Capped(Succeeded(job)) /\ Capped(Opened(job))
  BY <1>1 DEF Capped, Succeeded, Opened
<1>4. ASSUME HasRetryLeft(job)
      PROVE  Capped(Retried(job))
  BY <1>1, <1>4 DEF Capped, Retried, HasRetryLeft
<1>5. Capped(Failed(s, job))
  <2>1. FinalStatus(s, job) # "queued"
    BY DEF FinalStatus
  <2> QED
    BY <1>1, <2>1 DEF Capped, Failed
<1> QED
  BY <1>2, <1>3, <1>4, <1>5

LEMMA CappedPut ==
  ASSUME JobsBase, AttemptsCapped, NEW s \in Subjects, NEW i \in DOMAIN jobs[s], NEW job \in Job,
         Put(s, i, job), Capped(job)
  PROVE  AttemptsCapped'
<1>1. \A t \in Subjects : \A k \in DOMAIN jobs[t] : Capped(jobs[t][k])
  BY DEF AttemptsCapped, Capped
<1>2. ASSUME NEW t \in Subjects, NEW k \in DOMAIN jobs'[t]
      PROVE  Capped(jobs'[t][k])
  <2>1. k \in DOMAIN jobs[t]
    BY TablesAfterPut
  <2>2. CASE <<t, k>> = <<s, i>>
    BY <2>2, TablesAfterPut
  <2>3. CASE <<t, k>> # <<s, i>>
    BY <1>1, <2>1, <2>3, TablesAfterPut
  <2> QED
    BY <2>2, <2>3
<1> QED
  BY <1>2 DEF AttemptsCapped, Capped

LEMMA CappedAdd ==
  ASSUME JobsBase, AttemptsCapped, NEW new \in SUBSET Subjects, NEW job \in Job,
         Add(new, job), Capped(job)
  PROVE  AttemptsCapped'
<1>1. \A t \in Subjects : \A k \in DOMAIN jobs[t] : Capped(jobs[t][k])
  BY DEF AttemptsCapped, Capped
<1>2. jobs \in Jobs
  BY DEF JobsBase, JobsTypeOK, Jobs
<1>3. ASSUME NEW t \in Subjects, NEW k \in DOMAIN jobs'[t]
      PROVE  Capped(jobs'[t][k])
  <2>1. CASE k \in DOMAIN jobs[t]
    BY <1>1, <1>2, <2>1, RowsAdded
  <2>2. CASE k \notin DOMAIN jobs[t]
    <3>1. \A u \in Subjects : \A j \in DOMAIN jobs'[u] \ DOMAIN jobs[u] :
            u \in new /\ j = Len(jobs[u]) + 1 /\ jobs'[u][j] = job
      BY <1>2, RowsAdded
    <3>2. jobs'[t][k] = job
      BY <1>3, <2>2, <3>1
    <3> QED
      BY <3>2
  <2> QED
    BY <2>1, <2>2
<1> QED
  BY <1>3 DEF AttemptsCapped, Capped

LEMMA CappedStep == JobsBase /\ AttemptsCapped /\ [JobsNext]_jobVars => AttemptsCapped'
<1> SUFFICES ASSUME JobsBase, AttemptsCapped, [JobsNext]_jobVars
             PROVE  AttemptsCapped'
  OBVIOUS
<1>0. ASSUME UNCHANGED jobs
      PROVE  AttemptsCapped'
  BY <1>0 DEF AttemptsCapped
<1>a. ASSUME NEW s \in Subjects, NEW i \in DOMAIN jobs[s]
      PROVE  Capped(jobs[s][i]) /\ jobs[s][i] \in Job /\ now \in Hours
  BY <1>a, JobAt DEF AttemptsCapped, Capped, JobsBase, JobsTypeOK
<1>b. ASSUME NEW call \in WorkerCall, call.row \in DOMAIN jobs[call.subject], Handle(call)
      PROVE  AttemptsCapped'
  <2> DEFINE s == call.subject
             i == call.row
             job == jobs[s][i]
  <2>1. s \in Subjects /\ i \in DOMAIN jobs[s] /\ Capped(job) /\ job \in Job /\ now \in Hours
    BY <1>a, <1>b DEF WorkerCall
  <2>2. \/ Put(s, i, Succeeded(job))
        \/ HasRetryLeft(job) /\ Put(s, i, Retried(job))
        \/ Put(s, i, Failed(s, job))
    BY <1>b, HandleStep
  <2>3. /\ Succeeded(job) \in Job /\ Retried(job) \in Job /\ Failed(s, job) \in Job
        /\ Capped(Succeeded(job)) /\ Capped(Failed(s, job))
        /\ HasRetryLeft(job) => Capped(Retried(job))
    BY <2>1, RowTypes, CappedRows
  <2> QED
    BY <2>1, <2>2, <2>3, CappedPut
<1>1. CASE UNCHANGED jobVars
  BY <1>0, <1>1 DEF jobVars
<1>2. ASSUME NEW force \in BOOLEAN, EnqueueAllSources(force)
      PROVE  AttemptsCapped'
  <2>1. PICK new \in SUBSET Sources : \E key \in DedupeKey :
             key.priorAttempts = 0 /\ Add(new, NewJob(key, MaxAttempts))
    BY <1>2, EnqueueSourcesStep
  <2>2. PICK key \in DedupeKey : Add(new, NewJob(key, MaxAttempts))
    BY <2>1
  <2>3. NewJob(key, MaxAttempts) \in Job /\ new \in SUBSET Subjects
    BY NewRows DEF Subjects
  <2>4. MaxAttempts \in Nat /\ MaxAttempts > 0
    BY EnrichmentAssumption
  <2>5. Capped(NewJob(key, MaxAttempts))
    BY <2>4 DEF Capped, NewJob
  <2> QED
    BY <2>2, <2>3, <2>5, CappedAdd
<1>3. ASSUME NEW url \in Urls, NEW trigger \in Triggers, EnqueueBrowserUseHosted(url, trigger)
      PROVE  AttemptsCapped'
  <2>1. PICK key \in DedupeKey : \E job \in Job :
           /\ key.priorAttempts = Len(jobs[url])
           /\ Add({url}, job)
           /\ IF Len(jobs[url]) >= MaxBrowserAttempts
                THEN job = [NewJob(key, MaxBrowserAttempts) EXCEPT
                              !.status = "escalated", !.attempt = Len(jobs[url]),
                              !.completedAt = now]
                ELSE job = NewJob(key, MaxBrowserAttempts)
    BY <1>3, EnqueueBrowserStep
  <2>2. PICK job \in Job :
           /\ key.priorAttempts = Len(jobs[url])
           /\ Add({url}, job)
           /\ IF Len(jobs[url]) >= MaxBrowserAttempts
                THEN job = [NewJob(key, MaxBrowserAttempts) EXCEPT
                              !.status = "escalated", !.attempt = Len(jobs[url]),
                              !.completedAt = now]
                ELSE job = NewJob(key, MaxBrowserAttempts)
    BY <2>1
  <2>3. MaxBrowserAttempts \in Nat /\ MaxBrowserAttempts > 0 /\ {url} \in SUBSET Subjects
        /\ Len(jobs[url]) \in Nat
    BY EnrichmentAssumption DEF Subjects, JobsBase, JobsTypeOK
  <2>4. Capped(job)
    <3>1. CASE Len(jobs[url]) >= MaxBrowserAttempts
      <4>1. job.dedupeKey = key
        BY <2>2, <3>1 DEF NewJob
      <4> QED
        BY <2>2, <2>3, <3>1, <4>1 DEF Capped
    <3>2. CASE ~(Len(jobs[url]) >= MaxBrowserAttempts)
      <4>1. job = NewJob(key, MaxBrowserAttempts)
        BY <2>2, <3>2
      <4> QED
        BY <2>3, <4>1 DEF Capped, NewJob
    <3> QED
      BY <3>1, <3>2
  <2> QED
    BY <2>2, <2>3, <2>4, CappedAdd
<1>4. ASSUME NEW w \in Workers, MarkRunning(w)
      PROVE  AttemptsCapped'
  <2> DEFINE s == workers[w].subject
             i == workers[w].row
  <2>1. s \in Subjects /\ i \in DOMAIN jobs[s]
    BY <1>4, ClaimStep, WorkerAt
  <2>2. Capped(jobs[s][i]) /\ jobs[s][i] \in Job /\ now \in Hours
    BY <1>a, <2>1
  <2>3. CASE jobs[s][i].status = "queued" /\ Put(s, i, Claimed(jobs[s][i]))
    BY <2>1, <2>2, <2>3, RowTypes, CappedRows, CappedPut
  <2>4. CASE UNCHANGED jobs
    BY <1>0, <2>4
  <2> QED
    BY <1>4, <2>3, <2>4, ClaimStep
<1>5. ASSUME NEW w \in Workers, NEW op \in {"persist", "retry", "fail"}, Report(w, op)
      PROVE  AttemptsCapped'
  <2>1. PICK call \in WorkerCall :
          call.subject = workers[w].subject /\ call.row = workers[w].row /\ Handle(call)
    BY <1>5, ReportStep
  <2>2. call.row \in DOMAIN jobs[call.subject]
    BY <1>5, <2>1, ReportStep, WorkerAt
  <2> QED
    BY <1>b, <2>1, <2>2
<1>6. ASSUME NEW call \in unanswered, RepeatCall(call)
      PROVE  AttemptsCapped'
  <2>1. call \in WorkerCall /\ call.row \in DOMAIN jobs[call.subject]
    BY DEF JobsBase, JobsTypeOK, RowsExist
  <2> QED
    BY <1>b, <1>6, <2>1 DEF RepeatCall
<1>7. ASSUME NEW s \in Subjects, NEW i \in DOMAIN jobs[s], OpenRetryGate(s, i)
      PROVE  AttemptsCapped'
  <2>1. Put(s, i, Opened(jobs[s][i]))
    BY <1>7, GateStep
  <2>2. Capped(jobs[s][i]) /\ jobs[s][i] \in Job /\ now \in Hours
    BY <1>a
  <2>3. Opened(jobs[s][i]) \in Job /\ Capped(Opened(jobs[s][i]))
    BY <2>2, RowTypes, CappedRows
  <2> QED
    BY <2>1, <2>3, CappedPut
<1>8. ASSUME NEW w \in Workers, Pick(w) \/ Fetch(w) \/ WorkerDies(w)
      PROVE  AttemptsCapped'
  BY <1>0, <1>8 DEF Pick, PickPending, Fetch, WorkerDies
<1>9. CASE Tick
  BY <1>0, <1>9 DEF Tick
<1> QED
  BY <1>1, <1>2, <1>3, <1>4, <1>5, <1>6, <1>7, <1>8, <1>9 DEF JobsNext, Work

(***************************************************************************)
(* No job makes more attempts than it may, for any number of sources,      *)
(* workers and rows, also when reports are repeated.                       *)
(***************************************************************************)
THEOREM AttemptsAreCapped == JobsSpec => []AttemptsCapped
<1>1. JobsInit => AttemptsCapped
  BY DEF JobsInit, AttemptsCapped
<1> QED
  BY <1>1, BaseInit, BaseStep, CappedStep, PTL DEF JobsSpec

-----------------------------------------------------------------------------
(***************************************************************************)
(* Where every call of a worker is answered, the claims are exclusive and  *)
(* a source has one job in flight.  The inductive invariant adds that only *)
(* a queued row waits for the delay of a retry, and that what a worker has *)
(* fetched is at least as new as what is stored for its source.            *)
(***************************************************************************)
GatesQueued ==
  \A s \in Subjects : \A i \in DOMAIN jobs[s] :
    jobs[s][i].retryGate => jobs[s][i].status = "queued"

ResultsNewer ==
  /\ \A s \in Sources : snapshots[s].payload <= fetches
  /\ \A w \in Workers : workers[w].pc = "fetched" =>
       /\ workers[w].payload <= fetches
       /\ workers[w].subject \in Sources =>
            snapshots[workers[w].subject].payload <= workers[w].payload

JobsIInv ==
  /\ JobsBase
  /\ unanswered = {}
  /\ OneInFlight
  /\ ClaimsExclusive
  /\ GatesQueued
  /\ ResultsNewer

Active(w) == workers[w].pc \in {"running", "fetched"}

LEMMA ActiveWorker ==
  ASSUME JobsBase, ClaimsExclusive, NEW w \in Workers, Active(w)
  PROVE  /\ workers[w] # IdleWorker /\ workers[w] \in Worker
         /\ workers[w].subject \in Subjects
         /\ workers[w].row \in DOMAIN jobs[workers[w].subject]
         /\ jobs[workers[w].subject][workers[w].row].status = "running"
         /\ \A v \in Workers : Active(v) /\ v # w =>
              <<workers[v].subject, workers[v].row>> # <<workers[w].subject, workers[w].row>>
<1>1. workers[w] # IdleWorker
  <2>1. IdleWorker.pc = "idle"
    BY DEF IdleWorker
  <2> QED
    BY <2>1 DEF Active
<1> QED
  BY <1>1, WorkerAt DEF ClaimsExclusive, Active

(***************************************************************************)
(* What changing one row, adding rows and moving one worker do to the      *)
(* parts of the invariant.                                                 *)
(***************************************************************************)
LEMMA PutKeeps ==
  ASSUME JobsBase, OneInFlight, GatesQueued,
         NEW s \in Subjects, NEW i \in DOMAIN jobs[s], NEW job \in Job,
         Put(s, i, job), InFlight(job) => InFlight(jobs[s][i]),
         job.retryGate => job.status = "queued"
  PROVE  OneInFlight' /\ GatesQueued'
<1>1. ASSUME NEW t \in Subjects, NEW k \in DOMAIN jobs'[t]
      PROVE  /\ k \in DOMAIN jobs[t]
             /\ InFlight(jobs'[t][k]) => InFlight(jobs[t][k])
             /\ jobs'[t][k].retryGate => jobs'[t][k].status = "queued"
  <2>1. k \in DOMAIN jobs[t]
    BY TablesAfterPut
  <2>2. CASE <<t, k>> = <<s, i>>
    BY <2>1, <2>2, TablesAfterPut
  <2>3. CASE <<t, k>> # <<s, i>>
    <3>1. jobs'[t][k] = jobs[t][k]
      BY <2>1, <2>3, TablesAfterPut
    <3> QED
      BY <2>1, <3>1 DEF GatesQueued
  <2> QED
    BY <2>2, <2>3
<1>2. OneInFlight'
  BY <1>1 DEF OneInFlight, Subjects, InFlight
<1>3. GatesQueued'
  BY <1>1 DEF GatesQueued
<1> QED
  BY <1>2, <1>3

LEMMA ClaimsNarrow ==
  ASSUME JobsBase, ClaimsExclusive,
         \A v \in Workers : Active(v)' =>
           /\ Active(v)
           /\ workers'[v].subject = workers[v].subject /\ workers'[v].row = workers[v].row
           /\ jobs'[workers[v].subject][workers[v].row].status = "running"
  PROVE  ClaimsExclusive'
BY DEF ClaimsExclusive, Active

\* Another row changes: the active workers keep theirs.
LEMMA OthersRunning ==
  ASSUME JobsBase, ClaimsExclusive, NEW s \in Subjects, NEW i \in DOMAIN jobs[s],
         NEW job \in Job, Put(s, i, job),
         NEW v \in Workers, Active(v), <<workers[v].subject, workers[v].row>> # <<s, i>>
  PROVE  jobs'[workers[v].subject][workers[v].row].status = "running"
<1>1. /\ workers[v].subject \in Subjects
      /\ workers[v].row \in DOMAIN jobs[workers[v].subject]
      /\ jobs[workers[v].subject][workers[v].row].status = "running"
  BY ActiveWorker
<1>2. jobs'[workers[v].subject][workers[v].row] = jobs[workers[v].subject][workers[v].row]
  BY <1>1, TablesAfterPut
<1> QED
  BY <1>1, <1>2

LEMMA AddKeeps ==
  ASSUME JobsBase, OneInFlight, GatesQueued, ClaimsExclusive,
         NEW new \in SUBSET Subjects, NEW job \in Job, Add(new, job),
         \A s \in new \cap Sources : ~SourceInFlight(s), ~job.retryGate,
         UNCHANGED workers
  PROVE  OneInFlight' /\ GatesQueued' /\ ClaimsExclusive'
<1>0. jobs \in Jobs
  BY DEF JobsBase, JobsTypeOK, Jobs
<1>1. /\ \A t \in Subjects : \A k \in DOMAIN jobs[t] :
           k \in DOMAIN jobs'[t] /\ jobs'[t][k] = jobs[t][k]
      /\ \A t \in Subjects : \A k \in DOMAIN jobs'[t] \ DOMAIN jobs[t] :
           t \in new /\ k = Len(jobs[t]) + 1 /\ jobs'[t][k] = job
  BY <1>0, RowsAdded
<1>2. OneInFlight'
  <2> SUFFICES ASSUME NEW s \in Sources, NEW i \in DOMAIN jobs'[s], NEW k \in DOMAIN jobs'[s],
                      InFlight(jobs'[s][i]), InFlight(jobs'[s][k])
               PROVE  i = k
    BY DEF OneInFlight, InFlight
  <2>0. s \in Subjects
    BY DEF Subjects
  <2>1. CASE s \in new
    <3>1. \A j \in DOMAIN jobs[s] : ~InFlight(jobs[s][j])
      BY <2>1 DEF SourceInFlight
    <3> QED
      BY <1>1, <2>0, <3>1
  <2>2. CASE s \notin new
    BY <1>1, <2>0, <2>2 DEF OneInFlight
  <2> QED
    BY <2>1, <2>2
<1>3. GatesQueued'
  BY <1>1 DEF GatesQueued
<1>4. ClaimsExclusive'
  <2>1. ASSUME NEW v \in Workers, Active(v)'
        PROVE  /\ Active(v)
               /\ workers'[v].subject = workers[v].subject /\ workers'[v].row = workers[v].row
               /\ jobs'[workers[v].subject][workers[v].row].status = "running"
    <3>1. Active(v)
      BY <2>1 DEF Active
    <3>2. /\ workers[v].subject \in Subjects
          /\ workers[v].row \in DOMAIN jobs[workers[v].subject]
          /\ jobs[workers[v].subject][workers[v].row].status = "running"
      BY <3>1, ActiveWorker
    <3> QED
      BY <1>1, <3>1, <3>2
  <2> QED
    BY <2>1, ClaimsNarrow
<1> QED
  BY <1>2, <1>3, <1>4

LEMMA ResultsStay ==
  ASSUME ResultsNewer, UNCHANGED <<snapshots, fetches>>,
         \A v \in Workers : workers'[v].pc = "fetched" =>
           /\ workers[v].pc = "fetched" /\ workers'[v].payload = workers[v].payload
           /\ workers'[v].subject = workers[v].subject
  PROVE  ResultsNewer'
BY DEF ResultsNewer

\* A worker claims its job or finds it taken.
LEMMA ClaimKeeps ==
  ASSUME JobsIInv, NEW w \in Workers, MarkRunning(w)
  PROVE  OneInFlight' /\ ClaimsExclusive' /\ GatesQueued' /\ ResultsNewer'
<1> USE DEF JobsIInv
<1> DEFINE s == workers[w].subject
           i == workers[w].row
<1>1. /\ workers[w] \in Worker /\ s \in Subjects /\ i \in DOMAIN jobs[s] /\ jobs[s][i] \in Job
      /\ now \in Hours /\ workers[w].pc = "picked"
      /\ workers \in [Workers -> Worker \cup {IdleWorker}]
  BY ClaimStep, WorkerAt, JobAt DEF JobsBase, JobsTypeOK, MarkRunning
<1>2. UNCHANGED <<snapshots, fetches>>
  BY DEF MarkRunning
<1>3. \A v \in Workers \ {w} : workers'[v] = workers[v]
  BY <1>1, ClaimStep
<1>4. workers'[w].pc # "fetched"
  <2>1. CASE workers' = [workers EXCEPT ![w].pc = "running"]
    BY <1>1, <2>1
  <2>2. CASE workers' = [workers EXCEPT ![w] = IdleWorker]
    BY <1>1, <2>2 DEF IdleWorker
  <2> QED
    BY <2>1, <2>2, ClaimStep
<1>5. ResultsNewer'
  BY <1>2, <1>3, <1>4, ResultsStay
<1>6. CASE /\ jobs[s][i].status = "queued" /\ Put(s, i, Claimed(jobs[s][i]))
           /\ workers' = [workers EXCEPT ![w].pc = "running"]
  <2>1. Claimed(jobs[s][i]) \in Job /\ Claimed(jobs[s][i]).status = "running"
        /\ ~Claimed(jobs[s][i]).retryGate
    <3>1. Claimed(jobs[s][i]) \in Job
      BY <1>1, RowTypes
    <3> QED
      BY <1>1, <3>1 DEF Claimed, Job
  <2>2. InFlight(jobs[s][i])
    BY <1>6 DEF InFlight
  <2>3. OneInFlight' /\ GatesQueued'
    BY <1>1, <1>6, <2>1, <2>2, PutKeeps
  <2>4. /\ workers'[w].subject = s /\ workers'[w].row = i
        /\ jobs'[s][i] = Claimed(jobs[s][i])
    BY <1>1, <1>6, <2>1, TablesAfterPut
  <2>5. ASSUME NEW v \in Workers \ {w}, Active(v)
        PROVE  /\ <<workers[v].subject, workers[v].row>> # <<s, i>>
               /\ jobs'[workers[v].subject][workers[v].row].status = "running"
    <3>1. <<workers[v].subject, workers[v].row>> # <<s, i>>
      BY <1>6, <2>5, ActiveWorker
    <3> QED
      BY <1>1, <1>6, <2>1, <2>5, <3>1, OthersRunning
  <2>6. \A v \in Workers \ {w} : Active(v)' => Active(v)
    BY <1>3 DEF Active
  <2>7. ClaimsExclusive'
    BY <1>3, <2>1, <2>4, <2>5, <2>6 DEF ClaimsExclusive, Active
  <2> QED
    BY <1>5, <2>3, <2>7
<1>7. CASE UNCHANGED jobs /\ workers' = [workers EXCEPT ![w] = IdleWorker]
  <2>1. OneInFlight' /\ GatesQueued'
    BY <1>7 DEF OneInFlight, GatesQueued
  <2>2. ~Active(w)'
    BY <1>1, <1>7 DEF Active, IdleWorker
  <2>3. ClaimsExclusive'
    BY <1>3, <1>7, <2>2 DEF ClaimsExclusive, Active
  <2> QED
    BY <1>5, <2>1, <2>3
<1> QED
  BY <1>6, <1>7, ClaimStep

LEMMA FetchKeeps ==
  ASSUME JobsIInv, NEW w \in Workers, Fetch(w)
  PROVE  OneInFlight' /\ ClaimsExclusive' /\ GatesQueued' /\ ResultsNewer'
<1> USE DEF JobsIInv
<1> DEFINE x == [workers[w] EXCEPT !.pc = "fetched", !.payload = fetches + 1]
<1>1. /\ workers[w] \in Worker /\ workers[w].pc = "running"
      /\ workers \in [Workers -> Worker \cup {IdleWorker}]
      /\ fetches \in Nat /\ fetches + 1 \in Fetches /\ fetches' = fetches + 1
      /\ workers' = [workers EXCEPT ![w] = x]
      /\ UNCHANGED <<jobs, snapshots>>
      /\ \A s \in Sources : snapshots[s].payload \in Nat
  <2>1. /\ workers \in [Workers -> Worker \cup {IdleWorker}] /\ fetches \in Nat
        /\ \A s \in Sources : snapshots[s].payload \in Nat
    BY DEF JobsBase, JobsTypeOK, Fetches, Snapshot
  <2>2. workers[w] \in Worker
    BY FetchStep, WorkerAt
  <2> QED
    BY <2>1, <2>2, FetchStep
<1>2. \A v \in Workers \ {w} : workers'[v] = workers[v]
  BY <1>1
<1>3. /\ workers'[w].subject = workers[w].subject /\ workers'[w].row = workers[w].row
      /\ workers'[w].pc = "fetched" /\ workers'[w].payload = fetches + 1
  <2>1. /\ x.subject = workers[w].subject /\ x.row = workers[w].row
        /\ x.pc = "fetched" /\ x.payload = fetches + 1
    BY <1>1 DEF Worker
  <2>2. workers'[w] = x
    BY <1>1
  <2> HIDE DEF x
  <2> QED
    BY <2>1, <2>2
<1>4. OneInFlight' /\ GatesQueued'
  BY <1>1 DEF OneInFlight, GatesQueued
<1>5. ClaimsExclusive'
  BY <1>1, <1>2, <1>3 DEF ClaimsExclusive
<1>6. ResultsNewer'
  <2>1. \A s \in Sources : snapshots'[s].payload <= fetches'
    BY <1>1 DEF ResultsNewer
  <2>2. ASSUME NEW v \in Workers, workers'[v].pc = "fetched"
        PROVE  /\ workers'[v].payload <= fetches'
               /\ workers'[v].subject \in Sources =>
                    snapshots'[workers'[v].subject].payload <= workers'[v].payload
    <3>1. CASE v = w
      BY <1>1, <1>3, <2>1, <3>1
    <3>2. CASE v # w
      <4>1. workers[v].pc = "fetched" /\ workers'[v] = workers[v]
        BY <1>2, <2>2, <3>2
      <4>2. workers[v].payload \in Nat
        <5>1. workers[v] # IdleWorker
          BY <4>1 DEF IdleWorker
        <5> QED
          BY <5>1, WorkerAt DEF Fetches
      <4> QED
        BY <1>1, <4>1, <4>2 DEF ResultsNewer
    <3> QED
      BY <3>1, <3>2
  <2> QED
    BY <2>1, <2>2 DEF ResultsNewer
<1> QED
  BY <1>4, <1>5, <1>6

\* A worker reports: its job is running, and no other worker has it.
LEMMA ReportKeeps ==
  ASSUME JobsIInv, NEW w \in Workers, NEW op \in {"persist", "retry", "fail"}, Report(w, op)
  PROVE  /\ OneInFlight' /\ ClaimsExclusive' /\ GatesQueued' /\ ResultsNewer'
         /\ \A s \in Sources : snapshots'[s].payload >= snapshots[s].payload
<1> USE DEF JobsIInv
<1> DEFINE s == workers[w].subject
           i == workers[w].row
           job == jobs[s][i]
<1>1. Active(w) /\ workers[w] # IdleWorker /\ (op = "persist" => workers[w].pc = "fetched")
  BY ReportStep DEF Active
<1>2. /\ workers[w] \in Worker /\ s \in Subjects /\ i \in DOMAIN jobs[s] /\ job \in Job
      /\ now \in Hours /\ job.status = "running"
      /\ workers \in [Workers -> Worker \cup {IdleWorker}]
      /\ workers' = [workers EXCEPT ![w] = IdleWorker]
      /\ UNCHANGED fetches
  BY <1>1, ReportStep, ActiveWorker, JobAt DEF JobsBase, JobsTypeOK
<1>3. PICK call \in WorkerCall :
        /\ call.op = op /\ call.subject = s /\ call.row = i
        /\ call.payload = workers[w].payload /\ Handle(call)
  BY ReportStep
<1>4. \/ /\ op = "persist" /\ Put(s, i, Succeeded(job))
         /\ \/ /\ s \in Sources
               /\ snapshots' = [snapshots EXCEPT ![s] = [payload |-> workers[w].payload,
                                                         lastRefreshedAt |-> now]]
            \/ UNCHANGED snapshots
      \/ /\ UNCHANGED snapshots
         /\ Put(s, i, Retried(job)) \/ Put(s, i, Failed(s, job))
  BY <1>2, <1>3, HandleStep
<1>5. PICK new \in Job : Put(s, i, new) /\ (new.retryGate => new.status = "queued")
  <2>1. /\ Succeeded(job) \in Job /\ Retried(job) \in Job /\ Failed(s, job) \in Job
    BY <1>2, RowTypes
  <2>2. /\ ~Succeeded(job).retryGate /\ Retried(job).status = "queued"
        /\ ~Failed(s, job).retryGate
    BY <1>2 DEF Succeeded, Retried, Failed, Job
  <2> QED
    BY <1>4, <2>1, <2>2
<1>20. JobsBase /\ OneInFlight /\ GatesQueued /\ ClaimsExclusive /\ InFlight(job)
  BY <1>2 DEF InFlight
<1>6. OneInFlight' /\ GatesQueued'
  <2>1. InFlight(new) => InFlight(jobs[s][i])
    BY <1>20
  <2> HIDE DEF s, i, job, JobsIInv
  <2> QED
    BY <1>2, <1>5, <1>20, <2>1, PutKeeps
<1>7. /\ \A v \in Workers \ {w} : workers'[v] = workers[v]
      /\ workers'[w].pc = "idle"
  BY <1>2 DEF IdleWorker
<1>8. ClaimsExclusive'
  <2>1. ASSUME NEW v \in Workers, Active(v)'
        PROVE  /\ Active(v)
               /\ workers'[v].subject = workers[v].subject /\ workers'[v].row = workers[v].row
               /\ jobs'[workers[v].subject][workers[v].row].status = "running"
    <3>1. v # w /\ workers'[v] = workers[v] /\ Active(v)
      BY <1>7, <2>1 DEF Active
    <3>2. <<workers[v].subject, workers[v].row>> # <<s, i>>
      BY <1>1, <3>1, ActiveWorker
    <3>3. jobs'[workers[v].subject][workers[v].row].status = "running"
      <4> HIDE DEF s, i, job, JobsIInv
      <4> QED
        BY <1>2, <1>5, <1>20, <3>1, <3>2, OthersRunning
    <3> QED
      BY <3>1, <3>3
  <2> QED
    BY <2>1, ClaimsNarrow
<1>9. /\ \A t \in Sources : snapshots[t].payload \in Nat
      /\ workers[w].payload \in Nat /\ fetches \in Nat
      /\ snapshots \in [Sources -> Snapshot]
  BY <1>2 DEF JobsBase, JobsTypeOK, Snapshot, Fetches, Worker
<1>10. CASE UNCHANGED snapshots
  <2>1. ResultsNewer'
    BY <1>2, <1>7, <1>10, ResultsStay
  <2> QED
    BY <1>6, <1>8, <1>9, <1>10, <2>1
<1>11. CASE /\ op = "persist" /\ s \in Sources
            /\ snapshots' = [snapshots EXCEPT ![s] = [payload |-> workers[w].payload,
                                                      lastRefreshedAt |-> now]]
  <2>1. /\ workers[w].payload <= fetches /\ snapshots[s].payload <= workers[w].payload
    BY <1>1, <1>11 DEF ResultsNewer
  <2>2. /\ snapshots'[s].payload = workers[w].payload
        /\ \A t \in Sources \ {s} : snapshots'[t] = snapshots[t]
    BY <1>9, <1>11
  <2>3. \A t \in Sources : snapshots'[t].payload <= fetches'
    BY <1>2, <2>1, <2>2 DEF ResultsNewer
  <2>4. ASSUME NEW v \in Workers, workers'[v].pc = "fetched"
        PROVE  /\ workers'[v].payload <= fetches'
               /\ workers'[v].subject \in Sources =>
                    snapshots'[workers'[v].subject].payload <= workers'[v].payload
    <3>1. v # w /\ workers'[v] = workers[v] /\ Active(v) /\ workers[v].pc = "fetched"
      BY <1>7, <2>4 DEF Active
    <3>2. workers[v].subject # s
      <4> SUFFICES ASSUME workers[v].subject = s
                   PROVE  FALSE
        OBVIOUS
      <4>1. /\ workers[v].row \in DOMAIN jobs[s] /\ jobs[s][workers[v].row].status = "running"
            /\ workers[v].row # i
        BY <1>1, <3>1, ActiveWorker
      <4> QED
        BY <1>2, <1>11, <4>1 DEF OneInFlight, InFlight
    <3> QED
      BY <1>2, <2>2, <3>1, <3>2 DEF ResultsNewer
  <2>5. ResultsNewer'
    BY <2>3, <2>4 DEF ResultsNewer
  <2>6. \A t \in Sources : snapshots'[t].payload >= snapshots[t].payload
    BY <1>9, <2>1, <2>2
  <2> QED
    BY <1>6, <1>8, <2>5, <2>6
<1> QED
  BY <1>4, <1>10, <1>11

LEMMA WorkerLeavesKeeps ==
  ASSUME JobsIInv, NEW w \in Workers, Pick(w) \/ WorkerDies(w)
  PROVE  OneInFlight' /\ ClaimsExclusive' /\ GatesQueued' /\ ResultsNewer'
<1> USE DEF JobsIInv
<1>1. PICK x \in Worker \cup {IdleWorker} :
        /\ x.pc \in {"idle", "picked"} /\ workers' = [workers EXCEPT ![w] = x]
        /\ UNCHANGED <<jobs, snapshots, fetches>>
  <2>1. CASE Pick(w)
    <3>1. PICK s \in Subjects : \E i \in DOMAIN jobs[s] : PickPending(w, s, i)
      BY <2>1 DEF Pick
    <3>2. PICK i \in DOMAIN jobs[s] : PickPending(w, s, i)
      BY <3>1
    <3> QED
      BY <3>2, PickStep
  <2>2. CASE WorkerDies(w)
    BY <2>2 DEF WorkerDies, IdleWorker
  <2> QED
    BY <2>1, <2>2
<1>2. workers \in [Workers -> Worker \cup {IdleWorker}]
  BY DEF JobsBase, JobsTypeOK
<1>3. /\ \A v \in Workers \ {w} : workers'[v] = workers[v]
      /\ workers'[w].pc \in {"idle", "picked"}
  BY <1>1, <1>2
<1>4. OneInFlight' /\ GatesQueued'
  BY <1>1 DEF OneInFlight, GatesQueued
<1>5. ResultsNewer'
  BY <1>1, <1>3, ResultsStay
<1>6. ClaimsExclusive'
  BY <1>1, <1>3 DEF ClaimsExclusive
<1> QED
  BY <1>4, <1>5, <1>6

LEMMA OpenGateKeeps ==
  ASSUME JobsIInv, NEW s \in Subjects, NEW i \in DOMAIN jobs[s], OpenRetryGate(s, i)
  PROVE  OneInFlight' /\ ClaimsExclusive' /\ GatesQueued' /\ ResultsNewer'
<1> DEFINE job == jobs[s][i]
<1>1. /\ JobsBase /\ OneInFlight /\ ClaimsExclusive /\ GatesQueued /\ ResultsNewer
      /\ UNCHANGED <<workers, snapshots, fetches>>
  BY DEF JobsIInv, OpenRetryGate
<1>2. job \in Job /\ job.retryGate /\ job.status = "queued" /\ now \in Hours /\ Put(s, i, Opened(job))
  BY <1>1, JobAt, GateStep DEF GatesQueued, JobsBase, JobsTypeOK
<1>3. Opened(job) \in Job /\ Opened(job).status = "queued" /\ ~Opened(job).retryGate
  <2>1. Opened(job) \in Job
    BY <1>2, RowTypes
  <2> QED
    BY <1>2, <2>1 DEF Opened, Job
<1>4. InFlight(job)
  BY <1>2 DEF InFlight
<1>5. OneInFlight' /\ GatesQueued'
  BY <1>1, <1>2, <1>3, <1>4, PutKeeps
<1>6. ClaimsExclusive'
  <2>1. ASSUME NEW v \in Workers, Active(v)'
        PROVE  /\ Active(v)
               /\ workers'[v].subject = workers[v].subject /\ workers'[v].row = workers[v].row
               /\ jobs'[workers[v].subject][workers[v].row].status = "running"
    <3>1. workers'[v] = workers[v] /\ Active(v)
      BY <1>1, <2>1 DEF Active
    <3>2. <<workers[v].subject, workers[v].row>> # <<s, i>>
      BY <1>1, <1>2, <3>1, ActiveWorker
    <3>3. jobs'[workers[v].subject][workers[v].row].status = "running"
      BY <1>1, <1>2, <1>3, <3>1, <3>2, OthersRunning
    <3> QED
      BY <3>1, <3>3
  <2> QED
    BY <1>1, <2>1, ClaimsNarrow
<1>7. ResultsNewer'
  BY <1>1, ResultsStay
<1> QED
  BY <1>5, <1>6, <1>7

LEMMA EnqueueKeeps ==
  ASSUME JobsIInv,
         \/ \E force \in BOOLEAN : EnqueueAllSources(force)
         \/ \E url \in Urls, trigger \in Triggers : EnqueueBrowserUseHosted(url, trigger)
  PROVE  OneInFlight' /\ ClaimsExclusive' /\ GatesQueued' /\ ResultsNewer'
<1>1. /\ JobsBase /\ OneInFlight /\ ClaimsExclusive /\ GatesQueued /\ ResultsNewer
      /\ UNCHANGED <<workers, snapshots, fetches>>
  BY DEF JobsIInv, EnqueueAllSources, EnqueueBrowserUseHosted
<1>2. ResultsNewer'
  BY <1>1, ResultsStay
<1>3. \E new \in SUBSET Subjects, job \in Job :
        /\ Add(new, job) /\ ~job.retryGate
        /\ \A s \in new \cap Sources : ~SourceInFlight(s)
  <2>1. CASE \E force \in BOOLEAN : EnqueueAllSources(force)
    <3>1. PICK new \in SUBSET Sources : \E key \in DedupeKey :
           /\ \A s \in new : ~SourceInFlight(s)
           /\ Add(new, NewJob(key, MaxAttempts))
      BY <1>1, <2>1, EnqueueSourcesStep
    <3>2. PICK key \in DedupeKey : Add(new, NewJob(key, MaxAttempts))
      BY <3>1
    <3>3. NewJob(key, MaxAttempts) \in Job /\ ~NewJob(key, MaxAttempts).retryGate
          /\ new \in SUBSET Subjects
      BY <1>1, NewRows DEF NewJob, Subjects
    <3> QED
      BY <3>1, <3>2, <3>3
  <2>2. CASE \E url \in Urls, trigger \in Triggers : EnqueueBrowserUseHosted(url, trigger)
    <3>1. PICK url \in Urls, trigger \in Triggers : EnqueueBrowserUseHosted(url, trigger)
      BY <2>2
    <3>2. PICK key \in DedupeKey : \E job \in Job :
           /\ Add({url}, job)
           /\ job \in {[NewJob(key, MaxBrowserAttempts) EXCEPT
                          !.status = "escalated", !.attempt = Len(jobs[url]),
                          !.completedAt = now], NewJob(key, MaxBrowserAttempts)}
      BY <1>1, <3>1, EnqueueBrowserStep
    <3>3. PICK job \in Job :
           /\ Add({url}, job)
           /\ job \in {[NewJob(key, MaxBrowserAttempts) EXCEPT
                          !.status = "escalated", !.attempt = Len(jobs[url]),
                          !.completedAt = now], NewJob(key, MaxBrowserAttempts)}
      BY <3>2
    <3>4. ~job.retryGate
      <4>1. CASE job = NewJob(key, MaxBrowserAttempts)
        BY <4>1 DEF NewJob
      <4>2. CASE job = [NewJob(key, MaxBrowserAttempts) EXCEPT
                          !.status = "escalated", !.attempt = Len(jobs[url]),
                          !.completedAt = now]
        BY <4>2 DEF NewJob
      <4> QED
        BY <3>3, <4>1, <4>2
    <3>5. {url} \in SUBSET Subjects /\ {url} \cap Sources = {}
      BY EnrichmentAssumption DEF Subjects
    <3> QED
      BY <3>3, <3>4, <3>5
  <2> QED
    BY <2>1, <2>2
<1>4. PICK new \in SUBSET Subjects, job \in Job :
        /\ Add(new, job) /\ ~job.retryGate
        /\ \A s \in new \cap Sources : ~SourceInFlight(s)
  BY <1>3
<1>5. OneInFlight' /\ GatesQueued' /\ ClaimsExclusive'
  BY <1>1, <1>4, AddKeeps
<1> QED
  BY <1>2, <1>5

LEMMA JobsIInvStep ==
  ASSUME ~RepeatedCalls, JobsIInv, [JobsNext]_jobVars
  PROVE  JobsIInv'
<1>0. JobsBase /\ OneInFlight /\ ClaimsExclusive /\ GatesQueued /\ ResultsNewer /\ unanswered = {}
  BY DEF JobsIInv
<1>1. JobsBase'
  BY <1>0, BaseStep
<1>2. unanswered' = {}
  <2>1. ASSUME NEW w \in Workers, NEW op \in {"persist", "retry", "fail"}, Report(w, op)
        PROVE  unanswered' = {}
    BY <1>0, <2>1 DEF Report
  <2>2. ASSUME NEW w \in Workers, Pick(w) \/ MarkRunning(w) \/ Fetch(w) \/ WorkerDies(w)
        PROVE  unanswered' = {}
    BY <1>0, <2>2 DEF Pick, PickPending, MarkRunning, Fetch, WorkerDies
  <2> QED
    BY <1>0, <2>1, <2>2 DEF JobsNext, Work, EnqueueAllSources, EnqueueBrowserUseHosted,
                            OpenRetryGate, Tick, jobVars
<1>3. OneInFlight' /\ ClaimsExclusive' /\ GatesQueued' /\ ResultsNewer'
  <2>1. CASE UNCHANGED jobVars
    BY <1>0, <2>1 DEF jobVars, OneInFlight, ClaimsExclusive, GatesQueued, ResultsNewer
  <2>2. CASE Tick
    BY <1>0, <2>2 DEF Tick, OneInFlight, ClaimsExclusive, GatesQueued, ResultsNewer
  <2>3. ASSUME NEW w \in Workers, Pick(w) \/ Work(w) \/ WorkerDies(w)
        PROVE  OneInFlight' /\ ClaimsExclusive' /\ GatesQueued' /\ ResultsNewer'
    BY <2>3, ClaimKeeps, FetchKeeps, ReportKeeps, WorkerLeavesKeeps DEF Work
  <2>4. ~\E call \in unanswered : RepeatCall(call)
    BY <1>0
  <2> QED
    BY <2>1, <2>2, <2>3, <2>4, EnqueueKeeps, OpenGateKeeps DEF JobsNext
<1> QED
  BY <1>1, <1>2, <1>3 DEF JobsIInv

LEMMA JobsIInvInit == JobsInit => JobsIInv
<1> SUFFICES ASSUME JobsInit
             PROVE  JobsIInv
  OBVIOUS
<1>1. JobsBase
  BY BaseInit
<1>2. OneInFlight /\ GatesQueued /\ ClaimsExclusive
  BY DEF JobsInit, OneInFlight, GatesQueued, ClaimsExclusive, IdleWorker, Subjects
<1>3. ResultsNewer
  BY DEF JobsInit, ResultsNewer, IdleWorker, NoSnapshot
<1> QED
  BY <1>1, <1>2, <1>3 DEF JobsIInv, JobsInit

LEMMA JobsInductive == ASSUME ~RepeatedCalls PROVE JobsSpec => []JobsIInv
<1>1. JobsInit => JobsIInv
  BY JobsIInvInit
<1>2. JobsIInv /\ [JobsNext]_jobVars => JobsIInv'
  BY JobsIInvStep
<1> QED
  BY <1>1, <1>2, PTL DEF JobsSpec

(***************************************************************************)
(* Where the calls of the workers are answered, a source is worked on once *)
(* at a time and by one worker, for any number of sources and workers.     *)
(***************************************************************************)
THEOREM JobsAreSound == ASSUME ~RepeatedCalls PROVE JobsSpec => []JobsSound
<1>1. JobsIInv => JobsSound
  BY DEF JobsIInv, JobsBase, JobsSound
<1> QED
  BY <1>1, JobsInductive, PTL

(***************************************************************************)
(* What a step may do to the results and to the escalated rows.            *)
(***************************************************************************)
ResultsKept == \A s \in Sources : snapshots'[s].payload >= snapshots[s].payload
EscalationsKept ==
  \A u \in Urls :
    /\ \A i \in DOMAIN jobs[u] :
         jobs[u][i].status = "escalated" => jobs'[u][i] = jobs[u][i]
    /\ Len(jobs[u]) >= MaxBrowserAttempts =>
         \A i \in DOMAIN jobs'[u] \ DOMAIN jobs[u] : jobs'[u][i].status = "escalated"

LEMMA PutEscalations ==
  ASSUME JobsBase, NEW s \in Subjects, NEW i \in DOMAIN jobs[s], NEW job \in Job,
         Put(s, i, job), jobs[s][i].status # "escalated"
  PROVE  EscalationsKept
<1>1. ASSUME NEW u \in Urls, NEW k \in DOMAIN jobs[u], jobs[u][k].status = "escalated"
      PROVE  jobs'[u][k] = jobs[u][k]
  <2>1. u \in Subjects /\ <<u, k>> # <<s, i>>
    BY <1>1 DEF Subjects
  <2> QED
    BY <2>1, TablesAfterPut
<1>2. ASSUME NEW u \in Urls
      PROVE  DOMAIN jobs'[u] = DOMAIN jobs[u]
  <2>1. u \in Subjects
    BY DEF Subjects
  <2> QED
    BY <2>1, TablesAfterPut
<1> QED
  BY <1>1, <1>2 DEF EscalationsKept

LEMMA AddEscalations ==
  ASSUME JobsBase, NEW new \in SUBSET Subjects, NEW job \in Job, Add(new, job),
         \A u \in new \cap Urls : Len(jobs[u]) >= MaxBrowserAttempts => job.status = "escalated"
  PROVE  EscalationsKept
<1>0. jobs \in Jobs
  BY DEF JobsBase, JobsTypeOK, Jobs
<1>1. /\ \A t \in Subjects : \A k \in DOMAIN jobs[t] :
           k \in DOMAIN jobs'[t] /\ jobs'[t][k] = jobs[t][k]
      /\ \A t \in Subjects : \A k \in DOMAIN jobs'[t] \ DOMAIN jobs[t] :
           t \in new /\ k = Len(jobs[t]) + 1 /\ jobs'[t][k] = job
  BY <1>0, RowsAdded
<1> QED
  BY <1>1 DEF EscalationsKept, Subjects

LEMMA OutcomesStep ==
  ASSUME ~RepeatedCalls, JobsIInv, JobsNext
  PROVE  ResultsKept /\ EscalationsKept
<1>0. JobsBase /\ OneInFlight /\ ClaimsExclusive /\ GatesQueued /\ unanswered = {}
  BY DEF JobsIInv
<1>a. ASSUME UNCHANGED snapshots
      PROVE  ResultsKept
  <2>1. \A s \in Sources : snapshots[s].payload \in Nat
    BY <1>0 DEF JobsBase, JobsTypeOK, Snapshot, Fetches
  <2> QED
    BY <1>a, <2>1 DEF ResultsKept
<1>b. ASSUME UNCHANGED jobs
      PROVE  EscalationsKept
  BY <1>b DEF EscalationsKept
<1>1. ASSUME NEW force \in BOOLEAN, EnqueueAllSources(force)
      PROVE  ResultsKept /\ EscalationsKept
  <2>1. PICK new \in SUBSET Sources : \E key \in DedupeKey : Add(new, NewJob(key, MaxAttempts))
    BY <1>0, <1>1, EnqueueSourcesStep
  <2>2. PICK key \in DedupeKey : Add(new, NewJob(key, MaxAttempts))
    BY <2>1
  <2>3. /\ NewJob(key, MaxAttempts) \in Job /\ new \in SUBSET Subjects
        /\ new \cap Urls = {}
    BY <1>0, NewRows, EnrichmentAssumption DEF Subjects
  <2>4. EscalationsKept
    BY <1>0, <2>2, <2>3, AddEscalations
  <2> QED
    BY <1>a, <1>1, <2>4 DEF EnqueueAllSources
<1>2. ASSUME NEW url \in Urls, NEW trigger \in Triggers, EnqueueBrowserUseHosted(url, trigger)
      PROVE  ResultsKept /\ EscalationsKept
  <2>1. PICK key \in DedupeKey : \E job \in Job :
           /\ Add({url}, job)
           /\ Len(jobs[url]) >= MaxBrowserAttempts =>
                job = [NewJob(key, MaxBrowserAttempts) EXCEPT
                         !.status = "escalated", !.attempt = Len(jobs[url]),
                         !.completedAt = now]
    BY <1>0, <1>2, EnqueueBrowserStep
  <2>2. PICK job \in Job :
           /\ Add({url}, job)
           /\ Len(jobs[url]) >= MaxBrowserAttempts =>
                job = [NewJob(key, MaxBrowserAttempts) EXCEPT
                         !.status = "escalated", !.attempt = Len(jobs[url]),
                         !.completedAt = now]
    BY <2>1
  <2>3. Len(jobs[url]) >= MaxBrowserAttempts => job.status = "escalated"
    BY <2>2 DEF NewJob
  <2>4. {url} \in SUBSET Subjects
    BY DEF Subjects
  <2>5. EscalationsKept
    BY <1>0, <2>2, <2>3, <2>4, AddEscalations
  <2> QED
    BY <1>a, <1>2, <2>5 DEF EnqueueBrowserUseHosted
<1>3. ASSUME NEW w \in Workers, Pick(w) \/ Fetch(w) \/ WorkerDies(w)
      PROVE  ResultsKept /\ EscalationsKept
  BY <1>a, <1>b, <1>3 DEF Pick, PickPending, Fetch, WorkerDies
<1>4. ASSUME NEW w \in Workers, MarkRunning(w)
      PROVE  ResultsKept /\ EscalationsKept
  <2> DEFINE s == workers[w].subject
             i == workers[w].row
  <2>1. s \in Subjects /\ i \in DOMAIN jobs[s]
    BY <1>0, <1>4, ClaimStep, WorkerAt
  <2>2. jobs[s][i] \in Job /\ now \in Hours
    BY <1>0, <2>1, JobAt DEF JobsBase, JobsTypeOK
  <2>3. CASE jobs[s][i].status = "queued" /\ Put(s, i, Claimed(jobs[s][i]))
    <3>1. Claimed(jobs[s][i]) \in Job
      BY <2>1, <2>2, RowTypes
    <3>2. jobs[s][i].status # "escalated"
      BY <2>3
    <3> QED
      BY <1>0, <1>a, <1>4, <2>1, <2>3, <3>1, <3>2, PutEscalations DEF MarkRunning
  <2>4. CASE UNCHANGED jobs
    BY <1>a, <1>b, <1>4, <2>4 DEF MarkRunning
  <2> QED
    BY <1>0, <1>4, <2>3, <2>4, ClaimStep
<1>5. ASSUME NEW w \in Workers, NEW op \in {"persist", "retry", "fail"}, Report(w, op)
      PROVE  ResultsKept /\ EscalationsKept
  <2> DEFINE s == workers[w].subject
             i == workers[w].row
             job == jobs[s][i]
  <2>1. Active(w)
    BY <1>0, <1>5, ReportStep DEF Active
  <2>2. /\ s \in Subjects /\ i \in DOMAIN jobs[s] /\ job \in Job /\ now \in Hours
        /\ job.status # "escalated"
    BY <1>0, <2>1, ActiveWorker, JobAt DEF JobsBase, JobsTypeOK
  <2>3. PICK call \in WorkerCall : call.subject = s /\ call.row = i /\ Handle(call)
    BY <1>0, <1>5, ReportStep
  <2>4. Put(s, i, Succeeded(job)) \/ Put(s, i, Retried(job)) \/ Put(s, i, Failed(s, job))
    BY <1>0, <2>2, <2>3, HandleStep
  <2>5. Succeeded(job) \in Job /\ Retried(job) \in Job /\ Failed(s, job) \in Job
    BY <2>2, RowTypes
  <2>6. EscalationsKept
    BY <1>0, <2>2, <2>4, <2>5, PutEscalations
  <2> QED
    BY <1>5, <2>6, ReportKeeps DEF ResultsKept
<1>6. ASSUME NEW s \in Subjects, NEW i \in DOMAIN jobs[s], OpenRetryGate(s, i)
      PROVE  ResultsKept /\ EscalationsKept
  <2>1. jobs[s][i] \in Job /\ jobs[s][i].retryGate /\ Put(s, i, Opened(jobs[s][i])) /\ now \in Hours
    BY <1>0, <1>6, JobAt, GateStep DEF JobsBase, JobsTypeOK
  <2>2. Opened(jobs[s][i]) \in Job /\ jobs[s][i].status # "escalated"
    BY <1>0, <2>1, RowTypes DEF GatesQueued
  <2>3. EscalationsKept
    BY <1>0, <2>1, <2>2, PutEscalations
  <2> QED
    BY <1>a, <1>6, <2>3 DEF OpenRetryGate
<1>7. CASE Tick
  BY <1>a, <1>b, <1>7 DEF Tick
<1>8. ~\E call \in unanswered : RepeatCall(call)
  BY <1>0
<1> QED
  BY <1>1, <1>2, <1>3, <1>4, <1>5, <1>6, <1>7, <1>8 DEF JobsNext, Work

(***************************************************************************)
(* No result is replaced by an older one, and what was escalated stays     *)
(* with the operator.                                                      *)
(***************************************************************************)
THEOREM OutcomesAreFinal == ASSUME ~RepeatedCalls PROVE JobsSpec => OutcomesFinal
<1>1. JobsIInv /\ [JobsNext]_jobVars => [ResultsKept]_jobVars /\ [EscalationsKept]_jobVars
  BY OutcomesStep
<1>2. [][ResultsKept]_jobVars => SnapshotsNeverRegress
  BY DEF ResultsKept, SnapshotsNeverRegress
<1>3. [][EscalationsKept]_jobVars => EscalationFinal
  BY DEF EscalationsKept, EscalationFinal
<1> QED
  BY <1>1, <1>2, <1>3, JobsInductive, PTL DEF JobsSpec, OutcomesFinal
-----------------------------------------------------------------------------
(***************************************************************************)
(* ListingAgents.                                                          *)
(***************************************************************************)
(***************************************************************************)
(* Every step keeps the shape of the row and of the history.               *)
(***************************************************************************)
LEMMA TypeStep == AgentTypeOK /\ [AgentNext]_agentVars => AgentTypeOK'
<1> SUFFICES ASSUME AgentTypeOK, [AgentNext]_agentVars
             PROVE  AgentTypeOK'
  OBVIOUS
<1>1. CASE UNCHANGED agentVars
  BY <1>1 DEF AgentTypeOK, agentVars
<1>2. ASSUME NEW observation \in Observation, UpsertListingAgent(observation)
      PROVE  AgentTypeOK'
  <2>1. /\ agent.values \in [Fields -> Values \cup {NoValue}]
        /\ agent.provenance \in [Fields -> Times \cup {Never}]
        /\ agent.lastRefreshedAt \in Times \cup {Never}
    BY DEF AgentTypeOK, Profile, NoProfile
  <2>2. /\ observation.values \in [Fields -> Values \cup {NoValue}]
        /\ observation.fetchedAt \in Times
    BY DEF Observation
  <2>3. LastRefreshedAt(observation) \in Times
    BY <2>1, <2>2, ListingAgentsAssumption DEF LastRefreshedAt, Times, Never
  <2>4. Provenance(observation) \in [Fields -> Times \cup {Never}]
    BY <2>1, <2>2 DEF Provenance
  <2>5. [f \in Fields |-> IF Applies(observation, f) THEN observation.values[f]
                                                    ELSE agent.values[f]]
          \in [Fields -> Values \cup {NoValue}]
    BY <2>1, <2>2
  <2>6. agent' \in Profile
    BY <1>2, <2>3, <2>4, <2>5 DEF UpsertListingAgent, Profile
  <2>7. observed' \subseteq Observation
    BY <1>2 DEF UpsertListingAgent, AgentTypeOK
  <2> QED
    BY <2>6, <2>7 DEF AgentTypeOK
<1> QED
  BY <1>1, <1>2 DEF AgentNext

\* The row and the history of a listing agent keep their types.
THEOREM AgentTypeCorrect == AgentSpec => []AgentTypeOK
<1>1. AgentInit => AgentTypeOK
  BY DEF AgentInit, AgentTypeOK
<1> QED
  BY <1>1, TypeStep, PTL DEF AgentSpec

(***************************************************************************)
(* What an observation does to one field: it brings value and provenance,  *)
(* or leaves both.                                                         *)
(***************************************************************************)
LEMMA FieldStep ==
  ASSUME AgentTypeOK, NEW observation \in Observation, UpsertListingAgent(observation),
         NEW f \in Fields
  PROVE  \/ /\ observation.values[f] # NoValue
            /\ agent.provenance[f] <= observation.fetchedAt
            /\ agent'.values[f] = observation.values[f]
            /\ agent'.provenance[f] = observation.fetchedAt
         \/ /\ agent'.values[f] = agent.values[f]
            /\ agent'.provenance[f] = agent.provenance[f]
<1>1. /\ agent'.values[f] = IF Applies(observation, f) THEN observation.values[f]
                                                       ELSE agent.values[f]
      /\ agent'.provenance[f] = IF Applies(observation, f) THEN observation.fetchedAt
                                                           ELSE agent.provenance[f]
  BY DEF UpsertListingAgent, Provenance
<1>2. CASE Applies(observation, f)
  BY <1>1, <1>2 DEF Applies
<1>3. CASE ~Applies(observation, f)
  BY <1>1, <1>3
<1> QED
  BY <1>2, <1>3

(***************************************************************************)
(* The provenance of a field names an observation that reported its value, *)
(* for every order and repetition of upsertListingAgent.                   *)
(***************************************************************************)
THEOREM ProvenanceCorrect == AgentSpec => []ProvenanceTrue
<1>1. AgentInit => ProvenanceTrue
  BY DEF AgentInit, ProvenanceTrue, NoProfile
<1>2. AgentTypeOK /\ ProvenanceTrue /\ [AgentNext]_agentVars => ProvenanceTrue'
  <2> SUFFICES ASSUME AgentTypeOK, ProvenanceTrue, [AgentNext]_agentVars, NEW f \in Fields
               PROVE  IF agent'.values[f] = NoValue
                        THEN agent'.provenance[f] = Never
                        ELSE \E o \in observed' : /\ o.fetchedAt = agent'.provenance[f]
                                                  /\ o.values[f] = agent'.values[f]
    BY DEF ProvenanceTrue, CameFrom
  <2>1. CASE UNCHANGED agentVars
    BY <2>1 DEF ProvenanceTrue, CameFrom, agentVars
  <2>2. ASSUME NEW observation \in Observation, UpsertListingAgent(observation)
        PROVE  IF agent'.values[f] = NoValue
                 THEN agent'.provenance[f] = Never
                 ELSE \E o \in observed' : /\ o.fetchedAt = agent'.provenance[f]
                                           /\ o.values[f] = agent'.values[f]
    <3>1. observed' = observed \cup {observation}
      BY <2>2 DEF UpsertListingAgent
    <3>2. CASE /\ observation.values[f] # NoValue
               /\ agent'.values[f] = observation.values[f]
               /\ agent'.provenance[f] = observation.fetchedAt
      BY <3>1, <3>2
    <3>3. CASE /\ agent'.values[f] = agent.values[f]
               /\ agent'.provenance[f] = agent.provenance[f]
      BY <3>1, <3>3 DEF ProvenanceTrue, CameFrom
    <3> QED
      BY <2>2, <3>2, <3>3, FieldStep
  <2> QED
    BY <2>1, <2>2 DEF AgentNext
<1> QED
  BY <1>1, <1>2, AgentTypeCorrect, PTL DEF AgentSpec

(***************************************************************************)
(* No field loses its value or goes back to an earlier provenance.         *)
(***************************************************************************)
THEOREM FieldsCorrect == AgentSpec => FieldsNeverRegress
<1> DEFINE Kept(f) == /\ agent.values[f] # NoValue => agent'.values[f] # NoValue
                      /\ agent'.provenance[f] >= agent.provenance[f]
<1>1. AgentTypeOK /\ [AgentNext]_agentVars => [\A f \in Fields : Kept(f)]_agentVars
  <2> SUFFICES ASSUME AgentTypeOK, NEW observation \in Observation,
                      UpsertListingAgent(observation), NEW f \in Fields
               PROVE  Kept(f)
    BY DEF AgentNext
  <2>1. agent.provenance[f] \in Nat /\ observation.fetchedAt \in Nat
    BY DEF AgentTypeOK, Profile, NoProfile, Observation, Times, Never
  <2> QED
    BY <2>1, FieldStep
<1> QED
  BY <1>1, AgentTypeCorrect, PTL DEF AgentSpec, FieldsNeverRegress

(***************************************************************************)
(* The freshness of the record is the newest time among the observations.  *)
(* The invariant also says that nothing has been observed while there is   *)
(* no row.                                                                 *)
(***************************************************************************)
FreshnessInv == FreshnessTrue /\ (agent = NoProfile => observed = {})

THEOREM FreshnessCorrect == AgentSpec => []FreshnessTrue
<1>1. AgentInit => FreshnessInv
  BY DEF AgentInit, FreshnessInv, FreshnessTrue
<1>2. AgentTypeOK /\ FreshnessInv /\ [AgentNext]_agentVars => FreshnessInv'
  <2> SUFFICES ASSUME AgentTypeOK, FreshnessInv, [AgentNext]_agentVars
               PROVE  FreshnessInv'
    OBVIOUS
  <2>1. CASE UNCHANGED agentVars
    BY <2>1 DEF FreshnessInv, FreshnessTrue, agentVars
  <2>2. ASSUME NEW observation \in Observation, UpsertListingAgent(observation)
        PROVE  FreshnessInv'
    <3>1. observed' = observed \cup {observation}
      BY <2>2 DEF UpsertListingAgent
    <3>2. /\ observation.fetchedAt \in Nat \ {0}
          /\ \A o \in observed : o.fetchedAt \in Nat \ {0}
          /\ agent.lastRefreshedAt \in Nat
      BY DEF AgentTypeOK, Profile, NoProfile, Observation, Times, Never
    <3>3. agent'.lastRefreshedAt = IF agent.lastRefreshedAt > observation.fetchedAt
                                     THEN agent.lastRefreshedAt
                                     ELSE observation.fetchedAt
      BY <2>2 DEF UpsertListingAgent, LastRefreshedAt
    <3>4. agent' # NoProfile
      BY <3>2, <3>3 DEF NoProfile, Never
    <3>5. CASE agent = NoProfile
      BY <3>1, <3>2, <3>3, <3>4, <3>5 DEF FreshnessInv, FreshnessTrue, NoProfile, Never
    <3>6. CASE agent # NoProfile
      BY <3>1, <3>2, <3>3, <3>4, <3>6 DEF FreshnessInv, FreshnessTrue
    <3> QED
      BY <3>5, <3>6
  <2> QED
    BY <2>1, <2>2 DEF AgentNext
<1>3. FreshnessInv => FreshnessTrue
  BY DEF FreshnessInv
<1> QED
  BY <1>1, <1>2, <1>3, AgentTypeCorrect, PTL DEF AgentSpec

\* All that the record says of itself, for every order of observations.
THEOREM RecordCorrect == AgentSpec => []RecordTrue
<1>1. AgentTypeOK /\ ProvenanceTrue /\ FreshnessTrue => RecordTrue
  BY DEF RecordTrue
<1> QED
  BY <1>1, AgentTypeCorrect, ProvenanceCorrect, FreshnessCorrect, PTL
-----------------------------------------------------------------------------
(***************************************************************************)
(* LeadAttribution.  The inductive invariant adds that a session without a *)
(* row has sent nothing.                                                   *)
(***************************************************************************)
LeadIInv ==
  /\ LeadTypeOK
  /\ TouchesTrue
  /\ ConversionsTrue
  /\ \A s \in Sessions : ~Known(s) => captured[s] = <<>>

\* The touches at which a session changed its campaign.
ChangesOf(sent) == {i \in DOMAIN sent : i = 1 \/ sent[i] # sent[i - 1]}

LEMMA FirstChange ==
  ASSUME NEW t
  PROVE  Cardinality(ChangesOf(<<t>>)) = 1
<1>1. ChangesOf(<<t>>) = {1}
  BY DEF ChangesOf
<1> QED
  BY <1>1, FS_Singleton

LEMMA NextChange ==
  ASSUME NEW sent \in Seq(Touches), sent # <<>>, NEW t \in Touches
  PROVE  /\ Cardinality(ChangesOf(sent)) \in Nat
         /\ Cardinality(ChangesOf(Append(sent, t))) =
              Cardinality(ChangesOf(sent)) + (IF t = Last(sent) THEN 0 ELSE 1)
<1> DEFINE n == Len(sent)
           next == Append(sent, t)
<1>1. n \in Nat /\ n >= 1 /\ DOMAIN sent = 1 .. n
  BY EmptySeq
<1>2. /\ Len(next) = n + 1 /\ DOMAIN next = 1 .. n + 1
      /\ \A i \in 1 .. n : next[i] = sent[i]
      /\ next[n + 1] = t
  BY AppendProperties
<1>3. Last(sent) = sent[n]
  BY DEF Last
<1> HIDE DEF next
<1>4. IsFiniteSet(ChangesOf(sent)) /\ n + 1 \notin ChangesOf(sent)
  <2>1. ChangesOf(sent) \subseteq 1 .. n
    BY <1>1 DEF ChangesOf
  <2>2. IsFiniteSet(1 .. n)
    BY <1>1, FS_Interval
  <2>3. n + 1 \notin 1 .. n
    BY <1>1
  <2> QED
    BY <2>1, <2>2, <2>3, FS_Subset
<1>5. Cardinality(ChangesOf(sent)) \in Nat
  BY <1>4, FS_CardinalityType
<1>6. ASSUME NEW i \in 1 .. n
      PROVE  i \in ChangesOf(next) <=> i \in ChangesOf(sent)
  <2>1. CASE i = 1
    BY <1>1, <1>2, <2>1 DEF ChangesOf
  <2>2. CASE i # 1
    <3>1. i - 1 \in 1 .. n /\ i \in 1 .. n + 1
      BY <1>1, <2>2
    <3>2. next[i] = sent[i] /\ next[i - 1] = sent[i - 1]
      BY <1>2, <3>1
    <3> QED
      BY <1>1, <1>2, <3>1, <3>2 DEF ChangesOf
  <2> QED
    BY <2>1, <2>2
<1>7. n + 1 \in ChangesOf(next) <=> t # sent[n]
  <2>1. n + 1 \in 1 .. n + 1 /\ n + 1 # 1 /\ n + 1 - 1 = n /\ n \in 1 .. n
    BY <1>1
  <2>2. next[n + 1] = t /\ next[n] = sent[n]
    BY <1>2, <2>1
  <2> QED
    BY <1>2, <2>1, <2>2 DEF ChangesOf
<1>8. ChangesOf(next) \subseteq 1 .. n + 1 /\ ChangesOf(sent) \subseteq 1 .. n
      /\ 1 .. n + 1 = (1 .. n) \cup {n + 1}
  BY <1>1, <1>2 DEF ChangesOf
<1>9. CASE t = sent[n]
  <2>1. ChangesOf(next) = ChangesOf(sent)
    BY <1>6, <1>7, <1>8, <1>9
  <2> QED
    BY <1>3, <1>5, <1>9, <2>1 DEF next
<1>10. CASE t # sent[n]
  <2>1. ChangesOf(next) = ChangesOf(sent) \cup {n + 1}
    BY <1>6, <1>7, <1>8, <1>10
  <2>2. Cardinality(ChangesOf(next)) = Cardinality(ChangesOf(sent)) + 1
    BY <1>4, <2>1, FS_AddElement
  <2> QED
    BY <1>3, <1>5, <1>10, <2>2 DEF next
<1> QED
  BY <1>9, <1>10

\* What a row tells of the touches of its session.
Tells(row, sent) ==
  /\ sent # <<>> /\ row.firstTouch = sent[1] /\ row.lastTouch = Last(sent)
  /\ row.touchCount = Cardinality(ChangesOf(sent))

LEMMA TouchesTold == TouchesTrue <=> \A s \in Sessions : Known(s) => Tells(attribution[s], captured[s])
BY DEF TouchesTrue, Tells, ChangesOf

LEMMA NewRowTells ==
  ASSUME NEW t \in Touches
  PROVE  /\ CreateAnonymous(t) \in Attribution /\ CreateAnonymous(t) # NoAttribution
         /\ Tells(CreateAnonymous(t), <<t>>) /\ <<t>> \in Seq(Touches)
         /\ \A u \in Leads :
              /\ Synthetic(u) \in Attribution /\ Synthetic(u) # NoAttribution
              /\ Synthetic(u).status = "registered" /\ Synthetic(u).userId = u
              /\ Tells(Synthetic(u), <<DirectTouch>>)
         /\ DirectTouch \in Touches
<1>1. ASSUME NEW d \in Touches
      PROVE  /\ CreateAnonymous(d) \in Attribution
             /\ CreateAnonymous(d).firstTouch = d /\ CreateAnonymous(d).lastTouch = d
             /\ CreateAnonymous(d).touchCount = 1
             /\ CreateAnonymous(d).status = "anonymous"
             /\ CreateAnonymous(d).userId = Nobody
  BY DEF CreateAnonymous, Attribution
<1>2. ASSUME NEW d \in Touches
      PROVE  /\ <<d>> # <<>> /\ <<d>>[1] = d /\ Last(<<d>>) = d
             /\ Cardinality(ChangesOf(<<d>>)) = 1 /\ <<d>> \in Seq(Touches)
  BY FirstChange DEF Last
<1>3. NoAttribution.status = "none" /\ DirectTouch \in Touches
  BY LeadAssumption DEF NoAttribution
<1>4. ASSUME NEW u \in Leads
      PROVE  /\ Synthetic(u) \in Attribution /\ Synthetic(u) # NoAttribution
             /\ Synthetic(u).status = "registered" /\ Synthetic(u).userId = u
             /\ Tells(Synthetic(u), <<DirectTouch>>)
  <2>1. /\ Synthetic(u) \in Attribution
        /\ Synthetic(u).status = "registered" /\ Synthetic(u).userId = u
        /\ Synthetic(u).firstTouch = DirectTouch /\ Synthetic(u).lastTouch = DirectTouch
        /\ Synthetic(u).touchCount = 1
    BY <1>3 DEF Synthetic, CreateAnonymous, Attribution
  <2> QED
    BY <1>2, <1>3, <2>1 DEF Tells
<1>5. Tells(CreateAnonymous(t), <<t>>)
  BY <1>1, <1>2 DEF Tells
<1> QED
  BY <1>1, <1>2, <1>3, <1>4, <1>5

LEMMA AppendedTells ==
  ASSUME NEW row \in Attribution, NEW sent \in Seq(Touches), NEW t \in Touches, Tells(row, sent)
  PROVE  /\ AppendTouch(row, t) \in Attribution
         /\ AppendTouch(row, t).status = row.status /\ AppendTouch(row, t).userId = row.userId
         /\ Tells(AppendTouch(row, t), Append(sent, t))
         /\ Append(sent, t) \in Seq(Touches)
<1>1. /\ row.touchCount \in Nat /\ row.touchCount + 1 \in Nat
      /\ sent # <<>> /\ row.firstTouch = sent[1] /\ row.lastTouch = Last(sent)
      /\ row.touchCount = Cardinality(ChangesOf(sent))
  BY DEF Attribution, Tells
<1>2. /\ AppendTouch(row, t) \in Attribution
      /\ AppendTouch(row, t).status = row.status /\ AppendTouch(row, t).userId = row.userId
      /\ AppendTouch(row, t).firstTouch = row.firstTouch
      /\ AppendTouch(row, t).lastTouch = t
      /\ AppendTouch(row, t).touchCount = row.touchCount + (IF t = row.lastTouch THEN 0 ELSE 1)
  <2>1. CASE t = row.lastTouch
    BY <1>1, <2>1 DEF AppendTouch
  <2>2. CASE t # row.lastTouch
    <3>1. AppendTouch(row, t) = [row EXCEPT !.lastTouch = t, !.touchCount = row.touchCount + 1]
      BY <1>1, <2>2 DEF AppendTouch, Attribution
    <3> QED
      BY <1>1, <2>2, <3>1 DEF Attribution
  <2> QED
    BY <2>1, <2>2
<1>3. /\ Append(sent, t) \in Seq(Touches) /\ Append(sent, t) # <<>>
      /\ Append(sent, t)[1] = sent[1] /\ Last(Append(sent, t)) = t
  <2>1. Len(sent) \in Nat /\ Len(sent) >= 1
    BY <1>1, EmptySeq
  <2>2. /\ Append(sent, t) \in Seq(Touches) /\ Len(Append(sent, t)) = Len(sent) + 1
        /\ \A i \in 1 .. Len(sent) : Append(sent, t)[i] = sent[i]
        /\ Append(sent, t)[Len(sent) + 1] = t
    BY AppendProperties
  <2>3. 1 \in 1 .. Len(sent)
    BY <2>1
  <2> QED
    BY <2>1, <2>2, <2>3 DEF Last
<1>4. Cardinality(ChangesOf(Append(sent, t))) =
        Cardinality(ChangesOf(sent)) + (IF t = Last(sent) THEN 0 ELSE 1)
  BY <1>1, NextChange
<1> QED
  BY <1>1, <1>2, <1>3, <1>4 DEF Tells

LEMMA RowKnown ==
  ASSUME LeadTypeOK, NEW s \in Sessions, Known(s)
  PROVE  attribution[s] \in Attribution
BY DEF LeadTypeOK, Known

\* Only the row of s and what s sent change, and the row tells it.
LEMMA SessionStep ==
  ASSUME LeadIInv, NEW s \in Sessions, NEW row \in Attribution, NEW sent \in Seq(Touches),
         attribution' = [attribution EXCEPT ![s] = row],
         captured' = [captured EXCEPT ![s] = sent],
         UNCHANGED leadRooms,
         row # NoAttribution, Tells(row, sent),
         row.status = "anonymous" <=> row.userId = Nobody,
         row.status = "converted" => leadRooms[row.userId] # {}
  PROVE  LeadIInv'
<1>0. /\ attribution \in [Sessions -> Attribution \cup {NoAttribution}]
      /\ captured \in [Sessions -> Seq(Touches)] /\ leadRooms \in [Leads -> SUBSET Homes]
  BY DEF LeadIInv, LeadTypeOK
<1>1. LeadTypeOK'
  BY <1>0 DEF LeadTypeOK
<1>2. /\ attribution'[s] = row /\ captured'[s] = sent
      /\ \A r \in Sessions \ {s} : attribution'[r] = attribution[r] /\ captured'[r] = captured[r]
  BY <1>0
<1>3. \A r \in Sessions : Known(r) => Tells(attribution[r], captured[r])
  BY TouchesTold DEF LeadIInv
<1>4. \A r \in Sessions : Known(r)' => Tells(attribution'[r], captured'[r])
  BY <1>2, <1>3 DEF Known
<1>5. TouchesTrue'
  BY <1>4 DEF TouchesTrue, Tells, ChangesOf
<1>6. ConversionsTrue'
  BY <1>2 DEF ConversionsTrue, LeadIInv, Known
<1>7. \A r \in Sessions : ~Known(r)' => captured'[r] = <<>>
  BY <1>2 DEF Known, LeadIInv
<1> QED
  BY <1>1, <1>5, <1>6, <1>7 DEF LeadIInv

LEMMA LeadIInvStep == LeadIInv /\ [LeadNext]_leadVars => LeadIInv'
<1> SUFFICES ASSUME LeadIInv, [LeadNext]_leadVars
             PROVE  LeadIInv'
  OBVIOUS
<1>0. /\ attribution \in [Sessions -> Attribution \cup {NoAttribution}]
      /\ captured \in [Sessions -> Seq(Touches)] /\ leadRooms \in [Leads -> SUBSET Homes]
      /\ LeadTypeOK
  BY DEF LeadIInv, LeadTypeOK
<1>a. ASSUME NEW s \in Sessions, Known(s)
      PROVE  /\ attribution[s] \in Attribution /\ Tells(attribution[s], captured[s])
             /\ attribution[s] # NoAttribution
             /\ attribution[s].status = "anonymous" <=> attribution[s].userId = Nobody
             /\ attribution[s].status = "converted" => leadRooms[attribution[s].userId] # {}
  <2>1. attribution[s] \in Attribution /\ attribution[s] # NoAttribution
    BY <1>0, <1>a, RowKnown DEF Known
  <2>2. Tells(attribution[s], captured[s])
    BY <1>a, TouchesTold DEF LeadIInv
  <2> QED
    BY <1>a, <2>1, <2>2 DEF LeadIInv, ConversionsTrue
<1>1. CASE UNCHANGED leadVars
  BY <1>1 DEF leadVars, LeadIInv, LeadTypeOK, TouchesTrue, ConversionsTrue, Known
<1>2. ASSUME NEW s \in Sessions, NEW t \in Touches, CaptureTouch(s, t)
      PROVE  LeadIInv'
  <2>1. /\ captured' = [captured EXCEPT ![s] = Append(captured[s], t)]
        /\ UNCHANGED leadRooms /\ captured[s] \in Seq(Touches)
    BY <1>0, <1>2 DEF CaptureTouch
  <2>2. CASE Known(s)
    <3>1. attribution' = [attribution EXCEPT ![s] = AppendTouch(attribution[s], t)]
      BY <1>2, <2>2 DEF CaptureTouch
    <3> DEFINE row == AppendTouch(attribution[s], t)
               sent == Append(captured[s], t)
    <3>2. /\ row \in Attribution /\ Tells(row, sent) /\ sent \in Seq(Touches)
          /\ row.status = attribution[s].status /\ row.userId = attribution[s].userId
      BY <1>a, <2>1, <2>2, AppendedTells
    <3>3. row # NoAttribution
      <4>1. row.status # "none" /\ NoAttribution.status = "none"
        BY <3>2 DEF Attribution, NoAttribution
      <4> QED
        BY <4>1
    <3>4. /\ row.status = "anonymous" <=> row.userId = Nobody
          /\ row.status = "converted" => leadRooms[row.userId] # {}
      BY <1>a, <2>2, <3>2
    <3> HIDE DEF row, sent
    <3>5. attribution' = [attribution EXCEPT ![s] = row] /\ captured' = [captured EXCEPT ![s] = sent]
      BY <2>1, <3>1 DEF row, sent
    <3> QED
      BY <2>1, <3>2, <3>3, <3>4, <3>5, SessionStep
  <2>3. CASE ~Known(s)
    <3> DEFINE row == CreateAnonymous(t)
               sent == <<t>>
    <3>1. attribution' = [attribution EXCEPT ![s] = row]
      BY <1>2, <2>3 DEF CaptureTouch
    <3>2. Append(captured[s], t) = sent
      <4>1. captured[s] = <<>>
        BY <2>3 DEF LeadIInv
      <4> QED
        BY <4>1
    <3>3. /\ row \in Attribution /\ row # NoAttribution /\ Tells(row, sent) /\ sent \in Seq(Touches)
      BY NewRowTells
    <3>4. row.status = "anonymous" /\ row.userId = Nobody
      BY DEF CreateAnonymous
    <3>5. captured' = [captured EXCEPT ![s] = sent]
      BY <2>1, <3>2
    <3> HIDE DEF row, sent
    <3> QED
      BY <2>1, <3>1, <3>3, <3>4, <3>5, SessionStep
  <2> QED
    BY <2>2, <2>3
<1>3. ASSUME NEW s \in Sessions, NEW u \in Leads, EnsureCurrentBuyer(s, u)
      PROVE  LeadIInv'
  <2>0. UNCHANGED leadRooms
    BY <1>3 DEF EnsureCurrentBuyer
  <2>1. CASE Known(s) /\ attribution[s].userId = Nobody
    <3> DEFINE row == [attribution[s] EXCEPT !.userId = u, !.status = "registered"]
               sent == captured[s]
    <3>1. attribution' = [attribution EXCEPT ![s] = row]
      BY <1>3, <2>1 DEF EnsureCurrentBuyer, HandedOff
    <3>2. captured' = [captured EXCEPT ![s] = sent]
      BY <1>3, <2>1 DEF EnsureCurrentBuyer
    <3>3. sent \in Seq(Touches) /\ attribution[s] \in Attribution /\ Tells(attribution[s], sent)
      BY <1>0, <1>a, <2>1
    <3>4. /\ row \in Attribution /\ row.status = "registered" /\ row.userId = u
          /\ row.firstTouch = attribution[s].firstTouch /\ row.lastTouch = attribution[s].lastTouch
          /\ row.touchCount = attribution[s].touchCount
      BY <3>3 DEF Attribution
    <3>5. row # NoAttribution /\ u # Nobody
      <4>1. NoAttribution.status = "none"
        BY DEF NoAttribution
      <4> QED
        BY <3>4, <4>1, LeadAssumption
    <3> HIDE DEF row
    <3>6. Tells(row, sent)
      BY <3>3, <3>4 DEF Tells
    <3> HIDE DEF sent
    <3> QED
      BY <2>0, <3>1, <3>2, <3>3, <3>4, <3>5, <3>6, SessionStep
  <2>2. CASE ~Known(s) /\ RowsOf(u) = {}
    <3> DEFINE row == Synthetic(u)
               sent == <<DirectTouch>>
    <3>1. attribution' = [attribution EXCEPT ![s] = row]
      BY <1>3, <2>2 DEF EnsureCurrentBuyer, HandedOff
    <3>2. captured' = [captured EXCEPT ![s] = sent]
      BY <1>3, <2>2 DEF EnsureCurrentBuyer
    <3>3. /\ row \in Attribution /\ row # NoAttribution /\ Tells(row, sent) /\ sent \in Seq(Touches)
          /\ row.status = "registered" /\ row.userId = u /\ u # Nobody
      <4>1. DirectTouch \in Touches /\ u # Nobody
        BY LeadAssumption
      <4> QED
        BY <4>1, NewRowTells
    <3> HIDE DEF row, sent
    <3> QED
      BY <2>0, <3>1, <3>2, <3>3, SessionStep
  <2>3. CASE ~(Known(s) /\ attribution[s].userId = Nobody) /\ ~(~Known(s) /\ RowsOf(u) = {})
    <3>1. attribution' = attribution
      BY <1>0, <1>3, <2>3 DEF EnsureCurrentBuyer, HandedOff
    <3>2. captured' = captured
      BY <1>0, <1>3, <2>3 DEF EnsureCurrentBuyer
    <3> QED
      BY <1>1, <2>0, <3>1, <3>2 DEF leadVars
  <2> QED
    BY <2>1, <2>2, <2>3
<1>4. ASSUME NEW u \in Leads, NEW p \in Homes, CreateDealRoom(u, p)
      PROVE  LeadIInv'
  <2>1. /\ leadRooms' = [leadRooms EXCEPT ![u] = @ \cup {p}]
        /\ captured' = captured
        /\ attribution' = [s \in Sessions |->
             IF s \in RowsOf(u) THEN [attribution[s] EXCEPT !.status = "converted"]
                                ELSE attribution[s]]
    BY <1>4 DEF CreateDealRoom
  <2>2. /\ leadRooms' \in [Leads -> SUBSET Homes] /\ leadRooms'[u] # {}
        /\ \A v \in Leads : leadRooms[v] # {} => leadRooms'[v] # {}
    BY <1>0, <2>1
  <2>3. ASSUME NEW s \in Sessions, s \in RowsOf(u)
        PROVE  /\ Known(s) /\ attribution'[s] \in Attribution
               /\ attribution'[s].status = "converted" /\ attribution'[s].userId = u
               /\ attribution'[s] # NoAttribution
               /\ Tells(attribution'[s], captured'[s])
    <3>1. Known(s) /\ attribution[s].userId = u
      BY <2>3 DEF RowsOf
    <3>2. attribution[s] \in Attribution /\ Tells(attribution[s], captured[s])
      BY <1>a, <3>1
    <3>3. attribution'[s] = [attribution[s] EXCEPT !.status = "converted"]
      BY <2>1, <2>3
    <3>4. /\ attribution'[s] \in Attribution
          /\ attribution'[s].status = "converted" /\ attribution'[s].userId = u
          /\ attribution'[s].firstTouch = attribution[s].firstTouch
          /\ attribution'[s].lastTouch = attribution[s].lastTouch
          /\ attribution'[s].touchCount = attribution[s].touchCount
      BY <3>1, <3>2, <3>3 DEF Attribution
    <3>5. attribution'[s] # NoAttribution
      BY <3>4 DEF NoAttribution
    <3>6. Tells(attribution'[s], captured'[s])
      BY <2>1, <3>2, <3>4 DEF Tells
    <3> QED
      BY <3>1, <3>4, <3>5, <3>6
  <2>4. \A s \in Sessions : s \notin RowsOf(u) => attribution'[s] = attribution[s]
    BY <2>1
  <2>5. LeadTypeOK'
    <3>1. \A s \in Sessions : attribution'[s] \in Attribution \cup {NoAttribution}
      BY <1>0, <2>3, <2>4
    <3> QED
      BY <1>0, <2>1, <2>2, <3>1 DEF LeadTypeOK
  <2>6. ASSUME NEW s \in Sessions, Known(s)'
        PROVE  /\ Tells(attribution'[s], captured'[s])
               /\ attribution'[s].status = "anonymous" <=> attribution'[s].userId = Nobody
               /\ attribution'[s].status = "converted" => leadRooms'[attribution'[s].userId] # {}
    <3>1. CASE s \in RowsOf(u)
      BY <2>2, <2>3, <3>1, LeadAssumption
    <3>2. CASE s \notin RowsOf(u)
      <4>1. attribution'[s] = attribution[s] /\ captured'[s] = captured[s] /\ Known(s)
        BY <2>1, <2>4, <2>6, <3>2 DEF Known
      <4>2. attribution[s].status = "converted" => attribution[s].userId \in Leads
        BY <1>a, <4>1 DEF Attribution
      <4> QED
        BY <1>a, <2>2, <4>1, <4>2
    <3> QED
      BY <3>1, <3>2
  <2>7. TouchesTrue' /\ ConversionsTrue'
    BY <2>6 DEF TouchesTrue, ConversionsTrue, Tells, ChangesOf
  <2>8. \A s \in Sessions : ~Known(s)' => captured'[s] = <<>>
    <3>1. ASSUME NEW s \in Sessions, ~Known(s)'
          PROVE  captured'[s] = <<>>
      <4>1. s \notin RowsOf(u)
        BY <2>3, <3>1 DEF Known
      <4> QED
        BY <2>1, <2>4, <3>1, <4>1 DEF LeadIInv, Known
    <3> QED
      BY <3>1
  <2> QED
    BY <2>5, <2>7, <2>8 DEF LeadIInv
<1> QED
  BY <1>1, <1>2, <1>3, <1>4 DEF LeadNext

(***************************************************************************)
(* What a lead row says of its session and its user is true, for any       *)
(* number of sessions, people and touches.                                 *)
(***************************************************************************)
THEOREM AttributionIsTrue == LeadSpec => []AttributionTrue
<1>1. LeadInit => LeadIInv
  BY DEF LeadInit, LeadIInv, LeadTypeOK, TouchesTrue, ConversionsTrue, Known
<1>2. LeadIInv => AttributionTrue
  BY DEF LeadIInv, AttributionTrue
<1> QED
  BY <1>1, <1>2, LeadIInvStep, PTL DEF LeadSpec
-----------------------------------------------------------------------------
(***************************************************************************)
(* ListingIntake.  The inductive invariant adds that an attempt hangs on   *)
(* the oldest listing of its link or address.                              *)
(***************************************************************************)
Oldest(i) ==
  /\ i \in DOMAIN intakeListings
  /\ \A k \in DOMAIN intakeListings : intakeListings[k].source = intakeListings[i].source => i <= k

OnOldest ==
  \A a \in DOMAIN intakeAttempts :
    intakeAttempts[a].listing # 0 => Oldest(intakeAttempts[a].listing)

IntakeIInv == IntakeTypeOK /\ OnOldest /\ AttemptsAgree

\* What AttemptsAgree says of one attempt.
Shown(a) ==
  LET attempt == intakeAttempts[a]
      row == intakeListings[attempt.listing]
  IN /\ attempt.listing # 0
     /\ ~attempt.dossierReady
     /\ \/ row.source \in ListingUrls
        \/ \A b \in a + 1 .. Len(intakeAttempts) : intakeAttempts[b].listing # attempt.listing
     /\ ~row.hasProperty
     /\ row.resolutionStatus \in {"partial", "failed"}
ToldTheSame(attempt, row) ==
  \/ attempt.status = row.resolutionStatus
  \/ attempt.status = "unsupported" /\ row.resolutionStatus = "failed"

\* What a submission is told, where the listing has no property and stands at
\* partial or failed, is how it stands.
LEMMA StatusTold ==
  ASSUME NEW row \in SourceListing
  PROVE  /\ AttemptStatusFrom(row).status \in AttemptStatuses
         /\ AttemptStatusFrom(row).failureMode \in Modes
         /\ (~row.hasProperty /\ row.resolutionStatus \in {"partial", "failed"}) =>
              AttemptStatusFrom(row).status = row.resolutionStatus
<1>1. /\ row.failureMode \in Modes /\ row.hasProperty \in BOOLEAN
      /\ row.resolutionStatus \in AttemptStatuses
  BY DEF SourceListing
<1>2. CASE row.hasProperty
  BY <1>2 DEF AttemptStatusFrom, AttemptStatuses, Modes
<1>3. CASE ~row.hasProperty /\ row.resolutionStatus = "partial"
  BY <1>1, <1>3 DEF AttemptStatusFrom, AttemptStatuses, Modes, OrElse
<1>4. CASE ~row.hasProperty /\ row.resolutionStatus # "partial"
           /\ "failed" \in {row.status, row.resolutionStatus}
  BY <1>1, <1>4 DEF AttemptStatusFrom, AttemptStatuses, Modes, OrElse
<1>5. CASE ~row.hasProperty /\ row.resolutionStatus # "partial"
           /\ "failed" \notin {row.status, row.resolutionStatus}
  BY <1>1, <1>5 DEF AttemptStatusFrom, AttemptStatuses, Modes
<1> QED
  BY <1>1, <1>2, <1>3, <1>4, <1>5

ShownTold ==
  \A a \in DOMAIN intakeAttempts :
    Shown(a) => ToldTheSame(intakeAttempts[a], intakeListings[intakeAttempts[a].listing])

LEMMA AgreeMeans == IntakeTypeOK /\ OnOldest => (AttemptsAgree <=> ShownTold)
<1> SUFFICES ASSUME IntakeTypeOK, OnOldest
             PROVE  AttemptsAgree <=> ShownTold
  OBVIOUS
<1>1. ASSUME NEW a \in DOMAIN intakeAttempts, Shown(a)
      PROVE  LET row == intakeListings[intakeAttempts[a].listing]
             IN AttemptStatusFrom(row).status = row.resolutionStatus
  <2>1. intakeListings[intakeAttempts[a].listing] \in SourceListing
    BY <1>1 DEF Shown, OnOldest, Oldest, IntakeTypeOK
  <2> QED
    BY <1>1, <2>1, StatusTold DEF Shown
<1> QED
  BY <1>1 DEF AttemptsAgree, ShownTold, Shown, ToldTheSame

LEMMA AgreeMeansNext == IntakeTypeOK' /\ OnOldest' => (AttemptsAgree' <=> ShownTold')
BY AgreeMeans, PTL

\* The tables and their elements.
LEMMA IntakeTables ==
  ASSUME IntakeTypeOK
  PROVE  /\ intakeListings \in Seq(SourceListing) /\ intakeAttempts \in Seq(Attempt)
         /\ Len(intakeListings) \in Nat /\ Len(intakeAttempts) \in Nat
         /\ DOMAIN intakeListings = 1 .. Len(intakeListings)
         /\ DOMAIN intakeAttempts = 1 .. Len(intakeAttempts)
         /\ \A i \in DOMAIN intakeListings : intakeListings[i] \in SourceListing
         /\ \A a \in DOMAIN intakeAttempts : intakeAttempts[a] \in Attempt
         /\ MaxListings \in Nat /\ MaxIntakes \in Nat
         /\ Len(intakeListings) <= MaxListings /\ Len(intakeAttempts) <= MaxIntakes
BY ListingIntakeAssumption DEF IntakeTypeOK

LEMMA ExistingIsOldest ==
  ASSUME IntakeTypeOK, NEW source, NEW i \in FindExisting(source)
  PROVE  /\ Oldest(i) /\ intakeListings[i].source = source
         /\ FindExisting(source) = {i} /\ Min(FindExisting(source)) = i
         /\ i \in DOMAIN intakeListings /\ i # 0 /\ i \in 0 .. MaxListings
<1>1. /\ DOMAIN intakeListings = 1 .. Len(intakeListings) /\ Len(intakeListings) \in Nat
      /\ MaxListings \in Nat /\ Len(intakeListings) <= MaxListings
  BY IntakeTables
<1>2. /\ i \in DOMAIN intakeListings /\ intakeListings[i].source = source
      /\ \A k \in DOMAIN intakeListings : intakeListings[k].source = source => i <= k
  BY DEF FindExisting
<1>3. \A k \in FindExisting(source) : k = i
  BY <1>1, <1>2 DEF FindExisting
<1>4. FindExisting(source) = {i}
  BY <1>3
<1>5. Min({i}) = i
  BY <1>1, <1>2 DEF Min
<1> QED
  BY <1>1, <1>2, <1>4, <1>5 DEF Oldest

\* A source without a row: the row that is added for it is its oldest one.
LEMMA NoneExisting ==
  ASSUME IntakeTypeOK, NEW source, FindExisting(source) = {}
  PROVE  \A k \in DOMAIN intakeListings : intakeListings[k].source # source
<1>1. DOMAIN intakeListings = 1 .. Len(intakeListings) /\ Len(intakeListings) \in Nat
  BY IntakeTables
<1> DEFINE rows == {i \in DOMAIN intakeListings : intakeListings[i].source = source}
<1> SUFFICES ASSUME rows # {}
             PROVE  FALSE
  OBVIOUS
<1>2. rows \subseteq Nat
  BY <1>1
<1> HIDE DEF rows
<1>3. PICK i \in rows : \A k \in rows : i <= k
  BY <1>2, LeastOf
<1> QED
  BY <1>3 DEF rows, FindExisting

\* A listing is added: the old ones and their attempts stay as they are.
LEMMA ListingAdded ==
  ASSUME IntakeTypeOK, NEW row \in SourceListing, InsertListing(row)
  PROVE  /\ intakeListings' \in Seq(SourceListing)
         /\ Len(intakeListings') = Len(intakeListings) + 1
         /\ Len(intakeListings') <= MaxListings
         /\ DOMAIN intakeListings' = 1 .. Len(intakeListings) + 1
         /\ \A i \in DOMAIN intakeListings : intakeListings'[i] = intakeListings[i]
         /\ intakeListings'[Len(intakeListings) + 1] = row
<1>1. /\ intakeListings \in Seq(SourceListing) /\ DOMAIN intakeListings = 1 .. Len(intakeListings)
      /\ Len(intakeListings) \in Nat /\ MaxListings \in Nat
  BY IntakeTables
<1>2. intakeListings' = Append(intakeListings, row) /\ Len(intakeListings) < MaxListings
  BY DEF InsertListing
<1>3. /\ Append(intakeListings, row) \in Seq(SourceListing)
      /\ Len(Append(intakeListings, row)) = Len(intakeListings) + 1
      /\ \A i \in 1 .. Len(intakeListings) : Append(intakeListings, row)[i] = intakeListings[i]
      /\ Append(intakeListings, row)[Len(intakeListings) + 1] = row
  BY <1>1, AppendProperties
<1> QED
  BY <1>1, <1>2, <1>3

LEMMA OldestStays ==
  ASSUME IntakeTypeOK, NEW row \in SourceListing, InsertListing(row)
  PROVE  /\ \A i : Oldest(i) => Oldest(i)'
         /\ (\A k \in DOMAIN intakeListings : intakeListings[k].source # row.source) =>
              \A i : i = Len(intakeListings) + 1 => Oldest(i)'
<1>1. /\ DOMAIN intakeListings = 1 .. Len(intakeListings) /\ Len(intakeListings) \in Nat
      /\ DOMAIN intakeListings' = 1 .. Len(intakeListings) + 1
      /\ \A i \in DOMAIN intakeListings : intakeListings'[i] = intakeListings[i]
      /\ intakeListings'[Len(intakeListings) + 1] = row
  BY IntakeTables, ListingAdded
<1>2. ASSUME NEW i, Oldest(i)
      PROVE  Oldest(i)'
  <2>1. i \in DOMAIN intakeListings'
    BY <1>1, <1>2 DEF Oldest
  <2>2. ASSUME NEW k \in DOMAIN intakeListings',
               intakeListings'[k].source = intakeListings'[i].source
        PROVE  i <= k
    <3>1. CASE k \in DOMAIN intakeListings
      BY <1>1, <1>2, <2>2, <3>1 DEF Oldest
    <3>2. CASE k \notin DOMAIN intakeListings
      BY <1>1, <1>2, <3>2 DEF Oldest
    <3> QED
      BY <3>1, <3>2
  <2> QED
    BY <2>1, <2>2 DEF Oldest
<1>3. ASSUME \A k \in DOMAIN intakeListings : intakeListings[k].source # row.source
      PROVE  \A i : i = Len(intakeListings) + 1 => Oldest(i)'
  <2>1. ASSUME NEW k \in DOMAIN intakeListings', intakeListings'[k].source = row.source
        PROVE  k = Len(intakeListings) + 1
    BY <1>1, <1>3, <2>1
  <2>2. /\ Len(intakeListings) + 1 \in DOMAIN intakeListings'
        /\ intakeListings'[Len(intakeListings) + 1].source = row.source
    BY <1>1
  <2>3. \A k \in DOMAIN intakeListings' :
          intakeListings'[k].source = intakeListings'[Len(intakeListings) + 1].source =>
            Len(intakeListings) + 1 <= k
    BY <1>1, <2>1, <2>2
  <2>4. ASSUME NEW i, i = Len(intakeListings) + 1
        PROVE  Oldest(i)'
    BY <2>2, <2>3, <2>4 DEF Oldest
  <2> QED
    BY <2>4
<1> QED
  BY <1>2, <1>3

\* Listings are rewritten without their sources.
LEMMA OldestRewritten ==
  ASSUME DOMAIN intakeListings' = DOMAIN intakeListings,
         \A i \in DOMAIN intakeListings : intakeListings'[i].source = intakeListings[i].source
  PROVE  \A i : Oldest(i) => Oldest(i)'
BY DEF Oldest

LEMMA AttemptAdded ==
  ASSUME IntakeTypeOK, NEW i \in 0 .. MaxListings, NEW is,
         is.status \in AttemptStatuses, is.failureMode \in Modes, InsertAttempt(i, is)
  PROVE  /\ intakeAttempts' \in Seq(Attempt)
         /\ Len(intakeAttempts') = Len(intakeAttempts) + 1
         /\ Len(intakeAttempts') <= MaxIntakes
         /\ DOMAIN intakeAttempts' = 1 .. Len(intakeAttempts) + 1
         /\ \A a \in DOMAIN intakeAttempts : intakeAttempts'[a] = intakeAttempts[a]
         /\ intakeAttempts'[Len(intakeAttempts) + 1].listing = i
         /\ intakeAttempts'[Len(intakeAttempts) + 1].status = is.status
<1> DEFINE new == [listing |-> i, status |-> is.status, failureMode |-> is.failureMode,
                   dossierReady |-> FALSE]
<1>1. /\ intakeAttempts \in Seq(Attempt) /\ DOMAIN intakeAttempts = 1 .. Len(intakeAttempts)
      /\ Len(intakeAttempts) \in Nat /\ MaxIntakes \in Nat
  BY IntakeTables
<1>2. intakeAttempts' = Append(intakeAttempts, new) /\ Len(intakeAttempts) < MaxIntakes
  BY DEF InsertAttempt
<1>3. new \in Attempt /\ new.listing = i /\ new.status = is.status
  BY DEF Attempt
<1> HIDE DEF new
<1>4. /\ Append(intakeAttempts, new) \in Seq(Attempt)
      /\ Len(Append(intakeAttempts, new)) = Len(intakeAttempts) + 1
      /\ \A a \in 1 .. Len(intakeAttempts) : Append(intakeAttempts, new)[a] = intakeAttempts[a]
      /\ Append(intakeAttempts, new)[Len(intakeAttempts) + 1] = new
  BY <1>1, <1>3, AppendProperties
<1> QED
  BY <1>1, <1>2, <1>3, <1>4

\* An attempt whose listing was left alone says what it said.
LEMMA StaysTold ==
  ASSUME IntakeIInv, NEW a \in DOMAIN intakeAttempts,
         \A b \in DOMAIN intakeAttempts : intakeAttempts'[b].listing = intakeAttempts[b].listing,
         Len(intakeAttempts') \in Nat, Len(intakeAttempts') >= Len(intakeAttempts),
         intakeAttempts'[a].status = intakeAttempts[a].status,
         intakeAttempts[a].dossierReady => intakeAttempts'[a].dossierReady,
         intakeListings'[intakeAttempts[a].listing] = intakeListings[intakeAttempts[a].listing],
         Shown(a)'
  PROVE  ToldTheSame(intakeAttempts'[a], intakeListings'[intakeAttempts'[a].listing])
<1>1. /\ IntakeTypeOK /\ DOMAIN intakeAttempts = 1 .. Len(intakeAttempts)
      /\ Len(intakeAttempts) \in Nat
  BY IntakeTables DEF IntakeIInv
<1>2. \A b \in a + 1 .. Len(intakeAttempts) :
        b \in a + 1 .. Len(intakeAttempts') /\ b \in DOMAIN intakeAttempts
  BY <1>1
<1>3. Shown(a)
  BY <1>2 DEF Shown
<1>4. ToldTheSame(intakeAttempts[a], intakeListings[intakeAttempts[a].listing])
  BY <1>1, <1>3, AgreeMeans DEF IntakeIInv, ShownTold
<1> QED
  BY <1>4 DEF ToldTheSame

\* A submission leaves an attempt on the oldest listing of its source.  What
\* the others were told stays true as long as they are shown it.
LEMMA SubmissionKeeps ==
  ASSUME IntakeIInv, IntakeTypeOK', NEW i \in 0 .. MaxListings, NEW is,
         is.status \in AttemptStatuses, is.failureMode \in Modes, InsertAttempt(i, is),
         \A k : Oldest(k) => Oldest(k)', i # 0 => Oldest(i)',
         \A a \in DOMAIN intakeAttempts : intakeAttempts[a].listing # 0 =>
           intakeListings'[intakeAttempts[a].listing] = intakeListings[intakeAttempts[a].listing]
             \/ (intakeAttempts[a].listing = i /\ intakeListings'[i].source \notin ListingUrls),
         i # 0 /\ ~intakeListings'[i].hasProperty
               /\ intakeListings'[i].resolutionStatus \in {"partial", "failed"} =>
           is.status = intakeListings'[i].resolutionStatus
  PROVE  IntakeIInv'
<1> DEFINE n == Len(intakeAttempts)
<1>1. /\ IntakeTypeOK /\ DOMAIN intakeAttempts = 1 .. n /\ n \in Nat
  BY IntakeTables DEF IntakeIInv
<1>2. /\ Len(intakeAttempts') = n + 1 /\ DOMAIN intakeAttempts' = 1 .. n + 1
      /\ \A a \in DOMAIN intakeAttempts : intakeAttempts'[a] = intakeAttempts[a]
      /\ intakeAttempts'[n + 1].listing = i
      /\ intakeAttempts'[n + 1].status = is.status
  BY <1>1, AttemptAdded
<1>3. ASSUME NEW a \in DOMAIN intakeAttempts'
      PROVE  a \in DOMAIN intakeAttempts \/ a = n + 1
  BY <1>1, <1>2
<1>4. ASSUME NEW a \in DOMAIN intakeAttempts', NEW k, k = intakeAttempts'[a].listing, k # 0
      PROVE  Oldest(k)'
  <2>1. CASE a \in DOMAIN intakeAttempts
    BY <1>2, <1>4, <2>1 DEF IntakeIInv, OnOldest
  <2>2. CASE a = n + 1
    BY <1>2, <1>4, <2>2
  <2> QED
    BY <1>3, <1>4, <2>1, <2>2
<1>5. ASSUME NEW a \in DOMAIN intakeAttempts', Shown(a)'
      PROVE  ToldTheSame(intakeAttempts'[a], intakeListings'[intakeAttempts'[a].listing])
  <2>1. CASE a \in DOMAIN intakeAttempts
    <3>1. intakeAttempts'[a] = intakeAttempts[a] /\ intakeAttempts[a].listing # 0
      BY <1>2, <1>5, <2>1 DEF Shown
    <3>2. intakeListings'[intakeAttempts[a].listing] = intakeListings[intakeAttempts[a].listing]
      <4> SUFFICES ASSUME intakeAttempts[a].listing = i,
                          intakeListings'[i].source \notin ListingUrls
                   PROVE  FALSE
        BY <2>1, <3>1
      <4>1. n + 1 \in a + 1 .. Len(intakeAttempts')
        BY <1>1, <1>2, <2>1
      <4> QED
        BY <1>2, <1>5, <3>1, <4>1 DEF Shown
    <3> QED
      BY <1>1, <1>2, <1>5, <2>1, <3>1, <3>2, StaysTold
  <2>2. CASE a = n + 1
    BY <1>2, <1>5, <2>2 DEF Shown, ToldTheSame
  <2> QED
    BY <1>3, <2>1, <2>2
<1>6. OnOldest'
  BY <1>4 DEF OnOldest, Oldest
<1>7. AttemptsAgree'
  BY <1>5, <1>6, AgreeMeansNext DEF ShownTold
<1> QED
  BY <1>6, <1>7 DEF IntakeIInv

LEMMA NewListings ==
  /\ \A url \in ListingUrls : /\ PendingListing(url) \in SourceListing
                              /\ PendingListing(url).source = url
                              /\ PendingListing(url).resolutionStatus = "pending"
  /\ \A address \in Addresses, resolution \in {"matched", "ambiguous_match", "no_match"} :
       /\ Resolved(address, resolution) \in SourceListing
       /\ Resolved(address, resolution).source = address
       /\ address \notin ListingUrls
       /\ AttemptStatusFromResolution(resolution).status \in AttemptStatuses
       /\ AttemptStatusFromResolution(resolution).failureMode \in Modes
       /\ (/\ ~Resolved(address, resolution).hasProperty
           /\ Resolved(address, resolution).resolutionStatus \in {"partial", "failed"}) =>
            AttemptStatusFromResolution(resolution).status =
              Resolved(address, resolution).resolutionStatus
<1>1. ASSUME NEW url \in ListingUrls
      PROVE  /\ PendingListing(url) \in SourceListing
             /\ PendingListing(url).source = url
             /\ PendingListing(url).resolutionStatus = "pending"
  BY DEF PendingListing, SourceListing, AttemptStatuses, Modes
<1>2. ASSUME NEW address \in Addresses, NEW resolution \in {"matched", "ambiguous_match", "no_match"}
      PROVE  /\ Resolved(address, resolution) \in SourceListing
             /\ Resolved(address, resolution).source = address
             /\ address \notin ListingUrls
             /\ AttemptStatusFromResolution(resolution).status \in AttemptStatuses
             /\ AttemptStatusFromResolution(resolution).failureMode \in Modes
             /\ (/\ ~Resolved(address, resolution).hasProperty
                 /\ Resolved(address, resolution).resolutionStatus \in {"partial", "failed"}) =>
                  AttemptStatusFromResolution(resolution).status =
                    Resolved(address, resolution).resolutionStatus
  <2>0. address \notin ListingUrls
    BY ListingIntakeAssumption
  <2>1. CASE resolution = "matched"
    BY <2>0, <2>1 DEF Resolved, AttemptStatusFromResolution, SourceListing, AttemptStatuses, Modes
  <2>2. CASE resolution = "ambiguous_match"
    BY <2>0, <2>2 DEF Resolved, AttemptStatusFromResolution, SourceListing, AttemptStatuses, Modes
  <2>3. CASE resolution = "no_match"
    BY <2>0, <2>3 DEF Resolved, AttemptStatusFromResolution, SourceListing, AttemptStatuses, Modes
  <2> QED
    BY <2>1, <2>2, <2>3
<1> QED
  BY <1>1, <1>2

\* The types after a listing, an attempt, or both were added.
LEMMA TypesAfterInserts ==
  ASSUME IntakeTypeOK,
         UNCHANGED intakeListings \/ \E row \in SourceListing : InsertListing(row),
         \/ UNCHANGED intakeAttempts
         \/ \E i \in 0 .. MaxListings :
              \E is \in [status : AttemptStatuses, failureMode : Modes] : InsertAttempt(i, is)
  PROVE  IntakeTypeOK'
<1>1. intakeListings' \in Seq(SourceListing) /\ Len(intakeListings') <= MaxListings
  <2>1. CASE UNCHANGED intakeListings
    BY <2>1 DEF IntakeTypeOK
  <2>2. CASE \E row \in SourceListing : InsertListing(row)
    BY <2>2, ListingAdded
  <2> QED
    BY <2>1, <2>2
<1>2. intakeAttempts' \in Seq(Attempt) /\ Len(intakeAttempts') <= MaxIntakes
  <2>1. CASE UNCHANGED intakeAttempts
    BY <2>1 DEF IntakeTypeOK
  <2>2. ASSUME NEW i \in 0 .. MaxListings, NEW is \in [status : AttemptStatuses, failureMode : Modes],
               InsertAttempt(i, is)
        PROVE  intakeAttempts' \in Seq(Attempt) /\ Len(intakeAttempts') <= MaxIntakes
    <3>1. is.status \in AttemptStatuses /\ is.failureMode \in Modes
      OBVIOUS
    <3> QED
      BY <2>2, <3>1, AttemptAdded
  <2> QED
    BY <2>1, <2>2
<1> QED
  BY <1>1, <1>2 DEF IntakeTypeOK

LEMMA DuplicateKeeps ==
  ASSUME IntakeIInv, NEW url \in ListingUrls, SubmitDuplicate(url)
  PROVE  IntakeIInv'
<1>0. IntakeTypeOK
  BY DEF IntakeIInv
<1>1. PICK i \in FindExisting(url) :
        InsertAttempt(i, AttemptStatusFrom(intakeListings[i])) /\ UNCHANGED intakeListings
  BY DEF SubmitDuplicate
<1> DEFINE is == AttemptStatusFrom(intakeListings[i])
<1>2. /\ Oldest(i) /\ i \in DOMAIN intakeListings /\ i \in 0 .. MaxListings
  BY <1>0, ExistingIsOldest
<1>3. intakeListings[i] \in SourceListing
  BY <1>0, <1>2, IntakeTables
<1>4. /\ is.status \in AttemptStatuses /\ is.failureMode \in Modes
      /\ (/\ ~intakeListings[i].hasProperty
          /\ intakeListings[i].resolutionStatus \in {"partial", "failed"}) =>
           is.status = intakeListings[i].resolutionStatus
  BY <1>3, StatusTold
<1>5. is \in [status : AttemptStatuses, failureMode : Modes]
  BY <1>4 DEF AttemptStatusFrom
<1> HIDE DEF is
<1>6. InsertAttempt(i, is)
  BY <1>1 DEF is
<1>7. IntakeTypeOK'
  BY <1>0, <1>1, <1>2, <1>5, <1>6, TypesAfterInserts
<1>8. \A k : Oldest(k) => Oldest(k)'
  BY <1>1 DEF Oldest
<1> QED
  BY <1>1, <1>2, <1>4, <1>6, <1>7, <1>8, SubmissionKeeps

LEMMA NewKeeps ==
  ASSUME IntakeIInv, NEW url \in ListingUrls, SubmitNew(url)
  PROVE  IntakeIInv'
<1> DEFINE i == Len(intakeListings) + 1
           is == [status |-> "pending", failureMode |-> "none"]
           row == PendingListing(url)
<1>0. IntakeTypeOK
  BY DEF IntakeIInv
<1>1. row \in SourceListing /\ row.source = url /\ row.resolutionStatus = "pending"
  BY NewListings
<1>2. InsertListing(row) /\ InsertAttempt(i, is) /\ FindExisting(url) = {}
  BY DEF SubmitNew
<1>3. is \in [status : AttemptStatuses, failureMode : Modes]
  BY DEF AttemptStatuses, Modes
<1>4. i \in 0 .. MaxListings /\ DOMAIN intakeListings = 1 .. Len(intakeListings)
      /\ Len(intakeListings) \in Nat
  BY <1>0, <1>2, IntakeTables DEF InsertListing
<1> HIDE DEF is, row
<1>5. IntakeTypeOK'
  BY <1>0, <1>1, <1>2, <1>3, <1>4, TypesAfterInserts
<1>6. \A k \in DOMAIN intakeListings : intakeListings[k].source # row.source
  BY <1>0, <1>1, <1>2, NoneExisting
<1>7. /\ \A k : Oldest(k) => Oldest(k)'
      /\ \A k : k = Len(intakeListings) + 1 => Oldest(k)'
  BY <1>0, <1>1, <1>2, <1>6, OldestStays
<1>8. /\ intakeListings'[i].resolutionStatus = "pending"
      /\ \A k \in DOMAIN intakeListings : intakeListings'[k] = intakeListings[k]
  BY <1>0, <1>1, <1>2, ListingAdded
<1>9. \A a \in DOMAIN intakeAttempts : intakeAttempts[a].listing # 0 =>
        intakeListings'[intakeAttempts[a].listing] = intakeListings[intakeAttempts[a].listing]
  BY <1>8 DEF IntakeIInv, OnOldest, Oldest
<1>10. is.status \in AttemptStatuses /\ is.failureMode \in Modes
  BY <1>3
<1>11. PICK j \in 0 .. MaxListings : j = i
  BY <1>4
<1>12. InsertAttempt(j, is) /\ (j # 0 => Oldest(j)')
  BY <1>2, <1>7, <1>11
<1>13. intakeListings'[j].resolutionStatus = "pending"
  BY <1>8, <1>11
<1> HIDE DEF i
<1> QED
  BY <1>5, <1>7, <1>9, <1>10, <1>12, <1>13, SubmissionKeeps

LEMMA ProcessKeeps ==
  ASSUME IntakeIInv, NEW url \in ListingUrls, ProcessUrl(url)
  PROVE  IntakeIInv'
<1> DEFINE row == PendingListing(url)
<1>0. IntakeTypeOK
  BY DEF IntakeIInv
<1>1. row \in SourceListing /\ InsertListing(row) /\ UNCHANGED intakeAttempts
  BY NewListings DEF ProcessUrl
<1> HIDE DEF row
<1>2. IntakeTypeOK'
  BY <1>0, <1>1, TypesAfterInserts
<1>3. \A k : Oldest(k) => Oldest(k)'
  BY <1>0, <1>1, OldestStays
<1>4. OnOldest'
  <2>1. ASSUME NEW a \in DOMAIN intakeAttempts', NEW k, k = intakeAttempts'[a].listing, k # 0
        PROVE  Oldest(k)'
    BY <1>1, <1>3, <2>1 DEF IntakeIInv, OnOldest
  <2> QED
    BY <2>1 DEF OnOldest, Oldest
<1>5. \A k \in DOMAIN intakeListings : intakeListings'[k] = intakeListings[k]
  BY <1>0, <1>1, ListingAdded
<1>6. ShownTold'
  <2>1. ASSUME NEW a \in DOMAIN intakeAttempts', Shown(a)'
        PROVE  ToldTheSame(intakeAttempts'[a], intakeListings'[intakeAttempts'[a].listing])
    <3>1. a \in DOMAIN intakeAttempts /\ intakeAttempts[a].listing # 0
      BY <1>1, <2>1 DEF Shown
    <3>2. intakeListings'[intakeAttempts[a].listing] = intakeListings[intakeAttempts[a].listing]
      BY <1>5, <3>1 DEF IntakeIInv, OnOldest, Oldest
    <3>3. Len(intakeAttempts') \in Nat /\ Len(intakeAttempts') >= Len(intakeAttempts)
      BY <1>0, <1>1, IntakeTables
    <3> QED
      BY <1>1, <2>1, <3>1, <3>2, <3>3, StaysTold
  <2> QED
    BY <2>1 DEF ShownTold
<1> QED
  BY <1>2, <1>4, <1>6, AgreeMeansNext DEF IntakeIInv

LEMMA FailureKeeps ==
  ASSUME IntakeIInv, NEW mode \in {"unsupported_url", "malformed_url"}, RecordAttemptFailure(mode)
  PROVE  IntakeIInv'
<1> DEFINE is == [status |-> IF mode = "unsupported_url" THEN "unsupported" ELSE "failed",
                  failureMode |-> mode]
<1>0. IntakeTypeOK /\ 0 \in 0 .. MaxListings
  BY IntakeTables DEF IntakeIInv
<1>1. InsertAttempt(0, is) /\ UNCHANGED intakeListings
  BY DEF RecordAttemptFailure
<1>2. is \in [status : AttemptStatuses, failureMode : Modes]
  BY DEF AttemptStatuses, Modes
<1> HIDE DEF is
<1>3. is.status \in AttemptStatuses /\ is.failureMode \in Modes
  BY <1>2
<1>4. IntakeTypeOK'
  BY <1>0, <1>1, <1>2, TypesAfterInserts
<1>5. \A k : Oldest(k) => Oldest(k)'
  BY <1>1 DEF Oldest
<1>6. PICK j \in 0 .. MaxListings : j = 0
  BY <1>0
<1>7. InsertAttempt(j, is)
  BY <1>1, <1>6
<1> QED
  BY <1>1, <1>3, <1>4, <1>5, <1>6, <1>7, SubmissionKeeps

LEMMA AddressKeeps ==
  ASSUME IntakeIInv, NEW address \in Addresses,
         NEW resolution \in {"matched", "ambiguous_match", "no_match"},
         CreateAddressIntake(address, resolution)
  PROVE  IntakeIInv'
<1> DEFINE is == AttemptStatusFromResolution(resolution)
           row == Resolved(address, resolution)
<1>0. IntakeTypeOK
  BY DEF IntakeIInv
<1>1. /\ row \in SourceListing /\ row.source = address /\ row.source \notin ListingUrls
      /\ is.status \in AttemptStatuses /\ is.failureMode \in Modes
      /\ (/\ ~row.hasProperty
          /\ row.resolutionStatus \in {"partial", "failed"}) => is.status = row.resolutionStatus
  BY NewListings
<1>2. is \in [status : AttemptStatuses, failureMode : Modes]
  BY <1>1 DEF AttemptStatusFromResolution
<1>3. CASE FindExisting(address) = {}
  <2> DEFINE i == Len(intakeListings) + 1
  <2>1. InsertListing(row) /\ InsertAttempt(i, is)
    BY <1>3 DEF CreateAddressIntake
  <2>2. i \in 0 .. MaxListings /\ DOMAIN intakeListings = 1 .. Len(intakeListings)
        /\ Len(intakeListings) \in Nat
    BY <1>0, <2>1, IntakeTables DEF InsertListing
  <2> HIDE DEF is, row
  <2>3. IntakeTypeOK'
    BY <1>0, <1>1, <1>2, <2>1, <2>2, TypesAfterInserts
  <2>4. \A k \in DOMAIN intakeListings : intakeListings[k].source # row.source
    BY <1>0, <1>1, <1>3, NoneExisting
  <2>5. /\ \A k : Oldest(k) => Oldest(k)'
        /\ \A k : k = Len(intakeListings) + 1 => Oldest(k)'
    BY <1>0, <1>1, <2>1, <2>4, OldestStays
  <2>6. /\ intakeListings'[i] = row
        /\ \A k \in DOMAIN intakeListings : intakeListings'[k] = intakeListings[k]
    BY <1>0, <1>1, <2>1, ListingAdded
  <2>7. \A a \in DOMAIN intakeAttempts : intakeAttempts[a].listing # 0 =>
          intakeListings'[intakeAttempts[a].listing] = intakeListings[intakeAttempts[a].listing]
    BY <2>6 DEF IntakeIInv, OnOldest, Oldest
  <2>8. PICK j \in 0 .. MaxListings : j = i
    BY <2>2
  <2>9. InsertAttempt(j, is) /\ (j # 0 => Oldest(j)')
    BY <2>1, <2>5, <2>8
  <2>10. intakeListings'[j] = row
    BY <2>6, <2>8
  <2> HIDE DEF i
  <2> QED
    BY <1>1, <2>3, <2>5, <2>7, <2>9, <2>10, SubmissionKeeps
<1>4. CASE FindExisting(address) # {}
  <2>1. PICK i : i \in FindExisting(address)
    BY <1>4
  <2>2. /\ Oldest(i) /\ intakeListings[i].source = address
        /\ FindExisting(address) = {i} /\ Min(FindExisting(address)) = i
        /\ i \in DOMAIN intakeListings /\ i # 0 /\ i \in 0 .. MaxListings
    BY <1>0, <2>1, ExistingIsOldest
  <2>3. /\ intakeListings' = [k \in DOMAIN intakeListings |->
              IF k \in FindExisting(address) THEN row ELSE intakeListings[k]]
        /\ InsertAttempt(Min(FindExisting(address)), is)
    BY <1>4 DEF CreateAddressIntake
  <2> HIDE DEF is, row
  <2>4. InsertAttempt(i, is)
    BY <2>2, <2>3
  <2>5. /\ DOMAIN intakeListings' = DOMAIN intakeListings
        /\ intakeListings'[i] = row
        /\ \A k \in DOMAIN intakeListings : k # i => intakeListings'[k] = intakeListings[k]
    BY <2>2, <2>3
  <2>6. \A k \in DOMAIN intakeListings : intakeListings'[k].source = intakeListings[k].source
    BY <1>1, <2>2, <2>5
  <2>7. \A k : Oldest(k) => Oldest(k)'
    BY <2>5, <2>6, OldestRewritten
  <2>8. IntakeTypeOK'
    <3>1. intakeListings' \in Seq(SourceListing) /\ Len(intakeListings') = Len(intakeListings)
      <4>1. \A k \in 1 .. Len(intakeListings) : intakeListings'[k] \in SourceListing
        BY <1>0, <1>1, <2>5, IntakeTables
      <4>2. intakeListings' = [k \in 1 .. Len(intakeListings) |->
              IF k \in FindExisting(address) THEN row ELSE intakeListings[k]]
        BY <1>0, <2>3, IntakeTables
      <4>3. Len(intakeListings) \in Nat
        BY <1>0, IntakeTables
      <4> DEFINE n == Len(intakeListings)
                 new == intakeListings'
      <4>4. new \in [1 .. n -> SourceListing]
        BY <4>1, <4>2
      <4>5. new \in Seq(SourceListing)
        BY <4>3, <4>4, SeqDef
      <4>6. Len(new) = n
        BY <4>3, <4>4, <4>5, LenProperties
      <4> QED
        BY <4>5, <4>6
    <3>2. intakeAttempts' \in Seq(Attempt) /\ Len(intakeAttempts') <= MaxIntakes
      BY <1>0, <1>1, <2>2, <2>4, AttemptAdded
    <3> QED
      BY <1>0, <3>1, <3>2 DEF IntakeTypeOK
  <2>9. \A a \in DOMAIN intakeAttempts : intakeAttempts[a].listing # 0 =>
          \/ intakeListings'[intakeAttempts[a].listing] = intakeListings[intakeAttempts[a].listing]
          \/ intakeAttempts[a].listing = i /\ intakeListings'[i].source \notin ListingUrls
    BY <1>1, <2>5 DEF IntakeIInv, OnOldest, Oldest
  <2>10. Oldest(i)'
    BY <2>2, <2>7
  <2>11. i # 0 /\ ~intakeListings'[i].hasProperty
               /\ intakeListings'[i].resolutionStatus \in {"partial", "failed"} =>
           is.status = intakeListings'[i].resolutionStatus
    BY <1>1, <2>5
  <2> QED
    BY <1>1, <2>2, <2>4, <2>7, <2>8, <2>9, <2>10, <2>11, SubmissionKeeps
<1> QED
  BY <1>3, <1>4

LEMMA DossierKeeps ==
  ASSUME IntakeIInv, NEW a \in DOMAIN intakeAttempts, MarkAttemptDossierReady(a)
  PROVE  IntakeIInv'
<1> DEFINE new == [intakeAttempts[a] EXCEPT !.dossierReady = TRUE,
                     !.status = IF @ = "partial" THEN "partial" ELSE "ready"]
<1>0. IntakeTypeOK
  BY DEF IntakeIInv
<1>1. /\ intakeAttempts \in Seq(Attempt) /\ DOMAIN intakeAttempts = 1 .. Len(intakeAttempts)
      /\ Len(intakeAttempts) \in Nat /\ intakeAttempts[a] \in Attempt
  BY <1>0, IntakeTables
<1>2. /\ new \in Attempt /\ new.listing = intakeAttempts[a].listing /\ new.dossierReady
  BY <1>1 DEF Attempt, AttemptStatuses
<1>3. intakeAttempts' = [intakeAttempts EXCEPT ![a] = new] /\ UNCHANGED intakeListings
  BY DEF MarkAttemptDossierReady
<1> HIDE DEF new
<1>4. intakeAttempts' \in Seq(Attempt) /\ Len(intakeAttempts') = Len(intakeAttempts)
  BY <1>1, <1>2, <1>3, ExceptSeq
<1>5. /\ DOMAIN intakeAttempts' = DOMAIN intakeAttempts /\ intakeAttempts'[a] = new
      /\ \A b \in DOMAIN intakeAttempts : b # a => intakeAttempts'[b] = intakeAttempts[b]
  BY <1>3
<1>6. \A b \in DOMAIN intakeAttempts : intakeAttempts'[b].listing = intakeAttempts[b].listing
  BY <1>2, <1>5
<1>7. IntakeTypeOK'
  BY <1>3, <1>4, <1>0 DEF IntakeTypeOK
<1>8. OnOldest'
  BY <1>3, <1>5, <1>6 DEF IntakeIInv, OnOldest, Oldest
<1>9. ShownTold'
  <2>1. ASSUME NEW b \in DOMAIN intakeAttempts', Shown(b)'
        PROVE  ToldTheSame(intakeAttempts'[b], intakeListings'[intakeAttempts'[b].listing])
    <3>1. b # a /\ b \in DOMAIN intakeAttempts
      BY <1>2, <1>5, <2>1 DEF Shown
    <3>2. intakeAttempts'[b] = intakeAttempts[b]
      BY <1>5, <3>1
    <3>3. Len(intakeAttempts') \in Nat /\ Len(intakeAttempts') >= Len(intakeAttempts)
      BY <1>1, <1>4
    <3>4. intakeListings'[intakeAttempts[b].listing] = intakeListings[intakeAttempts[b].listing]
      BY <1>3
    <3> QED
      BY <1>6, <2>1, <3>1, <3>2, <3>3, <3>4, StaysTold
  <2> QED
    BY <2>1 DEF ShownTold
<1> QED
  BY <1>7, <1>8, <1>9, AgreeMeansNext DEF IntakeIInv

\* All attempts of the listing are told what is recorded on it.
LEMMA OutcomeKeeps ==
  ASSUME IntakeIInv, NEW i \in DOMAIN intakeListings, NEW status \in AttemptStatuses,
         NEW mode \in {"none", "parser_failed"}, NEW found \in BOOLEAN,
         RecordSourceListingOutcome(i, status, mode, found)
  PROVE  IntakeIInv'
<1> DEFINE row == [intakeListings[i] EXCEPT
                     !.hasProperty = @ \/ found,
                     !.status = CASE status = "ready" -> IF found THEN "merged" ELSE "extracted"
                                  [] status = "partial" -> "extracted"
                                  [] status \in {"failed", "unsupported"} -> "failed"
                                  [] OTHER -> "pending",
                     !.resolutionStatus = IF status = "unsupported" THEN "failed" ELSE status,
                     !.failureMode = mode]
           told(a) == [intakeAttempts[a] EXCEPT !.status = status, !.failureMode = OrElse(mode, @)]
<1>0. IntakeTypeOK
  BY DEF IntakeIInv
<1>1. /\ intakeAttempts \in Seq(Attempt) /\ DOMAIN intakeAttempts = 1 .. Len(intakeAttempts)
      /\ Len(intakeAttempts) \in Nat
      /\ intakeListings \in Seq(SourceListing) /\ DOMAIN intakeListings = 1 .. Len(intakeListings)
      /\ Len(intakeListings) \in Nat /\ intakeListings[i] \in SourceListing
      /\ \A a \in DOMAIN intakeAttempts : intakeAttempts[a] \in Attempt
  BY <1>0, IntakeTables
<1>2. /\ row \in SourceListing /\ row.source = intakeListings[i].source
      /\ row.resolutionStatus = IF status = "unsupported" THEN "failed" ELSE status
  <2>1. CASE status = "ready"
    BY <1>1, <2>1 DEF SourceListing, AttemptStatuses, Modes
  <2>2. CASE status = "partial"
    BY <1>1, <2>2 DEF SourceListing, AttemptStatuses, Modes
  <2>3. CASE status \in {"failed", "unsupported"}
    BY <1>1, <2>3 DEF SourceListing, AttemptStatuses, Modes
  <2>4. CASE status = "pending"
    BY <1>1, <2>4 DEF SourceListing, AttemptStatuses, Modes
  <2> QED
    BY <2>1, <2>2, <2>3, <2>4 DEF AttemptStatuses
<1>3. \A a \in DOMAIN intakeAttempts :
        /\ told(a) \in Attempt /\ told(a).listing = intakeAttempts[a].listing
        /\ told(a).status = status
  BY <1>1 DEF Attempt, Modes, OrElse
<1>4a. intakeListings' = [intakeListings EXCEPT ![i] = row]
  BY Zenon DEF RecordSourceListingOutcome
<1>4b. intakeAttempts' = [a \in DOMAIN intakeAttempts |->
           IF intakeAttempts[a].listing # i THEN intakeAttempts[a] ELSE told(a)]
  BY Zenon DEF RecordSourceListingOutcome, TouchAttempts
<1>4. /\ intakeListings' = [intakeListings EXCEPT ![i] = row]
      /\ intakeAttempts' = [a \in DOMAIN intakeAttempts |->
           IF intakeAttempts[a].listing # i THEN intakeAttempts[a] ELSE told(a)]
  BY <1>4a, <1>4b
<1> HIDE DEF row, told
<1>5. intakeListings' \in Seq(SourceListing) /\ Len(intakeListings') = Len(intakeListings)
  BY <1>1, <1>2, <1>4, ExceptSeq
<1>6. intakeAttempts' \in Seq(Attempt) /\ Len(intakeAttempts') = Len(intakeAttempts)
  <2> DEFINE n == Len(intakeAttempts)
             new == intakeAttempts'
  <2>1. new \in [1 .. n -> Attempt]
    BY <1>1, <1>3, <1>4
  <2>2. new \in Seq(Attempt)
    BY <1>1, <2>1, SeqDef
  <2>3. Len(new) = n
    BY <1>1, <2>1, <2>2, LenProperties
  <2> QED
    BY <2>2, <2>3
<1>7. /\ DOMAIN intakeListings' = DOMAIN intakeListings /\ intakeListings'[i] = row
      /\ \A k \in DOMAIN intakeListings : k # i => intakeListings'[k] = intakeListings[k]
  BY <1>4
<1>8. /\ DOMAIN intakeAttempts' = DOMAIN intakeAttempts
      /\ \A a \in DOMAIN intakeAttempts :
           /\ intakeAttempts[a].listing # i => intakeAttempts'[a] = intakeAttempts[a]
           /\ intakeAttempts[a].listing = i => intakeAttempts'[a] = told(a)
  BY <1>4
<1>9. \A a \in DOMAIN intakeAttempts : intakeAttempts'[a].listing = intakeAttempts[a].listing
  BY <1>3, <1>8
<1>10. IntakeTypeOK'
  BY <1>0, <1>5, <1>6 DEF IntakeTypeOK
<1>11. \A k : Oldest(k) => Oldest(k)'
  <2>1. \A k \in DOMAIN intakeListings : intakeListings'[k].source = intakeListings[k].source
    BY <1>2, <1>7
  <2> QED
    BY <1>7, <2>1, OldestRewritten
<1>12. OnOldest'
  <2>1. ASSUME NEW a \in DOMAIN intakeAttempts', NEW k, k = intakeAttempts'[a].listing, k # 0
        PROVE  Oldest(k)'
    BY <1>8, <1>9, <1>11, <2>1 DEF IntakeIInv, OnOldest
  <2> QED
    BY <2>1 DEF OnOldest, Oldest
<1>13. ShownTold'
  <2>1. ASSUME NEW a \in DOMAIN intakeAttempts', Shown(a)'
        PROVE  ToldTheSame(intakeAttempts'[a], intakeListings'[intakeAttempts'[a].listing])
    <3>0. a \in DOMAIN intakeAttempts
      BY <1>8, <2>1
    <3>1. CASE intakeAttempts[a].listing = i
      <4>1. intakeAttempts'[a] = told(a) /\ intakeListings'[intakeAttempts'[a].listing] = row
        BY <1>7, <1>8, <1>9, <3>0, <3>1
      <4> QED
        BY <1>2, <1>3, <3>0, <4>1 DEF ToldTheSame, AttemptStatuses
    <3>2. CASE intakeAttempts[a].listing # i
      <4>1. intakeAttempts'[a] = intakeAttempts[a]
        BY <1>8, <3>0, <3>2
      <4>2. intakeAttempts[a].listing \in DOMAIN intakeListings
        BY <2>1, <3>0, <4>1 DEF Shown, IntakeIInv, OnOldest, Oldest
      <4>3. intakeListings'[intakeAttempts[a].listing] = intakeListings[intakeAttempts[a].listing]
        BY <1>7, <3>2, <4>2
      <4>4. Len(intakeAttempts') \in Nat /\ Len(intakeAttempts') >= Len(intakeAttempts)
        BY <1>1, <1>6
      <4> QED
        BY <1>9, <2>1, <3>0, <4>1, <4>3, <4>4, StaysTold
    <3> QED
      BY <3>1, <3>2
  <2> QED
    BY <2>1 DEF ShownTold
<1> QED
  BY <1>10, <1>12, <1>13, AgreeMeansNext DEF IntakeIInv

LEMMA IntakeStep == IntakeIInv /\ [IntakeNext]_intakeVars => IntakeIInv'
<1> SUFFICES ASSUME IntakeIInv, [IntakeNext]_intakeVars
             PROVE  IntakeIInv'
  OBVIOUS
<1>1. ASSUME NEW url \in ListingUrls, SubmitDuplicate(url) \/ SubmitNew(url) \/ ProcessUrl(url)
      PROVE  IntakeIInv'
  BY <1>1, DuplicateKeeps, NewKeeps, ProcessKeeps
<1>2. ASSUME NEW mode \in {"unsupported_url", "malformed_url"}, RecordAttemptFailure(mode)
      PROVE  IntakeIInv'
  BY <1>2, FailureKeeps
<1>3. ASSUME NEW address \in Addresses,
             NEW resolution \in {"matched", "ambiguous_match", "no_match"},
             CreateAddressIntake(address, resolution)
      PROVE  IntakeIInv'
  BY <1>3, AddressKeeps
<1>4. ASSUME NEW a \in DOMAIN intakeAttempts, MarkAttemptDossierReady(a)
      PROVE  IntakeIInv'
  BY <1>4, DossierKeeps
<1>5. ASSUME NEW i \in DOMAIN intakeListings, NEW status \in AttemptStatuses,
             NEW mode \in {"none", "parser_failed"}, NEW found \in BOOLEAN,
             RecordSourceListingOutcome(i, status, mode, found)
      PROVE  IntakeIInv'
  BY <1>5, OutcomeKeeps
<1>6. CASE UNCHANGED intakeVars
  <2>1. UNCHANGED <<intakeListings, intakeAttempts>>
    BY <1>6 DEF intakeVars
  <2>2. IntakeTypeOK' /\ OnOldest'
    BY <2>1 DEF IntakeIInv, IntakeTypeOK, OnOldest, Oldest
  <2>3. AttemptsAgree'
    BY <2>1 DEF IntakeIInv, AttemptsAgree, AttemptStatusFrom
  <2> QED
    BY <2>2, <2>3 DEF IntakeIInv
<1> QED
  BY <1>1, <1>2, <1>3, <1>4, <1>5, <1>6 DEF IntakeNext

LEMMA OneListing == IntakeIInv => IntakeAgrees
<1> SUFFICES ASSUME IntakeIInv, NEW a \in DOMAIN intakeAttempts, NEW b \in DOMAIN intakeAttempts,
                    NEW i, NEW k, i = intakeAttempts[a].listing, k = intakeAttempts[b].listing,
                    i # 0, k # 0, intakeListings[i].source = intakeListings[k].source
             PROVE  i = k
  BY DEF IntakeAgrees, IntakeIInv, OneListingPerSource
<1>1. Oldest(i) /\ Oldest(k)
  BY DEF IntakeIInv, OnOldest
<1>2. i <= k /\ k <= i
  BY <1>1 DEF Oldest
<1>3. i \in Nat /\ k \in Nat
  BY <1>1, IntakeTables DEF IntakeIInv, Oldest
<1> QED
  BY <1>2, <1>3

\* However submissions, the backend and the extracting worker interleave, all
\* attempts for a link or an address hang on one listing, and an attempt tells
\* its visitor what the listing tells the next one.
THEOREM IntakeAlwaysAgrees == IntakeSpec => []IntakeAgrees
<1>1. IntakeInit => IntakeIInv
  BY ListingIntakeAssumption
     DEF IntakeInit, IntakeIInv, IntakeTypeOK, OnOldest, AttemptsAgree
<1> QED
  BY <1>1, IntakeStep, OneListing, PTL DEF IntakeSpec

-----------------------------------------------------------------------------
(***************************************************************************)
(* The limiter.  What a bucket holds is the end of the list of all the     *)
(* requests let in, and all of it that lies in the last window             *)
(* (Remembers), so that its count is the true one when the next is let in. *)
(***************************************************************************)
Ticks == 1 .. MaxTick

LEMMA LimiterBounds ==
  /\ MaxPerWindow \in Nat /\ MaxPerWindow > 0 /\ WindowTicks \in Nat /\ WindowTicks > 0
  /\ MaxTick \in Nat /\ MaxTick > 0 /\ MaxBlock \in Nat /\ MaxFailures \in Nat
  /\ BaseBlock \in Nat
BY LimiterAssumption

\* How many of some times in order are no later than t.
LEMMA OlderIs ==
  ASSUME NEW times \in Seq(Ticks), InOrder(times), NEW t \in Int
  PROVE  /\ Older(times, t) \in 0 .. Len(times)
         /\ \A i \in DOMAIN times : i <= Older(times, t) <=> times[i] <= t
<1>1. /\ Len(times) \in Nat /\ DOMAIN times = 1 .. Len(times)
      /\ \A i \in DOMAIN times : times[i] \in Int
  <2>1. \A i \in DOMAIN times : times[i] \in Ticks
    <3> HIDE DEF Ticks
    <3> QED
      OBVIOUS
  <2>2. Len(times) \in Nat /\ DOMAIN times = 1 .. Len(times)
    BY LenProperties
  <2> QED
    BY <2>1, <2>2, LimiterBounds DEF Ticks
<1> DEFINE S == {i \in DOMAIN times : times[i] <= t}
<1>2. \E n \in 0 .. Len(times) : \A i \in DOMAIN times : i <= n <=> times[i] <= t
  <2>1. CASE S = {}
    <3>1. \A i \in DOMAIN times : i <= 0 <=> times[i] <= t
      BY <1>1, <2>1
    <3> QED
      BY <1>1, <3>1
  <2>2. CASE S # {}
    <3>1. PICK n \in S : \A k \in S : k <= n
      <4>1. S \subseteq 1 .. Len(times)
        BY <1>1
      <4> HIDE DEF S
      <4> QED
        BY <1>1, <2>2, <4>1, LastOf
    <3>2. n \in DOMAIN times /\ times[n] <= t
      OBVIOUS
    <3>3. \A i \in DOMAIN times : i <= n => times[i] <= t
      BY <1>1, <3>2 DEF InOrder
    <3>4. \A i \in DOMAIN times : times[i] <= t => i <= n
      BY <3>1
    <3>5. n \in 0 .. Len(times)
      BY <1>1, <3>2
    <3>6. \A i \in DOMAIN times : i <= n <=> times[i] <= t
      BY <3>3, <3>4
    <3> HIDE DEF S
    <3> QED
      BY <3>5, <3>6
  <2> QED
    BY <2>1, <2>2
<1> QED
  BY <1>2 DEF Older

LEMMA SinceIs ==
  ASSUME NEW times \in Seq(Ticks), InOrder(times), NEW t \in Int
  PROVE  LET n == Older(times, t)
         IN /\ Since(times, t) \in Seq(Ticks)
            /\ Len(Since(times, t)) = Len(times) - n
            /\ \A i \in 1 .. Len(times) - n : Since(times, t)[i] = times[n + i]
<1>1. PICK n : n = Older(times, t)
  OBVIOUS
<1>2. PICK m : m = Len(times)
  OBVIOUS
<1>3. m \in Nat /\ DOMAIN times = 1 .. m /\ n \in 0 .. m
  BY <1>1, <1>2, OlderIs, LenProperties
<1>4. \A i \in n + 1 .. m : times[i] \in Ticks
  <2>1. \A i \in n + 1 .. m : i \in DOMAIN times
    BY <1>3
  <2> HIDE DEF Ticks
  <2> QED
    BY <2>1
<1>5. /\ SubSeq(times, n + 1, m) \in Seq(Ticks)
      /\ Len(SubSeq(times, n + 1, m)) = IF n + 1 <= m THEN m - (n + 1) + 1 ELSE 0
      /\ \A i \in 1 .. m - (n + 1) + 1 : SubSeq(times, n + 1, m)[i] = times[n + 1 + i - 1]
  <2>1. n + 1 \in Int /\ m \in Int
    BY <1>3
  <2> HIDE DEF Ticks
  <2> QED
    BY <1>4, <2>1, SubSeqProperties
<1>6. PICK since : since = SubSeq(times, n + 1, m)
  OBVIOUS
<1>7. /\ since \in Seq(Ticks) /\ Len(since) = m - n
      /\ \A i \in 1 .. m - n : since[i] = times[n + i]
  BY <1>3, <1>5, <1>6
<1>8. Since(times, t) = since
  BY <1>1, <1>2, <1>6 DEF Since
<1> QED
  BY <1>1, <1>2, <1>7, <1>8

\* A bucket holds the end of the requests let in, all of the last window.
Remembers(held, admitted, clock) ==
  \E p \in 0 .. Len(admitted) :
    /\ Len(held) = Len(admitted) - p
    /\ \A i \in 1 .. Len(admitted) - p : held[i] = admitted[p + i]
    /\ \A i \in 1 .. p : admitted[i] <= clock - WindowTicks

Spaced(times) ==
  \A i, k \in DOMAIN times : k - i >= MaxPerWindow => times[k] - times[i] >= WindowTicks

LimiterOk(b, admitted, clock) ==
  /\ b \in Bucket /\ admitted \in Seq(Ticks) /\ clock \in Ticks
  /\ InOrder(admitted) /\ Spaced(admitted)
  /\ \A i \in DOMAIN admitted : admitted[i] <= clock
  /\ Remembers(b.requestTimestamps, admitted, clock)
  /\ b.blockedUntil <= clock + MaxBlock

LEMMA SameWindow ==
  ASSUME NEW held \in Seq(Ticks), NEW admitted \in Seq(Ticks), NEW clock \in Ticks,
         InOrder(admitted), Remembers(held, admitted, clock)
  PROVE  /\ InOrder(held)
         /\ Since(held, clock - WindowTicks) = Since(admitted, clock - WindowTicks)
<1>1. PICK p \in 0 .. Len(admitted) :
        /\ Len(held) = Len(admitted) - p
        /\ \A i \in 1 .. Len(admitted) - p : held[i] = admitted[p + i]
        /\ \A i \in 1 .. p : admitted[i] <= clock - WindowTicks
  BY DEF Remembers
<1>2. PICK m \in Nat : m = Len(admitted) /\ DOMAIN admitted = 1 .. m /\ DOMAIN held = 1 .. m - p
  BY <1>1, LenProperties
<1>3. PICK t \in Int : t = clock - WindowTicks
  BY LimiterBounds DEF Ticks
<1>4. InOrder(held)
  <2>1. ASSUME NEW i \in 1 .. m - p, NEW k \in 1 .. m - p, i <= k PROVE held[i] <= held[k]
    <3>1. p + i \in 1 .. m /\ p + k \in 1 .. m /\ p + i <= p + k
      BY <1>1, <1>2, <2>1
    <3>2. admitted[p + i] <= admitted[p + k]
      BY <1>2, <3>1 DEF InOrder
    <3> QED
      BY <1>1, <1>2, <3>2
  <2> QED
    BY <1>2, <2>1 DEF InOrder
<1>5. PICK q : q = Older(admitted, t)
  OBVIOUS
<1>6. PICK r : r = Older(held, t)
  OBVIOUS
<1>7. /\ q \in 0 .. m /\ \A i \in 1 .. m : i <= q <=> admitted[i] <= t
  BY <1>2, <1>5, OlderIs
<1>8. /\ r \in 0 .. m - p /\ \A i \in 1 .. m - p : i <= r <=> held[i] <= t
  BY <1>1, <1>2, <1>4, <1>6, OlderIs
<1>9. p <= q
  <2>1. CASE p = 0
    BY <1>7, <2>1
  <2>2. CASE p > 0
    <3>1. p \in 1 .. p /\ p \in 1 .. m
      BY <1>1, <1>2, <2>2
    <3> QED
      BY <1>1, <1>3, <1>7, <3>1
  <2> QED
    BY <1>1, <1>2, <2>1, <2>2
<1>10. q = p + r
  <2>1. \A j \in 1 .. m - p : j <= r <=> p + j <= q
    <3> SUFFICES ASSUME NEW j \in 1 .. m - p PROVE j <= r <=> p + j <= q
      OBVIOUS
    <3>1. p + j \in 1 .. m
      BY <1>1, <1>2
    <3>2. held[j] = admitted[p + j]
      BY <1>1, <1>2
    <3> QED
      BY <1>7, <1>8, <3>1, <3>2
  <2>2. CASE r < q - p
    <3>1. r + 1 \in 1 .. m - p
      BY <1>1, <1>2, <1>7, <1>8, <2>2
    <3>2. r + 1 <= r <=> p + (r + 1) <= q
      BY <2>1, <3>1
    <3> QED
      BY <1>1, <1>2, <1>7, <1>8, <2>2, <3>2
  <2>3. CASE r > q - p
    <3>1. r \in 1 .. m - p
      BY <1>1, <1>2, <1>7, <1>8, <1>9, <2>3
    <3>2. r <= r <=> p + r <= q
      BY <2>1, <3>1
    <3> QED
      BY <1>1, <1>2, <1>7, <1>8, <2>3, <3>2
  <2> QED
    BY <1>1, <1>2, <1>7, <1>8, <2>2, <2>3
<1>11. PICK one : one = Since(admitted, t)
  OBVIOUS
<1>12. PICK two : two = Since(held, t)
  OBVIOUS
<1>13. /\ one \in Seq(Ticks) /\ Len(one) = m - q /\ \A i \in 1 .. m - q : one[i] = admitted[q + i]
  BY <1>2, <1>5, <1>11, SinceIs
<1>14. /\ two \in Seq(Ticks) /\ Len(two) = m - p - r /\ \A i \in 1 .. m - p - r : two[i] = held[r + i]
  <2>1. /\ two \in Seq(Ticks) /\ Len(two) = Len(held) - r
        /\ \A i \in 1 .. Len(held) - r : two[i] = held[r + i]
    BY <1>4, <1>6, <1>12, SinceIs
  <2>2. Len(held) = m - p
    BY <1>1, <1>2
  <2> QED
    BY <2>1, <2>2
<1>15. Len(two) = Len(one) /\ Len(one) = m - q
  BY <1>1, <1>2, <1>7, <1>8, <1>10, <1>13, <1>14
<1>16. ASSUME NEW i \in 1 .. m - q PROVE two[i] = one[i]
  <2>1. i \in 1 .. m - p - r /\ r + i \in 1 .. m - p /\ p + (r + i) = q + i
    BY <1>1, <1>2, <1>7, <1>8, <1>10
  <2>2. held[r + i] = admitted[p + (r + i)]
    BY <1>1, <1>2, <2>1
  <2> QED
    BY <1>13, <1>14, <2>1, <2>2
<1>17. two = one
  <2> HIDE DEF Ticks
  <2> QED
    BY <1>13, <1>14, <1>15, <1>16, SeqEqual
<1> QED
  BY <1>3, <1>4, <1>11, <1>12, <1>17

LEMMA BlocksAreBounded ==
  ASSUME NEW failures \in 0 .. MaxFailures
  PROVE  EscalatingBlock(failures) \in Nat /\ EscalatingBlock(failures) <= MaxBlock
<1>1. PICK p \in Nat : p = PowerOfTwo[failures]
  <2>1. MaxFailures \in Nat
    BY LimiterBounds
  <2>2. PowerOfTwo = CHOOSE f : f = [n \in 0 .. MaxFailures |-> Double(f, n)]
    BY DEF PowerOfTwo, Double
  <2>3. PowerOfTwo[failures] \in Nat
    BY <2>1, <2>2, DoublingIs
  <2> QED
    BY <2>3
<1>2. PICK x \in Nat : x = BaseBlock * p
  BY LimiterBounds
<1>3. EscalatingBlock(failures) = Min({x, MaxBlock})
  BY <1>1, <1>2 DEF EscalatingBlock
<1>4. \E b \in {x, MaxBlock} : \A c \in {x, MaxBlock} : b <= c
  BY LimiterBounds
<1>5. /\ Min({x, MaxBlock}) \in {x, MaxBlock}
      /\ \A c \in {x, MaxBlock} : Min({x, MaxBlock}) <= c
  BY <1>4 DEF Min
<1> QED
  BY <1>3, <1>5, LimiterBounds

\* What the limiter decides and leaves, whatever is done with it.
LEMMA WindowFacts ==
  ASSUME NEW b, NEW admitted, NEW clock, LimiterOk(b, admitted, clock)
  PROVE  /\ ActiveTimestamps(b, clock) = Since(admitted, clock - WindowTicks)
         /\ ActiveTimestamps(b, clock) \in Seq(Ticks)
         /\ Remembers(ActiveTimestamps(b, clock), admitted, clock)
<1>1. /\ b.requestTimestamps \in Seq(Ticks) /\ admitted \in Seq(Ticks) /\ clock \in Ticks
      /\ InOrder(admitted) /\ Remembers(b.requestTimestamps, admitted, clock)
  BY DEF LimiterOk, Bucket, Ticks
<1>2. PICK t \in Int : t = clock - WindowTicks
  BY <1>1, LimiterBounds DEF Ticks
<1>3. PICK active : active = ActiveTimestamps(b, clock)
  OBVIOUS
<1>4. active = Since(admitted, t)
  BY <1>1, <1>2, <1>3, SameWindow DEF ActiveTimestamps
<1>5. PICK q : q = Older(admitted, t)
  OBVIOUS
<1>6. /\ q \in 0 .. Len(admitted) /\ \A i \in DOMAIN admitted : i <= q <=> admitted[i] <= t
  BY <1>1, <1>5, OlderIs
<1>7. /\ active \in Seq(Ticks) /\ Len(active) = Len(admitted) - q
      /\ \A i \in 1 .. Len(admitted) - q : active[i] = admitted[q + i]
  BY <1>1, <1>4, <1>5, SinceIs
<1>8. \A i \in 1 .. q : admitted[i] <= t
  <2>1. Len(admitted) \in Nat /\ DOMAIN admitted = 1 .. Len(admitted)
    BY <1>1, LenProperties
  <2>2. \A i \in 1 .. q : i \in DOMAIN admitted /\ i <= q
    BY <1>6, <2>1
  <2> QED
    BY <1>6, <2>2
<1>9. Remembers(active, admitted, clock)
  BY <1>2, <1>6, <1>7, <1>8 DEF Remembers
<1> QED
  BY <1>2, <1>3, <1>4, <1>7, <1>9

LEMMA Admitted ==
  ASSUME NEW b, NEW admitted, NEW clock, LimiterOk(b, admitted, clock),
         Len(ActiveTimestamps(b, clock)) < MaxPerWindow
  PROVE  /\ Append(admitted, clock) \in Seq(Ticks)
         /\ InOrder(Append(admitted, clock)) /\ Spaced(Append(admitted, clock))
         /\ \A i \in DOMAIN Append(admitted, clock) : Append(admitted, clock)[i] <= clock
         /\ Append(ActiveTimestamps(b, clock), clock) \in Seq(Ticks)
         /\ Remembers(Append(ActiveTimestamps(b, clock), clock), Append(admitted, clock), clock)
<1>1. /\ admitted \in Seq(Ticks) /\ clock \in Ticks /\ InOrder(admitted) /\ Spaced(admitted)
      /\ \A i \in DOMAIN admitted : admitted[i] <= clock
  BY DEF LimiterOk
<1>2. PICK active : active = ActiveTimestamps(b, clock)
  OBVIOUS
<1>3. active \in Seq(Ticks) /\ Remembers(active, admitted, clock) /\ Len(active) < MaxPerWindow
  BY <1>2, WindowFacts
<1>4. PICK m \in Nat : m = Len(admitted) /\ DOMAIN admitted = 1 .. m
  BY <1>1, LenProperties
<1>5. PICK more : more = Append(admitted, clock)
  OBVIOUS
<1>6. /\ more \in Seq(Ticks) /\ DOMAIN more = 1 .. m + 1 /\ Len(more) = m + 1
      /\ \A i \in 1 .. m : more[i] = admitted[i]
      /\ more[m + 1] = clock
  <2> HIDE DEF Ticks
  <2> QED
    BY <1>1, <1>4, <1>5, AppendProperties
<1>7. PICK p \in 0 .. m :
        /\ Len(active) = m - p
        /\ \A i \in 1 .. m - p : active[i] = admitted[p + i]
        /\ \A i \in 1 .. p : admitted[i] <= clock - WindowTicks
  BY <1>3, <1>4 DEF Remembers
<1>8. PICK held : held = Append(active, clock)
  OBVIOUS
<1>9. /\ held \in Seq(Ticks) /\ Len(held) = m - p + 1
      /\ \A i \in 1 .. m - p : held[i] = active[i]
      /\ held[m - p + 1] = clock
  <2> HIDE DEF Ticks
  <2> QED
    BY <1>1, <1>3, <1>7, <1>8, AppendProperties
<1>10. Remembers(held, more, clock)
  <2>1. ASSUME NEW i \in 1 .. m + 1 - p PROVE held[i] = more[p + i]
    <3>1. CASE i \in 1 .. m - p
      <4>1. p + i \in 1 .. m
        BY <3>1
      <4> QED
        BY <1>6, <1>7, <1>9, <3>1, <4>1
    <3>2. CASE i = m - p + 1
      <4>1. p + i = m + 1
        BY <3>2
      <4> QED
        BY <1>6, <1>9, <3>2, <4>1
    <3> QED
      BY <3>1, <3>2
  <2>2. \A i \in 1 .. p : more[i] <= clock - WindowTicks
    BY <1>6, <1>7
  <2>3. p \in 0 .. Len(more) /\ Len(held) = Len(more) - p
    BY <1>6, <1>9
  <2> QED
    BY <1>6, <2>1, <2>2, <2>3 DEF Remembers
<1>11. \A i \in 1 .. m + 1 : i \in 1 .. m \/ i = m + 1
  OBVIOUS
<1>12. \A i \in 1 .. m + 1 : more[i] <= clock /\ more[i] \in Int
  <2>1. \A i \in 1 .. m : admitted[i] \in Ticks
    <3> HIDE DEF Ticks
    <3> QED
      BY <1>1, <1>4
  <2>2. clock \in Int
    BY <1>1, LimiterBounds DEF Ticks
  <2>3. \A i \in 1 .. m : admitted[i] <= clock /\ admitted[i] \in Int
    <3>1. \A i \in 1 .. m : admitted[i] <= clock
      BY <1>1, <1>4
    <3>2. Ticks \subseteq Int
      BY LimiterBounds DEF Ticks
    <3> HIDE DEF Ticks
    <3> QED
      BY <2>1, <3>1, <3>2
  <2>4. \A i \in 1 .. m : more[i] <= clock /\ more[i] \in Int
    BY <1>6, <2>3
  <2>5. more[m + 1] <= clock /\ more[m + 1] \in Int
    BY <1>6, <2>2
  <2> QED
    BY <1>11, <2>4, <2>5
<1>13. InOrder(more)
  <2>1. ASSUME NEW i \in 1 .. m + 1, NEW k \in 1 .. m + 1, i <= k PROVE more[i] <= more[k]
    <3>1. CASE k = m + 1
      BY <1>6, <1>12, <3>1
    <3>2. CASE k \in 1 .. m
      <4>1. i \in 1 .. m
        BY <2>1, <3>2
      <4> QED
        BY <1>1, <1>4, <1>6, <2>1, <3>2, <4>1 DEF InOrder
    <3> QED
      BY <1>11, <3>1, <3>2
  <2> QED
    BY <1>6, <2>1 DEF InOrder
<1>14. Spaced(more)
  <2>1. ASSUME NEW i \in 1 .. m + 1, NEW k \in 1 .. m + 1, k - i >= MaxPerWindow
        PROVE  more[k] - more[i] >= WindowTicks
    <3>1. CASE k = m + 1
      <4>1. i <= p /\ i \in 1 .. m
        BY <1>3, <1>7, <2>1, <3>1, LimiterBounds
      <4>2. admitted[i] <= clock - WindowTicks
        BY <1>7, <4>1
      <4>3. more[i] <= clock - WindowTicks /\ more[i] \in Int /\ clock \in Int
        BY <1>1, <1>6, <1>12, <4>1, <4>2, LimiterBounds DEF Ticks
      <4> QED
        BY <1>6, <3>1, <4>3, LimiterBounds
    <3>2. CASE k \in 1 .. m
      <4>1. i \in 1 .. m
        BY <2>1, <3>2, LimiterBounds
      <4> QED
        BY <1>1, <1>4, <1>6, <2>1, <3>2, <4>1 DEF Spaced
    <3> QED
      BY <1>11, <3>1, <3>2
  <2> QED
    BY <1>6, <2>1 DEF Spaced
<1> QED
  BY <1>2, <1>5, <1>6, <1>8, <1>9, <1>10, <1>12, <1>13, <1>14

LEMMA CheckKeeps ==
  ASSUME NEW b, NEW admitted, NEW clock, LimiterOk(b, admitted, clock),
         b.consecutiveFailures < MaxFailures
  PROVE  LET check == CheckRateLimit(b, clock)
         IN /\ check.reason = "allowed" =>
                 /\ LimiterOk(check.bucket, Append(admitted, clock), clock)
                 /\ check.bucket.consecutiveFailures < MaxFailures
            /\ check.reason # "allowed" => LimiterOk(check.bucket, admitted, clock)
<1>1. /\ b \in Bucket /\ clock \in Ticks /\ b.blockedUntil \in Nat /\ clock \in Nat
      /\ b.consecutiveFailures \in 0 .. MaxFailures /\ b.consecutiveFailures + 1 \in 0 .. MaxFailures
  BY LimiterBounds DEF LimiterOk, Bucket, Ticks
<1>2. PICK active : active = ActiveTimestamps(b, clock)
  OBVIOUS
<1>3. active \in Seq(Ticks) /\ Remembers(active, admitted, clock)
  BY <1>2, WindowFacts
<1>4. Len(active) \in Nat
  BY <1>3, LenProperties
<1>5. CASE Blocked(b, clock)
  <2>1. CheckRateLimit(b, clock) = [reason |-> "block_active", bucket |-> b]
    BY <1>5 DEF CheckRateLimit
  <2> QED
    BY <2>1
<1>6. CASE ~Blocked(b, clock) /\ Len(active) >= MaxPerWindow
  <2>1. PICK c : c = [requestTimestamps |-> active, consecutiveFailures |-> b.consecutiveFailures + 1,
                      blockedUntil |-> clock + EscalatingBlock(b.consecutiveFailures)]
    OBVIOUS
  <2>2. CheckRateLimit(b, clock) = [reason |-> "window_exceeded", bucket |-> c]
    BY <1>2, <1>6, <2>1 DEF CheckRateLimit
  <2>3. EscalatingBlock(b.consecutiveFailures) \in Nat /\ EscalatingBlock(b.consecutiveFailures) <= MaxBlock
    BY <1>1, BlocksAreBounded
  <2>4. c \in Bucket /\ c.requestTimestamps = active /\ c.blockedUntil <= clock + MaxBlock
    <3>1. clock + EscalatingBlock(b.consecutiveFailures) \in Nat
      BY <1>1, <2>3
    <3>2. clock + EscalatingBlock(b.consecutiveFailures) <= clock + MaxBlock
      BY <1>1, <2>3, LimiterBounds
    <3> QED
      BY <1>1, <1>3, <2>1, <3>1, <3>2 DEF Bucket, Ticks
  <2>5. LimiterOk(c, admitted, clock)
    BY <1>3, <2>4 DEF LimiterOk
  <2> QED
    BY <2>2, <2>5
<1>7. CASE ~Blocked(b, clock) /\ ~(Len(active) >= MaxPerWindow)
  <2>1. PICK held : held = Append(active, clock)
    OBVIOUS
  <2>2. PICK c : c = [b EXCEPT !.requestTimestamps = held, !.blockedUntil = Free]
    OBVIOUS
  <2>3. CheckRateLimit(b, clock) = [reason |-> "allowed", bucket |-> c]
    BY <1>2, <1>7, <2>1, <2>2 DEF CheckRateLimit
  <2>4. /\ Append(admitted, clock) \in Seq(Ticks)
        /\ InOrder(Append(admitted, clock)) /\ Spaced(Append(admitted, clock))
        /\ \A i \in DOMAIN Append(admitted, clock) : Append(admitted, clock)[i] <= clock
        /\ held \in Seq(Ticks)
        /\ Remembers(held, Append(admitted, clock), clock)
    <3>1. Len(ActiveTimestamps(b, clock)) < MaxPerWindow
      BY <1>2, <1>4, <1>7, LimiterBounds
    <3> QED
      BY <1>2, <2>1, <3>1, Admitted
  <2>5. /\ c \in Bucket /\ c.requestTimestamps = held /\ c.blockedUntil = 0
        /\ c.consecutiveFailures = b.consecutiveFailures
    BY <1>1, <2>2, <2>4 DEF Bucket, Ticks, Free
  <2>6. 0 <= clock + MaxBlock
    BY <1>1, LimiterBounds
  <2>7. LimiterOk(c, Append(admitted, clock), clock)
    BY <1>1, <2>4, <2>5, <2>6 DEF LimiterOk
  <2> QED
    BY <2>3, <2>5, <2>7
<1> QED
  BY <1>5, <1>6, <1>7

LEMMA RequestOutcomeKeeps ==
  ASSUME NEW b, NEW admitted, NEW clock, LimiterOk(b, admitted, clock)
  PROVE  /\ LimiterOk(RecordSuccess(b), admitted, clock)
         /\ b.consecutiveFailures < MaxFailures => LimiterOk(RecordFailure(b, clock), admitted, clock)
<1>1. /\ b \in Bucket /\ clock \in Nat /\ b.blockedUntil \in Nat
      /\ b.consecutiveFailures \in 0 .. MaxFailures /\ b.blockedUntil <= clock + MaxBlock
  BY LimiterBounds DEF LimiterOk, Bucket, Ticks
<1>2. PICK c : c = [b EXCEPT !.consecutiveFailures = 0]
  OBVIOUS
<1>3. c \in Bucket /\ c.requestTimestamps = b.requestTimestamps /\ c.blockedUntil = b.blockedUntil
  BY <1>1, <1>2, LimiterBounds, SMTT(30) DEF Bucket
<1>4. LimiterOk(RecordSuccess(b), admitted, clock)
  <2>1. LimiterOk(c, admitted, clock)
    BY <1>3 DEF LimiterOk
  <2> QED
    BY <1>2, <2>1 DEF RecordSuccess
<1>5. ASSUME b.consecutiveFailures < MaxFailures
      PROVE  LimiterOk(RecordFailure(b, clock), admitted, clock)
  <2>1. PICK failures \in 0 .. MaxFailures : failures = b.consecutiveFailures + 1
    BY <1>1, <1>5, LimiterBounds
  <2>2. EscalatingBlock(failures) \in Nat /\ EscalatingBlock(failures) <= MaxBlock
    BY BlocksAreBounded
  <2>3. PICK until : until = IF failures >= FailureBlockThreshold
                               THEN clock + EscalatingBlock(failures) ELSE b.blockedUntil
    OBVIOUS
  <2>4. until \in Nat /\ until <= clock + MaxBlock
    BY <1>1, <2>2, <2>3, LimiterBounds
  <2>5. PICK d : d = [b EXCEPT !.consecutiveFailures = failures, !.blockedUntil = until]
    OBVIOUS
  <2>6. d \in Bucket /\ d.requestTimestamps = b.requestTimestamps /\ d.blockedUntil = until
    BY <1>1, <2>4, <2>5 DEF Bucket
  <2>7. LimiterOk(d, admitted, clock)
    BY <2>4, <2>6 DEF LimiterOk
  <2>8. RecordFailure(b, clock) = d
    BY <2>1, <2>3, <2>5 DEF RecordFailure
  <2> QED
    BY <2>7, <2>8
<1> QED
  BY <1>4, <1>5

LEMMA LaterKeeps ==
  ASSUME NEW b, NEW admitted, NEW clock, LimiterOk(b, admitted, clock), clock < MaxTick
  PROVE  LimiterOk(b, admitted, clock + 1)
<1>1. /\ clock \in Nat /\ clock + 1 \in Ticks /\ b \in Bucket /\ b.blockedUntil \in Nat
      /\ admitted \in Seq(Ticks)
  BY LimiterBounds DEF LimiterOk, Ticks, Bucket
<1>2. \A i \in DOMAIN admitted : admitted[i] \in Int
  <2>1. \A i \in DOMAIN admitted : admitted[i] \in Ticks
    <3> HIDE DEF Ticks
    <3> QED
      BY <1>1
  <2> QED
    BY <2>1, LimiterBounds DEF Ticks
<1>3. Remembers(b.requestTimestamps, admitted, clock + 1)
  <2>1. PICK held : held = b.requestTimestamps
    OBVIOUS
  <2>2. PICK p \in 0 .. Len(admitted) :
          /\ Len(held) = Len(admitted) - p
          /\ \A i \in 1 .. Len(admitted) - p : held[i] = admitted[p + i]
          /\ \A i \in 1 .. p : admitted[i] <= clock - WindowTicks
    BY <2>1 DEF LimiterOk, Remembers
  <2>3. Len(admitted) \in Nat /\ DOMAIN admitted = 1 .. Len(admitted)
    BY <1>1, LenProperties
  <2>4. PICK later \in Nat : later = clock + 1
    BY <1>1
  <2>5. ASSUME NEW i \in 1 .. p PROVE admitted[i] <= later - WindowTicks
    <3>1. i \in DOMAIN admitted
      BY <2>3
    <3>2. admitted[i] \in Int /\ admitted[i] <= clock - WindowTicks
      BY <1>2, <2>2, <3>1
    <3> QED
      BY <1>1, <2>4, <3>2, LimiterBounds
  <2>6. Remembers(held, admitted, later)
    BY <2>2, <2>5 DEF Remembers
  <2> QED
    BY <2>1, <2>4, <2>6
<1>4. b.blockedUntil <= clock + 1 + MaxBlock /\ \A i \in DOMAIN admitted : admitted[i] <= clock + 1
  BY <1>1, <1>2, LimiterBounds DEF LimiterOk
<1> QED
  BY <1>1, <1>3, <1>4 DEF LimiterOk

LEMMA LimitsImplied == LimiterOk(bucket, admittedAt, tick) => LimitsHold
<1> SUFFICES ASSUME LimiterOk(bucket, admittedAt, tick) PROVE LimitsHold
  OBVIOUS
<1>1. LimiterTypeOK
  BY DEF LimiterTypeOK, LimiterOk, Ticks
<1>2. WindowHolds
  BY WindowFacts DEF WindowHolds, LimiterOk, Spaced
<1>3. ReadersOfBucketAgree
  <2>1. BucketStatus(bucket, tick) = CheckRateLimit(bucket, tick).reason
    <3>1. CASE Blocked(bucket, tick)
      BY <3>1 DEF BucketStatus, CheckRateLimit
    <3>2. CASE ~Blocked(bucket, tick) /\ Len(ActiveTimestamps(bucket, tick)) >= MaxPerWindow
      BY <3>2 DEF BucketStatus, CheckRateLimit
    <3>3. CASE ~Blocked(bucket, tick) /\ ~(Len(ActiveTimestamps(bucket, tick)) >= MaxPerWindow)
      BY <3>3 DEF BucketStatus, CheckRateLimit
    <3> QED
      BY <3>1, <3>2, <3>3
  <2> QED
    BY <2>1 DEF ReadersOfBucketAgree, LimiterOk
<1> QED
  BY <1>1, <1>2, <1>3 DEF LimitsHold

\* Outcomes that are reported by themselves, late or again, change nothing of this.
LEMMA LimiterStep ==
  LimiterOk(bucket, admittedAt, tick) /\ [LimiterNext]_limiterVars
    => LimiterOk(bucket', admittedAt', tick')
<1> SUFFICES ASSUME LimiterOk(bucket, admittedAt, tick), [LimiterNext]_limiterVars
             PROVE  LimiterOk(bucket', admittedAt', tick')
  OBVIOUS
<1>1. CASE CheckAndRecord
  <2>1. PICK check : check = CheckRateLimit(bucket, tick)
    OBVIOUS
  <2>2. /\ bucket.consecutiveFailures < MaxFailures /\ bucket' = check.bucket /\ tick' = tick
        /\ admittedAt' = IF check.reason = "allowed" THEN Append(admittedAt, tick) ELSE admittedAt
    BY <1>1, <2>1 DEF CheckAndRecord, CountMore
  <2>3. /\ check.reason = "allowed" => LimiterOk(check.bucket, Append(admittedAt, tick), tick)
        /\ check.reason # "allowed" => LimiterOk(check.bucket, admittedAt, tick)
    BY <2>1, <2>2, CheckKeeps
  <2> QED
    BY <2>2, <2>3
<1>2. ASSUME NEW outcome \in {"success", "failure"}, RecordRequestOutcome(outcome)
      PROVE  LimiterOk(bucket', admittedAt', tick')
  BY <1>2, RequestOutcomeKeeps DEF RecordRequestOutcome, CountMore
<1>3. CASE Wait
  BY <1>3, LaterKeeps DEF Wait
<1>4. CASE UNCHANGED limiterVars
  BY <1>4 DEF limiterVars
<1> QED
  BY <1>1, <1>2, <1>3, <1>4 DEF LimiterNext

LEMMA LimiterStart == LimiterInit => LimiterOk(bucket, admittedAt, tick)
<1> SUFFICES ASSUME LimiterInit PROVE LimiterOk(bucket, admittedAt, tick)
  OBVIOUS
<1>1. /\ bucket = [requestTimestamps |-> <<>>, consecutiveFailures |-> 0, blockedUntil |-> 0]
      /\ tick = 1 /\ admittedAt = <<>>
  BY DEF LimiterInit, Free
<1>2. bucket \in Bucket /\ admittedAt \in Seq(Ticks) /\ tick \in Ticks
  BY <1>1, LimiterBounds DEF Bucket, Ticks
<1>3. InOrder(admittedAt) /\ Spaced(admittedAt) /\ \A i \in DOMAIN admittedAt : admittedAt[i] <= tick
  BY <1>1 DEF InOrder, Spaced
<1>4. Remembers(bucket.requestTimestamps, admittedAt, tick)
  BY <1>1 DEF Remembers
<1>5. bucket.blockedUntil <= tick + MaxBlock
  BY <1>1, LimiterBounds
<1> QED
  BY <1>2, <1>3, <1>4, <1>5 DEF LimiterOk

\* No window of time lets in more requests than the channel allows, whatever the
\* outcomes of overlapping requests, their order and repetition: the limiter of
\* any channel, used by any caller.
THEOREM LimitsAlwaysHold == LimiterSpec => []LimitsHold
<1> DEFINE Ok == LimiterOk(bucket, admittedAt, tick)
<1>1. LimiterInit => Ok
  BY LimiterStart
<1>2. Ok /\ [LimiterNext]_limiterVars => Ok'
  BY LimiterStep
<1>3. Ok => LimitsHold
  BY LimitsImplied
<1> HIDE DEF Ok
<1> QED
  BY <1>1, <1>2, <1>3, PTL DEF LimiterSpec

-----------------------------------------------------------------------------
(* The messages of a phone. *)

Row(sid, intent, outcome) ==
  [sid |-> sid, intent |-> intent, outcome |-> outcome,
   replySent |-> outcome \notin {"suppressed", "empty_body"}]

\* STOP stands after some messages.
Stopped(msgs, i) ==
  \E k \in 1 .. (i - 1) :
    /\ msgs[k].outcome = "stop_received"
    /\ \A j \in (k + 1) .. (i - 1) : msgs[j].outcome # "start_received"
Quiet == {"suppressed", "help_reply", "start_received"}

MessagesOk(msgs, cons) ==
  /\ msgs \in Seq(Message) /\ cons \in {"opted_in", "opted_out", NoConsent}
  /\ \A i \in DOMAIN msgs : Stopped(msgs, i) => msgs[i].outcome \in Quiet
  /\ cons = "opted_out" <=> Stopped(msgs, Len(msgs) + 1)
  /\ \A i, k \in DOMAIN msgs : msgs[i].sid = msgs[k].sid => i = k

RepliesOk(msgs, reps) ==
  /\ DOMAIN reps = Sids
  /\ \A sid \in Sids : \A r \in reps[sid] :
       \E i \in DOMAIN msgs : msgs[i].sid = sid /\ r = <<msgs[i].outcome, msgs[i].replySent>>

ListingsOk(msgs, links) ==
  /\ links \in Seq(Listings) /\ IsInjective(links)
  /\ ToSet(links) = {msgs[i].intent : i \in {k \in DOMAIN msgs : msgs[k].outcome = "url_processed"}}

SmsIInv ==
  /\ LimiterOk(bucket, admittedAt, tick)
  /\ MessagesOk(messages, consent) /\ RepliesOk(messages, replies)
  /\ ListingsOk(messages, sourceListings)

\* What one message more does to the ones that STOP stands over.
LEMMA StoppedNext ==
  ASSUME NEW msgs \in Seq(Message), NEW row \in Message
  PROVE  LET more == Append(msgs, row)
             n == Len(msgs)
         IN /\ \A i \in 1 .. n + 1 : Stopped(more, i) <=> Stopped(msgs, i)
            /\ Stopped(more, n + 2) <=> \/ row.outcome = "stop_received"
                                        \/ Stopped(msgs, n + 1) /\ row.outcome # "start_received"
<1>1. PICK n \in Nat : n = Len(msgs)
  BY LenProperties
<1>2. PICK more : more = Append(msgs, row)
  OBVIOUS
<1>3. (\A i \in 1 .. n : more[i] = msgs[i]) /\ more[n + 1] = row
  <2> HIDE DEF Message
  <2> QED
    BY <1>1, <1>2, AppendProperties
<1>4. ASSUME NEW i \in 1 .. n + 1 PROVE Stopped(more, i) <=> Stopped(msgs, i)
  <2>1. \A k \in 1 .. i - 1 : more[k] = msgs[k]
    BY <1>3
  <2>2. \A k \in 1 .. i - 1 : \A j \in k + 1 .. i - 1 : more[j] = msgs[j]
    BY <2>1
  <2> QED
    BY <2>1, <2>2 DEF Stopped
<1>5. PICK m \in Nat : m = n + 2
  BY <1>1
<1>6. ASSUME row.outcome = "stop_received" PROVE Stopped(more, m)
  <2>1. n + 1 \in 1 .. m - 1 /\ \A j \in n + 2 .. m - 1 : FALSE
    BY <1>5
  <2>2. more[n + 1].outcome = "stop_received"
    BY <1>3, <1>6
  <2>3. \A j \in (n + 1) + 1 .. m - 1 : more[j].outcome # "start_received"
    BY <2>1
  <2> QED
    BY <2>1, <2>2, <2>3 DEF Stopped
<1>7. ASSUME Stopped(msgs, n + 1), row.outcome # "start_received" PROVE Stopped(more, m)
  <2>1. PICK k \in 1 .. n :
          /\ msgs[k].outcome = "stop_received"
          /\ \A j \in k + 1 .. n : msgs[j].outcome # "start_received"
    BY <1>7 DEF Stopped
  <2>2. k \in 1 .. m - 1 /\ more[k].outcome = "stop_received"
    BY <1>3, <1>5, <2>1
  <2>3. ASSUME NEW j \in k + 1 .. m - 1 PROVE more[j].outcome # "start_received"
    <3>1. CASE j = n + 1
      BY <1>3, <1>7, <3>1
    <3>2. CASE j # n + 1
      <4>1. k \in Nat /\ 1 <= k /\ j \in Int /\ k + 1 <= j /\ j <= m - 1
        BY <1>1, <1>5, <2>1, <2>3
      <4>2. j \in k + 1 .. n /\ j \in 1 .. n
        BY <1>1, <1>5, <3>2, <4>1
      <4> QED
        BY <1>3, <2>1, <4>2
    <3> QED
      BY <3>1, <3>2
  <2> QED
    BY <2>2, <2>3 DEF Stopped
<1>8. ASSUME Stopped(more, m), row.outcome # "stop_received"
      PROVE  Stopped(msgs, n + 1) /\ row.outcome # "start_received"
  <2>1. PICK k \in 1 .. m - 1 :
          /\ more[k].outcome = "stop_received"
          /\ \A j \in k + 1 .. m - 1 : more[j].outcome # "start_received"
    BY <1>8 DEF Stopped
  <2>2. k \in 1 .. n
    <3>1. k # n + 1
      BY <1>3, <1>8, <2>1
    <3> QED
      BY <1>5, <3>1
  <2>3. n + 1 \in k + 1 .. m - 1
    BY <1>5, <2>2
  <2>4. row.outcome # "start_received"
    BY <1>3, <2>1, <2>3
  <2>5. msgs[k].outcome = "stop_received"
    BY <1>3, <2>1, <2>2
  <2>6. ASSUME NEW j \in k + 1 .. n PROVE msgs[j].outcome # "start_received"
    <3>1. j \in 1 .. n /\ j \in k + 1 .. m - 1
      BY <1>5, <2>2
    <3> QED
      BY <1>3, <2>1, <3>1
  <2>7. Stopped(msgs, n + 1)
    <3>1. k \in 1 .. (n + 1) - 1 /\ \A j \in k + 1 .. (n + 1) - 1 : msgs[j].outcome # "start_received"
      BY <2>2, <2>6
    <3> QED
      BY <2>5, <3>1 DEF Stopped
  <2> QED
    BY <2>4, <2>7
<1> QED
  BY <1>1, <1>2, <1>4, <1>5, <1>6, <1>7, <1>8

LEMMA MessageStored ==
  ASSUME NEW msgs, NEW cons, MessagesOk(msgs, cons), NEW row \in Message,
         \A i \in DOMAIN msgs : msgs[i].sid # row.sid,
         cons = "opted_out" => row.outcome \in Quiet,
         NEW new \in {"opted_in", "opted_out", NoConsent},
         new = "opted_out" <=> \/ row.outcome = "stop_received"
                               \/ cons = "opted_out" /\ row.outcome # "start_received"
  PROVE  MessagesOk(Append(msgs, row), new)
<1>1. msgs \in Seq(Message)
  BY DEF MessagesOk
<1>2. PICK n \in Nat : n = Len(msgs) /\ DOMAIN msgs = 1 .. n
  BY <1>1, LenProperties
<1>3. PICK more : more = Append(msgs, row)
  OBVIOUS
<1>4. /\ more \in Seq(Message) /\ Len(more) = n + 1 /\ DOMAIN more = 1 .. n + 1
      /\ \A i \in 1 .. n : more[i] = msgs[i]
      /\ more[n + 1] = row
  <2> HIDE DEF Message
  <2> QED
    BY <1>1, <1>2, <1>3, AppendProperties
<1>5. /\ \A i \in 1 .. n + 1 : Stopped(more, i) <=> Stopped(msgs, i)
      /\ Stopped(more, n + 2) <=> \/ row.outcome = "stop_received"
                                  \/ Stopped(msgs, n + 1) /\ row.outcome # "start_received"
  BY <1>1, <1>2, <1>3, StoppedNext
<1>6. cons = "opted_out" <=> Stopped(msgs, n + 1)
  BY <1>2 DEF MessagesOk
<1>7. \A i \in 1 .. n + 1 : i \in 1 .. n \/ i = n + 1
  OBVIOUS
<1>8. ASSUME NEW i \in 1 .. n + 1, Stopped(more, i) PROVE more[i].outcome \in Quiet
  <2>1. Stopped(msgs, i)
    BY <1>5, <1>8
  <2>2. CASE i \in 1 .. n
    BY <1>2, <1>4, <2>1, <2>2 DEF MessagesOk
  <2>3. CASE i = n + 1
    BY <1>4, <1>6, <2>1, <2>3
  <2> QED
    BY <1>7, <2>2, <2>3
<1>9. new = "opted_out" <=> Stopped(more, n + 2)
  BY <1>5, <1>6
<1>10. \A i, k \in 1 .. n + 1 : more[i].sid = more[k].sid => i = k
  <2>1. \A i, k \in 1 .. n : msgs[i].sid = msgs[k].sid => i = k
    BY <1>2 DEF MessagesOk
  <2> QED
    BY <1>2, <1>4, <1>7, <2>1
<1>11. Stopped(more, Len(more) + 1) <=> Stopped(more, n + 2)
  <2>1. Len(more) + 1 = n + 2
    BY <1>4
  <2> QED
    BY <2>1
<1>12. MessagesOk(more, new)
  BY <1>4, <1>8, <1>9, <1>10, <1>11 DEF MessagesOk
<1> QED
  BY <1>3, <1>12

LEMMA ReplyNoted ==
  ASSUME NEW msgs \in Seq(Message), NEW reps, RepliesOk(msgs, reps), NEW row \in Message,
         \A i \in DOMAIN msgs : msgs[i].sid # row.sid
  PROVE  RepliesOk(Append(msgs, row),
                   [reps EXCEPT ![row.sid] = @ \cup {<<row.outcome, row.replySent>>}])
<1>1. PICK n \in Nat : n = Len(msgs) /\ DOMAIN msgs = 1 .. n
  BY LenProperties
<1>2. PICK more : more = Append(msgs, row)
  OBVIOUS
<1>3. /\ DOMAIN more = 1 .. n + 1 /\ \A i \in 1 .. n : more[i] = msgs[i]
      /\ more[n + 1] = row
  <2> HIDE DEF Message
  <2> QED
    BY <1>1, <1>2, AppendProperties
<1>4. PICK told : told = [reps EXCEPT ![row.sid] = @ \cup {<<row.outcome, row.replySent>>}]
  OBVIOUS
<1>5. /\ DOMAIN told = Sids
      /\ \A sid \in Sids : \A r \in told[sid] :
           r \in reps[sid] \/ (sid = row.sid /\ r = <<row.outcome, row.replySent>>)
  BY <1>4 DEF RepliesOk
<1>6. ASSUME NEW sid \in Sids, NEW r \in told[sid]
      PROVE  \E i \in DOMAIN more : more[i].sid = sid /\ r = <<more[i].outcome, more[i].replySent>>
  <2>1. CASE r \in reps[sid]
    <3>1. PICK i \in DOMAIN msgs : msgs[i].sid = sid /\ r = <<msgs[i].outcome, msgs[i].replySent>>
      BY <2>1 DEF RepliesOk
    <3>2. i \in DOMAIN more /\ more[i] = msgs[i]
      BY <1>1, <1>3
    <3> QED
      BY <3>1, <3>2
  <2>2. CASE sid = row.sid /\ r = <<row.outcome, row.replySent>>
    <3>1. n + 1 \in DOMAIN more
      BY <1>3
    <3> QED
      BY <1>3, <2>2, <3>1
  <2> QED
    BY <1>5, <2>1, <2>2
<1>7. RepliesOk(more, told)
  BY <1>5, <1>6 DEF RepliesOk
<1> QED
  BY <1>2, <1>4, <1>7

LEMMA LinkStored ==
  ASSUME NEW msgs \in Seq(Message), NEW links, ListingsOk(msgs, links), NEW row \in Message,
         NEW next,
         row.outcome = "url_processed" =>
           /\ row.intent \in Listings
           /\ next = IF Contains(links, row.intent) THEN links ELSE Append(links, row.intent),
         row.outcome # "url_processed" => next = links
  PROVE  ListingsOk(Append(msgs, row), next)
<1>1. PICK n \in Nat : n = Len(msgs) /\ DOMAIN msgs = 1 .. n
  BY LenProperties
<1>2. PICK more : more = Append(msgs, row)
  OBVIOUS
<1>3. /\ DOMAIN more = 1 .. n + 1 /\ \A i \in 1 .. n : more[i] = msgs[i]
      /\ more[n + 1] = row
  <2> HIDE DEF Message
  <2> QED
    BY <1>1, <1>2, AppendProperties
<1>4. PICK was : was = {msgs[i].intent : i \in {k \in DOMAIN msgs : msgs[k].outcome = "url_processed"}}
  OBVIOUS
<1>5. PICK is : is = {more[i].intent : i \in {k \in DOMAIN more : more[k].outcome = "url_processed"}}
  OBVIOUS
<1>6. /\ row.outcome = "url_processed" => is = was \cup {row.intent}
      /\ row.outcome # "url_processed" => is = was
  <2>1. \A i \in 1 .. n + 1 : i \in 1 .. n \/ i = n + 1
    OBVIOUS
  <2>2. n + 1 \in DOMAIN more
    BY <1>3
  <2>3. was \subseteq is
    BY <1>1, <1>3, <1>4, <1>5
  <2>4. \A x \in is : x \in was \/ (row.outcome = "url_processed" /\ x = row.intent)
    BY <1>1, <1>3, <1>4, <1>5, <2>1
  <2>5. row.outcome = "url_processed" => row.intent \in is
    BY <1>3, <1>5, <2>2
  <2> QED
    BY <2>3, <2>4, <2>5
<1>7. links \in Seq(Listings) /\ IsInjective(links) /\ ToSet(links) = was
  BY <1>4 DEF ListingsOk
<1>8. CASE next = links /\ is = was
  BY <1>2, <1>5, <1>7, <1>8 DEF ListingsOk
<1>9. CASE row.outcome = "url_processed" /\ Contains(links, row.intent)
  <2>1. row.intent \in was
    <3>1. Len(links) \in Nat /\ DOMAIN links = 1 .. Len(links)
      BY <1>7, LenProperties
    <3> QED
      BY <1>7, <1>9, <3>1 DEF Contains, ToSet
  <2> QED
    BY <1>6, <1>8, <1>9, <2>1
<1>10. CASE row.outcome = "url_processed" /\ ~Contains(links, row.intent)
  <2>1. next = Append(links, row.intent) /\ row.intent \in Listings
    BY <1>10
  <2>2. PICK m \in Nat : m = Len(links) /\ DOMAIN links = 1 .. m
    BY <1>7, LenProperties
  <2>3. /\ next \in Seq(Listings) /\ DOMAIN next = 1 .. m + 1
        /\ \A i \in 1 .. m : next[i] = links[i]
        /\ next[m + 1] = row.intent
    BY <1>7, <2>1, <2>2, AppendProperties
  <2>4. \A i \in 1 .. m : links[i] # row.intent
    BY <1>10, <2>2 DEF Contains
  <2>5. \A i \in 1 .. m + 1 : i \in 1 .. m \/ i = m + 1
    OBVIOUS
  <2>6. IsInjective(next)
    <3>1. \A i, k \in 1 .. m : links[i] = links[k] => i = k
      BY <1>7, <2>2 DEF IsInjective
    <3> QED
      BY <2>3, <2>4, <2>5, <3>1 DEF IsInjective
  <2>7. ToSet(next) = was \cup {row.intent}
    <3>1. m + 1 \in DOMAIN next
      BY <2>3
    <3>2. \A x \in was : \E i \in 1 .. m : x = links[i]
      BY <1>7, <2>2 DEF ToSet
    <3>3. \A i \in 1 .. m : links[i] \in was
      BY <1>7, <2>2 DEF ToSet
    <3> QED
      BY <2>3, <2>5, <3>1, <3>2, <3>3, SMTT(30) DEF ToSet
  <2> QED
    BY <1>2, <1>5, <1>6, <1>10, <2>3, <2>6, <2>7, SMTT(30) DEF ListingsOk
<1> QED
  BY <1>6, <1>8, <1>9, <1>10

\* One message is stored and answered, the limiter asked or not.
LEMMA MessageWritten ==
  ASSUME SmsIInv, NEW sid \in Sids, ~Seen(sid), NEW intent \in Intents, NEW outcome \in Outcomes,
         WriteMessage(sid, intent, outcome),
         consent = "opted_out" => outcome \in Quiet,
         consent' \in {"opted_in", "opted_out", NoConsent},
         consent' = "opted_out" <=> \/ outcome = "stop_received"
                                    \/ consent = "opted_out" /\ outcome # "start_received",
         outcome = "url_processed" =>
           /\ intent \in Listings
           /\ sourceListings' = IF Contains(sourceListings, intent) THEN sourceListings
                                ELSE Append(sourceListings, intent),
         outcome # "url_processed" => sourceListings' = sourceListings
  PROVE  /\ MessagesOk(messages', consent') /\ RepliesOk(messages', replies')
         /\ ListingsOk(messages', sourceListings')
<1>1. PICK row : row = Row(sid, intent, outcome)
  OBVIOUS
<1>2. /\ row \in Message /\ row.sid = sid /\ row.intent = intent /\ row.outcome = outcome
      /\ row.replySent = (outcome \notin {"suppressed", "empty_body"})
  BY <1>1 DEF Row, Message
<1>3. /\ messages' = Append(messages, row)
      /\ replies' = [replies EXCEPT ![sid] = @ \cup {<<row.outcome, row.replySent>>}]
  BY <1>1 DEF WriteMessage, Row
<1>4. \A i \in DOMAIN messages : messages[i].sid # row.sid
  BY <1>2 DEF Seen
<1>5. messages \in Seq(Message)
  BY DEF SmsIInv, MessagesOk
<1>6. MessagesOk(messages', consent')
  BY <1>2, <1>3, <1>4, MessageStored DEF SmsIInv
<1>7. RepliesOk(messages', replies')
  BY <1>2, <1>3, <1>4, <1>5, ReplyNoted DEF SmsIInv
<1>8. ListingsOk(messages', sourceListings')
  BY <1>2, <1>3, <1>5, LinkStored DEF SmsIInv
<1> QED
  BY <1>6, <1>7, <1>8

LEMMA UnlimitedKeeps ==
  ASSUME SmsIInv, NEW sid \in Sids, NEW intent \in Intents, ProcessUnlimited(sid, intent)
  PROVE  SmsIInv'
<1>1. PICK outcome : outcome = IF Suppressed(intent) THEN "suppressed" ELSE Unlimited[intent]
  OBVIOUS
<1>2. /\ ~Seen(sid) /\ WriteMessage(sid, intent, outcome)
      /\ UNCHANGED limiterVars /\ sourceListings' = sourceListings
      /\ Suppressed(intent) \/ intent \in {"empty", "stop", "start", "help"}
  BY <1>1 DEF ProcessUnlimited, Unlimited
<1>3. /\ Suppressed(intent) => outcome = "suppressed"
      /\ ~Suppressed(intent) /\ intent = "empty" => outcome = "empty_body"
      /\ ~Suppressed(intent) /\ intent = "stop" => outcome = "stop_received"
      /\ ~Suppressed(intent) /\ intent = "start" => outcome = "start_received"
      /\ ~Suppressed(intent) /\ intent = "help" => outcome = "help_reply"
  BY <1>1 DEF Unlimited
<1>4. /\ outcome \in Outcomes /\ outcome # "url_processed"
      /\ consent = "opted_out" => outcome \in Quiet
  BY <1>2, <1>3 DEF Outcomes, Quiet, Suppressed
<1>5. /\ Suppressed(intent) => consent' = consent
      /\ ~Suppressed(intent) /\ intent = "stop" => consent' = "opted_out"
      /\ intent = "start" => consent' = "opted_in"
      /\ ~Suppressed(intent) /\ intent \notin {"stop", "start"} => consent' = consent
  <2>1. intent = "start" => ~Suppressed(intent)
    BY DEF Suppressed
  <2>2. CASE Suppressed(intent)
    BY <2>1, <2>2 DEF ProcessUnlimited
  <2>3. CASE ~Suppressed(intent) /\ intent = "stop"
    BY <2>3 DEF ProcessUnlimited
  <2>4. CASE intent = "start"
    BY <2>1, <2>4 DEF ProcessUnlimited
  <2>5. CASE ~Suppressed(intent) /\ intent \notin {"stop", "start"}
    BY <2>5 DEF ProcessUnlimited
  <2> QED
    BY <2>2, <2>3, <2>4, <2>5
<1>6. consent \in {"opted_in", "opted_out", NoConsent} /\ NoConsent \notin {"opted_in", "opted_out"}
  BY SmsAssumption DEF SmsIInv, MessagesOk
<1>7. /\ consent' \in {"opted_in", "opted_out", NoConsent}
      /\ consent' = "opted_out" <=> \/ outcome = "stop_received"
                                    \/ consent = "opted_out" /\ outcome # "start_received"
  BY <1>2, <1>3, <1>5, <1>6 DEF Suppressed
<1>8. /\ MessagesOk(messages', consent') /\ RepliesOk(messages', replies')
      /\ ListingsOk(messages', sourceListings')
  BY <1>2, <1>4, <1>7, MessageWritten
<1> QED
  BY <1>2, <1>8 DEF SmsIInv, limiterVars

LEMMA LimitedKeeps ==
  ASSUME SmsIInv, NEW sid \in Sids, NEW intent \in Intents, ProcessLimited(sid, intent)
  PROVE  SmsIInv'
<1>1. PICK check : check = CheckRateLimit(bucket, tick)
  OBVIOUS
<1>2. PICK outcome : outcome = CASE check.reason # "allowed" -> "rate_limited"
                                 [] check.reason = "allowed" /\ intent \in Listings -> "url_processed"
                                 [] check.reason = "allowed" /\ intent = "text_only" -> "invalid_url"
                                 [] OTHER -> intent
  OBVIOUS
<1>3. /\ ~Seen(sid) /\ ~Suppressed(intent) /\ bucket.consecutiveFailures < MaxFailures
      /\ intent \notin {"empty", "stop", "start", "help"}
      /\ WriteMessage(sid, intent, outcome) /\ tick' = tick
  BY <1>1, <1>2 DEF ProcessLimited, CountMore, Unlimited
<1>4. /\ consent' = IF check.reason = "allowed" /\ IsLink(intent) THEN "opted_in" ELSE consent
      /\ sourceListings' = IF check.reason = "allowed" /\ intent \in Listings
                                /\ ~Contains(sourceListings, intent)
                             THEN Append(sourceListings, intent) ELSE sourceListings
  BY <1>1 DEF ProcessLimited
<1>5. consent # "opted_out"
  BY <1>3 DEF Suppressed
<1>6. intent \in Listings \/ intent \in {"text_only", "unsupported_url", "invalid_url"}
  BY <1>3 DEF Intents, BadLinks
<1>7. intent \in Listings => intent # "text_only"
  BY SmsAssumption
<1>8. /\ check.reason # "allowed" => outcome = "rate_limited"
      /\ check.reason = "allowed" /\ intent \in Listings => outcome = "url_processed"
      /\ check.reason = "allowed" /\ intent \notin Listings =>
           outcome \in {"unsupported_url", "invalid_url"}
  <2>1. CASE check.reason # "allowed"
    BY <1>2, <2>1
  <2>2. CASE check.reason = "allowed" /\ intent \in Listings
    BY <1>2, <1>7, <2>2
  <2>3. CASE check.reason = "allowed" /\ intent \notin Listings /\ intent = "text_only"
    BY <1>2, <2>3
  <2>4. CASE check.reason = "allowed" /\ intent \notin Listings /\ intent # "text_only"
    BY <1>2, <1>6, <2>4
  <2> QED
    BY <2>1, <2>2, <2>3, <2>4
<1>9. /\ outcome \in Outcomes /\ outcome \notin {"stop_received", "start_received"}
      /\ outcome = "url_processed" <=> check.reason = "allowed" /\ intent \in Listings
  BY <1>8 DEF Outcomes, BadLinks
<1>10. consent' \in {"opted_in", NoConsent} /\ consent' # "opted_out"
  BY <1>4, <1>5, SmsAssumption DEF SmsIInv, MessagesOk
<1>11. /\ MessagesOk(messages', consent') /\ RepliesOk(messages', replies')
       /\ ListingsOk(messages', sourceListings')
  <2>1. consent' = "opted_out" <=> \/ outcome = "stop_received"
                                   \/ consent = "opted_out" /\ outcome # "start_received"
    BY <1>5, <1>9, <1>10
  <2>2. outcome = "url_processed" =>
           /\ intent \in Listings
           /\ sourceListings' = IF Contains(sourceListings, intent) THEN sourceListings
                                ELSE Append(sourceListings, intent)
    BY <1>4, <1>9
  <2>3. outcome # "url_processed" => sourceListings' = sourceListings
    BY <1>4, <1>9
  <2>4. consent' \in {"opted_in", "opted_out", NoConsent}
    BY <1>10
  <2> QED
    BY <1>3, <1>5, <1>9, <2>1, <2>2, <2>3, <2>4, MessageWritten
<1>12. LimiterOk(bucket, admittedAt, tick)
  BY DEF SmsIInv
<1>13. /\ check.reason = "allowed" =>
            /\ LimiterOk(check.bucket, Append(admittedAt, tick), tick)
            /\ check.bucket.consecutiveFailures < MaxFailures
       /\ check.reason # "allowed" => LimiterOk(check.bucket, admittedAt, tick)
  BY <1>1, <1>3, <1>12, CheckKeeps
<1>14. LimiterOk(bucket', admittedAt', tick)
  <2>1. CASE check.reason # "allowed"
    <3>1. bucket' = check.bucket /\ admittedAt' = admittedAt
      BY <1>1, <2>1 DEF ProcessLimited
    <3> QED
      BY <1>13, <2>1, <3>1
  <2>2. CASE check.reason = "allowed" /\ intent \in Listings
    <3>1. bucket' = RecordSuccess(check.bucket) /\ admittedAt' = Append(admittedAt, tick)
      BY <1>1, <2>2 DEF ProcessLimited
    <3> QED
      BY <1>13, <2>2, <3>1, RequestOutcomeKeeps
  <2>3. CASE check.reason = "allowed" /\ intent \notin Listings
    <3>1. bucket' = RecordFailure(check.bucket, tick) /\ admittedAt' = Append(admittedAt, tick)
      BY <1>1, <2>3 DEF ProcessLimited
    <3> QED
      BY <1>13, <2>3, <3>1, RequestOutcomeKeeps
  <2> QED
    BY <2>1, <2>2, <2>3
<1> QED
  BY <1>3, <1>11, <1>14 DEF SmsIInv

LEMMA DuplicateAnswered ==
  ASSUME SmsIInv, NEW sid \in Sids, ProcessDuplicate(sid)
  PROVE  SmsIInv'
<1>1. PICK i \in DOMAIN messages :
        /\ messages[i].sid = sid
        /\ replies' = [replies EXCEPT ![sid] =
             @ \cup {<<messages[i].outcome, messages[i].replySent>>}]
        /\ UNCHANGED <<limiterVars, messages, consent, sourceListings>>
  BY DEF ProcessDuplicate
<1>2. RepliesOk(messages, replies')
  <2>1. RepliesOk(messages, replies)
    BY DEF SmsIInv
  <2>2. /\ DOMAIN replies' = Sids
        /\ \A s \in Sids : \A r \in replies'[s] :
             r \in replies[s] \/ (s = sid /\ r = <<messages[i].outcome, messages[i].replySent>>)
    BY <1>1, <2>1 DEF RepliesOk
  <2> QED
    BY <1>1, <2>1, <2>2 DEF RepliesOk
<1> QED
  BY <1>1, <1>2 DEF SmsIInv, limiterVars

LEMMA SmsStep == SmsIInv /\ [SmsNext]_smsVars => SmsIInv'
<1> SUFFICES ASSUME SmsIInv, [SmsNext]_smsVars PROVE SmsIInv'
  OBVIOUS
<1>1. ASSUME NEW sid \in Sids, NEW intent \in Intents, ProcessUnlimited(sid, intent) PROVE SmsIInv'
  BY <1>1, UnlimitedKeeps
<1>2. ASSUME NEW sid \in Sids, NEW intent \in Intents, ProcessLimited(sid, intent) PROVE SmsIInv'
  BY <1>2, LimitedKeeps
<1>3. ASSUME NEW sid \in Sids, ProcessDuplicate(sid) PROVE SmsIInv'
  BY <1>3, DuplicateAnswered
<1>4. CASE Wait /\ UNCHANGED <<messages, consent, sourceListings, replies>>
  <2>1. LimiterOk(bucket', admittedAt', tick')
    BY <1>4, LaterKeeps DEF SmsIInv, Wait
  <2> QED
    BY <1>4, <2>1 DEF SmsIInv
<1>5. CASE UNCHANGED smsVars
  BY <1>5 DEF SmsIInv, smsVars, limiterVars
<1> QED
  BY <1>1, <1>2, <1>3, <1>4, <1>5 DEF SmsNext

LEMMA SmsStart == SmsInit => SmsIInv
<1> SUFFICES ASSUME SmsInit PROVE SmsIInv
  OBVIOUS
<1>1. LimiterOk(bucket, admittedAt, tick)
  BY LimiterStart DEF SmsInit
<1>2. MessagesOk(messages, consent)
  <2>1. messages = <<>> /\ consent = NoConsent
    BY DEF SmsInit
  <2>2. ~Stopped(messages, 1)
    BY DEF Stopped
  <2> QED
    BY <2>1, <2>2, SmsAssumption DEF MessagesOk
<1>3. RepliesOk(messages, replies)
  BY DEF SmsInit, RepliesOk
<1>4. ListingsOk(messages, sourceListings)
  BY DEF SmsInit, ListingsOk, IsInjective, ToSet
<1> QED
  BY <1>1, <1>2, <1>3, <1>4 DEF SmsIInv

LEMMA SmsImplied == SmsIInv => SmsSound
<1> SUFFICES ASSUME SmsIInv PROVE SmsSound
  OBVIOUS
<1>1. LimitsHold
  BY LimitsImplied DEF SmsIInv
<1>2. SmsTypeOK
  BY DEF SmsTypeOK, SmsIInv, MessagesOk, ListingsOk
<1>3. StopHolds
  BY DEF StopHolds, Silenced, SmsIInv, MessagesOk, Stopped, Quiet
<1>4. AnsweredOnce
  <2>1. \A i, k \in DOMAIN messages : messages[i].sid = messages[k].sid => i = k
    BY DEF SmsIInv, MessagesOk
  <2>2. ASSUME NEW sid \in Sids PROVE Cardinality(replies[sid]) <= 1
    <3>1. \A r, s \in replies[sid] : r = s
      BY <2>1 DEF SmsIInv, RepliesOk
    <3>2. CASE replies[sid] = {}
      BY <3>2, FS_EmptySet
    <3>3. CASE replies[sid] # {}
      <4>1. PICK r : r \in replies[sid]
        BY <3>3
      <4>2. replies[sid] = {r}
        BY <3>1, <4>1
      <4>3. Cardinality({r}) = 1
        BY FS_Singleton
      <4> QED
        BY <4>2, <4>3
    <3> QED
      BY <3>2, <3>3
  <2> QED
    BY <2>1, <2>2 DEF AnsweredOnce, SmsIInv, ListingsOk
<1> QED
  BY <1>1, <1>2, <1>3, <1>4 DEF SmsSound

\* Whatever a phone sends and Twilio delivers again, at whatever time: no window
\* lets in more than the channel allows, STOP is kept until START, and a message
\* is stored and answered once.
THEOREM TextsAreAnswered == SmsSpec => []SmsSound
<1>1. SmsInit => SmsIInv
  BY SmsStart
<1>2. SmsIInv /\ [SmsNext]_smsVars => SmsIInv'
  BY SmsStep
<1>3. SmsIInv => SmsSound
  BY SmsImplied
<1> QED
  BY <1>1, <1>2, <1>3, PTL DEF SmsSpec

-----------------------------------------------------------------------------
(* The messages as a conversation. *)

TextAnswers(msgs) ==
  [s \in Sids |-> IF \E i \in DOMAIN msgs : msgs[i].sid = s
                    THEN msgs[CHOOSE i \in DOMAIN msgs : msgs[i].sid = s].outcome ELSE "none"]

LEMMA AnswersNow ==
  /\ [s \in Sids |-> AnswerTo(s)] = TextAnswers(messages)
  /\ [s \in Sids |-> AnswerTo(s)]' = TextAnswers(messages')
BY Zenon DEF TextAnswers, AnswerTo, Seen

\* A message of a new sid adds its answer and changes no other.
LEMMA AnswerAdded ==
  ASSUME NEW msgs \in Seq(Message), NEW row \in Message,
         \A i, k \in DOMAIN msgs : msgs[i].sid = msgs[k].sid => i = k,
         \A i \in DOMAIN msgs : msgs[i].sid # row.sid
  PROVE  /\ TextAnswers(msgs)[row.sid] = "none"
         /\ TextAnswers(Append(msgs, row)) = [TextAnswers(msgs) EXCEPT ![row.sid] = row.outcome]
<1>1. PICK n \in Nat : n = Len(msgs) /\ DOMAIN msgs = 1 .. n
  BY LenProperties
<1>2. PICK more : more = Append(msgs, row)
  OBVIOUS
<1>3. /\ DOMAIN more = 1 .. n + 1 /\ \A i \in 1 .. n : more[i] = msgs[i]
      /\ more[n + 1] = row
  <2> HIDE DEF Message
  <2> QED
    BY <1>1, <1>2, AppendProperties
<1>4. row.sid \in Sids
  BY DEF Message
<1>5. \A i \in 1 .. n + 1 : i \in 1 .. n \/ i = n + 1
  OBVIOUS
<1>6. TextAnswers(msgs)[row.sid] = "none"
  BY <1>4 DEF TextAnswers
<1>7. TextAnswers(more)[row.sid] = row.outcome
  <2>1. n + 1 \in DOMAIN more /\ more[n + 1].sid = row.sid
    BY <1>3
  <2>2. PICK b : b = CHOOSE i \in DOMAIN more : more[i].sid = row.sid
    OBVIOUS
  <2>3. b \in DOMAIN more /\ more[b].sid = row.sid
    BY <2>1, <2>2
  <2>4. b = n + 1
    BY <1>1, <1>3, <1>5, <2>3
  <2> QED
    BY <1>3, <1>4, <2>1, <2>2, <2>4 DEF TextAnswers
<1>8. ASSUME NEW s \in Sids, s # row.sid PROVE TextAnswers(more)[s] = TextAnswers(msgs)[s]
  <2>1. \A i \in DOMAIN more : more[i].sid = s => i \in DOMAIN msgs /\ msgs[i].sid = s
    BY <1>1, <1>3, <1>5, <1>8
  <2>2. \A i \in DOMAIN msgs : i \in DOMAIN more /\ more[i] = msgs[i]
    BY <1>1, <1>3
  <2>3. CASE \E i \in DOMAIN msgs : msgs[i].sid = s
    <3>1. PICK a : a = CHOOSE i \in DOMAIN msgs : msgs[i].sid = s
      OBVIOUS
    <3>2. a \in DOMAIN msgs /\ msgs[a].sid = s
      BY <2>3, <3>1
    <3>3. \E i \in DOMAIN more : more[i].sid = s
      BY <2>2, <3>2
    <3>4. PICK b : b = CHOOSE i \in DOMAIN more : more[i].sid = s
      OBVIOUS
    <3>5. b \in DOMAIN more /\ more[b].sid = s
      BY <3>3, <3>4
    <3>6. a = b
      BY <2>1, <3>2, <3>5
    <3>7. more[b].outcome = msgs[a].outcome
      BY <2>2, <3>2, <3>6
    <3> QED
      BY <2>3, <3>1, <3>3, <3>4, <3>7 DEF TextAnswers
  <2>4. CASE ~\E i \in DOMAIN msgs : msgs[i].sid = s
    BY <2>1, <2>4 DEF TextAnswers
  <2> QED
    BY <2>3, <2>4
<1>9. TextAnswers(more) = [TextAnswers(msgs) EXCEPT ![row.sid] = row.outcome]
  <2>1. \E f : f = TextAnswers(msgs)
    OBVIOUS
  <2>2. /\ TextAnswers(more) = [s \in Sids |-> TextAnswers(more)[s]]
        /\ TextAnswers(msgs) = [s \in Sids |-> TextAnswers(msgs)[s]]
    BY DEF TextAnswers
  <2> QED
    BY <1>4, <1>7, <1>8, <2>2
<1> QED
  BY <1>2, <1>6, <1>9

\* The list the bucket is asked for is as long as what was let in recently is many.
LEMMA WindowSize ==
  ASSUME NEW times \in Seq(Ticks), InOrder(times), NEW t \in Int
  PROVE  Cardinality({i \in DOMAIN times : times[i] > t}) = Len(Since(times, t))
<1>1. PICK m \in Nat : m = Len(times) /\ DOMAIN times = 1 .. m
  BY LenProperties
<1>2. PICK q : q = Older(times, t)
  OBVIOUS
<1>3. q \in 0 .. m /\ \A i \in 1 .. m : i <= q <=> times[i] <= t
  BY <1>1, <1>2, OlderIs
<1>4. Len(Since(times, t)) = m - q
  BY <1>1, <1>2, SinceIs
<1>5. \A i \in 1 .. m : times[i] \in Int
  <2>1. \A i \in 1 .. m : times[i] \in Ticks
    <3> HIDE DEF Ticks
    <3> QED
      BY <1>1
  <2> QED
    BY <2>1, LimiterBounds DEF Ticks
<1>6. PICK recent : recent = {i \in DOMAIN times : times[i] > t}
  OBVIOUS
<1>7. recent = q + 1 .. m
  <2>1. \A i \in recent : i \in q + 1 .. m
    BY <1>1, <1>3, <1>5, <1>6
  <2>2. \A i \in q + 1 .. m : i \in recent
    BY <1>1, <1>3, <1>5, <1>6
  <2> QED
    BY <2>1, <2>2
<1>8. Cardinality(q + 1 .. m) = m - q
  <2>1. IF q + 1 > m THEN m - q = 0 ELSE m - (q + 1) + 1 = m - q
    BY <1>1, <1>3
  <2>2. q + 1 \in Int /\ m \in Int
    BY <1>1, <1>3
  <2> QED
    BY <2>1, <2>2, FS_Interval
<1>9. Cardinality(recent) = Len(Since(times, t))
  BY <1>4, <1>7, <1>8
<1> QED
  BY <1>6, <1>9, Zenon

\* A link is stored once for all the messages that hold it.
LEMMA LinkAdded ==
  ASSUME NEW links \in Seq(Listings), NEW link \in Listings, NEW next,
         next = IF Contains(links, link) THEN links ELSE Append(links, link)
  PROVE  ToSet(next) = ToSet(links) \cup {link}
<1>1. PICK m \in Nat : m = Len(links) /\ DOMAIN links = 1 .. m
  BY LenProperties
<1>2. CASE Contains(links, link)
  <2>1. link \in ToSet(links)
    BY <1>1, <1>2 DEF Contains, ToSet
  <2> QED
    BY <1>2, <2>1
<1>3. CASE ~Contains(links, link)
  <2>1. next = Append(links, link)
    BY <1>3
  <2>2. /\ DOMAIN next = 1 .. m + 1 /\ \A i \in 1 .. m : next[i] = links[i]
        /\ next[m + 1] = link
    BY <1>1, <2>1, AppendProperties
  <2>3. \A i \in 1 .. m + 1 : i \in 1 .. m \/ i = m + 1
    OBVIOUS
  <2>4. m + 1 \in DOMAIN next /\ \A i \in 1 .. m : i \in DOMAIN next
    BY <2>2
  <2>5. ToSet(next) \subseteq ToSet(links) \cup {link}
    BY <1>1, <2>2, <2>3 DEF ToSet
  <2>6. ToSet(links) \cup {link} \subseteq ToSet(next)
    BY <1>1, <2>2, <2>4 DEF ToSet
  <2> QED
    BY <2>5, <2>6
<1> QED
  BY <1>2, <1>3

LEMMA TextAnswered ==
  ASSUME SmsIInv, NEW sid \in Sids, ~Seen(sid), NEW intent \in Intents, NEW outcome \in Outcomes,
         WriteMessage(sid, intent, outcome)
  PROVE  Conversation!Answer(sid, outcome)
<1>1. PICK row : row = Row(sid, intent, outcome)
  OBVIOUS
<1>2. row \in Message /\ row.sid = sid /\ row.outcome = outcome
  BY <1>1 DEF Row, Message
<1>3. messages' = Append(messages, row)
  BY <1>1 DEF WriteMessage, Row
<1>4. /\ messages \in Seq(Message)
      /\ \A i, k \in DOMAIN messages : messages[i].sid = messages[k].sid => i = k
      /\ \A i \in DOMAIN messages : messages[i].sid # row.sid
  BY <1>2 DEF SmsIInv, MessagesOk, Seen
<1>5. /\ TextAnswers(messages)[sid] = "none"
      /\ TextAnswers(messages') = [TextAnswers(messages) EXCEPT ![sid] = outcome]
  BY <1>2, <1>3, <1>4, AnswerAdded
<1> QED
  BY <1>5, AnswersNow, Zenon DEF Conversation!Answer, Conversation!Unanswered

\* A message that costs nothing is a remark, or the end or the start of the silence.
LEMMA UnlimitedText ==
  ASSUME SmsIInv, NEW sid \in Sids, NEW intent \in Intents, ProcessUnlimited(sid, intent)
  PROVE  Conversation!Next
<1>1. PICK outcome : outcome = IF Suppressed(intent) THEN "suppressed" ELSE Unlimited[intent]
  OBVIOUS
<1>2. /\ ~Seen(sid) /\ WriteMessage(sid, intent, outcome)
      /\ bucket' = bucket /\ tick' = tick /\ admittedAt' = admittedAt
      /\ sourceListings' = sourceListings
      /\ Suppressed(intent) \/ intent \in {"empty", "stop", "start", "help"}
  BY <1>1 DEF ProcessUnlimited, Unlimited, limiterVars
<1>3. /\ Suppressed(intent) => outcome = "suppressed" /\ consent = "opted_out"
      /\ intent = "start" => ~Suppressed(intent)
  BY <1>1 DEF Suppressed
<1>4. ToSet(sourceListings)' = ToSet(sourceListings)
  BY <1>2
<1>5. ASSUME outcome \in Outcomes PROVE Conversation!Answer(sid, outcome)
  BY <1>2, <1>5, TextAnswered
<1>6. CASE Suppressed(intent)
  <2>1. outcome = "suppressed" /\ consent = "opted_out" /\ consent' = consent
    BY <1>3, <1>6 DEF ProcessUnlimited
  <2>2. Conversation!Answer(sid, "suppressed")
    BY <1>5, <2>1 DEF Outcomes
  <2> QED
    BY <1>2, <1>4, <2>1, <2>2 DEF Conversation!Next, Conversation!Remark
<1>7. CASE ~Suppressed(intent) /\ intent = "empty"
  <2>1. outcome = "empty_body" /\ consent # "opted_out" /\ consent' = consent
    BY <1>1, <1>7 DEF Unlimited, Suppressed, ProcessUnlimited
  <2>2. Conversation!Answer(sid, "empty_body")
    BY <1>5, <2>1 DEF Outcomes
  <2> QED
    BY <1>2, <1>4, <2>1, <2>2 DEF Conversation!Next, Conversation!Remark
<1>8. CASE ~Suppressed(intent) /\ intent = "help"
  <2>1. outcome = "help_reply" /\ consent' = consent
    BY <1>1, <1>8 DEF Unlimited, ProcessUnlimited
  <2>2. Conversation!Answer(sid, "help_reply")
    BY <1>5, <2>1 DEF Outcomes
  <2> QED
    BY <1>2, <1>4, <2>1, <2>2 DEF Conversation!Next, Conversation!Remark
<1>9. CASE ~Suppressed(intent) /\ intent = "stop"
  <2>1. outcome = "stop_received" /\ consent # "opted_out" /\ consent' = "opted_out"
    BY <1>1, <1>9 DEF Unlimited, Suppressed, ProcessUnlimited
  <2>2. Conversation!Answer(sid, "stop_received")
    BY <1>5, <2>1 DEF Outcomes
  <2> QED
    BY <1>2, <1>4, <2>1, <2>2 DEF Conversation!Next, Conversation!Stop
<1>10. CASE ~Suppressed(intent) /\ intent = "start"
  <2>1. outcome = "start_received" /\ consent' = "opted_in"
    BY <1>1, <1>10 DEF Unlimited, ProcessUnlimited
  <2>2. Conversation!Answer(sid, "start_received")
    BY <1>5, <2>1 DEF Outcomes
  <2> QED
    BY <1>2, <1>4, <2>1, <2>2 DEF Conversation!Next, Conversation!Start
<1> QED
  BY <1>2, <1>6, <1>7, <1>8, <1>9, <1>10

\* One that the limiter is asked about is turned away or looked at, and it is
\* looked at only where the window has room.
LEMMA LimitedText ==
  ASSUME SmsIInv, NEW sid \in Sids, NEW intent \in Intents, ProcessLimited(sid, intent)
  PROVE  Conversation!Next
<1>1. PICK check : check = CheckRateLimit(bucket, tick)
  OBVIOUS
<1>2. PICK outcome : outcome = CASE check.reason # "allowed" -> "rate_limited"
                                 [] check.reason = "allowed" /\ intent \in Listings -> "url_processed"
                                 [] check.reason = "allowed" /\ intent = "text_only" -> "invalid_url"
                                 [] OTHER -> intent
  OBVIOUS
<1>3. /\ ~Seen(sid) /\ consent # "opted_out"
      /\ intent \notin {"empty", "stop", "start", "help"}
      /\ WriteMessage(sid, intent, outcome) /\ tick' = tick
      /\ consent' = IF check.reason = "allowed" /\ IsLink(intent) THEN "opted_in" ELSE consent
      /\ admittedAt' = IF check.reason = "allowed" THEN Append(admittedAt, tick) ELSE admittedAt
      /\ sourceListings' = IF check.reason = "allowed" /\ intent \in Listings
                                /\ ~Contains(sourceListings, intent)
                             THEN Append(sourceListings, intent) ELSE sourceListings
  BY <1>1, <1>2 DEF ProcessLimited, Unlimited, Suppressed
<1>4. consent' # "opted_out"
  BY <1>3
<1>5. intent \in Listings \/ intent \in {"text_only", "unsupported_url", "invalid_url"}
  BY <1>3 DEF Intents, BadLinks
<1>6. intent \in Listings => intent # "text_only"
  BY SmsAssumption
<1>7. ASSUME outcome \in Outcomes PROVE Conversation!Answer(sid, outcome)
  BY <1>3, <1>7, TextAnswered
<1>8. CASE check.reason # "allowed"
  <2>1. outcome = "rate_limited" /\ admittedAt' = admittedAt /\ sourceListings' = sourceListings
    BY <1>2, <1>3, <1>8
  <2>2. Conversation!Answer(sid, "rate_limited")
    BY <1>7, <2>1 DEF Outcomes
  <2> QED
    BY <1>3, <1>4, <2>1, <2>2 DEF Conversation!Next, Conversation!Remark
<1>9. ASSUME check.reason = "allowed"
      PROVE  Conversation!Cardinality(Conversation!Recent) < MaxPerWindow
  <2>1. LimiterOk(bucket, admittedAt, tick)
    BY DEF SmsIInv
  <2>2. PICK active : active = ActiveTimestamps(bucket, tick)
    OBVIOUS
  <2>3. active \in Seq(Ticks) /\ active = Since(admittedAt, tick - WindowTicks)
    BY <2>1, <2>2, WindowFacts
  <2>4. Len(active) \in Nat
    BY <2>3, LenProperties
  <2>5. ~(Len(active) >= MaxPerWindow)
    BY <1>1, <1>9, <2>2 DEF CheckRateLimit
  <2>6. admittedAt \in Seq(Ticks) /\ InOrder(admittedAt) /\ tick - WindowTicks \in Int
    BY <2>1, LimiterBounds DEF LimiterOk, Ticks
  <2>7. Cardinality({i \in DOMAIN admittedAt : admittedAt[i] > tick - WindowTicks}) = Len(active)
    BY <2>3, <2>6, WindowSize
  <2>8. Conversation!Recent = {i \in DOMAIN admittedAt : admittedAt[i] > tick - WindowTicks}
    BY DEF Conversation!Recent
  <2>9. Conversation!Cardinality(Conversation!Recent) = Cardinality(Conversation!Recent)
    BY Zenon DEF Conversation!Cardinality, Cardinality
  <2> QED
    BY <2>4, <2>5, <2>7, <2>8, <2>9, LimiterBounds
<1>10. CASE check.reason = "allowed" /\ intent \in Listings
  <2>1. outcome = "url_processed" /\ admittedAt' = Append(admittedAt, tick)
    BY <1>2, <1>3, <1>6, <1>10
  <2>2. Conversation!Answer(sid, "url_processed")
    BY <1>7, <2>1 DEF Outcomes
  <2>3. sourceListings' = IF Contains(sourceListings, intent) THEN sourceListings
                          ELSE Append(sourceListings, intent)
    BY <1>3, <1>10
  <2>4. sourceListings \in Seq(Listings)
    BY DEF SmsIInv, ListingsOk
  <2>5. ToSet(sourceListings') = ToSet(sourceListings) \cup {intent}
    BY <1>10, <2>3, <2>4, LinkAdded
  <2>6. ToSet(sourceListings)' = ToSet(sourceListings) \cup {intent}
    BY <2>5
  <2> QED
    BY <1>3, <1>4, <1>9, <1>10, <2>1, <2>2, <2>6 DEF Conversation!Next, Conversation!Look
<1>11. CASE check.reason = "allowed" /\ intent \notin Listings
  <2>1. /\ outcome \in {"unsupported_url", "invalid_url"}
        /\ admittedAt' = Append(admittedAt, tick) /\ sourceListings' = sourceListings
    <3>1. CASE intent = "text_only"
      BY <1>2, <1>3, <1>11, <3>1
    <3>2. CASE intent # "text_only"
      BY <1>2, <1>3, <1>5, <1>11, <3>2
    <3> QED
      BY <3>1, <3>2
  <2>2. Conversation!Answer(sid, outcome)
    BY <1>7, <2>1 DEF Outcomes, BadLinks
  <2>3. ToSet(sourceListings)' = ToSet(sourceListings)
    BY <2>1
  <2> QED
    BY <1>3, <1>4, <1>9, <1>11, <2>1, <2>2, <2>3 DEF Conversation!Next, Conversation!Look
<1> QED
  BY <1>8, <1>10, <1>11

LEMMA TextStep == SmsIInv /\ [SmsNext]_smsVars => [Conversation!Next]_(Conversation!vars)
<1> SUFFICES ASSUME SmsIInv, [SmsNext]_smsVars
             PROVE  [Conversation!Next]_(Conversation!vars)
  OBVIOUS
<1>1. ASSUME NEW sid \in Sids, NEW intent \in Intents, ProcessUnlimited(sid, intent)
      PROVE  Conversation!Next
  BY <1>1, UnlimitedText
<1>2. ASSUME NEW sid \in Sids, NEW intent \in Intents, ProcessLimited(sid, intent)
      PROVE  Conversation!Next
  BY <1>2, LimitedText
<1>3. ASSUME messages' = messages
      PROVE  [s \in Sids |-> AnswerTo(s)]' = [s \in Sids |-> AnswerTo(s)]
  BY <1>3, AnswersNow
<1>4. ASSUME messages' = messages, UNCHANGED <<consent, sourceListings, admittedAt, tick>>
      PROVE  UNCHANGED Conversation!vars
  BY <1>3, <1>4 DEF Conversation!vars
<1>5. ASSUME NEW sid \in Sids, ProcessDuplicate(sid) PROVE UNCHANGED Conversation!vars
  BY <1>4, <1>5 DEF ProcessDuplicate, limiterVars
<1>6. CASE Wait /\ UNCHANGED <<messages, consent, sourceListings, replies>>
  BY <1>3, <1>6 DEF Wait, Conversation!Next, Conversation!Pass
<1>7. CASE UNCHANGED smsVars
  BY <1>4, <1>7 DEF smsVars, limiterVars
<1> QED
  BY <1>1, <1>2, <1>5, <1>6, <1>7 DEF SmsNext

(***************************************************************************)
(* What a phone sees is the conversation: a text that Twilio delivers again*)
(* is no step of it, nothing but HELP breaks the silence between STOP and  *)
(* START, a link is looked at only by a text that is new and where the     *)
(* window has room, and no answer is ever given twice or taken back.       *)
(***************************************************************************)
THEOREM TextsImplementConversation == SmsSpec => ImplementsConversation
<1>1. SmsInit => SmsIInv /\ Conversation!Init
  <2> SUFFICES ASSUME SmsInit PROVE SmsIInv /\ Conversation!Init
    OBVIOUS
  <2>1. TextAnswers(messages) = [s \in Sids |-> "none"]
    BY DEF SmsInit, TextAnswers
  <2>2. /\ sourceListings = <<>> /\ ToSet(sourceListings) = {} /\ consent # "opted_out"
        /\ admittedAt = <<>> /\ tick = 1
    BY SmsAssumption DEF SmsInit, LimiterInit, ToSet
  <2>3. [s \in Sids |-> AnswerTo(s)] = [s \in Sids |-> "none"]
    BY <2>1, AnswersNow
  <2> QED
    BY <2>2, <2>3, SmsStart DEF Conversation!Init, Conversation!Unanswered
<1>2. SmsIInv /\ [SmsNext]_smsVars => SmsIInv' /\ [Conversation!Next]_(Conversation!vars)
  BY SmsStep, TextStep
<1> QED
  BY <1>1, <1>2, PTL DEF SmsSpec, ImplementsConversation, Conversation!Spec

-----------------------------------------------------------------------------
(***************************************************************************)
(* The fetch worker.  Its invariant is kept in parts: what holds of every  *)
(* request by itself, the slots, the queue for them, the limiter, the      *)
(* money and the counts.                                                   *)
(***************************************************************************)
Ages == 0 .. Window + 1
OldestFirst(ages) == \A i, k \in DOMAIN ages : i <= k => ages[i] >= ages[k]
InSlots == {"ready", "sleeping", "posting", "releasing", "backoff"}

RequestOk(f) ==
  /\ f.reservedIn # 0 <=> f.phase \in {"sleeping", "posting", "releasing"}
  /\ f.phase = "backoff" => f.attempts < Retries + 1
  /\ f.phase = "releasing" => f.outcome \in {"timeout", "transient"}
  /\ f.phase = "done" => f.outcome # "none" /\ (f.outcome \in Retryable => f.attempts = Retries + 1)

RequestsOk ==
  /\ fetch \in [Requests -> FetchState]
  /\ \A r \in Requests : RequestOk(fetch[r])

SlotsOk == Cardinality(Inside) <= MaxConcurrent

QueueOk ==
  /\ waiters \in Seq(Requests)
  /\ Range(waiters) = {r \in Requests : fetch[r].phase = "queued"}
  /\ IsInjective(waiters)

BucketOk ==
  /\ stamps \in Seq(Ages) /\ OldestFirst(stamps)
  /\ Len(Fresh) <= MaxPerMinute

MoneyOk ==
  /\ spent \in Nat /\ billed \in Nat /\ overrun \in Nat
  /\ period \in 1 .. LastMonth /\ calendar \in 1 .. LastMonth /\ period <= calendar
  /\ configured \in BOOLEAN /\ crossed \in BOOLEAN
  /\ \A r \in Requests : fetch[r].reservedIn <= period
  /\ BudgetConsistent /\ BudgetCapped

FetchStats == [fetchCount : Nat, errorCount : Nat, attempts : Nat, totalCost : Nat]

CountsOk ==
  /\ stats \in FetchStats
  /\ stats.fetchCount + stats.errorCount = Cardinality(Ended)
  /\ stats.attempts = Cardinality(TriesMade)

FetchIInv == RequestsOk /\ SlotsOk /\ QueueOk /\ BucketOk /\ MoneyOk /\ CountsOk

Moves(r, f) == fetch' = [fetch EXCEPT ![r] = f]

LEMMA FetchBounds ==
  /\ IsFiniteSet(Requests)
  /\ Retries \in Nat /\ Budget \in Nat /\ FallbackCost \in Nat
  /\ MaxConcurrent \in Nat /\ MaxConcurrent > 0 /\ MaxPerMinute \in Nat /\ MaxPerMinute > 0
  /\ Window \in Nat /\ Window > 0 /\ LastMonth \in Nat /\ LastMonth > 0
  /\ \A c \in Costs : c \in Nat
BY FetchAssumption

LEMMA RequestMoves ==
  ASSUME fetch \in [Requests -> FetchState], NEW r \in Requests, NEW f, Moves(r, f)
  PROVE  fetch'[r] = f /\ \A q \in Requests : q # r => fetch'[q] = fetch[q]
BY DEF Moves

LEMMA RequestsKept ==
  ASSUME RequestsOk, NEW r \in Requests, NEW f \in FetchState, RequestOk(f), Moves(r, f)
  PROVE  RequestsOk'
<1>1. fetch' \in [Requests -> FetchState]
  <2> HIDE DEF FetchState
  <2> QED
    BY DEF RequestsOk, Moves
<1>2. \A q \in Requests : RequestOk(fetch'[q])
  BY RequestMoves DEF RequestsOk
<1> QED
  BY <1>1, <1>2 DEF RequestsOk, RequestOk

LEMMA SlotsKept ==
  ASSUME RequestsOk, SlotsOk, NEW r \in Requests, NEW f, Moves(r, f),
         fetch[r].phase \in InSlots \/ f.phase \notin InSlots
  PROVE  SlotsOk'
<1>1. Inside' \subseteq Inside
  BY RequestMoves DEF Inside, InSlots, RequestsOk
<1>2. IsFiniteSet(Inside)
  <2>1. Inside \subseteq Requests
    BY DEF Inside
  <2> QED
    BY <2>1, FetchBounds, FS_Subset
<1>3. Cardinality(Inside') <= Cardinality(Inside) /\ IsFiniteSet(Inside')
  BY <1>1, <1>2, FS_Subset
<1>4. Cardinality(Inside') \in Nat /\ Cardinality(Inside) \in Nat
  BY <1>2, <1>3, FS_CardinalityType
<1> QED
  BY <1>3, <1>4, FetchBounds DEF SlotsOk

LEMMA QueueKept ==
  ASSUME RequestsOk, QueueOk, NEW r \in Requests, NEW f, Moves(r, f), waiters' = waiters,
         fetch[r].phase # "queued", f.phase # "queued"
  PROVE  QueueOk'
<1>1. \A q \in Requests : fetch'[q].phase = "queued" <=> fetch[q].phase = "queued"
  BY RequestMoves DEF RequestsOk
<1>2. {q \in Requests : fetch'[q].phase = "queued"} = {q \in Requests : fetch[q].phase = "queued"}
  BY <1>1
<1> QED
  BY <1>2 DEF QueueOk, IsInjective, Range

(* The counts. *)

Tries(S, f) == {try \in S \X (1 .. Retries + 1) : try[2] <= f[try[1]].attempts}

LEMMA CountsKept ==
  ASSUME RequestsOk, CountsOk, NEW r \in Requests, NEW f, Moves(r, f), stats' = stats,
         fetch[r].phase # "done", f.phase # "done" \/ f.outcome \in Refused
  PROVE  CountsOk'
<1>1. Ended' = Ended
  BY RequestMoves DEF Ended, RequestsOk
<1>2. \A q \in Ended : fetch'[q] = fetch[q]
  BY RequestMoves DEF Ended, RequestsOk
<1>3. TriesMade' = TriesMade
  BY <1>1, <1>2 DEF TriesMade
<1> QED
  BY <1>1, <1>3 DEF CountsOk

\* The tries of one request more.
LEMMA TriesAdded ==
  ASSUME NEW S, IsFiniteSet(S), NEW r, r \notin S, NEW n \in 0 .. Retries + 1,
         NEW old, NEW new, \A q \in S : new[q].attempts = old[q].attempts,
         new[r].attempts = n
  PROVE  /\ Cardinality(Tries(S, old)) \in Nat
         /\ Cardinality(Tries(S \cup {r}, new)) = Cardinality(Tries(S, old)) + n
<1>0. Retries \in Nat
  BY FetchBounds
<1>1. PICK own : own = {r} \X (1 .. n)
  OBVIOUS
<1>2. Tries(S \cup {r}, new) = Tries(S, old) \cup own
  <2>1. ASSUME NEW try \in Tries(S \cup {r}, new) PROVE try \in Tries(S, old) \cup own
    <3>1. PICK q \in S \cup {r}, i \in 1 .. Retries + 1 : try = <<q, i>> /\ i <= new[q].attempts
      BY <2>1 DEF Tries
    <3>2. CASE q = r
      <4>1. i \in 1 .. n
        BY <1>0, <3>1, <3>2
      <4> QED
        BY <1>1, <3>1, <3>2, <4>1
    <3>3. CASE q \in S
      BY <3>1, <3>3 DEF Tries
    <3> QED
      BY <3>1, <3>2, <3>3
  <2>2. ASSUME NEW try \in Tries(S, old) PROVE try \in Tries(S \cup {r}, new)
    BY DEF Tries
  <2>3. ASSUME NEW try \in own PROVE try \in Tries(S \cup {r}, new)
    <3>1. PICK i \in 1 .. n : try = <<r, i>>
      BY <1>1
    <3>2. i \in 1 .. Retries + 1 /\ i <= n
      BY <1>0
    <3> QED
      BY <3>1, <3>2 DEF Tries
  <2> QED
    BY <2>1, <2>2, <2>3
<1>3. IsFiniteSet(own) /\ Cardinality(own) = n
  <2>1. IsFiniteSet(1 .. n) /\ Cardinality(1 .. n) = n
    <3>1. IsFiniteSet(1 .. n) /\ Cardinality(1 .. n) = IF 1 > n THEN 0 ELSE n - 1 + 1
      BY <1>0, FS_Interval
    <3> QED
      BY <1>0, <3>1
  <2>2. IsFiniteSet({r}) /\ Cardinality({r}) = 1
    BY FS_Singleton
  <2>3. IsFiniteSet(own) /\ Cardinality(own) = 1 * Cardinality(1 .. n)
    BY <1>1, <2>1, <2>2, FS_Product
  <2> QED
    BY <1>0, <2>1, <2>3
<1>4. IsFiniteSet(Tries(S, old))
  <2>1. IsFiniteSet(1 .. Retries + 1)
    BY <1>0, FS_Interval
  <2>2. IsFiniteSet(S \X (1 .. Retries + 1))
    BY <2>1, FS_Product
  <2>3. Tries(S, old) \subseteq S \X (1 .. Retries + 1)
    BY DEF Tries
  <2> QED
    BY <2>2, <2>3, FS_Subset
<1>5. Tries(S, old) \cap own = {}
  BY <1>1 DEF Tries
<1>6. PICK was, sum : was = Tries(S, old) /\ sum = Tries(S \cup {r}, new)
  OBVIOUS
<1>7. /\ IsFiniteSet(was) /\ IsFiniteSet(own) /\ sum = was \cup own /\ was \cap own = {}
  BY <1>2, <1>3, <1>4, <1>5, <1>6
<1>8. Cardinality(sum) = Cardinality(was) + Cardinality(own) - Cardinality({})
  BY <1>7, FS_Union
<1>9. Cardinality({}) = 0 /\ Cardinality(was) \in Nat
  BY <1>7, FS_EmptySet, FS_CardinalityType
<1> QED
  BY <1>0, <1>3, <1>6, <1>8, <1>9

LEMMA CountsAdded ==
  ASSUME RequestsOk, CountsOk, NEW r \in Requests, NEW f \in FetchState, Moves(r, f),
         fetch[r].phase # "done", f.phase = "done", f.outcome \notin Refused,
         f.attempts = fetch[r].attempts, NEW cost \in Nat, Record(r, f.outcome, cost)
  PROVE  CountsOk'
<1>1. Ended' = Ended \cup {r} /\ r \notin Ended
  BY RequestMoves DEF Ended, RequestsOk
<1>2. IsFiniteSet(Ended)
  <2>1. Ended \subseteq Requests
    BY DEF Ended
  <2> QED
    BY <2>1, FetchBounds, FS_Subset
<1>3. Cardinality(Ended') = Cardinality(Ended) + 1 /\ Cardinality(Ended) \in Nat
  BY <1>1, <1>2, FS_AddElement, FS_CardinalityType
<1>4. PICK n : n = fetch[r].attempts
  OBVIOUS
<1>5. n \in 0 .. Retries + 1
  BY <1>4 DEF RequestsOk, FetchState
<1>6. TriesMade = Tries(Ended, fetch) /\ TriesMade' = Tries(Ended \cup {r}, fetch')
  BY <1>1 DEF TriesMade, Tries
<1>7. \A q \in Ended : fetch'[q].attempts = fetch[q].attempts
  BY <1>1, RequestMoves DEF Ended, RequestsOk
<1>8. fetch'[r].attempts = n
  BY <1>4, RequestMoves DEF RequestsOk
<1>9. Cardinality(TriesMade') = Cardinality(TriesMade) + n /\ Cardinality(TriesMade) \in Nat
  BY <1>1, <1>2, <1>5, <1>6, <1>7, <1>8, TriesAdded
<1>10. PICK ok \in {0, 1} :
        stats' = [fetchCount |-> stats.fetchCount + ok, errorCount |-> stats.errorCount + (1 - ok),
                  attempts |-> stats.attempts + n, totalCost |-> stats.totalCost + cost]
  <2>1. CASE f.outcome \in {"ok", "parse_failed"}
    <3>1. stats' = [fetchCount |-> stats.fetchCount + 1, errorCount |-> stats.errorCount + 0,
                    attempts |-> stats.attempts + n, totalCost |-> stats.totalCost + cost]
      BY <1>4, <2>1 DEF Record
    <3> QED
      BY <3>1
  <2>2. CASE f.outcome \notin {"ok", "parse_failed"}
    <3>1. stats' = [fetchCount |-> stats.fetchCount + 0, errorCount |-> stats.errorCount + 1,
                    attempts |-> stats.attempts + n, totalCost |-> stats.totalCost + cost]
      BY <1>4, <2>2 DEF Record
    <3> QED
      BY <3>1
  <2> QED
    BY <2>1, <2>2
<1>11. /\ stats.fetchCount \in Nat /\ stats.errorCount \in Nat /\ stats.attempts \in Nat
       /\ stats.totalCost \in Nat
  BY DEF CountsOk, FetchStats
<1>12. stats' \in FetchStats
  <2>1. n \in Nat /\ 1 - ok \in Nat /\ ok \in Nat
    BY <1>5, FetchBounds
  <2>2. /\ stats.fetchCount + ok \in Nat /\ stats.errorCount + (1 - ok) \in Nat
        /\ stats.attempts + n \in Nat /\ stats.totalCost + cost \in Nat
    BY <1>11, <2>1
  <2> QED
    BY <1>10, <2>2 DEF FetchStats
<1>13. /\ stats'.fetchCount = stats.fetchCount + ok /\ stats'.errorCount = stats.errorCount + (1 - ok)
       /\ stats'.attempts = stats.attempts + n
  BY <1>10
<1>14. stats'.fetchCount + stats'.errorCount = Cardinality(Ended')
  BY <1>3, <1>11, <1>13 DEF CountsOk
<1>15. stats'.attempts = Cardinality(TriesMade')
  BY <1>9, <1>11, <1>13 DEF CountsOk
<1> QED
  BY <1>12, <1>14, <1>15 DEF CountsOk

(* A try that ends, and one that goes on. *)

Leaves(r, f, cost) ==
  /\ f \in FetchState /\ Moves(r, f)
  /\ f.attempts = fetch[r].attempts /\ f.reservedIn = 0
  /\ \/ f.phase = "backoff" /\ f.attempts < Retries + 1 /\ stats' = stats
     \/ /\ f.phase = "done" /\ f.outcome \notin Refused /\ f.outcome # "none"
        /\ f.outcome \in Retryable => f.attempts = Retries + 1
        /\ Record(r, f.outcome, cost)

LEMMA EndLeaves ==
  ASSUME RequestsOk, NEW r \in Requests, NEW outcome \in Retryable \cup Permanent \cup {"ok", "parse_failed"},
         NEW cost \in Nat, End(r, outcome, cost),
         outcome \in Retryable => fetch[r].attempts = Retries + 1
  PROVE  \E f : Leaves(r, f, cost)
<1>1. fetch[r] \in FetchState
  BY DEF RequestsOk
<1>2. PICK f : f = [fetch[r] EXCEPT !.phase = "done", !.outcome = outcome, !.reservedIn = 0]
  OBVIOUS
<1>3. Moves(r, f) /\ Record(r, outcome, cost)
  BY <1>2 DEF End, Moves
<1>4. f.phase = "done" /\ f.outcome = outcome /\ f.reservedIn = 0 /\ f.attempts = fetch[r].attempts
  BY <1>1, <1>2 DEF FetchState
<1>5. f \in FetchState
  <2>1. f = [phase |-> "done", attempts |-> fetch[r].attempts, reservedIn |-> 0, outcome |-> outcome]
    BY <1>1, <1>2 DEF FetchState
  <2>2. 0 \in 0 .. LastMonth /\ "done" \in Phases /\ fetch[r].attempts \in 0 .. Retries + 1
    BY <1>1, FetchBounds DEF FetchState, Phases
  <2> QED
    BY <2>1, <2>2 DEF FetchState
<1>6. outcome \notin Refused /\ outcome # "none"
  BY DEF Refused, Retryable, Permanent
<1> QED
  BY <1>3, <1>4, <1>5, <1>6 DEF Leaves

LEMMA ErrorLeaves ==
  ASSUME RequestsOk, NEW r \in Requests, NEW error \in Retryable \cup Permanent,
         AfterError(r, error)
  PROVE  \E f : Leaves(r, f, 0)
<1>1. fetch[r] \in FetchState
  BY DEF RequestsOk
<1>2. fetch[r].attempts \in 0 .. Retries + 1
  BY <1>1 DEF FetchState
<1>3. CASE MayRetry(r, error)
  <2>1. PICK f : f = [fetch[r] EXCEPT !.phase = "backoff", !.reservedIn = 0]
    OBVIOUS
  <2>2. Moves(r, f) /\ stats' = stats /\ fetch[r].attempts < Retries + 1
    BY <1>3, <2>1 DEF AfterError, MayRetry, Moves
  <2>3. f.phase = "backoff" /\ f.reservedIn = 0 /\ f.attempts = fetch[r].attempts
    BY <1>1, <2>1 DEF FetchState
  <2>4. f \in FetchState
    <3>1. f = [phase |-> "backoff", attempts |-> fetch[r].attempts, reservedIn |-> 0,
               outcome |-> fetch[r].outcome]
      BY <1>1, <2>1 DEF FetchState
    <3>2. 0 \in 0 .. LastMonth /\ "backoff" \in Phases
      BY FetchBounds DEF Phases
    <3> QED
      BY <1>1, <3>1, <3>2 DEF FetchState
  <2> QED
    BY <2>2, <2>3, <2>4 DEF Leaves
<1>4. CASE ~MayRetry(r, error)
  <2>1. End(r, error, 0)
    BY <1>4 DEF AfterError
  <2>2. error \in Retryable => fetch[r].attempts = Retries + 1
    BY <1>2, <1>4, FetchBounds DEF MayRetry
  <2> QED
    BY <2>1, <2>2, EndLeaves
<1> QED
  BY <1>3, <1>4

LEMMA LeavesKeep ==
  ASSUME RequestsOk, SlotsOk, QueueOk, CountsOk, NEW r \in Requests, fetch[r].phase \in InSlots,
         NEW cost \in Nat, NEW f, Leaves(r, f, cost), waiters' = waiters
  PROVE  RequestsOk' /\ SlotsOk' /\ QueueOk' /\ CountsOk'
<1>1. f \in FetchState /\ Moves(r, f) /\ f.attempts = fetch[r].attempts
  BY DEF Leaves
<1>2. RequestOk(f)
  BY DEF Leaves, RequestOk
<1>3. f.phase \in {"backoff", "done"} /\ fetch[r].phase # "queued" /\ fetch[r].phase # "done"
  BY DEF Leaves, InSlots
<1>4. RequestsOk'
  BY <1>1, <1>2, RequestsKept
<1>5. SlotsOk'
  BY <1>1, SlotsKept
<1>6. QueueOk'
  BY <1>1, <1>3, QueueKept
<1>7. CountsOk'
  <2>1. CASE f.phase = "backoff"
    <3>1. stats' = stats /\ f.phase # "done"
      BY <2>1 DEF Leaves
    <3> QED
      BY <1>1, <1>3, <3>1, CountsKept
  <2>2. CASE f.phase = "done"
    <3>1. f.outcome \notin Refused /\ Record(r, f.outcome, cost)
      BY <2>2 DEF Leaves
    <3> QED
      BY <1>1, <1>3, <2>2, <3>1, CountsAdded
  <2> QED
    BY <1>3, <2>1, <2>2
<1> QED
  BY <1>4, <1>5, <1>6, <1>7

LEMMA GoesOnKeep ==
  ASSUME RequestsOk, SlotsOk, QueueOk, CountsOk, NEW r \in Requests, fetch[r].phase \in InSlots,
         NEW f \in FetchState, RequestOk(f), Moves(r, f), f.phase \in InSlots,
         waiters' = waiters, stats' = stats
  PROVE  RequestsOk' /\ SlotsOk' /\ QueueOk' /\ CountsOk'
<1>1. /\ f.phase # "queued" /\ f.phase # "done" /\ fetch[r].phase # "queued"
      /\ fetch[r].phase # "done"
  BY DEF InSlots
<1>2. RequestsOk'
  BY RequestsKept
<1>3. SlotsOk'
  BY SlotsKept
<1>4. QueueOk'
  BY <1>1, QueueKept
<1>5. CountsOk'
  BY <1>1, CountsKept
<1> QED
  BY <1>2, <1>3, <1>4, <1>5

(* The limiter. *)

LEMMA OutdatedIs ==
  ASSUME NEW ages \in Seq(Ages), OldestFirst(ages)
  PROVE  /\ Outdated(ages) \in 0 .. Len(ages)
         /\ \A i \in DOMAIN ages : i <= Outdated(ages) <=> ages[i] > Window
<1>1. /\ Len(ages) \in Nat /\ DOMAIN ages = 1 .. Len(ages)
      /\ \A i \in DOMAIN ages : ages[i] \in Int
  <2>1. \A i \in DOMAIN ages : ages[i] \in Ages
    <3> HIDE DEF Ages
    <3> QED
      OBVIOUS
  <2>2. Len(ages) \in Nat /\ DOMAIN ages = 1 .. Len(ages)
    BY LenProperties
  <2> QED
    BY <2>1, <2>2, FetchBounds DEF Ages
<1> DEFINE S == {i \in DOMAIN ages : ages[i] > Window}
<1>2. \E n \in 0 .. Len(ages) : \A i \in DOMAIN ages : i <= n <=> ages[i] > Window
  <2>1. CASE S = {}
    <3>1. \A i \in DOMAIN ages : i <= 0 <=> ages[i] > Window
      BY <1>1, <2>1
    <3> QED
      BY <1>1, <3>1
  <2>2. CASE S # {}
    <3>1. PICK n \in S : \A k \in S : k <= n
      <4>1. S \subseteq 1 .. Len(ages)
        BY <1>1
      <4> HIDE DEF S
      <4> QED
        BY <1>1, <2>2, <4>1, LastOf
    <3>2. n \in DOMAIN ages /\ ages[n] > Window
      OBVIOUS
    <3>3. \A i \in DOMAIN ages : i <= n => ages[i] > Window
      BY <1>1, <3>2, FetchBounds DEF OldestFirst
    <3>4. \A i \in DOMAIN ages : ages[i] > Window => i <= n
      BY <3>1
    <3>5. n \in 0 .. Len(ages)
      BY <1>1, <3>2
    <3>6. \A i \in DOMAIN ages : i <= n <=> ages[i] > Window
      BY <3>3, <3>4
    <3> HIDE DEF S
    <3> QED
      BY <3>5, <3>6
  <2> QED
    BY <2>1, <2>2
<1> QED
  BY <1>2 DEF Outdated

FreshOf(ages) == SubSeq(ages, Outdated(ages) + 1, Len(ages))

LEMMA FreshIs ==
  ASSUME NEW ages \in Seq(Ages), OldestFirst(ages)
  PROVE  /\ FreshOf(ages) \in Seq(Ages)
         /\ OldestFirst(FreshOf(ages))
         /\ Len(FreshOf(ages)) = Len(ages) - Outdated(ages)
<1>1. PICK n : n = Outdated(ages)
  OBVIOUS
<1>2. PICK m : m = Len(ages)
  OBVIOUS
<1>3. m \in Nat /\ DOMAIN ages = 1 .. m /\ n \in 0 .. m
  BY <1>1, <1>2, OutdatedIs, LenProperties
<1>4. \A i \in n + 1 .. m : ages[i] \in Ages
  <2>1. \A i \in n + 1 .. m : i \in DOMAIN ages
    BY <1>3
  <2> HIDE DEF Ages
  <2> QED
    BY <2>1
<1>5. /\ SubSeq(ages, n + 1, m) \in Seq(Ages)
      /\ Len(SubSeq(ages, n + 1, m)) = IF n + 1 <= m THEN m - (n + 1) + 1 ELSE 0
      /\ \A i \in 1 .. m - (n + 1) + 1 : SubSeq(ages, n + 1, m)[i] = ages[n + 1 + i - 1]
  <2>1. n + 1 \in Int /\ m \in Int
    BY <1>3
  <2> HIDE DEF Ages
  <2> QED
    BY <1>4, <2>1, SubSeqProperties
<1>6. PICK end : end = SubSeq(ages, n + 1, m)
  OBVIOUS
<1>7. /\ end \in Seq(Ages) /\ Len(end) = m - n
      /\ \A i \in 1 .. m - n : end[i] = ages[n + i]
  BY <1>3, <1>5, <1>6
<1>8. DOMAIN end = 1 .. m - n
  BY <1>7, LenProperties
<1>9. OldestFirst(end)
  <2> SUFFICES ASSUME NEW i \in 1 .. m - n, NEW k \in 1 .. m - n, i <= k
               PROVE  end[i] >= end[k]
    BY <1>8 DEF OldestFirst
  <2>1. n + i \in DOMAIN ages /\ n + k \in DOMAIN ages /\ n + i <= n + k
    BY <1>3
  <2>2. ages[n + i] >= ages[n + k]
    BY <2>1 DEF OldestFirst
  <2> QED
    BY <1>7, <2>2
<1>10. FreshOf(ages) = end
  BY <1>1, <1>2, <1>6 DEF FreshOf
<1> QED
  BY <1>1, <1>2, <1>7, <1>9, <1>10

LEMMA BucketFrom ==
  ASSUME stamps' \in Seq(Ages), OldestFirst(stamps'), Len(stamps') <= MaxPerMinute
  PROVE  BucketOk'
<1>1. Outdated(stamps') \in 0 .. Len(stamps') /\ Len(stamps') \in Nat
  BY OutdatedIs, LenProperties
<1>2. Len(FreshOf(stamps')) = Len(stamps') - Outdated(stamps')
  BY FreshIs
<1>3. Fresh' = FreshOf(stamps')
  BY DEF Fresh, FreshOf, Outdated
<1>4. Len(Fresh') <= MaxPerMinute
  BY <1>1, <1>2, <1>3, FetchBounds
<1> QED
  BY <1>4 DEF BucketOk, OldestFirst, Ages

LEMMA BucketKept ==
  ASSUME BucketOk, stamps' = stamps
  PROVE  BucketOk'
BY DEF BucketOk, Fresh, Outdated, OldestFirst, Ages

LEMMA FreshNow ==
  ASSUME BucketOk
  PROVE  Fresh \in Seq(Ages) /\ OldestFirst(Fresh) /\ Len(Fresh) \in Nat /\ Len(Fresh) <= MaxPerMinute
<1>1. Fresh = FreshOf(stamps)
  BY DEF Fresh, FreshOf
<1>2. Fresh \in Seq(Ages) /\ OldestFirst(Fresh)
  BY <1>1, FreshIs DEF BucketOk
<1>3. Len(Fresh) \in Nat
  BY <1>2, LenProperties
<1> QED
  BY <1>2, <1>3 DEF BucketOk

LEMMA BucketPosted ==
  ASSUME BucketOk, RoomInBucket, stamps' = Append(Fresh, 0)
  PROVE  BucketOk'
<1>1. PICK old : old = Fresh
  OBVIOUS
<1>2. old \in Seq(Ages) /\ OldestFirst(old) /\ Len(old) \in Nat /\ Len(old) < MaxPerMinute
  BY <1>1, FreshNow DEF RoomInBucket
<1>3. PICK n \in Nat : n = Len(old) /\ DOMAIN old = 1 .. n
  BY <1>2, LenProperties
<1>4. PICK new : new = Append(old, 0)
  OBVIOUS
<1>5. 0 \in Ages /\ \A i \in 1 .. n : old[i] \in Ages
  <2>1. 0 \in Ages
    BY FetchBounds DEF Ages
  <2>2. \A i \in 1 .. n : old[i] \in Ages
    <3> HIDE DEF Ages
    <3> QED
      BY <1>2, <1>3
  <2> QED
    BY <2>1, <2>2
<1>6. /\ new \in Seq(Ages) /\ Len(new) = n + 1
      /\ \A i \in 1 .. n : new[i] = old[i]
      /\ new[n + 1] = 0
  <2> HIDE DEF Ages
  <2> QED
    BY <1>2, <1>3, <1>4, <1>5, AppendProperties
<1>7. DOMAIN new = 1 .. n + 1
  BY <1>6, LenProperties
<1>8. OldestFirst(new)
  <2> SUFFICES ASSUME NEW i \in 1 .. n + 1, NEW k \in 1 .. n + 1, i <= k
               PROVE  new[i] >= new[k]
    BY <1>7 DEF OldestFirst
  <2>1. \A j \in 1 .. n + 1 : j \in 1 .. n \/ j = n + 1
    BY <1>3
  <2>2. CASE k \in 1 .. n
    <3>1. i \in 1 .. n
      BY <2>2
    <3>2. old[i] >= old[k]
      BY <1>2, <1>3, <2>2, <3>1 DEF OldestFirst
    <3> QED
      BY <1>6, <2>2, <3>1, <3>2
  <2>3. CASE k = n + 1
    <3>1. new[k] = 0
      BY <1>6, <2>3
    <3>2. new[i] \in Ages
      BY <1>5, <1>6, <2>1
    <3>3. new[i] \in Nat
      BY <3>2, FetchBounds DEF Ages
    <3> QED
      BY <3>1, <3>3
  <2> QED
    BY <2>1, <2>2, <2>3
<1>9. stamps' = new
  BY <1>1, <1>4
<1>10. Len(new) <= MaxPerMinute
  BY <1>2, <1>3, <1>6, FetchBounds
<1> QED
  BY <1>6, <1>8, <1>9, <1>10, BucketFrom

LEMMA BucketTick ==
  ASSUME BucketOk, FetchTick
  PROVE  BucketOk'
<1>1. PICK old, new : old = stamps /\ new = stamps'
  OBVIOUS
<1>2. old \in Seq(Ages) /\ OldestFirst(old)
  BY <1>1 DEF BucketOk
<1>3. PICK n \in Nat : n = Len(old) /\ DOMAIN old = 1 .. n
  BY <1>2, LenProperties
<1>4. new = [i \in 1 .. n |-> IF old[i] <= Window THEN old[i] + 1 ELSE old[i]]
  BY <1>1, <1>3 DEF FetchTick
<1>5. \A i \in 1 .. n : old[i] \in 0 .. Window + 1
  <2>1. \A i \in 1 .. n : old[i] \in Ages
    <3> HIDE DEF Ages
    <3> QED
      BY <1>2, <1>3
  <2> QED
    BY <2>1 DEF Ages
<1>6. \A i \in 1 .. n : /\ new[i] \in Ages
                       /\ new[i] = IF old[i] <= Window THEN old[i] + 1 ELSE old[i]
  BY <1>4, <1>5, FetchBounds DEF Ages
<1>7. new \in Seq(Ages) /\ Len(new) = n /\ DOMAIN new = 1 .. n
  <2>1. new = [i \in 1 .. n |-> new[i]]
    BY <1>4
  <2>2. new \in Seq(Ages)
    <3> HIDE DEF Ages
    <3> QED
      BY <1>6, <2>1, SeqDef
  <2> QED
    BY <1>4, <2>2, LenProperties
<1>8. OldestFirst(new)
  <2> SUFFICES ASSUME NEW i \in 1 .. n, NEW k \in 1 .. n, i <= k
               PROVE  new[i] >= new[k]
    BY <1>7 DEF OldestFirst
  <2>1. old[i] >= old[k]
    BY <1>2, <1>3 DEF OldestFirst
  <2> QED
    BY <1>5, <1>6, <2>1, FetchBounds
<1>9. Outdated(old) <= Outdated(new)
  <2>1. PICK a, b : a = Outdated(old) /\ b = Outdated(new)
    OBVIOUS
  <2>2. a \in 0 .. n /\ \A i \in 1 .. n : i <= a <=> old[i] > Window
    BY <1>2, <1>3, <2>1, OutdatedIs
  <2>3. b \in 0 .. n /\ \A i \in 1 .. n : i <= b <=> new[i] > Window
    BY <1>7, <1>8, <2>1, OutdatedIs
  <2>4. CASE a = 0
    BY <2>1, <2>3, <2>4
  <2>5. CASE a # 0
    <3>1. a \in 1 .. n /\ old[a] > Window
      BY <2>2, <2>5
    <3>2. new[a] > Window
      BY <1>5, <1>6, <3>1, FetchBounds
    <3> QED
      BY <2>1, <2>3, <3>1, <3>2
  <2> QED
    BY <2>4, <2>5
<1>10. Len(FreshOf(old)) = n - Outdated(old) /\ Len(FreshOf(new)) = n - Outdated(new)
  BY <1>2, <1>3, <1>7, <1>8, FreshIs
<1>11. Outdated(old) \in 0 .. n /\ Outdated(new) \in 0 .. n
  BY <1>2, <1>3, <1>7, <1>8, OutdatedIs
<1>12. Fresh = FreshOf(old) /\ Fresh' = FreshOf(new)
  BY <1>1 DEF Fresh, FreshOf, Outdated
<1>13. Len(Fresh') <= MaxPerMinute
  BY <1>9, <1>10, <1>11, <1>12, FetchBounds DEF BucketOk
<1> QED
  BY <1>1, <1>7, <1>8, <1>13 DEF BucketOk, OldestFirst, Ages

(* The money. *)

ReservedNow == {r \in Requests : fetch[r].reservedIn = calendar}
BilledNow == IF NewPeriod THEN 0 ELSE billed
OverrunNow == IF NewPeriod THEN 0 ELSE overrun
Uncrossed == NewPeriod \/ ~crossed

LEMMA CountedIs ==
  ASSUME RequestsOk, MoneyOk
  PROVE  /\ IsFiniteSet(ReservedNow)
         /\ Counted \in Nat /\ BilledNow \in Nat /\ OverrunNow \in Nat
         /\ Counted <= Budget + OverrunNow
         /\ Uncrossed => Counted = BilledNow + FallbackCost * Cardinality(ReservedNow)
<1>1. IsFiniteSet(ReservedNow)
  <2>1. ReservedNow \subseteq Requests
    BY DEF ReservedNow
  <2> QED
    BY <2>1, FetchBounds, FS_Subset
<1>2. Counted \in Nat /\ BilledNow \in Nat /\ OverrunNow \in Nat
  BY DEF Counted, BilledNow, OverrunNow, MoneyOk
<1>3. Counted <= Budget + OverrunNow
  BY FetchBounds DEF Counted, OverrunNow, MoneyOk, BudgetCapped
<1>4. CASE NewPeriod
  <2>1. \A q \in Requests : fetch[q].reservedIn # calendar
    <3> TAKE q \in Requests
    <3>1. fetch[q].reservedIn \in 0 .. LastMonth /\ fetch[q].reservedIn <= period
      BY DEF RequestsOk, FetchState, MoneyOk
    <3> QED
      BY <1>4, <3>1, FetchBounds DEF MoneyOk, NewPeriod
  <2>2. ReservedNow = {}
    BY <2>1 DEF ReservedNow
  <2>3. Cardinality(ReservedNow) = 0
    BY <2>2, FS_EmptySet
  <2>4. Counted = 0 /\ BilledNow = 0
    BY <1>4 DEF Counted, BilledNow
  <2>5. FallbackCost * 0 = 0
    BY FetchBounds
  <2> QED
    BY <1>1, <1>2, <1>3, <2>3, <2>4, <2>5
<1>5. CASE ~NewPeriod
  <2>1. ReservedNow = Reserved
    BY <1>5 DEF ReservedNow, Reserved, NewPeriod
  <2>2. Counted = spent /\ BilledNow = billed
    BY <1>5 DEF Counted, BilledNow
  <2>3. Uncrossed => spent = billed + FallbackCost * Cardinality(Reserved)
    BY <1>5 DEF Uncrossed, MoneyOk, BudgetConsistent
  <2> QED
    BY <1>1, <1>2, <1>3, <2>1, <2>2, <2>3
<1> QED
  BY <1>4, <1>5

LEMMA MoneyFrom ==
  ASSUME MoneyOk, spent' \in Nat, billed' \in Nat, overrun' \in Nat, period' = calendar,
         calendar' = calendar, configured' = configured, crossed' \in BOOLEAN,
         \A q \in Requests : fetch'[q].reservedIn <= calendar,
         spent' <= Budget + overrun',
         ~crossed' => spent' = billed' + FallbackCost * Cardinality(ReservedNow')
  PROVE  MoneyOk'
<1>1. Reserved' = ReservedNow'
  BY DEF Reserved, ReservedNow
<1>2. BudgetConsistent'
  BY <1>1 DEF BudgetConsistent
<1>3. BudgetCapped'
  BY DEF BudgetCapped
<1>4. calendar \in 1 .. LastMonth /\ calendar <= calendar
  BY FetchBounds DEF MoneyOk
<1> QED
  BY <1>2, <1>3, <1>4 DEF MoneyOk

moneyVars == <<spent, period, calendar, configured, billed, overrun, crossed>>

LEMMA MoneyKept ==
  ASSUME RequestsOk, MoneyOk, NEW r \in Requests, NEW f, Moves(r, f), UNCHANGED moneyVars,
         f.reservedIn = fetch[r].reservedIn
  PROVE  MoneyOk'
<1>1. \A q \in Requests : fetch'[q].reservedIn = fetch[q].reservedIn
  BY RequestMoves DEF RequestsOk
<1>2. Reserved' = Reserved
  BY <1>1 DEF Reserved, moneyVars
<1>3. BudgetConsistent'
  BY <1>2 DEF BudgetConsistent, MoneyOk, moneyVars
<1>4. BudgetCapped'
  BY DEF BudgetCapped, MoneyOk, moneyVars
<1> QED
  BY <1>1, <1>3, <1>4 DEF MoneyOk, moneyVars

\* Who has reserved in this month, after one request moved.
LEMMA ReservedMoves ==
  ASSUME RequestsOk, MoneyOk, NEW r \in Requests, NEW f, Moves(r, f), calendar' = calendar,
         f.reservedIn \in {0, calendar}
  PROVE  /\ \A q \in Requests : fetch'[q].reservedIn <= calendar
         /\ f.reservedIn = calendar => ReservedNow' = ReservedNow \cup {r}
         /\ f.reservedIn = 0 => ReservedNow' = ReservedNow \ {r}
<1>1. calendar \in Nat /\ calendar > 0
  BY FetchBounds DEF MoneyOk
<1>2. fetch'[r] = f /\ \A q \in Requests : q # r => fetch'[q] = fetch[q]
  BY RequestMoves DEF RequestsOk
<1>3. \A q \in Requests : fetch[q].reservedIn <= calendar
  <2> TAKE q \in Requests
  <2>1. fetch[q].reservedIn \in 0 .. LastMonth /\ fetch[q].reservedIn <= period
    BY DEF RequestsOk, FetchState, MoneyOk
  <2> QED
    BY <2>1, FetchBounds DEF MoneyOk
<1>4. \A q \in Requests : fetch'[q].reservedIn <= calendar
  BY <1>1, <1>2, <1>3
<1>5. f.reservedIn = calendar => ReservedNow' = ReservedNow \cup {r}
  BY <1>2 DEF ReservedNow
<1>6. f.reservedIn = 0 => ReservedNow' = ReservedNow \ {r}
  BY <1>1, <1>2 DEF ReservedNow
<1> QED
  BY <1>4, <1>5, <1>6

\* A use of the budget that leaves the counter as it is.
LEMMA MoneyRolled ==
  ASSUME RequestsOk, MoneyOk, NEW r \in Requests, NEW f, Moves(r, f), f.reservedIn = 0,
         fetch[r].reservedIn = 0, spent' = Counted, StartPeriod,
         billed' = BilledNow, overrun' = OverrunNow, calendar' = calendar,
         configured' = configured
  PROVE  MoneyOk'
<1>1. r \notin ReservedNow
  BY FetchBounds DEF ReservedNow, MoneyOk
<1>2. ReservedNow' = ReservedNow /\ \A q \in Requests : fetch'[q].reservedIn <= calendar
  BY <1>1, ReservedMoves
<1>3. crossed' \in BOOLEAN /\ (~crossed' => Uncrossed) /\ period' = calendar
  BY DEF StartPeriod, Uncrossed, MoneyOk
<1>4. ~crossed' => spent' = billed' + FallbackCost * Cardinality(ReservedNow')
  BY <1>2, <1>3, CountedIs
<1> QED
  BY <1>2, <1>3, <1>4, CountedIs, MoneyFrom

LEMMA CostOfOneMore ==
  ASSUME NEW a \in Nat, NEW n \in Nat
  PROVE  a * (n + 1) = a * n + a /\ a * n \in Nat
OBVIOUS

\* One that reserves.
LEMMA MoneyReserved ==
  ASSUME RequestsOk, MoneyOk, NEW r \in Requests, NEW f, Moves(r, f), f.reservedIn = calendar,
         fetch[r].reservedIn = 0, Fits, spent' = Counted + FallbackCost, StartPeriod,
         billed' = BilledNow, overrun' = OverrunNow, calendar' = calendar,
         configured' = configured
  PROVE  MoneyOk'
<1>1. r \notin ReservedNow
  BY FetchBounds DEF ReservedNow, MoneyOk
<1>2. /\ ReservedNow' = ReservedNow \cup {r}
      /\ \A q \in Requests : fetch'[q].reservedIn <= calendar
  BY ReservedMoves
<1>3. crossed' \in BOOLEAN /\ (~crossed' => Uncrossed) /\ period' = calendar
  BY DEF StartPeriod, Uncrossed, MoneyOk
<1>4. PICK n : n = Cardinality(ReservedNow)
  OBVIOUS
<1>5. n \in Nat /\ Cardinality(ReservedNow') = n + 1
  BY <1>1, <1>2, <1>4, CountedIs, FS_AddElement, FS_CardinalityType
<1>6. ~crossed' => spent' = billed' + FallbackCost * Cardinality(ReservedNow')
  <2>1. FallbackCost * (n + 1) = FallbackCost * n + FallbackCost /\ FallbackCost * n \in Nat
    BY <1>5, FetchBounds, CostOfOneMore
  <2>2. Uncrossed => Counted = BilledNow + FallbackCost * n
    BY <1>4, CountedIs
  <2>3. Counted \in Nat /\ BilledNow \in Nat
    BY CountedIs
  <2> QED
    BY <1>3, <1>5, <2>1, <2>2, <2>3, FetchBounds
<1>7. /\ spent' \in Nat /\ billed' \in Nat /\ overrun' \in Nat
      /\ spent' <= Budget + overrun'
  BY CountedIs, FetchBounds DEF Fits
<1> QED
  BY <1>2, <1>3, <1>6, <1>7, MoneyFrom

\* And one that settles a reservation.
LEMMA MoneySettled ==
  ASSUME RequestsOk, MoneyOk, NEW r \in Requests, NEW f, Moves(r, f), f.reservedIn = 0,
         NEW actual \in Nat, Settle(r, actual), calendar' = calendar, configured' = configured
  PROVE  MoneyOk'
<1>1. /\ ReservedNow' = ReservedNow \ {r}
      /\ \A q \in Requests : fetch'[q].reservedIn <= calendar
  BY ReservedMoves
<1>2. PICK counted, was, over :
        counted = Counted /\ was = BilledNow /\ over = OverrunNow
  OBVIOUS
<1>3. counted \in Nat /\ was \in Nat /\ over \in Nat /\ counted <= Budget + over
  BY <1>2, CountedIs
<1>4. PICK own \in {0, actual} :
        /\ spent' = NotBelowZero(counted + actual - FallbackCost)
        /\ billed' = was + own
        /\ overrun' = over + NotBelowZero(actual - FallbackCost)
        /\ fetch[r].reservedIn = calendar => own = actual
  BY <1>2 DEF Settle, BilledNow, OverrunNow
<1>5. /\ crossed' \in BOOLEAN /\ period' = calendar
      /\ ~crossed' => Uncrossed /\ fetch[r].reservedIn = calendar
  BY DEF Settle, Uncrossed, MoneyOk
<1>6. /\ spent' \in Nat /\ billed' \in Nat /\ overrun' \in Nat
      /\ spent' <= Budget + overrun'
  BY <1>3, <1>4, FetchBounds DEF NotBelowZero
<1>7. ASSUME ~crossed'
      PROVE  spent' = billed' + FallbackCost * Cardinality(ReservedNow')
  <2>1. r \in ReservedNow /\ own = actual
    BY <1>4, <1>5, <1>7 DEF ReservedNow
  <2>2. PICK n : n = Cardinality(ReservedNow')
    OBVIOUS
  <2>3. n \in Nat /\ Cardinality(ReservedNow) = n + 1
    <3>1. IsFiniteSet(ReservedNow') /\ Cardinality(ReservedNow') = Cardinality(ReservedNow) - 1
      BY <1>1, <2>1, CountedIs, FS_RemoveElement
    <3>2. Cardinality(ReservedNow) \in Nat /\ Cardinality(ReservedNow') \in Nat
      BY <3>1, CountedIs, FS_CardinalityType
    <3> QED
      BY <2>2, <3>1, <3>2
  <2>4. FallbackCost * (n + 1) = FallbackCost * n + FallbackCost /\ FallbackCost * n \in Nat
    BY <2>3, FetchBounds, CostOfOneMore
  <2>5. counted = was + FallbackCost * (n + 1)
    BY <1>2, <1>5, <1>7, <2>3, CountedIs
  <2> QED
    BY <1>3, <1>4, <2>1, <2>2, <2>4, <2>5, FetchBounds DEF NotBelowZero
<1> QED
  BY <1>1, <1>5, <1>6, <1>7, MoneyFrom

(* The actions. *)

LEMMA PhaseOf ==
  ASSUME RequestsOk, NEW r \in Requests
  PROVE  /\ fetch[r] \in FetchState /\ RequestOk(fetch[r])
         /\ fetch[r].attempts \in 0 .. Retries + 1 /\ fetch[r].phase \in Phases
         /\ fetch[r].reservedIn \in 0 .. LastMonth
BY DEF RequestsOk, FetchState

LEMMA ArriveKeeps ==
  ASSUME FetchIInv, NEW r \in Requests, Arrive(r)
  PROVE  FetchIInv'
<1>1. fetch[r] \in FetchState /\ RequestOk(fetch[r]) /\ fetch[r].phase = "new"
  BY PhaseOf DEF FetchIInv, Arrive
<1>2. RequestsOk /\ SlotsOk /\ QueueOk /\ BucketOk /\ MoneyOk /\ CountsOk
  BY DEF FetchIInv
<1>3. UNCHANGED moneyVars /\ stats' = stats /\ stamps' = stamps
  BY DEF Arrive, moneyVars
<1>4. BucketOk'
  BY <1>2, <1>3, BucketKept
<1>5. CASE fetch' = [fetch EXCEPT ![r].phase = "queued"] /\ waiters' = Append(waiters, r)
  <2>1. PICK f : f = [fetch[r] EXCEPT !.phase = "queued"]
    OBVIOUS
  <2>2. Moves(r, f)
    BY <1>2, <1>5, <2>1 DEF Moves, RequestsOk
  <2>3. f.phase = "queued" /\ f.reservedIn = fetch[r].reservedIn
    BY <1>1, <2>1 DEF FetchState
  <2>4. f \in FetchState /\ RequestOk(f)
    <3>1. f = [phase |-> "queued", attempts |-> fetch[r].attempts,
               reservedIn |-> fetch[r].reservedIn, outcome |-> fetch[r].outcome]
      BY <1>1, <2>1 DEF FetchState
    <3>2. "queued" \in Phases
      BY DEF Phases
    <3>3. f \in FetchState
      BY <1>1, <3>1, <3>2 DEF FetchState
    <3> QED
      BY <1>1, <2>3, <3>3 DEF RequestOk
  <2>5. RequestsOk'
    BY <1>2, <2>2, <2>4, RequestsKept
  <2>6. SlotsOk'
    <3>1. f.phase \notin InSlots
      BY <2>3 DEF InSlots
    <3> QED
      BY <1>2, <2>2, <3>1, SlotsKept
  <2>7. MoneyOk'
    BY <1>2, <1>3, <2>2, <2>3, MoneyKept
  <2>8. CountsOk'
    <3>1. fetch[r].phase # "done" /\ f.phase # "done"
      BY <1>1, <2>3
    <3> QED
      BY <1>2, <1>3, <2>2, <3>1, CountsKept
  <2>9. QueueOk'
    <3>1. PICK old, new : old = waiters /\ new = Append(old, r)
      OBVIOUS
    <3>2. old \in Seq(Requests) /\ IsInjective(old)
      BY <1>2, <3>1 DEF QueueOk
    <3>3. PICK n \in Nat : n = Len(old) /\ DOMAIN old = 1 .. n
      BY <3>2, LenProperties
    <3>4. /\ new \in Seq(Requests) /\ Len(new) = n + 1
          /\ \A i \in 1 .. n : new[i] = old[i]
          /\ new[n + 1] = r
      BY <3>1, <3>2, <3>3, AppendProperties
    <3>5. DOMAIN new = 1 .. n + 1
      BY <3>4, LenProperties
    <3>6. \A i \in 1 .. n + 1 : i \in 1 .. n \/ i = n + 1
      OBVIOUS
    <3>7. \A i \in 1 .. n : i \in 1 .. n + 1
      OBVIOUS
    <3>8. n + 1 \in 1 .. n + 1
      OBVIOUS
    <3>9. Range(old) = {q \in Requests : fetch[q].phase = "queued"}
      BY <1>2, <3>1 DEF QueueOk
    <3>10. \A i \in 1 .. n : old[i] # r
      BY <1>1, <3>3, <3>9 DEF Range
    <3>11. IsInjective(new)
      <4> SUFFICES ASSUME NEW i \in 1 .. n + 1, NEW k \in 1 .. n + 1, new[i] = new[k]
                   PROVE  i = k
        BY <3>5 DEF IsInjective
      <4>1. CASE i \in 1 .. n /\ k \in 1 .. n
        BY <3>2, <3>3, <3>4, <4>1 DEF IsInjective
      <4>2. CASE i = n + 1 /\ k \in 1 .. n
        BY <3>4, <3>10, <4>2
      <4>3. CASE i \in 1 .. n /\ k = n + 1
        BY <3>4, <3>10, <4>3
      <4> QED
        BY <3>6, <4>1, <4>2, <4>3
    <3>12. Range(new) = Range(old) \cup {r}
      <4>1. \A i \in 1 .. n + 1 : new[i] \in Range(old) \cup {r}
        BY <3>3, <3>4, <3>6 DEF Range
      <4>2. \A i \in 1 .. n : old[i] \in Range(new)
        BY <3>4, <3>5, <3>7 DEF Range
      <4>3. r \in Range(new)
        BY <3>4, <3>5, <3>8 DEF Range
      <4>4. Range(new) \subseteq Range(old) \cup {r}
        BY <3>5, <4>1 DEF Range
      <4>5. Range(old) \subseteq Range(new)
        BY <3>3, <4>2 DEF Range
      <4> QED
        BY <4>3, <4>4, <4>5
    <3>13. {q \in Requests : fetch'[q].phase = "queued"}
              = {q \in Requests : fetch[q].phase = "queued"} \cup {r}
      BY <1>2, <2>2, <2>3, RequestMoves DEF RequestsOk
    <3>14. Range(new) = {q \in Requests : fetch'[q].phase = "queued"}
      BY <3>9, <3>12, <3>13
    <3>15. waiters' = new
      BY <1>5, <3>1
    <3> QED
      BY <3>4, <3>11, <3>14, <3>15 DEF QueueOk, IsInjective, Range
  <2> QED
    BY <1>4, <2>5, <2>6, <2>7, <2>8, <2>9 DEF FetchIInv
<1>6. CASE /\ \E refusal \in Refused :
                fetch' = [fetch EXCEPT ![r].phase = "done", ![r].outcome = refusal]
           /\ waiters' = waiters
  <2>1. PICK refusal \in Refused :
          fetch' = [fetch EXCEPT ![r].phase = "done", ![r].outcome = refusal]
    BY <1>6
  <2>2. PICK f : f = [phase |-> "done", attempts |-> fetch[r].attempts,
                      reservedIn |-> fetch[r].reservedIn, outcome |-> refusal]
    OBVIOUS
  <2>3. Moves(r, f)
    <3>1. f = [fetch[r] EXCEPT !.phase = "done", !.outcome = refusal]
      <4>1. PICK e : e = [fetch[r] EXCEPT !.phase = "done", !.outcome = refusal]
        OBVIOUS
      <4>2. fetch[r] \in FetchState
        BY <1>1
      <4>3. e = [phase |-> "done", attempts |-> fetch[r].attempts,
                 reservedIn |-> fetch[r].reservedIn, outcome |-> refusal]
        BY <4>1, <4>2 DEF FetchState
      <4> QED
        BY <2>2, <4>1, <4>3
    <3>2. fetch' = [fetch EXCEPT ![r] = [fetch[r] EXCEPT !.phase = "done", !.outcome = refusal]]
      BY <1>2, <2>1 DEF RequestsOk
    <3> QED
      BY <3>1, <3>2 DEF Moves
  <2>4. f.phase = "done" /\ f.reservedIn = fetch[r].reservedIn /\ f.outcome \in Refused
    BY <2>2
  <2>5. f \in FetchState /\ RequestOk(f)
    <3>1. "done" \in Phases /\ refusal \in {"portal_mismatch", "unknown_portal"}
      BY DEF Phases, Refused
    <3>2. f \in FetchState
      BY <1>1, <2>2, <3>1 DEF FetchState
    <3>3. f.outcome # "none" /\ f.outcome \notin Retryable
      BY <2>2, <3>1 DEF Retryable
    <3> QED
      BY <1>1, <2>4, <3>2, <3>3 DEF RequestOk
  <2>6. RequestsOk'
    BY <1>2, <2>3, <2>5, RequestsKept
  <2>7. SlotsOk'
    <3>1. f.phase \notin InSlots
      BY <2>4 DEF InSlots
    <3> QED
      BY <1>2, <2>3, <3>1, SlotsKept
  <2>8. MoneyOk'
    BY <1>2, <1>3, <2>3, <2>4, MoneyKept
  <2>9. fetch[r].phase # "done" /\ fetch[r].phase # "queued" /\ f.phase # "queued"
    BY <1>1, <2>4
  <2>10. CountsOk'
    BY <1>2, <1>3, <2>3, <2>4, <2>9, CountsKept
  <2>11. QueueOk'
    BY <1>2, <1>6, <2>3, <2>9, QueueKept
  <2> QED
    BY <1>4, <2>6, <2>7, <2>8, <2>10, <2>11 DEF FetchIInv
<1> QED
  BY <1>5, <1>6 DEF Arrive

LEMMA TakeSlotKeeps ==
  ASSUME FetchIInv, NEW r \in Requests, TakeSlot(r)
  PROVE  FetchIInv'
<1>1. RequestsOk /\ SlotsOk /\ QueueOk /\ BucketOk /\ MoneyOk /\ CountsOk
  BY DEF FetchIInv
<1>2. UNCHANGED moneyVars /\ stats' = stats /\ stamps' = stamps
  BY DEF TakeSlot, moneyVars
<1>3. PICK old, new : old = waiters /\ new = Tail(old)
  OBVIOUS
<1>4. old \in Seq(Requests) /\ IsInjective(old) /\ old # <<>> /\ Head(old) = r /\ waiters' = new
  BY <1>1, <1>3 DEF QueueOk, TakeSlot
<1>5. PICK n \in Nat : n = Len(old) /\ DOMAIN old = 1 .. n
  BY <1>4, LenProperties
<1>6. /\ n > 0 /\ old[1] = r
      /\ new \in Seq(Requests) /\ Len(new) = n - 1
      /\ \A i \in 1 .. n - 1 : new[i] = old[i + 1]
  <2>1. n # 0
    BY <1>4, <1>5, EmptySeq
  <2>2. /\ new \in Seq(Requests) /\ Len(new) = n - 1
        /\ \A i \in 1 .. Len(new) : new[i] = old[i + 1]
    BY <1>3, <1>4, <1>5, HeadTailProperties
  <2>3. Head(old) = old[1]
    OBVIOUS
  <2> QED
    BY <1>4, <1>5, <2>1, <2>2, <2>3
<1>7. DOMAIN new = 1 .. n - 1
  BY <1>6, LenProperties
<1>8. Range(old) = {q \in Requests : fetch[q].phase = "queued"}
  BY <1>1, <1>3 DEF QueueOk
<1>9. fetch[r].phase = "queued" /\ fetch[r] \in FetchState /\ RequestOk(fetch[r])
  <2>1. 1 \in DOMAIN old
    BY <1>5, <1>6
  <2>2. r \in Range(old)
    BY <1>6, <2>1 DEF Range
  <2> QED
    BY <1>1, <1>8, <2>2, PhaseOf
<1>10. PICK f : f = [phase |-> "ready", attempts |-> 1,
                    reservedIn |-> fetch[r].reservedIn, outcome |-> fetch[r].outcome]
  OBVIOUS
<1>11. Moves(r, f)
  <2>1. f = [fetch[r] EXCEPT !.phase = "ready", !.attempts = 1]
    <3>1. PICK e : e = [fetch[r] EXCEPT !.phase = "ready", !.attempts = 1]
      OBVIOUS
    <3>2. fetch[r] \in FetchState
      BY <1>9
    <3>3. e = [phase |-> "ready", attempts |-> 1,
               reservedIn |-> fetch[r].reservedIn, outcome |-> fetch[r].outcome]
      BY <3>1, <3>2 DEF FetchState
    <3> QED
      BY <1>10, <3>1, <3>3
  <2>2. fetch' = [fetch EXCEPT ![r] = [fetch[r] EXCEPT !.phase = "ready", !.attempts = 1]]
    BY <1>1 DEF TakeSlot, RequestsOk
  <2> QED
    BY <2>1, <2>2 DEF Moves
<1>12. f.phase = "ready" /\ f.reservedIn = fetch[r].reservedIn
  BY <1>10
<1>13. f \in FetchState /\ RequestOk(f)
  <2>1. 1 \in 0 .. Retries + 1 /\ "ready" \in Phases
    BY FetchBounds DEF Phases
  <2>2. f \in FetchState
    BY <1>9, <1>10, <2>1 DEF FetchState
  <2> QED
    BY <1>9, <1>12, <2>2 DEF RequestOk
<1>14. RequestsOk'
  BY <1>1, <1>11, <1>13, RequestsKept
<1>15. SlotsOk'
  <2>1. Inside' = Inside \cup {r}
    BY <1>1, <1>11, <1>12, RequestMoves DEF Inside, RequestsOk
  <2>2. IsFiniteSet(Inside)
    <3>1. Inside \subseteq Requests
      BY DEF Inside
    <3> QED
      BY <3>1, FetchBounds, FS_Subset
  <2>3. /\ IsFiniteSet(Inside')
        /\ Cardinality(Inside') = IF r \in Inside THEN Cardinality(Inside) ELSE Cardinality(Inside) + 1
    BY <2>1, <2>2, FS_AddElement
  <2>4. Cardinality(Inside) \in Nat /\ Cardinality(Inside') \in Nat
    BY <2>2, <2>3, FS_CardinalityType
  <2>5. Cardinality(Inside) < MaxConcurrent
    BY DEF TakeSlot, SlotFree
  <2> QED
    BY <2>3, <2>4, <2>5, FetchBounds DEF SlotsOk
<1>16. MoneyOk'
  BY <1>1, <1>2, <1>11, <1>12, MoneyKept
<1>17. CountsOk'
  <2>1. fetch[r].phase # "done" /\ f.phase # "done"
    BY <1>9, <1>12
  <2> QED
    BY <1>1, <1>2, <1>11, <2>1, CountsKept
<1>18. QueueOk'
  <2>1. \A i \in 1 .. n - 1 : i + 1 \in 1 .. n /\ i + 1 # 1
    BY <1>6
  <2>2. IsInjective(new)
    <3> SUFFICES ASSUME NEW i \in 1 .. n - 1, NEW k \in 1 .. n - 1, new[i] = new[k]
                 PROVE  i = k
      BY <1>7 DEF IsInjective
    <3>1. i + 1 = k + 1
      BY <1>4, <1>5, <1>6, <2>1, SMTT(30) DEF IsInjective
    <3> QED
      BY <3>1
  <2>3. Range(new) = Range(old) \ {r}
    <3>1. \A i \in 1 .. n - 1 : new[i] \in Range(old) \ {r}
      <4> TAKE i \in 1 .. n - 1
      <4>1. new[i] = old[i + 1] /\ i + 1 \in DOMAIN old /\ 1 \in DOMAIN old
        BY <1>5, <1>6, <2>1
      <4>2. old[i + 1] # old[1]
        BY <1>4, <2>1, <4>1 DEF IsInjective
      <4> QED
        BY <1>6, <4>1, <4>2 DEF Range
    <3>2. ASSUME NEW i \in 1 .. n, old[i] # r PROVE old[i] \in Range(new)
      <4>1. i - 1 \in 1 .. n - 1 /\ (i - 1) + 1 = i
        BY <1>6, <3>2
      <4>2. new[i - 1] = old[i]
        BY <1>6, <4>1
      <4> QED
        BY <1>7, <4>1, <4>2 DEF Range
    <3>3. Range(new) \subseteq Range(old) \ {r}
      BY <1>7, <3>1 DEF Range
    <3>4. Range(old) \ {r} \subseteq Range(new)
      BY <1>5, <3>2 DEF Range
    <3> QED
      BY <3>3, <3>4
  <2>4. {q \in Requests : fetch'[q].phase = "queued"}
           = {q \in Requests : fetch[q].phase = "queued"} \ {r}
    BY <1>1, <1>11, <1>12, RequestMoves DEF RequestsOk
  <2>5. Range(new) = {q \in Requests : fetch'[q].phase = "queued"}
    BY <1>8, <2>3, <2>4
  <2> QED
    BY <1>4, <1>6, <2>2, <2>5 DEF QueueOk, IsInjective, Range
<1>19. BucketOk'
  BY <1>1, <1>2, BucketKept
<1> QED
  BY <1>14, <1>15, <1>16, <1>17, <1>18, <1>19 DEF FetchIInv

LEMMA NextAttemptKeeps ==
  ASSUME FetchIInv, NEW r \in Requests, NextAttempt(r)
  PROVE  FetchIInv'
<1>1. RequestsOk /\ SlotsOk /\ QueueOk /\ BucketOk /\ MoneyOk /\ CountsOk
  BY DEF FetchIInv
<1>2. UNCHANGED moneyVars /\ stats' = stats /\ stamps' = stamps /\ waiters' = waiters
  BY DEF NextAttempt, moneyVars
<1>3. fetch[r] \in FetchState
  BY <1>1, PhaseOf
<1>4. /\ RequestOk(fetch[r]) /\ fetch[r].attempts \in 0 .. Retries + 1
      /\ fetch[r].phase = "backoff"
  BY <1>1, PhaseOf DEF NextAttempt
<1>5. PICK f : f = [phase |-> "ready", attempts |-> fetch[r].attempts + 1,
                   reservedIn |-> fetch[r].reservedIn, outcome |-> fetch[r].outcome]
  OBVIOUS
<1>6. Moves(r, f)
  <2>1. PICK e : e = [fetch[r] EXCEPT !.phase = "ready", !.attempts = fetch[r].attempts + 1]
    OBVIOUS
  <2>2. e = [phase |-> "ready", attempts |-> fetch[r].attempts + 1,
             reservedIn |-> fetch[r].reservedIn, outcome |-> fetch[r].outcome]
    BY <1>3, <2>1 DEF FetchState
  <2>3. fetch' = [fetch EXCEPT ![r] = e]
    BY <1>1, <1>3, <2>1 DEF NextAttempt, RequestsOk, FetchState
  <2> QED
    BY <1>5, <2>2, <2>3 DEF Moves
<1>7. f.phase = "ready" /\ f.reservedIn = fetch[r].reservedIn
  BY <1>5
<1>8. f \in FetchState /\ RequestOk(f)
  <2>1. fetch[r].attempts + 1 \in 0 .. Retries + 1 /\ "ready" \in Phases
    BY <1>4, FetchBounds DEF Phases, RequestOk
  <2>2. f \in FetchState
    BY <1>3, <1>5, <2>1 DEF FetchState
  <2> QED
    BY <1>4, <1>7, <2>2 DEF RequestOk
<1>9. RequestsOk' /\ SlotsOk' /\ QueueOk' /\ CountsOk'
  <2>1. fetch[r].phase \in InSlots /\ f.phase \in InSlots
    BY <1>4, <1>7 DEF InSlots
  <2> QED
    BY <1>1, <1>2, <1>6, <1>8, <2>1, GoesOnKeep
<1>10. MoneyOk'
  BY <1>1, <1>2, <1>6, <1>7, MoneyKept
<1>11. BucketOk'
  BY <1>1, <1>2, BucketKept
<1> QED
  BY <1>9, <1>10, <1>11 DEF FetchIInv

LEMMA BeginKeeps ==
  ASSUME FetchIInv, NEW r \in Requests, BeginAttempt(r)
  PROVE  FetchIInv'
<1>1. RequestsOk /\ SlotsOk /\ QueueOk /\ BucketOk /\ MoneyOk /\ CountsOk
  BY DEF FetchIInv
<1>2. waiters' = waiters /\ calendar' = calendar /\ configured' = configured
  BY DEF BeginAttempt
<1>3. fetch[r] \in FetchState
  BY <1>1, PhaseOf
<1>4. RequestOk(fetch[r]) /\ fetch[r].phase = "ready" /\ fetch[r].phase \in InSlots
  BY <1>1, PhaseOf DEF BeginAttempt, InSlots
<1>5. fetch[r].reservedIn = 0
  BY <1>4 DEF RequestOk
<1>6. CASE ~configured
  <2>1. AfterError(r, "not_configured") /\ UNCHANGED moneyVars /\ stamps' = stamps
    BY <1>2, <1>6 DEF BeginAttempt, moneyVars
  <2>2. "not_configured" \in Retryable \cup Permanent
    BY DEF Permanent
  <2>3. PICK f : Leaves(r, f, 0)
    BY <1>1, <2>1, <2>2, ErrorLeaves
  <2>4. Moves(r, f) /\ f.reservedIn = 0
    BY <2>3 DEF Leaves
  <2>5. RequestsOk' /\ SlotsOk' /\ QueueOk' /\ CountsOk'
    BY <1>1, <1>2, <1>4, <2>3, LeavesKeep
  <2>6. MoneyOk'
    BY <1>1, <1>5, <2>1, <2>4, MoneyKept
  <2>7. BucketOk'
    BY <1>1, <2>1, BucketKept
  <2> QED
    BY <2>5, <2>6, <2>7 DEF FetchIInv
<1>7. CASE configured /\ ~Fits
  <2>1. AfterError(r, "quota") /\ spent' = Counted /\ stamps' = stamps
    BY <1>7 DEF BeginAttempt
  <2>2. StartPeriod /\ billed' = BilledNow /\ overrun' = OverrunNow
    BY <1>7 DEF BeginAttempt, BilledNow, OverrunNow
  <2>3. "quota" \in Retryable \cup Permanent
    BY DEF Permanent
  <2>4. PICK f : Leaves(r, f, 0)
    BY <1>1, <2>1, <2>3, ErrorLeaves
  <2>5. Moves(r, f) /\ f.reservedIn = 0
    BY <2>4 DEF Leaves
  <2>6. RequestsOk' /\ SlotsOk' /\ QueueOk' /\ CountsOk'
    BY <1>1, <1>2, <1>4, <2>4, LeavesKeep
  <2>7. MoneyOk'
    BY <1>1, <1>2, <1>5, <2>1, <2>2, <2>5, MoneyRolled
  <2>8. BucketOk'
    BY <1>1, <2>1, BucketKept
  <2> QED
    BY <2>6, <2>7, <2>8 DEF FetchIInv
<1>8. CASE configured /\ Fits
  <2>1. PICK phase : phase = IF RoomInBucket THEN "posting" ELSE "sleeping"
    OBVIOUS
  <2>2. /\ spent' = Counted + FallbackCost
        /\ stamps' = (IF RoomInBucket THEN Append(Fresh, 0) ELSE Fresh)
        /\ fetch' = [fetch EXCEPT ![r] =
                        [fetch[r] EXCEPT !.phase = phase, !.reservedIn = calendar]]
        /\ stats' = stats
    <3>1. fetch' = [fetch EXCEPT ![r] =
                      [@ EXCEPT !.phase = IF RoomInBucket THEN "posting" ELSE "sleeping",
                                !.reservedIn = calendar]]
      BY <1>8 DEF BeginAttempt
    <3>2. fetch' = [fetch EXCEPT ![r] =
                      [fetch[r] EXCEPT !.phase = phase, !.reservedIn = calendar]]
      BY <1>1, <2>1, <3>1 DEF RequestsOk
    <3> QED
      BY <1>8, <3>2 DEF BeginAttempt
  <2>3. StartPeriod /\ billed' = BilledNow /\ overrun' = OverrunNow
    BY <1>8 DEF BeginAttempt, BilledNow, OverrunNow
  <2>4. PICK f : f = [phase |-> phase, attempts |-> fetch[r].attempts, reservedIn |-> calendar,
                      outcome |-> fetch[r].outcome]
    OBVIOUS
  <2>5. Moves(r, f)
    <3>1. PICK e : e = [fetch[r] EXCEPT !.phase = phase, !.reservedIn = calendar]
      OBVIOUS
    <3>2. e = [phase |-> phase, attempts |-> fetch[r].attempts, reservedIn |-> calendar,
               outcome |-> fetch[r].outcome]
      BY <1>3, <3>1 DEF FetchState
    <3> QED
      BY <2>2, <2>4, <3>1, <3>2 DEF Moves
  <2>6. f.phase = phase /\ f.reservedIn = calendar /\ phase \in {"posting", "sleeping"}
    BY <2>1, <2>4
  <2>7. calendar \in 0 .. LastMonth /\ calendar # 0
    BY <1>1, FetchBounds DEF MoneyOk
  <2>8. f \in FetchState /\ RequestOk(f)
    <3>1. phase \in Phases
      BY <2>6 DEF Phases
    <3>2. f \in FetchState
      BY <1>3, <2>4, <2>7, <3>1 DEF FetchState
    <3>3. RequestOk(f)
      BY <2>6, <2>7 DEF RequestOk
    <3> QED
      BY <3>2, <3>3
  <2>9. RequestsOk' /\ SlotsOk' /\ QueueOk' /\ CountsOk'
    <3>1. f.phase \in InSlots
      BY <2>6 DEF InSlots
    <3> QED
      BY <1>1, <1>2, <1>4, <2>2, <2>5, <2>8, <3>1, GoesOnKeep
  <2>10. MoneyOk'
    BY <1>1, <1>2, <1>5, <1>8, <2>2, <2>3, <2>5, <2>6, MoneyReserved
  <2>11. BucketOk'
    <3>1. CASE RoomInBucket
      BY <1>1, <2>2, <3>1, BucketPosted
    <3>2. CASE ~RoomInBucket
      <4>1. stamps' = Fresh
        BY <2>2, <3>2
      <4> QED
        BY <1>1, <4>1, FreshNow, BucketFrom
    <3> QED
      BY <3>1, <3>2
  <2> QED
    BY <2>9, <2>10, <2>11 DEF FetchIInv
<1>9. configured \in BOOLEAN
  BY <1>1 DEF MoneyOk
<1> QED
  BY <1>6, <1>7, <1>8

\* A try whose phase, and perhaps outcome, is all that changes.
LEMMA PhaseMoves ==
  ASSUME FetchIInv, NEW r \in Requests, fetch[r].phase \in {"sleeping", "posting"},
         NEW phase \in {"posting", "releasing"}, NEW outcome,
         outcome \in {"timeout", "transient"} \/ (phase = "posting" /\ outcome = fetch[r].outcome),
         fetch' = [fetch EXCEPT ![r] = [fetch[r] EXCEPT !.phase = phase, !.outcome = outcome]],
         UNCHANGED <<waiters, stats>>, UNCHANGED moneyVars
  PROVE  RequestsOk' /\ SlotsOk' /\ QueueOk' /\ CountsOk' /\ MoneyOk'
<1>1. RequestsOk /\ SlotsOk /\ QueueOk /\ BucketOk /\ MoneyOk /\ CountsOk
  BY DEF FetchIInv
<1>2. fetch[r] \in FetchState
  BY <1>1, PhaseOf
<1>3. RequestOk(fetch[r]) /\ fetch[r].phase \in InSlots /\ phase \in InSlots
  BY <1>1, PhaseOf DEF InSlots
<1>4. PICK f : f = [phase |-> phase, attempts |-> fetch[r].attempts,
                    reservedIn |-> fetch[r].reservedIn, outcome |-> outcome]
  OBVIOUS
<1>5. Moves(r, f)
  <2>1. PICK e : e = [fetch[r] EXCEPT !.phase = phase, !.outcome = outcome]
    OBVIOUS
  <2>2. e = [phase |-> phase, attempts |-> fetch[r].attempts,
             reservedIn |-> fetch[r].reservedIn, outcome |-> outcome]
    BY <1>2, <2>1 DEF FetchState
  <2> QED
    BY <1>4, <2>1, <2>2 DEF Moves
<1>6. f.phase = phase /\ f.reservedIn = fetch[r].reservedIn /\ f.outcome = outcome
  BY <1>4
<1>7. f \in FetchState
  <2>1. phase \in Phases
    BY DEF Phases
  <2>2. outcome \in Retryable \/ outcome = fetch[r].outcome
    BY DEF Retryable
  <2> QED
    BY <1>2, <1>4, <2>1, <2>2 DEF FetchState
<1>8. RequestOk(f)
  <2>1. fetch[r].reservedIn # 0
    BY <1>3 DEF RequestOk
  <2> QED
    BY <1>6, <2>1 DEF RequestOk
<1>9. RequestsOk' /\ SlotsOk' /\ QueueOk' /\ CountsOk'
  BY <1>1, <1>3, <1>5, <1>6, <1>7, <1>8, GoesOnKeep
<1>10. MoneyOk'
  BY <1>1, <1>5, <1>6, MoneyKept
<1> QED
  BY <1>9, <1>10

LEMMA WakeKeeps ==
  ASSUME FetchIInv, NEW r \in Requests, Wake(r)
  PROVE  FetchIInv'
<1>1. RequestsOk /\ BucketOk
  BY DEF FetchIInv
<1>2. UNCHANGED moneyVars /\ UNCHANGED <<waiters, stats>> /\ fetch[r].phase = "sleeping"
  BY DEF Wake, moneyVars
<1>3. fetch[r] \in FetchState
  BY <1>1, PhaseOf
<1>4. fetch' = [fetch EXCEPT ![r] =
                  [fetch[r] EXCEPT !.phase = "posting", !.outcome = fetch[r].outcome]]
  <2>1. [fetch[r] EXCEPT !.phase = "posting"]
           = [fetch[r] EXCEPT !.phase = "posting", !.outcome = fetch[r].outcome]
    BY <1>3 DEF FetchState
  <2>2. fetch' = [fetch EXCEPT ![r] = [fetch[r] EXCEPT !.phase = "posting"]]
    BY <1>1 DEF Wake, RequestsOk
  <2> QED
    BY <2>1, <2>2
<1>5. RequestsOk' /\ SlotsOk' /\ QueueOk' /\ CountsOk' /\ MoneyOk'
  BY <1>2, <1>4, PhaseMoves
<1>6. BucketOk'
  BY <1>1, BucketPosted DEF Wake
<1> QED
  BY <1>5, <1>6 DEF FetchIInv

LEMMA CutOffKeeps ==
  ASSUME FetchIInv, NEW r \in Requests, NEW error \in {"timeout", "transient"}, CutOff(r, error)
  PROVE  FetchIInv'
<1>1. RequestsOk /\ BucketOk
  BY DEF FetchIInv
<1>2. /\ UNCHANGED moneyVars /\ UNCHANGED <<waiters, stats>> /\ stamps' = stamps
      /\ fetch[r].phase \in {"sleeping", "posting"}
  BY DEF CutOff, moneyVars
<1>3. fetch' = [fetch EXCEPT ![r] = [fetch[r] EXCEPT !.phase = "releasing", !.outcome = error]]
  BY <1>1 DEF CutOff, RequestsOk
<1>4. RequestsOk' /\ SlotsOk' /\ QueueOk' /\ CountsOk' /\ MoneyOk'
  BY <1>2, <1>3, PhaseMoves
<1>5. BucketOk'
  BY <1>1, <1>2, BucketKept
<1> QED
  BY <1>4, <1>5 DEF FetchIInv

LEMMA SettledKeeps ==
  ASSUME FetchIInv, NEW r \in Requests, fetch[r].phase \in InSlots, NEW actual \in Nat,
         Settle(r, actual), NEW cost \in Nat, NEW f, Leaves(r, f, cost),
         UNCHANGED <<waiters, stamps, calendar, configured>>
  PROVE  FetchIInv'
<1>1. RequestsOk /\ SlotsOk /\ QueueOk /\ BucketOk /\ MoneyOk /\ CountsOk
  BY DEF FetchIInv
<1>2. Moves(r, f) /\ f.reservedIn = 0
  BY DEF Leaves
<1>3. RequestsOk' /\ SlotsOk' /\ QueueOk' /\ CountsOk'
  BY <1>1, LeavesKeep
<1>4. MoneyOk'
  BY <1>1, <1>2, MoneySettled
<1>5. BucketOk'
  BY <1>1, BucketKept
<1> QED
  BY <1>3, <1>4, <1>5 DEF FetchIInv

LEMMA ReleaseKeeps ==
  ASSUME FetchIInv, NEW r \in Requests, Release(r)
  PROVE  FetchIInv'
<1>1. RequestsOk
  BY DEF FetchIInv
<1>2. fetch[r].phase = "releasing" /\ RequestOk(fetch[r])
  BY <1>1, PhaseOf DEF Release
<1>3. fetch[r].phase \in InSlots /\ fetch[r].outcome \in Retryable \cup Permanent
  BY <1>2 DEF InSlots, RequestOk, Retryable
<1>4. /\ Settle(r, 0) /\ AfterError(r, fetch[r].outcome)
      /\ UNCHANGED <<waiters, stamps, calendar, configured>>
  BY DEF Release
<1>5. PICK f : Leaves(r, f, 0)
  BY <1>1, <1>3, <1>4, ErrorLeaves
<1> QED
  BY <1>3, <1>4, <1>5, SettledKeeps

LEMMA RespondKeeps ==
  ASSUME FetchIInv, NEW r \in Requests, NEW cost \in Costs \cup {FallbackCost},
         NEW answer \in Answers, Respond(r, cost, answer)
  PROVE  FetchIInv'
<1>1. RequestsOk
  BY DEF FetchIInv
<1>2. fetch[r].phase \in InSlots /\ cost \in Nat
  BY FetchBounds DEF Respond, InSlots
<1>3. Settle(r, cost) /\ UNCHANGED <<waiters, stamps, calendar, configured>>
  BY DEF Respond
<1>4. CASE answer \in {"ok", "parse_failed"}
  <2>1. End(r, answer, cost) /\ answer \notin Retryable
    BY <1>4 DEF Respond, Retryable
  <2>2. PICK f : Leaves(r, f, cost)
    BY <1>1, <1>2, <1>4, <2>1, EndLeaves
  <2> QED
    BY <1>2, <1>3, <2>2, SettledKeeps
<1>5. CASE answer \notin {"ok", "parse_failed"}
  <2>1. AfterError(r, answer) /\ answer \in Retryable \cup Permanent
    BY <1>5 DEF Respond, Retryable, Permanent, Answers
  <2>2. PICK f : Leaves(r, f, 0)
    BY <1>1, <2>1, ErrorLeaves
  <2> QED
    BY <1>2, <1>3, <2>2, SettledKeeps
<1> QED
  BY <1>4, <1>5

LEMMA TickKeeps ==
  ASSUME FetchIInv, FetchTick
  PROVE  FetchIInv'
<1>1. RequestsOk /\ SlotsOk /\ QueueOk /\ BucketOk /\ MoneyOk /\ CountsOk
  BY DEF FetchIInv
<1>2. BucketOk'
  BY <1>1, BucketTick
<1>3. UNCHANGED <<fetch, waiters, stats>> /\ UNCHANGED moneyVars
  BY DEF FetchTick, moneyVars
<1>4. RequestsOk' /\ SlotsOk' /\ QueueOk' /\ CountsOk'
  BY <1>1, <1>3 DEF RequestsOk, SlotsOk, Inside, QueueOk, CountsOk, Ended, TriesMade
<1>5. MoneyOk'
  BY <1>1, <1>3 DEF MoneyOk, moneyVars, BudgetConsistent, BudgetCapped, Reserved
<1> QED
  BY <1>2, <1>4, <1>5 DEF FetchIInv

LEMMA MonthKeeps ==
  ASSUME FetchIInv, NextMonth
  PROVE  FetchIInv'
<1>1. RequestsOk /\ SlotsOk /\ QueueOk /\ BucketOk /\ MoneyOk /\ CountsOk
  BY DEF FetchIInv
<1>2. /\ UNCHANGED <<fetch, waiters, stats, stamps, spent, period, configured, billed, overrun, crossed>>
      /\ calendar' = calendar + 1 /\ calendar < LastMonth
  BY DEF NextMonth
<1>3. RequestsOk' /\ SlotsOk' /\ QueueOk' /\ CountsOk'
  BY <1>1, <1>2 DEF RequestsOk, SlotsOk, Inside, QueueOk, CountsOk, Ended, TriesMade
<1>4. BucketOk'
  BY <1>1, <1>2, BucketKept
<1>5. BudgetConsistent' /\ BudgetCapped'
  BY <1>1, <1>2 DEF MoneyOk, BudgetConsistent, BudgetCapped, Reserved
<1>6. calendar' \in 1 .. LastMonth /\ period' <= calendar'
  BY <1>1, <1>2, FetchBounds DEF MoneyOk
<1>7. MoneyOk'
  BY <1>1, <1>2, <1>5, <1>6 DEF MoneyOk
<1> QED
  BY <1>3, <1>4, <1>7 DEF FetchIInv

LEMMA FetchesStep == FetchIInv /\ [FetchNext]_fetchVars => FetchIInv'
<1> SUFFICES ASSUME FetchIInv, [FetchNext]_fetchVars
             PROVE  FetchIInv'
  OBVIOUS
<1>1. CASE \E r \in Requests : Arrive(r) \/ RunFetch(r)
  <2>1. PICK r \in Requests : Arrive(r) \/ RunFetch(r)
    BY <1>1
  <2>2. CASE Arrive(r)
    BY <2>2, ArriveKeeps
  <2>3. CASE TakeSlot(r)
    BY <2>3, TakeSlotKeeps
  <2>4. CASE NextAttempt(r)
    BY <2>4, NextAttemptKeeps
  <2>5. CASE BeginAttempt(r)
    BY <2>5, BeginKeeps
  <2>6. CASE Wake(r)
    BY <2>6, WakeKeeps
  <2>7. CASE PostEnds(r)
    BY <2>7, CutOffKeeps, RespondKeeps DEF PostEnds
  <2>8. CASE Release(r)
    BY <2>8, ReleaseKeeps
  <2> QED
    BY <2>1, <2>2, <2>3, <2>4, <2>5, <2>6, <2>7, <2>8 DEF RunFetch
<1>2. CASE FetchTick
  BY <1>2, TickKeeps
<1>3. CASE NextMonth
  BY <1>3, MonthKeeps
<1>4. CASE UNCHANGED fetchVars
  <2>1. RequestsOk /\ SlotsOk /\ QueueOk /\ BucketOk /\ MoneyOk /\ CountsOk
    BY DEF FetchIInv
  <2>2. RequestsOk' /\ SlotsOk' /\ QueueOk' /\ CountsOk'
    BY <1>4, <2>1 DEF fetchVars, RequestsOk, SlotsOk, Inside, QueueOk, CountsOk, Ended, TriesMade
  <2>3. BucketOk'
    BY <1>4, <2>1, BucketKept DEF fetchVars
  <2>4. MoneyOk'
    BY <1>4, <2>1 DEF fetchVars, MoneyOk, BudgetConsistent, BudgetCapped, Reserved
  <2> QED
    BY <2>2, <2>3, <2>4 DEF FetchIInv
<1> QED
  BY <1>1, <1>2, <1>3, <1>4 DEF FetchNext

LEMMA FetchStart == FetchInit => FetchIInv
<1> SUFFICES ASSUME FetchInit
             PROVE  FetchIInv
  OBVIOUS
<1>1. \A r \in Requests : fetch[r] = [phase |-> "new", attempts |-> 0, reservedIn |-> 0, outcome |-> "none"]
  BY DEF FetchInit, NewFetch
<1>2. RequestsOk
  <2>1. NewFetch \in FetchState
    <3>1. 0 \in 0 .. Retries + 1 /\ 0 \in 0 .. LastMonth /\ "new" \in Phases
      BY FetchBounds DEF Phases
    <3> QED
      BY <3>1 DEF NewFetch, FetchState
  <2>2. fetch \in [Requests -> FetchState]
    <3> HIDE DEF FetchState
    <3> QED
      BY <2>1 DEF FetchInit
  <2>3. \A r \in Requests : RequestOk(fetch[r])
    BY <1>1 DEF RequestOk
  <2> QED
    BY <2>2, <2>3 DEF RequestsOk
<1>3. SlotsOk
  <2>1. Inside = {}
    BY <1>1 DEF Inside
  <2> QED
    BY <2>1, FS_EmptySet, FetchBounds DEF SlotsOk
<1>4. QueueOk
  <2>1. waiters = <<>> /\ waiters \in Seq(Requests)
    BY DEF FetchInit
  <2>2. Range(waiters) = {} /\ IsInjective(waiters)
    BY <2>1 DEF Range, IsInjective
  <2>3. {r \in Requests : fetch[r].phase = "queued"} = {}
    BY <1>1
  <2> QED
    BY <2>1, <2>2, <2>3 DEF QueueOk
<1>5. BucketOk
  <2>1. stamps = <<>> /\ stamps \in Seq(Ages) /\ Len(stamps) = 0
    BY DEF FetchInit
  <2>2. OldestFirst(stamps)
    BY <2>1 DEF OldestFirst
  <2>3. Outdated(stamps) \in 0 .. 0 /\ Len(FreshOf(stamps)) = 0 - Outdated(stamps)
    BY <2>1, <2>2, OutdatedIs, FreshIs
  <2>4. Len(Fresh) = 0
    BY <2>3 DEF Fresh, FreshOf
  <2> QED
    BY <2>1, <2>2, <2>4, FetchBounds DEF BucketOk
<1>6. MoneyOk
  <2>1. \A r \in Requests : fetch[r].reservedIn = 0
    BY <1>1
  <2>2. Reserved = {}
    BY <2>1 DEF Reserved, FetchInit
  <2>3. Cardinality(Reserved) = 0 /\ FallbackCost * 0 = 0
    BY <2>2, FS_EmptySet, FetchBounds
  <2>4. BudgetConsistent /\ BudgetCapped
    BY <2>3, FetchBounds DEF BudgetConsistent, BudgetCapped, FetchInit
  <2>5. /\ spent = 0 /\ billed = 0 /\ overrun = 0 /\ period = 1 /\ calendar = 1
        /\ configured \in BOOLEAN /\ crossed \in BOOLEAN
    BY DEF FetchInit
  <2>6. 1 \in 1 .. LastMonth
    BY FetchBounds
  <2>7. \A r \in Requests : fetch[r].reservedIn <= period
    BY <2>1, <2>5
  <2> QED
    BY <2>4, <2>5, <2>6, <2>7 DEF MoneyOk
<1>7. CountsOk
  <2>1. Ended = {} /\ TriesMade = {}
    BY <1>1 DEF Ended, TriesMade
  <2>2. Cardinality(Ended) = 0 /\ Cardinality(TriesMade) = 0
    BY <2>1, FS_EmptySet
  <2> QED
    BY <2>2 DEF CountsOk, FetchInit, FetchStats
<1> QED
  BY <1>2, <1>3, <1>4, <1>5, <1>6, <1>7 DEF FetchIInv

LEMMA SomebodyIsNext ==
  ASSUME RequestsOk, SlotsOk, QueueOk, BucketOk
  PROVE  SomebodyMoves
<1>1. ASSUME NEW r \in Requests, fetch[r].phase = "sleeping", ~RoomInBucket
      PROVE  \E i \in DOMAIN stamps : stamps[i] <= Window
  <2>1. stamps \in Seq(Ages) /\ OldestFirst(stamps)
    BY DEF BucketOk
  <2>2. PICK m \in Nat : m = Len(stamps) /\ DOMAIN stamps = 1 .. m
    BY <2>1, LenProperties
  <2>3. PICK n : n = Outdated(stamps)
    OBVIOUS
  <2>4. n \in 0 .. m /\ \A i \in 1 .. m : i <= n <=> stamps[i] > Window
    BY <2>1, <2>2, <2>3, OutdatedIs
  <2>5. Len(Fresh) = m - n
    BY <2>1, <2>2, <2>3, FreshIs DEF Fresh, FreshOf
  <2>6. m - n > 0
    BY <1>1, <2>2, <2>4, <2>5, FetchBounds DEF RoomInBucket
  <2>7. n + 1 \in 1 .. m /\ ~(n + 1 <= n)
    BY <2>2, <2>4, <2>6
  <2>8. \A i \in 1 .. m : stamps[i] \in Int
    <3>1. \A i \in 1 .. m : stamps[i] \in Ages
      <4> HIDE DEF Ages
      <4> QED
        BY <2>1, <2>2
    <3> QED
      BY <3>1, FetchBounds DEF Ages
  <2>9. stamps[n + 1] <= Window
    BY <2>4, <2>7, <2>8, FetchBounds
  <2> QED
    BY <2>2, <2>7, <2>9
<1>2. ASSUME NEW r \in Requests, fetch[r].phase = "queued"
      PROVE  waiters # <<>>
  <2>1. r \in Range(waiters)
    BY <1>2 DEF QueueOk
  <2> QED
    BY <2>1 DEF Range
<1>3. ASSUME ~SlotFree PROVE \E r \in Requests : fetch[r].phase \in InSlots
  <2>1. Inside # {}
    <3>1. Cardinality({}) = 0
      BY FS_EmptySet
    <3> QED
      BY <1>3, <3>1, FetchBounds DEF SlotFree
  <2> QED
    BY <2>1 DEF Inside, InSlots
<1>4. \A r \in Requests : fetch[r].phase \in Phases
  BY PhaseOf
<1> QED
  BY <1>1, <1>2, <1>3, <1>4 DEF SomebodyMoves, InSlots, Phases

LEMMA FetchImplied == FetchIInv => FetchesSound
<1> SUFFICES ASSUME FetchIInv
             PROVE  FetchesSound
  OBVIOUS
<1>1. RequestsOk /\ SlotsOk /\ QueueOk /\ BucketOk /\ MoneyOk /\ CountsOk
  BY DEF FetchIInv
<1>2. FetchTypeOK
  <2>1. fetch \in [Requests -> FetchState] /\ waiters \in Seq(Requests)
    BY <1>1 DEF RequestsOk, QueueOk
  <2>2. stats \in [fetchCount : Nat, errorCount : Nat, attempts : Nat, totalCost : Nat]
    BY <1>1 DEF CountsOk, FetchStats
  <2>3. stamps \in Seq(0 .. Window + 1)
    BY <1>1 DEF BucketOk, Ages
  <2>4. /\ {spent, billed, overrun} \subseteq Nat /\ {period, calendar} \subseteq 1 .. LastMonth
        /\ {configured, crossed} \subseteq BOOLEAN
    BY <1>1 DEF MoneyOk
  <2> QED
    BY <2>1, <2>2, <2>3, <2>4 DEF FetchTypeOK
<1>3. SlotsHold
  BY <1>1 DEF SlotsHold, SlotsOk, QueueOk, BucketOk
<1>4. BudgetConsistent /\ BudgetCapped
  BY <1>1 DEF MoneyOk
<1>5. OutcomesTold
  <2>1. \A r \in Requests : fetch[r].attempts <= Retries + 1
    BY <1>1, PhaseOf, FetchBounds
  <2>2. ASSUME NEW r \in Ended, StatusOf(fetch[r].outcome) \in {503, 504}
        PROVE  fetch[r].attempts = Retries + 1
    <3>1. r \in Requests /\ fetch[r].phase = "done" /\ fetch[r].outcome \notin Refused
      BY DEF Ended
    <3>2. PICK outcome : outcome = fetch[r].outcome
      OBVIOUS
    <3>3. /\ outcome # "none" /\ outcome \notin Refused
          /\ outcome \in Retryable => fetch[r].attempts = Retries + 1
      BY <1>1, <3>1, <3>2, PhaseOf DEF RequestOk
    <3>4. outcome \in {"timeout", "transient", "anti_bot", "vendor", "quota", "not_configured",
                       "client_error", "none", "ok", "parse_failed", "portal_mismatch",
                       "unknown_portal"}
      BY <1>1, <3>1, <3>2, PhaseOf DEF FetchState, Retryable, Permanent
    <3>5. outcome \in Retryable
      <4>1. outcome # "ok"
        BY <2>2, <3>2 DEF StatusOf
      <4>2. outcome # "parse_failed"
        BY <2>2, <3>2 DEF StatusOf
      <4>3. outcome # "quota"
        BY <2>2, <3>2 DEF StatusOf
      <4>4. outcome \notin {"client_error", "not_configured"}
        BY <2>2, <3>2 DEF StatusOf
      <4> QED
        BY <3>3, <3>4, <4>1, <4>2, <4>3, <4>4 DEF Retryable, Refused
    <3> QED
      BY <3>3, <3>5
  <2> QED
    BY <1>1, <2>1, <2>2 DEF OutcomesTold, CountsOk
<1>6. SomebodyMoves
  BY <1>1, SomebodyIsNext
<1> QED
  BY <1>2, <1>3, <1>4, <1>5, <1>6 DEF FetchesSound

\* However tries, waits, timeouts and months interleave, no more requests hold
\* a slot than there are and no more posts pass the limiter than it allows; the
\* budget counter is what was billed plus what is reserved and stays within the
\* cap; every answer is counted once, with the tries it took; and while a request
\* is under way somebody can go on.
THEOREM FetchesAreSound == FetchSpec => []FetchesSound
<1>1. FetchInit => FetchIInv
  BY FetchStart
<1> QED
  BY <1>1, FetchesStep, FetchImplied, PTL DEF FetchSpec
-----------------------------------------------------------------------------
(* How far a request is. *)

LEMMA StageIs ==
  ASSUME NEW f \in FetchState
  PROVE  /\ f.phase = "new" => StageOf(f) = 0
         /\ f.phase = "queued" => StageOf(f) = 1
         /\ f.phase = "done" => StageOf(f) = 5 * Retries + 10
         /\ f.phase = "ready" => StageOf(f) = 5 * f.attempts
         /\ f.phase = "sleeping" => StageOf(f) = 5 * f.attempts + 1
         /\ f.phase = "posting" => StageOf(f) = 5 * f.attempts + 2
         /\ f.phase = "releasing" => StageOf(f) = 5 * f.attempts + 3
         /\ f.phase = "backoff" => StageOf(f) = 5 * f.attempts + 4
         /\ f.attempts \in 0 .. Retries + 1 /\ Retries \in Nat /\ f.phase \in Phases
         /\ LastStage = 5 * Retries + 10
<1>1. f.attempts \in 0 .. Retries + 1 /\ Retries \in Nat /\ f.phase \in Phases
  BY FetchBounds DEF FetchState
<1>2. LastStage = 5 * Retries + 10
  BY <1>1 DEF LastStage
<1>3. f.phase = "new" => StageOf(f) = 0
  BY DEF StageOf
<1>4. f.phase = "queued" => StageOf(f) = 1
  BY DEF StageOf
<1>5. f.phase = "done" => StageOf(f) = LastStage
  BY DEF StageOf
<1>6. f.phase \notin {"new", "queued", "done"} => StageOf(f) = 5 * f.attempts + Stages[f.phase]
  BY DEF StageOf
<1>7. /\ Stages["ready"] = 0 /\ Stages["sleeping"] = 1 /\ Stages["posting"] = 2
      /\ Stages["releasing"] = 3 /\ Stages["backoff"] = 4
  BY DEF Stages
<1>8. f.phase = "ready" => StageOf(f) = 5 * f.attempts
  BY <1>1, <1>6, <1>7
<1> QED
  BY <1>1, <1>2, <1>3, <1>4, <1>5, <1>6, <1>7, <1>8

\* Later in the same try, at the end of it, or in the next one.
LEMMA StagesInOrder ==
  ASSUME NEW f \in FetchState, NEW g \in FetchState,
         \/ f.phase = "new" /\ g.phase \in {"queued", "done"}
         \/ f.phase = "queued" /\ g.phase = "ready" /\ g.attempts = 1
         \/ f.phase = "backoff" /\ g.phase = "ready" /\ g.attempts = f.attempts + 1
         \/ f.phase \in InSlots /\ g.phase = "done"
         \/ /\ g.attempts = f.attempts
            /\ \/ f.phase = "ready" /\ g.phase \in {"sleeping", "posting", "backoff"}
               \/ f.phase = "sleeping" /\ g.phase \in {"posting", "releasing"}
               \/ f.phase = "posting" /\ g.phase \in {"releasing", "backoff"}
               \/ f.phase = "releasing" /\ g.phase = "backoff"
  PROVE  StageOf(f) < StageOf(g) /\ StageOf(g) <= LastStage
<1>1. PICK a \in Nat : a = f.attempts /\ a <= Retries + 1
  BY StageIs
<1>2. PICK b \in Nat : b = g.attempts /\ b <= Retries + 1
  BY StageIs
<1>3. /\ Retries \in Nat /\ LastStage = 5 * Retries + 10
      /\ f.phase \in Phases /\ g.phase \in Phases
  BY StageIs
<1>4. PICK x : x = StageOf(f)
  OBVIOUS
<1>5. PICK y : y = StageOf(g)
  OBVIOUS
<1>6. /\ f.phase = "new" => x = 0
      /\ f.phase = "queued" => x = 1
      /\ f.phase = "ready" => x = 5 * a
      /\ f.phase = "sleeping" => x = 5 * a + 1
      /\ f.phase = "posting" => x = 5 * a + 2
      /\ f.phase = "releasing" => x = 5 * a + 3
      /\ f.phase = "backoff" => x = 5 * a + 4
  BY <1>1, <1>4, StageIs
<1>7. /\ g.phase = "queued" => y = 1
      /\ g.phase = "done" => y = 5 * Retries + 10
      /\ g.phase = "ready" => y = 5 * b
      /\ g.phase = "sleeping" => y = 5 * b + 1
      /\ g.phase = "posting" => y = 5 * b + 2
      /\ g.phase = "releasing" => y = 5 * b + 3
      /\ g.phase = "backoff" => y = 5 * b + 4
  BY <1>2, <1>5, StageIs
<1>8. y <= 5 * Retries + 10
  <2>1. g.phase \in {"queued", "done", "ready", "sleeping", "posting", "releasing", "backoff"}
    OBVIOUS
  <2> QED
    BY <1>2, <1>3, <1>7, <2>1
<1>9. x < y
  <2>1. CASE f.phase = "new"
    BY <1>2, <1>3, <1>6, <1>7, <2>1 DEF InSlots
  <2>2. CASE f.phase = "queued"
    BY <1>2, <1>3, <1>6, <1>7, <2>2 DEF InSlots
  <2>3. CASE f.phase = "backoff" /\ g.phase = "ready"
    BY <1>1, <1>2, <1>3, <1>6, <1>7, <2>3 DEF InSlots
  <2>4. CASE f.phase \in InSlots /\ g.phase = "done"
    BY <1>1, <1>2, <1>3, <1>6, <1>7, <2>4 DEF InSlots
  <2>5. CASE f.phase \in InSlots \ {"backoff"} /\ g.phase # "done"
    BY <1>1, <1>2, <1>3, <1>6, <1>7, <2>5 DEF InSlots
  <2>6. f.phase \in InSlots \/ f.phase \in {"new", "queued"}
    BY DEF InSlots
  <2> QED
    BY <2>1, <2>2, <2>3, <2>4, <2>5, <2>6
<1> QED
  BY <1>3, <1>4, <1>5, <1>8, <1>9

\* One request changes, and it advances.
LEMMA OneAdvances ==
  ASSUME RequestsOk, RequestsOk', NEW r \in Requests, NEW f, Moves(r, f),
         \/ fetch[r].phase = "new" /\ f.phase \in {"queued", "done"}
         \/ fetch[r].phase = "queued" /\ f.phase = "ready" /\ f.attempts = 1
         \/ fetch[r].phase = "backoff" /\ f.phase = "ready" /\ f.attempts = fetch[r].attempts + 1
         \/ fetch[r].phase \in InSlots /\ f.phase = "done"
         \/ /\ f.attempts = fetch[r].attempts
            /\ \/ fetch[r].phase = "ready" /\ f.phase \in {"sleeping", "posting", "backoff"}
               \/ fetch[r].phase = "sleeping" /\ f.phase \in {"posting", "releasing"}
               \/ fetch[r].phase = "posting" /\ f.phase \in {"releasing", "backoff"}
               \/ fetch[r].phase = "releasing" /\ f.phase = "backoff"
  PROVE  RequestsAdvance
<1>1. fetch'[r] = f /\ \A q \in Requests : q # r => fetch'[q] = fetch[q]
  BY RequestMoves DEF RequestsOk
<1>2. f \in FetchState /\ fetch[r] \in FetchState
  <2>1. fetch' \in [Requests -> FetchState] /\ fetch \in [Requests -> FetchState]
    BY DEF RequestsOk
  <2> QED
    BY <1>1, <2>1
<1>3. StageOf(fetch[r]) < StageOf(f) /\ StageOf(f) <= LastStage
  BY <1>2, StagesInOrder
<1>4. ASSUME NEW q \in Requests, fetch'[q] # fetch[q]
      PROVE  StageOf(fetch[q]) < StageOf(fetch'[q]) /\ StageOf(fetch'[q]) <= LastStage
  <2>1. q = r
    BY <1>1, <1>4
  <2> QED
    BY <1>1, <1>3, <2>1
<1> QED
  BY <1>4, Zenon DEF RequestsAdvance

\* A try that fails ends the request or waits for the next.
LEMMA ErrorAdvances ==
  ASSUME RequestsOk, RequestsOk', NEW r \in Requests, NEW error, AfterError(r, error),
         fetch[r].phase \in {"ready", "posting", "releasing"}
  PROVE  RequestsAdvance
<1>1. fetch[r] \in FetchState /\ fetch[r].phase \in InSlots
  BY DEF RequestsOk, InSlots
<1>2. CASE MayRetry(r, error)
  <2>1. PICK f : f = [fetch[r] EXCEPT !.phase = "backoff", !.reservedIn = 0]
    OBVIOUS
  <2>2. Moves(r, f) /\ f.phase = "backoff" /\ f.attempts = fetch[r].attempts
    BY <1>1, <1>2, <2>1 DEF AfterError, Moves, FetchState
  <2> QED
    BY <2>2, OneAdvances
<1>3. CASE ~MayRetry(r, error)
  <2>1. PICK f : f = [fetch[r] EXCEPT !.phase = "done", !.outcome = error, !.reservedIn = 0]
    OBVIOUS
  <2>2. Moves(r, f) /\ f.phase = "done"
    BY <1>1, <1>3, <2>1 DEF AfterError, End, Moves, FetchState
  <2> QED
    BY <1>1, <2>2, OneAdvances
<1> QED
  BY <1>2, <1>3

\* The head of the queue waits for a slot.
LEMMA HeadWaits ==
  ASSUME QueueOk, NEW r \in Requests, TakeSlot(r)
  PROVE  fetch[r].phase = "queued"
<1>1. waiters \in Seq(Requests) /\ waiters # <<>> /\ Head(waiters) = r
  BY DEF QueueOk, TakeSlot
<1>2. PICK n \in Nat : n = Len(waiters) /\ DOMAIN waiters = 1 .. n
  BY <1>1, LenProperties
<1>3. n # 0
  BY <1>1, <1>2, EmptySeq
<1>4. 1 \in DOMAIN waiters /\ waiters[1] = r
  BY <1>1, <1>2, <1>3
<1>5. r \in Range(waiters)
  BY <1>4 DEF Range
<1> QED
  BY <1>5 DEF QueueOk

LEMMA RunAdvances ==
  ASSUME FetchIInv, FetchIInv', NEW r \in Requests, Arrive(r) \/ RunFetch(r)
  PROVE  RequestsAdvance
<1>0. RequestsOk /\ RequestsOk' /\ QueueOk
  BY DEF FetchIInv
<1>1. fetch \in [Requests -> FetchState] /\ fetch[r] \in FetchState
  BY <1>0 DEF RequestsOk
<1>2. CASE Arrive(r)
  <2>1. CASE fetch' = [fetch EXCEPT ![r].phase = "queued"]
    <3>1. PICK f : f = [fetch[r] EXCEPT !.phase = "queued"]
      OBVIOUS
    <3>2. Moves(r, f) /\ f.phase = "queued" /\ fetch[r].phase = "new"
      BY <1>1, <1>2, <2>1, <3>1 DEF Arrive, Moves, FetchState
    <3> QED
      BY <3>2, <1>0, OneAdvances
  <2>2. CASE \E refusal \in Refused :
               fetch' = [fetch EXCEPT ![r].phase = "done", ![r].outcome = refusal]
    <3>1. PICK refusal : fetch' = [fetch EXCEPT ![r].phase = "done", ![r].outcome = refusal]
      BY <2>2
    <3>2. PICK f : f = [fetch[r] EXCEPT !.phase = "done", !.outcome = refusal]
      OBVIOUS
    <3>3. Moves(r, f)
      BY <1>1, <3>1, <3>2 DEF Moves
    <3>4. f.phase = "done" /\ fetch[r].phase = "new"
      BY <1>1, <1>2, <3>2 DEF Arrive, FetchState
    <3> QED
      BY <3>3, <3>4, <1>0, OneAdvances
  <2> QED
    BY <1>2, <2>1, <2>2 DEF Arrive
<1>3. CASE NextAttempt(r)
  <2>1. PICK f : f = [fetch[r] EXCEPT !.phase = "ready", !.attempts = fetch[r].attempts + 1]
    OBVIOUS
  <2>2. Moves(r, f) /\ fetch[r].phase = "backoff"
    BY <1>1, <1>3, <2>1 DEF NextAttempt, Moves
  <2>3. f.phase = "ready" /\ f.attempts = fetch[r].attempts + 1
    BY <1>1, <2>1 DEF FetchState
  <2> QED
    BY <2>2, <2>3, <1>0, OneAdvances
<1>4. CASE BeginAttempt(r)
  <2>1. fetch[r].phase = "ready" /\ fetch[r].phase \in InSlots
    BY <1>4 DEF BeginAttempt, InSlots
  <2>2. CASE AfterError(r, "not_configured") \/ AfterError(r, "quota")
    BY <2>1, <2>2, <1>0, ErrorAdvances
  <2>3. CASE ~(AfterError(r, "not_configured") \/ AfterError(r, "quota"))
    <3>1. PICK f : f = [fetch[r] EXCEPT !.phase = IF RoomInBucket THEN "posting" ELSE "sleeping",
                                        !.reservedIn = calendar]
      OBVIOUS
    <3>2. Moves(r, f)
      BY <1>1, <1>4, <2>3, <3>1 DEF BeginAttempt, Moves
    <3>3. f.phase \in {"posting", "sleeping"} /\ f.attempts = fetch[r].attempts
      BY <1>1, <3>1 DEF FetchState
    <3> QED
      BY <2>1, <3>2, <3>3, <1>0, OneAdvances
  <2> QED
    BY <2>2, <2>3
<1>5. CASE Wake(r)
  <2>1. PICK f : f = [fetch[r] EXCEPT !.phase = "posting"]
    OBVIOUS
  <2>2. Moves(r, f) /\ fetch[r].phase = "sleeping"
    BY <1>1, <1>5, <2>1 DEF Wake, Moves
  <2>3. f.phase = "posting" /\ f.attempts = fetch[r].attempts
    BY <1>1, <2>1 DEF FetchState
  <2> QED
    BY <2>2, <2>3, <1>0, OneAdvances
<1>6. ASSUME NEW error, CutOff(r, error) PROVE RequestsAdvance
  <2>1. PICK f : f = [fetch[r] EXCEPT !.phase = "releasing", !.outcome = error]
    OBVIOUS
  <2>2. Moves(r, f) /\ fetch[r].phase \in {"posting", "sleeping"}
    BY <1>1, <1>6, <2>1 DEF CutOff, Moves
  <2>3. f.phase = "releasing" /\ f.attempts = fetch[r].attempts
    BY <1>1, <2>1 DEF FetchState
  <2> QED
    BY <2>2, <2>3, <1>0, OneAdvances
<1>7. ASSUME NEW cost, NEW answer, Respond(r, cost, answer) PROVE RequestsAdvance
  <2>1. fetch[r].phase = "posting" /\ fetch[r].phase \in InSlots
    BY <1>7 DEF Respond, InSlots
  <2>2. CASE AfterError(r, answer)
    BY <2>1, <2>2, <1>0, ErrorAdvances
  <2>3. CASE ~AfterError(r, answer)
    <3>1. PICK f : f = [fetch[r] EXCEPT !.phase = "done", !.outcome = answer, !.reservedIn = 0]
      OBVIOUS
    <3>2. Moves(r, f)
      BY <1>7, <2>3, <3>1 DEF Respond, End, Moves
    <3>3. f.phase = "done"
      BY <1>1, <3>1 DEF FetchState
    <3> QED
      BY <2>1, <3>2, <3>3, <1>0, OneAdvances
  <2> QED
    BY <2>2, <2>3
<1>8. CASE Release(r)
  BY <1>8, <1>0, ErrorAdvances DEF Release
<1>9. CASE TakeSlot(r)
  <2>1. PICK f : f = [fetch[r] EXCEPT !.phase = "ready", !.attempts = 1]
    OBVIOUS
  <2>2. Moves(r, f)
    BY <1>1, <1>9, <2>1 DEF TakeSlot, Moves
  <2>3. f.phase = "ready" /\ f.attempts = 1
    BY <1>1, <2>1 DEF FetchState
  <2>4. fetch[r].phase = "queued"
    BY <1>0, <1>9, HeadWaits
  <2> QED
    BY <2>2, <2>3, <2>4, <1>0, OneAdvances
<1> QED
  BY <1>2, <1>3, <1>4, <1>5, <1>6, <1>7, <1>8, <1>9 DEF RunFetch, PostEnds

(***************************************************************************)
(* Whatever the vendor answers, and when: a request never goes back to a   *)
(* stage it has passed, and there are no more than the stages of all its   *)
(* tries.  With SomebodyMoves of FetchesSound this is why FetchesEnd needs *)
(* no more than that what can happen does.                                 *)
(***************************************************************************)
THEOREM RequestsAlwaysAdvance == FetchSpec => [][RequestsAdvance]_fetchVars
<1>1. FetchInit => FetchIInv
  BY FetchStart
<1>2. FetchIInv /\ FetchIInv' /\ [FetchNext]_fetchVars => [RequestsAdvance]_fetchVars
  <2> SUFFICES ASSUME FetchIInv, FetchIInv', FetchNext PROVE RequestsAdvance
    OBVIOUS
  <2>1. ASSUME fetch' = fetch PROVE RequestsAdvance
    BY <2>1 DEF RequestsAdvance
  <2> QED
    BY <2>1, RunAdvances DEF FetchNext, FetchTick, NextMonth
<1> QED
  BY <1>1, <1>2, FetchesStep, PTL DEF FetchSpec
=============================================================================
