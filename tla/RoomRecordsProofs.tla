--------------------------- MODULE RoomRecordsProofs ---------------------------
(***************************************************************************)
(* Proofs about the records around an offer: analysed files, share links,  *)
(* the listing agents' tokens, closing tasks, the phone's copies, the      *)
(* updates the buyer is shown, the fee ledger and the milestones.  Each    *)
(* component shares no variable with another, and is proved of its own     *)
(* specification.                                                          *)
(***************************************************************************)
EXTENDS FileAnalysis, OutsideAccess, Closing, DealClient, BuyerEvents,
        CompensationLedger, FiniteFacts

\* ANALYSED FILES.

\* The slugs a report has a value for, each once and in some order.
Named(report) == {s \in Slugs : report.values[s] # NoFact}

LEMMA SequenceOfSet ==
  ASSUME NEW S, IsFiniteSet(S)
  PROVE  /\ Cardinality(S) \in Nat
         /\ SetToSeq(S) \in [1 .. Cardinality(S) -> S]
         /\ \A k, l \in 1 .. Cardinality(S) : SetToSeq(S)[k] = SetToSeq(S)[l] => k = l
         /\ \A s \in S : \E k \in 1 .. Cardinality(S) : SetToSeq(S)[k] = s
<1> DEFINE n == Cardinality(S)
<1>1. n \in Nat /\ ExistsBijection(1 .. n, S)
  BY FS_CardinalityType
<1>2. \E f \in [1 .. n -> S] : IsInjective(f)
  BY <1>1 DEF ExistsBijection, Bijection, Injection
<1>3. SetToSeq(S) \in [1 .. n -> S] /\ IsInjective(SetToSeq(S))
  BY <1>2 DEF SetToSeq
<1>4. \A k, l \in 1 .. n : SetToSeq(S)[k] = SetToSeq(S)[l] => k = l
  BY <1>3 DEF IsInjective
<1>5. \A s \in S : \E k \in 1 .. n : SetToSeq(S)[k] = s
  <2> DEFINE f == SetToSeq(S)
  <2>1. f \in Injection(1 .. n, S)
    BY <1>3 DEF Injection
  <2>2. IsFiniteSet(1 .. n) /\ Cardinality(1 .. n) = n
    BY <1>1, FS_Interval
  <2> HIDE DEF f
  <2>3. f \in Surjection(1 .. n, S)
    BY <2>1, <2>2, FS_Injection
  <2> QED
    BY <2>3 DEF Surjection, f
<1> QED
  BY <1>1, <1>3, <1>4, <1>5

Stamps == {Nothing} \cup {<<c>> : c \in Content}

JobTables ==
  /\ analysisJobs \in Seq(AnalysisJob) /\ Len(analysisJobs) <= MaxJobs
  /\ findings \in Seq(SUBSET Finding) /\ Len(findings) = Len(analysisJobs)

FactTables ==
  /\ facts \in Seq(Fact) /\ Len(facts) <= MaxFacts
  /\ approved \in Seq(Stamps) /\ Len(approved) = Len(facts)
  /\ edited \subseteq DOMAIN facts

JobsSafe == JobTables /\ FindingsGated
FactsSafe == FactTables /\ ApprovedAsReviewed /\ LatestProjectionOnly

LEMMA TwoHalves == FileReviewSound <=> JobsSafe /\ FactsSafe
BY DEF FileReviewSound, AnalysisTypeOK, JobsSafe, FactsSafe, JobTables, FactTables, Stamps

LEMMA TwoHalvesNext == FileReviewSound' <=> JobsSafe' /\ FactsSafe'
BY TwoHalves, PTL

\* What FindingsGated says of the findings of one job.
Gated(status, found) ==
  \A f \in found :
    /\ status \in {"completed", "review_required", "resolved"}
    /\ status = "completed" => ~f.requiresReview
    /\ f.resolved <=> status = "resolved"

JobBecomes(j, job, found) ==
  /\ analysisJobs' = [analysisJobs EXCEPT ![j] = job]
  /\ findings' = [findings EXCEPT ![j] = found]

LEMMA JobRewritten ==
  ASSUME JobsSafe, NEW j \in DOMAIN analysisJobs, NEW job \in AnalysisJob,
         NEW found \in SUBSET Finding, JobBecomes(j, job, found), Gated(job.status, found)
  PROVE  JobsSafe'
<1>1. /\ analysisJobs \in Seq(AnalysisJob) /\ findings \in Seq(SUBSET Finding)
      /\ DOMAIN analysisJobs = 1 .. Len(analysisJobs) /\ DOMAIN findings = 1 .. Len(findings)
      /\ Len(findings) = Len(analysisJobs) /\ Len(analysisJobs) <= MaxJobs
  BY DEF JobsSafe, JobTables
<1>2. /\ analysisJobs' \in Seq(AnalysisJob) /\ Len(analysisJobs') = Len(analysisJobs)
      /\ findings' \in Seq(SUBSET Finding) /\ Len(findings') = Len(findings)
  BY <1>1, ExceptSeq DEF JobBecomes
<1>3. \A k \in DOMAIN analysisJobs' :
        /\ k \in DOMAIN analysisJobs
        /\ k # j => analysisJobs'[k] = analysisJobs[k] /\ findings'[k] = findings[k]
        /\ k = j => analysisJobs'[k] = job /\ findings'[k] = found
  BY <1>1 DEF JobBecomes
<1>4. FindingsGated'
  BY <1>3 DEF FindingsGated, JobsSafe, Gated
<1> QED
  BY <1>1, <1>2, <1>4 DEF JobsSafe, JobTables

LEMMA JobAt ==
  ASSUME JobsSafe, NEW j \in DOMAIN analysisJobs
  PROVE  /\ analysisJobs[j] \in AnalysisJob /\ findings[j] \in SUBSET Finding
         /\ Gated(analysisJobs[j].status, findings[j])
         /\ analysisJobs[j].status \in JobStatuses /\ analysisJobs[j].file \in Files
         /\ j \in 0 .. MaxJobs
         /\ findings = [findings EXCEPT ![j] = findings[j]]
<1>1. /\ analysisJobs \in Seq(AnalysisJob) /\ findings \in Seq(SUBSET Finding)
      /\ j \in 1 .. Len(analysisJobs) /\ j \in 1 .. Len(findings) /\ Len(analysisJobs) <= MaxJobs
      /\ Len(analysisJobs) \in Nat /\ MaxJobs \in Nat
  BY FileAnalysisAssumption DEF JobsSafe, JobTables
<1>2. analysisJobs[j] \in AnalysisJob /\ findings[j] \in SUBSET Finding
  BY <1>1
<1>3. Gated(analysisJobs[j].status, findings[j])
  BY DEF JobsSafe, FindingsGated, Gated
<1>4. analysisJobs[j].status \in JobStatuses /\ analysisJobs[j].file \in Files
  BY <1>2 DEF AnalysisJob
<1>5. findings = [findings EXCEPT ![j] = findings[j]]
  BY <1>1
<1> QED
  BY <1>1, <1>2, <1>3, <1>4, <1>5

\* Only the status of the job changes, to one that its findings allow.
LEMMA StatusSet ==
  ASSUME JobsSafe, NEW j \in DOMAIN analysisJobs, NEW status \in JobStatuses,
         analysisJobs' = [analysisJobs EXCEPT ![j].status = status],
         NEW found \in SUBSET Finding, findings' = [findings EXCEPT ![j] = found],
         Gated(status, found)
  PROVE  JobsSafe'
<1> DEFINE job == [analysisJobs[j] EXCEPT !.status = status]
<1>1. job \in AnalysisJob /\ job.status = status
  BY JobAt DEF AnalysisJob
<1>2. JobBecomes(j, job, found)
  BY DEF JobBecomes
<1> HIDE DEF job
<1> QED
  BY <1>1, <1>2, JobRewritten

LEMMA JobAdded ==
  ASSUME JobsSafe, NEW file \in Files, EnqueueAnalysis(file)
  PROVE  JobsSafe'
<1> DEFINE job == [file |-> file, status |-> "queued"]
           n == Len(analysisJobs)
<1>1. /\ analysisJobs \in Seq(AnalysisJob) /\ findings \in Seq(SUBSET Finding)
      /\ DOMAIN analysisJobs = 1 .. n /\ n \in Nat /\ n < MaxJobs
      /\ Len(findings) = n /\ MaxJobs \in Nat
  BY FileAnalysisAssumption DEF JobsSafe, JobTables, EnqueueAnalysis
<1>2. job \in AnalysisJob /\ {} \in SUBSET Finding
  BY DEF AnalysisJob, JobStatuses
<1>3. analysisJobs' = Append(analysisJobs, job) /\ findings' = Append(findings, {})
  BY DEF EnqueueAnalysis
<1> HIDE DEF job
<1>4. /\ analysisJobs' \in Seq(AnalysisJob) /\ Len(analysisJobs') = n + 1
      /\ \A k \in 1 .. n : analysisJobs'[k] = analysisJobs[k]
  BY <1>1, <1>2, <1>3, AppendProperties
<1>5. /\ findings' \in Seq(SUBSET Finding) /\ Len(findings') = n + 1
      /\ \A k \in 1 .. n : findings'[k] = findings[k]
      /\ findings'[n + 1] = {}
  BY <1>1, <1>2, <1>3, AppendProperties
<1>6. FindingsGated'
  <2>1. \A k \in DOMAIN analysisJobs' : k \in DOMAIN analysisJobs \/ k = n + 1
    BY <1>1, <1>4
  <2> QED
    BY <1>1, <1>4, <1>5, <2>1 DEF FindingsGated, JobsSafe
<1> QED
  BY <1>1, <1>4, <1>5, <1>6 DEF JobsSafe, JobTables

\* No step of a job gets past a finding that waits for a review.
LEMMA JobStepKeeps ==
  ASSUME JobsSafe, JobStep
  PROVE  JobsSafe'
<1>1. ASSUME NEW file \in Files, EnqueueAnalysis(file)
      PROVE  JobsSafe'
  BY <1>1, JobAdded
<1> SUFFICES ASSUME NEW j \in DOMAIN analysisJobs,
                    \/ MarkAnalysisRunning(j)
                    \/ \E report \in AnalysisReport : RecordAnalysisResult(j, report)
                    \/ RecordFailure(j)
                    \/ RetryJob(j)
                    \/ ResolveJob(j)
             PROVE  JobsSafe'
  BY <1>1 DEF JobStep
<1>2. /\ findings[j] \in SUBSET Finding /\ Gated(analysisJobs[j].status, findings[j])
      /\ analysisJobs[j].status \in JobStatuses
      /\ findings = [findings EXCEPT ![j] = findings[j]]
  BY JobAt
<1>3. analysisJobs[j].status \in {"queued", "running", "failed"} => findings[j] = {}
  BY <1>2 DEF Gated
<1>4. Gated("queued", {}) /\ Gated("running", {}) /\ Gated("failed", {}) /\ {} \in SUBSET Finding
  BY DEF Gated
<1>5. {"queued", "running", "failed", "resolved", "completed", "review_required"} \subseteq JobStatuses
  BY DEF JobStatuses
<1>6. CASE MarkAnalysisRunning(j)
  <2>1. /\ analysisJobs[j].status \in {"queued", "failed"} /\ findings' = findings
        /\ analysisJobs' = [analysisJobs EXCEPT ![j].status = "running"]
    BY <1>2, <1>6 DEF MarkAnalysisRunning, SetJobStatus, AllowedJobTransition, JobStatuses
  <2> QED
    BY <1>2, <1>3, <1>4, <1>5, <2>1, StatusSet
<1>7. CASE RecordFailure(j)
  <2>1. /\ analysisJobs[j].status = "running" /\ findings' = findings
        /\ analysisJobs' = [analysisJobs EXCEPT ![j].status = "failed"]
    BY <1>7 DEF RecordFailure
  <2> QED
    BY <1>2, <1>3, <1>4, <1>5, <2>1, StatusSet
<1>8. CASE RetryJob(j)
  <2>1. /\ analysisJobs[j].status = "failed" /\ findings' = findings
        /\ analysisJobs' = [analysisJobs EXCEPT ![j].status = "queued"]
    BY <1>2, <1>8 DEF RetryJob, SetJobStatus, AllowedJobTransition, JobStatuses
  <2> QED
    BY <1>2, <1>3, <1>4, <1>5, <2>1, StatusSet
<1>9. CASE ResolveJob(j)
  <2> DEFINE found == {[f EXCEPT !.resolved = TRUE] : f \in findings[j]}
  <2>1. /\ analysisJobs' = [analysisJobs EXCEPT ![j].status = "resolved"]
        /\ findings' = [findings EXCEPT ![j] = found]
    BY <1>9 DEF ResolveJob, SetJobStatus
  <2>2. found \in SUBSET Finding /\ \A f \in found : f.resolved
    BY <1>2 DEF Finding
  <2>3. Gated("resolved", found)
    BY <2>2 DEF Gated
  <2> HIDE DEF found
  <2> QED
    BY <1>5, <2>1, <2>2, <2>3, StatusSet
<1>10. ASSUME NEW report \in AnalysisReport, RecordAnalysisResult(j, report)
       PROVE  JobsSafe'
  <2> DEFINE new == {[requiresReview |-> b, resolved |-> FALSE] : b \in report.findings}
  <2>1. /\ analysisJobs[j].status = "running"
        /\ analysisJobs' = [analysisJobs EXCEPT ![j].status = DeriveJobOutcome(report)]
        /\ findings' = [findings EXCEPT ![j] = findings[j] \cup new]
    BY <1>10 DEF RecordAnalysisResult, SetJobStatus
  <2>2. findings[j] \cup new = new
    BY <1>3, <2>1
  <2>3. report.findings \in SUBSET BOOLEAN
    BY DEF AnalysisReport
  <2>a. ASSUME NEW f \in new
        PROVE  f \in Finding /\ ~f.resolved /\ (f.requiresReview => TRUE \in report.findings)
    <3>1. PICK b \in report.findings : f = [requiresReview |-> b, resolved |-> FALSE]
      BY <2>a
    <3>2. b \in BOOLEAN
      BY <2>3
    <3>3. f \in Finding
      BY <3>1, <3>2 DEF Finding
    <3>4. f.requiresReview = b /\ f.resolved = FALSE
      BY <3>1
    <3>5. b => TRUE \in report.findings
      BY <3>2, Zenon
    <3> QED
      BY <3>3, <3>4, <3>5
  <2>4. new \in SUBSET Finding
    BY <2>a
  <2>5. \A f \in new : ~f.resolved /\ (f.requiresReview => TRUE \in report.findings)
    BY <2>a
  <2>6. /\ DeriveJobOutcome(report) \in {"review_required", "completed"}
        /\ TRUE \in report.findings => DeriveJobOutcome(report) = "review_required"
    BY DEF DeriveJobOutcome
  <2>7. Gated(DeriveJobOutcome(report), new)
    BY <2>5, <2>6 DEF Gated
  <2>8. DeriveJobOutcome(report) \in JobStatuses
    BY <1>5, <2>6
  <2> HIDE DEF new
  <2> QED
    BY <2>1, <2>2, <2>4, <2>7, <2>8, StatusSet
<1> QED
  BY <1>6, <1>7, <1>8, <1>9, <1>10

LEMMA FactAt ==
  ASSUME FactsSafe
  PROVE  /\ facts \in Seq(Fact) /\ Len(facts) \in Nat /\ Len(facts) <= MaxFacts /\ MaxFacts \in Nat
         /\ DOMAIN facts = 1 .. Len(facts)
         /\ approved \in Seq(Stamps) /\ DOMAIN approved = DOMAIN facts
         /\ Len(approved) = Len(facts)
         /\ \A i \in DOMAIN facts :
              /\ facts[i] \in Fact /\ facts[i].content \in Content
              /\ facts[i].status \in ReviewStatuses /\ approved[i] \in Stamps
         /\ edited \subseteq DOMAIN facts
<1>1. /\ facts \in Seq(Fact) /\ Len(facts) \in Nat /\ Len(facts) <= MaxFacts
      /\ DOMAIN facts = 1 .. Len(facts)
      /\ approved \in Seq(Stamps) /\ DOMAIN approved = 1 .. Len(approved)
      /\ Len(approved) = Len(facts) /\ edited \subseteq DOMAIN facts
  BY DEF FactsSafe, FactTables
<1>2. \A i \in DOMAIN facts : facts[i] \in Fact /\ approved[i] \in Stamps
  BY <1>1
<1>3. \A f \in Fact : f.content \in Content /\ f.status \in ReviewStatuses
  BY DEF Fact
<1>4. MaxFacts \in Nat
  BY FileAnalysisAssumption
<1> QED
  BY <1>1, <1>2, <1>3, <1>4

\* A fact may take the place of another when a broker has touched it, or when it
\* is about the same and no livelier.
FactBecomes(i, fact, stamp) ==
  /\ facts' = [facts EXCEPT ![i] = fact]
  /\ approved' = [approved EXCEPT ![i] = stamp]
  /\ \/ edited' = edited \cup {i}
     \/ /\ edited' = edited
        /\ fact.content = facts[i].content
        /\ Live(fact) => Live(facts[i])

LEMMA FactRewritten ==
  ASSUME FactsSafe, NEW i \in DOMAIN facts, NEW fact \in Fact, NEW stamp \in Stamps,
         FactBecomes(i, fact, stamp), fact.status = "approved" => stamp = <<fact.content>>
  PROVE  FactsSafe'
<1>1. /\ facts' \in Seq(Fact) /\ Len(facts') = Len(facts)
      /\ approved' \in Seq(Stamps) /\ Len(approved') = Len(approved)
  BY FactAt, ExceptSeq DEF FactBecomes
<1>2. \A k \in DOMAIN facts' :
        /\ k \in DOMAIN facts
        /\ k # i => facts'[k] = facts[k] /\ approved'[k] = approved[k]
        /\ k = i => facts'[k] = fact /\ approved'[k] = stamp
  BY FactAt DEF FactBecomes
<1>3. DOMAIN facts' = DOMAIN facts /\ edited' \subseteq DOMAIN facts' /\ edited \subseteq edited'
  BY <1>1, FactAt DEF FactBecomes
<1>4. ApprovedAsReviewed'
  BY <1>2 DEF FactsSafe, ApprovedAsReviewed
<1>5. LatestProjectionOnly'
  <2>1. \A k \in DOMAIN facts \ edited' :
          /\ k \in DOMAIN facts \ edited
          /\ facts'[k].content = facts[k].content
          /\ Live(facts'[k]) => Live(facts[k])
    BY <1>2, <1>3 DEF FactBecomes
  <2> QED
    BY <1>3, <2>1 DEF FactsSafe, LatestProjectionOnly
<1> QED
  BY <1>1, <1>3, <1>4, <1>5, FactAt DEF FactsSafe, FactTables

LEMMA FactAdded ==
  ASSUME FactsSafe, NEW content \in Content, CreateFact(content)
  PROVE  FactsSafe'
<1> DEFINE fact == [content |-> content, status |-> "needsReview"]
           n == Len(facts)
<1>1. fact \in Fact /\ fact.status # "approved" /\ Nothing \in Stamps
  BY DEF Fact, ReviewStatuses, Stamps
<1>2. /\ facts' = Append(facts, fact) /\ approved' = Append(approved, Nothing)
      /\ edited' = edited \cup {n + 1} /\ n < MaxFacts
  BY DEF CreateFact
<1> HIDE DEF fact
<1>3. /\ facts' \in Seq(Fact) /\ Len(facts') = n + 1
      /\ \A k \in 1 .. n : facts'[k] = facts[k]
      /\ facts'[n + 1] = fact
  BY <1>1, <1>2, FactAt, AppendProperties
<1>4. /\ approved' \in Seq(Stamps) /\ Len(approved') = n + 1
      /\ \A k \in 1 .. n : approved'[k] = approved[k]
  BY <1>1, <1>2, FactAt, AppendProperties
<1>5. n \in Nat /\ DOMAIN facts = 1 .. n /\ DOMAIN facts' = 1 .. n + 1
      /\ edited \subseteq 1 .. n /\ MaxFacts \in Nat
  BY <1>3, FactAt
<1>6. edited' \subseteq DOMAIN facts'
  <2>1. n + 1 \in 1 .. n + 1 /\ \A e \in 1 .. n : e \in 1 .. n + 1
    BY <1>5
  <2> QED
    BY <1>2, <1>5, <2>1
<1>7. n + 1 <= MaxFacts
  BY <1>2, <1>5
<1>8. \A k \in DOMAIN facts' : k \in DOMAIN facts \/ k = n + 1
  BY <1>5
<1>9. ApprovedAsReviewed'
  BY <1>1, <1>3, <1>4, <1>5, <1>8 DEF FactsSafe, ApprovedAsReviewed
<1>10. LatestProjectionOnly'
  <2>1. \A k \in DOMAIN facts' \ edited' : k \in DOMAIN facts \ edited /\ facts'[k] = facts[k]
    BY <1>2, <1>3, <1>5, <1>8
  <2> QED
    BY <2>1 DEF FactsSafe, LatestProjectionOnly
<1> QED
  BY <1>3, <1>4, <1>6, <1>7, <1>9, <1>10 DEF FactsSafe, FactTables

LEMMA FactStepKeeps ==
  ASSUME FactsSafe, FactStep
  PROVE  FactsSafe'
<1>1. ASSUME NEW content \in Content, CreateFact(content)
      PROVE  FactsSafe'
  BY <1>1, FactAdded
<1>2. ASSUME NEW i \in DOMAIN facts, NEW content \in Content, UpdateFact(i, content)
      PROVE  FactsSafe'
  <2> DEFINE fact == [content |-> content, status |-> "needsReview"]
  <2>1. fact \in Fact /\ fact.status # "approved" /\ Nothing \in Stamps
    BY DEF Fact, ReviewStatuses, Stamps
  <2>2. FactBecomes(i, fact, Nothing)
    BY <1>2 DEF UpdateFact, FactBecomes
  <2> HIDE DEF fact
  <2> QED
    BY <2>1, <2>2, FactRewritten
<1>3. ASSUME NEW i \in DOMAIN facts, MarkSuperseded(i)
      PROVE  FactsSafe'
  <2> DEFINE fact == [facts[i] EXCEPT !.status = "superseded"]
  <2>1. /\ fact \in Fact /\ fact.status = "superseded" /\ fact.content = facts[i].content
        /\ approved[i] \in Stamps
    BY FactAt DEF Fact, ReviewStatuses
  <2>2. approved = [approved EXCEPT ![i] = approved[i]]
    BY FactAt
  <2>3. FactBecomes(i, fact, approved[i])
    BY <1>3, <2>1, <2>2 DEF MarkSuperseded, FactBecomes, Live
  <2> HIDE DEF fact
  <2> QED
    BY <2>1, <2>3, FactRewritten
<1>4. ASSUME NEW i \in DOMAIN facts, NEW next \in ReviewStatuses, TransitionReview(i, next)
      PROVE  FactsSafe'
  <2> DEFINE fact == [facts[i] EXCEPT !.status = next]
             stamp == IF next = "approved" THEN <<facts[i].content>> ELSE Nothing
  <2>1. fact \in Fact /\ fact.status = next /\ fact.content = facts[i].content
    BY FactAt DEF Fact
  <2>2. stamp \in Stamps /\ (next = "approved" => stamp = <<facts[i].content>>)
    BY FactAt DEF Stamps
  <2>3. facts[i].status = "superseded" => next = "superseded"
    BY <1>4 DEF TransitionReview, CanTransitionReview
  <2>4. /\ facts' = [facts EXCEPT ![i] = fact]
        /\ approved' = [approved EXCEPT ![i] = stamp]
        /\ edited' = edited
    BY <1>4 DEF TransitionReview
  <2> HIDE DEF fact, stamp
  <2>5. FactBecomes(i, fact, stamp)
    BY <2>1, <2>3, <2>4 DEF FactBecomes, Live
  <2> QED
    BY <2>1, <2>2, <2>5, FactRewritten
<1> QED
  BY <1>1, <1>2, <1>3, <1>4 DEF FactStep

(* What the concatenation of two sequences of known lengths holds.         *)
LEMMA Concatenation ==
  ASSUME NEW S, NEW a \in Seq(S), NEW b \in Seq(S), NEW p, NEW q,
         Len(a) = p, Len(b) = q
  PROVE  /\ a \o b \in Seq(S) /\ Len(a \o b) = p + q
         /\ \A i \in 1 .. p + q : (a \o b)[i] = IF i <= p THEN a[i] ELSE b[i - p]
<1>1. /\ a \o b \in Seq(S)
      /\ Len(a \o b) = Len(a) + Len(b)
      /\ \A i \in 1 .. Len(a) + Len(b) :
           (a \o b)[i] = IF i <= Len(a) THEN a[i] ELSE b[i - Len(a)]
  BY ConcatProperties
<1> QED
  BY <1>1


\* What is projected from a report: the facts there were, some of them
\* superseded, and one fact for every slug the report names.
LEMMA Projection ==
  ASSUME JobsSafe, FactsSafe, NEW j \in DOMAIN analysisJobs, NEW report \in AnalysisReport
  PROVE  LET n == Len(facts)
             file == analysisJobs[j].file
             projected == ReconcileProjectedFacts(j, report)
         IN /\ projected \in Seq(Fact) /\ Len(projected) >= n /\ n \in Nat
            /\ DOMAIN projected = 1 .. Len(projected)
            /\ \A i \in 1 .. n :
                 /\ projected[i].content = facts[i].content
                 /\ projected[i].status \in {facts[i].status, "superseded"}
                 /\ (facts[i].content.file = file /\ facts[i].content.slug \in Named(report)) =>
                      projected[i].status = "superseded"
            /\ \A i \in n + 1 .. Len(projected) :
                 /\ projected[i].content.file = file
                 /\ projected[i].content.slug \in Named(report)
                 /\ projected[i].status = "needsReview"
            /\ \A i, k \in n + 1 .. Len(projected) :
                 projected[i].content.slug = projected[k].content.slug => i = k
<1> DEFINE n == Len(facts)
           file == analysisJobs[j].file
           slugs == BuildFactProjections(report)
           m == Cardinality(Named(report))
           old == SupersededFacts(file, Range(slugs))
           Projected(s) == [content |-> [slug |-> s, file |-> file, run |-> j,
                                         value |-> report.values[s]],
                            status |-> "needsReview"]
           new == [k \in DOMAIN slugs |-> Projected(slugs[k])]
           projected == ReconcileProjectedFacts(j, report)
<1>1. IsFiniteSet(Named(report))
  BY FileAnalysisAssumption, FS_Subset DEF Named
<1>2. /\ m \in Nat /\ slugs \in [1 .. m -> Named(report)]
      /\ \A k, l \in 1 .. m : slugs[k] = slugs[l] => k = l
      /\ \A s \in Named(report) : \E k \in 1 .. m : slugs[k] = s
  BY <1>1, SequenceOfSet DEF BuildFactProjections, Named
<1>3. Range(slugs) = Named(report) /\ DOMAIN slugs = 1 .. m
  BY <1>2 DEF Range
<1>4. file \in Files /\ j \in 0 .. MaxJobs
  BY JobAt
<1>5. \A s \in Named(report) : /\ Projected(s) \in Fact
                               /\ Projected(s).content.file = file
                               /\ Projected(s).content.slug = s
                               /\ Projected(s).status = "needsReview"
  <2> SUFFICES ASSUME NEW s \in Named(report)
               PROVE  /\ Projected(s) \in Fact
                      /\ Projected(s).content.file = file
                      /\ Projected(s).content.slug = s
                      /\ Projected(s).status = "needsReview"
    OBVIOUS
  <2>1. s \in Slugs /\ report.values[s] \in FactValues
    BY DEF Named, AnalysisReport
  <2> QED
    BY <1>4, <2>1 DEF Fact, Content, ReviewStatuses
<1>6. projected = old \o new
  BY DEF ReconcileProjectedFacts
<1> HIDE DEF Projected, slugs, m, projected
<1>7. new \in [1 .. m -> Fact] /\ \A k \in 1 .. m : new[k] = Projected(slugs[k])
  BY <1>2, <1>3, <1>5
<1>8. new \in Seq(Fact) /\ Len(new) = m
  <2> HIDE DEF new
  <2>1. new \in Seq(Fact)
    BY <1>2, <1>7, SeqDef
  <2> QED
    BY <1>2, <1>7, <2>1, LenProperties
<1>9. /\ \A i \in 1 .. n : /\ old[i] \in Fact /\ old[i].content = facts[i].content
                           /\ old[i].status \in {facts[i].status, "superseded"}
                           /\ (facts[i].content.file = file
                               /\ facts[i].content.slug \in Named(report)) =>
                                old[i].status = "superseded"
      /\ old \in [1 .. n -> Fact] /\ n \in Nat
  <2>1. ASSUME NEW i \in 1 .. n
        PROVE  [facts[i] EXCEPT !.status = "superseded"] \in Fact
    BY FactAt DEF Fact, ReviewStatuses
  <2>2. DOMAIN facts = 1 .. n /\ n \in Nat /\ \A i \in 1 .. n : facts[i] \in Fact
    BY FactAt
  <2>3. ASSUME NEW i \in 1 .. n
        PROVE  /\ old[i] \in Fact /\ old[i].content = facts[i].content
               /\ old[i].status \in {facts[i].status, "superseded"}
               /\ (facts[i].content.file = file
                   /\ facts[i].content.slug \in Named(report)) => old[i].status = "superseded"
    <3>1. [facts[i] EXCEPT !.status = "superseded"].content = facts[i].content
          /\ [facts[i] EXCEPT !.status = "superseded"].status = "superseded"
      BY <2>2 DEF Fact
    <3> QED
      BY <1>3, <2>1, <2>2, <3>1 DEF SupersededFacts
  <2>4. old = [i \in 1 .. n |-> old[i]]
    BY <2>2 DEF SupersededFacts
  <2> QED
    BY <2>2, <2>3, <2>4
<1>10. old \in Seq(Fact) /\ Len(old) = n
  <2> HIDE DEF old
  <2>1. old \in Seq(Fact)
    BY <1>9, SeqDef
  <2> QED
    BY <1>9, <2>1, LenProperties
<1> HIDE DEF old, new
<1>11. /\ projected \in Seq(Fact) /\ Len(projected) = n + m
       /\ \A i \in 1 .. n : projected[i] = old[i]
       /\ \A i \in n + 1 .. n + m : projected[i] = new[i - n]
  <2>1. /\ old \o new \in Seq(Fact) /\ Len(old \o new) = n + m
        /\ \A i \in 1 .. n + m : (old \o new)[i] = IF i <= n THEN old[i] ELSE new[i - n]
    BY <1>2, <1>8, <1>9, <1>10, Concatenation
  <2>2. \A i \in 1 .. n : i \in 1 .. n + m /\ i <= n
    BY <1>2, <1>9
  <2>3. \A i \in n + 1 .. n + m : i \in 1 .. n + m /\ ~(i <= n)
    BY <1>2, <1>9
  <2> QED
    BY <1>6, <2>1, <2>2, <2>3
<1>12. \A i \in n + 1 .. n + m : i - n \in 1 .. m
  BY <1>2, <1>9
<1>13. \A i \in n + 1 .. n + m :
         /\ projected[i] = Projected(slugs[i - n]) /\ slugs[i - n] \in Named(report)
         /\ projected[i].content.file = file
         /\ projected[i].content.slug = slugs[i - n]
         /\ projected[i].status = "needsReview"
  BY <1>2, <1>5, <1>7, <1>11, <1>12
<1>14. \A i, k \in n + 1 .. n + m : projected[i].content.slug = projected[k].content.slug => i = k
  <2> SUFFICES ASSUME NEW i \in n + 1 .. n + m, NEW k \in n + 1 .. n + m,
                      projected[i].content.slug = projected[k].content.slug
               PROVE  i = k
    OBVIOUS
  <2>0. i - n \in 1 .. m /\ k - n \in 1 .. m /\ slugs[i - n] = slugs[k - n]
    BY <1>12, <1>13
  <2>1. i - n = k - n
    BY <1>2, <2>0
  <2> QED
    BY <1>2, <1>9, <2>1
<1>15. Len(projected) >= n /\ DOMAIN projected = 1 .. Len(projected)
  BY <1>2, <1>9, <1>11
<1>16. Len(projected) = n + m /\ projected \in Seq(Fact) /\ n \in Nat
  BY <1>9, <1>11
<1>17. \A i \in 1 .. n :
         /\ projected[i].content = facts[i].content
         /\ projected[i].status \in {facts[i].status, "superseded"}
         /\ (facts[i].content.file = file /\ facts[i].content.slug \in Named(report)) =>
              projected[i].status = "superseded"
  BY <1>9, <1>11
<1>18. \A i \in n + 1 .. Len(projected) :
         /\ projected[i].content.file = file
         /\ projected[i].content.slug \in Named(report)
         /\ projected[i].status = "needsReview"
  BY <1>13, <1>16
<1>19. \A i, k \in n + 1 .. Len(projected) :
         projected[i].content.slug = projected[k].content.slug => i = k
  BY <1>14, <1>16
<1> QED
  BY <1>15, <1>16, <1>17, <1>18, <1>19 DEF projected

LEMMA ResultKeepsFacts ==
  ASSUME JobsSafe, FactsSafe, NEW j \in DOMAIN analysisJobs, NEW report \in AnalysisReport,
         RecordAnalysisResult(j, report)
  PROVE  FactsSafe'
<1> DEFINE n == Len(facts)
           file == analysisJobs[j].file
           projected == ReconcileProjectedFacts(j, report)
<1>1. /\ facts' = projected /\ Len(projected) <= MaxFacts /\ edited' = edited
      /\ approved' = [i \in DOMAIN projected |->
                        IF i \in DOMAIN approved THEN approved[i] ELSE Nothing]
  BY DEF RecordAnalysisResult
<1> HIDE DEF projected
<1>2. /\ facts' \in Seq(Fact) /\ Len(facts') >= n /\ n \in Nat /\ Len(facts') \in Nat
      /\ DOMAIN facts' = 1 .. Len(facts')
      /\ \A i \in 1 .. n :
           /\ facts'[i].content = facts[i].content
           /\ facts'[i].status \in {facts[i].status, "superseded"}
           /\ (facts[i].content.file = file /\ facts[i].content.slug \in Named(report)) =>
                facts'[i].status = "superseded"
      /\ \A i \in n + 1 .. Len(facts') :
           /\ facts'[i].content.file = file
           /\ facts'[i].content.slug \in Named(report)
           /\ facts'[i].status = "needsReview"
      /\ \A i, k \in n + 1 .. Len(facts') :
           facts'[i].content.slug = facts'[k].content.slug => i = k
  BY <1>1, Projection DEF projected
<1>3. /\ DOMAIN facts = 1 .. n /\ DOMAIN approved = 1 .. n /\ edited \subseteq 1 .. n
      /\ \A i \in 1 .. n : approved[i] \in Stamps
  BY FactAt
<1>4. /\ DOMAIN approved' = 1 .. Len(facts')
      /\ \A i \in 1 .. Len(facts') : approved'[i] = IF i \in 1 .. n THEN approved[i] ELSE Nothing
  BY <1>1, <1>2, <1>3
<1>5. approved' \in Seq(Stamps) /\ Len(approved') = Len(facts')
  <2> DEFINE stamps == approved'
             l == Len(facts')
  <2>1. Nothing \in Stamps
    BY DEF Stamps
  <2>2. stamps \in [1 .. l -> Stamps]
    <3>1. \A i \in 1 .. l : stamps[i] \in Stamps
      BY <1>3, <1>4, <2>1
    <3>2. stamps = [i \in 1 .. l |-> IF i \in DOMAIN approved THEN approved[i] ELSE Nothing]
      BY <1>1, <1>2
    <3> QED
      BY <3>1, <3>2
  <2>3. l \in Nat
    BY <1>2
  <2> HIDE DEF stamps, l
  <2>4. stamps \in Seq(Stamps)
    BY <2>2, <2>3, SeqDef
  <2>5. Len(stamps) = l
    BY <2>2, <2>3, <2>4, LenProperties
  <2> QED
    BY <2>4, <2>5 DEF stamps, l
<1>6. FactTables'
  <2>1. edited' \subseteq DOMAIN facts'
    BY <1>1, <1>2, <1>3
  <2> QED
    BY <1>1, <1>2, <1>5, <2>1 DEF FactTables
<1>7. \A i \in DOMAIN facts' : i \in 1 .. n \/ i \in n + 1 .. Len(facts')
  BY <1>2
<1>8. ApprovedAsReviewed'
  <2> SUFFICES ASSUME NEW i \in DOMAIN facts', facts'[i].status = "approved"
               PROVE  approved'[i] = <<facts'[i].content>>
    BY DEF ApprovedAsReviewed
  <2>1. i \in 1 .. n /\ facts[i].status = "approved"
    BY <1>2, <1>7
  <2> QED
    BY <1>2, <1>3, <1>4, <2>1 DEF FactsSafe, ApprovedAsReviewed
<1>9. LatestProjectionOnly'
  <2> SUFFICES ASSUME NEW i \in DOMAIN facts' \ edited', NEW k \in DOMAIN facts' \ edited',
                      Live(facts'[i]), i < k,
                      facts'[i].content.slug = facts'[k].content.slug,
                      facts'[i].content.file = facts'[k].content.file
               PROVE  FALSE
    BY DEF LatestProjectionOnly
  <2>1. CASE i \in 1 .. n /\ k \in 1 .. n
    <3>1. Live(facts[i])
      BY <1>2, <2>1 DEF Live
    <3> QED
      BY <1>1, <1>2, <1>3, <2>1, <3>1 DEF FactsSafe, LatestProjectionOnly
  <2>2. CASE i \in 1 .. n /\ k \in n + 1 .. Len(facts')
    BY <1>2, <2>2 DEF Live
  <2>3. CASE i \in n + 1 .. Len(facts') /\ k \in n + 1 .. Len(facts')
    BY <1>2, <2>3
  <2>4. CASE i \in n + 1 .. Len(facts') /\ k \in 1 .. n
    BY <1>2, <2>4
  <2> QED
    BY <1>7, <2>1, <2>2, <2>3, <2>4
<1> QED
  BY <1>6, <1>8, <1>9 DEF FactsSafe

LEMMA OtherHalfRests ==
  /\ FactStep => UNCHANGED <<analysisJobs, findings>>
  /\ JobStep => \/ UNCHANGED <<facts, approved, edited>>
                \/ \E j \in DOMAIN analysisJobs, report \in AnalysisReport :
                     RecordAnalysisResult(j, report)
BY DEF FactStep, JobStep, CreateFact, UpdateFact, MarkSuperseded, TransitionReview,
       EnqueueAnalysis, MarkAnalysisRunning, RecordFailure, RetryJob, ResolveJob

(***************************************************************************)
(* Whatever workers report, repeat and fail to report, and whatever        *)
(* brokers retry, resolve, edit and approve in between: findings wait for  *)
(* their review, what a buyer sees is what was approved, and one fact per  *)
(* file and slug is live, for any number of jobs and facts.                *)
(***************************************************************************)
THEOREM FileReviewsAreSound == AnalysisSpec => []FileReviewSound
<1>1. AnalysisInit => FileReviewSound
  BY FileAnalysisAssumption DEF AnalysisInit, FileReviewSound, AnalysisTypeOK, FindingsGated,
     ApprovedAsReviewed, LatestProjectionOnly
<1>2. FileReviewSound /\ [AnalysisNext]_analysisVars => FileReviewSound'
  <2> SUFFICES ASSUME FileReviewSound, [AnalysisNext]_analysisVars
               PROVE  FileReviewSound'
    OBVIOUS
  <2>1. JobsSafe /\ FactsSafe
    BY TwoHalves
  <2>2. CASE JobStep
    <3>1. JobsSafe'
      BY <2>1, <2>2, JobStepKeeps
    <3>2. CASE UNCHANGED <<facts, approved, edited>>
      <4>1. FactsSafe'
        BY <2>1, <3>2 DEF FactsSafe, FactTables, ApprovedAsReviewed, LatestProjectionOnly
      <4> QED
        BY <3>1, <4>1, TwoHalvesNext
    <3>3. ASSUME NEW j \in DOMAIN analysisJobs, NEW report \in AnalysisReport,
                 RecordAnalysisResult(j, report)
          PROVE  FileReviewSound'
      BY <2>1, <3>1, <3>3, ResultKeepsFacts, TwoHalvesNext
    <3> QED
      BY <2>2, <3>2, <3>3, OtherHalfRests
  <2>3. CASE FactStep
    <3>1. FactsSafe'
      BY <2>1, <2>3, FactStepKeeps
    <3>2. UNCHANGED <<analysisJobs, findings>>
      BY <2>3, OtherHalfRests
    <3>3. JobsSafe'
      BY <2>1, <3>2 DEF JobsSafe, JobTables, FindingsGated
    <3> QED
      BY <3>1, <3>3, TwoHalvesNext
  <2>4. CASE UNCHANGED analysisVars
    BY <2>4 DEF analysisVars, FileReviewSound, AnalysisTypeOK, FindingsGated,
       ApprovedAsReviewed, LatestProjectionOnly
  <2> QED
    BY <2>2, <2>3, <2>4 DEF AnalysisNext
<1> QED
  BY <1>1, <1>2, PTL DEF AnalysisSpec
-----------------------------------------------------------------------------
\* SHARE LINKS.

LinkRowSound(l) ==
  /\ TrailTrue(l)
  /\ links[l].status = "revoked" <=>
       \E k \in LinkEventsOf(l) : linkEvents[k].event = "revoked"
  /\ links[l].createdByUserId = HolderOf[links[l].dealRoomId]

CanRevokeIfActive(l) ==
  links[l].status = "active" => CanRevoke(links[l], HolderOf[links[l].dealRoomId])

LinkIInv ==
  /\ LinkTypeOK
  /\ \A i \in DOMAIN linkEvents : linkEvents[i].linkId \in DOMAIN links
  /\ \A l \in DOMAIN links : LinkRowSound(l)

LEMMA LinkAt ==
  ASSUME LinkTypeOK
  PROVE  /\ links \in Seq(Link) /\ DOMAIN links = 1 .. Len(links) /\ Len(links) \in Nat
         /\ linkEvents \in Seq(LinkEvent) /\ DOMAIN linkEvents = 1 .. Len(linkEvents)
         /\ Len(linkEvents) \in Nat
         /\ \A l \in DOMAIN links : links[l] \in Link
         /\ \A i \in DOMAIN linkEvents : linkEvents[i] \in LinkEvent
         /\ MaxLinks \in Nat /\ MaxLinkEvents \in Nat /\ MaxMinute \in Nat /\ minute \in Minutes
         /\ minute \in Nat /\ minute # Unset
BY ShareLinksAssumption DEF LinkTypeOK, Minutes, Unset

LinkEventNames == {"created", "resolved", "denied_expired", "denied_revoked", "revoked"}

\* An event is recorded for link l; e is its place in the log.
LEMMA EventRecorded ==
  ASSUME LinkTypeOK, NEW l \in 1 .. MaxLinks, NEW event \in LinkEventNames,
         RecordLinkEvent(l, event), NEW e, e = Len(linkEvents) + 1
  PROVE  /\ linkEvents' \in Seq(LinkEvent) /\ Len(linkEvents') <= MaxLinkEvents
         /\ e \in Nat /\ e \notin DOMAIN linkEvents
         /\ DOMAIN linkEvents' = DOMAIN linkEvents \cup {e}
         /\ \A i \in DOMAIN linkEvents : i < e /\ linkEvents'[i] = linkEvents[i]
         /\ linkEvents'[e] = [linkId |-> l, event |-> event, timestamp |-> minute]
         /\ LinkEventsOf(l)' = LinkEventsOf(l) \cup {e}
         /\ \A k : k # l => LinkEventsOf(k)' = LinkEventsOf(k)
<1> DEFINE new == [linkId |-> l, event |-> event, timestamp |-> minute]
<1>1. new \in LinkEvent /\ new.linkId = l
  BY LinkAt DEF LinkEvent, LinkEventNames
<1>2. /\ linkEvents' \in Seq(LinkEvent) /\ Len(linkEvents') = Len(linkEvents) + 1
      /\ linkEvents'[Len(linkEvents) + 1] = new
      /\ \A i \in 1 .. Len(linkEvents) : linkEvents'[i] = linkEvents[i]
  BY <1>1, LinkAt, AppendProperties DEF RecordLinkEvent
<1>3. /\ e \in Nat /\ e \notin DOMAIN linkEvents
      /\ DOMAIN linkEvents' = DOMAIN linkEvents \cup {e}
      /\ \A i \in DOMAIN linkEvents : i < e /\ linkEvents'[i] = linkEvents[i]
      /\ linkEvents'[e] = new
  BY <1>2, LinkAt
<1>4. Len(linkEvents') <= MaxLinkEvents
  BY <1>2, LinkAt DEF RecordLinkEvent
<1> HIDE DEF new
<1>5. LinkEventsOf(l)' = LinkEventsOf(l) \cup {e}
  BY <1>1, <1>3 DEF LinkEventsOf
<1>6. \A k : k # l => LinkEventsOf(k)' = LinkEventsOf(k)
  BY <1>1, <1>3 DEF LinkEventsOf
<1> QED
  BY <1>2, <1>3, <1>4, <1>5, <1>6 DEF new

LEMMA ViewsFinite ==
  ASSUME LinkTypeOK, NEW l
  PROVE  IsFiniteSet(ViewsOf(l)) /\ Cardinality(ViewsOf(l)) \in Nat
<1>1. ViewsOf(l) \subseteq 1 .. Len(linkEvents)
  BY LinkAt DEF ViewsOf, LinkEventsOf
<1>2. IsFiniteSet(1 .. Len(linkEvents))
  BY LinkAt, FS_Interval
<1> QED
  BY <1>1, <1>2, FS_Subset, FS_CardinalityType

\* Another link's row and events are as they were.
LEMMA OtherLinks ==
  ASSUME LinkTypeOK, NEW l, NEW k \in DOMAIN links, k # l, LinkRowSound(k),
         links'[k] = links[k], LinkEventsOf(k)' = LinkEventsOf(k),
         \A i \in DOMAIN linkEvents : linkEvents'[i] = linkEvents[i]
  PROVE  LinkRowSound(k)'
<1>1. \A i \in LinkEventsOf(k) : i \in DOMAIN linkEvents /\ linkEvents'[i] = linkEvents[i]
  BY DEF LinkEventsOf
<1>2. ViewsOf(k)' = ViewsOf(k) /\ ViewsOf(k) \subseteq LinkEventsOf(k)
  BY <1>1 DEF ViewsOf
<1>3. \A i \in LinkEventsOf(k) : /\ RevokedBefore(k, i)' <=> RevokedBefore(k, i)
                                 /\ ExpiredAt(k, i)' <=> ExpiredAt(k, i)
  BY <1>1 DEF RevokedBefore, ExpiredAt
<1>4. TrailTrue(k)'
  <2>1. (\E i \in LinkEventsOf(k) : linkEvents[i].event = "created")'
    BY <1>1 DEF LinkRowSound, TrailTrue
  <2>2. /\ links'[k].accessCount = Cardinality(ViewsOf(k)')
        /\ ViewsOf(k)' = {} => links'[k].lastAccessedAt = Unset
    BY <1>2 DEF LinkRowSound, TrailTrue
  <2>3. \A i \in ViewsOf(k)' : (\A j \in ViewsOf(k)' : j <= i) =>
          links'[k].lastAccessedAt = linkEvents'[i].timestamp
    BY <1>1, <1>2 DEF LinkRowSound, TrailTrue
  <2>4. \A i \in LinkEventsOf(k) : LinkEventTrue(k, i)'
    <3>1. \A i \in LinkEventsOf(k) : LinkEventTrue(k, i)
      BY DEF LinkRowSound, TrailTrue
    <3> QED
      BY <1>1, <1>3, <3>1 DEF LinkEventTrue
  <2> QED
    BY <2>1, <2>2, <2>3, <2>4 DEF TrailTrue
<1>5. (\E i \in LinkEventsOf(k) : linkEvents[i].event = "revoked")' <=>
        \E i \in LinkEventsOf(k) : linkEvents[i].event = "revoked"
  BY <1>1
<1> QED
  BY <1>4, <1>5 DEF LinkRowSound

\* What an event of link l leaves of what was before it.
LEMMA PastStays ==
  ASSUME LinkTypeOK, NEW l \in DOMAIN links, LinkRowSound(l), NEW e, e = Len(linkEvents) + 1,
         LinkEventsOf(l)' = LinkEventsOf(l) \cup {e},
         links'[l].expiresAt = links[l].expiresAt,
         \A i \in DOMAIN linkEvents : linkEvents'[i] = linkEvents[i]
  PROVE  /\ \A i \in LinkEventsOf(l) : /\ i \in DOMAIN linkEvents /\ i < e
                                       /\ linkEvents'[i] = linkEvents[i]
                                       /\ RevokedBefore(l, i)' <=> RevokedBefore(l, i)
                                       /\ ExpiredAt(l, i)' <=> ExpiredAt(l, i)
         /\ (RevokedBefore(l, e))' <=> links[l].status = "revoked"
<1>1. \A i \in LinkEventsOf(l) : i \in DOMAIN linkEvents /\ i < e /\ linkEvents'[i] = linkEvents[i]
  BY LinkAt DEF LinkEventsOf
<1>2. \A i \in LinkEventsOf(l) : /\ RevokedBefore(l, i)' <=> RevokedBefore(l, i)
                                 /\ ExpiredAt(l, i)' <=> ExpiredAt(l, i)
  BY <1>1, LinkAt DEF RevokedBefore, ExpiredAt
<1>3. (RevokedBefore(l, e))' <=> links[l].status = "revoked"
  <2>1. (RevokedBefore(l, e))' <=> \E k \in LinkEventsOf(l) : linkEvents[k].event = "revoked"
    BY <1>1, LinkAt DEF RevokedBefore
  <2> QED
    BY <2>1 DEF LinkRowSound
<1> QED
  BY <1>1, <1>2, <1>3

\* The events of l before the new one stay true, whatever the new one is.
LEMMA PastTrue ==
  ASSUME LinkTypeOK, NEW l \in DOMAIN links, LinkRowSound(l), NEW e, e = Len(linkEvents) + 1,
         LinkEventsOf(l)' = LinkEventsOf(l) \cup {e},
         links'[l].expiresAt = links[l].expiresAt,
         \A i \in DOMAIN linkEvents : linkEvents'[i] = linkEvents[i]
  PROVE  /\ (\E i \in LinkEventsOf(l) : linkEvents[i].event = "created")'
         /\ \A i \in LinkEventsOf(l) : LinkEventTrue(l, i)'
<1>1. \A i \in LinkEventsOf(l) : /\ i \in DOMAIN linkEvents /\ i < e /\ i \in Nat /\ e \in Nat
                                 /\ linkEvents'[i] = linkEvents[i]
                                 /\ RevokedBefore(l, i)' <=> RevokedBefore(l, i)
                                 /\ ExpiredAt(l, i)' <=> ExpiredAt(l, i)
                                 /\ LinkEventTrue(l, i)
  BY PastStays, LinkAt, SMTT(30) DEF LinkRowSound, TrailTrue
<1>2. ASSUME NEW i \in LinkEventsOf(l)
      PROVE  LinkEventTrue(l, i)'
  <2>1. (\A k \in LinkEventsOf(l) : i <= k) => (\A k \in LinkEventsOf(l) \cup {e} : i <= k)
    BY <1>1
  <2> QED
    BY <1>1, <2>1 DEF LinkEventTrue
<1>3. (\E i \in LinkEventsOf(l) : linkEvents[i].event = "created")'
  BY <1>1 DEF LinkRowSound, TrailTrue
<1> QED
  BY <1>2, <1>3

\* An event that is no view: the row keeps its count and its last access.
LEMMA NoView ==
  ASSUME LinkTypeOK, NEW l \in DOMAIN links, LinkRowSound(l), NEW e, e = Len(linkEvents) + 1,
         LinkEventsOf(l)' = LinkEventsOf(l) \cup {e},
         \A i \in DOMAIN linkEvents : linkEvents'[i] = linkEvents[i],
         linkEvents'[e].event # "resolved",
         links'[l].accessCount = links[l].accessCount,
         links'[l].lastAccessedAt = links[l].lastAccessedAt
  PROVE  /\ links'[l].accessCount = Cardinality(ViewsOf(l)')
         /\ ViewsOf(l)' = {} => links'[l].lastAccessedAt = Unset
         /\ \A i \in ViewsOf(l)' : (\A k \in ViewsOf(l)' : k <= i) =>
              links'[l].lastAccessedAt = linkEvents'[i].timestamp
<1>1. \A i \in LinkEventsOf(l) : i \in DOMAIN linkEvents
  BY DEF LinkEventsOf
<1>2. ViewsOf(l)' = ViewsOf(l) /\ ViewsOf(l) \subseteq DOMAIN linkEvents
  BY <1>1 DEF ViewsOf
<1> QED
  BY <1>2 DEF LinkRowSound, TrailTrue

LEMMA TrailAfter ==
  ASSUME NEW l, NEW e, LinkEventsOf(l)' = LinkEventsOf(l) \cup {e},
         (\E i \in LinkEventsOf(l) : linkEvents[i].event = "created")',
         \A i \in LinkEventsOf(l) : LinkEventTrue(l, i)',
         LinkEventTrue(l, e)',
         links'[l].accessCount = Cardinality(ViewsOf(l)'),
         ViewsOf(l)' = {} => links'[l].lastAccessedAt = Unset,
         \A i \in ViewsOf(l)' : (\A k \in ViewsOf(l)' : k <= i) =>
              links'[l].lastAccessedAt = linkEvents'[i].timestamp
  PROVE  TrailTrue(l)'
BY DEF TrailTrue

-----------------------------------------------------------------------------
\* Link l gets another row and an event; the other links keep theirs.
LEMMA LinkWritten ==
  ASSUME LinkIInv, NEW l \in DOMAIN links, NEW row \in Link, NEW event \in LinkEventNames,
         links' = [links EXCEPT ![l] = row], RecordLinkEvent(l, event), UNCHANGED minute,
         LinkRowSound(l)'
  PROVE  LinkIInv'
<1> PICK e : e = Len(linkEvents) + 1
  OBVIOUS
<1>0. LinkTypeOK /\ l \in 1 .. MaxLinks
  BY LinkAt DEF LinkIInv, LinkTypeOK
<1>1. /\ linkEvents' \in Seq(LinkEvent) /\ Len(linkEvents') <= MaxLinkEvents
      /\ DOMAIN linkEvents' = DOMAIN linkEvents \cup {e}
      /\ \A i \in DOMAIN linkEvents : linkEvents'[i] = linkEvents[i]
      /\ linkEvents'[e] = [linkId |-> l, event |-> event, timestamp |-> minute]
      /\ \A k : k # l => LinkEventsOf(k)' = LinkEventsOf(k)
  BY <1>0, EventRecorded
<1>2. /\ links' \in Seq(Link) /\ Len(links') = Len(links) /\ DOMAIN links' = DOMAIN links
      /\ \A k \in DOMAIN links : k # l => links'[k] = links[k]
  BY <1>0, LinkAt, ExceptSeq
<1>3. LinkTypeOK'
  BY <1>0, <1>1, <1>2 DEF LinkTypeOK
<1>4. \A i \in DOMAIN linkEvents' : linkEvents'[i].linkId \in DOMAIN links'
  BY <1>1, <1>2 DEF LinkIInv
<1>5. ASSUME NEW k \in DOMAIN links
      PROVE  LinkRowSound(k)'
  <2>1. CASE k = l
    BY <2>1
  <2>2. CASE k # l
    <3>1. LinkRowSound(k) /\ links'[k] = links[k] /\ LinkEventsOf(k)' = LinkEventsOf(k)
      BY <1>1, <1>2, <2>2 DEF LinkIInv
    <3> QED
      BY <1>0, <1>1, <2>2, <3>1, OtherLinks
  <2> QED
    BY <2>1, <2>2
<1> QED
  BY <1>2, <1>3, <1>4, <1>5 DEF LinkIInv

LEMMA StatusCases ==
  ASSUME NEW l
  PROVE  LET expired == links[l].expiresAt # Unset /\ minute >= links[l].expiresAt
         IN /\ ComputeStatus(links[l]) = "revoked" <=> links[l].status = "revoked"
            /\ ComputeStatus(links[l]) = "expired" <=> links[l].status # "revoked" /\ expired
            /\ ComputeStatus(links[l]) \in {"active", "expired", "revoked"}
BY DEF ComputeStatus

LEMMA ResolveKeeps ==
  ASSUME LinkIInv, NEW l \in DOMAIN links, ResolveLink(l)
  PROVE  LinkIInv'
<1> PICK e : e = Len(linkEvents) + 1
  OBVIOUS
<1> DEFINE expired == links[l].expiresAt # Unset /\ minute >= links[l].expiresAt
<1>0. /\ LinkTypeOK /\ l \in 1 .. MaxLinks /\ links[l] \in Link /\ LinkRowSound(l)
      /\ UNCHANGED minute /\ minute \in Minutes /\ e \in Nat
  BY LinkAt DEF LinkIInv, LinkTypeOK, ResolveLink
<1>s. /\ ComputeStatus(links[l]) = "revoked" <=> links[l].status = "revoked"
      /\ ComputeStatus(links[l]) = "expired" <=> links[l].status # "revoked" /\ expired
      /\ ComputeStatus(links[l]) \in {"active", "expired", "revoked"}
  BY StatusCases
<1> DEFINE event == CASE ComputeStatus(links[l]) = "active" -> "resolved"
                      [] ComputeStatus(links[l]) = "expired" -> "denied_expired"
                      [] OTHER -> "denied_revoked"
           row == IF ComputeStatus(links[l]) = "active"
                    THEN [links[l] EXCEPT !.accessCount = @ + 1, !.lastAccessedAt = minute]
                    ELSE links[l]
<1>e. /\ event \in {"resolved", "denied_expired", "denied_revoked"}
      /\ event = "resolved" => links[l].status # "revoked" /\ ~expired
      /\ event = "denied_expired" => links[l].status # "revoked" /\ expired
      /\ event = "denied_revoked" => links[l].status = "revoked"
      /\ event = "resolved" <=> ComputeStatus(links[l]) = "active"
  BY <1>s
<1>1. RecordLinkEvent(l, event) /\ links' = [links EXCEPT ![l] = row]
  <2>1. CASE ComputeStatus(links[l]) = "active"
    BY <2>1 DEF ResolveLink
  <2>2. CASE ComputeStatus(links[l]) # "active"
    <3>1. RecordLinkEvent(l, event) /\ UNCHANGED links
      BY <2>2 DEF ResolveLink
    <3> QED
      BY <2>2, <3>1, <1>0, LinkAt
  <2> QED
    BY <2>1, <2>2
<1>2. /\ row \in Link /\ row.expiresAt = links[l].expiresAt /\ row.status = links[l].status
      /\ row.createdByUserId = links[l].createdByUserId /\ row.dealRoomId = links[l].dealRoomId
      /\ event = "resolved" =>
           row.accessCount = links[l].accessCount + 1 /\ row.lastAccessedAt = minute
      /\ event # "resolved" => row.accessCount = links[l].accessCount
                               /\ row.lastAccessedAt = links[l].lastAccessedAt
  <2>1. CASE event = "resolved"
    <3> DEFINE used == [links[l] EXCEPT !.accessCount = links[l].accessCount + 1,
                                        !.lastAccessedAt = minute]
    <3>1. row = used
      BY <1>e, <2>1
    <3>2. links[l].accessCount + 1 \in Nat
      BY <1>0 DEF Link
    <3>3. /\ used \in Link /\ used.expiresAt = links[l].expiresAt /\ used.status = links[l].status
          /\ used.createdByUserId = links[l].createdByUserId
          /\ used.dealRoomId = links[l].dealRoomId
          /\ used.accessCount = links[l].accessCount + 1 /\ used.lastAccessedAt = minute
      BY <1>0, <3>2 DEF Link
    <3> HIDE DEF used, row
    <3> QED
      BY <2>1, <3>1, <3>3
  <2>2. CASE event # "resolved"
    BY <1>0, <1>e, <2>2
  <2> QED
    BY <2>1, <2>2
<1>3. links'[l] = row
  BY <1>1
<1> HIDE DEF row, event
<1>4. /\ e \notin DOMAIN linkEvents
      /\ \A i \in DOMAIN linkEvents : i < e /\ linkEvents'[i] = linkEvents[i]
      /\ linkEvents'[e] = [linkId |-> l, event |-> event, timestamp |-> minute]
      /\ LinkEventsOf(l)' = LinkEventsOf(l) \cup {e}
  <2>1. event \in LinkEventNames
    BY <1>e DEF LinkEventNames
  <2> QED
    BY <1>0, <1>1, <2>1, EventRecorded
<1>5. linkEvents'[e].event = event /\ linkEvents'[e].timestamp = minute
  BY <1>4
<1>6. (\E i \in LinkEventsOf(l) : linkEvents[i].event = "created")'
      /\ \A i \in LinkEventsOf(l) : LinkEventTrue(l, i)'
  BY <1>0, <1>2, <1>3, <1>4, PastTrue
<1>7. (RevokedBefore(l, e))' <=> links[l].status = "revoked"
  BY <1>0, <1>2, <1>3, <1>4, PastStays
<1>8. (ExpiredAt(l, e))' <=> expired
  BY <1>2, <1>3, <1>5 DEF ExpiredAt
<1> HIDE DEF expired
<1>9. LinkEventTrue(l, e)'
  BY <1>5, <1>7, <1>8, <1>e DEF LinkEventTrue
<1>10. /\ links'[l].accessCount = Cardinality(ViewsOf(l)')
       /\ ViewsOf(l)' = {} => links'[l].lastAccessedAt = Unset
       /\ \A i \in ViewsOf(l)' : (\A k \in ViewsOf(l)' : k <= i) =>
            links'[l].lastAccessedAt = linkEvents'[i].timestamp
  <2>1. CASE event = "resolved"
    <3>1. ViewsOf(l)' = ViewsOf(l) \cup {e}
      BY <1>4, <1>5, <2>1 DEF ViewsOf, LinkEventsOf
    <3>2. e \notin ViewsOf(l) /\ \A i \in ViewsOf(l) : i \in Nat /\ i < e
      BY <1>0, <1>4, LinkAt DEF ViewsOf, LinkEventsOf
    <3>3. Cardinality(ViewsOf(l)') = Cardinality(ViewsOf(l)) + 1
      BY <1>0, <3>1, <3>2, ViewsFinite, FS_AddElement
    <3>4. links'[l].accessCount = Cardinality(ViewsOf(l)')
      BY <1>0, <1>2, <1>3, <2>1, <3>3 DEF LinkRowSound, TrailTrue
    <3>5. ASSUME NEW i \in ViewsOf(l)', \A k \in ViewsOf(l)' : k <= i
          PROVE  links'[l].lastAccessedAt = linkEvents'[i].timestamp
      <4>1. e <= i
        BY <3>1, <3>5
      <4>2. i = e
        BY <1>0, <3>1, <3>2, <4>1
      <4> QED
        BY <1>2, <1>3, <1>5, <2>1, <4>2
    <3> QED
      BY <3>1, <3>4, <3>5
  <2>2. CASE event # "resolved"
    BY <1>0, <1>2, <1>3, <1>4, <1>5, <2>2, NoView
  <2> QED
    BY <2>1, <2>2
<1>11. TrailTrue(l)'
  BY <1>4, <1>6, <1>9, <1>10, TrailAfter
<1>12. (\E k \in LinkEventsOf(l) : linkEvents[k].event = "revoked")' <=>
         \E k \in LinkEventsOf(l) : linkEvents[k].event = "revoked"
  BY <1>4, <1>5, <1>e DEF LinkEventsOf
<1>13. LinkRowSound(l)'
  BY <1>0, <1>2, <1>3, <1>11, <1>12 DEF LinkRowSound
<1> QED
  BY <1>0, <1>1, <1>2, <1>13, <1>e, LinkWritten DEF LinkEventNames

LEMMA RevokeKeeps ==
  ASSUME LinkIInv, NEW actor, NEW l \in DOMAIN links, RevokeLink(actor, l)
  PROVE  LinkIInv'
<1> PICK e : e = Len(linkEvents) + 1
  OBVIOUS
<1> DEFINE row == [links[l] EXCEPT !.status = "revoked"]
<1>0. /\ LinkTypeOK /\ l \in 1 .. MaxLinks /\ links[l] \in Link /\ LinkRowSound(l)
      /\ UNCHANGED minute /\ links[l].status # "revoked" /\ e \in Nat
  BY LinkAt DEF LinkIInv, LinkTypeOK, RevokeLink, CanRevoke
<1>1. RecordLinkEvent(l, "revoked") /\ links' = [links EXCEPT ![l] = row]
  BY DEF RevokeLink
<1>2. /\ row \in Link /\ row.expiresAt = links[l].expiresAt /\ row.status = "revoked"
      /\ row.createdByUserId = links[l].createdByUserId /\ row.dealRoomId = links[l].dealRoomId
      /\ row.accessCount = links[l].accessCount
      /\ row.lastAccessedAt = links[l].lastAccessedAt
  BY <1>0 DEF Link
<1>3. links'[l] = row
  BY <1>1
<1> HIDE DEF row
<1>4. /\ \A i \in DOMAIN linkEvents : i < e /\ linkEvents'[i] = linkEvents[i]
      /\ linkEvents'[e] = [linkId |-> l, event |-> "revoked", timestamp |-> minute]
      /\ LinkEventsOf(l)' = LinkEventsOf(l) \cup {e}
  BY <1>0, <1>1, EventRecorded DEF LinkEventNames
<1>5. linkEvents'[e].event = "revoked"
  BY <1>4
<1>6. (\E i \in LinkEventsOf(l) : linkEvents[i].event = "created")'
      /\ \A i \in LinkEventsOf(l) : LinkEventTrue(l, i)'
  BY <1>0, <1>2, <1>3, <1>4, PastTrue
<1>7. ~(RevokedBefore(l, e))'
  BY <1>0, <1>2, <1>3, <1>4, PastStays
<1>9. LinkEventTrue(l, e)'
  BY <1>5, <1>7 DEF LinkEventTrue
<1>10. /\ links'[l].accessCount = Cardinality(ViewsOf(l)')
       /\ ViewsOf(l)' = {} => links'[l].lastAccessedAt = Unset
       /\ \A i \in ViewsOf(l)' : (\A k \in ViewsOf(l)' : k <= i) =>
            links'[l].lastAccessedAt = linkEvents'[i].timestamp
  BY <1>0, <1>2, <1>3, <1>4, <1>5, NoView
<1>11. TrailTrue(l)'
  BY <1>4, <1>6, <1>9, <1>10, TrailAfter
<1>12. (\E k \in LinkEventsOf(l) : linkEvents[k].event = "revoked")'
  BY <1>4, <1>5
<1>13. LinkRowSound(l)'
  BY <1>0, <1>2, <1>3, <1>11, <1>12 DEF LinkRowSound
<1> QED
  BY <1>0, <1>1, <1>2, <1>13, LinkWritten DEF LinkEventNames

LEMMA CreateLinkKeeps ==
  ASSUME LinkIInv, NEW actor, NEW room \in SharedRooms, NEW expires \in Minutes \cup {Unset},
         CreateLink(actor, room, expires)
  PROVE  LinkIInv'
<1> PICK e : e = Len(linkEvents) + 1
  OBVIOUS
<1> PICK l : l = Len(links) + 1
  OBVIOUS
<1> DEFINE row == [dealRoomId |-> room, createdByUserId |-> HolderOf[room],
                   status |-> "active", expiresAt |-> expires, accessCount |-> 0,
                   lastAccessedAt |-> Unset]
<1>0. /\ LinkTypeOK /\ l \in 1 .. MaxLinks /\ l \notin DOMAIN links /\ e \in Nat
      /\ UNCHANGED minute /\ links' = Append(links, row) /\ RecordLinkEvent(l, "created")
      /\ Len(links) < MaxLinks
  BY LinkAt DEF LinkIInv, CreateLink
<1>1. row \in Link
  BY ShareLinksAssumption DEF Link
<1>2. /\ row.status = "active" /\ row.createdByUserId = HolderOf[row.dealRoomId]
      /\ row.accessCount = 0 /\ row.lastAccessedAt = Unset
  OBVIOUS
<1> HIDE DEF row
<1>3. /\ links' \in Seq(Link) /\ Len(links') <= MaxLinks
      /\ DOMAIN links' = DOMAIN links \cup {l}
      /\ links'[l] = row /\ \A k \in DOMAIN links : links'[k] = links[k]
  BY <1>0, <1>1, LinkAt, AppendProperties
<1>4. /\ linkEvents' \in Seq(LinkEvent) /\ Len(linkEvents') <= MaxLinkEvents
      /\ DOMAIN linkEvents' = DOMAIN linkEvents \cup {e} /\ e \notin DOMAIN linkEvents
      /\ \A i \in DOMAIN linkEvents : i < e /\ linkEvents'[i] = linkEvents[i]
      /\ linkEvents'[e] = [linkId |-> l, event |-> "created", timestamp |-> minute]
      /\ LinkEventsOf(l)' = LinkEventsOf(l) \cup {e}
      /\ \A k : k # l => LinkEventsOf(k)' = LinkEventsOf(k)
  BY <1>0, EventRecorded DEF LinkEventNames
<1>5. linkEvents'[e].event = "created" /\ linkEvents'[e].linkId = l
  BY <1>4
<1>6. LinkEventsOf(l) = {} /\ LinkEventsOf(l)' = {e}
  BY <1>0, <1>4 DEF LinkEventsOf, LinkIInv
<1>7. ViewsOf(l)' = {} /\ Cardinality({}) = 0
  BY <1>5, <1>6, FS_EmptySet DEF ViewsOf
<1>8. LinkEventTrue(l, e)'
  BY <1>0, <1>5, <1>6 DEF LinkEventTrue
<1>9. TrailTrue(l)'
  BY <1>2, <1>3, <1>5, <1>6, <1>7, <1>8 DEF TrailTrue
<1>10. LinkRowSound(l)'
  BY <1>2, <1>3, <1>5, <1>6, <1>9 DEF LinkRowSound
<1>11. ASSUME NEW k \in DOMAIN links
       PROVE  LinkRowSound(k)'
  <2>1. k # l /\ LinkRowSound(k) /\ links'[k] = links[k] /\ LinkEventsOf(k)' = LinkEventsOf(k)
    BY <1>0, <1>3, <1>4 DEF LinkIInv
  <2> QED
    BY <1>0, <1>4, <2>1, OtherLinks
<1>12. LinkTypeOK'
  BY <1>0, <1>3, <1>4 DEF LinkTypeOK
<1>13. \A i \in DOMAIN linkEvents' : linkEvents'[i].linkId \in DOMAIN links'
  BY <1>3, <1>4, <1>5 DEF LinkIInv
<1> QED
  BY <1>3, <1>10, <1>11, <1>12, <1>13 DEF LinkIInv

LEMMA LinksInductive == LinkSpec => []LinkIInv
<1>1. LinkInit => LinkIInv
  <2> SUFFICES ASSUME LinkInit PROVE LinkIInv
    OBVIOUS
  <2>1. links = <<>> /\ linkEvents = <<>> /\ minute = 1
    BY DEF LinkInit
  <2>2. 1 \in Minutes
    BY ShareLinksAssumption DEF Minutes
  <2>3. LinkTypeOK
    BY <2>1, <2>2, ShareLinksAssumption DEF LinkTypeOK
  <2> QED
    BY <2>1, <2>3 DEF LinkIInv
<1>2. LinkIInv /\ [LinkNext]_linkVars => LinkIInv'
  <2> SUFFICES ASSUME LinkIInv, [LinkNext]_linkVars PROVE LinkIInv'
    OBVIOUS
  <2>1. CASE \E actor \in Persons \cup Staff :
               \/ \E room \in SharedRooms, expires \in Minutes \cup {Unset} :
                    CreateLink(actor, room, expires)
               \/ \E l \in DOMAIN links : RevokeLink(actor, l)
    BY <2>1, CreateLinkKeeps, RevokeKeeps
  <2>2. CASE \E l \in DOMAIN links : ResolveLink(l)
    BY <2>2, ResolveKeeps
  <2>3. CASE LinkTick \/ UNCHANGED linkVars
    <3>1. UNCHANGED <<links, linkEvents>> /\ minute' \in Minutes
      BY <2>3, LinkAt DEF LinkTick, linkVars, LinkIInv, Minutes, LinkTypeOK
    <3>2. \A l : LinkRowSound(l)' <=> LinkRowSound(l)
      BY <3>1 DEF LinkRowSound, TrailTrue, LinkEventTrue, LinkEventsOf, ViewsOf,
                  RevokedBefore, ExpiredAt
    <3> QED
      BY <3>1, <3>2 DEF LinkIInv, LinkTypeOK
  <2> QED
    BY <2>1, <2>2, <2>3 DEF LinkNext
<1> QED
  BY <1>1, <1>2, PTL DEF LinkSpec

LEMMA LinkIInvTells == LinkIInv => LinkTrailTrue
<1> SUFFICES ASSUME LinkIInv, NEW l \in DOMAIN links
             PROVE  TrailTrue(l) /\ CanRevokeIfActive(l)
  BY DEF LinkTrailTrue, LinkIInv, CanRevokeIfActive
<1> QED
  BY DEF LinkIInv, LinkRowSound, CanRevoke, CanRevokeIfActive
-----------------------------------------------------------------------------
\* THE TOKENS OF LISTING AGENTS.

EventsKnown == \A k \in DOMAIN accessEvents : accessEvents[k].tokenId \in DOMAIN tokens
ResponsesPast ==
  \A i \in DOMAIN responses :
    responses[i].tokenId \in DOMAIN tokens /\ responses[i].submittedAt <= instant

AccessIInv ==
  /\ AccessTypeOK
  /\ EventsKnown /\ ResponsesPast
  /\ RepeatsSpaced /\ GivenInScope /\ EventsTellTheLife

LEMMA TablesAt ==
  ASSUME AccessTypeOK
  PROVE  /\ tokens \in Seq(Token) /\ DOMAIN tokens = 1 .. Len(tokens) /\ Len(tokens) \in Nat
         /\ responses \in Seq(Response) /\ DOMAIN responses = 1 .. Len(responses)
         /\ Len(responses) \in Nat
         /\ accessEvents \in Seq(AccessEvent) /\ DOMAIN accessEvents = 1 .. Len(accessEvents)
         /\ Len(accessEvents) \in Nat
         /\ Len(tokens) <= MaxTokens /\ Len(responses) <= MaxResponses
         /\ MaxTokens \in Nat /\ MaxResponses \in Nat /\ MaxClock \in Nat /\ DedupeWindow \in Nat
         /\ instant \in 1 .. MaxClock /\ instant # Never
BY ExternalAccessAssumption DEF AccessTypeOK, Instants, Never

LEMMA RowsAt ==
  ASSUME AccessTypeOK
  PROVE  /\ \A t \in DOMAIN tokens : tokens[t] \in Token
         /\ \A i \in DOMAIN responses : responses[i] \in Response
         /\ \A k \in DOMAIN accessEvents : accessEvents[k] \in AccessEvent
         /\ \A i \in DOMAIN responses : responses[i].submittedAt \in Nat
         /\ \A k \in DOMAIN accessEvents : accessEvents[k].timestamp # Never
<1>1. /\ \A t \in DOMAIN tokens : tokens[t] \in Token
      /\ \A i \in DOMAIN responses : responses[i] \in Response
      /\ \A k \in DOMAIN accessEvents : accessEvents[k] \in AccessEvent
  BY DEF AccessTypeOK
<1>2. \A i \in DOMAIN responses : responses[i].submittedAt \in Nat
  BY <1>1 DEF Response, Instants
<1>3. \A k \in DOMAIN accessEvents : accessEvents[k].timestamp # Never
  BY <1>1 DEF AccessEvent, Instants, Never
<1> QED
  BY <1>1, <1>2, <1>3

\* A function on 1 .. n is a sequence of length n.
LEMMA Tabulated ==
  ASSUME NEW S, NEW n \in Nat, NEW f \in [1 .. n -> S]
  PROVE  f \in Seq(S) /\ Len(f) = n
<1>1. f \in Seq(S)
  BY SeqDef
<1> QED
  BY <1>1, LenProperties

EventAt(t, type) == [tokenId |-> t, eventType |-> type, timestamp |-> instant]

\* One event is recorded, or two.
LEMMA OneEvent ==
  ASSUME AccessTypeOK, NEW t \in 1 .. MaxTokens, NEW type \in {"issued", "revoked"},
         RecordEvents(t, <<type>>), NEW e, e = Len(accessEvents) + 1
  PROVE  /\ accessEvents' \in Seq(AccessEvent) /\ Len(accessEvents') = e
         /\ DOMAIN accessEvents' = DOMAIN accessEvents \cup {e}
         /\ e \in Nat /\ \A k \in DOMAIN accessEvents : k < e
         /\ accessEvents'[e] = EventAt(t, type)
         /\ \A k \in DOMAIN accessEvents : accessEvents'[k] = accessEvents[k]
<1> DEFINE types == <<type>>
           new == [i \in DOMAIN types |->
                     [tokenId |-> t, eventType |-> types[i], timestamp |-> instant]]
<1>1. DOMAIN types = 1 .. 1 /\ types[1] = type
  OBVIOUS
<1>2. accessEvents' = accessEvents \o new
  BY DEF RecordEvents
<1>3. EventAt(t, type) \in AccessEvent
  BY TablesAt DEF EventAt, AccessEvent, Instants
<1>4. DOMAIN new = 1 .. 1 /\ new[1] = EventAt(t, type)
  BY <1>1 DEF EventAt
<1>5. new \in [1 .. 1 -> AccessEvent]
  BY <1>1, <1>3 DEF EventAt
<1> HIDE DEF new, types
<1>6. new \in Seq(AccessEvent) /\ Len(new) = 1
  BY <1>5, Tabulated
<1>7. PICK p : p = Len(accessEvents)
  OBVIOUS
<1>8. /\ accessEvents' \in Seq(AccessEvent) /\ Len(accessEvents') = p + 1
      /\ \A i \in 1 .. p + 1 :
           accessEvents'[i] = IF i <= p THEN accessEvents[i] ELSE new[i - p]
  <2>1. /\ accessEvents \o new \in Seq(AccessEvent) /\ Len(accessEvents \o new) = p + 1
        /\ \A i \in 1 .. p + 1 :
             (accessEvents \o new)[i] = IF i <= p THEN accessEvents[i] ELSE new[i - p]
    <3>1. PICK old, more : old = accessEvents /\ more = new
      OBVIOUS
    <3>2. /\ old \in Seq(AccessEvent) /\ more \in Seq(AccessEvent)
          /\ Len(old) = p /\ Len(more) = 1
      BY <1>6, <1>7, <3>1, TablesAt
    <3>3. PICK q : q = 1
      OBVIOUS
    <3>4. old \in Seq(AccessEvent)
      BY <3>2
    <3>5. more \in Seq(AccessEvent)
      BY <3>2
    <3>6. Len(old) = p
      BY <3>2
    <3>7. Len(more) = q
      BY <3>2, <3>3
    <3>8. /\ old \o more \in Seq(AccessEvent) /\ Len(old \o more) = p + q
          /\ \A i \in 1 .. p + q : (old \o more)[i] = IF i <= p THEN old[i] ELSE more[i - p]
      BY <3>4, <3>5, <3>6, <3>7, Concatenation
    <3> QED
      BY <3>1, <3>3, <3>8
  <2> QED
    BY <1>2, <2>1
<1>9. p \in Nat /\ e = p + 1 /\ e - p = 1 /\ DOMAIN accessEvents = 1 .. p
  BY <1>7, TablesAt
<1>10. DOMAIN accessEvents' = 1 .. p + 1
  BY <1>8, LenProperties
<1>11. DOMAIN accessEvents' = DOMAIN accessEvents \cup {e} /\ accessEvents'[e] = new[1]
  BY <1>8, <1>9, <1>10
<1>12. \A k \in DOMAIN accessEvents : k < e /\ accessEvents'[k] = accessEvents[k]
  BY <1>8, <1>9
<1> QED
  BY <1>4, <1>8, <1>9, <1>11, <1>12

LEMMA TwoEvents ==
  ASSUME AccessTypeOK, NEW t \in 1 .. MaxTokens,
         RecordEvents(t, <<"accessed", "submitted">>), NEW e, e = Len(accessEvents) + 1
  PROVE  /\ accessEvents' \in Seq(AccessEvent) /\ Len(accessEvents') = e + 1
         /\ DOMAIN accessEvents' = DOMAIN accessEvents \cup {e, e + 1}
         /\ e \in Nat /\ \A k \in DOMAIN accessEvents : k < e
         /\ accessEvents'[e] = EventAt(t, "accessed")
         /\ accessEvents'[e + 1] = EventAt(t, "submitted")
         /\ \A k \in DOMAIN accessEvents : accessEvents'[k] = accessEvents[k]
<1> DEFINE types == <<"accessed", "submitted">>
           new == [i \in DOMAIN types |->
                     [tokenId |-> t, eventType |-> types[i], timestamp |-> instant]]
<1>1. DOMAIN types = 1 .. 2 /\ types[1] = "accessed" /\ types[2] = "submitted"
  OBVIOUS
<1>2. accessEvents' = accessEvents \o new
  BY DEF RecordEvents
<1>3. EventAt(t, "accessed") \in AccessEvent /\ EventAt(t, "submitted") \in AccessEvent
  BY TablesAt DEF EventAt, AccessEvent, Instants
<1>4. DOMAIN new = 1 .. 2 /\ new[1] = EventAt(t, "accessed") /\ new[2] = EventAt(t, "submitted")
  BY <1>1 DEF EventAt
<1> HIDE DEF types
<1>5. new \in [1 .. 2 -> AccessEvent]
  <2>1. new = [i \in 1 .. 2 |-> new[i]]
    BY <1>1
  <2>2. \A i \in 1 .. 2 : new[i] \in AccessEvent
    <3> HIDE DEF new
    <3>1. \A i \in 1 .. 2 : i = 1 \/ i = 2
      OBVIOUS
    <3> QED
      BY <1>3, <1>4, <3>1
  <2> HIDE DEF new
  <2> QED
    BY <2>1, <2>2
<1> HIDE DEF new
<1>6. new \in Seq(AccessEvent) /\ Len(new) = 2
  BY <1>5, Tabulated
<1>7. PICK p : p = Len(accessEvents)
  OBVIOUS
<1>8. /\ accessEvents' \in Seq(AccessEvent) /\ Len(accessEvents') = p + 2
      /\ \A i \in 1 .. p + 2 :
           accessEvents'[i] = IF i <= p THEN accessEvents[i] ELSE new[i - p]
  <2>1. /\ accessEvents \o new \in Seq(AccessEvent) /\ Len(accessEvents \o new) = p + 2
        /\ \A i \in 1 .. p + 2 :
             (accessEvents \o new)[i] = IF i <= p THEN accessEvents[i] ELSE new[i - p]
    <3>1. PICK old, more : old = accessEvents /\ more = new
      OBVIOUS
    <3>2. /\ old \in Seq(AccessEvent) /\ more \in Seq(AccessEvent)
          /\ Len(old) = p /\ Len(more) = 2
      BY <1>6, <1>7, <3>1, TablesAt
    <3>3. PICK q : q = 2
      OBVIOUS
    <3>4. old \in Seq(AccessEvent)
      BY <3>2
    <3>5. more \in Seq(AccessEvent)
      BY <3>2
    <3>6. Len(old) = p
      BY <3>2
    <3>7. Len(more) = q
      BY <3>2, <3>3
    <3>8. /\ old \o more \in Seq(AccessEvent) /\ Len(old \o more) = p + q
          /\ \A i \in 1 .. p + q : (old \o more)[i] = IF i <= p THEN old[i] ELSE more[i - p]
      BY <3>4, <3>5, <3>6, <3>7, Concatenation
    <3> QED
      BY <3>1, <3>3, <3>8
  <2> QED
    BY <1>2, <2>1
<1>9. p \in Nat /\ e = p + 1 /\ (e + 1) - p = 2 /\ e - p = 1 /\ DOMAIN accessEvents = 1 .. p
  BY <1>7, TablesAt
<1>10. DOMAIN accessEvents' = 1 .. p + 2
  BY <1>8, LenProperties
<1>11. DOMAIN accessEvents' = DOMAIN accessEvents \cup {e, e + 1}
  BY <1>9, <1>10
<1>12. accessEvents'[e] = new[1] /\ accessEvents'[e + 1] = new[2]
  BY <1>8, <1>9
<1>13. \A k \in DOMAIN accessEvents : k < e /\ accessEvents'[k] = accessEvents[k]
  BY <1>8, <1>9
<1> QED
  BY <1>4, <1>8, <1>9, <1>11, <1>12, <1>13
\* What the steps of a log that only grows leave as it was: its new entries,
\* all of token t, come after the old ones, and t was not revoked.
LogGrows(t, added) ==
  /\ DOMAIN accessEvents' = DOMAIN accessEvents \cup added
  /\ \A k \in DOMAIN accessEvents, m \in added : m \in Nat /\ k < m
  /\ \A m \in added : accessEvents'[m].tokenId = t
  /\ \A k \in DOMAIN accessEvents : accessEvents'[k] = accessEvents[k]
  /\ t \in DOMAIN tokens => tokens[t].revokedAt = Never

TablesKept ==
  /\ \A u \in DOMAIN tokens :
       /\ u \in DOMAIN tokens'
       /\ tokens[u].revokedAt # Never => tokens'[u].revokedAt = tokens[u].revokedAt
  /\ \A i \in DOMAIN responses :
       /\ i \in DOMAIN responses'
       /\ responses'[i].tokenId = responses[i].tokenId
       /\ responses'[i].submittedAt = responses[i].submittedAt

LEMMA Counted ==
  ASSUME AccessTypeOK, EventsTellTheLife
  PROVE  \A k \in DOMAIN accessEvents :
           /\ IsFiniteSet(SubmittedUpTo(k))
           /\ Cardinality(SubmittedUpTo(k)) \in 0 .. Len(responses)
           /\ accessEvents[k].eventType = "submitted" =>
                Cardinality(SubmittedUpTo(k)) \in DOMAIN responses
<1>1. DOMAIN accessEvents = 1 .. Len(accessEvents) /\ Len(accessEvents) \in Nat
  BY TablesAt
<1>2. IsFiniteSet(DOMAIN accessEvents)
  BY <1>1, FS_Interval
<1>3. IsFiniteSet(SubmittedUpTo(Len(accessEvents)))
  BY <1>2, FS_Subset DEF SubmittedUpTo
<1>4. Cardinality(SubmittedUpTo(Len(accessEvents))) = Len(responses)
  BY DEF EventsTellTheLife
<1> SUFFICES ASSUME NEW k \in DOMAIN accessEvents
             PROVE  /\ IsFiniteSet(SubmittedUpTo(k))
                    /\ Cardinality(SubmittedUpTo(k)) \in 0 .. Len(responses)
                    /\ accessEvents[k].eventType = "submitted" =>
                         Cardinality(SubmittedUpTo(k)) \in DOMAIN responses
  OBVIOUS
<1>5. SubmittedUpTo(k) \subseteq SubmittedUpTo(Len(accessEvents))
  BY <1>1 DEF SubmittedUpTo
<1>6. IsFiniteSet(SubmittedUpTo(k)) /\ Cardinality(SubmittedUpTo(k)) <= Len(responses)
  BY <1>3, <1>4, <1>5, FS_Subset
<1>7. Cardinality(SubmittedUpTo(k)) \in Nat
  BY <1>6, FS_CardinalityType
<1>8. ASSUME accessEvents[k].eventType = "submitted" PROVE Cardinality(SubmittedUpTo(k)) # 0
  <2>1. k \in SubmittedUpTo(k)
    BY <1>1, <1>8 DEF SubmittedUpTo
  <2> QED
    BY <1>6, <2>1, FS_EmptySet
<1> QED
  BY <1>6, <1>7, <1>8, TablesAt

LEMMA OldCounts ==
  ASSUME AccessTypeOK, NEW t, NEW added, LogGrows(t, added)
  PROVE  \A k \in DOMAIN accessEvents : SubmittedUpTo(k)' = SubmittedUpTo(k)
<1> SUFFICES ASSUME NEW k \in DOMAIN accessEvents PROVE SubmittedUpTo(k)' = SubmittedUpTo(k)
  OBVIOUS
<1>1. \A m \in added : ~(m <= k)
  BY TablesAt DEF LogGrows
<1> QED
  BY <1>1 DEF LogGrows, SubmittedUpTo

LEMMA OldEvents ==
  ASSUME AccessIInv, NEW t, NEW added, LogGrows(t, added), TablesKept
  PROVE  \A k \in DOMAIN accessEvents : AccessEventTrue(k)'
<1> USE DEF AccessIInv
<1> SUFFICES ASSUME NEW k \in DOMAIN accessEvents PROVE AccessEventTrue(k)'
  OBVIOUS
<1>0. PICK u : u = accessEvents[k].tokenId
  OBVIOUS
<1>1. /\ AccessEventTrue(k) /\ SubmittedUpTo(k)' = SubmittedUpTo(k)
      /\ accessEvents[k] \in AccessEvent /\ accessEvents[k].tokenId \in DOMAIN tokens
      /\ accessEvents[k].timestamp # Never
  BY OldCounts, RowsAt DEF EventsTellTheLife, EventsKnown
<1>2. /\ k \in DOMAIN accessEvents' /\ accessEvents'[k] = accessEvents[k]
      /\ \A j \in DOMAIN accessEvents : j \in DOMAIN accessEvents' /\ accessEvents'[j] = accessEvents[j]
  BY DEF LogGrows
<1>3. \A j \in EventsOf(u)' : j \in EventsOf(u) \/ (j \in added /\ u = t)
  BY DEF LogGrows, EventsOf
<1>4. accessEvents[k].eventType = "submitted" =>
        Cardinality(SubmittedUpTo(k)) \in DOMAIN responses
  BY Counted
<1>5. \A j \in added : k < j /\ k <= j
  BY TablesAt DEF LogGrows
<1>7. ASSUME accessEvents[k].eventType = "issued"
      PROVE  \A j \in EventsOf(u)' : k <= j
  BY <1>0, <1>1, <1>3, <1>5, <1>7 DEF AccessEventTrue
<1>8. ASSUME accessEvents[k].eventType = "accessed"
      PROVE  /\ k + 1 \in DOMAIN accessEvents'
             /\ accessEvents'[k + 1] \in
                  {[accessEvents[k] EXCEPT !.eventType = type] : type \in {"submitted", "denied"}}
  BY <1>0, <1>1, <1>2, <1>8 DEF AccessEventTrue
<1>9. ASSUME accessEvents[k].eventType = "submitted"
      PROVE  /\ k - 1 \in DOMAIN accessEvents'
             /\ accessEvents'[k - 1] = [accessEvents[k] EXCEPT !.eventType = "accessed"]
             /\ responses'[Cardinality(SubmittedUpTo(k)')].tokenId = accessEvents[k].tokenId
             /\ responses'[Cardinality(SubmittedUpTo(k)')].submittedAt = accessEvents[k].timestamp
  <2>1. Cardinality(SubmittedUpTo(k)') = Cardinality(SubmittedUpTo(k))
    BY <1>1
  <2> QED
    BY <1>0, <1>1, <1>2, <1>4, <1>9, <2>1 DEF AccessEventTrue, TablesKept
<1>10. ASSUME accessEvents[k].eventType = "revoked"
      PROVE  /\ tokens'[u].revokedAt = accessEvents[k].timestamp
             /\ \A j \in EventsOf(u)' : j > k => accessEvents'[j].eventType = "denied"
  <2>1. /\ tokens[u].revokedAt = accessEvents[k].timestamp
        /\ \A j \in EventsOf(u) : j > k => accessEvents[j].eventType = "denied"
    BY <1>0, <1>1, <1>10 DEF AccessEventTrue
  <2>2. u # t
    BY <1>0, <1>1, <2>1 DEF LogGrows
  <2>3. \A j \in EventsOf(u)' : j \in EventsOf(u) /\ accessEvents'[j] = accessEvents[j]
    BY <1>2, <1>3, <2>2 DEF EventsOf
  <2> QED
    BY <1>0, <1>1, <2>1, <2>3 DEF TablesKept
<1> QED
  BY <1>0, <1>2, <1>7, <1>8, <1>9, <1>10 DEF AccessEventTrue

LEMMA OtherTokens ==
  ASSUME AccessTypeOK, NEW t, NEW added, LogGrows(t, added), TablesKept,
         NEW u \in DOMAIN tokens, tokens'[u] = tokens[u], TokenTrue(u),
         ResponsesOf(u)' = ResponsesOf(u)
  PROVE  TokenTrue(u)'
<1>1. \A k \in EventsOf(u) : k \in EventsOf(u)' /\ accessEvents'[k] = accessEvents[k]
  BY DEF LogGrows, EventsOf
<1>2. \A i \in ResponsesOf(u) : responses'[i].submittedAt = responses[i].submittedAt
  BY DEF ResponsesOf, TablesKept
<1> QED
  BY <1>1, <1>2 DEF TokenTrue

\* One event of a token that was not revoked, and the responses as they were.
LEMMA OneMore ==
  ASSUME AccessIInv, NEW t \in 1 .. MaxTokens, NEW type \in {"issued", "revoked"},
         RecordEvents(t, <<type>>), t \in DOMAIN tokens => tokens[t].revokedAt = Never,
         TablesKept, responses' = responses, NEW e, e = Len(accessEvents) + 1
  PROVE  /\ LogGrows(t, {e})
         /\ accessEvents' \in Seq(AccessEvent)
         /\ accessEvents'[e] = EventAt(t, type)
         /\ (Cardinality(SubmittedUpTo(Len(accessEvents))) = Len(responses))'
         /\ \A k \in DOMAIN accessEvents : AccessEventTrue(k)'
<1> USE DEF AccessIInv
<1>1. /\ accessEvents' \in Seq(AccessEvent) /\ Len(accessEvents') = e
      /\ DOMAIN accessEvents' = DOMAIN accessEvents \cup {e}
      /\ e \in Nat /\ \A k \in DOMAIN accessEvents : k < e
      /\ accessEvents'[e] = EventAt(t, type)
      /\ \A k \in DOMAIN accessEvents : accessEvents'[k] = accessEvents[k]
  BY OneEvent
<1>2. LogGrows(t, {e})
  BY <1>1 DEF LogGrows, EventAt
<1>3. SubmittedUpTo(Len(accessEvents))' = SubmittedUpTo(Len(accessEvents))
  <2>1. /\ \A j \in DOMAIN accessEvents : j <= Len(accessEvents) /\ j <= e
        /\ accessEvents'[e].eventType # "submitted"
    BY <1>1, TablesAt DEF EventAt
  <2> QED
    BY <1>1, <2>1 DEF SubmittedUpTo
<1>4. \A k \in DOMAIN accessEvents : AccessEventTrue(k)'
  BY <1>2, OldEvents
<1>5. (Cardinality(SubmittedUpTo(Len(accessEvents))) = Len(responses))'
  BY <1>3 DEF EventsTellTheLife
<1> QED
  BY <1>1, <1>2, <1>4, <1>5

LEMMA IssueStep ==
  ASSUME AccessIInv, NEW room \in DealRooms, NEW offer \in SellerOffers \cup {NoOffer},
         NEW allowed \in SUBSET AccessActions, NEW expires \in Instants,
         IssueToken(room, offer, allowed, expires)
  PROVE  AccessIInv'
<1> USE DEF AccessIInv
<1> DEFINE token == [dealRoomId |-> room, offerId |-> offer, allowedActions |-> allowed,
                     expiresAt |-> expires, revokedAt |-> Never, lastUsedAt |-> Never]
<1>0. PICK t, e : t = Len(tokens) + 1 /\ e = Len(accessEvents) + 1
  OBVIOUS
<1>1. token \in Token /\ token.revokedAt = Never /\ token.lastUsedAt = Never
  BY DEF Token
<1>2. /\ tokens' = Append(tokens, token) /\ Len(tokens) < MaxTokens
      /\ RecordEvents(t, <<"issued">>) /\ responses' = responses /\ instant' = instant
  BY <1>0 DEF IssueToken
<1> HIDE DEF token
<1>3. /\ tokens' \in Seq(Token) /\ Len(tokens') = t /\ t <= MaxTokens /\ t \in 1 .. MaxTokens
      /\ DOMAIN tokens' = DOMAIN tokens \cup {t} /\ t \notin DOMAIN tokens
      /\ tokens'[t] = token /\ \A u \in DOMAIN tokens : tokens'[u] = tokens[u]
  BY <1>0, <1>1, <1>2, TablesAt, AppendProperties
<1>4. TablesKept
  BY <1>2, <1>3 DEF TablesKept
<1>5. /\ LogGrows(t, {e})
      /\ accessEvents' \in Seq(AccessEvent)
      /\ accessEvents'[e] = EventAt(t, "issued")
      /\ (Cardinality(SubmittedUpTo(Len(accessEvents))) = Len(responses))'
      /\ \A k \in DOMAIN accessEvents : AccessEventTrue(k)'
  BY <1>0, <1>2, <1>3, <1>4, OneMore
<1>6. AccessTypeOK'
  BY <1>2, <1>3, <1>5 DEF AccessTypeOK
<1>7. EventsKnown'
  BY <1>3, <1>5 DEF EventsKnown, LogGrows
<1>8. ResponsesPast'
  BY <1>2, <1>3 DEF ResponsesPast
<1>9. RepeatsSpaced'
  BY <1>2 DEF RepeatsSpaced
<1>10. GivenInScope'
  BY <1>2, <1>3 DEF GivenInScope, ResponsesPast
<1>11. AccessEventTrue(e)'
  <2>1. \A j \in EventsOf(t)' : j = e
    BY <1>3, <1>5 DEF EventsOf, EventsKnown, LogGrows
  <2>2. e <= e
    BY <1>0, TablesAt
  <2> QED
    BY <1>5, <2>1, <2>2 DEF AccessEventTrue, EventAt
<1>12. TokenTrue(t)'
  <2>1. e \in EventsOf(t)' /\ accessEvents'[e].eventType = "issued"
    BY <1>5 DEF LogGrows, EventsOf, EventAt
  <2>2. ResponsesOf(t)' = {}
    BY <1>2, <1>3 DEF ResponsesOf, ResponsesPast
  <2> QED
    BY <1>1, <1>3, <2>1, <2>2 DEF TokenTrue
<1>13. \A u \in DOMAIN tokens : TokenTrue(u)'
  <2> SUFFICES ASSUME NEW u \in DOMAIN tokens PROVE TokenTrue(u)'
    OBVIOUS
  <2>1. ResponsesOf(u)' = ResponsesOf(u) /\ TokenTrue(u) /\ tokens'[u] = tokens[u]
    BY <1>2, <1>3 DEF ResponsesOf, EventsTellTheLife
  <2> QED
    BY <1>4, <1>5, <2>1, OtherTokens
<1>14. EventsTellTheLife'
  BY <1>3, <1>5, <1>11, <1>12, <1>13 DEF EventsTellTheLife, LogGrows
<1> QED
  BY <1>6, <1>7, <1>8, <1>9, <1>10, <1>14

LEMMA RevokeStep ==
  ASSUME AccessIInv, NEW t \in DOMAIN tokens, RevokeToken(t)
  PROVE  AccessIInv'
<1> USE DEF AccessIInv
<1>0. PICK e : e = Len(accessEvents) + 1
  OBVIOUS
<1>1. /\ tokens[t] \in Token /\ t \in 1 .. MaxTokens /\ instant \in Instants /\ instant # Never
  BY RowsAt, TablesAt DEF AccessTypeOK
<1>2. PICK token : token = [tokens[t] EXCEPT !.revokedAt = instant]
  OBVIOUS
<1>3. /\ token \in Token /\ token.revokedAt = instant /\ token.dealRoomId = tokens[t].dealRoomId
      /\ token.offerId = tokens[t].offerId /\ token.expiresAt = tokens[t].expiresAt
      /\ token.lastUsedAt = tokens[t].lastUsedAt
  BY <1>1, <1>2 DEF Token
<1>4. /\ tokens' = [tokens EXCEPT ![t] = token] /\ tokens[t].revokedAt = Never
      /\ RecordEvents(t, <<"revoked">>) /\ responses' = responses /\ instant' = instant
  BY <1>2 DEF RevokeToken
<1>5. /\ tokens' \in Seq(Token) /\ Len(tokens') = Len(tokens)
      /\ DOMAIN tokens' = DOMAIN tokens
      /\ tokens'[t] = token /\ \A u \in DOMAIN tokens : u # t => tokens'[u] = tokens[u]
  BY <1>3, <1>4, TablesAt, ExceptSeq
<1>6. TablesKept
  BY <1>4, <1>5 DEF TablesKept
<1>7. /\ LogGrows(t, {e})
      /\ accessEvents' \in Seq(AccessEvent)
      /\ accessEvents'[e] = EventAt(t, "revoked")
      /\ (Cardinality(SubmittedUpTo(Len(accessEvents))) = Len(responses))'
      /\ \A k \in DOMAIN accessEvents : AccessEventTrue(k)'
  BY <1>0, <1>1, <1>4, <1>6, OneMore
<1>8. AccessTypeOK'
  BY <1>4, <1>5, <1>7 DEF AccessTypeOK
<1>9. EventsKnown'
  BY <1>5, <1>7 DEF EventsKnown, LogGrows
<1>10. ResponsesPast'
  BY <1>4, <1>5 DEF ResponsesPast
<1>11. RepeatsSpaced'
  BY <1>4 DEF RepeatsSpaced
<1>12. GivenInScope'
  BY <1>1, <1>3, <1>4, <1>5 DEF GivenInScope, ResponsesPast
<1>13. AccessEventTrue(e)'
  <2>1. \A j \in EventsOf(t)' : j <= e
    <3>1. \A j \in DOMAIN accessEvents : j < e /\ j \in Nat /\ e \in Nat
      BY <1>7, TablesAt DEF LogGrows
    <3> QED
      BY <1>0, <1>7, <3>1, TablesAt DEF EventsOf, LogGrows
  <2>2. \A j \in EventsOf(t)' : ~(j > e)
    <3>1. \A j \in DOMAIN accessEvents' : j \in Nat /\ e \in Nat
      BY <1>0, <1>7, TablesAt DEF LogGrows
    <3> QED
      BY <2>1, <3>1 DEF EventsOf
  <2> QED
    BY <1>3, <1>5, <1>7, <2>2 DEF AccessEventTrue, EventAt
<1>14. TokenTrue(t)'
  <2>1. e \in EventsOf(t)' /\ accessEvents'[e].eventType = "revoked"
    BY <1>7 DEF LogGrows, EventsOf, EventAt
  <2>2. \A k \in EventsOf(t) : k \in EventsOf(t)' /\ accessEvents'[k] = accessEvents[k]
    BY <1>7 DEF LogGrows, EventsOf
  <2>3. ResponsesOf(t)' = ResponsesOf(t) /\ TokenTrue(t)
    BY <1>4 DEF ResponsesOf, EventsTellTheLife
  <2> QED
    BY <1>3, <1>4, <1>5, <2>1, <2>2, <2>3 DEF TokenTrue
<1>15. \A u \in DOMAIN tokens : u # t => TokenTrue(u)'
  <2> SUFFICES ASSUME NEW u \in DOMAIN tokens, u # t PROVE TokenTrue(u)'
    OBVIOUS
  <2>1. ResponsesOf(u)' = ResponsesOf(u) /\ TokenTrue(u) /\ tokens'[u] = tokens[u]
    BY <1>4, <1>5 DEF ResponsesOf, EventsTellTheLife
  <2> QED
    BY <1>6, <1>7, <2>1, OtherTokens
<1>16. EventsTellTheLife'
  BY <1>5, <1>7, <1>13, <1>14, <1>15 DEF EventsTellTheLife, LogGrows
<1> QED
  BY <1>8, <1>9, <1>10, <1>11, <1>12, <1>16

LEMMA SubmitStep ==
  ASSUME AccessIInv, NEW t \in DOMAIN tokens, NEW room \in DealRooms,
         NEW offer \in SellerOffers \cup {NoOffer}, NEW type \in ResponseTypes,
         SubmitResponse(t, room, offer, type)
  PROVE  AccessIInv'
<1> USE DEF AccessIInv
<1>0. PICK e, r : e = Len(accessEvents) + 1 /\ r = Len(responses) + 1
  OBVIOUS
<1>1. /\ tokens[t] \in Token /\ t \in 1 .. MaxTokens /\ instant \in Instants /\ instant # Never
      /\ instant \in Nat /\ DedupeWindow \in Nat /\ e \in Nat /\ r \in Nat
  BY <1>0, RowsAt, TablesAt DEF AccessTypeOK
<1>2. PICK token, row :
        /\ token = [tokens[t] EXCEPT !.lastUsedAt = instant]
        /\ row = [tokenId |-> t, dealRoomId |-> room, offerId |-> offer,
                  responseType |-> type, submittedAt |-> instant,
                  reviewStatus |-> "unreviewed"]
  OBVIOUS
<1>3. /\ token \in Token /\ token.revokedAt = tokens[t].revokedAt
      /\ token.dealRoomId = tokens[t].dealRoomId
      /\ token.offerId = tokens[t].offerId /\ token.expiresAt = tokens[t].expiresAt
      /\ token.lastUsedAt = instant
  BY <1>1, <1>2 DEF Token
<1>4. /\ row \in Response /\ row.tokenId = t /\ row.submittedAt = instant
      /\ row.dealRoomId = room /\ row.offerId = offer /\ row.responseType = type
  BY <1>1, <1>2 DEF Response
<1>5. /\ tokens' = [tokens EXCEPT ![t] = token] /\ tokens[t].revokedAt = Never
      /\ responses' = Append(responses, row) /\ Len(responses) < MaxResponses
      /\ RecordEvents(t, <<"accessed", "submitted">>) /\ instant' = instant
      /\ InScope(tokens[t], room, offer) /\ instant < tokens[t].expiresAt
      /\ ~Duplicate(t, type) /\ (offer # NoOffer => RoomOfOffer[offer] = room)
  BY <1>2 DEF SubmitResponse, AuthorizeListingResponseSubmission, Granted
<1>6. /\ tokens' \in Seq(Token) /\ Len(tokens') = Len(tokens)
      /\ DOMAIN tokens' = DOMAIN tokens
      /\ tokens'[t] = token /\ \A u \in DOMAIN tokens : u # t => tokens'[u] = tokens[u]
  BY <1>3, <1>5, TablesAt, ExceptSeq
<1>7. /\ responses' \in Seq(Response) /\ Len(responses') = r /\ r <= MaxResponses
      /\ DOMAIN responses' = DOMAIN responses \cup {r} /\ r \notin DOMAIN responses
      /\ responses'[r] = row /\ \A i \in DOMAIN responses : responses'[i] = responses[i] /\ i < r
      /\ \A i \in DOMAIN responses : i \in Nat
  BY <1>0, <1>4, <1>5, TablesAt, AppendProperties, SMTT(30)
<1>8. TablesKept
  BY <1>3, <1>6, <1>7 DEF TablesKept
<1>9. /\ accessEvents' \in Seq(AccessEvent) /\ Len(accessEvents') = e + 1
      /\ DOMAIN accessEvents' = DOMAIN accessEvents \cup {e, e + 1}
      /\ \A k \in DOMAIN accessEvents : k < e
      /\ accessEvents'[e] = EventAt(t, "accessed")
      /\ accessEvents'[e + 1] = EventAt(t, "submitted")
      /\ \A k \in DOMAIN accessEvents : accessEvents'[k] = accessEvents[k]
  BY <1>0, <1>1, <1>5, TwoEvents
<1>10. \A k \in DOMAIN accessEvents : k \in Nat
  BY TablesAt
<1>11. LogGrows(t, {e, e + 1})
  BY <1>1, <1>5, <1>9, <1>10 DEF LogGrows, EventAt
<1>12. AccessTypeOK'
  BY <1>5, <1>6, <1>7, <1>9 DEF AccessTypeOK
<1>13. EventsKnown'
  BY <1>6, <1>9 DEF EventsKnown, EventAt
<1>14. ResponsesPast'
  BY <1>1, <1>4, <1>5, <1>6, <1>7 DEF ResponsesPast
<1>15. RepeatsSpaced'
  <2> SUFFICES ASSUME NEW i \in DOMAIN responses', NEW k \in DOMAIN responses', i < k,
                      responses'[i].tokenId = responses'[k].tokenId,
                      responses'[i].responseType = responses'[k].responseType
               PROVE  responses'[k].submittedAt >= responses'[i].submittedAt + DedupeWindow
    BY DEF RepeatsSpaced
  <2>1. i \in DOMAIN responses
    BY <1>1, <1>7
  <2>2. CASE k \in DOMAIN responses
    BY <1>7, <2>1, <2>2 DEF RepeatsSpaced
  <2>3. CASE k = r
    <3>1. ~(instant < responses[i].submittedAt + DedupeWindow)
      BY <1>4, <1>5, <1>7, <2>1, <2>3 DEF Duplicate
    <3>2. responses[i].submittedAt \in Nat
      BY <2>1, RowsAt
    <3> QED
      BY <1>1, <1>4, <1>7, <2>1, <2>3, <3>1, <3>2
  <2> QED
    BY <1>7, <2>2, <2>3
<1>16. GivenInScope'
  <2>1. /\ row.dealRoomId = token.dealRoomId
        /\ token.offerId \in {NoOffer, row.offerId}
    BY <1>3, <1>4, <1>5 DEF InScope
  <2>2. \A i \in DOMAIN responses : responses[i].tokenId \in DOMAIN tokens
    BY DEF ResponsesPast
  <2> QED
    BY <1>3, <1>4, <1>5, <1>6, <1>7, <2>1, <2>2 DEF GivenInScope
<1>17. \A k \in DOMAIN accessEvents : AccessEventTrue(k)'
  BY <1>8, <1>11, OldEvents
<1>18. AccessEventTrue(e)'
  <2>1. EventAt(t, "submitted") = [EventAt(t, "accessed") EXCEPT !.eventType = "submitted"]
    BY DEF EventAt
  <2> QED
    BY <1>9, <2>1 DEF AccessEventTrue, EventAt
<1>19. SubmittedUpTo(e + 1)' = SubmittedUpTo(Len(accessEvents)) \cup {e + 1}
  <2>1. \A j \in DOMAIN accessEvents : j <= Len(accessEvents) /\ j <= e + 1
    BY <1>0, TablesAt
  <2>2. accessEvents'[e].eventType # "submitted" /\ accessEvents'[e + 1].eventType = "submitted"
    BY <1>9 DEF EventAt
  <2>3. e + 1 <= e + 1
    BY <1>1
  <2> QED
    BY <1>9, <2>1, <2>2, <2>3 DEF SubmittedUpTo
<1>20. Cardinality(SubmittedUpTo(e + 1)') = r
  <2>1. /\ IsFiniteSet(SubmittedUpTo(Len(accessEvents)))
        /\ Cardinality(SubmittedUpTo(Len(accessEvents))) = Len(responses)
    <3>1. IsFiniteSet(DOMAIN accessEvents)
      BY TablesAt, FS_Interval
    <3> QED
      BY <3>1, FS_Subset DEF SubmittedUpTo, EventsTellTheLife
  <2>2. e + 1 \notin SubmittedUpTo(Len(accessEvents))
    <3>1. e + 1 \notin DOMAIN accessEvents
      BY <1>1, <1>9, <1>10
    <3> QED
      BY <3>1 DEF SubmittedUpTo
  <2>3. Cardinality(SubmittedUpTo(Len(accessEvents)) \cup {e + 1})
          = Cardinality(SubmittedUpTo(Len(accessEvents))) + 1
    BY <2>1, <2>2, FS_AddElement
  <2> QED
    BY <1>0, <1>19, <2>1, <2>3
<1>21. AccessEventTrue(e + 1)'
  <2>1. EventAt(t, "accessed") = [EventAt(t, "submitted") EXCEPT !.eventType = "accessed"]
    BY DEF EventAt
  <2>2. (e + 1) - 1 = e
    BY <1>1
  <2>3. responses'[r].tokenId = t /\ responses'[r].submittedAt = instant
    BY <1>4, <1>7
  <2> QED
    BY <1>9, <1>20, <2>1, <2>2, <2>3 DEF AccessEventTrue, EventAt
<1>22. (Cardinality(SubmittedUpTo(Len(accessEvents))) = Len(responses))'
  BY <1>7, <1>9, <1>20
<1>23. TokenTrue(t)'
  <2>1. \A k \in EventsOf(t) : k \in EventsOf(t)' /\ accessEvents'[k] = accessEvents[k]
    BY <1>9 DEF EventsOf
  <2>2. TokenTrue(t) /\ r \in ResponsesOf(t)'
    BY <1>4, <1>7 DEF ResponsesOf, EventsTellTheLife
  <2>3. \A i \in ResponsesOf(t)' : r <= i => i = r
    BY <1>1, <1>7 DEF ResponsesOf
  <2> QED
    BY <1>3, <1>4, <1>5, <1>6, <1>7, <2>1, <2>2, <2>3 DEF TokenTrue
<1>24. \A u \in DOMAIN tokens : u # t => TokenTrue(u)'
  <2> SUFFICES ASSUME NEW u \in DOMAIN tokens, u # t PROVE TokenTrue(u)'
    OBVIOUS
  <2>1. ResponsesOf(u)' = ResponsesOf(u)
    BY <1>4, <1>7 DEF ResponsesOf
  <2>2. TokenTrue(u) /\ tokens'[u] = tokens[u]
    BY <1>6 DEF EventsTellTheLife
  <2> QED
    BY <1>8, <1>11, <2>1, <2>2, OtherTokens
<1>25. EventsTellTheLife'
  BY <1>6, <1>9, <1>17, <1>18, <1>21, <1>22, <1>23, <1>24 DEF EventsTellTheLife
<1> QED
  BY <1>12, <1>13, <1>14, <1>15, <1>16, <1>25

LEMMA ReviewStep ==
  ASSUME AccessIInv, NEW i \in DOMAIN responses,
         NEW status \in {"acknowledged", "actioned", "dismissed"}, MarkReviewed(i, status)
  PROVE  AccessIInv'
<1> USE DEF AccessIInv
<1>1. PICK row : row = [responses[i] EXCEPT !.reviewStatus = status]
  OBVIOUS
<1>2. responses[i] \in Response
  BY RowsAt
<1>3. /\ row \in Response /\ row.tokenId = responses[i].tokenId
      /\ row.submittedAt = responses[i].submittedAt /\ row.dealRoomId = responses[i].dealRoomId
      /\ row.offerId = responses[i].offerId /\ row.responseType = responses[i].responseType
  BY <1>1, <1>2 DEF Response
<1>4. /\ responses' = [responses EXCEPT ![i] = row] /\ tokens' = tokens
      /\ accessEvents' = accessEvents /\ instant' = instant
  BY <1>1 DEF MarkReviewed
<1>5. /\ responses' \in Seq(Response) /\ Len(responses') = Len(responses)
      /\ DOMAIN responses' = DOMAIN responses
      /\ responses'[i] = row /\ \A k \in DOMAIN responses : k # i => responses'[k] = responses[k]
  BY <1>3, <1>4, TablesAt, ExceptSeq
<1>6. \A k \in DOMAIN responses :
         /\ responses'[k].tokenId = responses[k].tokenId
         /\ responses'[k].submittedAt = responses[k].submittedAt
         /\ responses'[k].dealRoomId = responses[k].dealRoomId
         /\ responses'[k].offerId = responses[k].offerId
         /\ responses'[k].responseType = responses[k].responseType
  BY <1>3, <1>5
<1>7. AccessTypeOK' /\ EventsKnown' /\ ResponsesPast'
  BY <1>4, <1>5, <1>6 DEF AccessTypeOK, EventsKnown, ResponsesPast
<1>8. RepeatsSpaced'
  BY <1>5, <1>6 DEF RepeatsSpaced
<1>9. GivenInScope'
  BY <1>4, <1>5, <1>6 DEF GivenInScope
<1>10. PICK t : t \notin DOMAIN tokens
  <2>1. Len(tokens) + 1 \notin DOMAIN tokens
    BY TablesAt
  <2> QED
    BY <2>1
<1>11. LogGrows(t, {}) /\ TablesKept
  BY <1>4, <1>5, <1>6, <1>10 DEF LogGrows, TablesKept
<1>12. \A k \in DOMAIN accessEvents : AccessEventTrue(k)'
  BY <1>11, OldEvents
<1>13. \A u \in DOMAIN tokens : TokenTrue(u)'
  <2> SUFFICES ASSUME NEW u \in DOMAIN tokens PROVE TokenTrue(u)'
    OBVIOUS
  <2>1. ResponsesOf(u)' = ResponsesOf(u) /\ TokenTrue(u) /\ tokens'[u] = tokens[u]
    BY <1>4, <1>5, <1>6 DEF ResponsesOf, EventsTellTheLife
  <2> QED
    BY <1>11, <2>1, OtherTokens
<1>14. (Cardinality(SubmittedUpTo(Len(accessEvents))) = Len(responses))'
  BY <1>4, <1>5 DEF EventsTellTheLife, SubmittedUpTo
<1>15. EventsTellTheLife'
  BY <1>4, <1>12, <1>13, <1>14 DEF EventsTellTheLife
<1> QED
  BY <1>7, <1>8, <1>9, <1>15

LEMMA QuietStep ==
  ASSUME AccessIInv, AccessTick \/ UNCHANGED accessVars
  PROVE  AccessIInv'
<1> USE DEF AccessIInv
<1>1. tokens' = tokens /\ accessEvents' = accessEvents /\ responses' = responses
  BY DEF AccessTick, accessVars
<1>2. instant' \in Instants /\ instant \in Nat /\ instant' \in Nat /\ instant <= instant'
  BY TablesAt DEF AccessTick, accessVars, Instants
<1>3. AccessTypeOK'
  BY <1>1, <1>2 DEF AccessTypeOK
<1>4. EventsKnown' /\ RepeatsSpaced' /\ GivenInScope'
  BY <1>1 DEF EventsKnown, RepeatsSpaced, GivenInScope
<1>6. Len(tokens) + 1 \notin DOMAIN tokens
  BY TablesAt
<1>7. LogGrows(Len(tokens) + 1, {}) /\ TablesKept
  BY <1>1, <1>6 DEF LogGrows, TablesKept
<1>8. \A k \in DOMAIN accessEvents : AccessEventTrue(k)'
  <2>1. PICK t : t = Len(tokens) + 1
    OBVIOUS
  <2> QED
    BY <1>7, <2>1, OldEvents
<1>9. \A u \in DOMAIN tokens : TokenTrue(u)'
  BY <1>1 DEF EventsTellTheLife, TokenTrue, EventsOf, ResponsesOf
<1>10. (Cardinality(SubmittedUpTo(Len(accessEvents))) = Len(responses))'
  BY <1>1 DEF EventsTellTheLife, SubmittedUpTo
<1>11. EventsTellTheLife'
  BY <1>1, <1>8, <1>9, <1>10 DEF EventsTellTheLife
<1>5. ResponsesPast'
  BY <1>1, <1>2, RowsAt DEF ResponsesPast
<1> QED
  BY <1>3, <1>4, <1>5, <1>11

LEMMA AccessInductive == AccessSpec => []AccessIInv
<1>1. AccessInit => AccessIInv
  <2> SUFFICES ASSUME AccessInit PROVE AccessIInv
    OBVIOUS
  <2>1. /\ tokens = <<>> /\ accessEvents = <<>> /\ responses = <<>> /\ instant \in Instants
        /\ MaxTokens \in Nat /\ MaxResponses \in Nat
    BY ExternalAccessAssumption DEF AccessInit, Instants
  <2>2. /\ tokens \in Seq(Token) /\ Len(tokens) = 0 /\ accessEvents \in Seq(AccessEvent)
        /\ Len(accessEvents) = 0 /\ responses \in Seq(Response) /\ Len(responses) = 0
        /\ DOMAIN tokens = {} /\ DOMAIN accessEvents = {} /\ DOMAIN responses = {}
    BY <2>1, EmptySeq
  <2>3. Cardinality(SubmittedUpTo(Len(accessEvents))) = 0
    BY <2>2, FS_EmptySet DEF SubmittedUpTo
  <2> QED
    BY <2>1, <2>2, <2>3 DEF AccessIInv, AccessTypeOK, EventsKnown, ResponsesPast, RepeatsSpaced,
         GivenInScope, EventsTellTheLife
<1>2. AccessIInv /\ [AccessNext]_accessVars => AccessIInv'
  BY IssueStep, RevokeStep, SubmitStep, ReviewStep, QuietStep DEF AccessNext
<1> QED
  BY <1>1, <1>2, PTL DEF AccessSpec

LEMMA AccessIInvTells == AccessIInv => SubmissionsSound
BY DEF AccessIInv, SubmissionsSound

(***************************************************************************)
(* For every number of rooms, links, tokens and instants: the trail of     *)
(* each share link tells what was granted and refused, and the event log   *)
(* of each token what was granted and handed in, in scope, in time and not *)
(* twice, by shareLinkState.ts and listingResponses.ts.  Of refused        *)
(* attempts to hand in it says nothing: the log loses them (RefusedAccess).*)
(***************************************************************************)
THEOREM OutsidersAreSound == LinkSpec /\ AccessSpec => []OutsidersSound
<1>1. (LinkTrailTrue /\ SubmissionsSound) => OutsidersSound
  BY DEF OutsidersSound
<1> QED
  BY <1>1, LinksInductive, LinkIInvTells, AccessInductive, AccessIInvTells, PTL
-----------------------------------------------------------------------------
\* CLOSING TASKS.

\* What TasksSettleOnce says of one task and of the moments it settled at.
TaskSound(task, marks, now) ==
  /\ marks \in Seq(Nat) /\ Len(marks) <= 1
  /\ task.status \in {"completed", "canceled"} <=> marks # <<>>
  /\ task.completedAt = IF task.status = "completed" THEN marks[1] ELSE 0
  /\ task.blockedReason # NoReason => task.status = "blocked"
  /\ task.completedAt <= task.updatedAt
  /\ task.updatedAt < now

\* Every write is later than those before it.
TasksIInv ==
  /\ closeTasks \in Seq(CloseTask) /\ settled \in Seq(Seq(Nat)) /\ moment \in Nat
  /\ Len(settled) = Len(closeTasks)
  /\ \A t \in DOMAIN closeTasks : TaskSound(closeTasks[t], settled[t], moment)

LEMMA TaskAt ==
  ASSUME TasksIInv
  PROVE  /\ DOMAIN closeTasks = 1 .. Len(closeTasks) /\ Len(closeTasks) \in Nat
         /\ DOMAIN settled = 1 .. Len(closeTasks) /\ moment \in Nat
         /\ closeTasks \in Seq(CloseTask) /\ settled \in Seq(Seq(Nat))
         /\ Len(settled) = Len(closeTasks)
         /\ \A t \in DOMAIN closeTasks : /\ closeTasks[t] \in CloseTask /\ settled[t] \in Seq(Nat)
                                         /\ TaskSound(closeTasks[t], settled[t], moment)
BY DEF TasksIInv

LEMMA TaskWritten ==
  ASSUME TasksIInv, NEW t \in DOMAIN closeTasks, NEW task \in CloseTask, NEW marks \in Seq(Nat),
         closeTasks' = [closeTasks EXCEPT ![t] = task],
         settled' = [settled EXCEPT ![t] = marks],
         moment' = moment + 1, TaskSound(task, marks, moment + 1)
  PROVE  TasksIInv'
<1>1. /\ closeTasks' \in Seq(CloseTask) /\ Len(closeTasks') = Len(closeTasks)
      /\ settled' \in Seq(Seq(Nat)) /\ Len(settled') = Len(settled)
  BY TaskAt, ExceptSeq
<1>2. ASSUME NEW k \in DOMAIN closeTasks'
      PROVE  TaskSound(closeTasks'[k], settled'[k], moment')
  <2>1. k \in DOMAIN closeTasks /\ k \in DOMAIN settled
    BY <1>1, TaskAt
  <2>2. CASE k = t
    BY <2>1, <2>2
  <2>3. CASE k # t
    <3>1. TaskSound(closeTasks[k], settled[k], moment) /\ closeTasks[k] \in CloseTask
      BY <2>1, TaskAt
    <3>2. TaskSound(closeTasks[k], settled[k], moment + 1)
      BY <3>1, TaskAt DEF TaskSound, CloseTask
    <3> QED
      BY <2>1, <2>3, <3>2
  <2> QED
    BY <2>2, <2>3
<1> QED
  BY <1>1, <1>2, TaskAt DEF TasksIInv

LEMMA CreateTaskKeeps ==
  ASSUME TasksIInv, NEW visibility \in {"buyer_visible", "internal_only"}, NEW owner \in Owners,
         CreateTask(visibility, owner)
  PROVE  TasksIInv'
<1> DEFINE task == [status |-> "pending", visibility |-> visibility, ownerUserId |-> owner,
                    blockedReason |-> NoReason, updatedAt |-> moment, completedAt |-> 0]
           n == Len(closeTasks)
<1>0. n \in Nat /\ moment \in Nat
  BY TaskAt
<1>1. task \in CloseTask
  BY <1>0 DEF CloseTask, TaskStatus
<1>2. /\ closeTasks' = Append(closeTasks, task) /\ settled' = Append(settled, <<>>)
      /\ moment' = moment + 1
  BY DEF CreateTask, Stamp
<1>3. TaskSound(task, <<>>, moment + 1)
  BY <1>0 DEF TaskSound
<1> HIDE DEF task, n
<1>4. <<>> \in Seq(Nat)
  OBVIOUS
<1>5. /\ closeTasks' \in Seq(CloseTask) /\ Len(closeTasks') = n + 1
      /\ closeTasks'[n + 1] = task /\ \A k \in 1 .. n : closeTasks'[k] = closeTasks[k]
  BY <1>1, <1>2, TaskAt, AppendProperties DEF n
<1>6. /\ settled' \in Seq(Seq(Nat)) /\ Len(settled') = n + 1
      /\ settled'[n + 1] = <<>> /\ \A k \in 1 .. n : settled'[k] = settled[k]
  BY <1>2, <1>4, TaskAt, AppendProperties DEF n
<1>7. ASSUME NEW k \in 1 .. n
      PROVE  TaskSound(closeTasks[k], settled[k], moment + 1)
  <2>1. TaskSound(closeTasks[k], settled[k], moment) /\ closeTasks[k] \in CloseTask
    BY TaskAt DEF n
  <2> QED
    BY <1>0, <2>1 DEF TaskSound, CloseTask
<1>8. ASSUME NEW k \in 1 .. n + 1
      PROVE  TaskSound(closeTasks'[k], settled'[k], moment')
  <2>1. k \in 1 .. n \/ k = n + 1
    BY <1>0
  <2> QED
    BY <1>2, <1>3, <1>5, <1>6, <1>7, <2>1
<1> QED
  BY <1>0, <1>2, <1>5, <1>6, <1>8 DEF TasksIInv

LEMMA TransitionKeeps ==
  ASSUME TasksIInv, NEW t \in DOMAIN closeTasks, NEW to \in TaskStatus,
         NEW reason \in Reasons \cup {NoReason}, TransitionStatus(t, to, reason)
  PROVE  TasksIInv'
<1> DEFINE old == closeTasks[t]
           task == TransitionPatch(old, to, reason)
           marks == IF to \in {"completed", "canceled"} /\ to # old.status
                      THEN Append(settled[t], moment) ELSE settled[t]
<1>1. /\ old \in CloseTask /\ settled[t] \in Seq(Nat) /\ moment \in Nat
      /\ TaskSound(old, settled[t], moment)
  BY TaskAt
<1>2. /\ ValidateTransition(old.status, to) /\ moment' = moment + 1
      /\ closeTasks' = [closeTasks EXCEPT ![t] = task]
      /\ settled' = [settled EXCEPT ![t] = marks]
  BY DEF TransitionStatus, Stamp
<1>3. old.status \in {"completed", "canceled"} => to = old.status
  BY <1>1, <1>2 DEF ValidateTransition, ValidTransitions
<1>4. /\ task \in CloseTask /\ task.status = to /\ task.updatedAt = moment
      /\ task.completedAt = IF to = "completed" /\ old.status # "completed"
                              THEN moment ELSE old.completedAt
      /\ task.blockedReason = CASE to = "blocked" -> reason
                                [] to # "blocked" /\ old.status = "blocked" -> NoReason
                                [] OTHER -> old.blockedReason
  BY <1>1 DEF TransitionPatch, CloseTask
<1> HIDE DEF task, old
<1>5. CASE to = old.status
  <2>1. marks = settled[t]
    BY <1>5
  <2>2. TaskSound(task, marks, moment + 1)
    BY <1>1, <1>4, <1>5, <2>1 DEF TaskSound, CloseTask
  <2> HIDE DEF marks
  <2> QED
    BY <1>1, <1>2, <1>4, <2>1, <2>2, TaskWritten
<1>6. CASE to # old.status /\ to \in {"completed", "canceled"}
  <2>1. settled[t] = <<>> /\ marks = Append(<<>>, moment)
    BY <1>1, <1>3, <1>6 DEF TaskSound
  <2>2. marks \in Seq(Nat) /\ Len(marks) = 1 /\ marks[1] = moment /\ marks # <<>>
    BY <1>1, <2>1
  <2> HIDE DEF marks
  <2>3. old.status \notin {"completed", "canceled"} /\ old.completedAt = 0
    BY <1>1, <1>3, <1>6 DEF TaskSound
  <2>4. task.blockedReason = NoReason
    BY <1>1, <1>4, <1>6 DEF TaskSound
  <2>5. TaskSound(task, marks, moment + 1)
    BY <1>1, <1>4, <1>6, <2>2, <2>3, <2>4 DEF TaskSound
  <2> QED
    BY <1>2, <1>4, <2>2, <2>5, TaskWritten
<1>7. CASE to # old.status /\ to \notin {"completed", "canceled"}
  <2>1. marks = settled[t] /\ settled[t] = <<>>
    BY <1>1, <1>3, <1>7 DEF TaskSound
  <2>2. old.status \notin {"completed", "canceled"} /\ old.completedAt = 0
    BY <1>1, <1>3, <1>7 DEF TaskSound
  <2>3. task.blockedReason # NoReason => to = "blocked"
    BY <1>1, <1>4 DEF TaskSound
  <2>4. TaskSound(task, marks, moment + 1)
    BY <1>1, <1>4, <1>7, <2>1, <2>2, <2>3 DEF TaskSound
  <2> HIDE DEF marks
  <2> QED
    BY <1>1, <1>2, <1>4, <2>1, <2>4, TaskWritten
<1> QED
  BY <1>5, <1>6, <1>7

LEMMA UpdateTaskKeeps ==
  ASSUME TasksIInv, NEW t \in DOMAIN closeTasks, NEW owner \in Owners, UpdateTask(t, owner)
  PROVE  TasksIInv'
<1> DEFINE task == [closeTasks[t] EXCEPT !.ownerUserId = owner, !.updatedAt = moment]
<1>1. /\ closeTasks[t] \in CloseTask /\ settled[t] \in Seq(Nat) /\ moment \in Nat
      /\ TaskSound(closeTasks[t], settled[t], moment)
  BY TaskAt
<1>2. /\ task \in CloseTask /\ task.updatedAt = moment /\ task.status = closeTasks[t].status
      /\ task.completedAt = closeTasks[t].completedAt
      /\ task.blockedReason = closeTasks[t].blockedReason
  BY <1>1 DEF CloseTask
<1>3. /\ closeTasks' = [closeTasks EXCEPT ![t] = task] /\ moment' = moment + 1
      /\ settled' = [settled EXCEPT ![t] = settled[t]]
  <2>1. closeTasks' = [closeTasks EXCEPT ![t] = task]
    BY DEF UpdateTask
  <2>2. settled' = [settled EXCEPT ![t] = settled[t]]
    BY TaskAt DEF UpdateTask
  <2> QED
    BY <2>1, <2>2 DEF UpdateTask, Stamp
<1> HIDE DEF task
<1>4. TaskSound(task, settled[t], moment + 1)
  BY <1>1, <1>2 DEF TaskSound, CloseTask
<1> QED
  BY <1>1, <1>2, <1>3, <1>4, TaskWritten

LEMMA TasksInductive == TasksSpec => []TasksIInv
<1>1. TasksInit => TasksIInv
  BY DEF TasksInit, TasksIInv
<1>2. TasksIInv /\ [TasksNext]_taskVars => TasksIInv'
  <2> SUFFICES ASSUME TasksIInv, [TasksNext]_taskVars PROVE TasksIInv'
    OBVIOUS
  <2>1. CASE \E visibility \in {"buyer_visible", "internal_only"}, owner \in Owners :
               CreateTask(visibility, owner)
    BY <2>1, CreateTaskKeeps
  <2>2. CASE \E t \in DOMAIN closeTasks :
               \/ \E to \in TaskStatus, reason \in Reasons \cup {NoReason} :
                    TransitionStatus(t, to, reason)
               \/ \E owner \in Owners : UpdateTask(t, owner)
    BY <2>2, TransitionKeeps, UpdateTaskKeeps
  <2>3. CASE UNCHANGED taskVars
    BY <2>3 DEF taskVars, TasksIInv
  <2> QED
    BY <2>1, <2>2, <2>3 DEF TasksNext
<1> QED
  BY <1>1, <1>2, PTL DEF TasksSpec

\* Whatever is repeated or edited afterwards (transitionStatus and update of
\* closeTasks.ts), a task of the close phase settles once.
THEOREM TasksAreSettledOnce == TasksSpec => []TasksSettleOnce
<1>1. TasksIInv => TasksSettleOnce
  BY DEF TasksIInv, TasksSettleOnce, TaskSound
<1> QED
  BY <1>1, TasksInductive, PTL
-----------------------------------------------------------------------------
\* WHAT THE PHONE KEEPS.

StepsOf(kind) ==
  CASE kind = "warm" -> {"read", "drop", "found", "missing"}
    [] kind = "apply" -> {"write", "wrote", "read", "drop", "found", "missing", "undo"}
    [] kind = "clear" -> {"delete", "deleted"}

\* An operation works for a shell that was mounted, and only a shell that is
\* gone is cleared.
OpsSound ==
  \A i \in DOMAIN ops :
    /\ ops[i].shell \in DOMAIN shells
    /\ ops[i].step \in StepsOf(ops[i].kind)
    /\ ops[i].kind = "clear" => ~shells[ops[i].shell].mounted

\* A coordinator has its user as long as its shell is mounted, which is as long
\* as the session lasts.
ShellsSound ==
  \A s \in DOMAIN shells :
    /\ shells[s].current = shells[s].mounted
    /\ shells[s].mounted => shells[s].user = session
    /\ \A t \in DOMAIN shells : shells[s].mounted /\ shells[t].mounted => s = t

\* What a shell shows besides will still be replaced.
ScreensSettle ==
  \A s \in DOMAIN shells :
    /\ shells[s].mounted => shells[s].shown # "cleared"
    /\ shells[s].mounted /\ shells[s].shown = "warming" =>
         \E i \in DOMAIN ops : ops[i].shell = s /\ ops[i].kind = "warm"
    /\ ~shells[s].mounted /\ shells[s].shown \in {"warming", "data"} =>
         \E i \in DOMAIN ops : ops[i].shell = s /\ ops[i].kind = "clear"

\* A file that should not be there will be deleted by an operation under way.
WillDelete(op, u) == shells[op.shell].user = u /\ op.step \in {"wrote", "undo", "delete"}
FilesFollow ==
  \A u \in Left : u \in exposed \/ \E i \in DOMAIN ops : WillDelete(ops[i], u)

CacheIInv ==
  CacheTypeOK /\ OpsSound /\ ShellsSound /\ ScreensSettle /\ FilesFollow

LEMMA OpAt ==
  ASSUME CacheTypeOK
  PROVE  /\ ops \in Seq(Op) /\ shells \in Seq(Shell)
         /\ DOMAIN ops = 1 .. Len(ops) /\ Len(ops) \in Nat /\ Len(ops) <= MaxOps
         /\ DOMAIN shells = 1 .. Len(shells) /\ Len(shells) \in Nat /\ Len(shells) <= MaxShells
         /\ \A i \in DOMAIN ops : ops[i] \in Op
         /\ \A s \in DOMAIN shells : shells[s] \in Shell /\ shells[s].user \in Users
         /\ MaxOps \in Nat /\ MaxShells \in Nat
<1>1. ops \in Seq(Op) /\ shells \in Seq(Shell) /\ Len(ops) <= MaxOps /\ Len(shells) <= MaxShells
  BY DEF CacheTypeOK
<1>2. /\ DOMAIN ops = 1 .. Len(ops) /\ Len(ops) \in Nat
      /\ DOMAIN shells = 1 .. Len(shells) /\ Len(shells) \in Nat
  BY <1>1
<1>3. /\ \A i \in DOMAIN ops : ops[i] \in Op
      /\ \A s \in DOMAIN shells : shells[s] \in Shell
  BY <1>1
<1>4. \A s \in DOMAIN shells : shells[s].user \in Users
  BY <1>3 DEF Shell
<1> QED
  BY <1>1, <1>2, <1>3, <1>4, CacheAssumption

OpSteps == {"write", "wrote", "read", "drop", "found", "missing", "delete", "deleted", "undo"}

\* An operation takes a step, or returns, or begins.
LEMMA OpTakesStep ==
  ASSUME CacheTypeOK, NEW i \in DOMAIN ops, NEW step \in OpSteps, StepTo(i, step)
  PROVE  /\ ops' \in Seq(Op) /\ Len(ops') <= MaxOps /\ DOMAIN ops' = DOMAIN ops
         /\ ops'[i].shell = ops[i].shell /\ ops'[i].kind = ops[i].kind /\ ops'[i].step = step
         /\ \A k \in DOMAIN ops : k # i => ops'[k] = ops[k]
<1>1. [ops[i] EXCEPT !.step = step] \in Op
  BY OpAt DEF Op, OpSteps
<1>2. ops' = [ops EXCEPT ![i] = [ops[i] EXCEPT !.step = step]]
  BY DEF StepTo
<1>3. ops' \in Seq(Op) /\ Len(ops') = Len(ops)
  BY <1>1, <1>2, OpAt, ExceptSeq
<1>4. ops'[i] = [ops[i] EXCEPT !.step = step] /\ ops[i] \in Op
  BY <1>2, OpAt
<1>5. ops'[i].shell = ops[i].shell /\ ops'[i].kind = ops[i].kind /\ ops'[i].step = step
  BY <1>4 DEF Op
<1> QED
  BY <1>2, <1>3, <1>5, OpAt

LEMMA OpReturns ==
  ASSUME CacheTypeOK, NEW i \in DOMAIN ops, Return(i)
  PROVE  /\ ops' \in Seq(Op) /\ Len(ops') <= MaxOps
         /\ \A k \in DOMAIN ops : k # i => \E l \in DOMAIN ops' : ops'[l] = ops[k]
         /\ \A l \in DOMAIN ops' : \E k \in DOMAIN ops : k # i /\ ops'[l] = ops[k]
<1>1. ops \in Seq(Op) /\ Len(ops) \in Nat /\ Len(ops) <= MaxOps /\ MaxOps \in Nat
  BY OpAt
<1>2. ops' = RemoveAt(ops, i)
  BY DEF Return
<1>3. /\ RemoveAt(ops, i) \in Seq(Op) /\ Len(RemoveAt(ops, i)) = Len(ops) - 1
      /\ \A k \in DOMAIN ops : k # i =>
           \E l \in DOMAIN RemoveAt(ops, i) : RemoveAt(ops, i)[l] = ops[k]
      /\ \A l \in DOMAIN RemoveAt(ops, i) :
           \E k \in DOMAIN ops : k # i /\ RemoveAt(ops, i)[l] = ops[k]
  <2>1. WithoutAt(RemoveAt(ops, i), Op, ops, i)
    BY <1>1, RemoveAtProperties
  <2> QED
    BY <2>1 DEF WithoutAt
<1> QED
  BY <1>1, <1>2, <1>3

LEMMA OpBegins ==
  ASSUME CacheTypeOK, NEW s \in 1 .. MaxShells, NEW kind \in {"warm", "apply", "clear"},
         NEW step \in OpSteps, Begin(s, kind, step)
  PROVE  /\ ops' \in Seq(Op) /\ Len(ops') <= MaxOps
         /\ DOMAIN ops' = DOMAIN ops \cup {Len(ops) + 1}
         /\ ops'[Len(ops) + 1] = [shell |-> s, kind |-> kind, step |-> step]
         /\ \A k \in DOMAIN ops : ops'[k] = ops[k]
<1>1. [shell |-> s, kind |-> kind, step |-> step] \in Op
  BY DEF Op, OpSteps
<1> QED
  BY <1>1, OpAt, AppendProperties DEF Begin

-----------------------------------------------------------------------------
\* Shells may change what they show, and nothing else about them.
SameShells ==
  /\ session' = session
  /\ shells' \in Seq(Shell) /\ Len(shells') <= MaxShells
  /\ DOMAIN shells' = DOMAIN shells
  /\ \A s \in DOMAIN shells : /\ shells'[s].user = shells[s].user
                              /\ shells'[s].mounted = shells[s].mounted
                              /\ shells'[s].current = shells[s].current

LEMMA ShellsSoundAfter ==
  ASSUME ShellsSound, SameShells
  PROVE  ShellsSound'
BY DEF ShellsSound, SameShells

LEMMA StepsKeepOps ==
  ASSUME CacheTypeOK, OpsSound, SameShells, NEW i \in DOMAIN ops, NEW step \in OpSteps,
         StepTo(i, step), step \in StepsOf(ops[i].kind)
  PROVE  OpsSound'
BY OpTakesStep DEF OpsSound, SameShells

LEMMA ReturnsKeepOps ==
  ASSUME CacheTypeOK, OpsSound, SameShells, NEW i \in DOMAIN ops, Return(i)
  PROVE  OpsSound'
<1> SUFFICES ASSUME NEW l \in DOMAIN ops'
             PROVE  /\ ops'[l].shell \in DOMAIN shells'
                    /\ ops'[l].step \in StepsOf(ops'[l].kind)
                    /\ ops'[l].kind = "clear" => ~shells'[ops'[l].shell].mounted
  BY DEF OpsSound
<1>1. PICK k \in DOMAIN ops : ops'[l] = ops[k]
  BY OpReturns
<1> QED
  BY <1>1 DEF OpsSound, SameShells

\* A step leaves the shells to the operation that will change them.
LEMMA StepsKeepScreens ==
  ASSUME CacheTypeOK, ScreensSettle, NEW i \in DOMAIN ops, NEW step \in OpSteps,
         StepTo(i, step), UNCHANGED shells
  PROVE  ScreensSettle'
<1> SUFFICES ASSUME NEW s \in DOMAIN shells
             PROVE  /\ shells[s].mounted => shells[s].shown # "cleared"
                    /\ shells[s].mounted /\ shells[s].shown = "warming" =>
                         \E k \in DOMAIN ops' : ops'[k].shell = s /\ ops'[k].kind = "warm"
                    /\ ~shells[s].mounted /\ shells[s].shown \in {"warming", "data"} =>
                         \E k \in DOMAIN ops' : ops'[k].shell = s /\ ops'[k].kind = "clear"
  BY DEF ScreensSettle
<1>1. \A k \in DOMAIN ops : k \in DOMAIN ops' /\ ops'[k].shell = ops[k].shell /\ ops'[k].kind = ops[k].kind
  BY OpTakesStep
<1> QED
  BY <1>1 DEF ScreensSettle

\* An operation returns that no screen waits for: a save, or the warming of a
\* shell that is gone.
Unawaited(op) == op.kind = "apply" \/ (op.kind = "warm" /\ ~shells[op.shell].mounted)

LEMMA SavesKeepScreens ==
  ASSUME CacheTypeOK, ScreensSettle, NEW i \in DOMAIN ops, Unawaited(ops[i]),
         Return(i), UNCHANGED shells
  PROVE  ScreensSettle'
<1> SUFFICES ASSUME NEW s \in DOMAIN shells
             PROVE  /\ shells[s].mounted => shells[s].shown # "cleared"
                    /\ shells[s].mounted /\ shells[s].shown = "warming" =>
                         \E k \in DOMAIN ops' : ops'[k].shell = s /\ ops'[k].kind = "warm"
                    /\ ~shells[s].mounted /\ shells[s].shown \in {"warming", "data"} =>
                         \E k \in DOMAIN ops' : ops'[k].shell = s /\ ops'[k].kind = "clear"
  BY DEF ScreensSettle
<1>1. \A k \in DOMAIN ops : k # i => \E l \in DOMAIN ops' : ops'[l] = ops[k]
  BY OpReturns
<1> QED
  BY <1>1 DEF ScreensSettle, Unawaited

\* An operation that shows something on its shell returns.
LEMMA ShowsKeepScreens ==
  ASSUME CacheTypeOK, ScreensSettle, SameShells, NEW i \in DOMAIN ops, Return(i),
         \A s \in DOMAIN shells : s # ops[i].shell => shells'[s] = shells[s],
         shells'[ops[i].shell].shown \in
           IF shells[ops[i].shell].mounted THEN {"data", "empty"} ELSE {"cleared", "empty"}
  PROVE  ScreensSettle'
<1> DEFINE me == ops[i].shell
<1> SUFFICES ASSUME NEW s \in DOMAIN shells
             PROVE  /\ shells'[s].mounted => shells'[s].shown # "cleared"
                    /\ shells'[s].mounted /\ shells'[s].shown = "warming" =>
                         \E k \in DOMAIN ops' : ops'[k].shell = s /\ ops'[k].kind = "warm"
                    /\ ~shells'[s].mounted /\ shells'[s].shown \in {"warming", "data"} =>
                         \E k \in DOMAIN ops' : ops'[k].shell = s /\ ops'[k].kind = "clear"
  BY DEF ScreensSettle, SameShells
<1>1. CASE s = me
  BY <1>1 DEF SameShells
<1>2. CASE s # me
  <2>1. \A k \in DOMAIN ops : ops[k].shell = s => \E l \in DOMAIN ops' : ops'[l] = ops[k]
    BY <1>2, OpReturns
  <2> QED
    BY <1>2, <2>1 DEF ScreensSettle
<1> QED
  BY <1>1, <1>2

\* The files: a step of an operation on the file of another user.
LEMMA WitnessSteps ==
  ASSUME CacheTypeOK, SameShells, OpsSound, NEW i \in DOMAIN ops, NEW step \in OpSteps,
         StepTo(i, step), NEW u,
         \E k \in DOMAIN ops : WillDelete(ops[k], u) /\
            (k = i => step \in {"wrote", "undo", "delete"})
  PROVE  (\E k \in DOMAIN ops : WillDelete(ops[k], u))'
<1>1. PICK k \in DOMAIN ops : WillDelete(ops[k], u) /\
                              (k = i => step \in {"wrote", "undo", "delete"})
  OBVIOUS
<1>2. /\ k \in DOMAIN ops' /\ ops'[k].shell = ops[k].shell /\ ops[k].shell \in DOMAIN shells
      /\ ops'[k].step \in {"wrote", "undo", "delete"}
  BY <1>1, OpTakesStep DEF WillDelete, OpsSound
<1> QED
  BY <1>1, <1>2 DEF WillDelete, SameShells

LEMMA WitnessReturns ==
  ASSUME CacheTypeOK, SameShells, OpsSound, NEW i \in DOMAIN ops, Return(i), NEW u,
         \E k \in DOMAIN ops : WillDelete(ops[k], u) /\ k # i
  PROVE  (\E k \in DOMAIN ops : WillDelete(ops[k], u))'
<1>1. PICK k \in DOMAIN ops : WillDelete(ops[k], u) /\ k # i
  OBVIOUS
<1>2. PICK l \in DOMAIN ops' : ops'[l] = ops[k]
  BY <1>1, OpReturns
<1>3. ops[k].shell \in DOMAIN shells
  BY <1>1 DEF OpsSound
<1> QED
  BY <1>1, <1>2, <1>3 DEF WillDelete, SameShells

LEMMA NothingShown ==
  ASSUME CacheTypeOK, UNCHANGED <<session, shells>>
  PROVE  SameShells
BY OpAt DEF SameShells

-----------------------------------------------------------------------------
LEMMA OpKind ==
  ASSUME CacheIInv, NEW i \in DOMAIN ops
  PROVE  /\ ops[i].shell \in DOMAIN shells /\ ops[i].kind \in {"warm", "apply", "clear"}
         /\ ops[i].step \in StepsOf(ops[i].kind)
         /\ ops[i].step \in {"write", "wrote", "undo"} => ops[i].kind = "apply"
         /\ ops[i].step \in {"delete", "deleted"} => ops[i].kind = "clear"
         /\ ops[i].step \in {"read", "drop", "found", "missing"} => ops[i].kind # "clear"
         /\ UserOf(i) \in Users
         /\ Current(i) => UserOf(i) = session
         /\ Current(i) <=> shells[ops[i].shell].mounted
         /\ ops[i].kind = "clear" => ~Current(i)
<1>1. ops[i] \in Op /\ ops[i].shell \in DOMAIN shells /\ ops[i].step \in StepsOf(ops[i].kind)
  BY OpAt DEF CacheIInv, OpsSound
<1>2. ops[i].kind \in {"warm", "apply", "clear"}
  BY <1>1 DEF Op
<1>3. /\ ops[i].step \in {"write", "wrote", "undo"} => ops[i].kind = "apply"
      /\ ops[i].step \in {"delete", "deleted"} => ops[i].kind = "clear"
      /\ ops[i].step \in {"read", "drop", "found", "missing"} => ops[i].kind # "clear"
  BY <1>1, <1>2 DEF StepsOf
<1>4. UserOf(i) \in Users
  BY <1>1, OpAt DEF UserOf, CacheIInv
<1>5. shells[ops[i].shell] \in Shell
  BY <1>1, OpAt DEF CacheIInv
<1>6. /\ Current(i) => UserOf(i) = session
      /\ Current(i) <=> shells[ops[i].shell].mounted
      /\ ops[i].kind = "clear" => ~Current(i)
  BY <1>1, <1>5 DEF Current, UserOf, CacheIInv, ShellsSound, OpsSound, Shell
<1> QED
  BY <1>1, <1>2, <1>3, <1>4, <1>6

Disks == [Users -> {"none", "usable", "expired"}]

\* A step of an operation that leaves the shells alone keeps all but the files.
LEMMA StepKeeps ==
  ASSUME CacheIInv, NEW i \in DOMAIN ops, NEW step \in OpSteps, StepTo(i, step),
         step \in StepsOf(ops[i].kind), UNCHANGED <<session, shells>>,
         disk' \in Disks, exposed' \subseteq Users, FilesFollow'
  PROVE  CacheIInv'
<1>1. SameShells
  BY NothingShown DEF CacheIInv
<1>2. CacheTypeOK'
  BY OpTakesStep DEF CacheIInv, CacheTypeOK, Disks
<1> QED
  BY <1>1, <1>2, ShellsSoundAfter, StepsKeepOps, StepsKeepScreens DEF CacheIInv

LEMMA SaveReturnKeeps ==
  ASSUME CacheIInv, NEW i \in DOMAIN ops, Unawaited(ops[i]), Return(i),
         UNCHANGED <<session, shells>>,
         disk' \in Disks, exposed' \subseteq Users, FilesFollow'
  PROVE  CacheIInv'
<1>1. SameShells
  BY NothingShown DEF CacheIInv
<1>2. CacheTypeOK'
  BY OpReturns DEF CacheIInv, CacheTypeOK, Disks
<1> QED
  BY <1>1, <1>2, ShellsSoundAfter, ReturnsKeepOps, SavesKeepScreens DEF CacheIInv

LEMMA ShowKeeps ==
  ASSUME CacheIInv, NEW i \in DOMAIN ops, ops[i].step \in {"found", "missing", "deleted"},
         Return(i), NEW what, Show(i, what),
         what \in IF Current(i) THEN {"data", "empty"} ELSE {"cleared", "empty"},
         UNCHANGED <<session, disk, exposed>>
  PROVE  CacheIInv'
<1> DEFINE s == ops[i].shell
           row == [shells[s] EXCEPT !.shown = what]
<1>1. s \in DOMAIN shells /\ shells[s] \in Shell /\ shells \in Seq(Shell)
  BY OpKind, OpAt DEF CacheIInv
<1>2. /\ row \in Shell /\ row.user = shells[s].user /\ row.mounted = shells[s].mounted
      /\ row.current = shells[s].current /\ row.shown = what
  BY <1>1 DEF Shell
<1>3. shells' = [shells EXCEPT ![s] = row]
  BY DEF Show
<1>4. shells' \in Seq(Shell) /\ Len(shells') = Len(shells)
  BY <1>1, <1>2, <1>3, ExceptSeq
<1>5. /\ DOMAIN shells' = DOMAIN shells /\ shells'[s] = row
      /\ \A t \in DOMAIN shells : t # s => shells'[t] = shells[t]
  BY <1>1, <1>3
<1>6. SameShells
  BY <1>2, <1>4, <1>5, OpAt DEF SameShells, CacheIInv
<1>7. CacheTypeOK'
  BY <1>4, OpReturns DEF CacheIInv, CacheTypeOK
<1>8. ScreensSettle'
  <2>1. shells'[s].shown \in IF shells[s].mounted THEN {"data", "empty"} ELSE {"cleared", "empty"}
    BY <1>2, <1>5, OpKind
  <2> QED
    BY <1>5, <1>6, <2>1, ShowsKeepScreens DEF CacheIInv
<1>9. FilesFollow'
  <2> SUFFICES ASSUME NEW u \in Left', u \notin exposed
               PROVE  (\E k \in DOMAIN ops : WillDelete(ops[k], u))'
    BY DEF FilesFollow
  <2>1. PICK k \in DOMAIN ops : WillDelete(ops[k], u)
    BY DEF Left, CacheIInv, FilesFollow
  <2>2. k # i
    BY <2>1 DEF WillDelete
  <2> QED
    BY <1>6, <2>1, <2>2, WitnessReturns DEF CacheIInv
<1> QED
  BY <1>6, <1>7, <1>8, <1>9, ShellsSoundAfter, ReturnsKeepOps DEF CacheIInv

LEMMA Covered ==
  ASSUME CacheIInv, NEW u \in Users, u # session, disk[u] # "none", u \notin exposed
  PROVE  \E k \in DOMAIN ops : WillDelete(ops[k], u)
BY DEF CacheIInv, FilesFollow, Left

LEMMA FilesByStep ==
  ASSUME CacheIInv, NEW i \in DOMAIN ops, NEW step \in OpSteps, StepTo(i, step),
         UNCHANGED <<session, shells>>,
         \A u \in Users :
           (u # session /\ disk'[u] # "none" /\ u \notin exposed') =>
             \E k \in DOMAIN ops : WillDelete(ops[k], u) /\
                (k = i => step \in {"wrote", "undo", "delete"})
  PROVE  FilesFollow'
<1> SUFFICES ASSUME NEW u \in Left', u \notin exposed'
             PROVE  (\E k \in DOMAIN ops : WillDelete(ops[k], u))'
  BY DEF FilesFollow
<1>1. u \in Users /\ u # session /\ disk'[u] # "none"
  BY DEF Left
<1>2. SameShells
  BY NothingShown DEF CacheIInv
<1> QED
  BY <1>1, <1>2, WitnessSteps DEF CacheIInv

LEMMA FilesByReturn ==
  ASSUME CacheIInv, NEW i \in DOMAIN ops, Return(i), UNCHANGED <<session, shells>>,
         \A u \in Users :
           (u # session /\ disk'[u] # "none" /\ u \notin exposed') =>
             \E k \in DOMAIN ops : WillDelete(ops[k], u) /\ k # i
  PROVE  FilesFollow'
<1> SUFFICES ASSUME NEW u \in Left', u \notin exposed'
             PROVE  (\E k \in DOMAIN ops : WillDelete(ops[k], u))'
  BY DEF FilesFollow
<1>1. u \in Users /\ u # session /\ disk'[u] # "none"
  BY DEF Left
<1>2. SameShells
  BY NothingShown DEF CacheIInv
<1> QED
  BY <1>1, <1>2, WitnessReturns DEF CacheIInv

LEMMA Deleted ==
  ASSUME CacheIInv, NEW i \in DOMAIN ops, DeleteFile(i)
  PROVE  /\ disk' \in Disks /\ exposed' \subseteq Users
         /\ disk'[UserOf(i)] = "none"
         /\ \A u \in Users : u # UserOf(i) =>
              disk'[u] = disk[u] /\ (u \in exposed' <=> u \in exposed)
<1>1. disk \in Disks /\ exposed \subseteq Users /\ UserOf(i) \in Users
  BY OpKind DEF CacheIInv, CacheTypeOK, Disks
<1> QED
  BY <1>1 DEF DeleteFile, Disks

LEMMA DiskType == CacheIInv => disk \in Disks /\ exposed \subseteq Users
BY DEF CacheIInv, CacheTypeOK, Disks
-----------------------------------------------------------------------------
LEMMA WriteKeeps ==
  ASSUME CacheIInv, NEW i \in DOMAIN ops, Write(i)
  PROVE  CacheIInv'
<1>0. UNCHANGED <<session, shells, exposed>> /\ ops[i].step = "write"
  BY DEF Write
<1>1. CASE disk' = [disk EXCEPT ![UserOf(i)] = "usable"] /\ StepTo(i, "wrote")
  <2>1. disk' \in Disks /\ \A u \in Users : u # UserOf(i) => disk'[u] = disk[u]
    BY <1>1, DiskType, OpKind DEF Disks
  <2>2. FilesFollow'
    <3>1. ASSUME NEW u \in Users, u # session, disk'[u] # "none", u \notin exposed'
          PROVE  \E k \in DOMAIN ops \cup {i} : shells[ops[k].shell].user = u /\
                   (k = i \/ WillDelete(ops[k], u))
      <4>1. CASE u = UserOf(i)
        BY <4>1 DEF UserOf
      <4>2. CASE u # UserOf(i)
        <5>1. \E k \in DOMAIN ops : WillDelete(ops[k], u)
          BY <1>0, <2>1, <3>1, <4>2, Covered
        <5> QED
          BY <5>1 DEF WillDelete
      <4> QED
        BY <4>1, <4>2
    <3> SUFFICES ASSUME NEW u \in Left', u \notin exposed'
                 PROVE  (\E k \in DOMAIN ops : WillDelete(ops[k], u))'
      BY DEF FilesFollow
    <3>2. PICK k \in DOMAIN ops : shells[ops[k].shell].user = u /\ (k = i \/ WillDelete(ops[k], u))
      BY <1>0, <3>1 DEF Left
    <3>3. /\ DOMAIN ops' = DOMAIN ops /\ ops'[k].shell = ops[k].shell
          /\ k = i => ops'[k].step = "wrote"
          /\ k # i => ops'[k] = ops[k]
      BY <1>1, OpTakesStep DEF CacheIInv, OpSteps
    <3> QED
      BY <1>0, <3>2, <3>3 DEF WillDelete
  <2> QED
    BY <1>0, <1>1, <2>1, <2>2, DiskType, OpKind, StepKeeps DEF OpSteps, StepsOf
<1>2. CASE UNCHANGED disk /\ Return(i)
  <2>1. FilesFollow'
    <3>1. \A u \in Users : (u # session /\ disk'[u] # "none" /\ u \notin exposed') =>
             \E k \in DOMAIN ops : WillDelete(ops[k], u) /\ k # i
      BY <1>0, <1>2, Covered DEF WillDelete
    <3> QED
      BY <1>0, <1>2, <3>1, FilesByReturn
  <2> QED
    BY <1>0, <1>2, <2>1, DiskType, OpKind, SaveReturnKeeps DEF Unawaited
<1> QED
  BY <1>1, <1>2 DEF Write

LEMMA RecheckKeeps ==
  ASSUME CacheIInv, NEW i \in DOMAIN ops, Recheck(i)
  PROVE  CacheIInv'
<1> DEFINE step == IF Current(i) THEN "read" ELSE "undo"
<1>1. /\ UNCHANGED <<session, shells, disk, exposed>> /\ ops[i].step = "wrote"
      /\ StepTo(i, step) /\ step \in OpSteps /\ step \in StepsOf(ops[i].kind)
  BY OpKind DEF Recheck, OpSteps, StepsOf
<1>2. \A u \in Users : (u # session /\ disk'[u] # "none" /\ u \notin exposed') =>
        \E k \in DOMAIN ops : WillDelete(ops[k], u) /\
           (k = i => step \in {"wrote", "undo", "delete"})
  <2> SUFFICES ASSUME NEW u \in Users, u # session, disk[u] # "none", u \notin exposed
               PROVE  \E k \in DOMAIN ops : WillDelete(ops[k], u) /\
                        (k = i => step \in {"wrote", "undo", "delete"})
    BY <1>1
  <2>1. PICK k \in DOMAIN ops : WillDelete(ops[k], u)
    BY Covered
  <2>2. k = i => ~Current(i)
    BY <2>1, OpKind DEF WillDelete, UserOf
  <2> QED
    BY <2>1, <2>2
<1> HIDE DEF step
<1>3. FilesFollow'
  BY <1>1, <1>2, FilesByStep
<1> QED
  BY <1>1, <1>3, DiskType, StepKeeps

\* Steps of reading: the operation is not one that will delete a file.
LEMMA ReadingKeeps ==
  ASSUME CacheIInv, NEW i \in DOMAIN ops, ops[i].step \in {"read", "drop", "found", "missing"},
         NEW step \in {"drop", "found", "missing", "undo"}, StepTo(i, step),
         step = "undo" => ops[i].kind = "apply",
         UNCHANGED <<session, shells>>,
         DeleteFile(i) \/ UNCHANGED <<disk, exposed>>
  PROVE  CacheIInv'
<1>1. step \in OpSteps /\ step \in StepsOf(ops[i].kind)
  BY OpKind DEF OpSteps, StepsOf
<1>2. disk' \in Disks /\ exposed' \subseteq Users
  BY Deleted, DiskType
<1>3. \A u \in Users : (u # session /\ disk'[u] # "none" /\ u \notin exposed') =>
        \E k \in DOMAIN ops : WillDelete(ops[k], u) /\
           (k = i => step \in {"wrote", "undo", "delete"})
  <2> SUFFICES ASSUME NEW u \in Users, u # session, disk'[u] # "none", u \notin exposed'
               PROVE  \E k \in DOMAIN ops : WillDelete(ops[k], u) /\
                        (k = i => step \in {"wrote", "undo", "delete"})
    OBVIOUS
  <2>1. disk[u] # "none" /\ u \notin exposed
    BY Deleted
  <2>2. PICK k \in DOMAIN ops : WillDelete(ops[k], u)
    BY <2>1, Covered
  <2>3. k # i
    BY <2>2 DEF WillDelete
  <2> QED
    BY <2>2, <2>3
<1>4. FilesFollow'
  BY <1>1, <1>3, FilesByStep
<1> QED
  BY <1>1, <1>2, <1>4, StepKeeps

LEMMA ReadKeeps ==
  ASSUME CacheIInv, NEW i \in DOMAIN ops, Read(i)
  PROVE  CacheIInv'
<1> DEFINE step == CASE disk[UserOf(i)] = "none" -> "missing"
                     [] disk[UserOf(i)] = "usable" -> "found"
                     [] disk[UserOf(i)] = "expired" -> "drop"
<1>1. disk[UserOf(i)] \in {"none", "usable", "expired"}
  BY DiskType, OpKind DEF Disks
<1>2. step \in {"drop", "found", "missing", "undo"} /\ step # "undo"
  BY <1>1
<1>3. /\ UNCHANGED <<session, shells, disk, exposed>> /\ ops[i].step = "read"
      /\ StepTo(i, step)
  BY DEF Read
<1> HIDE DEF step
<1> QED
  BY <1>2, <1>3, ReadingKeeps

LEMMA SavesEnd ==
  ASSUME CacheIInv, NEW i \in DOMAIN ops, Unawaited(ops[i]), Return(i),
         ~(ops[i].step \in {"wrote", "undo", "delete"}),
         UNCHANGED <<session, shells, disk, exposed>>
  PROVE  CacheIInv'
<1>1. \A u \in Users : (u # session /\ disk'[u] # "none" /\ u \notin exposed') =>
         \E k \in DOMAIN ops : WillDelete(ops[k], u) /\ k # i
  BY Covered DEF WillDelete
<1>2. FilesFollow'
  BY <1>1, FilesByReturn
<1> QED
  BY <1>2, DiskType, SaveReturnKeeps

LEMMA ReadFailsKeeps ==
  ASSUME CacheIInv, NEW i \in DOMAIN ops, ReadFails(i)
  PROVE  CacheIInv'
<1>1. UNCHANGED <<session, shells, disk, exposed>> /\ ops[i].step = "read"
  BY DEF ReadFails
<1>2. CASE ops[i].kind = "warm"
  <2>1. StepTo(i, "missing")
    BY <1>2 DEF ReadFails
  <2> QED
    BY <1>1, <2>1, ReadingKeeps
<1>3. CASE ops[i].kind # "warm"
  <2>1. Return(i) /\ ops[i].kind = "apply"
    BY <1>1, <1>3, OpKind DEF ReadFails
  <2> QED
    BY <1>1, <2>1, SavesEnd DEF Unawaited
<1> QED
  BY <1>2, <1>3

LEMMA DropKeeps ==
  ASSUME CacheIInv, NEW i \in DOMAIN ops, Drop(i)
  PROVE  CacheIInv'
BY ReadingKeeps DEF Drop

LEMMA ApplyEndsKeeps ==
  ASSUME CacheIInv, NEW i \in DOMAIN ops, ApplyEnds(i)
  PROVE  CacheIInv'
<1>1. /\ UNCHANGED <<session, disk, exposed>> /\ ops[i].kind = "apply"
      /\ ops[i].step \in {"found", "missing"}
  BY DEF ApplyEnds
<1>2. CASE ops[i].step = "found" /\ Current(i) /\ Show(i, "data") /\ Return(i)
  BY <1>1, <1>2, ShowKeeps
<1>3. CASE ops[i].step = "found" /\ ~Current(i) /\ UNCHANGED shells /\ StepTo(i, "undo")
  BY <1>1, <1>3, ReadingKeeps
<1>4. CASE ops[i].step = "missing" /\ Show(i, "empty") /\ Return(i)
  BY <1>1, <1>4, ShowKeeps
<1> QED
  BY <1>2, <1>3, <1>4 DEF ApplyEnds

LEMMA ClearEndsKeeps ==
  ASSUME CacheIInv, NEW i \in DOMAIN ops, ClearEnds(i)
  PROVE  CacheIInv'
BY OpKind, ShowKeeps DEF ClearEnds

LEMMA WarmEndsKeeps ==
  ASSUME CacheIInv, NEW i \in DOMAIN ops, WarmEnds(i)
  PROVE  CacheIInv'
<1>1. /\ UNCHANGED <<session, disk, exposed>> /\ Return(i) /\ ops[i].kind = "warm"
      /\ ops[i].step \in {"found", "missing"}
  BY DEF WarmEnds
<1>2. CASE Current(i)
  <2> DEFINE what == IF ops[i].step = "found" THEN "data" ELSE "empty"
  <2>1. Show(i, what) /\ what \in {"data", "empty"}
    BY <1>2 DEF WarmEnds
  <2> HIDE DEF what
  <2> QED
    BY <1>1, <1>2, <2>1, ShowKeeps
<1>3. CASE ~Current(i)
  <2>1. UNCHANGED shells /\ Unawaited(ops[i])
    BY <1>1, <1>3, OpKind DEF WarmEnds, Unawaited
  <2> QED
    BY <1>1, <2>1, SavesEnd
<1> QED
  BY <1>2, <1>3

LEMMA DeleteKeeps ==
  ASSUME CacheIInv, NEW i \in DOMAIN ops, Delete(i)
  PROVE  CacheIInv'
<1>1. /\ UNCHANGED <<session, shells>> /\ ops[i].step \in {"delete", "undo"}
      /\ UserOf(i) \in Users
  BY OpKind DEF Delete
<1>2. disk' \in Disks /\ exposed' \subseteq Users
  BY <1>1, Deleted, DiskType DEF Delete
<1>3. ASSUME NEW u \in Users, u # session, disk'[u] # "none", u \notin exposed'
      PROVE  \E k \in DOMAIN ops : WillDelete(ops[k], u) /\ k # i
  <2>1. u # UserOf(i) /\ disk[u] # "none" /\ u \notin exposed
    BY <1>1, <1>3, Deleted DEF Delete
  <2>2. PICK k \in DOMAIN ops : WillDelete(ops[k], u)
    BY <1>3, <2>1, Covered
  <2> QED
    BY <2>1, <2>2 DEF WillDelete, UserOf
<1>4. CASE ops[i].step = "delete"
  <2>1. StepTo(i, "deleted") /\ "deleted" \in OpSteps /\ "deleted" \in StepsOf(ops[i].kind)
    BY <1>4, OpKind DEF Delete, OpSteps, StepsOf
  <2>2. FilesFollow'
    BY <1>1, <1>3, <2>1, FilesByStep
  <2> QED
    BY <1>1, <1>2, <2>1, <2>2, StepKeeps
<1>5. CASE ops[i].step = "undo"
  <2>1. Return(i) /\ Unawaited(ops[i])
    BY <1>5, OpKind DEF Delete, Unawaited
  <2>2. FilesFollow'
    BY <1>1, <1>3, <2>1, FilesByReturn
  <2> QED
    BY <1>1, <1>2, <2>1, <2>2, SaveReturnKeeps
<1> QED
  BY <1>1, <1>4, <1>5

LEMMA ContinueKeeps ==
  ASSUME CacheIInv, NEW i \in DOMAIN ops, Continue(i)
  PROVE  CacheIInv'
BY WriteKeeps, RecheckKeeps, ReadKeeps, ReadFailsKeeps, DropKeeps, WarmEndsKeeps,
   ApplyEndsKeeps, DeleteKeeps, ClearEndsKeeps DEF Continue
-----------------------------------------------------------------------------
LEMMA SignInKeeps ==
  ASSUME CacheIInv, NEW u \in Users, SignIn(u)
  PROVE  CacheIInv'
<1> PICK n : n = Len(shells) + 1
  OBVIOUS
<1> PICK m : m = Len(ops) + 1
  OBVIOUS
<1> DEFINE new == [user |-> u, mounted |-> TRUE, current |-> TRUE, shown |-> "warming"]
           op == [shell |-> n, kind |-> "warm", step |-> "read"]
<1>0. CacheTypeOK
  BY DEF CacheIInv
<1>1. /\ \A s \in DOMAIN shells : ~shells[s].mounted
      /\ session \in {u, NoUser} /\ session' = u /\ Len(shells) < MaxShells
      /\ shells' = Append(shells, new) /\ Begin(n, "warm", "read")
      /\ UNCHANGED <<disk, exposed>>
  BY DEF SignIn, Mounted
<1>2. new \in Shell
  BY DEF Shell
<1>3. /\ shells' \in Seq(Shell) /\ Len(shells') <= MaxShells
      /\ DOMAIN shells' = DOMAIN shells \cup {n} /\ n \notin DOMAIN shells
      /\ shells'[n] = new /\ \A s \in DOMAIN shells : shells'[s] = shells[s]
  BY <1>0, <1>1, <1>2, OpAt, AppendProperties
<1>4. n \in 1 .. MaxShells
  BY <1>0, <1>1, OpAt
<1>5. /\ ops' \in Seq(Op) /\ Len(ops') <= MaxOps
      /\ DOMAIN ops' = DOMAIN ops \cup {m} /\ ops'[m] = op
      /\ \A k \in DOMAIN ops : ops'[k] = ops[k]
  BY <1>0, <1>1, <1>4, OpBegins DEF OpSteps
<1>6. /\ new.user = u /\ new.mounted = TRUE /\ new.current = TRUE /\ new.shown = "warming"
      /\ op.shell = n /\ op.kind = "warm" /\ op.step = "read"
  OBVIOUS
<1> HIDE DEF new, op
<1>7. CacheTypeOK'
  BY <1>0, <1>1, <1>3, <1>5 DEF CacheTypeOK
<1>8. OpsSound'
  <2>1. "read" \in StepsOf("warm")
    BY DEF StepsOf
  <2> QED
    BY <1>3, <1>5, <1>6, <2>1 DEF CacheIInv, OpsSound
<1>9. ShellsSound'
  <2>1. \A s \in DOMAIN shells' : shells'[s].mounted => s = n
    BY <1>1, <1>3
  <2>2. \A s \in DOMAIN shells' : shells'[s].current = shells'[s].mounted
    BY <1>3, <1>6 DEF CacheIInv, ShellsSound
  <2>3. shells'[n].user = session'
    BY <1>1, <1>3, <1>6
  <2> QED
    BY <2>1, <2>2, <2>3 DEF ShellsSound
<1>10. ScreensSettle'
  <2> SUFFICES ASSUME NEW s \in DOMAIN shells'
             PROVE  /\ shells'[s].mounted => shells'[s].shown # "cleared"
                    /\ shells'[s].mounted /\ shells'[s].shown = "warming" =>
                         \E k \in DOMAIN ops' : ops'[k].shell = s /\ ops'[k].kind = "warm"
                    /\ ~shells'[s].mounted /\ shells'[s].shown \in {"warming", "data"} =>
                         \E k \in DOMAIN ops' : ops'[k].shell = s /\ ops'[k].kind = "clear"
    BY DEF ScreensSettle
  <2>1. CASE s = n
    BY <1>3, <1>5, <1>6, <2>1
  <2>2. CASE s \in DOMAIN shells
    BY <1>3, <1>5, <2>2 DEF CacheIInv, ScreensSettle
  <2> QED
    BY <1>3, <2>1, <2>2
<1>11. FilesFollow'
  <2> SUFFICES ASSUME NEW w \in Left', w \notin exposed
               PROVE  (\E k \in DOMAIN ops : WillDelete(ops[k], w))'
    BY <1>1 DEF FilesFollow
  <2>1. w \in Users /\ w # session /\ disk[w] # "none"
    BY <1>1, CacheAssumption DEF Left
  <2>2. PICK k \in DOMAIN ops : WillDelete(ops[k], w)
    BY <2>1, Covered
  <2>3. ops[k].shell \in DOMAIN shells
    BY <2>2 DEF CacheIInv, OpsSound
  <2> QED
    BY <1>3, <1>5, <2>2, <2>3 DEF WillDelete
<1> QED
  BY <1>7, <1>8, <1>9, <1>10, <1>11 DEF CacheIInv

LEMMA SignOutKeeps ==
  ASSUME CacheIInv, SignOut
  PROVE  CacheIInv'
<1>1. PICK s \in DOMAIN shells :
        /\ shells[s].mounted /\ session' = NoUser
        /\ shells' = [shells EXCEPT ![s].mounted = FALSE, ![s].current = FALSE]
        /\ Begin(s, "clear", "delete") /\ UNCHANGED <<disk, exposed>>
  BY DEF SignOut
<1> PICK m : m = Len(ops) + 1
  OBVIOUS
<1> DEFINE row == [shells[s] EXCEPT !.mounted = FALSE, !.current = FALSE]
           op == [shell |-> s, kind |-> "clear", step |-> "delete"]
<1>0. CacheTypeOK /\ shells[s] \in Shell
  BY OpAt DEF CacheIInv
<1>2. /\ row \in Shell /\ row.user = shells[s].user /\ row.mounted = FALSE
      /\ row.current = FALSE /\ row.shown = shells[s].shown
  BY <1>0 DEF Shell
<1>3. shells' = [shells EXCEPT ![s] = row]
  BY <1>1
<1>4. shells' \in Seq(Shell) /\ Len(shells') = Len(shells)
  BY <1>0, <1>2, <1>3, OpAt, ExceptSeq
<1>5. /\ DOMAIN shells' = DOMAIN shells /\ shells'[s] = row
      /\ \A t \in DOMAIN shells : t # s => shells'[t] = shells[t]
  BY <1>1, <1>3
<1>6. s \in 1 .. MaxShells
  BY <1>0, OpAt
<1>7. /\ ops' \in Seq(Op) /\ Len(ops') <= MaxOps
      /\ DOMAIN ops' = DOMAIN ops \cup {m} /\ ops'[m] = op
      /\ \A k \in DOMAIN ops : ops'[k] = ops[k]
  BY <1>0, <1>1, <1>6, OpBegins DEF OpSteps
<1>8. op.shell = s /\ op.kind = "clear" /\ op.step = "delete"
  OBVIOUS
<1>9. shells[s].user = session
  BY <1>1 DEF CacheIInv, ShellsSound
<1> HIDE DEF row, op
<1>10. CacheTypeOK'
  BY <1>0, <1>1, <1>4, <1>7, OpAt DEF CacheTypeOK
<1>11. OpsSound'
  <2>1. "delete" \in StepsOf("clear")
    BY DEF StepsOf
  <2>2. \A t \in DOMAIN shells : shells'[t].mounted => shells[t].mounted
    BY <1>2, <1>5
  <2> QED
    BY <1>2, <1>5, <1>7, <1>8, <2>1, <2>2 DEF CacheIInv, OpsSound
<1>12. ShellsSound'
  <2>1. \A t \in DOMAIN shells : t # s => ~shells[t].mounted
    BY <1>1 DEF CacheIInv, ShellsSound
  <2>2. \A t \in DOMAIN shells : ~shells'[t].mounted /\ shells'[t].current = shells'[t].mounted
    BY <1>2, <1>5, <2>1 DEF CacheIInv, ShellsSound
  <2> QED
    BY <1>5, <2>2 DEF ShellsSound
<1>13. ScreensSettle'
  <2> SUFFICES ASSUME NEW t \in DOMAIN shells
             PROVE  /\ shells'[t].mounted => shells'[t].shown # "cleared"
                    /\ shells'[t].mounted /\ shells'[t].shown = "warming" =>
                         \E k \in DOMAIN ops' : ops'[k].shell = t /\ ops'[k].kind = "warm"
                    /\ ~shells'[t].mounted /\ shells'[t].shown \in {"warming", "data"} =>
                         \E k \in DOMAIN ops' : ops'[k].shell = t /\ ops'[k].kind = "clear"
    BY <1>5 DEF ScreensSettle
  <2>1. CASE t = s
    BY <1>2, <1>5, <1>7, <1>8, <2>1
  <2>2. CASE t # s
    BY <1>5, <1>7, <2>2 DEF CacheIInv, ScreensSettle
  <2> QED
    BY <2>1, <2>2
<1>14. FilesFollow'
  <2> SUFFICES ASSUME NEW w \in Left', w \notin exposed
               PROVE  (\E k \in DOMAIN ops : WillDelete(ops[k], w))'
    BY <1>1 DEF FilesFollow
  <2>1. w \in Users /\ disk[w] # "none"
    BY <1>1 DEF Left
  <2>2. CASE w = session
    BY <1>2, <1>5, <1>7, <1>8, <1>9, <2>2 DEF WillDelete
  <2>3. CASE w # session
    <3>1. PICK k \in DOMAIN ops : WillDelete(ops[k], w)
      BY <2>1, <2>3, Covered
    <3>2. ops[k].shell \in DOMAIN shells
      BY <3>1 DEF CacheIInv, OpsSound
    <3> QED
      BY <1>2, <1>5, <1>7, <3>1, <3>2 DEF WillDelete
  <2> QED
    BY <2>2, <2>3
<1> QED
  BY <1>10, <1>11, <1>12, <1>13, <1>14 DEF CacheIInv

LEMMA ApplyKeeps ==
  ASSUME CacheIInv, NEW s \in DOMAIN shells, ApplyLiveSnapshot(s)
  PROVE  CacheIInv'
<1> PICK m : m = Len(ops) + 1
  OBVIOUS
<1> DEFINE op == [shell |-> s, kind |-> "apply", step |-> "write"]
<1>0. CacheTypeOK /\ UNCHANGED <<session, shells, disk, exposed>> /\ s \in 1 .. MaxShells
  BY OpAt DEF CacheIInv, ApplyLiveSnapshot
<1>1. /\ ops' \in Seq(Op) /\ Len(ops') <= MaxOps
      /\ DOMAIN ops' = DOMAIN ops \cup {m} /\ ops'[m] = op
      /\ \A k \in DOMAIN ops : ops'[k] = ops[k]
  BY <1>0, OpBegins DEF OpSteps, ApplyLiveSnapshot
<1>2. op.shell = s /\ op.kind = "apply" /\ op.step = "write"
  OBVIOUS
<1> HIDE DEF op
<1>3. CacheTypeOK'
  BY <1>0, <1>1 DEF CacheTypeOK
<1>4. OpsSound'
  <2>1. "write" \in StepsOf("apply")
    BY DEF StepsOf
  <2> QED
    BY <1>0, <1>1, <1>2, <2>1 DEF CacheIInv, OpsSound
<1>5. ShellsSound'
  BY <1>0 DEF CacheIInv, ShellsSound
<1>6. ScreensSettle'
  BY <1>0, <1>1 DEF CacheIInv, ScreensSettle
<1>7. FilesFollow'
  <2> SUFFICES ASSUME NEW w \in Left, w \notin exposed
               PROVE  \E k \in DOMAIN ops' : WillDelete(ops'[k], w)
    BY <1>0 DEF FilesFollow, Left, WillDelete
  <2>1. PICK k \in DOMAIN ops : WillDelete(ops[k], w)
    BY DEF CacheIInv, FilesFollow
  <2> QED
    BY <1>1, <2>1
<1> QED
  BY <1>3, <1>4, <1>5, <1>6, <1>7 DEF CacheIInv

LEMMA AgeKeeps ==
  ASSUME CacheIInv, NEW u \in Users, Age(u)
  PROVE  CacheIInv'
<1>1. /\ UNCHANGED <<session, shells, ops, exposed>> /\ disk[u] = "usable"
      /\ disk' = [disk EXCEPT ![u] = "expired"]
  BY DEF Age
<1>2. disk' \in Disks /\ \A w \in Users : disk'[w] # "none" => disk[w] # "none"
  BY <1>1, DiskType DEF Disks
<1>3. CacheTypeOK'
  BY <1>1, <1>2 DEF CacheIInv, CacheTypeOK, Disks
<1>4. OpsSound' /\ ShellsSound' /\ ScreensSettle'
  BY <1>1 DEF CacheIInv, OpsSound, ShellsSound, ScreensSettle
<1>5. FilesFollow'
  BY <1>1, <1>2 DEF CacheIInv, FilesFollow, Left, WillDelete
<1> QED
  BY <1>3, <1>4, <1>5 DEF CacheIInv

LEMMA KillKeeps == CacheIInv /\ Kill => CacheIInv'
<1> SUFFICES ASSUME CacheIInv, Kill PROVE CacheIInv'
  OBVIOUS
<1>1. /\ shells' = <<>> /\ ops' = <<>> /\ exposed' = exposed \cup Left
      /\ UNCHANGED <<session, disk>>
  BY DEF Kill
<1>2. CacheTypeOK'
  <2>1. <<>> \in Seq(Shell) /\ <<>> \in Seq(Op) /\ Len(<<>>) = 0
    OBVIOUS
  <2> QED
    BY <1>1, <2>1, CacheAssumption DEF CacheIInv, CacheTypeOK, Left
<1>3. OpsSound' /\ ShellsSound' /\ ScreensSettle'
  BY <1>1 DEF OpsSound, ShellsSound, ScreensSettle
<1>4. FilesFollow'
  BY <1>1 DEF FilesFollow, Left
<1> QED
  BY <1>2, <1>3, <1>4 DEF CacheIInv

LEMMA SessionLostKeeps == CacheIInv /\ SessionLost => CacheIInv'
<1> SUFFICES ASSUME CacheIInv, SessionLost PROVE CacheIInv'
  OBVIOUS
<1>1. /\ \A s \in DOMAIN shells : ~shells[s].mounted
      /\ session # NoUser /\ session' = NoUser /\ exposed' = exposed \cup {session}
      /\ UNCHANGED <<shells, disk, ops>>
  BY DEF SessionLost, Mounted
<1>2. CacheTypeOK'
  BY <1>1 DEF CacheIInv, CacheTypeOK
<1>3. OpsSound' /\ ShellsSound' /\ ScreensSettle'
  BY <1>1 DEF CacheIInv, OpsSound, ShellsSound, ScreensSettle
<1>4. FilesFollow'
  BY <1>1 DEF CacheIInv, FilesFollow, Left, WillDelete
<1> QED
  BY <1>2, <1>3, <1>4 DEF CacheIInv

LEMMA CacheSteps == CacheIInv /\ [CacheNext]_cacheVars => CacheIInv'
<1> SUFFICES ASSUME CacheIInv, [CacheNext]_cacheVars PROVE CacheIInv'
  OBVIOUS
<1>1. CASE \E u \in Users : SignIn(u) \/ Age(u)
  BY <1>1, SignInKeeps, AgeKeeps
<1>2. CASE SignOut \/ Kill \/ SessionLost
  BY <1>2, SignOutKeeps, KillKeeps, SessionLostKeeps
<1>3. CASE \E s \in DOMAIN shells : ApplyLiveSnapshot(s)
  BY <1>3, ApplyKeeps
<1>4. CASE \E i \in DOMAIN ops : Continue(i)
  BY <1>4, ContinueKeeps
<1>5. CASE UNCHANGED cacheVars
  BY <1>5 DEF cacheVars, CacheIInv, CacheTypeOK, OpsSound, ShellsSound, ScreensSettle,
              FilesFollow, Left, WillDelete
<1> QED
  BY <1>1, <1>2, <1>3, <1>4, <1>5 DEF CacheNext

LEMMA CacheInitially == CacheInit => CacheIInv
<1> SUFFICES ASSUME CacheInit PROVE CacheIInv
  OBVIOUS
<1>1. CacheTypeOK
  <2>1. <<>> \in Seq(Shell) /\ <<>> \in Seq(Op) /\ Len(<<>>) = 0
    OBVIOUS
  <2> QED
    BY <2>1, CacheAssumption DEF CacheInit, CacheTypeOK
<1>2. OpsSound /\ ShellsSound /\ ScreensSettle /\ FilesFollow
  BY DEF CacheInit, OpsSound, ShellsSound, ScreensSettle, FilesFollow, Left
<1> QED
  BY <1>1, <1>2 DEF CacheIInv

LEMMA CacheIInvTells == CacheIInv => CacheTypeOK /\ CachePrivate
<1> SUFFICES ASSUME CacheIInv, AtRest
             PROVE  /\ Left \subseteq exposed
                    /\ \A s \in DOMAIN shells :
                         shells[s].shown \in
                           IF shells[s].mounted THEN {"data", "empty"} ELSE {"cleared", "empty"}
  BY DEF CacheIInv, CachePrivate
<1>1. DOMAIN ops = {}
  BY DEF AtRest
<1>2. Left \subseteq exposed
  BY <1>1 DEF CacheIInv, FilesFollow
<1>3. \A s \in DOMAIN shells : shells[s].shown \in {"warming", "data", "empty", "cleared"}
  BY OpAt DEF CacheIInv, Shell
<1> QED
  BY <1>1, <1>2, <1>3 DEF CacheIInv, ScreensSettle

LEMMA CacheInductive == CacheSpec => []CacheIInv
BY CacheInitially, CacheSteps, PTL DEF CacheSpec
-----------------------------------------------------------------------------
\* WHAT THE PHONE SHOWS OF ONE DEAL.

Final == {"loaded", "empty", "error"}
Syncing(i) == calls[i].kind = "sync" /\ calls[i].at = "tasks"

\* What is known of a service between two answers: it has data of the deal it
\* loads, or a call that will bring them is under way.
ServiceSound(service, at) ==
  /\ service.state \in {"idle", "noDeal"} <=> service.current = NoDeal
  /\ service.state \in Final => service.of = service.current
  /\ service.state \in {"loading", "stale"} =>
       \E i \in DOMAIN calls : calls[i].at = at /\ calls[i].room = service.current

\* The shell observes the deal before the deal changes again, and the services
\* follow what it has observed; the timeline may be a sync behind.
ServicesFollow ==
  /\ seen = deal \/ deal = "loading" \/ seen = "loading"
  /\ seen \in Deals => tasks.current = seen
  /\ seen = NoDeal => /\ deal = NoDeal /\ tasks.state = "noDeal"
                      /\ overtaken \/ timeline.state = "noDeal"
  /\ ~overtaken =>
       /\ \A i \in DOMAIN calls : Syncing(i) => calls[i].room = seen
       /\ seen \in Deals => \/ timeline.current = seen
                            \/ \E i \in DOMAIN calls : Syncing(i)

SnapshotStored ==
  (seen = deal /\ deal \in Deals \cup {NoDeal} /\ ~changed /\ ~dirty /\ AllReady)
    => stored = Snapshot

TrackerIInv ==
  /\ TrackerTypeOK
  /\ ServiceSound(tasks, "tasks") /\ ServiceSound(timeline, "events")
  /\ ServicesFollow
  /\ SnapshotStored

LEMMA Distinct ==
  /\ NoDeal \notin Deals /\ "loading" \notin Deals /\ "error" \notin Deals
  /\ NoDeal # "loading" /\ NoDeal # "error" /\ MaxCalls \in Nat
BY TrackerAssumption

LEMMA LoadingStarts ==
  ASSUME NEW service \in Service, NEW room \in Deals
  PROVE  /\ Loading(service, room) \in Service
         /\ Loading(service, room).current = room
         /\ Loading(service, room).state \in {"loading", "stale"}
BY DEF Loading, Service

LEMMA AnswerTaken ==
  ASSUME NEW service \in Service, NEW room \in Deals, NEW new \in Answered(service, room)
  PROVE  /\ new \in Service /\ new.current = service.current
         /\ room # service.current => new = service
         /\ room = service.current => new.of = room /\ new.state \in Final
BY DEF Answered, Service, Final

LEMMA CallAt ==
  ASSUME TrackerTypeOK
  PROVE  /\ DOMAIN calls = 1 .. Len(calls) /\ Len(calls) \in Nat
         /\ \A i \in DOMAIN calls : calls[i] \in Call /\ calls[i].room \in Deals
         /\ tasks \in Service /\ timeline \in Service
         /\ calls \in Seq(Call) /\ Len(calls) <= MaxCalls
<1>1. calls \in Seq(Call) /\ Len(calls) <= MaxCalls /\ tasks \in Service /\ timeline \in Service
  BY DEF TrackerTypeOK
<1>2. DOMAIN calls = 1 .. Len(calls) /\ Len(calls) \in Nat
  BY <1>1
<1>3. \A i \in DOMAIN calls : calls[i] \in Call
  BY <1>1
<1>4. \A i \in DOMAIN calls : calls[i].room \in Deals
  BY <1>3 DEF Call
<1> QED
  BY <1>1, <1>2, <1>3, <1>4

\* A call that moves on keeps its room; the others stay as they are.
LEMMA CallMoves ==
  ASSUME TrackerTypeOK, NEW i \in DOMAIN calls, NEW at \in {"events", "end"},
         calls' = [calls EXCEPT ![i].at = at]
  PROVE  /\ calls' \in Seq(Call) /\ Len(calls') = Len(calls) /\ DOMAIN calls' = DOMAIN calls
         /\ calls'[i].at = at /\ calls'[i].room = calls[i].room
         /\ \A k \in DOMAIN calls : k # i => calls'[k] = calls[k]
<1>1. [calls[i] EXCEPT !.at = at] \in Call
  BY CallAt DEF Call
<1>2. calls' = [calls EXCEPT ![i] = [calls[i] EXCEPT !.at = at]]
  OBVIOUS
<1>3. calls' \in Seq(Call) /\ Len(calls') = Len(calls)
  BY <1>1, <1>2, CallAt, ExceptSeq
<1>4. calls'[i] = [calls[i] EXCEPT !.at = at]
  BY <1>2, CallAt
<1>5. calls[i] \in Call
  BY CallAt
<1>6. calls'[i].at = at /\ calls'[i].room = calls[i].room
  BY <1>4, <1>5 DEF Call
<1> QED
  BY <1>2, <1>3, <1>6, CallAt

LEMMA CallStarts ==
  ASSUME TrackerTypeOK, NEW kind, NEW at, NEW room \in Deals,
         kind \in {"sync", "refresh"}, at \in {"tasks", "events"}, Starts(kind, at, room)
  PROVE  /\ calls' \in Seq(Call) /\ Len(calls') <= MaxCalls
         /\ DOMAIN calls' = DOMAIN calls \cup {Len(calls) + 1}
         /\ Len(calls) + 1 \notin DOMAIN calls
         /\ calls'[Len(calls) + 1] = [kind |-> kind, at |-> at, room |-> room]
         /\ \A k \in DOMAIN calls : calls'[k] = calls[k]
<1>1. [kind |-> kind, at |-> at, room |-> room] \in Call
  BY DEF Call
<1> QED
  BY <1>1, CallAt, Distinct, AppendProperties DEF Starts

-----------------------------------------------------------------------------
LEMMA TrackerInitially == TrackerInit => TrackerIInv
<1> SUFFICES ASSUME TrackerInit PROVE TrackerIInv
  OBVIOUS
<1> USE Distinct DEF TrackerInit
<1>1. TrackerTypeOK
  <2>1. Idle \in Service
    BY DEF Idle, Service
  <2>2. calls \in Seq(Call) /\ Len(calls) <= MaxCalls
    OBVIOUS
  <2>3. {deal, seen} \subseteq DealStates /\ {changed, dirty, overtaken} \subseteq BOOLEAN
    BY DEF DealStates
  <2>4. DOMAIN stored = {"deal", "tasks", "events"}
    OBVIOUS
  <2> QED
    BY <2>1, <2>2, <2>3, <2>4 DEF TrackerTypeOK
<1>2. ServiceSound(tasks, "tasks") /\ ServiceSound(timeline, "events")
  BY DEF ServiceSound, Idle, Final
<1>3. ServicesFollow
  BY DEF ServicesFollow
<1>4. SnapshotStored
  BY DEF SnapshotStored
<1> QED
  BY <1>1, <1>2, <1>3, <1>4 DEF TrackerIInv

LEMMA RefreshDealsKeeps == TrackerIInv /\ RefreshDeals => TrackerIInv'
<1> SUFFICES ASSUME TrackerIInv, RefreshDeals PROVE TrackerIInv'
  OBVIOUS
<1> USE Distinct DEF TrackerIInv, RefreshDeals
<1>1. TrackerTypeOK'
  BY DEF TrackerTypeOK, DealStates
<1>2. ServiceSound(tasks, "tasks")' /\ ServiceSound(timeline, "events")'
  BY DEF ServiceSound
<1>3. ServicesFollow'
  BY DEF ServicesFollow, Syncing
<1>4. SnapshotStored'
  BY DEF SnapshotStored
<1> QED
  BY <1>1, <1>2, <1>3, <1>4

LEMMA DealsAnsweredKeeps == TrackerIInv /\ DealsAnswered => TrackerIInv'
<1> SUFFICES ASSUME TrackerIInv, DealsAnswered PROVE TrackerIInv'
  OBVIOUS
<1> USE Distinct DEF TrackerIInv, DealsAnswered
<1>1. TrackerTypeOK'
  BY DEF TrackerTypeOK
<1>2. ServiceSound(tasks, "tasks")' /\ ServiceSound(timeline, "events")'
  BY DEF ServiceSound
<1>3. ServicesFollow'
  BY DEF ServicesFollow, Syncing
<1>4. SnapshotStored'
  BY DEF SnapshotStored
<1> QED
  BY <1>1, <1>2, <1>3, <1>4

LEMMA PersistKeeps == TrackerIInv /\ PersistSnapshotIfReady => TrackerIInv'
<1> SUFFICES ASSUME TrackerIInv, PersistSnapshotIfReady PROVE TrackerIInv'
  OBVIOUS
<1> USE DEF TrackerIInv, PersistSnapshotIfReady
<1>1. TrackerTypeOK'
  <2>1. DOMAIN Snapshot = {"deal", "tasks", "events"}
    BY DEF Snapshot
  <2> QED
    BY <2>1 DEF TrackerTypeOK
<1>2. ServiceSound(tasks, "tasks")' /\ ServiceSound(timeline, "events")'
  BY DEF ServiceSound
<1>3. ServicesFollow'
  BY DEF ServicesFollow, Syncing
<1>4. SnapshotStored'
  BY DEF SnapshotStored, AllReady, Snapshot, DataOf
<1> QED
  BY <1>1, <1>2, <1>3, <1>4

LEMMA RefreshTasksKeeps == TrackerIInv /\ RefreshTasks => TrackerIInv'
<1> SUFFICES ASSUME TrackerIInv, RefreshTasks PROVE TrackerIInv'
  OBVIOUS
<1> DEFINE n == Len(calls) + 1
<1> USE Distinct
<1>0. TrackerTypeOK /\ tasks \in Service /\ timeline \in Service
  BY CallAt DEF TrackerIInv
<1>1. tasks.current \in Deals
  BY <1>0 DEF RefreshTasks, Service
<1>2. /\ calls' \in Seq(Call) /\ Len(calls') <= MaxCalls
      /\ DOMAIN calls' = DOMAIN calls \cup {n}
      /\ calls'[n] = [kind |-> "refresh", at |-> "tasks", room |-> tasks.current]
      /\ \A k \in DOMAIN calls : calls'[k] = calls[k]
  BY <1>0, <1>1, CallStarts DEF RefreshTasks
<1>3. /\ tasks' \in Service /\ tasks'.current = tasks.current
      /\ tasks'.state \in {"loading", "stale"}
  BY <1>0, <1>1, LoadingStarts DEF RefreshTasks
<1> HIDE DEF n
<1>4. TrackerTypeOK'
  BY <1>0, <1>2, <1>3 DEF TrackerTypeOK, RefreshTasks
<1>5. ServiceSound(tasks, "tasks")' /\ ServiceSound(timeline, "events")'
  BY <1>1, <1>2, <1>3 DEF ServiceSound, TrackerIInv, RefreshTasks, Final
<1>6. ServicesFollow'
  BY <1>1, <1>2, <1>3 DEF ServicesFollow, Syncing, TrackerIInv, RefreshTasks
<1>7. SnapshotStored'
  BY DEF SnapshotStored, RefreshTasks
<1> QED
  BY <1>4, <1>5, <1>6, <1>7 DEF TrackerIInv

LEMMA RefreshEventsKeeps == TrackerIInv /\ RefreshEvents => TrackerIInv'
<1> SUFFICES ASSUME TrackerIInv, RefreshEvents PROVE TrackerIInv'
  OBVIOUS
<1> DEFINE n == Len(calls) + 1
<1> USE Distinct
<1>0. TrackerTypeOK /\ tasks \in Service /\ timeline \in Service
  BY CallAt DEF TrackerIInv
<1>1. timeline.current \in Deals
  BY <1>0 DEF RefreshEvents, Service
<1>2. /\ calls' \in Seq(Call) /\ Len(calls') <= MaxCalls
      /\ DOMAIN calls' = DOMAIN calls \cup {n}
      /\ calls'[n] = [kind |-> "refresh", at |-> "events", room |-> timeline.current]
      /\ \A k \in DOMAIN calls : calls'[k] = calls[k]
  BY <1>0, <1>1, CallStarts DEF RefreshEvents
<1>3. /\ timeline' \in Service /\ timeline'.current = timeline.current
      /\ timeline'.state \in {"loading", "stale"}
  BY <1>0, <1>1, LoadingStarts DEF RefreshEvents
<1> HIDE DEF n
<1>4. TrackerTypeOK'
  BY <1>0, <1>2, <1>3 DEF TrackerTypeOK, RefreshEvents
<1>5. ServiceSound(tasks, "tasks")' /\ ServiceSound(timeline, "events")'
  BY <1>1, <1>2, <1>3 DEF ServiceSound, TrackerIInv, RefreshEvents, Final
<1>6. ServicesFollow'
  BY <1>1, <1>2, <1>3 DEF ServicesFollow, Syncing, TrackerIInv, RefreshEvents
<1>7. SnapshotStored'
  BY DEF SnapshotStored, RefreshEvents
<1> QED
  BY <1>4, <1>5, <1>6, <1>7 DEF TrackerIInv

LEMMA EventsAnsweredKeeps ==
  ASSUME TrackerIInv, NEW i \in DOMAIN calls, EventsAnswered(i)
  PROVE  TrackerIInv'
<1> USE Distinct
<1>0. /\ TrackerTypeOK /\ tasks \in Service /\ timeline \in Service
      /\ calls[i] \in Call /\ calls[i].room \in Deals
  BY CallAt DEF TrackerIInv
<1>1. /\ calls' \in Seq(Call) /\ Len(calls') = Len(calls) /\ DOMAIN calls' = DOMAIN calls
      /\ calls'[i].at = "end" /\ calls'[i].room = calls[i].room
      /\ \A k \in DOMAIN calls : k # i => calls'[k] = calls[k]
  BY <1>0, CallMoves DEF EventsAnswered
<1>2. /\ timeline' \in Service /\ timeline'.current = timeline.current
      /\ calls[i].room # timeline.current => timeline' = timeline
      /\ calls[i].room = timeline.current =>
           timeline'.of = calls[i].room /\ timeline'.state \in Final
  BY <1>0, AnswerTaken DEF EventsAnswered
<1>3. TrackerTypeOK'
  BY <1>0, <1>1, <1>2 DEF TrackerTypeOK, EventsAnswered
<1>4. ServiceSound(tasks, "tasks")'
  BY <1>0, <1>1 DEF ServiceSound, TrackerIInv, EventsAnswered
<1>5. ServiceSound(timeline, "events")'
  BY <1>0, <1>1, <1>2 DEF ServiceSound, TrackerIInv, EventsAnswered, Final
<1>6. ServicesFollow'
  <2>1. \A k \in DOMAIN calls : Syncing(k)' <=> Syncing(k)
    BY <1>1 DEF Syncing, EventsAnswered
  <2>2. \A k \in DOMAIN calls : Syncing(k) => k # i /\ calls'[k].room = calls[k].room
    BY <1>1 DEF Syncing, EventsAnswered
  <2>3. seen = NoDeal /\ timeline.state = "noDeal" => timeline' = timeline
    BY <1>0, <1>2 DEF TrackerIInv, ServiceSound
  <2> QED
    BY <1>0, <1>1, <1>2, <2>1, <2>2, <2>3 DEF ServicesFollow, TrackerIInv, EventsAnswered
<1>7. SnapshotStored'
  BY DEF SnapshotStored, EventsAnswered
<1> QED
  BY <1>3, <1>4, <1>5, <1>6, <1>7 DEF TrackerIInv

LEMMA TasksAnsweredKeeps ==
  ASSUME TrackerIInv, NEW i \in DOMAIN calls, TasksAnswered(i)
  PROVE  TrackerIInv'
<1> USE Distinct
<1> DEFINE next == IF calls[i].kind = "sync" THEN "events" ELSE "end"
<1>0. /\ TrackerTypeOK /\ tasks \in Service /\ timeline \in Service
      /\ calls[i] \in Call /\ calls[i].room \in Deals
  BY CallAt DEF TrackerIInv
<1>a. next \in {"events", "end"} /\ calls' = [calls EXCEPT ![i].at = next]
  BY DEF TasksAnswered
<1> HIDE DEF next
<1>1. /\ calls' \in Seq(Call) /\ Len(calls') = Len(calls) /\ DOMAIN calls' = DOMAIN calls
      /\ calls'[i].at = next /\ calls'[i].room = calls[i].room
      /\ \A k \in DOMAIN calls : k # i => calls'[k] = calls[k]
  BY <1>0, <1>a, CallMoves
<1>2. /\ tasks' \in Service /\ tasks'.current = tasks.current
      /\ calls[i].room # tasks.current => tasks' = tasks
      /\ calls[i].room = tasks.current => tasks'.of = calls[i].room /\ tasks'.state \in Final
  BY <1>0, AnswerTaken DEF TasksAnswered
<1>3. /\ timeline' \in Service
      /\ calls[i].kind = "sync" => /\ timeline'.current = calls[i].room
                                   /\ timeline'.state \in {"loading", "stale"}
                                   /\ next = "events"
      /\ calls[i].kind # "sync" => timeline' = timeline
  BY <1>0, LoadingStarts DEF TasksAnswered, next
<1>4. TrackerTypeOK'
  BY <1>0, <1>1, <1>2, <1>3 DEF TrackerTypeOK, TasksAnswered
<1>5. ServiceSound(tasks, "tasks")'
  BY <1>0, <1>1, <1>2 DEF ServiceSound, TrackerIInv, TasksAnswered, Final
<1>6. ServiceSound(timeline, "events")'
  <2>1. CASE calls[i].kind = "sync"
    BY <1>0, <1>1, <1>3, <2>1 DEF ServiceSound, Final
  <2>2. CASE calls[i].kind # "sync"
    BY <1>0, <1>1, <1>3, <2>2 DEF ServiceSound, TrackerIInv, TasksAnswered
  <2> QED
    BY <2>1, <2>2
<1>7. ServicesFollow'
  <2>1. \A k \in DOMAIN calls : Syncing(k)' => Syncing(k) /\ k # i
    BY <1>1, <1>a DEF Syncing
  <2>2. \A k \in DOMAIN calls : Syncing(k) /\ k # i => Syncing(k)' /\ calls'[k].room = calls[k].room
    BY <1>1 DEF Syncing
  <2>3. UNCHANGED <<seen, deal, overtaken>> /\ calls[i].at = "tasks"
    BY DEF TasksAnswered
  <2>4. seen = NoDeal => tasks' = tasks
    BY <1>0, <1>2 DEF TrackerIInv, ServicesFollow, ServiceSound
  <2>5. CASE calls[i].kind = "sync"
    <3>1. Syncing(i)
      BY <2>3, <2>5 DEF Syncing
    <3>2. ~overtaken => calls[i].room = seen /\ timeline'.current = seen
      BY <1>3, <2>5, <3>1 DEF TrackerIInv, ServicesFollow
    <3> QED
      BY <1>0, <1>1, <1>2, <2>1, <2>2, <2>3, <2>4, <3>2 DEF TrackerIInv, ServicesFollow
  <2>6. CASE calls[i].kind # "sync"
    <3>1. ~Syncing(i)
      BY <2>6 DEF Syncing
    <3> QED
      BY <1>0, <1>1, <1>2, <1>3, <2>1, <2>2, <2>3, <2>4, <2>6, <3>1 DEF TrackerIInv, ServicesFollow
  <2> QED
    BY <2>5, <2>6
<1>8. SnapshotStored'
  BY DEF SnapshotStored, TasksAnswered
<1> QED
  BY <1>4, <1>5, <1>6, <1>7, <1>8 DEF TrackerIInv

LEMMA ObserveKeeps == TrackerIInv /\ Observe => TrackerIInv'
<1> SUFFICES ASSUME TrackerIInv, Observe PROVE TrackerIInv'
  OBVIOUS
<1> USE Distinct
<1>0. /\ TrackerTypeOK /\ tasks \in Service /\ timeline \in Service /\ deal \in DealStates
      /\ seen' = deal /\ dirty' = TRUE /\ UNCHANGED <<deal, stored>> /\ changed' \in BOOLEAN
  BY CallAt DEF TrackerIInv, Observe, TrackerTypeOK
<1>1. SnapshotStored'
  BY <1>0 DEF SnapshotStored
<1>2. CASE seen = deal
  <2>1. UNCHANGED <<tasks, timeline, calls, overtaken, seen>>
    BY <1>0, <1>2 DEF Observe
  <2>2. TrackerTypeOK'
    BY <1>0, <2>1 DEF TrackerTypeOK
  <2>3. ServiceSound(tasks, "tasks")' /\ ServiceSound(timeline, "events")'
    BY <2>1 DEF ServiceSound, TrackerIInv
  <2>4. ServicesFollow'
    BY <1>0, <2>1 DEF ServicesFollow, Syncing, TrackerIInv
  <2> QED
    BY <1>1, <2>2, <2>3, <2>4 DEF TrackerIInv
<1>3. CASE seen # deal
  <2>1. /\ SyncChildServices
        /\ overtaken' = \E i \in DOMAIN calls : Syncing(i) /\ calls[i].room # deal
    BY <1>3 DEF Observe, Syncing
  <2>2. overtaken' \in BOOLEAN /\ (~overtaken' => \A i \in DOMAIN calls : Syncing(i) => calls[i].room = deal)
    BY <2>1
  <2>3. CASE deal \in Deals
    <3> PICK n : n = Len(calls) + 1
      OBVIOUS
    <3>1. Starts("sync", "tasks", deal) /\ tasks' = Loading(tasks, deal) /\ timeline' = timeline
      BY <2>1, <2>3 DEF SyncChildServices
    <3>2. /\ calls' \in Seq(Call) /\ Len(calls') <= MaxCalls
          /\ DOMAIN calls' = DOMAIN calls \cup {n} /\ n \notin DOMAIN calls
          /\ calls'[n] = [kind |-> "sync", at |-> "tasks", room |-> deal]
          /\ \A k \in DOMAIN calls : calls'[k] = calls[k]
      BY <1>0, <2>3, <3>1, CallStarts
    <3>3. tasks' \in Service /\ tasks'.current = deal /\ tasks'.state \in {"loading", "stale"}
      BY <1>0, <2>3, <3>1, LoadingStarts
    <3>4. TrackerTypeOK'
      BY <1>0, <2>2, <3>1, <3>2, <3>3 DEF TrackerTypeOK
    <3>5. ServiceSound(tasks, "tasks")'
      BY <2>3, <3>2, <3>3 DEF ServiceSound, Final
    <3>6. ServiceSound(timeline, "events")'
      BY <3>1, <3>2 DEF ServiceSound, TrackerIInv
    <3>7. ServicesFollow'
      <4>1. Syncing(n)' /\ calls'[n].room = deal
        BY <3>2 DEF Syncing
      <4>2. \A k \in DOMAIN calls : (Syncing(k)' <=> Syncing(k)) /\ calls'[k].room = calls[k].room
        BY <3>2 DEF Syncing
      <4> QED
        BY <1>0, <2>2, <2>3, <3>1, <3>2, <3>3, <4>1, <4>2 DEF ServicesFollow
    <3> QED
      BY <1>1, <3>4, <3>5, <3>6, <3>7 DEF TrackerIInv
  <2>4. CASE deal = NoDeal
    <3>1. tasks' = HandleNoActiveDeal /\ timeline' = HandleNoActiveDeal /\ calls' = calls
      BY <2>1, <2>4 DEF SyncChildServices
    <3>2. HandleNoActiveDeal \in Service
      BY DEF HandleNoActiveDeal, Service
    <3>3. TrackerTypeOK'
      BY <1>0, <2>2, <3>1, <3>2 DEF TrackerTypeOK
    <3>4. ServiceSound(tasks, "tasks")' /\ ServiceSound(timeline, "events")'
      BY <3>1 DEF ServiceSound, HandleNoActiveDeal, Final
    <3>5. ServicesFollow'
      BY <1>0, <2>2, <2>4, <3>1 DEF ServicesFollow, HandleNoActiveDeal, Syncing
    <3> QED
      BY <1>1, <3>3, <3>4, <3>5 DEF TrackerIInv
  <2>5. CASE deal \in {"loading", "error"}
    <3>1. UNCHANGED <<tasks, timeline, calls>>
      BY <2>1, <2>5 DEF SyncChildServices
    <3>2. TrackerTypeOK'
      BY <1>0, <2>2, <3>1 DEF TrackerTypeOK
    <3>3. ServiceSound(tasks, "tasks")' /\ ServiceSound(timeline, "events")'
      BY <3>1 DEF ServiceSound, TrackerIInv
    <3>4. ServicesFollow'
      BY <1>0, <2>2, <2>5, <3>1 DEF ServicesFollow, Syncing
    <3> QED
      BY <1>1, <3>2, <3>3, <3>4 DEF TrackerIInv
  <2> QED
    BY <1>0, <2>3, <2>4, <2>5 DEF DealStates
<1> QED
  BY <1>2, <1>3

LEMMA TrackerSteps == TrackerIInv /\ [TrackerNext]_trackerVars => TrackerIInv'
<1> SUFFICES ASSUME TrackerIInv, [TrackerNext]_trackerVars PROVE TrackerIInv'
  OBVIOUS
<1>1. CASE RefreshDeals
  BY <1>1, RefreshDealsKeeps
<1>2. CASE DealsAnswered
  BY <1>2, DealsAnsweredKeeps
<1>3. CASE Observe
  BY <1>3, ObserveKeeps
<1>4. CASE RefreshTasks
  BY <1>4, RefreshTasksKeeps
<1>5. CASE RefreshEvents
  BY <1>5, RefreshEventsKeeps
<1>6. CASE PersistSnapshotIfReady
  BY <1>6, PersistKeeps
<1>7. CASE \E i \in DOMAIN calls : TasksAnswered(i) \/ EventsAnswered(i)
  BY <1>7, TasksAnsweredKeeps, EventsAnsweredKeeps
<1>8. CASE UNCHANGED trackerVars
  BY <1>8 DEF trackerVars, TrackerIInv, TrackerTypeOK, ServiceSound, ServicesFollow, Syncing,
              SnapshotStored, AllReady, Snapshot, DataOf
<1> QED
  BY <1>1, <1>2, <1>3, <1>4, <1>5, <1>6, <1>7, <1>8 DEF TrackerNext

LEMMA TrackerIInvTells == TrackerIInv => TrackerTruthful
<1> SUFFICES ASSUME TrackerIInv, Settled, deal # "error"
             PROVE  /\ ShowsDeal(tasks)
                    /\ ShowsDeal(timeline) \/ overtaken
                    /\ AllReady => stored = Snapshot
  BY DEF TrackerTruthful, TabsOfCurrentDeal, TrackerIInv
<1> USE Distinct
<1>1. /\ seen = deal /\ deal \in Deals \cup {NoDeal} /\ ~changed /\ ~dirty
      /\ \A i \in DOMAIN calls : calls[i].at = "end"
      /\ tasks \in Service /\ timeline \in Service
  BY CallAt DEF Settled, TrackerIInv, TrackerTypeOK, DealStates
<1>2. ~(tasks.state \in {"loading", "stale"}) /\ ~(timeline.state \in {"loading", "stale"})
  BY <1>1 DEF TrackerIInv, ServiceSound
<1>3. ShowsDeal(tasks)
  BY <1>1, <1>2 DEF ShowsDeal, TrackerIInv, ServiceSound, ServicesFollow, Service, Final
<1>4. ShowsDeal(timeline) \/ overtaken
  BY <1>1, <1>2 DEF ShowsDeal, TrackerIInv, ServiceSound, ServicesFollow, Service, Final, Syncing
<1>5. AllReady => stored = Snapshot
  BY <1>1 DEF TrackerIInv, SnapshotStored
<1> QED
  BY <1>3, <1>4, <1>5

LEMMA TrackerInductive == TrackerSpec => []TrackerIInv
BY TrackerInitially, TrackerSteps, PTL DEF TrackerSpec

(***************************************************************************)
(* For every number of users, deals and calls in flight: once nothing is   *)
(* under way the phone keeps no file of a buyer who is not signed in, but  *)
(* for those a kill or a failed deletion exposed, and once every answer is *)
(* in, each tab shows what was answered last for the current deal, as      *)
(* DealCacheCoordinator.swift and the two services promise.                *)
(***************************************************************************)
THEOREM PhoneIsSound == CacheSpec /\ TrackerSpec => []PhoneSound
<1>1. (CacheTypeOK /\ CachePrivate /\ TrackerTruthful) => PhoneSound
  BY DEF PhoneSound
<1> QED
  BY <1>1, CacheInductive, CacheIInvTells, TrackerInductive, TrackerIInvTells, PTL

-----------------------------------------------------------------------------
\* UPDATES THE BUYER IS SHOWN.

\* What the trail of a row tells of it.
RowTells(row, trail) ==
  LET last == Len(trail)
  IN /\ last > 0
     /\ Cardinality(Told(trail, last)) = row.dedupeCount
     /\ \A n \in Told(trail, last) : trail[n].dedupeCount = Cardinality(Told(trail, n))
     /\ row.status = "seen" <=> trail[last].action = "seen"
     /\ row.status = "resolved" <=> trail[last].action = "resolved"
     /\ row.status = "resolved" <=> row.resolvedBy # "nobody"
     /\ row.resolvedBy = "broker" => trail[last].by = "broker"
     /\ \A n \in 1 .. last - 1 : trail[n].action = "resolved" => trail[n + 1].action = "bumped"

OneRowPerKey ==
  \A i, k \in DOMAIN updates : updates[i].dedupeKey = updates[k].dedupeKey => i = k

\* Rows have times of their own, of which the last is the one on the clock.
TimesTold ==
  /\ \A i, k \in DOMAIN updates : updates[i].emittedAt = updates[k].emittedAt => i = k
  /\ \A i \in DOMAIN updates :
       updates[i].emittedAt <= emissions /\ updates[i].dedupeCount <= emissions
  /\ emissions > 0 => \E i \in DOMAIN updates : updates[i].emittedAt = emissions

RowsTold == \A i \in DOMAIN updates : RowTells(updates[i], updateAudit[i])

UpdatesIInv ==
  /\ UpdateTypeOK /\ OneRowPerKey /\ TimesTold
  /\ Cardinality(NewsCounted) = emissions
  /\ RowsTold

ToldActions == {"emitted", "bumped"}

LEMMA ToldFinite ==
  ASSUME NEW trail \in Seq(AuditEntry), NEW n
  PROVE  IsFiniteSet(Told(trail, n)) /\ Cardinality(Told(trail, n)) \in Nat
<1>1. PICK l \in Nat : l = Len(trail) /\ DOMAIN trail = 1 .. l
  BY LenProperties
<1>2. IsFiniteSet(1 .. l)
  BY FS_Interval
<1>3. Told(trail, n) \subseteq 1 .. l
  BY <1>1 DEF Told
<1> QED
  BY <1>2, <1>3, FS_Subset, FS_CardinalityType

\* What one entry more adds to what is told.
LEMMA EntryAdded ==
  ASSUME NEW trail \in Seq(AuditEntry), NEW e \in AuditEntry
  PROVE  LET new == Append(trail, e)
             l == Len(trail)
         IN /\ new \in Seq(AuditEntry) /\ Len(new) = l + 1 /\ l \in Nat
            /\ \A n \in 1 .. l : new[n] = trail[n] /\ Told(new, n) = Told(trail, n)
            /\ new[l + 1] = e
            /\ Told(new, l + 1) =
                 Told(trail, l) \cup (IF e.action \in ToldActions THEN {l + 1} ELSE {})
            /\ Told(trail, l) \subseteq 1 .. l
<1>1. PICK l \in Nat : l = Len(trail) /\ DOMAIN trail = 1 .. l
  BY LenProperties
<1>2. PICK new : new = Append(trail, e)
  OBVIOUS
<1>3. /\ new \in Seq(AuditEntry) /\ Len(new) = l + 1
      /\ \A n \in 1 .. l : new[n] = trail[n]
      /\ new[l + 1] = e
  <2> HIDE DEF AuditEntry
  <2> QED
    BY <1>1, <1>2, AppendProperties
<1>4. DOMAIN new = 1 .. l + 1
  BY <1>3, LenProperties
<1>5. \A n \in 1 .. l + 1 : n \in 1 .. l \/ n = l + 1
  OBVIOUS
<1>6. \A n \in 1 .. l : n \in 1 .. l + 1 /\ n <= l
  OBVIOUS
<1>7. ASSUME NEW n \in 1 .. l
      PROVE  Told(new, n) = Told(trail, n)
  <2>1. \A m \in 1 .. l + 1 : m <= n => m \in 1 .. l
    OBVIOUS
  <2> QED
    BY <1>1, <1>3, <1>4, <1>6, <2>1 DEF Told
<1>8. Told(trail, l) \subseteq 1 .. l
  BY <1>1 DEF Told
<1>9. Told(new, l + 1) =
        Told(trail, l) \cup (IF e.action \in ToldActions THEN {l + 1} ELSE {})
  <2>1. ASSUME NEW m \in Told(new, l + 1)
        PROVE  m \in Told(trail, l) \cup (IF e.action \in ToldActions THEN {l + 1} ELSE {})
    <3>1. m \in 1 .. l + 1 /\ new[m].action \in ToldActions
      BY <1>4 DEF Told, ToldActions
    <3>2. CASE m \in 1 .. l
      BY <1>1, <1>3, <1>6, <3>1, <3>2 DEF Told, ToldActions
    <3>3. CASE m = l + 1
      BY <1>3, <3>1, <3>3
    <3> QED
      BY <1>5, <3>1, <3>2, <3>3
  <2>2. ASSUME NEW m \in Told(trail, l)
        PROVE  m \in Told(new, l + 1)
    <3>1. m \in 1 .. l /\ trail[m].action \in ToldActions
      BY <1>1 DEF Told, ToldActions
    <3>2. m <= l + 1
      BY <3>1
    <3> QED
      BY <1>3, <1>4, <1>6, <3>1, <3>2 DEF Told, ToldActions
  <2>3. ASSUME e.action \in ToldActions
        PROVE  l + 1 \in Told(new, l + 1)
    <3>1. l + 1 \in 1 .. l + 1 /\ l + 1 <= l + 1
      OBVIOUS
    <3> QED
      BY <1>3, <1>4, <2>3, <3>1 DEF Told, ToldActions
  <2> QED
    BY <2>1, <2>2, <2>3
<1> QED
  BY <1>1, <1>2, <1>3, <1>7, <1>8, <1>9

\* News: the count grows by one and the entry tells it.
LEMMA NewsTold ==
  ASSUME NEW row, NEW trail \in Seq(AuditEntry), RowTells(row, trail), row.dedupeCount \in Nat,
         NEW e \in AuditEntry, e.action = "bumped", e.dedupeCount = row.dedupeCount + 1,
         NEW new, new.dedupeCount = row.dedupeCount + 1, new.status = "pending",
         new.resolvedBy = "nobody"
  PROVE  RowTells(new, Append(trail, e))
<1>1. PICK l, longer : l = Len(trail) /\ longer = Append(trail, e)
  OBVIOUS
<1>2. /\ longer \in Seq(AuditEntry) /\ Len(longer) = l + 1 /\ l \in Nat
      /\ \A n \in 1 .. l : longer[n] = trail[n] /\ Told(longer, n) = Told(trail, n)
      /\ longer[l + 1] = e
      /\ Told(longer, l + 1) = Told(trail, l) \cup {l + 1}
      /\ Told(trail, l) \subseteq 1 .. l
  BY <1>1, EntryAdded DEF ToldActions
<1>3. l > 0 /\ Cardinality(Told(trail, l)) = row.dedupeCount
  BY <1>1 DEF RowTells
<1>4. Cardinality(Told(longer, l + 1)) = row.dedupeCount + 1
  <2>1. l + 1 \notin Told(trail, l)
    BY <1>2
  <2> QED
    BY <1>2, <1>3, <2>1, ToldFinite, FS_AddElement
<1>5. \A n \in Told(longer, l + 1) : longer[n].dedupeCount = Cardinality(Told(longer, n))
  <2> TAKE n \in Told(longer, l + 1)
  <2>1. CASE n \in Told(trail, l)
    BY <1>1, <1>2, <2>1 DEF RowTells
  <2>2. CASE n = l + 1
    BY <1>2, <1>4, <2>2
  <2> QED
    BY <1>2, <2>1, <2>2
<1>6. \A n \in 1 .. l : longer[n].action = "resolved" => longer[n + 1].action = "bumped"
  <2> TAKE n \in 1 .. l
  <2>1. CASE n = l
    BY <1>2, <2>1
  <2>2. CASE n # l
    <3>1. n \in 1 .. l - 1 /\ n + 1 \in 1 .. l
      BY <1>2, <2>2
    <3> QED
      BY <1>1, <1>2, <3>1 DEF RowTells
  <2> QED
    BY <2>1, <2>2
<1>7. l + 1 > 0 /\ (l + 1) - 1 = l
  BY <1>2
<1> QED
  BY <1>1, <1>2, <1>4, <1>5, <1>6, <1>7 DEF RowTells

\* Somebody looks or dismisses: what is told stays.
LEMMA ActTold ==
  ASSUME NEW row, NEW trail \in Seq(AuditEntry), RowTells(row, trail), row.status # "resolved",
         NEW e \in AuditEntry, e.action \in {"seen", "resolved"},
         NEW new, new.dedupeCount = row.dedupeCount, new.status = e.action,
         new.status = "resolved" <=> new.resolvedBy # "nobody",
         new.resolvedBy = "broker" => e.by = "broker"
  PROVE  RowTells(new, Append(trail, e))
<1>1. PICK l, longer : l = Len(trail) /\ longer = Append(trail, e)
  OBVIOUS
<1>2. /\ longer \in Seq(AuditEntry) /\ Len(longer) = l + 1 /\ l \in Nat
      /\ \A n \in 1 .. l : longer[n] = trail[n] /\ Told(longer, n) = Told(trail, n)
      /\ longer[l + 1] = e
      /\ Told(longer, l + 1) = Told(trail, l)
      /\ Told(trail, l) \subseteq 1 .. l
  <2>1. e.action \notin ToldActions
    BY DEF ToldActions
  <2>2. Told(longer, l + 1) = Told(trail, l) \cup {}
    BY <1>1, <2>1, EntryAdded
  <2> QED
    BY <1>1, <2>2, EntryAdded
<1>3. l > 0 /\ Cardinality(Told(trail, l)) = row.dedupeCount /\ trail[l].action # "resolved"
  BY <1>1 DEF RowTells
<1>4. \A n \in Told(longer, l + 1) : longer[n].dedupeCount = Cardinality(Told(longer, n))
  BY <1>1, <1>2 DEF RowTells
<1>5. \A n \in 1 .. l : longer[n].action = "resolved" => longer[n + 1].action = "bumped"
  <2> TAKE n \in 1 .. l
  <2>1. CASE n = l
    BY <1>2, <1>3, <2>1
  <2>2. CASE n # l
    <3>1. n \in 1 .. l - 1 /\ n + 1 \in 1 .. l
      BY <1>2, <2>2
    <3> QED
      BY <1>1, <1>2, <3>1 DEF RowTells
  <2> QED
    BY <2>1, <2>2
<1>6. l + 1 > 0 /\ (l + 1) - 1 = l
  BY <1>2
<1> QED
  BY <1>1, <1>2, <1>3, <1>4, <1>5, <1>6 DEF RowTells

LEMMA FirstTold ==
  ASSUME NEW e \in AuditEntry, e.action = "emitted", e.dedupeCount = 1,
         NEW row, row.dedupeCount = 1, row.status = "pending", row.resolvedBy = "nobody"
  PROVE  RowTells(row, <<e>>)
<1>1. PICK trail : trail = <<e>>
  OBVIOUS
<1>2. Len(trail) = 1 /\ trail[1] = e /\ DOMAIN trail = 1 .. 1
  BY <1>1
<1>3. Told(trail, 1) = {1}
  BY <1>2 DEF Told
<1>4. Cardinality({1}) = 1
  BY FS_Singleton
<1> QED
  BY <1>1, <1>2, <1>3, <1>4 DEF RowTells

LEMMA UpdateTables ==
  ASSUME UpdateTypeOK
  PROVE  \E m \in Nat : /\ m = Len(updates) /\ m = Len(updateAudit)
                        /\ DOMAIN updates = 1 .. m /\ DOMAIN updateAudit = 1 .. m
                        /\ \A i \in 1 .. m : updates[i] \in UpdateRow
                        /\ \A i \in 1 .. m : updateAudit[i] \in Seq(AuditEntry)
<1>1. updates \in Seq(UpdateRow) /\ updateAudit \in Seq(Seq(AuditEntry))
  BY DEF UpdateTypeOK
<1>2. PICK m \in Nat : m = Len(updates) /\ DOMAIN updates = 1 .. m
  BY <1>1, LenProperties
<1>3. PICK k \in Nat : k = Len(updateAudit) /\ DOMAIN updateAudit = 1 .. k
  BY <1>1, LenProperties
<1>4. 1 .. m = 1 .. k
  BY <1>2, <1>3 DEF UpdateTypeOK
<1>5. m = k
  BY <1>4
<1>6. \A i \in 1 .. m : updates[i] \in UpdateRow
  <2> HIDE DEF UpdateRow
  <2> QED
    BY <1>1, <1>2
<1>7. \A i \in 1 .. m : updateAudit[i] \in Seq(AuditEntry)
  <2> HIDE DEF AuditEntry
  <2> QED
    BY <1>1, <1>3, <1>5
<1> QED
  BY <1>2, <1>3, <1>5, <1>6, <1>7

LEMMA NewsFinite ==
  ASSUME UpdateTypeOK
  PROVE  IsFiniteSet(NewsCounted)
<1>1. PICK m \in Nat : DOMAIN updates = 1 .. m
  BY UpdateTables
<1>2. IsFiniteSet(1 .. m) /\ IsFiniteSet(1 .. MaxEmissions)
  BY BuyerEventsAssumption, FS_Interval
<1>3. IsFiniteSet((1 .. m) \X (1 .. MaxEmissions))
  BY <1>2, FS_Product
<1>4. NewsCounted \subseteq (1 .. m) \X (1 .. MaxEmissions)
  BY <1>1 DEF NewsCounted
<1> QED
  BY <1>3, <1>4, FS_Subset

\* A row is replaced, and its trail grows by an entry.
LEMMA RowReplacedKeeps ==
  ASSUME UpdatesIInv, NEW i \in DOMAIN updates, NEW row \in UpdateRow, NEW e \in AuditEntry,
         updates' = [updates EXCEPT ![i] = row],
         updateAudit' = [updateAudit EXCEPT ![i] = Append(updateAudit[i], e)],
         emissions' \in 0 .. MaxEmissions, row.dedupeKey = updates[i].dedupeKey,
         RowTells(row, Append(updateAudit[i], e))
  PROVE  /\ UpdateTypeOK' /\ OneRowPerKey'
         /\ DOMAIN updates' = DOMAIN updates /\ updates'[i] = row
         /\ \A k \in DOMAIN updates : k # i => updates'[k] = updates[k]
         /\ RowsTold'
<1>1. UpdateTypeOK /\ \A k \in DOMAIN updates : RowTells(updates[k], updateAudit[k])
  BY DEF UpdatesIInv, RowsTold
<1>2. PICK m \in Nat : /\ m = Len(updates) /\ m = Len(updateAudit)
                       /\ DOMAIN updates = 1 .. m /\ DOMAIN updateAudit = 1 .. m
                       /\ \A k \in 1 .. m : updates[k] \in UpdateRow
                       /\ \A k \in 1 .. m : updateAudit[k] \in Seq(AuditEntry)
  BY <1>1, UpdateTables
<1>3. PICK trail : trail = Append(updateAudit[i], e)
  OBVIOUS
<1>4. trail \in Seq(AuditEntry)
  <2>1. updateAudit[i] \in Seq(AuditEntry)
    BY <1>2
  <2> QED
    BY <1>3, <2>1, EntryAdded
<1>5. /\ DOMAIN updates' = 1 .. m /\ updates'[i] = row
      /\ \A k \in 1 .. m : k # i => updates'[k] = updates[k]
  BY <1>2
<1>6. /\ DOMAIN updateAudit' = 1 .. m /\ updateAudit'[i] = trail
      /\ \A k \in 1 .. m : k # i => updateAudit'[k] = updateAudit[k]
  BY <1>2, <1>3
<1>7. updates' \in Seq(UpdateRow)
  <2>1. updates \in Seq(UpdateRow)
    BY <1>1 DEF UpdateTypeOK
  <2> HIDE DEF UpdateRow
  <2> QED
    BY <1>2, <2>1, ExceptSeq
<1>8. updateAudit' \in Seq(Seq(AuditEntry))
  <2>1. updateAudit \in Seq(Seq(AuditEntry))
    BY <1>1 DEF UpdateTypeOK
  <2> HIDE DEF AuditEntry
  <2> QED
    BY <1>2, <1>3, <1>4, <2>1, ExceptSeq
<1>9. UpdateTypeOK'
  BY <1>5, <1>6, <1>7, <1>8 DEF UpdateTypeOK, AuditEntry, UpdateRow
<1>10. OneRowPerKey'
  <2>1. \A k \in 1 .. m : updates'[k].dedupeKey = updates[k].dedupeKey
    BY <1>5
  <2> QED
    BY <1>2, <1>5, <2>1 DEF OneRowPerKey, UpdatesIInv
<1>11. \A k \in 1 .. m : RowTells(updates'[k], updateAudit'[k])
  BY <1>1, <1>2, <1>3, <1>5, <1>6
<1>12. RowsTold'
  BY <1>5, <1>11 DEF RowsTold, RowTells, Told
<1> QED
  BY <1>2, <1>5, <1>9, <1>10, <1>12

NewEmission ==
  emissions \in Nat /\ emissions < MaxEmissions /\ emissions' = emissions + 1

LEMMA NewRowKeeps ==
  ASSUME UpdatesIInv, NEW key \in DedupeKeys, NEW priority \in Priorities, NewEmission,
         RowFor(key) = {}, updates' = Append(updates, NewUpdate(key, priority)),
         updateAudit' = Append(updateAudit,
             <<[action |-> "emitted", by |-> "system", dedupeCount |-> 1]>>)
  PROVE  UpdatesIInv'
<1>1. /\ UpdateTypeOK /\ OneRowPerKey /\ TimesTold /\ Cardinality(NewsCounted) = emissions
      /\ \A k \in DOMAIN updates : RowTells(updates[k], updateAudit[k])
  BY DEF UpdatesIInv, RowsTold
<1>2. PICK m \in Nat : /\ m = Len(updates) /\ m = Len(updateAudit)
                       /\ DOMAIN updates = 1 .. m /\ DOMAIN updateAudit = 1 .. m
                       /\ \A k \in 1 .. m : updates[k] \in UpdateRow
                       /\ \A k \in 1 .. m : updateAudit[k] \in Seq(AuditEntry)
  BY <1>1, UpdateTables
<1>3. PICK t \in Nat : t = emissions + 1 /\ emissions' = t /\ t \in 1 .. MaxEmissions
  BY BuyerEventsAssumption DEF NewEmission
<1>4. PICK row : row = NewUpdate(key, priority)
  OBVIOUS
<1>5. /\ row.dedupeKey = key /\ row.status = "pending" /\ row.emittedAt = t
      /\ row.dedupeCount = 1 /\ row.resolvedBy = "nobody"
  BY <1>3, <1>4 DEF NewUpdate
<1>6. row \in UpdateRow
  <2>1. 1 \in 1 .. MaxEmissions
    BY <1>3, BuyerEventsAssumption
  <2>2. row = [dedupeKey |-> key, status |-> "pending", priority |-> priority,
               emittedAt |-> t, createdAt |-> t, dedupeCount |-> 1, resolvedBy |-> "nobody"]
    BY <1>3, <1>4 DEF NewUpdate
  <2> HIDE DEF Priorities
  <2> QED
    BY <1>3, <2>1, <2>2 DEF UpdateRow, UpdateStatuses
<1>7. PICK e : e = [action |-> "emitted", by |-> "system", dedupeCount |-> 1]
  OBVIOUS
<1>8. e \in AuditEntry /\ e.action = "emitted" /\ e.dedupeCount = 1
  <2>1. 1 \in 0 .. MaxEmissions
    BY <1>3, BuyerEventsAssumption
  <2> QED
    BY <1>7, <2>1 DEF AuditEntry
<1>9. PICK trail : trail = <<e>>
  OBVIOUS
<1>10. trail \in Seq(AuditEntry)
  <2> HIDE DEF AuditEntry
  <2> QED
    BY <1>8, <1>9
<1>11. RowTells(row, trail)
  BY <1>5, <1>8, <1>9, FirstTold
<1>12. /\ updates' \in Seq(UpdateRow) /\ Len(updates') = m + 1
       /\ \A k \in 1 .. m : updates'[k] = updates[k]
       /\ updates'[m + 1] = row
  <2>1. updates \in Seq(UpdateRow)
    BY <1>1 DEF UpdateTypeOK
  <2> HIDE DEF UpdateRow
  <2> QED
    BY <1>2, <1>4, <1>6, <2>1, AppendProperties
<1>13. /\ updateAudit' \in Seq(Seq(AuditEntry)) /\ Len(updateAudit') = m + 1
       /\ \A k \in 1 .. m : updateAudit'[k] = updateAudit[k]
       /\ updateAudit'[m + 1] = trail
  <2>1. updateAudit \in Seq(Seq(AuditEntry))
    BY <1>1 DEF UpdateTypeOK
  <2>2. updateAudit' = Append(updateAudit, trail)
    BY <1>7, <1>9
  <2> DEFINE Trails == Seq(AuditEntry)
  <2>3. updateAudit \in Seq(Trails) /\ trail \in Trails
    BY <1>10, <2>1
  <2> HIDE DEF Trails
  <2>4. /\ updateAudit' \in Seq(Trails) /\ Len(updateAudit') = m + 1
        /\ \A k \in 1 .. m : updateAudit'[k] = updateAudit[k]
        /\ updateAudit'[m + 1] = trail
    BY <1>2, <2>2, <2>3, AppendProperties, SMTT(30)
  <2> QED
    BY <2>4 DEF Trails
<1>14. DOMAIN updates' = 1 .. m + 1 /\ DOMAIN updateAudit' = 1 .. m + 1
  BY <1>12, <1>13, LenProperties
<1>15. \A k \in 1 .. m + 1 : k \in 1 .. m \/ k = m + 1
  OBVIOUS
<1>16. \A k \in 1 .. m : k \in 1 .. m + 1 /\ k # m + 1
  OBVIOUS
<1>17. UpdateTypeOK'
  <2>1. emissions' \in 0 .. MaxEmissions
    BY <1>3
  <2> QED
    BY <1>12, <1>13, <1>14, <2>1 DEF UpdateTypeOK, AuditEntry, UpdateRow
<1>18. OneRowPerKey'
  <2>1. \A k \in 1 .. m : updates[k].dedupeKey # key
    BY <1>2 DEF RowFor
  <2> QED
    BY <1>1, <1>2, <1>5, <1>12, <1>14, <1>15, <2>1 DEF OneRowPerKey
<1>19. TimesTold'
  <2>1. \A k \in 1 .. m : /\ updates[k].emittedAt \in Nat /\ updates[k].emittedAt <= emissions
                          /\ updates[k].dedupeCount \in Nat /\ updates[k].dedupeCount <= emissions
    <3> TAKE k \in 1 .. m
    <3>1. updates[k].emittedAt \in 1 .. MaxEmissions /\ updates[k].dedupeCount \in 1 .. MaxEmissions
      BY <1>2 DEF UpdateRow
    <3> QED
      BY <1>1, <1>2, <3>1, BuyerEventsAssumption DEF TimesTold
  <2>a. t = emissions + 1 /\ emissions \in Nat
    BY <1>3 DEF NewEmission
  <2>2. \A k \in 1 .. m : updates[k].emittedAt < t /\ updates[k].dedupeCount < t
    <3> TAKE k \in 1 .. m
    <3>1. PICK a \in Nat, b \in Nat : a = updates[k].emittedAt /\ b = updates[k].dedupeCount
      BY <2>1
    <3>2. a <= emissions /\ b <= emissions
      BY <2>1, <3>1
    <3>3. a < t /\ b < t
      BY <2>a, <3>2
    <3> QED
      BY <3>1, <3>3
  <2>3. \A i, k \in 1 .. m + 1 : updates'[i].emittedAt = updates'[k].emittedAt => i = k
    <3> TAKE i, k \in 1 .. m + 1
    <3>1. CASE i \in 1 .. m /\ k \in 1 .. m
      BY <1>1, <1>2, <1>12, <3>1 DEF TimesTold
    <3>2. CASE i \in 1 .. m /\ k = m + 1
      BY <1>3, <1>5, <1>12, <2>1, <2>2, <3>2
    <3>3. CASE i = m + 1 /\ k \in 1 .. m
      BY <1>3, <1>5, <1>12, <2>1, <2>2, <3>3
    <3> QED
      BY <1>15, <3>1, <3>2, <3>3
  <2>4. \A i \in 1 .. m + 1 : updates'[i].emittedAt <= t /\ updates'[i].dedupeCount <= t
    <3> TAKE i \in 1 .. m + 1
    <3>1. CASE i \in 1 .. m
      BY <1>12, <2>1, <2>2, <3>1
    <3>2. CASE i = m + 1
      BY <1>3, <1>5, <1>12, <3>2
    <3> QED
      BY <1>15, <3>1, <3>2
  <2>5. m + 1 \in 1 .. m + 1 /\ updates'[m + 1].emittedAt = t
    BY <1>5, <1>12
  <2> QED
    BY <1>3, <1>14, <2>3, <2>4, <2>5 DEF TimesTold
<1>20. Cardinality(NewsCounted') = emissions'
  <2>1. <<m + 1, 1>> \notin NewsCounted
    BY <1>2, <1>16 DEF NewsCounted
  <2>2. NewsCounted' = NewsCounted \cup {<<m + 1, 1>>}
    <3>1. ASSUME NEW news \in NewsCounted'
          PROVE  news \in NewsCounted \cup {<<m + 1, 1>>}
      <4>1. PICK k \in 1 .. m + 1, n \in 1 .. MaxEmissions :
              news = <<k, n>> /\ n <= updates'[k].dedupeCount
        BY <1>14 DEF NewsCounted
      <4>2. CASE k \in 1 .. m
        BY <1>2, <1>12, <4>1, <4>2 DEF NewsCounted
      <4>3. CASE k = m + 1
        <5>1. n = 1
          BY <1>5, <1>12, <4>1, <4>3
        <5> QED
          BY <4>1, <4>3, <5>1
      <4> QED
        BY <1>15, <4>2, <4>3
    <3>2. ASSUME NEW news \in NewsCounted
          PROVE  news \in NewsCounted'
      <4>1. PICK k \in 1 .. m, n \in 1 .. MaxEmissions :
              news = <<k, n>> /\ n <= updates[k].dedupeCount
        BY <1>2 DEF NewsCounted
      <4> QED
        BY <1>12, <1>14, <1>16, <4>1 DEF NewsCounted
    <3>3. <<m + 1, 1>> \in NewsCounted'
      <4>1. m + 1 \in 1 .. m + 1 /\ 1 \in 1 .. MaxEmissions /\ 1 <= updates'[m + 1].dedupeCount
        BY <1>3, <1>5, <1>12, BuyerEventsAssumption
      <4> QED
        BY <1>14, <4>1 DEF NewsCounted
    <3> QED
      BY <3>1, <3>2, <3>3
  <2>3. Cardinality(NewsCounted') = Cardinality(NewsCounted) + 1
    BY <1>1, <2>1, <2>2, NewsFinite, FS_AddElement
  <2> QED
    BY <1>1, <1>3, <2>3
<1>21. \A k \in 1 .. m + 1 : RowTells(updates'[k], updateAudit'[k])
  BY <1>1, <1>2, <1>11, <1>12, <1>13, <1>15
<1>22. RowsTold'
  BY <1>14, <1>21, ZenonT(60) DEF RowsTold, RowTells, Told
<1> QED
  BY <1>17, <1>18, <1>19, <1>20, <1>22 DEF UpdatesIInv

LEMMA BumpKeeps ==
  ASSUME UpdatesIInv, NEW i \in DOMAIN updates, NEW priority \in Priorities, NewEmission,
         updates' = [updates EXCEPT ![i] = Bumped(@, priority)],
         Log(i, "bumped", "system", updates[i].dedupeCount + 1)
  PROVE  UpdatesIInv'
<1>1. UpdateTypeOK /\ TimesTold /\ Cardinality(NewsCounted) = emissions /\ RowsTold
  BY DEF UpdatesIInv
<1>2. PICK m \in Nat : /\ DOMAIN updates = 1 .. m
                       /\ \A k \in 1 .. m : updates[k] \in UpdateRow
                       /\ \A k \in 1 .. m : updateAudit[k] \in Seq(AuditEntry)
  BY <1>1, UpdateTables
<1>3. PICK t \in Nat : t = emissions + 1 /\ emissions' = t /\ t \in 1 .. MaxEmissions
  BY BuyerEventsAssumption DEF NewEmission
<1>4. \A k \in 1 .. m : /\ updates[k].emittedAt \in Nat /\ updates[k].emittedAt < t
                        /\ updates[k].dedupeCount \in 1 .. MaxEmissions
                        /\ updates[k].dedupeCount < t
  <2> TAKE k \in 1 .. m
  <2>1. updates[k].emittedAt \in 1 .. MaxEmissions /\ updates[k].dedupeCount \in 1 .. MaxEmissions
    BY <1>2 DEF UpdateRow
  <2> QED
    BY <1>1, <1>2, <1>3, <2>1, BuyerEventsAssumption DEF TimesTold, NewEmission
<1>5. PICK old : old = updates[i] /\ old \in UpdateRow
  BY <1>2
<1>6. PICK c : c = old.dedupeCount /\ c \in 1 .. MaxEmissions /\ c + 1 \in 1 .. MaxEmissions
               /\ c + 1 <= t /\ c \in Nat
  <2>1. old.dedupeCount \in 1 .. MaxEmissions /\ old.dedupeCount < t
    BY <1>2, <1>4, <1>5
  <2> QED
    BY <1>3, <2>1, BuyerEventsAssumption
<1>7. PICK row : row = Bumped(old, priority)
  OBVIOUS
<1>8. row = [dedupeKey |-> old.dedupeKey, status |-> "pending", priority |-> priority,
             emittedAt |-> t, createdAt |-> old.createdAt, dedupeCount |-> c + 1,
             resolvedBy |-> "nobody"]
  BY <1>3, <1>5, <1>6, <1>7 DEF Bumped, UpdateRow
<1>9. /\ row.dedupeKey = old.dedupeKey /\ row.status = "pending" /\ row.emittedAt = t
      /\ row.dedupeCount = c + 1 /\ row.resolvedBy = "nobody"
  BY <1>8
<1>10. row \in UpdateRow
  <2>1. old.dedupeKey \in DedupeKeys /\ old.createdAt \in 1 .. MaxEmissions
    BY <1>5 DEF UpdateRow
  <2> HIDE DEF Priorities
  <2> QED
    BY <1>3, <1>6, <1>8, <2>1 DEF UpdateRow, UpdateStatuses
<1>11. PICK e : e = [action |-> "bumped", by |-> "system", dedupeCount |-> c + 1]
  OBVIOUS
<1>12. e \in AuditEntry /\ e.action = "bumped" /\ e.dedupeCount = c + 1
  <2>1. c + 1 \in 0 .. MaxEmissions
    BY <1>6
  <2> QED
    BY <1>11, <2>1 DEF AuditEntry
<1>13. RowTells(row, Append(updateAudit[i], e))
  <2>1. RowTells(old, updateAudit[i]) /\ updateAudit[i] \in Seq(AuditEntry)
    BY <1>1, <1>2, <1>5 DEF RowsTold
  <2> HIDE DEF AuditEntry
  <2> QED
    BY <1>6, <1>9, <1>12, <2>1, NewsTold
<1>14. /\ updates' = [updates EXCEPT ![i] = row]
       /\ updateAudit' = [updateAudit EXCEPT ![i] = Append(updateAudit[i], e)]
  <2>1. updates' = [updates EXCEPT ![i] = Bumped(updates[i], priority)]
    BY <1>2
  <2>2. DOMAIN updateAudit = DOMAIN updates
    BY <1>1 DEF UpdateTypeOK
  <2>3. updateAudit' = [updateAudit EXCEPT ![i] = Append(updateAudit[i], e)]
    BY <1>5, <1>6, <1>11, <2>2 DEF Log
  <2> QED
    BY <1>5, <1>7, <2>1, <2>3
<1>15. /\ UpdateTypeOK' /\ OneRowPerKey'
       /\ DOMAIN updates' = 1 .. m /\ updates'[i] = row
       /\ \A k \in 1 .. m : k # i => updates'[k] = updates[k]
       /\ RowsTold'
  <2>1. emissions' \in 0 .. MaxEmissions /\ row.dedupeKey = updates[i].dedupeKey
    BY <1>3, <1>5, <1>9
  <2> HIDE DEF AuditEntry, UpdateRow
  <2> QED
    BY <1>2, <1>10, <1>12, <1>13, <1>14, <2>1, RowReplacedKeeps
<1>16. i \in 1 .. m
  BY <1>2
<1>17. TimesTold'
  <2>1. \A a, b \in 1 .. m : updates'[a].emittedAt = updates'[b].emittedAt => a = b
    <3> TAKE a, b \in 1 .. m
    <3>1. CASE a # i /\ b # i
      BY <1>1, <1>2, <1>15, <3>1 DEF TimesTold
    <3>2. CASE a = i /\ b # i
      BY <1>4, <1>9, <1>15, <3>2
    <3>3. CASE a # i /\ b = i
      BY <1>4, <1>9, <1>15, <3>3
    <3> QED
      BY <3>1, <3>2, <3>3
  <2>2. \A a \in 1 .. m : updates'[a].emittedAt <= t /\ updates'[a].dedupeCount <= t
    <3> TAKE a \in 1 .. m
    <3>1. CASE a # i
      BY <1>4, <1>15, <3>1
    <3>2. CASE a = i
      BY <1>3, <1>6, <1>9, <1>15, <3>2
    <3> QED
      BY <3>1, <3>2
  <2> QED
    BY <1>3, <1>9, <1>15, <1>16, <2>1, <2>2 DEF TimesTold
<1>18. Cardinality(NewsCounted') = emissions'
  <2>1. <<i, c + 1>> \notin NewsCounted
    BY <1>5, <1>6 DEF NewsCounted
  <2>2. NewsCounted' = NewsCounted \cup {<<i, c + 1>>}
    <3>1. ASSUME NEW news \in NewsCounted'
          PROVE  news \in NewsCounted \cup {<<i, c + 1>>}
      <4>1. PICK k \in 1 .. m, n \in 1 .. MaxEmissions :
              news = <<k, n>> /\ n <= updates'[k].dedupeCount
        BY <1>15 DEF NewsCounted
      <4>2. CASE k # i
        BY <1>2, <1>15, <4>1, <4>2 DEF NewsCounted
      <4>3. CASE k = i
        <5>1. n = c + 1 \/ n <= c
          BY <1>6, <1>9, <1>15, <4>1, <4>3
        <5> QED
          BY <1>2, <1>5, <1>6, <4>1, <4>3, <5>1 DEF NewsCounted
      <4> QED
        BY <4>2, <4>3
    <3>2. ASSUME NEW news \in NewsCounted
          PROVE  news \in NewsCounted'
      <4>1. PICK k \in 1 .. m, n \in 1 .. MaxEmissions :
              news = <<k, n>> /\ n <= updates[k].dedupeCount
        BY <1>2 DEF NewsCounted
      <4>2. n <= updates'[k].dedupeCount
        <5>1. CASE k = i
          <6>1. n <= c /\ updates'[k].dedupeCount = c + 1
            BY <1>5, <1>6, <1>9, <1>15, <4>1, <5>1
          <6> QED
            BY <1>6, <6>1
        <5>2. CASE k # i
          BY <1>15, <4>1, <5>2
        <5> QED
          BY <5>1, <5>2
      <4> QED
        BY <1>15, <4>1, <4>2 DEF NewsCounted
    <3>3. <<i, c + 1>> \in NewsCounted'
      <4>1. c + 1 \in 1 .. MaxEmissions /\ c + 1 <= updates'[i].dedupeCount
        BY <1>6, <1>9, <1>15
      <4> QED
        BY <1>15, <1>16, <4>1 DEF NewsCounted
    <3> QED
      BY <3>1, <3>2, <3>3
  <2>3. Cardinality(NewsCounted') = Cardinality(NewsCounted) + 1
    BY <1>1, <2>1, <2>2, NewsFinite, FS_AddElement
  <2> QED
    BY <1>1, <1>3, <2>3
<1> QED
  BY <1>15, <1>17, <1>18 DEF UpdatesIInv

\* A row whose status changes, as one entry says.
LEMMA StatusKeeps ==
  ASSUME UpdatesIInv, NEW i \in DOMAIN updates, updates[i].status # "resolved",
         NEW status \in {"seen", "resolved"}, NEW person \in People,
         NEW resolvedBy \in People \cup {"nobody"},
         status = "resolved" <=> resolvedBy # "nobody",
         resolvedBy = "broker" => person = "broker",
         updates' = [updates EXCEPT ![i] =
                       [updates[i] EXCEPT !.status = status, !.resolvedBy = resolvedBy]],
         Log(i, status, person, 0), emissions' = emissions
  PROVE  UpdatesIInv'
<1>1. UpdateTypeOK /\ TimesTold /\ Cardinality(NewsCounted) = emissions /\ RowsTold
  BY DEF UpdatesIInv
<1>2. PICK m \in Nat : /\ DOMAIN updates = 1 .. m
                       /\ \A k \in 1 .. m : updates[k] \in UpdateRow
                       /\ \A k \in 1 .. m : updateAudit[k] \in Seq(AuditEntry)
  BY <1>1, UpdateTables
<1>3. PICK old : old = updates[i] /\ old \in UpdateRow
  BY <1>2
<1>4. PICK row : row = [old EXCEPT !.status = status, !.resolvedBy = resolvedBy]
  OBVIOUS
<1>5. row = [dedupeKey |-> old.dedupeKey, status |-> status, priority |-> old.priority,
             emittedAt |-> old.emittedAt, createdAt |-> old.createdAt,
             dedupeCount |-> old.dedupeCount, resolvedBy |-> resolvedBy]
  BY <1>3, <1>4 DEF UpdateRow
<1>6. /\ row.dedupeKey = old.dedupeKey /\ row.status = status /\ row.emittedAt = old.emittedAt
      /\ row.dedupeCount = old.dedupeCount /\ row.resolvedBy = resolvedBy
  BY <1>5
<1>7. row \in UpdateRow
  BY <1>3, <1>5 DEF UpdateRow, UpdateStatuses
<1>8. PICK e : e = [action |-> status, by |-> person, dedupeCount |-> 0]
  OBVIOUS
<1>9. e \in AuditEntry /\ e.action = status /\ e.by = person
  <2>1. 0 \in 0 .. MaxEmissions
    BY BuyerEventsAssumption
  <2>2. status \in {"emitted", "bumped", "seen", "resolved"} /\ person \in People \cup {"system"}
    OBVIOUS
  <2> HIDE DEF People
  <2> QED
    BY <1>8, <2>1, <2>2 DEF AuditEntry
<1>10. RowTells(row, Append(updateAudit[i], e))
  <2>1. RowTells(old, updateAudit[i]) /\ updateAudit[i] \in Seq(AuditEntry)
    BY <1>1, <1>2, <1>3 DEF RowsTold
  <2>2. /\ row.status = "resolved" <=> row.resolvedBy # "nobody"
        /\ row.resolvedBy = "broker" => e.by = "broker"
        /\ row.status = e.action /\ e.action \in {"seen", "resolved"}
        /\ row.dedupeCount = old.dedupeCount /\ old.status # "resolved"
    BY <1>3, <1>6, <1>9
  <2> HIDE DEF AuditEntry
  <2> QED
    BY <1>9, <2>1, <2>2, ActTold
<1>11. /\ updates' = [updates EXCEPT ![i] = row]
       /\ updateAudit' = [updateAudit EXCEPT ![i] = Append(updateAudit[i], e)]
  <2>1. DOMAIN updateAudit = DOMAIN updates
    BY <1>1 DEF UpdateTypeOK
  <2>2. updateAudit' = [updateAudit EXCEPT ![i] = Append(updateAudit[i], e)]
    BY <1>8, <2>1 DEF Log
  <2> QED
    BY <1>3, <1>4, <2>2
<1>12. /\ UpdateTypeOK' /\ OneRowPerKey'
       /\ DOMAIN updates' = 1 .. m /\ updates'[i] = row
       /\ \A k \in 1 .. m : k # i => updates'[k] = updates[k]
       /\ RowsTold'
  <2>1. emissions' \in 0 .. MaxEmissions /\ row.dedupeKey = updates[i].dedupeKey
    BY <1>1, <1>3, <1>6 DEF UpdateTypeOK
  <2> HIDE DEF AuditEntry, UpdateRow
  <2> QED
    BY <1>2, <1>7, <1>9, <1>10, <1>11, <2>1, RowReplacedKeeps
<1>13. \A k \in 1 .. m : /\ updates'[k].emittedAt = updates[k].emittedAt
                         /\ updates'[k].dedupeCount = updates[k].dedupeCount
  BY <1>3, <1>6, <1>12
<1>14. TimesTold'
  BY <1>1, <1>2, <1>12, <1>13 DEF TimesTold
<1>15. NewsCounted' = NewsCounted
  <2>1. NewsCounted' = {news \in (1 .. m) \X (1 .. MaxEmissions) :
                          news[2] <= updates'[news[1]].dedupeCount}
    BY <1>12 DEF NewsCounted
  <2>2. NewsCounted = {news \in (1 .. m) \X (1 .. MaxEmissions) :
                         news[2] <= updates[news[1]].dedupeCount}
    BY <1>2 DEF NewsCounted
  <2>3. \A news \in (1 .. m) \X (1 .. MaxEmissions) :
          updates'[news[1]].dedupeCount = updates[news[1]].dedupeCount
    BY <1>13
  <2> QED
    BY <2>1, <2>2, <2>3
<1> QED
  BY <1>1, <1>12, <1>14, <1>15 DEF UpdatesIInv

LEMMA UpdatesStep == UpdatesIInv /\ [UpdateNext]_updateVars => UpdatesIInv'
<1> SUFFICES ASSUME UpdatesIInv, [UpdateNext]_updateVars
             PROVE  UpdatesIInv'
  OBVIOUS
<1>1. CASE \E key \in DedupeKeys : \E priority \in {PriorityOf[key], 3} : Emit(key, priority)
  <2>1. PICK key \in DedupeKeys, priority \in Priorities : Emit(key, priority)
    <3>1. PICK key \in DedupeKeys : \E priority \in {PriorityOf[key], 3} : Emit(key, priority)
      BY <1>1
    <3>2. PriorityOf[key] \in Priorities /\ 3 \in Priorities
      BY BuyerEventsAssumption DEF Priorities
    <3> QED
      BY <3>1, <3>2
  <2>2. NewEmission
    BY <2>1, BuyerEventsAssumption DEF NewEmission, Emit, UpdatesIInv, UpdateTypeOK
  <2>3. CASE RowFor(key) = {}
    <3>1. /\ updates' = Append(updates, NewUpdate(key, priority))
          /\ updateAudit' = Append(updateAudit,
               <<[action |-> "emitted", by |-> "system", dedupeCount |-> 1]>>)
      BY <2>1, <2>3 DEF Emit
    <3> QED
      BY <2>2, <2>3, <3>1, NewRowKeeps
  <2>4. CASE RowFor(key) # {}
    <3>1. PICK i \in RowFor(key) :
            /\ updates' = [updates EXCEPT ![i] = Bumped(@, priority)]
            /\ Log(i, "bumped", "system", updates[i].dedupeCount + 1)
      BY <2>1, <2>4 DEF Emit
    <3>2. i \in DOMAIN updates
      BY DEF RowFor
    <3> QED
      BY <2>2, <3>1, <3>2, BumpKeeps
  <2> QED
    BY <2>3, <2>4
<1>2. CASE \E person \in People, i \in DOMAIN updates :
             MarkSeen(person, i) \/ \E resolvedBy \in People : Resolve(person, i, resolvedBy)
  <2>1. PICK person \in People, i \in DOMAIN updates :
          MarkSeen(person, i) \/ \E resolvedBy \in People : Resolve(person, i, resolvedBy)
    BY <1>2
  <2>2. PICK old : old = updates[i] /\ old \in UpdateRow
    BY UpdateTables DEF UpdatesIInv
  <2>3. CASE MarkSeen(person, i)
    <3>1. /\ old.status = "pending" /\ updates' = [updates EXCEPT ![i].status = "seen"]
          /\ Log(i, "seen", person, 0) /\ emissions' = emissions
      BY <2>2, <2>3 DEF MarkSeen
    <3>2. old.resolvedBy = "nobody"
      BY <2>2, <3>1 DEF UpdatesIInv, RowsTold, RowTells
    <3>3. [old EXCEPT !.status = "seen"] = [old EXCEPT !.status = "seen", !.resolvedBy = "nobody"]
      BY <2>2, <3>2 DEF UpdateRow
    <3>4. updates' = [updates EXCEPT ![i] =
                        [updates[i] EXCEPT !.status = "seen", !.resolvedBy = "nobody"]]
      BY <2>2, <3>1, <3>3
    <3> QED
      BY <2>2, <3>1, <3>4, StatusKeeps
  <2>4. ASSUME NEW resolvedBy \in People, Resolve(person, i, resolvedBy)
        PROVE  UpdatesIInv'
    <3>1. /\ resolvedBy = "broker" => person = "broker"
          /\ old.status # "resolved" /\ emissions' = emissions
          /\ updates' = [updates EXCEPT ![i].status = "resolved", ![i].resolvedBy = resolvedBy]
          /\ Log(i, "resolved", person, 0)
      BY <2>2, <2>4 DEF Resolve, Resolvable
    <3>2. updates' = [updates EXCEPT ![i] =
                        [updates[i] EXCEPT !.status = "resolved", !.resolvedBy = resolvedBy]]
      BY <3>1
    <3>3. resolvedBy # "nobody"
      BY DEF People
    <3> QED
      BY <2>2, <3>1, <3>2, <3>3, StatusKeeps
  <2> QED
    BY <2>1, <2>3, <2>4
<1>3. CASE UNCHANGED updateVars
  <2>1. updates' = updates /\ updateAudit' = updateAudit /\ emissions' = emissions
    BY <1>3 DEF updateVars
  <2>2. UpdateTypeOK' /\ OneRowPerKey' /\ TimesTold'
    BY <2>1 DEF UpdatesIInv, UpdateTypeOK, OneRowPerKey, TimesTold
  <2>3. NewsCounted' = NewsCounted
    BY <2>1 DEF NewsCounted
  <2>4. \A i \in DOMAIN updates' : RowTells(updates'[i], updateAudit'[i])
    BY <2>1 DEF UpdatesIInv, RowsTold
  <2>5. RowsTold'
    BY <2>4 DEF RowsTold, RowTells, Told
  <2> QED
    BY <2>1, <2>2, <2>3, <2>5 DEF UpdatesIInv
<1> QED
  BY <1>1, <1>2, <1>3 DEF UpdateNext

LEMMA UpdatesStart == UpdateInit => UpdatesIInv
<1> SUFFICES ASSUME UpdateInit
             PROVE  UpdatesIInv
  OBVIOUS
<1>1. updates = <<>> /\ updateAudit = <<>> /\ emissions = 0 /\ DOMAIN updates = {}
  BY DEF UpdateInit
<1>2. UpdateTypeOK
  BY <1>1, BuyerEventsAssumption DEF UpdateTypeOK
<1>3. NewsCounted = {}
  BY <1>1 DEF NewsCounted
<1>4. Cardinality(NewsCounted) = 0
  BY <1>3, FS_EmptySet
<1> QED
  BY <1>1, <1>2, <1>4 DEF UpdatesIInv, OneRowPerKey, TimesTold, RowsTold

\* Who is shown before another has fewer shown before it.
LEMMA PlacesDiffer ==
  ASSUME UpdatesIInv, NEW i \in DOMAIN updates, NEW k \in DOMAIN updates, Pending(i),
         ShownBefore(i, k)
  PROVE  Cardinality({j \in DOMAIN updates : Pending(j) /\ ShownBefore(j, i)})
           # Cardinality({j \in DOMAIN updates : Pending(j) /\ ShownBefore(j, k)})
<1>1. PICK A, B : /\ A = {j \in DOMAIN updates : Pending(j) /\ ShownBefore(j, i)}
                  /\ B = {j \in DOMAIN updates : Pending(j) /\ ShownBefore(j, k)}
  OBVIOUS
<1>2. PICK m \in Nat : DOMAIN updates = 1 .. m /\ \A j \in 1 .. m : updates[j] \in UpdateRow
  BY UpdateTables DEF UpdatesIInv
<1>3. \A j \in 1 .. m : updates[j].priority \in Int /\ updates[j].emittedAt \in Int
  <2> TAKE j \in 1 .. m
  <2>1. updates[j].priority \in 1 .. 3 /\ updates[j].emittedAt \in 1 .. MaxEmissions
    BY <1>2 DEF UpdateRow, Priorities
  <2> QED
    BY <2>1, BuyerEventsAssumption
<1>4. A \subseteq B
  BY <1>1, <1>2, <1>3 DEF ShownBefore
<1>5. i \in B /\ i \notin A
  BY <1>1, <1>2, <1>3 DEF ShownBefore
<1>6. IsFiniteSet(B)
  <2>1. IsFiniteSet(1 .. m) /\ B \subseteq 1 .. m
    BY <1>1, <1>2, FS_Interval
  <2> QED
    BY <2>1, FS_Subset
<1>7. Cardinality(A) # Cardinality(B)
  <2>1. A \in SUBSET B /\ A # B
    BY <1>4, <1>5
  <2> QED
    BY <1>6, <2>1, FS_Subset
<1> QED
  BY <1>1, <1>7

LEMMA UpdatesImplied == UpdatesIInv => UpdatesSound
<1> SUFFICES ASSUME UpdatesIInv
             PROVE  UpdatesSound
  OBVIOUS
<1>1. UpdateTypeOK /\ OneRowPerKey /\ TimesTold /\ RowsTold /\ Cardinality(NewsCounted) = emissions
  BY DEF UpdatesIInv
<1>2. PICK m \in Nat : /\ DOMAIN updates = 1 .. m
                       /\ \A k \in 1 .. m : updates[k] \in UpdateRow
                       /\ \A k \in 1 .. m : updateAudit[k] \in Seq(AuditEntry)
  BY <1>1, UpdateTables
<1>3. \A i \in 1 .. m : updates[i].status \in UpdateStatuses
  BY <1>2 DEF UpdateRow
<1>4. \A i \in 1 .. m : Last(updateAudit[i]) = updateAudit[i][Len(updateAudit[i])]
  BY DEF Last
<1>5. NewsShown
  <2>1. DOMAIN Feed = {i \in DOMAIN updates : Last(updateAudit[i]).action # "resolved"}
    <3>1. DOMAIN Feed = {i \in DOMAIN updates : Pending(i)}
      BY DEF Feed
    <3>2. \A i \in DOMAIN updates : Pending(i) <=> Last(updateAudit[i]).action # "resolved"
      <4> TAKE i \in DOMAIN updates
      <4>1. updates[i].status = "resolved" <=> Last(updateAudit[i]).action = "resolved"
        BY <1>1, <1>2, <1>4 DEF RowsTold, RowTells
      <4> QED
        BY <1>2, <1>3, <4>1 DEF Pending, UpdateStatuses
    <3> QED
      BY <3>1, <3>2
  <2>2. IsInjective(Feed)
    <3> SUFFICES ASSUME NEW i \in DOMAIN Feed, NEW k \in DOMAIN Feed, Feed[i] = Feed[k], i # k
                 PROVE  FALSE
      BY DEF IsInjective
    <3>1. PICK place : /\ \A j \in DOMAIN updates : place[j] =
                             Cardinality({l \in DOMAIN updates : Pending(l) /\ ShownBefore(l, j)})
                       /\ place = [j \in DOMAIN updates |->
                             Cardinality({l \in DOMAIN updates : Pending(l) /\ ShownBefore(l, j)})]
      OBVIOUS
    <3>2. /\ i \in DOMAIN updates /\ k \in DOMAIN updates /\ Pending(i) /\ Pending(k)
          /\ Feed[i] = 1 + place[i] /\ Feed[k] = 1 + place[k]
      BY <3>1 DEF Feed
    <3>3. \A j \in DOMAIN updates : place[j] \in Nat
      <4> TAKE j \in DOMAIN updates
      <4>1. PICK B : B = {l \in DOMAIN updates : Pending(l) /\ ShownBefore(l, j)}
        OBVIOUS
      <4>2. IsFiniteSet(1 .. m) /\ B \subseteq 1 .. m
        BY <1>2, <4>1, FS_Interval
      <4>3. Cardinality(B) \in Nat
        BY <4>2, FS_Subset, FS_CardinalityType
      <4> QED
        BY <3>1, <4>1, <4>3
    <3>4. place[i] = place[k]
      <4>1. place[i] \in Nat /\ place[k] \in Nat
        BY <3>2, <3>3
      <4>2. 1 + place[i] = 1 + place[k]
        BY <3>2
      <4> QED
        BY <4>1, <4>2
    <3>5. ShownBefore(i, k) \/ ShownBefore(k, i)
      <4>1. updates[i].emittedAt # updates[k].emittedAt
        BY <1>1, <3>2 DEF TimesTold
      <4>2. /\ updates[i].priority \in 1 .. 3 /\ updates[i].emittedAt \in 1 .. MaxEmissions
            /\ updates[k].priority \in 1 .. 3 /\ updates[k].emittedAt \in 1 .. MaxEmissions
        BY <1>2, <3>2 DEF UpdateRow, Priorities
      <4> QED
        BY <4>1, <4>2, BuyerEventsAssumption DEF ShownBefore
    <3>6. CASE ShownBefore(i, k)
      BY <3>1, <3>2, <3>4, <3>6, PlacesDiffer
    <3>7. CASE ShownBefore(k, i)
      BY <3>1, <3>2, <3>4, <3>7, PlacesDiffer
    <3> QED
      BY <3>5, <3>6, <3>7
  <2> QED
    BY <1>1, <2>1, <2>2 DEF NewsShown, OneRowPerKey, TimesTold
<1>6. UpdateAuditTrue
  <2> SUFFICES ASSUME NEW i \in DOMAIN updates
               PROVE  LET trail == updateAudit[i]
                      IN /\ Cardinality(Told(trail, Len(trail))) = updates[i].dedupeCount
                         /\ \A n \in Told(trail, Len(trail)) :
                              trail[n].dedupeCount = Cardinality(Told(trail, n))
                         /\ updates[i].status = (CASE Last(trail).action = "seen" -> "seen"
                                                   [] Last(trail).action = "resolved" -> "resolved"
                                                   [] OTHER -> "pending")
                         /\ updates[i].status = "resolved" <=> updates[i].resolvedBy # "nobody"
                         /\ updates[i].resolvedBy = "broker" => Last(trail).by = "broker"
                         /\ \A n \in 1 .. Len(trail) - 1 :
                              trail[n].action = "resolved" => trail[n + 1].action = "bumped"
    BY DEF UpdateAuditTrue
  <2>1. RowTells(updates[i], updateAudit[i])
    BY <1>1 DEF RowsTold
  <2>2. updates[i].status = (CASE Last(updateAudit[i]).action = "seen" -> "seen"
                               [] Last(updateAudit[i]).action = "resolved" -> "resolved"
                               [] OTHER -> "pending")
    <3>1. /\ updates[i].status = "seen" <=> Last(updateAudit[i]).action = "seen"
          /\ updates[i].status = "resolved" <=> Last(updateAudit[i]).action = "resolved"
          /\ updates[i].status \in {"pending", "seen", "resolved"}
      BY <1>2, <1>3, <1>4, <2>1 DEF RowTells, UpdateStatuses
    <3> QED
      BY <3>1
  <2>3. updates[i].resolvedBy = "broker" => Last(updateAudit[i]).by = "broker"
    BY <1>2, <1>4, <2>1 DEF RowTells
  <2> QED
    BY <2>1, <2>2, <2>3 DEF RowTells
<1> QED
  BY <1>1, <1>5, <1>6 DEF UpdatesSound

\* Whatever order news, looks and dismissals come in, every emission is counted
\* in the one row of its key, what was told last is shown at a place of its own
\* until it is dismissed after that, and the trail of a row tells its state.
THEOREM UpdatesAreSound == UpdateSpec => []UpdatesSound
<1>1. UpdateInit => UpdatesIInv
  BY UpdatesStart
<1> QED
  BY <1>1, UpdatesStep, UpdatesImplied, PTL DEF UpdateSpec
-----------------------------------------------------------------------------
\* THE LEDGER.

LEMMA EntryAt ==
  ASSUME LedgerTypeOK
  PROVE  /\ Len(entries) \in Nat /\ DOMAIN entries = 1 .. Len(entries)
         /\ \A k \in 1 .. Len(entries) :
              /\ entries[k] \in Entry /\ entries[k].amount \in Int
              /\ entries[k].bucket \in Buckets /\ entries[k].dimension \in Dimensions
<1>1. entries \in Seq(Entry)
  BY DEF LedgerTypeOK
<1>2. Len(entries) \in Nat /\ DOMAIN entries = 1 .. Len(entries)
  BY <1>1, LenProperties
<1>3. ASSUME NEW k \in 1 .. Len(entries)
      PROVE  /\ entries[k] \in Entry /\ entries[k].amount \in Int
             /\ entries[k].bucket \in Buckets /\ entries[k].dimension \in Dimensions
  <2>1. entries[k] \in Entry
    BY <1>1, <1>2, <1>3, ElementOfSeq
  <2>2. entries[k].amount \in Amounts
    BY <2>1 DEF Entry
  <2> QED BY <2>1, <2>2, LedgerAssumption DEF Entry
<1> QED BY <1>2, <1>3

LEMMA ReportAt ==
  ASSUME LedgerTypeOK
  PROVE  /\ Len(reports) \in Nat /\ DOMAIN reports = 1 .. Len(reports)
         /\ \A i \in 1 .. Len(reports) : reports[i] \in Report
<1>1. reports \in Seq(Report)
  BY DEF LedgerTypeOK
<1> QED BY <1>1, LenProperties, ElementOfSeq

\* The sum the code runs over the whole ledger is the sum over the positions
\* that count.
CountedRows(rows, upTo, bucket, d) ==
  {k \in 1 .. upTo : rows[k].bucket = bucket /\ rows[k].dimension = d}
AmountsOf(rows) == [k \in DOMAIN rows |-> rows[k].amount]
TotalOf(rows, upTo, bucket, d) ==
  SumFunctionOnSet(AmountsOf(rows), CountedRows(rows, upTo, bucket, d))

LEMMA RollupIsTotal ==
  ASSUME LedgerTypeOK, NEW bucket \in Buckets, NEW d \in Dimensions
  PROVE  /\ RollupEntries(entries, bucket)[d] = TotalOf(entries, Len(entries), bucket, d)
         /\ RollupEntries(entries, bucket)[d] \in Int
<1> DEFINE n == Len(entries)
           f == [i \in DOMAIN entries |->
                   IF entries[i].bucket = bucket /\ entries[i].dimension = d
                     THEN entries[i].amount ELSE 0]
           h == AmountsOf(entries)
           K == CountedRows(entries, n, bucket, d)
<1>1. n \in Nat /\ DOMAIN entries = 1 .. n
  BY EntryAt
<1>2. IsFiniteSet(1 .. n) /\ K \subseteq 1 .. n /\ (1 .. n) \cap K = K
  BY <1>1, FS_Interval DEF CountedRows
<1>3. \A x \in 1 .. n : h[x] = entries[x].amount /\ h[x] \in Int
  BY <1>1, EntryAt DEF AmountsOf
<1>4. \A x \in 1 .. n : f[x] = (IF x \in K THEN h[x] ELSE 0)
  BY <1>1, <1>3 DEF CountedRows
<1>5. \A x \in 1 .. n : f[x] \in Int
  BY <1>3, <1>4
<1>6. RollupEntries(entries, bucket)[d] = SumFunctionOnSet(f, 1 .. n)
  BY <1>1 DEF RollupEntries, SumFunction
<1>7. TotalOf(entries, Len(entries), bucket, d) = SumFunctionOnSet(h, K)
  BY DEF TotalOf
<1> HIDE DEF f, h, K, n
<1> DEFINE P == 1 .. n
<1>8. SumFunctionOnSet(f, P) = SumFunctionOnSet(h, P \cap K)
  <2>1. IsFiniteSet(P)
    BY <1>2
  <2>2. \A x \in P : f[x] = (IF x \in K THEN h[x] ELSE 0)
    BY <1>4
  <2>3. \A x \in P \cap K : h[x] \in Int
    BY <1>3
  <2> HIDE DEF P
  <2> QED BY <2>1, <2>2, <2>3, SumSame
<1>9. SumFunctionOnSet(f, 1 .. n) \in Int
  BY <1>2, <1>5, SumIsInt
<1> QED BY <1>2, <1>6, <1>7, <1>8, <1>9

\* A sum of old amounts does not change when the ledger grows.
LEMMA SumsStay ==
  ASSUME NEW m \in Nat, NEW S \in SUBSET (1 .. m), NEW f, NEW g,
         \A k \in 1 .. m : f[k] = g[k] /\ f[k] \in Int
  PROVE  SumFunctionOnSet(g, S) = SumFunctionOnSet(f, S)
<1>1. IsFiniteSet(S)
  <2>1. IsFiniteSet(1 .. m)
    BY FS_Interval
  <2> QED BY <2>1, FS_Subset
<1> DEFINE K == 1 .. m
<1>2. \A k \in S : g[k] = (IF k \in K THEN f[k] ELSE 0)
  OBVIOUS
<1>3. \A k \in S \cap K : f[k] \in Int
  OBVIOUS
<1>4. S \cap K = S
  OBVIOUS
<1>5. SumFunctionOnSet(g, S) = SumFunctionOnSet(f, S \cap K)
  <2> HIDE DEF K
  <2>1. SUFFICES ASSUME NEW P, NEW gg, NEW ff, IsFiniteSet(P),
                        \A x \in P : gg[x] = (IF x \in K THEN ff[x] ELSE 0),
                        \A x \in P \cap K : ff[x] \in Int
                 PROVE  SumFunctionOnSet(gg, P) = SumFunctionOnSet(ff, P \cap K)
    BY <1>1, <1>2, <1>3
  <2> QED BY <2>1, SumSame
<1> QED BY <1>4, <1>5

\* What a report says of the first entries of a ledger.
Apart(rows, upTo) ==
  {d \in Dimensions : Dollars(TotalOf(rows, upTo, "actual", d)
                                - TotalOf(rows, upTo, "projected", d)) > Threshold}
Closed(rows, upTo) == \E d \in Dimensions : CountedRows(rows, upTo, "actual", d) # {}
Says(report, rows) ==
  /\ report.fields.dimensions = IF Closed(rows, report.over)
                                  THEN Apart(rows, report.over) ELSE {}
  /\ report.fields.flag = (Closed(rows, report.over) /\ Apart(rows, report.over) # {})

LEMMA ReportsSay == ReportsTrue <=> \A i \in DOMAIN reports : Says(reports[i], entries)
  BY DEF ReportsTrue, Says, Apart, Closed, TotalOf, CountedRows, AmountsOf

LEMMA ReportsSayNext ==
  ReportsTrue' <=> \A i \in DOMAIN reports' : Says(reports'[i], entries')
  BY DEF ReportsTrue, Says, Apart, Closed, TotalOf, CountedRows, AmountsOf

LEMMA SaysStays ==
  ASSUME LedgerTypeOK, NEW entry \in Entry, NEW report, report.over \in 0 .. Len(entries),
         Says(report, entries)
  PROVE  Says(report, Append(entries, entry))
<1> DEFINE more == Append(entries, entry)
           n == Len(entries)
           m == report.over
<1>1. n \in Nat /\ DOMAIN entries = 1 .. n /\ m \in 0 .. n /\ m \in Nat
  BY EntryAt
<1>2. DOMAIN more = 1 .. n + 1 /\ \A k \in 1 .. n : more[k] = entries[k]
  <2>1. entries \in Seq(Entry)
    BY DEF LedgerTypeOK
  <2> QED BY <2>1, <1>1, AppendProperties, LenProperties
<1>3. ASSUME NEW bucket, NEW d
      PROVE  CountedRows(more, m, bucket, d) = CountedRows(entries, m, bucket, d)
  <2> HIDE DEF more
  <2> QED BY <1>1, <1>2 DEF CountedRows
<1>4. ASSUME NEW bucket, NEW d
      PROVE  TotalOf(more, m, bucket, d) = TotalOf(entries, m, bucket, d)
  <2>1. \A k \in 1 .. m : /\ AmountsOf(entries)[k] = AmountsOf(more)[k]
                          /\ AmountsOf(entries)[k] \in Int
    <3> HIDE DEF more
    <3> QED BY <1>1, <1>2, EntryAt DEF AmountsOf
  <2>2. CountedRows(entries, m, bucket, d) \in SUBSET (1 .. m)
    BY DEF CountedRows
  <2> HIDE DEF more, m
  <2>3. SumFunctionOnSet(AmountsOf(more), CountedRows(entries, m, bucket, d))
          = SumFunctionOnSet(AmountsOf(entries), CountedRows(entries, m, bucket, d))
    BY <1>1, <2>1, <2>2, SumsStay
  <2> QED BY <1>3, <2>3 DEF TotalOf
<1>5. Apart(more, m) = Apart(entries, m) /\ Closed(more, m) = Closed(entries, m)
  <2> HIDE DEF more, m
  <2> QED BY <1>3, <1>4 DEF Apart, Closed
<1> QED BY <1>5 DEF Says

LEMMA NewReportSays ==
  ASSUME LedgerTypeOK, NEW report, report.over = Len(entries),
         report.fields = BuildReportFields(entries)
  PROVE  Says(report, entries)
<1> DEFINE n == Len(entries)
<1>1. n \in Nat /\ DOMAIN entries = 1 .. n
  BY EntryAt
<1>2. ASSUME NEW d \in Dimensions
      PROVE  /\ RollupEntries(entries, "projected")[d] = TotalOf(entries, n, "projected", d)
             /\ RollupEntries(entries, "actual")[d] = TotalOf(entries, n, "actual", d)
  BY RollupIsTotal DEF Buckets
<1>3. (\E i \in DOMAIN entries : entries[i].bucket = "actual") <=> Closed(entries, n)
  <2>1. ASSUME NEW i \in DOMAIN entries, entries[i].bucket = "actual" PROVE Closed(entries, n)
    <3>1. entries[i].dimension \in Dimensions /\ i \in 1 .. n
      BY <1>1, EntryAt
    <3>2. i \in CountedRows(entries, n, "actual", entries[i].dimension)
      BY <3>1, <2>1 DEF CountedRows
    <3> QED BY <3>1, <3>2 DEF Closed
  <2>2. ASSUME Closed(entries, n) PROVE \E i \in DOMAIN entries : entries[i].bucket = "actual"
    BY <2>2, <1>1 DEF Closed, CountedRows
  <2> QED BY <2>1, <2>2
<1> DEFINE over == {d \in Dimensions :
                      Dollars(RollupEntries(entries, "actual")[d]
                                - RollupEntries(entries, "projected")[d]) > Threshold}
           both == Reconcile(RollupEntries(entries, "projected"),
                             RollupEntries(entries, "actual"))
<1>4. over = Apart(entries, n)
  BY <1>2 DEF Apart
<1>5. both.flag = (over # {}) /\ both.dimensions = over
  BY DEF Reconcile
<1>6. CASE Closed(entries, n)
  <2>1. report.fields = both
    BY <1>3, <1>6 DEF BuildReportFields
  <2>2. report.fields.flag = (over # {}) /\ report.fields.dimensions = over
    <3> HIDE DEF both, over
    <3> QED BY <1>5, <2>1
  <2> HIDE DEF over, both, n
  <2>3. report.over = n
    BY DEF n
  <2> QED BY <1>4, <1>6, <2>2, <2>3 DEF Says
<1>7. CASE ~ Closed(entries, n)
  <2>1. report.fields.flag = FALSE /\ report.fields.dimensions = {}
    BY <1>3, <1>7 DEF BuildReportFields
  <2> HIDE DEF n
  <2>2. report.over = n
    BY DEF n
  <2> QED BY <1>7, <2>1, <2>2 DEF Says
<1> QED BY <1>6, <1>7

LEMMA NewReportTyped ==
  ASSUME LedgerTypeOK
  PROVE  BuildReportFields(entries) \in
           [amount : Int, flag : BOOLEAN, dimensions : SUBSET Dimensions]
<1> DEFINE expected == RollupEntries(entries, "projected")
           actual == RollupEntries(entries, "actual")
           f == [d \in Dimensions |-> Dollars(actual[d] - expected[d])]
<1>1. \A d \in Dimensions : expected[d] \in Int /\ actual[d] \in Int
  BY RollupIsTotal DEF Buckets
<1>2. \A d \in Dimensions : f[d] \in Int
  <2> HIDE DEF expected, actual
  <2> QED BY <1>1 DEF Dollars
<1>3. IsFiniteSet(Dimensions)
  <2>1. Dimensions = {"expectedBuyerFee"} \cup {"sellerPaidAmount"}
                       \cup {"buyerPaidAmount"} \cup {"projectedClosingCredit"}
    BY DEF Dimensions
  <2>2. \A x : IsFiniteSet({x})
    BY FS_Singleton
  <2> QED BY <2>1, <2>2, FS_Union
<1>4. SumFunction(f) \in Int
  <2>1. DOMAIN f = Dimensions
    OBVIOUS
  <2> HIDE DEF f
  <2> QED BY <1>2, <1>3, <2>1, SumIsInt DEF SumFunction
<1>5. Reconcile(expected, actual) \in
        [amount : Int, flag : BOOLEAN, dimensions : SUBSET Dimensions]
  <2>1. Reconcile(expected, actual).amount = SumFunction(f)
    BY DEF Reconcile
  <2> DEFINE over == {d \in Dimensions : Dollars(actual[d] - expected[d]) > Threshold}
  <2>2. Reconcile(expected, actual) =
          [amount |-> SumFunction(f), flag |-> over # {}, dimensions |-> over]
    BY DEF Reconcile
  <2>3. over \in SUBSET Dimensions /\ (over # {}) \in BOOLEAN
    OBVIOUS
  <2> HIDE DEF over, f, expected, actual
  <2> QED BY <1>4, <2>2, <2>3
<1> HIDE DEF f
<1>6. CASE \E i \in DOMAIN entries : entries[i].bucket = "actual"
  BY <1>5, <1>6 DEF BuildReportFields
<1>7. CASE ~ \E i \in DOMAIN entries : entries[i].bucket = "actual"
  BY <1>7 DEF BuildReportFields
<1> QED BY <1>6, <1>7
-----------------------------------------------------------------------------
\* LENDER CHECKS.
LEMMA CreditsMonotone ==
  ASSUME NEW f \in FinancingTypes, NEW l \in Ltvs, NEW s \in Int, NEW t \in Int, s <= t,
         NEW rank, rank = [valid |-> 0, review_required |-> 1, invalid |-> 2]
  PROVE  rank[ValidateLenderCredit(f, l, s)] <= rank[ValidateLenderCredit(f, l, t)]
<1>1. Price \in Nat
  BY LedgerAssumption
<1> QED BY <1>1 DEF ValidateLenderCredit, IpcLimit, FinancingTypes, Ltvs, Unknown
LEMMA LtvMonotone ==
  ASSUME NEW f \in FinancingTypes, NEW l \in Ltvs, NEW m \in Ltvs, NEW t \in Int,
         Unknown < l, l <= m,
         NEW rank, rank = [valid |-> 0, review_required |-> 1, invalid |-> 2]
  PROVE  rank[ValidateLenderCredit(f, l, t)] <= rank[ValidateLenderCredit(f, m, t)]
<1>1. Price \in Nat
  BY LedgerAssumption
<1> QED BY <1>1 DEF ValidateLenderCredit, IpcLimit, FinancingTypes, Ltvs, Unknown

LEMMA LenderChecksMonotone == LenderCheckMonotone
<1> DEFINE rank == [valid |-> 0, review_required |-> 1, invalid |-> 2]
           Percents == {n * (Price \div 100) : n \in 0 .. 10}
<1>1. \A s \in Percents : s \in Int
  <2>1. Price \div 100 \in Int
    BY LedgerAssumption
  <2> QED BY <2>1
<1>2. ASSUME NEW f \in FinancingTypes, NEW s \in Percents, NEW t \in Percents,
             NEW l \in Ltvs, NEW m \in Ltvs
      PROVE  /\ s <= t => rank[ValidateLenderCredit(f, l, s)] <= rank[ValidateLenderCredit(f, l, t)]
             /\ (Unknown < l /\ l <= m) =>
                  rank[ValidateLenderCredit(f, l, s)] <= rank[ValidateLenderCredit(f, m, s)]
  <2>1. s \in Int /\ t \in Int
    BY <1>1, <1>2
  <2> HIDE DEF Percents
  <2> QED BY <1>2, <2>1, CreditsMonotone, LtvMonotone
<1> QED BY <1>2 DEF LenderCheckMonotone
-----------------------------------------------------------------------------
\* THE LEDGER AND ITS REPORTS.

\* What the tables look like, that a report never looks past the ledger, and
\* that every report says what the entries it looked at say.
Looked == \A i \in DOMAIN reports : reports[i].over \in 0 .. Len(entries)
LedgerIInv == LedgerTypeOK /\ Looked /\ ReportsTrue

LEMMA LedgerStarts == LedgerInit => LedgerIInv
<1> SUFFICES ASSUME LedgerInit PROVE LedgerIInv
  OBVIOUS
<1>1. entries = <<>> /\ compensation = "none" /\ reports = <<>> /\ validations = <<>>
  BY DEF LedgerInit
<1>2. LedgerTypeOK
  BY <1>1, EmptySeq, LedgerAssumption DEF LedgerTypeOK, CompensationStatuses
<1>3. DOMAIN reports = {}
  BY <1>1
<1>4. ReportsTrue
  BY <1>3, ReportsSay
<1> QED BY <1>2, <1>3, <1>4 DEF LedgerIInv, Looked

LEMMA CreateEntryKeeps ==
  ASSUME LedgerIInv, NEW entry \in Entry, CreateEntry(entry)
  PROVE  LedgerIInv'
<1>1. LedgerTypeOK /\ Looked /\ ReportsTrue
  BY DEF LedgerIInv
<1>2. /\ Len(entries) < MaxEntries /\ entries' = Append(entries, entry)
      /\ UNCHANGED <<compensation, reports, validations>>
  BY DEF CreateEntry
<1>3. entries' \in Seq(Entry) /\ Len(entries') = Len(entries) + 1 /\ Len(entries) \in Nat
  <2>1. entries \in Seq(Entry)
    BY <1>1 DEF LedgerTypeOK
  <2> QED BY <1>2, <2>1, AppendProperties, LenProperties
<1>4. LedgerTypeOK'
  <2>1. MaxEntries \in Nat
    BY LedgerAssumption
  <2> QED BY <1>1, <1>2, <1>3, <2>1 DEF LedgerTypeOK
<1>5. ASSUME NEW i \in DOMAIN reports
      PROVE  reports[i].over \in 0 .. Len(entries') /\ Says(reports[i], entries')
  <2>1. reports[i].over \in 0 .. Len(entries)
    BY <1>1, <1>5 DEF Looked
  <2>2. Says(reports[i], entries)
    BY <1>1, <1>5, ReportsSay
  <2> QED BY <1>1, <1>2, <1>3, <2>1, <2>2, SaysStays
<1>6. Looked' /\ ReportsTrue'
  BY <1>2, <1>5, ReportsSayNext DEF Looked
<1> QED BY <1>4, <1>6 DEF LedgerIInv

\* A step that leaves entries and reports alone.
LEMMA QuietLedger ==
  ASSUME LedgerIInv, UNCHANGED <<entries, reports>>, LedgerTypeOK'
  PROVE  LedgerIInv'
<1>1. \A i \in DOMAIN reports : Says(reports[i], entries)
  BY ReportsSay DEF LedgerIInv
<1>2. ReportsTrue'
  BY <1>1, ReportsSayNext
<1> QED BY <1>2 DEF LedgerIInv, Looked

LEMMA InsertReportKeeps ==
  ASSUME LedgerIInv, InsertReport
  PROVE  LedgerIInv'
<1> DEFINE report == [fields |-> BuildReportFields(entries), over |-> Len(entries),
                      reviewStatus |-> "pending"]
<1>1. LedgerTypeOK /\ Looked /\ ReportsTrue
  BY DEF LedgerIInv
<1>2. /\ Len(reports) < MaxReports /\ reports' = Append(reports, report)
      /\ UNCHANGED <<entries, compensation, validations>>
  BY DEF InsertReport
<1>3. /\ report.fields = BuildReportFields(entries) /\ report.over = Len(entries)
      /\ Len(entries) \in Nat /\ report \in Report
  BY <1>1, EntryAt, NewReportTyped DEF Report
<1>4. Says(report, entries)
  <2> HIDE DEF report
  <2> QED BY <1>1, <1>3, NewReportSays
<1> HIDE DEF report
<1>5. /\ reports' \in Seq(Report) /\ Len(reports') = Len(reports) + 1
      /\ Len(reports) \in Nat /\ DOMAIN reports = 1 .. Len(reports)
      /\ DOMAIN reports' = 1 .. Len(reports) + 1
      /\ \A i \in 1 .. Len(reports) : reports'[i] = reports[i]
      /\ reports'[Len(reports) + 1] = report
  <2>1. reports \in Seq(Report)
    BY <1>1 DEF LedgerTypeOK
  <2> HIDE DEF Report
  <2> QED BY <1>2, <1>3, <2>1, AppendProperties, LenProperties
<1>6. LedgerTypeOK'
  <2>1. MaxReports \in Nat
    BY LedgerAssumption
  <2> QED BY <1>1, <1>2, <1>5, <2>1 DEF LedgerTypeOK
<1>7. ASSUME NEW i \in DOMAIN reports'
      PROVE  reports'[i].over \in 0 .. Len(entries) /\ Says(reports'[i], entries)
  <2>1. i \in 1 .. Len(reports) \/ i = Len(reports) + 1
    BY <1>5, <1>7
  <2>2. CASE i \in 1 .. Len(reports)
    BY <2>2, <1>1, <1>5, ReportsSay DEF Looked
  <2>3. CASE i = Len(reports) + 1
    BY <2>3, <1>3, <1>4, <1>5
  <2> QED BY <2>1, <2>2, <2>3
<1>8. Looked' /\ ReportsTrue'
  BY <1>2, <1>7, ReportsSayNext DEF Looked
<1> QED BY <1>6, <1>8 DEF LedgerIInv

LEMMA ReviewDiscrepancyKeeps ==
  ASSUME LedgerIInv, NEW i \in DOMAIN reports, NEW status \in {"reviewed", "resolved"},
         ReviewDiscrepancy(i, status)
  PROVE  LedgerIInv'
<1>1. LedgerTypeOK /\ Looked /\ ReportsTrue
  BY DEF LedgerIInv
<1>2. reports[i] \in Report /\ \A k \in DOMAIN reports : reports[k] \in Report
  BY <1>1, ReportAt
<1> DEFINE row == [reports[i] EXCEPT !.reviewStatus = status]
<1>3. row \in Report /\ row.over = reports[i].over /\ row.fields = reports[i].fields
  BY <1>2 DEF Report
<1>4. /\ reports' = [reports EXCEPT ![i] = row]
      /\ UNCHANGED <<entries, compensation, validations>>
  BY DEF ReviewDiscrepancy
<1> HIDE DEF row
<1>5. reports' \in Seq(Report) /\ Len(reports') = Len(reports) /\ DOMAIN reports' = DOMAIN reports
  <2>1. reports \in Seq(Report) /\ i \in 1 .. Len(reports)
    BY <1>1, ReportAt DEF LedgerTypeOK
  <2> HIDE DEF Report
  <2> QED BY <1>3, <1>4, <2>1, ExceptSeq, LenProperties
<1>6. LedgerTypeOK'
  BY <1>1, <1>4, <1>5 DEF LedgerTypeOK
<1>7. ASSUME NEW k \in DOMAIN reports
      PROVE  reports'[k].over = reports[k].over /\ reports'[k].fields = reports[k].fields
  BY <1>3, <1>4, <1>7
<1>8. \A k \in DOMAIN reports : Says(reports'[k], entries)
  BY <1>1, <1>7, ReportsSay DEF Says
<1>9. Looked' /\ ReportsTrue'
  BY <1>1, <1>4, <1>5, <1>7, <1>8, ReportsSayNext DEF Looked
<1> QED BY <1>6, <1>9 DEF LedgerIInv

LEMMA ChecksKeep ==
  ASSUME LedgerIInv,
         \/ \E scope \in Scopes, financing \in FinancingTypes, ltv \in Ltvs,
               credits \in Credits, useLedger \in BOOLEAN :
              ComputeAndPersist(scope, financing, ltv, credits, useLedger)
         \/ \E i \in DOMAIN validations, decision \in {"approved", "rejected"} :
              ReviewDecision(i, decision)
  PROVE  LedgerIInv'
<1>1. LedgerTypeOK
  BY DEF LedgerIInv
<1>2. /\ validations \in Seq(Validation) /\ Len(validations) \in Nat
      /\ DOMAIN validations = 1 .. Len(validations) /\ MaxValidations \in Nat
      /\ Len(validations) <= MaxValidations
  BY <1>1, LenProperties, LedgerAssumption DEF LedgerTypeOK
<1>3. ASSUME NEW scope \in Scopes, NEW financing \in FinancingTypes, NEW ltv \in Ltvs,
             NEW credits \in Credits, NEW useLedger \in BOOLEAN,
             ComputeAndPersist(scope, financing, ltv, credits, useLedger)
      PROVE  LedgerIInv'
  <2>1. PICK closing : validations' = Append(validations,
            [scope |-> scope, reviewDecision |-> "none",
             outcome |-> ValidateLenderCredit(financing, ltv, credits + closing)])
    BY <1>3 DEF ComputeAndPersist
  <2>2. Len(validations) < MaxValidations /\ UNCHANGED <<entries, compensation, reports>>
    BY <1>3 DEF ComputeAndPersist
  <2> DEFINE row == [scope |-> scope, reviewDecision |-> "none",
                     outcome |-> ValidateLenderCredit(financing, ltv, credits + closing)]
  <2>3. ValidateLenderCredit(financing, ltv, credits + closing)
          \in {"valid", "invalid", "review_required"}
    BY DEF ValidateLenderCredit
  <2>4. row \in Validation
    BY <2>3 DEF Validation
  <2>5. validations' = Append(validations, row)
    BY <2>1
  <2> HIDE DEF row
  <2>6. validations' \in Seq(Validation) /\ Len(validations') = Len(validations) + 1
    <3> HIDE DEF Validation
    <3> QED BY <1>2, <2>4, <2>5, AppendProperties
  <2>7. LedgerTypeOK'
    BY <1>1, <1>2, <2>2, <2>6 DEF LedgerTypeOK
  <2> QED BY <2>2, <2>7, QuietLedger
<1>4. ASSUME NEW i \in DOMAIN validations, NEW decision \in {"approved", "rejected"},
             ReviewDecision(i, decision)
      PROVE  LedgerIInv'
  <2> DEFINE row == [validations[i] EXCEPT !.reviewDecision = decision]
  <2>1. /\ validations' = [validations EXCEPT ![i] = row]
        /\ UNCHANGED <<entries, compensation, reports>>
    BY <1>4 DEF ReviewDecision
  <2>2. validations[i] \in Validation /\ i \in 1 .. Len(validations)
    BY <1>2, <1>4, ElementOfSeq
  <2>3. row \in Validation
    BY <2>2, <1>4 DEF Validation
  <2> HIDE DEF row
  <2>4. validations' \in Seq(Validation) /\ Len(validations') = Len(validations)
    <3> HIDE DEF Validation
    <3> QED BY <1>2, <2>1, <2>2, <2>3, ExceptSeq
  <2>5. LedgerTypeOK'
    BY <1>1, <2>1, <2>4 DEF LedgerTypeOK
  <2> QED BY <2>1, <2>5, QuietLedger
<1> QED BY <1>3, <1>4

LEMMA StatusKeepsLedger ==
  ASSUME LedgerIInv,
         \/ InitializeCompensationStatus
         \/ \E status \in CompensationStatuses : TransitionCompensationStatus(status)
  PROVE  LedgerIInv'
<1>1. /\ compensation' \in CompensationStatuses
      /\ UNCHANGED <<entries, reports, validations>>
  BY DEF InitializeCompensationStatus, TransitionCompensationStatus, CompensationStatuses
<1>2. LedgerTypeOK'
  BY <1>1 DEF LedgerIInv, LedgerTypeOK
<1> QED BY <1>1, <1>2, QuietLedger

LEMMA LedgerSteps == LedgerIInv /\ [LedgerNext]_ledgerVars => LedgerIInv'
<1> SUFFICES ASSUME LedgerIInv, [LedgerNext]_ledgerVars PROVE LedgerIInv'
  OBVIOUS
<1>1. CASE UNCHANGED ledgerVars
  <2>1. LedgerTypeOK' /\ UNCHANGED <<entries, reports>>
    BY <1>1 DEF LedgerIInv, LedgerTypeOK, ledgerVars
  <2> QED BY <2>1, QuietLedger
<1>2. CASE LedgerNext
  BY <1>2, CreateEntryKeeps, StatusKeepsLedger, InsertReportKeeps, ReviewDiscrepancyKeeps,
     ChecksKeep DEF LedgerNext
<1> QED BY <1>1, <1>2

LEMMA LedgerIInvTells == LedgerIInv => LedgerSound
  BY LenderChecksMonotone DEF LedgerIInv, LedgerSound

\* The report a broker reviews is a sum taken once, over a ledger that goes on
\* growing (reconciliation.ts, contracts.ts): it flags what the entries up to
\* then say, and the lender checks that read the ledger are monotone.
THEOREM LedgersAreSound == LedgerSpec => []LedgerSound
<1>1. LedgerSpec => []LedgerIInv
  BY LedgerStarts, LedgerSteps, PTL DEF LedgerSpec
<1> QED BY <1>1, LedgerIInvTells, PTL
-----------------------------------------------------------------------------
\* MILESTONES.

\* A finite set of numbers has a largest one.
LEMMA LargestOf ==
  ASSUME NEW S, IsFiniteSet(S), S \subseteq Nat, S # {}
  PROVE  Max(S) \in S /\ \A x \in S : x <= Max(S)
<1> DEFINE Above(x) == {y \in S : y > x}
           B == {Above(x) : x \in S}
<1>1. B \in SUBSET (SUBSET S) /\ B # {}
  OBVIOUS
<1>2. PICK T \in B : \A U \in SUBSET T : U # T => U \notin B
  <2> HIDE DEF B
  <2> QED BY <1>1, Smallest
<1>3. PICK x \in S : T = Above(x)
  BY <1>2
<1>4. ASSUME NEW y \in S, ~ (y <= x) PROVE FALSE
  <2>1. y \in Above(x) /\ y \notin Above(y) /\ Above(y) \subseteq Above(x)
    <3>1. x \in Int /\ y \in Int /\ y > x /\ \A z \in S : z \in Int
      BY <1>3, <1>4
    <3>2. \A z \in S : z > y => z > x
      BY <3>1
    <3>3. ~ (y > y)
      BY <3>1
    <3>4. y \in Above(x) /\ y \notin Above(y)
      BY <3>1, <3>3
    <3>5. Above(y) \subseteq Above(x)
      BY <3>2
    <3> QED BY <3>4, <3>5
  <2>2. Above(y) \in B /\ Above(y) \in SUBSET T /\ Above(y) # T
    BY <1>3, <2>1
  <2> QED BY <1>2, <2>2
<1>5. \E z \in S : \A y \in S : z >= y
  BY <1>4
<1> QED BY <1>5 DEF Max

\* Among finitely many milestones one is the first of those due soonest.
LEMMA SomeSoonest ==
  ASSUME NEW shown, IsFiniteSet(shown), shown \subseteq Int, shown # {},
         \A i \in shown : milestones[i].dueDate \in Int, today \in Int
  PROVE  Soonest(shown) # {}
<1> DEFINE Days(i) == DaysUntilDue(milestones[i])
           Sooner(j, i) == Days(j) < Days(i) \/ (Days(j) = Days(i) /\ j < i)
           Before(i) == {j \in shown : Sooner(j, i)}
           B == {Before(i) : i \in shown}
<1>1. \A i \in shown : Days(i) \in Int /\ i \in Int
  <2>1. ASSUME NEW i \in shown PROVE Days(i) \in Int
    <3>1. milestones[i].dueDate \in Int
      BY <2>1
    <3> QED BY <3>1 DEF DaysUntilDue
  <2> QED BY <2>1
<1> HIDE DEF Days
<1>2. B \in SUBSET (SUBSET shown) /\ B # {}
  OBVIOUS
<1>3. PICK T \in B : \A U \in SUBSET T : U # T => U \notin B
  <2> HIDE DEF B
  <2> QED BY <1>2, Smallest
<1>4. PICK i \in shown : T = Before(i)
  BY <1>3
<1>5. ASSUME NEW j \in shown, Sooner(j, i) PROVE FALSE
  <2>1. j \in Before(i) /\ j \notin Before(j)
    BY <1>1, <1>5
  <2>2. Before(j) \subseteq Before(i)
    <3>1. ASSUME NEW k \in shown, Sooner(k, j) PROVE Sooner(k, i)
      BY <1>1, <1>5, <3>1
    <3> QED BY <3>1
  <2>3. Before(j) \in B /\ Before(j) \in SUBSET T /\ Before(j) # T
    BY <1>4, <2>1, <2>2
  <2> QED BY <1>3, <2>3
<1>6. \A j \in shown : Days(i) < Days(j) \/ (Days(i) = Days(j) /\ i <= j)
  BY <1>1, <1>5
<1>7. i \in Soonest(shown)
  BY <1>6 DEF Soonest, Days
<1> QED BY <1>7

LEMMA SoonestIsShown == \A shown : Soonest(shown) \subseteq shown
  BY DEF Soonest
-----------------------------------------------------------------------------
\* What the steps of the milestones keep.
MilestonesTyped ==
  /\ milestones \in [DOMAIN milestones -> Milestone] /\ today \in Calendar
  /\ IsFiniteSet(DOMAIN milestones) /\ DOMAIN milestones \subseteq Nat \ {0}
InOrder(m, day) ==
  /\ m.status = "overdue" => m.dueDate < day
  /\ m.flaggedForReview /\ m.status # "needs_review" => m.status = "completed"
ClosingIInv == MilestonesTyped /\ \A i \in DOMAIN milestones : InOrder(milestones[i], today)

LEMMA MilestoneAt ==
  ASSUME MilestonesTyped, NEW i \in DOMAIN milestones
  PROVE  /\ milestones[i] \in Milestone
         /\ milestones[i].dueDate \in Int /\ milestones[i].buyerDriven \in BOOLEAN
         /\ milestones[i].flaggedForReview \in BOOLEAN
         /\ milestones[i].status \in {"pending", "completed", "overdue", "needs_review"}
<1>1. milestones[i] \in Milestone
  BY DEF MilestonesTyped
<1> QED BY <1>1 DEF Milestone

LEMMA NewestIsLast ==
  ASSUME MilestonesTyped
  PROVE  Newest \in Nat /\ \A i \in DOMAIN milestones : i \in Nat /\ i <= Newest
<1> DEFINE S == {0} \cup DOMAIN milestones
<1>1. IsFiniteSet(S)
  BY FS_Singleton, FS_Union DEF MilestonesTyped
<1>2. S \subseteq Nat /\ S # {}
  BY DEF MilestonesTyped
<1>3. Newest = Max(S)
  BY DEF Newest
<1> HIDE DEF S
<1>4. Max(S) \in S /\ \A x \in S : x <= Max(S)
  BY <1>1, <1>2, LargestOf
<1> QED BY <1>2, <1>3, <1>4 DEF S

\* What the dashboard shows of one milestone.
LEMMA OneMilestone ==
  ASSUME ClosingAssumption, MilestonesTyped, NEW i \in DOMAIN milestones
  PROVE  LET m == milestones[i]
             late == m.status # "completed" /\ m.dueDate < today
         IN /\ OffTrack(m) <=> late
            /\ late => Bucket(m) = "needs_attention"
            /\ Bucket(m) = "needs_attention" => m.status # "completed"
            /\ (Bucket(m) = "needs_attention" /\ ~ late) <=> (InWindow(m) /\ m.buyerDriven)
            /\ (m.status # "completed" /\ ~ m.buyerDriven) => Bucket(m) # "on_track"
<1> DEFINE m == milestones[i]
<1>1. m.dueDate \in Int /\ m.buyerDriven \in BOOLEAN /\ today \in Int
  BY MilestoneAt DEF MilestonesTyped, ClosingAssumption
<1> DEFINE days == DaysUntilDue(m)
<1>2. days \in Int /\ (m.dueDate < today <=> days < 0)
  BY <1>1 DEF DaysUntilDue
<1> HIDE DEF m
<1>3. CASE m.status = "completed"
  <2>1. Urgency(m) = "completed" /\ Bucket(m) = "on_track"
    BY <1>3 DEF Urgency, Bucket
  <2> QED BY <1>3, <2>1 DEF OffTrack, InWindow, m
<1>4. CASE m.status # "completed"
  <2>1. OffTrack(m) <=> days < 0
    BY <1>2, <1>4 DEF OffTrack, Urgency
  <2>2. Urgency(m) = "this_week" <=> days \in 0 .. 7
    BY <1>2, <1>4 DEF Urgency
  <2>3. Bucket(m) = "needs_attention" <=> days < 0 \/ (m.buyerDriven /\ days \in 0 .. 7)
    BY <1>1, <1>4, <2>1, <2>2 DEF Bucket
  <2>4. ~ m.buyerDriven => Bucket(m) # "on_track"
    BY <1>1, <1>4, <2>1, <2>2 DEF Bucket
  <2> QED BY <1>1, <1>2, <1>4, <2>1, <2>3, <2>4 DEF InWindow, m
<1> QED BY <1>3, <1>4

LEMMA ClosingIInvTells == ClosingIInv => DashboardTruthful
<1> SUFFICES ASSUME ClosingIInv PROVE DashboardTruthful
  OBVIOUS
<1>1. MilestonesTyped /\ \A i \in DOMAIN milestones : InOrder(milestones[i], today)
  BY DEF ClosingIInv
<1>2. ASSUME NEW i \in ProjectMilestonesForViewer("buyer"), milestones[i].flaggedForReview
      PROVE  milestones[i].status = "completed"
  BY <1>1, <1>2 DEF ProjectMilestonesForViewer, InOrder
<1>3. ASSUME NEW level \in {"buyer", "staff"}
      PROVE LET shown == ProjectMilestonesForViewer(level)
                open == {i \in shown : milestones[i].status # "completed"}
                attention == {i \in shown : Bucket(milestones[i]) = "needs_attention"}
                late == {i \in open : milestones[i].dueDate < today}
            IN /\ late \subseteq attention
               /\ attention \ late = ActionsThisWeek(shown)
               /\ \A i \in BlockedOnOthers(shown) : Bucket(milestones[i]) # "on_track"
               /\ OverallOffTrack(shown) <=> late # {}
               /\ NextStep(shown) = {} <=> open = {}
               /\ late # {} => NextStep(shown) \subseteq late
               /\ CloseDate(shown) \subseteq open
  <2> DEFINE shown == ProjectMilestonesForViewer(level)
             open == {i \in shown : milestones[i].status # "completed"}
             attention == {i \in shown : Bucket(milestones[i]) = "needs_attention"}
             late == {i \in open : milestones[i].dueDate < today}
  <2>1. shown \subseteq DOMAIN milestones
    BY DEF ProjectMilestonesForViewer
  <2>2. ASSUME NEW S \in SUBSET shown, S # {} PROVE Soonest(S) # {}
    <3>1. IsFiniteSet(S)
      BY <1>1, <2>1, FS_Subset DEF MilestonesTyped
    <3>2. S \subseteq Int /\ today \in Int
      BY <1>1, <2>1, ClosingAssumption DEF MilestonesTyped
    <3>3. \A i \in S : milestones[i].dueDate \in Int
      BY <1>1, <2>1, MilestoneAt
    <3> HIDE DEF shown
    <3> QED BY <2>2, <3>1, <3>2, <3>3, SomeSoonest
  <2> HIDE DEF shown
  <2>3. ASSUME NEW i \in shown
        PROVE  /\ OffTrack(milestones[i]) <=> i \in late
               /\ i \in late => i \in attention
               /\ i \in attention => i \in open
               /\ (i \in attention /\ i \notin late)
                    <=> (InWindow(milestones[i]) /\ milestones[i].buyerDriven)
               /\ (milestones[i].status # "completed" /\ ~ milestones[i].buyerDriven)
                    => Bucket(milestones[i]) # "on_track"
    <3>1. i \in DOMAIN milestones
      BY <2>1
    <3> QED BY <1>1, <3>1, ClosingAssumption, OneMilestone
  <2>4. late \subseteq attention /\ attention \subseteq open /\ open \subseteq shown
    BY <2>3
  <2>5. attention \ late = ActionsThisWeek(shown)
    BY <2>3 DEF ActionsThisWeek
  <2>6. \A i \in BlockedOnOthers(shown) : Bucket(milestones[i]) # "on_track"
    BY <2>3 DEF BlockedOnOthers
  <2>7. OverallOffTrack(shown) <=> late # {}
    BY <2>3, <2>4 DEF OverallOffTrack
  <2>8. late = {i \in shown : OffTrack(milestones[i])}
    BY <2>3, <2>4
  <2>9. NextStep(shown) = IF late # {} THEN Soonest(late)
                          ELSE IF attention # {} THEN Soonest(attention) ELSE Soonest(open)
    <3> DEFINE offTrack == {i \in shown : OffTrack(milestones[i])}
    <3>1. NextStep(shown) = CASE offTrack # {} -> Soonest(offTrack)
                              [] offTrack = {} /\ attention # {} -> Soonest(attention)
                              [] OTHER -> Soonest(open)
      BY DEF NextStep
    <3>2. offTrack = late
      BY <2>8
    <3> HIDE DEF offTrack, late, attention, open
    <3> QED BY <3>1, <3>2
  <2>10. NextStep(shown) = {} <=> open = {}
    <3> HIDE DEF late, attention, open
    <3> QED BY <2>2, <2>4, <2>9, SoonestIsShown
  <2>11. late # {} => NextStep(shown) \subseteq late
    <3> HIDE DEF late, attention, open
    <3> QED BY <2>9, SoonestIsShown
  <2>12. CloseDate(shown) \subseteq open
    BY SoonestIsShown DEF CloseDate
  <2> QED BY <2>4, <2>5, <2>6, <2>7, <2>10, <2>11, <2>12 DEF shown
<1> QED BY <1>1, <1>2, <1>3 DEF DashboardTruthful, MilestonesTyped, InOrder
-----------------------------------------------------------------------------
LEMMA ClosingStarts == ClosingInit => ClosingIInv
<1> SUFFICES ASSUME ClosingInit PROVE ClosingIInv
  OBVIOUS
<1>1. milestones = <<>> /\ today = Min(Calendar)
  BY DEF ClosingInit
<1>2. milestones = [i \in {} |-> 0] /\ DOMAIN milestones = {}
  BY <1>1
<1>3. today \in Calendar
  <2>1. Calendar \subseteq Nat /\ Calendar # {}
    BY ClosingAssumption
  <2>2. \E x \in Calendar : \A y \in Calendar : x <= y
    <3>1. PICK x \in Calendar : \A y \in Calendar : ~ (<<y, x>> \in OpToRel(<, Nat))
      BY <2>1, NatLessThanWellFounded, WFMin
    <3>2. \A y \in Calendar : ~ (y < x)
      BY <2>1, <3>1 DEF OpToRel
    <3> QED BY <2>1, <3>2
  <2> QED BY <1>1, <2>2 DEF Min
<1>4. MilestonesTyped
  BY <1>2, <1>3, FS_EmptySet DEF MilestonesTyped
<1> QED BY <1>2, <1>4 DEF ClosingIInv


\* Every row that is there afterwards is in order, and none has the number 0.
LEMMA RowsAfter ==
  ASSUME NEW D, IsFiniteSet(D), D \subseteq Nat \ {0}, DOMAIN milestones' = D,
         milestones' = [i \in D |-> milestones'[i]], today' \in Calendar,
         \A i \in D : milestones'[i] \in Milestone /\ InOrder(milestones'[i], today')
  PROVE  ClosingIInv'
<1>1. milestones' \in [D -> Milestone]
  <2> DEFINE M == Milestone
  <2>1. \A i \in D : milestones'[i] \in M
    OBVIOUS
  <2> HIDE DEF M
  <2>2. milestones' \in [D -> M]
    BY <2>1
  <2> QED BY <2>2 DEF M
<1>2. MilestonesTyped'
  BY <1>1 DEF MilestonesTyped
<1> QED BY <1>2 DEF ClosingIInv

\* A step that rewrites rows and leaves the others.
LEMMA RowsRewritten ==
  ASSUME ClosingIInv, today' = today, DOMAIN milestones' = DOMAIN milestones,
         milestones' = [i \in DOMAIN milestones |-> milestones'[i]],
         \A i \in DOMAIN milestones :
           \/ milestones'[i] = milestones[i]
           \/ milestones'[i] \in Milestone /\ InOrder(milestones'[i], today)
  PROVE  ClosingIInv'
<1>1. /\ IsFiniteSet(DOMAIN milestones) /\ DOMAIN milestones \subseteq Nat \ {0}
      /\ today' \in Calendar /\ MilestonesTyped
      /\ \A i \in DOMAIN milestones : InOrder(milestones[i], today)
  BY DEF ClosingIInv, MilestonesTyped
<1>2. \A i \in DOMAIN milestones : milestones'[i] \in Milestone /\ InOrder(milestones'[i], today')
  BY <1>1, MilestoneAt
<1> QED BY <1>1, <1>2, RowsAfter

LEMMA OneRowRewritten ==
  ASSUME ClosingIInv, today' = today, NEW i \in DOMAIN milestones, NEW row \in Milestone,
         InOrder(row, today), milestones' = [milestones EXCEPT ![i] = row]
  PROVE  ClosingIInv'
<1>1. milestones = [k \in DOMAIN milestones |-> milestones[k]]
  BY DEF ClosingIInv, MilestonesTyped
<1>2. /\ DOMAIN milestones' = DOMAIN milestones
      /\ milestones' = [k \in DOMAIN milestones |-> milestones'[k]]
      /\ \A k \in DOMAIN milestones :
           \/ milestones'[k] = milestones[k]
           \/ milestones'[k] \in Milestone /\ InOrder(milestones'[k], today)
  <2>1. \A k \in DOMAIN milestones : milestones'[k] = IF k = i THEN row ELSE milestones[k]
    BY <1>1
  <2>2. \A k \in DOMAIN milestones :
          \/ milestones'[k] = milestones[k]
          \/ milestones'[k] \in Milestone /\ InOrder(milestones'[k], today)
    BY <2>1
  <2> QED BY <1>1, <2>2
<1> QED BY <1>2, RowsRewritten

LEMMA MarkCompletedKeeps ==
  ASSUME ClosingIInv, NEW i \in DOMAIN milestones, MarkCompleted(i)
  PROVE  ClosingIInv'
<1> DEFINE row == [milestones[i] EXCEPT !.status = "completed"]
<1>1. milestones[i] \in Milestone
  BY MilestoneAt DEF ClosingIInv
<1>2. row \in Milestone /\ row.status = "completed"
  BY <1>1 DEF Milestone
<1>3. milestones' = [milestones EXCEPT ![i] = row] /\ today' = today
  BY DEF MarkCompleted, Edit
<1> HIDE DEF row
<1>4. InOrder(row, today)
  BY <1>2 DEF InOrder
<1> QED BY <1>2, <1>3, <1>4, OneRowRewritten

LEMMA FlagForReviewKeeps ==
  ASSUME ClosingIInv, NEW i \in DOMAIN milestones, FlagForReview(i)
  PROVE  ClosingIInv'
<1> DEFINE row == [milestones[i] EXCEPT !.flaggedForReview = TRUE, !.status = "needs_review"]
<1>1. milestones[i] \in Milestone
  BY MilestoneAt DEF ClosingIInv
<1>2. row \in Milestone /\ row.status = "needs_review"
  BY <1>1 DEF Milestone
<1>3. milestones' = [milestones EXCEPT ![i] = row] /\ today' = today
  <2>1. milestones = [k \in DOMAIN milestones |-> milestones[k]]
    BY DEF ClosingIInv, MilestonesTyped
  <2> QED BY <2>1 DEF FlagForReview, Edit
<1> HIDE DEF row
<1>4. InOrder(row, today)
  BY <1>2 DEF InOrder
<1> QED BY <1>2, <1>3, <1>4, OneRowRewritten

LEMMA ResolveReviewKeeps ==
  ASSUME ClosingIInv, NEW i \in DOMAIN milestones, NEW d \in Dates \cup {NoDate},
         ResolveReview(i, d)
  PROVE  ClosingIInv'
<1> DEFINE row == [milestones[i] EXCEPT !.flaggedForReview = FALSE, !.status = "pending",
                     !.source = "amended", !.dueDate = IF d = NoDate THEN @ ELSE d]
<1>1. milestones[i] \in Milestone /\ milestones[i].dueDate \in Int
  BY MilestoneAt DEF ClosingIInv
<1>2. row \in Milestone /\ row.status = "pending" /\ row.flaggedForReview = FALSE
  <2>1. d \in Int
    BY ClosingAssumption DEF NoDate
  <2> QED BY <1>1, <2>1 DEF Milestone
<1>3. milestones' = [milestones EXCEPT ![i] = row] /\ today' = today
  <2>1. milestones = [k \in DOMAIN milestones |-> milestones[k]]
    BY DEF ClosingIInv, MilestonesTyped
  <2> QED BY <2>1 DEF ResolveReview, Edit
<1> HIDE DEF row
<1>4. InOrder(row, today)
  BY <1>2 DEF InOrder
<1> QED BY <1>2, <1>3, <1>4, OneRowRewritten

LEMMA MarkOverdueKeeps ==
  ASSUME ClosingIInv, MarkOverdueBatch
  PROVE  ClosingIInv'
<1> DEFINE Late(m) == [m EXCEPT !.status = "overdue"]
<1>1. /\ milestones' = [i \in DOMAIN milestones |->
            IF LateAndSettled(milestones[i]) THEN Late(milestones[i]) ELSE milestones[i]]
      /\ today' = today
  BY DEF MarkOverdueBatch
<1>2. ASSUME NEW i \in DOMAIN milestones, LateAndSettled(milestones[i])
      PROVE  Late(milestones[i]) \in Milestone /\ InOrder(Late(milestones[i]), today)
  <2> DEFINE m == milestones[i]
  <2>1. m \in Milestone
    BY MilestoneAt DEF ClosingIInv
  <2>2. /\ Late(m) \in Milestone /\ Late(m).dueDate = m.dueDate
        /\ Late(m).flaggedForReview = m.flaggedForReview
    BY <2>1 DEF Milestone
  <2>3. m.dueDate < today /\ ~ m.flaggedForReview
    BY <1>2 DEF LateAndSettled
  <2> HIDE DEF Late
  <2> QED BY <2>2, <2>3 DEF InOrder
<1> HIDE DEF Late
<1>3. /\ DOMAIN milestones' = DOMAIN milestones
      /\ milestones' = [i \in DOMAIN milestones |-> milestones'[i]]
  BY <1>1
<1>4. \A i \in DOMAIN milestones :
        \/ milestones'[i] = milestones[i]
        \/ milestones'[i] \in Milestone /\ InOrder(milestones'[i], today)
  BY <1>1, <1>2
<1> QED BY <1>1, <1>3, <1>4, RowsRewritten

LEMMA NextDayKeeps ==
  ASSUME ClosingIInv, NextDay
  PROVE  ClosingIInv'
<1>1. /\ MilestonesTyped /\ \A i \in DOMAIN milestones : InOrder(milestones[i], today)
      /\ milestones = [i \in DOMAIN milestones |-> milestones[i]]
      /\ IsFiniteSet(DOMAIN milestones) /\ DOMAIN milestones \subseteq Nat \ {0}
      /\ today \in Nat
  BY ClosingAssumption DEF ClosingIInv, MilestonesTyped
<1> DEFINE later == {e \in Calendar : e > today}
<1>2. later \subseteq Nat /\ later # {} /\ today' = Min(later) /\ milestones' = milestones
  BY ClosingAssumption DEF NextDay
<1>3. today' \in later
  <2>1. PICK x \in later : \A y \in later : ~ (<<y, x>> \in OpToRel(<, Nat))
    <3> HIDE DEF later
    <3> QED BY <1>2, NatLessThanWellFounded, WFMin
  <2>2. \A y \in later : y \in Nat /\ x \in Nat
    BY <1>2
  <2>4. \A y \in later : ~ (y < x)
    <3> HIDE DEF later
    <3> QED BY <2>1, <2>2 DEF OpToRel
  <2>3. \A y \in later : x <= y
    <3> HIDE DEF later
    <3> QED BY <2>2, <2>4
  <2> HIDE DEF later
  <2> QED BY <1>2, <2>3 DEF Min
<1>4. today' \in Calendar /\ today' \in Int /\ today' > today
  BY <1>2, <1>3
<1>5. ASSUME NEW i \in DOMAIN milestones
      PROVE  milestones'[i] \in Milestone /\ InOrder(milestones'[i], today')
  <2>1. milestones[i] \in Milestone /\ milestones[i].dueDate \in Int
    BY <1>1, MilestoneAt
  <2>2. InOrder(milestones[i], today)
    BY <1>1
  <2>3. InOrder(milestones[i], today')
    <3> DEFINE due == milestones[i].dueDate
    <3>1. due < today => due < today'
      BY <1>1, <1>4, <2>1
    <3> QED BY <2>2, <3>1 DEF InOrder
  <2> QED BY <1>2, <2>1, <2>3
<1> QED BY <1>1, <1>2, <1>4, <1>5, RowsAfter

LEMMA CreateManualKeeps ==
  ASSUME ClosingIInv, NEW workstream \in {"closing", "other"}, NEW dueDate \in Dates,
         NEW buyerDriven \in BOOLEAN, CreateManual(workstream, dueDate, buyerDriven)
  PROVE  ClosingIInv'
<1>1. /\ MilestonesTyped /\ \A i \in DOMAIN milestones : InOrder(milestones[i], today)
      /\ IsFiniteSet(DOMAIN milestones) /\ DOMAIN milestones \subseteq Nat \ {0}
      /\ today \in Calendar
  BY DEF ClosingIInv, MilestonesTyped
<1> DEFINE row == [workstream |-> workstream, dueDate |-> dueDate,
                   buyerDriven |-> buyerDriven, status |-> "pending", source |-> "manual",
                   flaggedForReview |-> FALSE, byHand |-> TRUE]
           D == DOMAIN milestones \cup {Newest + 1}
<1>2. /\ milestones' = [i \in D |-> IF i \in DOMAIN milestones THEN milestones[i] ELSE row]
      /\ today' = today
  BY DEF CreateManual
<1>3. row \in Milestone
  <2>1. dueDate \in Int
    BY ClosingAssumption
  <2>2. workstream \in Workstreams
    BY DEF Workstreams
  <2> QED BY <2>1, <2>2 DEF Milestone
<1>4. InOrder(row, today)
  BY DEF InOrder
<1> HIDE DEF row
<1>5. Newest \in Nat
  BY <1>1, NewestIsLast
<1>6. IsFiniteSet(D)
  BY <1>1, FS_AddElement
<1>7. D \subseteq Nat \ {0}
  BY <1>1, <1>5
<1> HIDE DEF D
<1>8. ASSUME NEW i \in D
      PROVE  milestones'[i] \in Milestone /\ InOrder(milestones'[i], today')
  BY <1>1, <1>2, <1>3, <1>4, <1>8, MilestoneAt
<1>9. DOMAIN milestones' = D /\ milestones' = [i \in D |-> milestones'[i]]
  BY <1>2
<1> QED BY <1>1, <1>2, <1>6, <1>7, <1>8, <1>9, RowsAfter
-----------------------------------------------------------------------------
\* A batch of drafts, numbered with gaps.
Draft == [workstream : Workstreams, dueDate : Int, flaggedForReview : BOOLEAN]
IsBatch(batch) == /\ IsFiniteSet(DOMAIN batch) /\ DOMAIN batch \subseteq Nat \ {0}
                  /\ \A k \in DOMAIN batch : batch[k] \in Draft

LEMMA DraftTaken ==
  ASSUME NEW m \in Draft
  PROVE  ExtractedRow(m) \in Milestone /\ \A day : InOrder(ExtractedRow(m), day)
<1> DEFINE row == ExtractedRow(m)
<1>1. /\ m.workstream \in Workstreams /\ m.dueDate \in Int /\ m.flaggedForReview \in BOOLEAN
      /\ (m.workstream \in BuyerDriven) \in BOOLEAN
  BY DEF Draft
<1>2. row \in Milestone
  BY <1>1 DEF ExtractedRow, Milestone
<1>3. /\ row.flaggedForReview => row.status = "needs_review"
      /\ row.status # "overdue"
  BY <1>1 DEF ExtractedRow
<1> QED BY <1>2, <1>3 DEF InOrder

LEMMA Shifted ==
  ASSUME NEW S, IsFiniteSet(S), NEW n
  PROVE  IsFiniteSet({n + k : k \in S})
<1> DEFINE T == {n + k : k \in S}
           f == [k \in S |-> n + k]
<1>1. f \in Surjection(S, T)
  BY DEF Surjection
<1> HIDE DEF f
<1> QED BY <1>1, FS_Surjection

LEMMA PersistKeepsRows ==
  ASSUME ClosingIInv, NEW batch, IsBatch(batch), PersistExtractionBatch(batch), today' = today
  PROVE  ClosingIInv'
<1>1. /\ MilestonesTyped /\ \A i \in DOMAIN milestones : InOrder(milestones[i], today)
      /\ IsFiniteSet(DOMAIN milestones) /\ DOMAIN milestones \subseteq Nat \ {0}
      /\ today \in Calendar
  BY DEF ClosingIInv, MilestonesTyped
<1> DEFINE stay == {i \in DOMAIN milestones : milestones[i].source = "manual"}
           news == {Newest + k : k \in DOMAIN batch}
           D == stay \cup news
<1>2. milestones' = [i \in D |-> IF i \in stay THEN milestones[i]
                                 ELSE ExtractedRow(batch[i - Newest])]
  BY DEF PersistExtractionBatch
<1>3. Newest \in Nat
  BY <1>1, NewestIsLast
<1>4. \A k \in DOMAIN batch : k \in Nat \ {0} /\ (Newest + k) - Newest = k
                              /\ Newest + k \in Nat \ {0}
  <2>1. \A k \in DOMAIN batch : k \in Nat \ {0}
    BY DEF IsBatch
  <2> QED BY <1>3, <2>1
<1>5. IsFiniteSet(D)
  <2>1. IsFiniteSet(stay)
    BY <1>1, FS_Subset
  <2>2. IsFiniteSet(news)
    BY Shifted DEF IsBatch
  <2> HIDE DEF stay, news
  <2> QED BY <2>1, <2>2, FS_Union
<1>6. D \subseteq Nat \ {0}
  BY <1>1, <1>4
<1>7. ASSUME NEW i \in D
      PROVE  milestones'[i] \in Milestone /\ InOrder(milestones'[i], today')
  <2>1. CASE i \in stay
    <3>1. i \in DOMAIN milestones
      BY <2>1
    <3>2. milestones'[i] = milestones[i]
      BY <1>2, <2>1
    <3> QED BY <1>1, <3>1, <3>2, MilestoneAt
  <2>2. CASE i \notin stay
    <3>1. PICK k \in DOMAIN batch : i = Newest + k
      BY <1>7, <2>2
    <3>2. milestones'[i] = ExtractedRow(batch[k])
      <4>1. i - Newest = k
        BY <1>4, <3>1
      <4> QED BY <1>2, <1>7, <2>2, <4>1
    <3>3. batch[k] \in Draft
      BY <3>1 DEF IsBatch
    <3> QED BY <3>2, <3>3, DraftTaken
  <2> QED BY <2>1, <2>2
<1> HIDE DEF D
<1>8. DOMAIN milestones' = D /\ milestones' = [i \in D |-> milestones'[i]]
  BY <1>2
<1> QED BY <1>1, <1>5, <1>6, <1>7, <1>8, RowsAfter

LEMMA Drafted ==
  ASSUME NEW workstream \in Workstreams, NEW field \in Int, NEW guess \in Int
  PROVE  OrDefault(workstream, field, guess) \in Draft
BY DEF OrDefault, Derived, Draft

LEMMA WalkThrough ==
  ASSUME NEW m \in Draft
  PROVE  [m EXCEPT !.workstream = "walkthrough", !.dueDate = @ - 1] \in Draft
<1>1. "walkthrough" \in Workstreams
  BY DEF Workstreams
<1>2. m.dueDate \in Int
  BY DEF Draft
<1>3. ASSUME NEW w \in Workstreams, NEW day \in Int
      PROVE  [m EXCEPT !.workstream = w, !.dueDate = day] \in Draft
  BY DEF Draft
<1>4. m.dueDate - 1 \in Int
  BY <1>2
<1> HIDE DEF Draft
<1> QED BY <1>1, <1>3, <1>4

LEMMA ContractDrafted ==
  ASSUME NEW f \in FieldMaps
  PROVE  DeriveContractMilestones(f) \in Seq(Draft)
<1>1. f.agreement \in Int /\ f.dueDiligence \in Int /\ f.earnest \in Int /\ f.closing \in Int
  BY ClosingAssumption DEF NoDate
<1> DEFINE inspection == OrDefault("inspection", f.dueDiligence, f.agreement + 15)
           escrow == OrDefault("escrow", f.earnest, f.agreement + 3)
           ending == OrDefault("closing", f.closing, f.agreement + 30)
           walk == [ending EXCEPT !.workstream = "walkthrough", !.dueDate = @ - 1]
           first == IF f.agreement # NoDate THEN <<inspection, escrow>> ELSE <<>>
           second == IF f.agreement # NoDate \/ f.closing # NoDate
                       THEN <<ending, walk>> ELSE <<>>
<1>2. inspection \in Draft /\ escrow \in Draft /\ ending \in Draft
  <2>1. /\ f.agreement + 15 \in Int /\ f.agreement + 3 \in Int
        /\ f.agreement + 30 \in Int
    BY <1>1
  <2>2. inspection \in Draft
    BY <1>1, <2>1, Drafted DEF Workstreams
  <2>3. escrow \in Draft
    BY <1>1, <2>1, Drafted DEF Workstreams
  <2>4. ending \in Draft
    BY <1>1, <2>1, Drafted DEF Workstreams
  <2> QED BY <2>2, <2>3, <2>4
<1> DEFINE e == ending
<1>3. walk \in Draft
  <2>1. e \in Draft
    BY <1>2
  <2> HIDE DEF e
  <2>2. [e EXCEPT !.workstream = "walkthrough", !.dueDate = @ - 1] \in Draft
    BY <2>1, WalkThrough
  <2> QED BY <2>2 DEF e
<1>4. DeriveContractMilestones(f) = first \o second
  BY DEF DeriveContractMilestones
<1> HIDE DEF inspection, escrow, ending, walk, Draft
<1>5. first \in Seq(Draft) /\ second \in Seq(Draft)
  BY <1>2, <1>3
<1> HIDE DEF first, second
<1> QED BY <1>4, <1>5, ConcatProperties

LEMMA Finalized ==
  ASSUME NEW batch \in Seq(Draft)
  PROVE  Finalize(batch) \in Seq(Draft)
<1>1. Len(batch) \in Nat /\ DOMAIN batch = 1 .. Len(batch)
  BY LenProperties
<1>2. ASSUME NEW i \in 1 .. Len(batch) PROVE Finalize(batch)[i] \in Draft
  <2>1. batch[i] \in Draft
    BY <1>1, <1>2, ElementOfSeq
  <2>2. Finalize(batch)[i]
          = [batch[i] EXCEPT !.flaggedForReview = @ \/ batch[i].dueDate < today]
    BY <1>1, <1>2 DEF Finalize
  <2> QED BY <2>1, <2>2 DEF Draft
<1>3. Finalize(batch) = [i \in 1 .. Len(batch) |-> Finalize(batch)[i]]
  BY <1>1 DEF Finalize
<1> HIDE DEF Draft
<1> QED BY <1>1, <1>2, <1>3, SeqDef

LEMMA Merged ==
  ASSUME NEW primary \in Seq(Draft), NEW secondary \in Seq(Draft)
  PROVE  IsBatch(MergeByWorkstream(primary, secondary))
<1> DEFINE n == Len(primary)
           kept == {j \in DOMAIN secondary :
                      /\ \A i \in DOMAIN primary :
                           primary[i].workstream # secondary[j].workstream
                      /\ \A k \in 1 .. j - 1 :
                           secondary[k].workstream # secondary[j].workstream}
           more == {n + j : j \in kept}
           D == DOMAIN primary \cup more
           merged == MergeByWorkstream(primary, secondary)
<1>1. merged = [k \in D |-> IF k \in DOMAIN primary THEN primary[k] ELSE secondary[k - n]]
  BY DEF MergeByWorkstream
<1>2. /\ n \in Nat /\ DOMAIN primary = 1 .. n /\ Len(secondary) \in Nat
      /\ DOMAIN secondary = 1 .. Len(secondary)
  BY LenProperties
<1>3. kept \subseteq 1 .. Len(secondary)
  BY <1>2
<1>4. IsFiniteSet(D)
  <2>1. IsFiniteSet(1 .. n) /\ IsFiniteSet(1 .. Len(secondary))
    BY <1>2, FS_Interval
  <2>2. IsFiniteSet(kept)
    BY <1>3, <2>1, FS_Subset
  <2> HIDE DEF kept
  <2>3. IsFiniteSet(more)
    BY <2>2, Shifted
  <2> QED BY <1>2, <2>1, <2>3, FS_Union
<1> HIDE DEF kept
<1>5. \A j \in kept : j \in 1 .. Len(secondary) /\ (n + j) - n = j /\ n + j \in Nat \ {0}
                      /\ n + j \notin 1 .. n
  BY <1>2, <1>3
<1>6. D \subseteq Nat \ {0}
  BY <1>2, <1>5
<1>7. ASSUME NEW k \in D PROVE merged[k] \in Draft
  <2>1. CASE k \in DOMAIN primary
    <3>1. merged[k] = primary[k]
      BY <1>1, <2>1
    <3> QED BY <1>2, <2>1, <3>1, ElementOfSeq
  <2>2. CASE k \notin DOMAIN primary
    <3>1. PICK j \in kept : k = n + j
      BY <1>7, <2>2
    <3>2. k - n = j
      BY <1>5, <3>1
    <3>3. merged[k] = secondary[j]
      BY <1>1, <1>7, <2>2, <3>2
    <3> QED BY <1>2, <1>5, <3>1, <3>3, ElementOfSeq
  <2> QED BY <2>1, <2>2
<1> HIDE DEF D
<1>8. DOMAIN merged = D
  BY <1>1
<1> HIDE DEF merged
<1>9. IsBatch(merged)
  BY <1>4, <1>6, <1>7, <1>8 DEF IsBatch
<1> QED BY <1>9 DEF merged

LEMMA ExtractKeeps ==
  ASSUME ClosingIInv, NEW f \in FieldMaps,
         NEW secondary \in {<<>>} \cup {<<m>> : m \in Secondary}, Extract(f, secondary)
  PROVE  ClosingIInv'
<1>1. secondary \in Seq(Draft)
  <2>1. Secondary \subseteq Draft
    BY ClosingAssumption DEF Draft
  <2> HIDE DEF Draft
  <2>2. CASE secondary = <<>>
    BY <2>2, EmptySeq
  <2>3. ASSUME NEW m \in Secondary, secondary = <<m>> PROVE secondary \in Seq(Draft)
    BY <2>1, <2>3
  <2> QED BY <2>2, <2>3
<1> DEFINE batch == MergeByWorkstream(Finalize(DeriveContractMilestones(f)),
                                      Finalize(secondary))
<1>2. IsBatch(batch)
  BY <1>1, ContractDrafted, Finalized, Merged
<1>3. PersistExtractionBatch(batch) /\ today' = today
  BY DEF Extract
<1> HIDE DEF batch
<1> QED BY <1>2, <1>3, PersistKeepsRows

LEMMA ClosingSteps == ClosingIInv /\ [ClosingNext]_closingVars => ClosingIInv'
<1> SUFFICES ASSUME ClosingIInv, [ClosingNext]_closingVars PROVE ClosingIInv'
  OBVIOUS
<1>1. CASE UNCHANGED closingVars
  BY <1>1 DEF ClosingIInv, MilestonesTyped, InOrder, closingVars
<1>2. CASE ClosingNext
  BY <1>2, ExtractKeeps, CreateManualKeeps, MarkCompletedKeeps, FlagForReviewKeeps,
     ResolveReviewKeeps, MarkOverdueKeeps, NextDayKeeps DEF ClosingNext
<1> QED BY <1>1, <1>2

LEMMA DashboardsAreTruthful == ClosingSpec => []DashboardTruthful
<1>1. ClosingSpec => []ClosingIInv
  BY ClosingStarts, ClosingSteps, PTL DEF ClosingSpec
<1> QED BY <1>1, ClosingIInvTells, PTL

\* Whatever is extracted, added, flagged, resolved, completed and marked, in any
\* order, no open date that is for review reaches the buyer's dashboard, and the
\* dashboard agrees with itself; and no task of the close phase settles twice.
THEOREM ClosingsAreSound == ClosingSpec /\ TasksSpec => []ClosingSound
<1>1. DashboardTruthful /\ TasksSettleOnce => ClosingSound
  BY DEF ClosingSound
<1> QED BY <1>1, DashboardsAreTruthful, TasksAreSettledOnce, PTL
=============================================================================
