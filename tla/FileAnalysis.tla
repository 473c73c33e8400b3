----------------------------- MODULE FileAnalysis -----------------------------
(***************************************************************************)
(* Analysis of uploaded documents and the facts read from them             *)
(* (convex/fileAnalysis.ts, convex/lib/fileAnalysisPipeline.ts,            *)
(* convex/fileFacts.ts).                                                   *)
(*                                                                         *)
(* A worker outside the repository runs the analysis of a job and reports  *)
(* it, at any time and more than once; brokers retry and resolve jobs and  *)
(* review, edit and add facts meanwhile.  A file may be analysed by        *)
(* several jobs.  Of a fact the model keeps its slug, the file it is about,*)
(* the run that produced it and its value.                                 *)
(***************************************************************************)
EXTENDS Naturals, Sequences, SequencesExt

CONSTANTS
  Files,        \* stored documents
  Slugs,        \* what facts are about
  FactValues,
  NoFact,       \* an analysis may leave a slug out
  MaxJobs,      \* bounds on the rows of the tables
  MaxFacts

ASSUME FileAnalysisAssumption ==
  /\ {MaxJobs, MaxFacts} \subseteq Nat /\ NoFact \notin FactValues
  /\ IsFiniteSet(Slugs)

VARIABLES
  analysisJobs,  \* fileAnalysisJobs, by age
  findings,      \* fileAnalysisFindings: per job, a set
  facts,         \* fileFacts, by age
  approved,      \* history: per fact, its content when a broker last approved it
  edited         \* history: the facts a broker has edited or added

analysisVars == <<analysisJobs, findings, facts, approved, edited>>

JobStatuses == {"queued", "running", "review_required", "completed", "failed",
                "resolved"}
ReviewStatuses == {"needsReview", "approved", "rejected", "superseded"}

AnalysisJob == [file : Files, status : JobStatuses]
Finding == [requiresReview : BOOLEAN, resolved : BOOLEAN]
Content == [slug : Slugs, file : Files, run : 0 .. MaxJobs, value : FactValues]
Fact == [content : Content, status : ReviewStatuses]

Nothing == <<>>   \* nothing approved yet
-----------------------------------------------------------------------------
AllowedJobTransition(current, next) ==   \* assertAllowedJobTransition
  next \in CASE current = "queued" -> {"running"}
             [] current = "running" -> {"failed", "completed", "review_required"}
             [] current = "failed" -> {"queued", "running"}
             [] current = "review_required" -> {"resolved"}
             [] OTHER -> {}

DeriveJobOutcome(report) ==
  IF report.requiresBrokerReview \/ TRUE \in report.findings
    THEN "review_required" ELSE "completed"

\* What a worker may report: whether findings with and without a review were
\* made, what it asks for, and the values it found.
AnalysisReport == [findings : SUBSET BOOLEAN, requiresBrokerReview : BOOLEAN,
                   values : [Slugs -> FactValues \cup {NoFact}]]

BuildFactProjections(report) ==
  SetToSeq({s \in Slugs : report.values[s] # NoFact})

Live(fact) == fact.status # "superseded"

SupersededFacts(file, slugs) ==
  [i \in DOMAIN facts |->
     IF facts[i].content.file = file /\ facts[i].content.slug \in slugs
       THEN [facts[i] EXCEPT !.status = "superseded"] ELSE facts[i]]

\* Mutant: only the facts of the job itself give way to the new ones.
ReconcileProjectedFacts_OwnRun(j, report) ==
  LET slugs == BuildFactProjections(report)
      file == analysisJobs[j].file
  IN [i \in DOMAIN facts |->
        IF facts[i].content.run = j
          THEN [facts[i] EXCEPT !.status = "superseded"] ELSE facts[i]]
     \o [k \in DOMAIN slugs |->
           [content |-> [slug |-> slugs[k], file |-> file, run |-> j,
                         value |-> report.values[slugs[k]]],
            status |-> "needsReview"]]

ReconcileProjectedFacts(j, report) ==
  LET slugs == BuildFactProjections(report)
      file == analysisJobs[j].file
  IN SupersededFacts(file, Range(slugs))
     \o [k \in DOMAIN slugs |->
           [content |-> [slug |-> slugs[k], file |-> file, run |-> j,
                         value |-> report.values[slugs[k]]],
            status |-> "needsReview"]]

SetJobStatus(j, status) ==
  /\ AllowedJobTransition(analysisJobs[j].status, status)
  /\ analysisJobs' = [analysisJobs EXCEPT ![j].status = status]
-----------------------------------------------------------------------------
EnqueueAnalysis(file) ==
  /\ Len(analysisJobs) < MaxJobs
  /\ analysisJobs' = Append(analysisJobs,
       [file |-> file, status |-> "queued"])
  /\ findings' = Append(findings, {})
  /\ UNCHANGED <<facts, approved, edited>>

MarkAnalysisRunning(j) ==
  /\ SetJobStatus(j, "running")
  /\ UNCHANGED <<findings, facts, approved, edited>>

RecordAnalysisResult(j, report) ==
  LET projected == ReconcileProjectedFacts(j, report) IN
  /\ analysisJobs[j].status = "running"
  /\ Len(projected) <= MaxFacts
  /\ SetJobStatus(j, DeriveJobOutcome(report))
  /\ findings' = [findings EXCEPT ![j] = @ \cup
                    {[requiresReview |-> b, resolved |-> FALSE] : b \in report.findings}]
  /\ facts' = projected
  /\ approved' = [i \in DOMAIN projected |->
                    IF i \in DOMAIN approved THEN approved[i] ELSE Nothing]
  /\ UNCHANGED edited

RecordFailure(j) ==
  /\ analysisJobs[j].status = "running"
  /\ analysisJobs' = [analysisJobs EXCEPT ![j].status = "failed"]
  /\ UNCHANGED <<findings, facts, approved, edited>>

RetryJob(j) ==
  /\ SetJobStatus(j, "queued")
  /\ UNCHANGED <<findings, facts, approved, edited>>

ResolveJob(j) ==
  /\ SetJobStatus(j, "resolved")
  /\ findings' = [findings EXCEPT ![j] = {[f EXCEPT !.resolved = TRUE] : f \in @}]
  /\ UNCHANGED <<facts, approved, edited>>
-----------------------------------------------------------------------------
\* resolveFactContext: a fact that names a run names one of the same file.
FactContext(content) ==
  content.run # 0 => /\ content.run \in DOMAIN analysisJobs
                     /\ analysisJobs[content.run].file = content.file

CreateFact(content) ==
  /\ FactContext(content)
  /\ Len(facts) < MaxFacts
  /\ facts' = Append(facts, [content |-> content, status |-> "needsReview"])
  /\ approved' = Append(approved, Nothing)
  /\ edited' = edited \cup {Len(facts) + 1}
  /\ UNCHANGED <<analysisJobs, findings>>

UpdateFact(i, content) ==
  /\ Live(facts[i])
  /\ FactContext(content)
  /\ content # facts[i].content     \* isNoOpUpdate
  /\ facts' = [facts EXCEPT ![i] = [content |-> content, status |-> "needsReview"]]
  /\ approved' = [approved EXCEPT ![i] = Nothing]
  /\ edited' = edited \cup {i}
  /\ UNCHANGED <<analysisJobs, findings>>

MarkSuperseded(i) ==
  /\ Live(facts[i])
  /\ facts' = [facts EXCEPT ![i].status = "superseded"]
  /\ UNCHANGED <<analysisJobs, findings, approved, edited>>

CanTransitionReview(from, to) ==
  \/ from = to
  \/ to \in CASE from = "needsReview" -> {"approved", "rejected"}
              [] from = "approved" -> {"rejected", "superseded"}
              [] from = "rejected" -> {"approved", "superseded"}
              [] OTHER -> {}

TransitionReview(i, next) ==
  /\ CanTransitionReview(facts[i].status, next)
  /\ facts' = [facts EXCEPT ![i].status = next]
  /\ approved' = [approved EXCEPT ![i] = IF next = "approved"
                     THEN <<facts[i].content>> ELSE Nothing]
  /\ UNCHANGED <<analysisJobs, findings, edited>>
-----------------------------------------------------------------------------
AnalysisInit ==
  analysisJobs = <<>> /\ findings = <<>> /\ facts = <<>> /\ approved = <<>>
    /\ edited = {}

JobStep ==
  \/ \E file \in Files : EnqueueAnalysis(file)
  \/ \E j \in DOMAIN analysisJobs :
       \/ MarkAnalysisRunning(j)
       \/ \E report \in AnalysisReport : RecordAnalysisResult(j, report)
       \/ RecordFailure(j)
       \/ RetryJob(j)
       \/ ResolveJob(j)

FactStep ==
  \/ \E content \in Content : CreateFact(content)
  \/ \E i \in DOMAIN facts :
       \/ \E content \in Content : UpdateFact(i, content)
       \/ MarkSuperseded(i)
       \/ \E next \in ReviewStatuses : TransitionReview(i, next)

AnalysisNext == JobStep \/ FactStep

AnalysisSpec == AnalysisInit /\ [][AnalysisNext]_analysisVars
-----------------------------------------------------------------------------
\* Shape of the tables.
AnalysisTypeOK ==
  /\ analysisJobs \in Seq(AnalysisJob) /\ Len(analysisJobs) <= MaxJobs
  /\ findings \in Seq(SUBSET Finding) /\ Len(findings) = Len(analysisJobs)
  /\ facts \in Seq(Fact) /\ Len(facts) <= MaxFacts
  /\ approved \in Seq({Nothing} \cup {<<c>> : c \in Content})
  /\ Len(approved) = Len(facts)
  /\ edited \subseteq DOMAIN facts

(***************************************************************************)
(* "High-severity findings CANNOT be auto-resolved" (fileAnalysis.ts:17),  *)
(* for replayed, late and repeated reports: a completed job has no finding *)
(* that requires a review, findings exist only once a report was accepted, *)
(* and they are resolved together with their job and not before.           *)
(***************************************************************************)
FindingsGated ==
  \A j \in DOMAIN analysisJobs : \A f \in findings[j] :
    LET status == analysisJobs[j].status IN
    /\ status \in {"completed", "review_required", "resolved"}
    /\ status = "completed" => ~f.requiresReview
    /\ f.resolved <=> status = "resolved"

(***************************************************************************)
(* What a buyer sees is what a broker approved: an approved fact still has *)
(* the content it had then, whatever was edited and analysed since.        *)
(***************************************************************************)
ApprovedAsReviewed ==
  \A i \in DOMAIN facts :
    facts[i].status = "approved" => approved[i] = <<facts[i].content>>

(***************************************************************************)
(* However many jobs analyse one file and in whatever order they end, of   *)
(* the facts that no broker has touched at most one per file and slug is   *)
(* live, and it is the one that was recorded last.                         *)
(***************************************************************************)
LatestProjectionOnly ==
  \A i, k \in DOMAIN facts \ edited :
    (/\ Live(facts[i]) /\ i < k
     /\ facts[i].content.slug = facts[k].content.slug
     /\ facts[i].content.file = facts[k].content.file) => FALSE

FileReviewSound ==
  AnalysisTypeOK /\ FindingsGated /\ ApprovedAsReviewed /\ LatestProjectionOnly
=============================================================================
