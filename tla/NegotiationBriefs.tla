-------------------------- MODULE NegotiationBriefs --------------------------
(***************************************************************************)
(* Negotiation briefs of a deal room: rows that are assembled from the     *)
(* engines' outputs, go stale and are made again                           *)
(* (convex/negotiationBriefs.ts, src/lib/negotiation/brief.ts).            *)
(* Nothing under src/ runs the assembly: it is an external process that    *)
(* reads the outputs at one moment and reports at a later one, and several *)
(* of them may be at work on one row.                                      *)
(***************************************************************************)
EXTENDS FiniteSets, Naturals, Sequences, SequencesExt

CONSTANTS
  Sources,                          \* pricing, comps, leverage, offer
  EmptyAtFirst,                     \* engines whose first output has no comps or signals
  MaxVersion, MaxBriefs, MaxRuns    \* bounds

ASSUME BriefsAssumption ==
  /\ Sources \subseteq {"pricing", "comps", "leverage", "offer"}
  /\ {MaxVersion, MaxBriefs, MaxRuns} \subseteq Nat
  /\ EmptyAtFirst \subseteq Sources \cap {"comps", "leverage"}

VARIABLES
  made,      \* outputs each engine has made; one past MaxVersion: they were removed
  briefs,    \* negotiationBriefs of the room, in the order of their creation
  runs,      \* assemblies under way: the row, and the versions they have read
  completed  \* rows in the order of their completedAt, the last one last

briefVars == <<made, briefs, runs, completed>>

SourceVersions == [Sources -> 0 .. MaxVersion]
CurrentVersions == [s \in Sources |-> IF made[s] > MaxVersion THEN 0 ELSE made[s]]  \* 0: no output
NoPayload == [read |-> "nothing"]
BriefStatuses == {"pending", "ready", "failed", "stale"}
-----------------------------------------------------------------------------
(* assembleNegotiationBrief and detectStaleness *)

\* The sections an assembly fills; the fifth comes from the buyer's own facts
\* and has no version.
PresentSections(read) == {s \in Sources : read[s] > IF s \in EmptyAtFirst THEN 1 ELSE 0}
Assembled(read) == [read |-> read, coverage |-> Cardinality(PresentSections(read))]

\* A source that is gone does not make a brief stale.
StaleReasons(existing, fresh) == {s \in Sources : fresh[s] # 0 /\ existing[s] # fresh[s]}

\* A row that is completed again is the last one completed.
Complete(b) == completed' = Append(RemoveFirst(completed, b), b)
-----------------------------------------------------------------------------
CreateBrief(read) ==
  /\ Len(briefs) < MaxBriefs
  /\ briefs' = Append(briefs, [status |-> "pending", versions |-> read, payload |-> NoPayload])
  /\ UNCHANGED <<made, runs, completed>>

Assemble(b) ==
  /\ briefs[b].status = "pending" /\ Cardinality(runs) < MaxRuns
  /\ runs' = runs \cup {[brief |-> b, read |-> CurrentVersions]}
  /\ UNCHANGED <<made, briefs, completed>>

\* Mutant: the versions stay those the broker asked for.
RecordReady_VersionsAsAsked(run) ==
  /\ briefs' = [briefs EXCEPT ![run.brief].status = "ready",
                              ![run.brief].payload = Assembled(run.read)]
  /\ Complete(run.brief)
  /\ runs' = runs \ {run} /\ UNCHANGED made

\* Whatever the status of the row has become.
RecordReady(run) ==
  /\ briefs' = [briefs EXCEPT ![run.brief].status = "ready",
                              ![run.brief].payload = Assembled(run.read),
                              ![run.brief].versions = run.read]
  /\ Complete(run.brief)
  /\ runs' = runs \ {run} /\ UNCHANGED made

RecordFailure(run) ==
  /\ briefs' = [briefs EXCEPT ![run.brief].status = "failed"]
  /\ runs' = runs \ {run} /\ UNCHANGED <<made, completed>>

\* A broker may mark any ready brief, whatever the detector says.
MarkStale(b) ==
  /\ briefs[b].status = "ready"
  /\ briefs' = [briefs EXCEPT ![b].status = "stale"]
  /\ UNCHANGED <<made, runs, completed>>

Regenerate(b, read) ==
  /\ briefs[b].status \in {"stale", "failed"}
  /\ briefs' = [briefs EXCEPT ![b].status = "pending", ![b].versions = read]
  /\ UNCHANGED <<made, runs, completed>>

\* An engine runs again, or its outputs are removed.
OutputChanges(s) ==
  /\ made[s] <= MaxVersion /\ made' = [made EXCEPT ![s] = @ + 1]
  /\ UNCHANGED <<briefs, runs, completed>>

BriefsInit == made = [s \in Sources |-> 0] /\ briefs = <<>> /\ runs = {} /\ completed = <<>>

\* The versions a broker asks for are those of the moment.
BriefsNext ==
  \/ CreateBrief(CurrentVersions)
  \/ \E b \in DOMAIN briefs : Assemble(b) \/ MarkStale(b) \/ Regenerate(b, CurrentVersions)
  \/ \E run \in runs : RecordReady(run) \/ RecordFailure(run)
  \/ \E s \in Sources : OutputChanges(s)

BriefsSpec == BriefsInit /\ [][BriefsNext]_briefVars

ReadyBriefs == {i \in DOMAIN completed : briefs[completed[i]].status = "ready"}
HasLatestReady == ReadyBriefs # {}
LatestReady == completed[CHOOSE i \in ReadyBriefs : \A k \in ReadyBriefs : k <= i]
-----------------------------------------------------------------------------
BriefsTypeOK ==
  /\ made \in [Sources -> 0 .. MaxVersion + 1]
  /\ \A b \in DOMAIN briefs :
       /\ briefs[b].status \in BriefStatuses /\ briefs[b].versions \in SourceVersions
       /\ briefs[b].payload = NoPayload \/ briefs[b].payload.read \in SourceVersions
  /\ \A run \in runs : run.brief \in DOMAIN briefs /\ run.read \in SourceVersions

\* The versions on a row that is or was ready are those its payload was made of,
\* however many assemblies raced and whatever was asked for meanwhile: the
\* detector compares these, never the payload.
VersionsAreThePayloads ==
  \A b \in DOMAIN briefs : briefs[b].status \in {"ready", "stale"} =>
    briefs[b].payload # NoPayload /\ briefs[b].versions = briefs[b].payload.read

\* A brief that can be handed out and that the detector finds nothing against
\* has, for every engine that has an output, the section of that very output.
FreshIsCurrent ==
  HasLatestReady /\ StaleReasons(briefs[LatestReady].versions, CurrentVersions) = {} =>
    LET p == briefs[LatestReady].payload
    IN /\ \A s \in Sources : CurrentVersions[s] # 0 => p.read[s] = CurrentVersions[s]
       /\ p.coverage >= Cardinality(PresentSections(CurrentVersions))

\* Every payload was completed, and a ready row is found by its completion.
ReadyIsFound ==
  /\ {completed[i] : i \in DOMAIN completed} = {b \in DOMAIN briefs : briefs[b].payload # NoPayload}
  /\ (\E b \in DOMAIN briefs : briefs[b].status = "ready") <=> HasLatestReady

BriefsSound == BriefsTypeOK /\ VersionsAreThePayloads /\ FreshIsCurrent /\ ReadyIsFound
=============================================================================
