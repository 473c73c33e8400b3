----------------------------- MODULE ListingIntake -----------------------------
(***************************************************************************)
(* Listings and addresses that visitors hand in (convex/intake.ts,         *)
(* convex/addressIntake.ts, src/lib/intake/reliability.ts).                *)
(*                                                                         *)
(* Every submission leaves an attempt; attempts for the same link or       *)
(* address share a source listing.  The status lives twice: on the         *)
(* attempts and, read back from the reliability in rawData, on the         *)
(* listing.  Both are written by the submissions and by the worker that    *)
(* extracts the listing, in any order.  The worker is not part of the      *)
(* repository: it is modelled from the mutation it has to call.  What goes *)
(* along with a failure mode (retryable, missing fields) is left out.      *)
(***************************************************************************)
EXTENDS Naturals, Sequences, SequencesExt, FiniteSetsExt

CONSTANTS
  ListingUrls,   \* normalized links to listings
  Addresses,     \* formatted addresses
  MaxListings, MaxIntakes   \* bounds

ASSUME ListingIntakeAssumption ==
  /\ ListingUrls \cap Addresses = {}
  /\ {MaxListings, MaxIntakes} \subseteq Nat

VARIABLES
  intakeListings,  \* sourceListings, by age
  intakeAttempts   \* intakeAttempts, by age

intakeVars == <<intakeListings, intakeAttempts>>

AttemptStatuses == {"pending", "ready", "partial", "failed", "unsupported"}
Modes == {"none", "unsupported_url", "malformed_url", "parser_failed",
          "partial_extraction", "no_match", "ambiguous_match", "unknown"}
SourceListing == [source : ListingUrls \cup Addresses, hasProperty : BOOLEAN,
                  status : {"pending", "extracted", "failed", "merged"},
                  resolutionStatus : AttemptStatuses \ {"unsupported"},
                  failureMode : Modes]
Attempt == [listing : 0 .. MaxListings, status : AttemptStatuses,
            failureMode : Modes, dossierReady : BOOLEAN]
-----------------------------------------------------------------------------
\* The oldest row with this source, as a set of at most one index.
FindExisting(source) ==
  LET rows == {i \in DOMAIN intakeListings : intakeListings[i].source = source} IN
  {i \in rows : \A k \in rows : i <= k}

OrElse(mode, default) == IF mode = "none" THEN default ELSE mode

\* What a submission is told of a listing that is there already.
AttemptStatusFrom(row) ==
  CASE row.hasProperty ->
         [status |-> "ready", failureMode |-> "none"]
    [] ~row.hasProperty /\ row.resolutionStatus = "partial" ->
         [status |-> "partial",
          failureMode |-> OrElse(row.failureMode, "partial_extraction")]
    [] ~row.hasProperty /\ row.resolutionStatus # "partial"
         /\ "failed" \in {row.status, row.resolutionStatus} ->
         [status |-> "failed", failureMode |-> OrElse(row.failureMode, "unknown")]
    [] OTHER ->
         [status |-> "pending", failureMode |-> row.failureMode]

InsertAttempt(i, is) ==
  /\ Len(intakeAttempts) < MaxIntakes
  /\ intakeAttempts' = Append(intakeAttempts,
       [listing |-> i, status |-> is.status, failureMode |-> is.failureMode,
        dossierReady |-> FALSE])

PendingListing(url) ==
  [source |-> url, hasProperty |-> FALSE, status |-> "pending",
   resolutionStatus |-> "pending", failureMode |-> "none"]

InsertListing(row) ==
  /\ Len(intakeListings) < MaxListings
  /\ intakeListings' = Append(intakeListings, row)
-----------------------------------------------------------------------------
\* submitUrl and submitExtensionUrl do the same to the tables.
SubmitDuplicate(url) ==
  \E i \in FindExisting(url) :
    /\ InsertAttempt(i, AttemptStatusFrom(intakeListings[i]))
    /\ UNCHANGED intakeListings

SubmitNew(url) ==
  /\ FindExisting(url) = {}
  /\ InsertListing(PendingListing(url))
  /\ InsertAttempt(Len(intakeListings) + 1, [status |-> "pending", failureMode |-> "none"])

\* Backend-triggered: no attempt, and another listing each time.
ProcessUrl(url) ==
  /\ InsertListing(PendingListing(url))
  /\ UNCHANGED intakeAttempts

\* A link that cannot be parsed leaves an attempt without a listing.
RecordAttemptFailure(mode) ==
  /\ InsertAttempt(0, [status |-> IF mode = "unsupported_url" THEN "unsupported" ELSE "failed",
                       failureMode |-> mode])
  /\ UNCHANGED intakeListings

\* An address, as it was matched against the known properties.
Resolved(address, resolution) ==
  [source |-> address, hasProperty |-> resolution = "matched",
   status |-> CASE resolution = "matched" -> "merged"
                [] resolution = "no_match" -> "failed"
                [] OTHER -> "pending",
   resolutionStatus |-> CASE resolution = "matched" -> "ready"
                          [] resolution = "no_match" -> "failed"
                          [] OTHER -> "pending",
   failureMode |-> IF resolution = "matched" THEN "none" ELSE resolution]

AttemptStatusFromResolution(resolution) ==
  [status |-> CASE resolution = "matched" -> "ready"
                [] resolution = "no_match" -> "failed"
                [] OTHER -> "partial",
   failureMode |-> IF resolution = "matched" THEN "none" ELSE resolution]

CreateAddressIntake(address, resolution) ==
  LET existing == FindExisting(address) IN
  /\ IF existing = {}
       THEN InsertListing(Resolved(address, resolution))
       ELSE intakeListings' = [i \in DOMAIN intakeListings |->
              IF i \in existing THEN Resolved(address, resolution) ELSE intakeListings[i]]
  /\ InsertAttempt(IF existing = {} THEN Len(intakeListings) + 1 ELSE Min(existing),
                   AttemptStatusFromResolution(resolution))

MarkAttemptDossierReady(a) ==
  /\ intakeAttempts' = [intakeAttempts EXCEPT
       ![a].dossierReady = TRUE,
       ![a].status = IF @ = "partial" THEN "partial" ELSE "ready"]
  /\ UNCHANGED intakeListings

\* Mutant: only the newest attempt hears of it.
TouchAttempts_Newest(i, status, mode) ==
  intakeAttempts' = [a \in DOMAIN intakeAttempts |->
    IF intakeAttempts[a].listing # i \/ \E b \in DOMAIN intakeAttempts :
         b > a /\ intakeAttempts[b].listing = i
      THEN intakeAttempts[a]
      ELSE [intakeAttempts[a] EXCEPT !.status = status, !.failureMode = OrElse(mode, @)]]

\* A mode that is not given stays as it was, on an attempt that is ready too.
TouchAttempts(i, status, mode) ==
  intakeAttempts' = [a \in DOMAIN intakeAttempts |->
    IF intakeAttempts[a].listing # i THEN intakeAttempts[a]
    ELSE [intakeAttempts[a] EXCEPT !.status = status, !.failureMode = OrElse(mode, @)]]

\* The mode is replaced, by none if none is given.  The worker that calls
\* it is external: one that gives modes with failures and properties with
\* listings it could read.
RecordSourceListingOutcome(i, status, mode, foundProperty) ==
  /\ intakeListings' = [intakeListings EXCEPT ![i] =
       [intakeListings[i] EXCEPT
                 !.hasProperty = @ \/ foundProperty,
                 !.status = CASE status = "ready" -> IF foundProperty THEN "merged"
                                                                      ELSE "extracted"
                              [] status = "partial" -> "extracted"
                              [] status \in {"failed", "unsupported"} -> "failed"
                              [] OTHER -> "pending",
                 !.resolutionStatus = IF status = "unsupported" THEN "failed" ELSE status,
                 !.failureMode = mode]]
  /\ TouchAttempts(i, status, mode)
-----------------------------------------------------------------------------
IntakeInit == intakeListings = <<>> /\ intakeAttempts = <<>>

IntakeNext ==
  \/ \E url \in ListingUrls : SubmitDuplicate(url) \/ SubmitNew(url) \/ ProcessUrl(url)
  \/ \E mode \in {"unsupported_url", "malformed_url"} : RecordAttemptFailure(mode)
  \/ \E address \in Addresses, resolution \in {"matched", "ambiguous_match", "no_match"} :
       CreateAddressIntake(address, resolution)
  \/ \E a \in DOMAIN intakeAttempts : MarkAttemptDossierReady(a)
  \/ \E i \in DOMAIN intakeListings, status \in AttemptStatuses,
        mode \in {"none", "parser_failed"}, found \in BOOLEAN :
       /\ mode # "none" => status \in {"partial", "failed"}
       /\ found => status \in {"partial", "ready"}
       /\ RecordSourceListingOutcome(i, status, mode, found)

IntakeSpec == IntakeInit /\ [][IntakeNext]_intakeVars
-----------------------------------------------------------------------------
IntakeTypeOK ==
  /\ intakeListings \in Seq(SourceListing) /\ Len(intakeListings) <= MaxListings
  /\ intakeAttempts \in Seq(Attempt) /\ Len(intakeAttempts) <= MaxIntakes

\* Whoever submits a link or an address, and whatever the backend adds in
\* between: all its attempts hang on one listing.
OneListingPerSource ==
  \A a, b \in DOMAIN intakeAttempts :
    LET i == intakeAttempts[a].listing  k == intakeAttempts[b].listing IN
    i # 0 /\ k # 0 => (intakeListings[i].source = intakeListings[k].source => i = k)

\* An attempt tells its visitor what the listing tells the next one, as
\* long as the listing has no property and its extraction stands at partial
\* or failed.  "unsupported" is told as failed; a dossier that was opened
\* and an address that was matched again since keep what they said.
AttemptsAgree ==
  \A a \in DOMAIN intakeAttempts :
    LET attempt == intakeAttempts[a]
        row == intakeListings[attempt.listing]
    IN (/\ attempt.listing # 0
        /\ ~attempt.dossierReady
        /\ \/ row.source \in ListingUrls
           \/ \A b \in a + 1 .. Len(intakeAttempts) : intakeAttempts[b].listing # attempt.listing
        /\ ~row.hasProperty
        /\ row.resolutionStatus \in {"partial", "failed"})
       => \/ attempt.status = AttemptStatusFrom(row).status
          \/ attempt.status = "unsupported" /\ row.resolutionStatus = "failed"

(***************************************************************************)
(* The two places that hold the status of a submission agree although      *)
(* submissions, the backend and the worker write them in any order, and    *)
(* all submissions of a link or an address share a listing.                *)
(***************************************************************************)
IntakeAgrees == IntakeTypeOK /\ OneListingPerSource /\ AttemptsAgree
=============================================================================
