---------------------------- MODULE PropertyCases ----------------------------
(***************************************************************************)
(* The case of a property: claims and a recommended offer that are         *)
(* synthesized from the engines' outputs, kept in a cache, and shown to    *)
(* the buyer of a deal room under the reviews of the day                   *)
(* (convex/propertyCases.ts, src/lib/ai/engines/caseSynthesis.ts,          *)
(* convex/dealRoomCaseOverview.ts, src/lib/dealroom/                       *)
(* property-case-overview.ts, src/lib/advisory/surface-state.ts,           *)
(* src/lib/dossier/build.ts).                                              *)
(* One property with several rooms.  Outputs and cases stand in the order  *)
(* in which they were made; an output is cited by its place.  Who reviews  *)
(* outputs and how is in EngineOutputs.                                    *)
(***************************************************************************)
EXTENDS FiniteSets, Naturals, Sequences, SequencesExt

CONSTANTS
  Rooms,               \* deal rooms on the property, one per buyer
  Types,               \* engine types: pricing, comps, leverage, offer
  SynthesisVersions,   \* versions of the synthesizer
  OfferRooms,          \* rooms that make offers
  MaxOutputs, MaxCases \* bounds

ASSUME CasesAssumption ==
  /\ "offer" \in Types /\ Types \subseteq {"pricing", "comps", "leverage", "offer"}
  /\ OfferRooms \subseteq Rooms
  /\ {MaxOutputs, MaxCases} \subseteq Nat

VARIABLES
  cited,      \* aiEngineOutputs: type, confidence and review
  cases,      \* propertyCases: room, inputs (the hash stands for them), version
  live,       \* rooms with a submitted, countered or accepted offer
  dossier     \* propertyDossiers: the offer section of the stored one

caseVars == <<cited, cases, live, dossier>>

\* Confidence below 0.5, below 0.75, above 0.8; and above, over a dispute of the portals.
Levels == {"thin", "low", "high", "disputed"}
Reviews == {"pending", "approved", "rejected"}
NoDossier == "none"
Evidence == {"waiting", "mixed", "conflicting"}
Inputs == [Types -> 0 .. MaxOutputs]    \* per engine the output that was read

OfType(type) == {i \in DOMAIN cited : cited[i].type = type}
Newest(type, upTo) ==
  LET mine == {i \in OfType(type) : i <= upTo}
  IN IF mine = {} THEN 0 ELSE CHOOSE i \in mine : \A k \in mine : k <= i
Oldest(type) == IF OfType(type) = {} THEN 0
                ELSE CHOOSE i \in OfType(type) : \A k \in OfType(type) : i <= k
-----------------------------------------------------------------------------
(* Synthesis: a function of the inputs, which upsertCase stores with them. *)

\* Fewer than three comps count as thin comps.
Dropped(inputs) == {t \in Types \ {"offer"} : inputs[t] # 0 /\ cited[inputs[t]].level = "thin"}
Claims(inputs) == {t \in Types \ {"offer"} : inputs[t] # 0} \ Dropped(inputs)
Recommends(inputs) == inputs["offer"] # 0

\* The dossier hands over the newest output of each engine, as of upTo: the
\* broker's client stores the case some time after it has read them.
ReadInputs(upTo) == [t \in Types |-> Newest(t, upTo)]

Stored(inputs) == {i \in DOMAIN cases : cases[i].inputs = inputs}

\* A row with the same inputs and version is a hit and stays as it is, for
\* whatever room; one of another version gives way.
UpsertCase(room, upTo, version) ==
  LET inputs == ReadInputs(upTo)
      kept == IF Stored(inputs) = {} THEN cases
              ELSE RemoveAt(cases, CHOOSE i \in Stored(inputs) : TRUE)
  IN /\ Cardinality(Stored(inputs)) <= 1          \* unique()
     /\ IF \E i \in Stored(inputs) : cases[i].version = version
          THEN cases' = cases
          ELSE /\ Len(kept) < MaxCases
               /\ cases' = Append(kept, [room |-> room, inputs |-> inputs, version |-> version])
     /\ UNCHANGED <<cited, live, dossier>>

PurgeForProperty == cases # <<>> /\ cases' = <<>> /\ UNCHANGED <<cited, live, dossier>>

\* Rows older than a moment go, that is the first of them.
EvictOldCache ==
  /\ \E n \in DOMAIN cases : cases' = SubSeq(cases, n + 1, Len(cases))
  /\ UNCHANGED <<cited, live, dossier>>
-----------------------------------------------------------------------------
(* What the room shows. *)

\* assessEngineOutputGuardrail, without the text of the output.
Guardrail(i) ==
  LET o == cited[i]
      base == CASE o.type = "offer" -> "review_required"
                [] o.type = "comps" -> "can_say"
                [] OTHER -> IF o.level \in {"high", "disputed"} THEN "softened" ELSE "review_required"
  IN IF o.review = "rejected" THEN "blocked"
     ELSE IF base = "review_required" /\ o.review = "approved" THEN "softened" ELSE base
HeldBack(i) == Guardrail(i) \in {"review_required", "blocked"}

Coverage(room, type) ==
  LET i == Newest(type, Len(cited))
  IN IF type = "offer" /\ room \in live THEN "available"
     ELSE IF i = 0 THEN "unavailable"
     ELSE IF cited[i].review = "pending" THEN "pending"
     ELSE IF cited[i].review = "rejected" \/ (type = "comps" /\ cited[i].level = "thin")
       THEN "unavailable" ELSE "available"

CasesOf(room) == {i \in DOMAIN cases : cases[i].room = room}
HasCase(room) == CasesOf(room) # {}
LatestCase(room) == cases[CHOOSE i \in CasesOf(room) : \A k \in CasesOf(room) : k <= i]

\* Mutant: a claim is shown for the review of its own output alone.
ShownClaims_AnyCoverage(room) ==
  {t \in IF HasCase(room) THEN Claims(LatestCase(room).inputs) ELSE {} : ~HeldBack(LatestCase(room).inputs[t])}

ShownClaims(room) ==
  IF ~HasCase(room) THEN {}
  ELSE {t \in Claims(LatestCase(room).inputs) :
          Coverage(room, t) = "available" /\ ~HeldBack(LatestCase(room).inputs[t])}

\* findOfferGuardrail takes the first offer output of the property.
OfferHeldBack == Oldest("offer") # 0 /\ HeldBack(Oldest("offer"))

ShowsAction(room) ==
  /\ HasCase(room) /\ Recommends(LatestCase(room).inputs)
  /\ Coverage(room, "offer") = "available" /\ ~OfferHeldBack

MissingStates(room) ==
  LET dropped == IF HasCase(room) THEN Dropped(LatestCase(room).inputs) ELSE {}
  IN {[engine |-> t, tone |-> IF t \in dropped THEN "uncertain"
                              ELSE IF Coverage(room, t) = "pending" THEN "pending" ELSE "missing"] :
        t \in dropped \cup {s \in Types : Coverage(room, s) # "available"}}
     \cup {[engine |-> "offer", tone |-> Guardrail(Oldest("offer"))] :
             g \in {x \in {TRUE} : /\ HasCase(room) /\ Recommends(LatestCase(room).inputs)
                                   /\ ~ShowsAction(room) /\ OfferHeldBack}}

ViewState(room) ==
  IF ~HasCase(room)
    THEN IF \E m \in MissingStates(room) : m.tone = "pending" THEN "partial" ELSE "empty"
  ELSE IF ShownClaims(room) = {} THEN "empty"
  ELSE IF MissingStates(room) # {} THEN "partial" ELSE "ready"

\* buildOfferEvidenceSection: a model's output is inference, so it is never "supported".
OfferEvidence(upTo) ==
  LET pricing == Newest("pricing", upTo)
  IN IF pricing # 0 /\ cited[pricing].level = "disputed" THEN "conflicting"
     ELSE IF \A t \in Types : Newest(t, upTo) = 0 THEN "waiting" ELSE "mixed"

\* buildAdvisorySurfaceState for the recommendation, in the order of its checks.
RecommendationState(room) ==
  IF ~ShowsAction(room) /\ Coverage(room, "offer") = "pending" THEN "loading"
  ELSE IF OfferHeldBack THEN Guardrail(Oldest("offer"))
  ELSE IF dossier = "conflicting" THEN "conflicting"
  ELSE IF ~ShowsAction(room) THEN "missing"
  ELSE IF dossier \in {"mixed", "waiting"} THEN "partial" ELSE "ready"
Withheld(room) == RecommendationState(room) \notin {"partial", "ready"}
-----------------------------------------------------------------------------
(* Engines, reviewers, the offers of the rooms, and the dossier. *)

\* An offer output always waits, whatever its confidence; a pricing output also
\* when its fallback says so.
AddOutput(type, level, review) ==
  /\ Len(cited) < MaxOutputs
  /\ type = "offer" => level = "low"
  /\ level = "disputed" => type = "pricing" /\ review = "pending"
  /\ review = "approved" => level = "high" /\ type # "offer"
  /\ review = "pending" => level # "high" \/ type \in {"offer", "pricing"}
  /\ cited' = Append(cited, [type |-> type, level |-> level, review |-> review])
  /\ UNCHANGED <<cases, live, dossier>>

SubmitAdjudication(i, review) ==
  /\ cited' = [cited EXCEPT ![i].review = review]
  /\ UNCHANGED <<cases, live, dossier>>

\* An offer of the room is countered or accepted; nothing here submits, rejects
\* or withdraws one yet, and whoever does moves it as well.
OfferMoves(room) ==
  /\ live' = IF room \in live THEN live \ {room} ELSE live \cup {room}
  /\ UNCHANGED <<cited, cases, dossier>>

\* The stored dossier is rebuilt when a run of the pricing, comps or leverage
\* engine starts, so it never holds what that run will say.
SyncForProperty ==
  /\ dossier' = OfferEvidence(Len(cited))
  /\ UNCHANGED <<cited, cases, live>>

CasesInit == cited = <<>> /\ cases = <<>> /\ live = {} /\ dossier = NoDossier

CasesNext ==
  \/ PurgeForProperty \/ EvictOldCache
  \/ \E room \in OfferRooms : OfferMoves(room)
  \/ \E room \in Rooms, upTo \in 0 .. MaxOutputs, version \in SynthesisVersions :
       upTo <= Len(cited) /\ UpsertCase(room, upTo, version)
  \/ \E type \in Types, level \in Levels, review \in {"pending", "approved"} :
       AddOutput(type, level, review)
  \/ \E i \in DOMAIN cited, review \in {"approved", "rejected"} : SubmitAdjudication(i, review)
  \/ SyncForProperty

CasesSpec == CasesInit /\ [][CasesNext]_caseVars
-----------------------------------------------------------------------------
CasesTypeOK ==
  /\ cited \in Seq([type : Types, level : Levels, review : Reviews])
  /\ cases \in Seq([room : Rooms, inputs : Inputs, version : SynthesisVersions])
  /\ live \subseteq OfferRooms /\ dossier \in {NoDossier} \cup Evidence

\* unique() finds at most one row for the same inputs, whatever versions and
\* rooms have asked, so that neither the cache nor the upsert ever throws.
OneRowPerInputs == \A i, k \in DOMAIN cases : cases[i].inputs = cases[k].inputs => i = k

\* However old the case is, no claim of it is shown that rests on a rejected
\* output, or whose engine has a newer output that no broker has approved.
ClaimsBacked ==
  \A room \in Rooms : \A t \in ShownClaims(room) :
    /\ cited[LatestCase(room).inputs[t]].review # "rejected"
    /\ cited[Newest(t, Len(cited))].review = "approved"

\* A price to offer is on the screen only while the first offer output of the
\* property is approved, and the newest one too unless an offer is out, and
\* never over a dossier that contradicts itself.
ActionGuarded ==
  \A room \in Rooms : ShowsAction(room) /\ ~Withheld(room) =>
    /\ cited[Oldest("offer")].review = "approved"
    /\ room \in live \/ cited[Newest("offer", Len(cited))].review = "approved"
    /\ dossier # "conflicting"

\* A view that calls itself ready leaves no engine out and shows the
\* recommendation if the case has one.
ReadyIsComplete ==
  \A room \in Rooms : ViewState(room) = "ready" =>
    /\ \A t \in Types : Coverage(room, t) = "available"
    /\ Dropped(LatestCase(room).inputs) = {}
    /\ Recommends(LatestCase(room).inputs) => ShowsAction(room)

\* A recommendation over a stored dossier is never called settled: all of its
\* evidence is inference.  (Without any dossier it is.)
InferenceSaid == \A room \in Rooms : dossier # NoDossier => RecommendationState(room) # "ready"

CasesSound ==
  /\ CasesTypeOK /\ OneRowPerInputs /\ ClaimsBacked /\ ActionGuarded /\ ReadyIsComplete
  /\ InferenceSaid
=============================================================================
