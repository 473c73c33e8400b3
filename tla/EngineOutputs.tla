---------------------------- MODULE EngineOutputs ----------------------------
(***************************************************************************)
(* Versioned prompts, the engine runs that use them, and the review of     *)
(* what they put out (convex/promptRegistry.ts, convex/engines/*.ts,       *)
(* convex/aiEngineOutputs.ts, convex/lib/engineResult.ts,                  *)
(* src/lib/advisory/guardrails.ts, convex/lib/overview.ts).  A prompt and  *)
(* its version are one value, the version being a hash of the text.        *)
(* Confidence is low below 0.75, mid below 0.8 and high from there on.     *)
(***************************************************************************)
EXTENDS Naturals, Sequences, Functions

CONSTANTS
  Catalog,      \* the seeded prompts, in order: [engineType, promptKey, version]
  LegacyRows,   \* rows from before prompt keys, at most one of a type active
  EngineTypes,  \* types that run
  Versions,     \* versions of prompts
  Confidence,   \* levels of confidence the engines give
  Jobs,         \* engine actions that may run at a time
  MaxOutputs, MaxAdjudications   \* bounds

Default == "default"
NoKey == "none"                  \* the key of a legacy row

PromptRow == [engineType : STRING, promptKey : STRING, version : Versions,
              isActive : BOOLEAN]

\* Keys do not mix: a type has its prompts under default or under other keys.
ASSUME EngineAssumption ==
  /\ Catalog \in Seq([engineType : STRING, promptKey : STRING, version : Versions])
  /\ "offer" \in EngineTypes
  /\ LegacyRows \subseteq PromptRow /\ Confidence \subseteq {"low", "mid", "high"}
  /\ \A r \in LegacyRows : r.promptKey = NoKey
  /\ \A r, s \in LegacyRows :
       r.engineType = s.engineType /\ r # s => /\ r.version # s.version
                                               /\ ~(r.isActive /\ s.isActive)
  /\ \A e, f \in Range(Catalog) : e.engineType = f.engineType =>
       (e.promptKey = Default <=> f.promptKey = Default)
  /\ {MaxOutputs, MaxAdjudications} \subseteq Nat

VARIABLES
  registry,       \* promptRegistry
  outputs,        \* aiEngineOutputs of one property, by age
  adjudications,  \* aiOutputAdjudications, by age
  engineJobs,     \* the engine actions under way
  seeded          \* history: the catalog was put in and activated

engineVars == <<registry, outputs, adjudications, engineJobs, seeded>>

Output == [engineType : EngineTypes, promptVersion : Versions, confidence : Confidence \cup {"mid", "high"},
           reviewFallback : BOOLEAN, basis : 0 .. MaxOutputs, run : BOOLEAN,
           reviewState : {"pending", "approved", "rejected"}]
Adjudication == [output : 1 .. MaxOutputs, after : {"approved", "rejected"},
                 before : {"pending", "approved", "rejected"}]
-----------------------------------------------------------------------------
(* The registry.  unique() throws when it finds two rows. *)

FindPromptRow(reg, type, key, version) ==
  LET typed == {r \in reg : r.engineType = type /\ r.version = version}
      keyed == {r \in typed : r.promptKey = key}
  IN IF keyed # {} \/ key # Default THEN keyed ELSE typed

FindActivePromptRow(reg, type, key) ==
  LET typed == {r \in reg : r.engineType = type /\ r.isActive}
      keyed == {r \in typed : r.promptKey = key}
  IN IF keyed # {} \/ key # Default THEN keyed ELSE typed

IsUnique(rows) == \A r, s \in rows : r = s
Readable(reg, type, key, version) ==
  IsUnique(FindPromptRow(reg, type, key, version)) /\ IsUnique(FindActivePromptRow(reg, type, key))

Switched(reg, rows, on) == (reg \ rows) \cup {[r EXCEPT !.isActive = on] : r \in rows}

\* The active row steps back for the new one, unless they are the same.
ActivatedInstead(reg, old, new) == Switched(Switched(reg, old \ new, FALSE), new, TRUE)

NewRow(type, key, version) ==
  [engineType |-> type, promptKey |-> key, version |-> version, isActive |-> FALSE]

Inserted(reg, type, key, version) ==
  IF FindPromptRow(reg, type, key, version) = {} THEN reg \cup {NewRow(type, key, version)}
                                                 ELSE reg

EntryRow(e, reg) == FindPromptRow(reg, e.engineType, e.promptKey, e.version)
ActiveRow(e, reg) == FindActivePromptRow(reg, e.engineType, e.promptKey)

\* The entries are put in one after the other.  Those without a row get one, and
\* of each key without an active row the first entry is activated, which the
\* later ones then find.
SyncCatalog ==
  LET stored == registry \cup {NewRow(e.engineType, e.promptKey, e.version) :
                                 e \in {e \in Range(Catalog) : EntryRow(e, registry) = {}}}
      Leads(i) == \A k \in 1 .. i - 1 : \/ Catalog[k].engineType # Catalog[i].engineType
                                        \/ Catalog[k].promptKey # Catalog[i].promptKey
      due == {i \in DOMAIN Catalog : ActiveRow(Catalog[i], registry) = {} /\ Leads(i)}
  IN /\ \A e \in Range(Catalog) : Readable(registry, e.engineType, e.promptKey, e.version)
     /\ registry' = Switched(stored, UNION {EntryRow(Catalog[i], stored) : i \in due}, TRUE)
     /\ seeded' = TRUE

EnsureCatalogPrompts == SyncCatalog /\ UNCHANGED <<outputs, adjudications, engineJobs>>

RegisterPrompt(type, key, version, activate) ==
  /\ Readable(registry, type, key, version)
  /\ LET stored == Inserted(registry, type, key, version)
     IN registry' = IF activate
                      THEN ActivatedInstead(stored, FindActivePromptRow(registry, type, key),
                                            FindPromptRow(stored, type, key, version))
                      ELSE stored
  /\ UNCHANGED <<outputs, adjudications, engineJobs, seeded>>

ActivateVersion(type, key, version) ==
  /\ Readable(registry, type, key, version)
  /\ FindPromptRow(registry, type, key, version) # {}
  /\ registry' = ActivatedInstead(registry, FindActivePromptRow(registry, type, key),
                                  FindPromptRow(registry, type, key, version))
  /\ UNCHANGED <<outputs, adjudications, engineJobs, seeded>>
-----------------------------------------------------------------------------
(* Engine runs: sync, the prompt and the inputs are calls of their own. *)

Idle == [phase |-> "idle"]

StartRun(j, type, version) ==
  /\ engineJobs[j] = Idle /\ SyncCatalog
  /\ engineJobs' = [engineJobs EXCEPT ![j] = [phase |-> "synced", engineType |-> type,
                                  version |-> version, basis |-> 0]]
  /\ UNCHANGED <<outputs, adjudications>>

\* An unknown version throws.  The offer engine then reads the latest pricing
\* output, whatever its review.
ReadInputs(j) ==
  /\ engineJobs[j].phase = "synced"
  /\ LET found == FindPromptRow(registry, engineJobs[j].engineType, Default, engineJobs[j].version)
         priced == {i \in DOMAIN outputs : outputs[i].engineType = "pricing"}
     IN /\ IsUnique(found)
        /\ engineJobs' = [engineJobs EXCEPT ![j] =
             IF found = {} THEN Idle
             ELSE [@ EXCEPT !.phase = "ready",
                            !.basis = IF engineJobs[j].engineType = "offer" /\ priced # {}
                                        THEN CHOOSE i \in priced : \A k \in priced : k <= i
                                        ELSE 0]]
  /\ UNCHANGED <<registry, outputs, adjudications, seeded>>

BaseState(type, confidence, fallback) ==
  CASE type = "pricing" -> IF fallback \/ confidence # "high" THEN "review_required"
                                                             ELSE "softened"
    [] type = "offer" -> "review_required"
    [] type = "leverage" -> IF confidence = "low" THEN "review_required" ELSE "softened"
    [] OTHER -> "can_say"

DetermineReviewState(type, confidence, fallback) ==
  IF BaseState(type, confidence, fallback) # "review_required" /\ confidence = "high"
    THEN "approved" ELSE "pending"

Put(type, version, confidence, fallback, basis, run, state) ==
  /\ Len(outputs) < MaxOutputs
  /\ outputs' = Append(outputs,
       [engineType |-> type, promptVersion |-> version, confidence |-> confidence,
        reviewFallback |-> fallback, basis |-> basis, run |-> run, reviewState |-> state])

CreateOutput(j, confidence, fallback) ==
  /\ engineJobs[j].phase = "ready"
  /\ engineJobs[j].engineType = "offer" => confidence = "mid"
  /\ IF engineJobs[j].engineType = "pricing"   \* buildReviewFallback
       THEN confidence # "high" => fallback ELSE ~fallback
  /\ Put(engineJobs[j].engineType, engineJobs[j].version, confidence, fallback, engineJobs[j].basis, TRUE,
         DetermineReviewState(engineJobs[j].engineType, confidence, fallback))
  /\ engineJobs' = [engineJobs EXCEPT ![j] = Idle]
  /\ UNCHANGED <<registry, adjudications, seeded>>

\* The gateway fails, its answer cannot be read, or the action dies.
AbandonRun(j) ==
  /\ engineJobs[j] # Idle
  /\ engineJobs' = [engineJobs EXCEPT ![j] = Idle]
  /\ UNCHANGED <<registry, outputs, adjudications, seeded>>

\* seedOfferScenarios takes the version from the catalog and does not sync.
SeedOfferScenarios ==
  /\ \E e \in Range(Catalog) : e.engineType = "offer"
       /\ Put("offer", e.version, "high", FALSE, 0, FALSE, "pending")
  /\ UNCHANGED <<registry, adjudications, engineJobs, seeded>>

\* Approve, adjust and override; the explanation that the last two have to
\* give before buyers see the output is left out with them.
SubmitAdjudication(o, visibility) ==
  LET after == IF visibility = "buyer_safe" THEN "approved" ELSE "rejected"
  IN /\ Len(adjudications) < MaxAdjudications
     /\ outputs' = [outputs EXCEPT ![o].reviewState = after]
     /\ adjudications' = Append(adjudications,
          [output |-> o, before |-> outputs[o].reviewState, after |-> after])
     /\ UNCHANGED <<registry, engineJobs, seeded>>

\* Mutant: an output that waits for review does not stand in the way.
NewestOutput_Settled(type) ==
  LET settled == {i \in DOMAIN outputs : /\ outputs[i].engineType = type
                                         /\ outputs[i].reviewState # "pending"}
  IN IF settled = {} THEN 0 ELSE CHOOSE i \in settled : \A k \in settled : k <= i

\* composeOverview: the newest output of the type, shown when it is approved.
NewestOutput(type) ==
  LET all == {i \in DOMAIN outputs : outputs[i].engineType = type}
  IN IF all = {} THEN 0 ELSE CHOOSE i \in all : \A k \in all : k <= i
ShownOutput(type) == {i \in {NewestOutput(type)} \ {0} : outputs[i].reviewState = "approved"}
-----------------------------------------------------------------------------
EngineInit ==
  /\ registry = LegacyRows
  /\ outputs = <<>> /\ adjudications = <<>>
  /\ engineJobs = [j \in Jobs |-> Idle]
  /\ seeded = FALSE

Keys(type) == {e.promptKey : e \in {f \in Range(Catalog) : f.engineType = type}}

EngineNext ==
  \/ EnsureCatalogPrompts \/ SeedOfferScenarios
  \/ \E type \in {e.engineType : e \in Range(Catalog)}, version \in Versions :
       \/ \E key \in Keys(type) :
            \/ \E activate \in BOOLEAN : RegisterPrompt(type, key, version, activate)
            \/ ActivateVersion(type, key, version)
       \/ type \in EngineTypes /\ \E j \in Jobs : StartRun(j, type, version)
  \/ \E j \in Jobs :
       \/ ReadInputs(j) \/ AbandonRun(j)
       \/ \E confidence \in Confidence, fallback \in BOOLEAN :
            CreateOutput(j, confidence, fallback)
  \/ \E o \in DOMAIN outputs, visibility \in {"buyer_safe", "internal_only"} :
       SubmitAdjudication(o, visibility)

EngineSpec == EngineInit /\ [][EngineNext]_engineVars
-----------------------------------------------------------------------------
EngineTypeOK ==
  /\ registry \subseteq PromptRow
  /\ outputs \in Seq(Output) /\ adjudications \in Seq(Adjudication)

\* Every prompt key has at most one active version, legacy rows included, so
\* that no lookup throws, and exactly one from the first sync on; what ran
\* with a prompt can be looked up for replay.
RegistrySound ==
  /\ \A e \in Range(Catalog), v \in Versions :
       Readable(registry, e.engineType, e.promptKey, v)
  /\ seeded => \A e \in Range(Catalog) :
       FindActivePromptRow(registry, e.engineType, e.promptKey) # {}
  /\ \A i \in DOMAIN outputs : outputs[i].run =>
       FindPromptRow(registry, outputs[i].engineType, Default, outputs[i].promptVersion) # {}

\* The history of an output leads without a gap to the state it is in, and
\* the buyer sees an engine's newest output or none: one that a broker made
\* buyer-safe last, or one that no guardrail held back.
ReviewsSound ==
  /\ \A i \in DOMAIN outputs :
       LET trail == {a \in DOMAIN adjudications : adjudications[a].output = i}
       IN /\ \A a, b \in trail : a < b /\ (\A c \in trail : c <= a \/ b <= c) =>
               adjudications[b].before = adjudications[a].after
          /\ \A a \in trail : (\A b \in trail : b <= a) =>
               adjudications[a].after = outputs[i].reviewState
          /\ outputs[i].reviewState = "approved" /\ trail = {} =>
               /\ outputs[i].confidence = "high" /\ ~outputs[i].reviewFallback
               /\ outputs[i].engineType # "offer"
  /\ \A type \in EngineTypes : \A i \in ShownOutput(type) :
       \A k \in DOMAIN outputs : outputs[k].engineType = type => k <= i

EnginesSound == EngineTypeOK /\ RegistrySound /\ ReviewsSound
=============================================================================
