---------------------------- MODULE ListingAgents ----------------------------
(***************************************************************************)
(* The record of one listing agent (upsertListingAgent in                  *)
(* convex/enrichmentJobs.ts).                                              *)
(*                                                                         *)
(* Workers observe the agent on several portals and for several            *)
(* properties; their observations reach the record in any order, and one   *)
(* may reach it again when a job is repeated.  The record keeps, for every *)
(* field, its value and when the observation it came from was fetched.     *)
(***************************************************************************)
EXTENDS Integers, FiniteSets

CONSTANTS
  Fields,       \* the fields of the record, the profile URL of each portal one of them
  Values,       \* what an observation may say of a field
  NoValue,         \* a field that an observation or the record does not have
  MaxTime,      \* bound on the times at which observations are fetched
  MaxObserved   \* bound on the number of observations

ASSUME ListingAgentsAssumption ==
  /\ NoValue \notin Values
  /\ MaxTime \in Nat /\ MaxObserved \in Nat

Times == 1 .. MaxTime
Never == 0

Observation == [values : [Fields -> Values \cup {NoValue}], fetchedAt : Times]
Profile == [values : [Fields -> Values \cup {NoValue}],
            provenance : [Fields -> Times \cup {Never}],
            lastRefreshedAt : Times]
NoProfile == [values |-> [f \in Fields |-> NoValue],
              provenance |-> [f \in Fields |-> Never],
              lastRefreshedAt |-> Never]

VARIABLES
  agent,     \* the row of listingAgents, NoProfile while there is none
  observed   \* history: the observations that have reached the record

agentVars == <<agent, observed>>
-----------------------------------------------------------------------------
\* Mutant: the time of the observation is not compared.
Applies_AnyTime(observation, f) ==
  /\ observation.values[f] # NoValue
  /\ agent.values[f] # observation.values[f]

\* apply: the field changes, and the observation is not older than its value.
Applies(observation, f) ==
  /\ observation.values[f] # NoValue
  /\ agent.values[f] # observation.values[f]
  /\ agent.provenance[f] <= observation.fetchedAt

LastRefreshedAt(observation) ==
  IF agent.lastRefreshedAt > observation.fetchedAt
    THEN agent.lastRefreshedAt ELSE observation.fetchedAt

\* Mutant: the provenance of every observed field is renewed, applied or not.
Provenance_Always(observation) ==
  [f \in Fields |-> IF observation.values[f] # NoValue
                      THEN observation.fetchedAt ELSE agent.provenance[f]]

Provenance(observation) ==
  [f \in Fields |-> IF Applies(observation, f)
                      THEN observation.fetchedAt ELSE agent.provenance[f]]

UpsertListingAgent(observation) ==
  /\ Cardinality(observed \cup {observation}) <= MaxObserved
  /\ agent' = [values |-> [f \in Fields |-> IF Applies(observation, f)
                                               THEN observation.values[f]
                                               ELSE agent.values[f]],
               provenance |-> Provenance(observation),
               lastRefreshedAt |-> LastRefreshedAt(observation)]
  /\ observed' = observed \cup {observation}

AgentInit == agent = NoProfile /\ observed = {}

AgentNext == \E observation \in Observation : UpsertListingAgent(observation)

AgentSpec == AgentInit /\ [][AgentNext]_agentVars
-----------------------------------------------------------------------------
\* Shape of the row.
AgentTypeOK ==
  /\ agent \in Profile \cup {NoProfile}
  /\ observed \subseteq Observation

(***************************************************************************)
(* The provenance shown for a field is true: an observation fetched at     *)
(* that time said so, whatever the observations that came before, between  *)
(* and after it, and a field without a value has none.                     *)
(***************************************************************************)
CameFrom(f, observation) ==
  /\ observation.fetchedAt = agent.provenance[f]
  /\ observation.values[f] = agent.values[f]

ProvenanceTrue ==
  \A f \in Fields :
    IF agent.values[f] = NoValue
      THEN agent.provenance[f] = Never
      ELSE \E observation \in observed : CameFrom(f, observation)

(***************************************************************************)
(* The freshness of the record, which decides when the source is fetched   *)
(* again, is that of the newest observation in whatever order they came.   *)
(***************************************************************************)
FreshnessTrue ==
  agent # NoProfile =>
    /\ \A observation \in observed : observation.fetchedAt <= agent.lastRefreshedAt
    /\ \E observation \in observed : observation.fetchedAt = agent.lastRefreshedAt

\* What the record says of itself is true: where its values come from and
\* how old it is.
RecordTrue == AgentTypeOK /\ ProvenanceTrue /\ FreshnessTrue

(***************************************************************************)
(* "Incoming nullish fields never clobber existing values", and a value is *)
(* never replaced by one that was fetched before it.                       *)
(***************************************************************************)
FieldsNeverRegress ==
  [][\A f \in Fields :
       /\ agent.values[f] # NoValue => agent'.values[f] # NoValue
       /\ agent'.provenance[f] >= agent.provenance[f]]_agentVars

(***************************************************************************)
(* "This prevents a late-arriving stale fetch from regressing newer data": *)
(* a field has a value that a newest observation of it reported.  An       *)
(* observation that confirms the value leaves its provenance as it was, so *)
(* one fetched in between replaces what was confirmed after it.            *)
(***************************************************************************)
NewestWins ==
  \A f \in Fields : agent.values[f] # NoValue =>
    \E observation \in observed :
      /\ observation.values[f] = agent.values[f]
      /\ \A other \in observed :
           other.values[f] # NoValue => other.fetchedAt <= observation.fetchedAt
=============================================================================
