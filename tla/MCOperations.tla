----------------------------- MODULE MCOperations -----------------------------
(***************************************************************************)
(* A small instance, for TLC, of the components that run the brokerage     *)
(* around the deal rooms: the work of the workers, where leads come from,  *)
(* the texts visitors send and the limits of the channels, and showings    *)
(* from the request to the tour and its payout.                            *)
(*                                                                         *)
(* They share no table but the throttle bucket, and none has a step that   *)
(* looks at another's, so whatever one of them does it does with the       *)
(* others at rest: a behaviour moves only one of them.                     *)
(***************************************************************************)
EXTENDS EnrichmentJobs, ListingAgents, LeadAttribution, SmsIntake, FetchWorker,
        TourWorkflow, TLC

VARIABLE part  \* the component that moves

Parts == {"jobs", "agents", "leads", "limits", "sms", "fetches", "showings"}

Keep(p, v) == IF part = p THEN TRUE ELSE UNCHANGED v

smsTables == <<messages, consent, sourceListings, replies>>

OthersRest ==
  /\ UNCHANGED part
  /\ Keep("jobs", jobVars)
  /\ Keep("agents", agentVars)
  /\ Keep("leads", leadVars)
  /\ IF part \in {"limits", "sms"} THEN TRUE ELSE UNCHANGED limiterVars
  /\ Keep("sms", smsTables)
  /\ Keep("fetches", fetchVars)
  /\ Keep("showings", vars)

OperationsInit ==
  /\ part \in Parts
  /\ JobsInit /\ AgentInit /\ LeadInit /\ SmsInit /\ FetchInit /\ Init
  /\ part # "fetches" => configured

OperationsNext ==
  \/ part = "jobs" /\ JobsNext /\ OthersRest
  \/ part = "agents" /\ AgentNext /\ OthersRest
  \/ part = "leads" /\ LeadNext /\ OthersRest
  \/ part = "limits" /\ LimiterNext /\ OthersRest
  \/ part = "sms" /\ SmsNext /\ OthersRest
  \/ part = "fetches" /\ FetchNext /\ OthersRest
  \/ part = "showings" /\ Next /\ OthersRest

operationsVars == <<part, jobVars, agentVars, leadVars, smsVars, fetchVars, vars>>

OperationsSpec == OperationsInit /\ [][OperationsNext]_operationsVars

OperationsSymmetry ==
  Permutations(Workers) \cup Permutations(Triggers) \cup Permutations(Properties)
  \cup Permutations(Agents)
=============================================================================
