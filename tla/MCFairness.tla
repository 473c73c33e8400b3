------------------------------ MODULE MCFairness ------------------------------
(***************************************************************************)
(* A small instance, for TLC, of the components that owe progress: a       *)
(* negotiation with the contract made from it, the enrichment jobs, and    *)
(* the worker that fetches pages.                                          *)
(*                                                                         *)
(* They share no table, and none has a step that looks at another's, so    *)
(* whatever one of them does it does with the others at rest: a behaviour  *)
(* moves only one of them.  At rest none of the steps that are owed is     *)
(* enabled, so the fairness of one does not touch the others.              *)
(***************************************************************************)
EXTENDS ContractHandoff, EnrichmentJobs, FetchWorker

VARIABLE part  \* what moves

Negotiate ==
  /\ part = "negotiation"
  /\ HandoffNext
  /\ UNCHANGED <<part, jobVars, fetchVars>>

Enrich ==
  /\ part = "jobs"
  /\ JobsNext
  /\ UNCHANGED <<part, handoffVars, fetchVars>>

FetchPages ==
  /\ part = "fetches"
  /\ FetchNext
  /\ UNCHANGED <<part, handoffVars, jobVars>>

FairnessInit ==
  /\ part \in {"negotiation", "jobs", "fetches"}
  /\ HandoffInit /\ JobsInit /\ FetchInit
  /\ part # "fetches" => configured
  /\ part = "negotiation" \/ \A o \in Offers : offers[o].status = "draft" /\ offers[o].offerPrice = 1

FairnessSpec ==
  /\ FairnessInit
  /\ [][Negotiate \/ Enrich \/ FetchPages]_<<part, handoffVars, jobVars, fetchVars>>
  /\ Progress
  /\ JobsProgress
  /\ FetchProgress
=============================================================================
