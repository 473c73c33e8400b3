------------------------------ MODULE MCDealRoom ------------------------------
(***************************************************************************)
(* A small instance, for TLC, of the offer of a deal room: its review, the *)
(* buyer's editor, its negotiation, the contracts made from it, and the    *)
(* engines that advise on it.                                              *)
(*                                                                         *)
(* Drafts share no table with offers and contracts, and neither has a step *)
(* that looks at the other's, so whatever one of them does it does with    *)
(* the other at rest: a behaviour moves only one of them.  Contracts race  *)
(* here without counters; with them they do in MCFairness.                 *)
(***************************************************************************)
EXTENDS CockpitEditor, ContractHandoff, EngineOutputs, TLC

VARIABLE part  \* what moves

\* The review while no editor is open: whatever is stored shows as Blank.
Review ==
  /\ part = "review"
  /\ CockpitNext
  /\ draftTerms' = [r \in Rooms |-> [i \in DOMAIN drafts'[r] |-> Blank]]
  /\ UNCHANGED <<part, windows, shownAt, handoffVars, engineVars>>

\* The editor, under a single agreement.
Editor ==
  /\ part = "editor"
  /\ EditorNext
  /\ \A a \in 2 .. MaxAgreements : UNCHANGED agreements[a]
  /\ UNCHANGED <<part, handoffVars, engineVars>>

Negotiation ==
  /\ part = "negotiation"
  /\ NegotiationNext
  /\ UNCHANGED <<part, editorVars, handoff, engineVars>>

\* Contracts for an offer at one price.
Handoff ==
  /\ part = "handoff"
  /\ HandoffStep
  /\ UNCHANGED <<part, editorVars, negotiation, engineVars>>

Engines ==
  /\ part = "engines"
  /\ EngineNext
  /\ UNCHANGED <<part, editorVars, handoffVars>>

DealRoomInit ==
  /\ part \in {"review", "editor", "negotiation", "handoff", "engines"}
  /\ EditorInit /\ HandoffInit /\ EngineInit
  /\ part \in {"review", "editor", "engines"} => \A o \in Offers : offers[o].status = "draft"
  /\ part # "negotiation" => \A o \in Offers : offers[o].offerPrice = 1

DealRoomNext == Review \/ Editor \/ Negotiation \/ Handoff \/ Engines

DealRoomSpec ==
  DealRoomInit /\ [][DealRoomNext]_<<part, editorVars, handoffVars, engineVars>>

CallSymmetry == Permutations(Calls)

TwoEngines ==
  <<[engineType |-> "pricing", promptKey |-> "default", version |-> "v1"],
    [engineType |-> "offer", promptKey |-> "default", version |-> "v1"]>>
OldPricing ==
  {[engineType |-> "pricing", promptKey |-> "none", version |-> "v1", isActive |-> TRUE]}
OneRoom == [r \in {"r1"} |-> "b1"]
=============================================================================
