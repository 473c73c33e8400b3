----------------------------- MODULE MCWorkspace -----------------------------
(***************************************************************************)
(* A small instance, for TLC, of what visitors hand in, and what buyers    *)
(* and brokers look at and edit beside the transaction: the links and      *)
(* addresses of listings, the case of a property, the strategy for an      *)
(* offer, the negotiation briefs of a room, its readiness, the desk of the *)
(* staff, what it sees of showings, and what is remembered of a buyer.     *)
(*                                                                         *)
(* The parts share no table, and none has a step that looks at another's:  *)
(* a behaviour moves only one of them.                                     *)
(***************************************************************************)
EXTENDS PropertyCases, OfferStrategy, NegotiationBriefs, DealReadiness, AdminDesk,
        ShowingDesk, BuyerMemory, ListingIntake, TLC

VARIABLE part  \* the component that moves

Parts == {"cases", "strategy", "briefs", "readiness", "desk", "showings",
          "memory", "comparison", "intake"}

Keep(p, v) == IF part = p THEN TRUE ELSE UNCHANGED v

OthersRest ==
  /\ UNCHANGED part
  /\ Keep("cases", caseVars) /\ Keep("strategy", strategyVars) /\ Keep("briefs", briefVars)
  /\ Keep("readiness", readinessVars) /\ Keep("desk", deskVars)
  /\ Keep("showings", deskOfShowings) /\ Keep("intake", intakeVars)
  /\ IF part \in {"memory", "comparison"} THEN TRUE ELSE UNCHANGED memoryVars

WorkspaceInit ==
  /\ part \in Parts
  /\ CasesInit /\ StrategyInit /\ BriefsInit /\ ReadinessInit /\ DeskInit /\ ShowingDeskInit
  /\ MemoryInit /\ IntakeInit

WorkspaceNext ==
  \/ part = "cases" /\ CasesNext /\ OthersRest
  \/ part = "strategy" /\ StrategyNext /\ OthersRest
  \/ part = "briefs" /\ BriefsNext /\ OthersRest
  \/ part = "readiness" /\ ReadinessNext /\ OthersRest
  \/ part = "desk" /\ DeskNext /\ OthersRest
  \/ part = "showings" /\ ShowingDeskNext /\ OthersRest
  \/ part = "memory" /\ MemoryNext /\ OthersRest
  \/ part = "comparison" /\ ComparisonNext /\ OthersRest
  \/ part = "intake" /\ IntakeNext /\ OthersRest

workspaceVars == <<part, caseVars, strategyVars, briefVars, readinessVars,
                   deskVars, deskOfShowings, memoryVars, intakeVars>>

WorkspaceSpec == WorkspaceInit /\ [][WorkspaceNext]_workspaceVars

\* A weak property and a sound one, one that the buyer turns away from, with much
\* and with little confidence, and verdicts on both sides of what settles them.
SomeLeanings ==
  {[confidence |-> x[1], verdict |-> x[2], weak |-> x[3], conflicts |-> x[4]] :
     x \in {<<80, "worth_pursuing", TRUE, FALSE>>, <<68, "worth_pursuing", FALSE, TRUE>>,
            <<60, "wait_for_more_evidence", FALSE, TRUE>>, <<50, "pursue_with_caution", FALSE, FALSE>>,
            <<50, "wait_for_more_evidence", FALSE, FALSE>>}}

\* What a buyer is told of the readiness of a room (DealReadiness), where it moves.
AdviceSound == part = "readiness" => ReadinessSound

\* What the staff works from: the tables of its desk (AdminDesk), and the showings.
StaffSeesTrue ==
  /\ part = "desk" => DeskSound
  /\ part = "showings" => ShowingDeskSound

\* What is remembered of a buyer (BuyerMemory), where it moves.
BuyerRemembered == part \in {"memory", "comparison"} => MemorySound
=============================================================================
