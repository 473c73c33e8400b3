----------------------------- MODULE MCRoomRecords -----------------------------
(***************************************************************************)
(* A small instance, for TLC, of the records that follow an offer, or come *)
(* before one: share links, the seller side's access, analysed files,      *)
(* payouts of showings, compensation, milestones, closing tasks, the       *)
(* updates the buyer is shown, and the copies the buyer's phone has of the *)
(* room and of its tasks.                                                  *)
(*                                                                         *)
(* They share no table, and none has a step that looks at another's, so    *)
(* whatever one of them does it does with the others at rest: a behaviour  *)
(* moves only one of them.                                                 *)
(***************************************************************************)
EXTENDS OutsideAccess, FileAnalysis, CompensationLedger, Closing, BuyerEvents, DealClient,
        ShowingPayouts

VARIABLE part  \* the records that move

Parts == {"links", "access", "files", "ledger", "closing", "tasks", "updates",
          "cache", "tracker", "payouts"}

Keep(p, v) == IF part = p THEN TRUE ELSE UNCHANGED v

OthersRest ==
  /\ UNCHANGED part
  /\ Keep("links", linkVars)
  /\ Keep("access", accessVars)
  /\ Keep("files", analysisVars)
  /\ Keep("ledger", ledgerVars)
  /\ Keep("closing", closingVars)
  /\ Keep("tasks", taskVars)
  /\ Keep("updates", updateVars)
  /\ Keep("cache", cacheVars)
  /\ Keep("tracker", trackerVars)
  /\ Keep("payouts", payoutVars)

RecordsInit ==
  /\ part \in Parts
  /\ LinkInit /\ AccessInit /\ AnalysisInit /\ LedgerInit /\ ClosingInit
  /\ TasksInit /\ UpdateInit /\ CacheInit /\ TrackerInit /\ PayoutInit

RecordsNext ==
  \/ part = "links" /\ LinkNext /\ OthersRest
  \/ part = "access" /\ AccessNext /\ OthersRest
  \/ part = "files" /\ AnalysisNext /\ OthersRest
  \/ part = "ledger" /\ LedgerNext /\ OthersRest
  \/ part = "closing" /\ ClosingNext /\ OthersRest
  \/ part = "tasks" /\ TasksNext /\ OthersRest
  \/ part = "updates" /\ UpdateNext /\ OthersRest
  \/ part = "cache" /\ CacheNext /\ OthersRest
  \/ part = "tracker" /\ TrackerNext /\ OthersRest
  \/ part = "payouts" /\ PayoutNext /\ OthersRest

recordsVars == <<part, linkVars, accessVars, analysisVars, ledgerVars, closingVars,
                 taskVars, updateVars, cacheVars, trackerVars, payoutVars>>

RecordsSpec == RecordsInit /\ [][RecordsNext]_recordsVars
-----------------------------------------------------------------------------
OneHolder == [r \in {"r1"} |-> "b1"]
OneAgent == [s \in {"a1"} |-> "g1"]
OneOffer == [o \in {"o1"} |-> "r1"]
TwoActions == [offer_countered |-> "submit_response",
               offer_rejected |-> "submit_response",
               offer_acknowledged |-> "acknowledge_receipt"]
Commissions == {60, -40}
LenderReview == {Derived("financing", 20, FALSE)}
ThreeContracts ==
  {[agreement |-> 5, dueDiligence |-> NoDate, earnest |-> 10, closing |-> 20],
   [agreement |-> NoDate, dueDiligence |-> 10, earnest |-> 10, closing |-> 10],
   [agreement |-> 1, dueDiligence |-> 20, earnest |-> NoDate, closing |-> NoDate]}
Importance == [k \in {"tour", "price"} |-> IF k = "tour" THEN 2 ELSE 1]
=============================================================================
