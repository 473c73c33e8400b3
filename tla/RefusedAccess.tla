---------------------------- MODULE RefusedAccess ----------------------------
(***************************************************************************)
(* The seller side's access with the attempts that are refused.            *)
(*                                                                         *)
(* submitResponseHandler (convex/listingResponses.ts) records a denied     *)
(* event and then throws.  It runs in submitResponseInternal, a mutation,  *)
(* and Convex rolls back all a mutation that throws has written, what the  *)
(* mutations it ran have written included; the action around it passes the *)
(* error on and writes nothing.                                            *)
(***************************************************************************)
EXTENDS OutsideAccess

VARIABLE refused  \* the tokens and instants of which a caller was told no

Refused(t, room, offer, type) ==
  \/ ~AuthorizeListingResponseSubmission(t, room, offer, type)
  \/ offer # NoOffer /\ RoomOfOffer[offer] # room
  \/ ~ValidPayload(offer, type)

\* The answer is what remains: the denied event goes with the transaction.
RefuseSubmission(t, room, offer, type) ==
  /\ Refused(t, room, offer, type)
  /\ refused' = refused \cup {[tokenId |-> t, timestamp |-> instant]}
  /\ UNCHANGED accessVars

RefusedInit == LinkInit /\ AccessInit /\ refused = {}

RefusedNext ==
  /\ \/ AccessNext /\ UNCHANGED refused
     \/ \E t \in DOMAIN tokens, room \in DealRooms, offer \in SellerOffers \cup {NoOffer},
           type \in ResponseTypes : RefuseSubmission(t, room, offer, type)
  /\ UNCHANGED linkVars

RefusedSpec == RefusedInit /\ [][RefusedNext]_<<linkVars, accessVars, refused>>
-----------------------------------------------------------------------------
(***************************************************************************)
(* What externalAccess.ts says of the log: every transition of a token     *)
(* writes an event, and the queue of the operations staff reviews denied   *)
(* attempts.  So an attempt that was refused is in the log as denied.      *)
(***************************************************************************)
DeniedAttemptsRecorded ==
  \A attempt \in refused :
    \E k \in EventsOf(attempt.tokenId) :
      accessEvents[k].eventType = "denied" /\ accessEvents[k].timestamp = attempt.timestamp
-----------------------------------------------------------------------------
(* A small instance. *)

OneHolder == [r \in {"r1"} |-> "b1"]
OneOffer == [o \in {"o1"} |-> "r1"]
TwoActions == [offer_countered |-> "submit_response",
               offer_acknowledged |-> "acknowledge_receipt"]
=============================================================================
