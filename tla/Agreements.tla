------------------------------ MODULE Agreements ------------------------------
(***************************************************************************)
(* Buyer agreements, their supersession links and the persisted offer      *)
(* eligibility derived from them: convex/agreements.ts,                    *)
(* convex/agreementSupersession.ts, convex/offerEligibility.ts and         *)
(* convex/lib/offerEligibilityCompute.ts.                                  *)
(*                                                                         *)
(* Every action is one Convex mutation.  A mutation is a serializable      *)
(* transaction: a throw anywhere in it, nested ctx.runMutation calls       *)
(* included, rolls all of its writes back.  So each condition under which  *)
(* a handler throws is a guard of the whole action.                        *)
(***************************************************************************)
EXTENDS Naturals, FiniteSets

CONSTANTS
  MaxAgreements,  \* bound on the rows of the agreements table
  Rooms,          \* deal rooms
  Buyers,         \* buyers
  BuyerOf         \* dealRooms.buyerId, never patched by any mutation

ASSUME AgreementsAssumption ==
  /\ MaxAgreements \in Nat
  /\ BuyerOf \in [Rooms -> Buyers]

(***************************************************************************)
(* Ids are handed out in insertion order, the order in which an index      *)
(* without further fields returns its rows, so Array.find is the least id. *)
(***************************************************************************)
Ids == 1 .. MaxAgreements
None == 0                                  \* an id field that is undefined

Types == {"tour_pass", "full_representation"}
Statuses == {"draft", "sent", "signed", "canceled", "replaced"}
Pending == {"draft", "sent"}

Row == [dealRoomId   : Rooms,
        buyerId      : Buyers,
        type         : Types,
        status       : Statuses,
        replacedById : Ids \cup {None},
        signedAt     : Nat]

\* An id that no row has yet.
Absent == [status |-> "absent", replacedById |-> None]

Verdict == [isEligible           : BOOLEAN,
            currentAgreementType : Types \cup {"none"},
            governingAgreementId : Ids \cup {None},
            blockingReasonCode   : {"none", "no_signed_agreement",
                                    "tour_pass_only_no_full_rep",
                                    "agreement_canceled",
                                    "agreement_replaced_pending_new"},
            requiredAction       : {"none", "sign_agreement",
                                    "upgrade_to_full_rep"}]

NoVerdict == [isEligible |-> FALSE]        \* no offerEligibilityState row

VARIABLES
  agreements,        \* the agreements table: id -> row or Absent
  eligibility,       \* offerEligibilityState, one row per deal room
  eligibilityAudit,  \* per deal room, "next" of the last auditLog entry
  agreementAudit,    \* per agreement, the last lifecycle audit event
  clock              \* order of the signedAt timestamps

vars == <<agreements, eligibility, eligibilityAudit, agreementAudit, clock>>
-----------------------------------------------------------------------------
(***************************************************************************)
(* Offer eligibility (offerEligibilityCompute.ts).                         *)
(***************************************************************************)
First(S) == CHOOSE a \in S : \A b \in S : a <= b

Rows(t) == {a \in Ids : t[a] # Absent}
InRoom(t, r) == {a \in Rows(t) : t[a].dealRoomId = r}
OfBuyer(t, b) == {a \in Rows(t) : t[a].buyerId = b}
WithStatus(t, S, st) == {a \in S : t[a].status \in st}
SignedOf(t, S, ty) == {a \in S : t[a].status = "signed" /\ t[a].type = ty}

Ineligible(type, governing, code, action) ==
  [isEligible |-> FALSE, currentAgreementType |-> type,
   governingAgreementId |-> governing, blockingReasonCode |-> code,
   requiredAction |-> action]

\* The decision order of computeOfferEligibility over the rows in scope.
ComputeOfferEligibility(t, scope) ==
  LET fullRep  == SignedOf(t, scope, "full_representation")
      tourPass == SignedOf(t, scope, "tour_pass")
      replaced == WithStatus(t, scope, {"replaced"})
      canceled == WithStatus(t, scope, {"canceled"})
  IN IF fullRep # {} THEN
       [isEligible |-> TRUE, currentAgreementType |-> "full_representation",
        governingAgreementId |-> First(fullRep),
        blockingReasonCode |-> "none", requiredAction |-> "none"]
     ELSE IF tourPass # {} THEN
       Ineligible("tour_pass", First(tourPass),
                  "tour_pass_only_no_full_rep", "upgrade_to_full_rep")
     ELSE IF replaced # {} /\ WithStatus(t, scope, Pending) = {} THEN
       Ineligible("none", First(replaced),
                  "agreement_replaced_pending_new", "sign_agreement")
     ELSE IF canceled # {} /\ canceled = scope THEN
       Ineligible("none", First(canceled), "agreement_canceled", "sign_agreement")
     ELSE
       Ineligible("none", None, "no_signed_agreement", "sign_agreement")

RoomVerdict(t, r) == ComputeOfferEligibility(t, InRoom(t, r))

\* What an auditLog entry keeps of a verdict: the governing id is left out.
Logged(v) == [isEligible |-> v.isEligible,
              currentAgreementType |-> v.currentAgreementType,
              blockingReasonCode |-> v.blockingReasonCode,
              requiredAction |-> v.requiredAction]

DidVerdictChange(old, new) == old # new

\* Mutant: the agreements are read before the caller has patched them.
RecalculateInternal_ReadsBefore(b, r) ==
  LET verdict == RoomVerdict(agreements, r) IN
  /\ BuyerOf[r] = b
  /\ eligibility' = [eligibility EXCEPT ![r] = verdict]
  /\ eligibilityAudit' =
       IF DidVerdictChange(eligibility[r], verdict)
         THEN [eligibilityAudit EXCEPT ![r] = Logged(verdict)]
         ELSE eligibilityAudit

\* recalculateInternal: throws unless the room belongs to the buyer; upserts
\* the row from the agreements as the transaction has left them.
RecalculateInternal(b, r) ==
  LET verdict == RoomVerdict(agreements', r) IN
  /\ BuyerOf[r] = b
  /\ eligibility' = [eligibility EXCEPT ![r] = verdict]
  /\ eligibilityAudit' =
       IF DidVerdictChange(eligibility[r], verdict)
         THEN [eligibilityAudit EXCEPT ![r] = Logged(verdict)]
         ELSE eligibilityAudit
-----------------------------------------------------------------------------
(***************************************************************************)
(* Supersession (agreementSupersession.ts).                                *)
(***************************************************************************)

\* The ids the walk over replacedById visits from s: the least set that
\* holds s and the successor of each of its members.
Lineage(t, s) ==
  {x \in Ids : \A C \in SUBSET Ids :
     (/\ s \in C
      /\ \A c \in C : t[c].replacedById # None => t[c].replacedById \in C)
     => x \in C}

\* Mutant: the successor may already have a predecessor.
CanSupersede_SharedSuccessor(t, p, s) ==
  /\ p # s
  /\ t[p].buyerId = t[s].buyerId
  /\ t[p].status = "signed"
  /\ t[p].replacedById = None
  /\ t[s].status \notin {"canceled", "replaced"}
  /\ p \notin Lineage(t, s)

\* Mutant: a canceled agreement can still be superseded.
CanSupersede_CanceledPredecessor(t, p, s) ==
  /\ p # s
  /\ t[p].buyerId = t[s].buyerId
  /\ t[p].status \in {"signed", "canceled"}
  /\ t[p].replacedById = None
  /\ t[s].status \notin {"canceled", "replaced"}
  /\ \A a \in OfBuyer(t, t[p].buyerId) : t[a].replacedById # s
  /\ p \notin Lineage(t, s)

\* The checks of applySupersessionState, each of which throws.
CanSupersede(t, p, s) ==
  /\ p # s
  /\ t[p].buyerId = t[s].buyerId
  /\ t[p].status = "signed"
  /\ t[p].replacedById = None
  /\ t[s].status \notin {"canceled", "replaced"}
  /\ \A a \in OfBuyer(t, t[p].buyerId) : t[a].replacedById # s
  /\ p \notin Lineage(t, s)

\* Mutant: the predecessor keeps its status.
Superseded_StaysSigned(t, p, s) ==
  [t EXCEPT ![p] = [@ EXCEPT !.replacedById = s]]

Superseded(t, p, s) ==
  [t EXCEPT ![p] = [@ EXCEPT !.status = "replaced", !.replacedById = s]]

Event(status, successor) ==
  [nextStatus |-> status, successorAgreementId |-> successor]
-----------------------------------------------------------------------------
(***************************************************************************)
(* The mutations.                                                          *)
(***************************************************************************)
IsNextId(a) == a \in Ids /\ Rows(agreements) = 1 .. (a - 1)

NewDraft(r, b, ty) ==
  [dealRoomId |-> r, buyerId |-> b, type |-> ty, status |-> "draft",
   replacedById |-> None, signedAt |-> 0]

\* Any pair of a room and a buyer may be passed in; recalculateInternal
\* refuses, and so rolls back, a room of another buyer.
CreateDraft(a, r, b, ty) ==
  /\ IsNextId(a)
  /\ agreements' = [agreements EXCEPT ![a] = NewDraft(r, b, ty)]
  /\ agreementAudit' = [agreementAudit EXCEPT ![a] = Event("draft", None)]
  /\ RecalculateInternal(b, r)
  /\ UNCHANGED clock

SendForSigning(a) ==
  /\ agreements[a].status = "draft"
  /\ agreements' = [agreements EXCEPT ![a] = [@ EXCEPT !.status = "sent"]]
  /\ agreementAudit' = [agreementAudit EXCEPT ![a] = Event("sent", None)]
  /\ RecalculateInternal(agreements[a].buyerId, agreements[a].dealRoomId)
  /\ UNCHANGED clock

RecordSignature(a) ==
  /\ agreements[a].status = "sent"
  /\ clock' = clock + 1
  /\ agreements' = [agreements EXCEPT ![a] =
                      [@ EXCEPT !.status = "signed", !.signedAt = clock + 1]]
  /\ agreementAudit' = [agreementAudit EXCEPT ![a] = Event("signed", None)]
  /\ RecalculateInternal(agreements[a].buyerId, agreements[a].dealRoomId)

\* Mutant: the eligibility is not recalculated.
CancelAgreement_NoRecalculation(a) ==
  /\ agreements[a].status = "signed"
  /\ agreements' = [agreements EXCEPT ![a] = [@ EXCEPT !.status = "canceled"]]
  /\ agreementAudit' = [agreementAudit EXCEPT ![a] = Event("canceled", None)]
  /\ UNCHANGED <<eligibility, eligibilityAudit, clock>>

CancelAgreement(a) ==
  /\ agreements[a].status = "signed"
  /\ agreements' = [agreements EXCEPT ![a] = [@ EXCEPT !.status = "canceled"]]
  /\ agreementAudit' = [agreementAudit EXCEPT ![a] = Event("canceled", None)]
  /\ RecalculateInternal(agreements[a].buyerId, agreements[a].dealRoomId)
  /\ UNCHANGED clock

\* replaceAgreement: insert the successor and link it in one transaction.
ReplaceAgreement(p, a, ty) ==
  LET t == [agreements EXCEPT ![a] =
              NewDraft(agreements[p].dealRoomId, agreements[p].buyerId, ty)]
  IN /\ IsNextId(a)
     /\ agreements[p].status = "signed"
     /\ CanSupersede(t, p, a)
     /\ agreements' = Superseded(t, p, a)
     /\ agreementAudit' = [agreementAudit EXCEPT ![a] = Event("draft", None),
                                                 ![p] = Event("replaced", a)]
     /\ RecalculateInternal(agreements[p].buyerId, agreements[p].dealRoomId)
     /\ UNCHANGED clock

\* supersede: link two rows that exist.  It does not recalculate.
Supersede(p, s) ==
  /\ {p, s} \subseteq Rows(agreements)
  /\ CanSupersede(agreements, p, s)
  /\ agreements' = Superseded(agreements, p, s)
  /\ agreementAudit' = [agreementAudit EXCEPT ![p] = Event("replaced", s)]
  /\ UNCHANGED <<eligibility, eligibilityAudit, clock>>

\* initiateUpgrade: the first signed tour pass of the room is replaced by a
\* full-representation draft.
InitiateUpgrade(r, a) ==
  LET b      == BuyerOf[r]
      passes == SignedOf(agreements,
                         InRoom(agreements, r) \cap OfBuyer(agreements, b),
                         "tour_pass")
      p      == First(passes)
      t      == [agreements EXCEPT ![a] = NewDraft(r, b, "full_representation")]
  IN /\ IsNextId(a)
     /\ passes # {}
     /\ CanSupersede(t, p, a)
     /\ agreements' = Superseded(t, p, a)
     /\ agreementAudit' = [agreementAudit EXCEPT ![a] = Event("draft", None),
                                                 ![p] = Event("replaced", a)]
     /\ RecalculateInternal(b, r)
     /\ UNCHANGED clock

\* recalculateEligibility, called by a broker or an admin.
RecalculateEligibility(r) ==
  /\ UNCHANGED <<agreements, agreementAudit, clock>>
  /\ RecalculateInternal(BuyerOf[r], r)

Init ==
  /\ agreements = [a \in Ids |-> Absent]
  /\ eligibility = [r \in Rooms |-> NoVerdict]
  /\ eligibilityAudit = [r \in Rooms |-> NoVerdict]
  /\ agreementAudit = [a \in Ids |-> Event("absent", None)]
  /\ clock = 0

Next ==
  \/ \E a \in Ids, r \in Rooms, b \in Buyers, ty \in Types :
       CreateDraft(a, r, b, ty)
  \/ \E a \in Ids : SendForSigning(a)
  \/ \E a \in Ids : RecordSignature(a)
  \/ \E a \in Ids : CancelAgreement(a)
  \/ \E p, a \in Ids, ty \in Types : ReplaceAgreement(p, a, ty)
  \/ \E p, s \in Ids : Supersede(p, s)
  \/ \E r \in Rooms, a \in Ids : InitiateUpgrade(r, a)
  \/ \E r \in Rooms : RecalculateEligibility(r)

Spec == Init /\ [][Next]_vars
-----------------------------------------------------------------------------
\* Shape of the tables.
TypeOK ==
  /\ agreements \in [Ids -> Row \cup {Absent}]
  /\ eligibility \in [Rooms -> Verdict \cup {NoVerdict}]
  /\ clock \in Nat
  /\ DOMAIN eligibilityAudit = Rooms
  /\ DOMAIN agreementAudit = Ids

(***************************************************************************)
(* The linear chain invariant that applySupersessionState names in its     *)
(* error message: a row is replaced exactly when it has a successor, the   *)
(* successor exists and belongs to the same buyer, and no two rows share   *)
(* one.  Three mutations create links; all rely on the same checks.        *)
(***************************************************************************)
LinearIn(t) ==
  /\ \A a \in Ids : t[a].status = "replaced" <=> t[a].replacedById # None
  /\ \A a \in Ids : t[a].replacedById # None =>
       /\ t[a].replacedById \in Rows(t)
       /\ t[t[a].replacedById].buyerId = t[a].buyerId
  /\ \A a, b \in Ids :
       t[a].replacedById # None /\ t[a].replacedById = t[b].replacedById => a = b

LinearChain == LinearIn(agreements)

(***************************************************************************)
(* Chains end: no set of agreements has all its successors inside it, so   *)
(* the walks over replacedById terminate without their "seen" guards.      *)
(***************************************************************************)
AcyclicIn(t) ==
  \A S \in SUBSET Ids : S # {} => \E a \in S : t[a].replacedById \notin S

AcyclicChains == AcyclicIn(agreements)

(***************************************************************************)
(* An agreement always belongs to the buyer who owns its deal room,        *)
(* although createDraft takes both ids from its caller: the nested         *)
(* recalculation throws on a mismatch and takes the insert back with it.   *)
(***************************************************************************)
OwnedIn(t) == \A a \in Rows(t) : t[a].buyerId = BuyerOf[t[a].dealRoomId]

RoomOwner == OwnedIn(agreements)

(***************************************************************************)
(* What every mutation may rely on when it reads the agreements of a buyer: *)
(* well-formed rows in linear, finite chains inside the buyer's own rooms. *)
(***************************************************************************)
TablesSound == TypeOK /\ LinearChain /\ AcyclicChains /\ RoomOwner

(***************************************************************************)
(* Cancelling always revokes: a persisted "eligible" row is governed by a  *)
(* full-representation agreement of that very room that was signed and     *)
(* never canceled (a row can be stale only because that agreement was      *)
(* superseded).                                                            *)
(***************************************************************************)
EligibleRowGoverned ==
  \A r \in Rooms : eligibility[r].isEligible =>
    LET g == eligibility[r].governingAgreementId IN
    /\ g \in InRoom(agreements, r)
    /\ agreements[g].type = "full_representation"
    /\ agreements[g].status \in {"signed", "replaced"}

(***************************************************************************)
(* The two audit trails reconstruct the tables they describe: the last     *)
(* lifecycle event of an agreement names its status and its successor, the *)
(* last eligibility entry of a room says what the persisted row says.      *)
(***************************************************************************)
AuditReconstructsState ==
  /\ \A a \in Ids : agreementAudit[a]
                      = Event(agreements[a].status, agreements[a].replacedById)
  /\ \A r \in Rooms : eligibility[r] # NoVerdict =>
                        eligibilityAudit[r] = Logged(eligibility[r])

\* A link made by the supersede mutation: a row is replaced, none is created.
LinkedByHand ==
  /\ Rows(agreements)' = Rows(agreements)
  /\ \E a \in Ids : /\ agreements[a].status # "replaced"
                    /\ agreements'[a].status = "replaced"

(***************************************************************************)
(* Every lifecycle step except a hand-made link leaves the persisted row   *)
(* of each room whose verdict it changes equal to the new verdict: the     *)
(* recalculation covers every room a mutation can affect.                  *)
(***************************************************************************)
EligibilityFollowsLifecycle ==
  [][\A r \in Rooms :
       RoomVerdict(agreements, r)' # RoomVerdict(agreements, r) /\ ~LinkedByHand
         => eligibility'[r] = RoomVerdict(agreements, r)']_vars

(***************************************************************************)
(* Canceled and replaced are final: such a row is never written again, in  *)
(* particular its successor and its timestamps stay what they were.        *)
(***************************************************************************)
ClosedRowsFrozen ==
  [][\A a \in Ids : agreements[a].status \in {"canceled", "replaced"}
                      => agreements'[a] = agreements[a]]_vars

(***************************************************************************)
(* What offerEligibility.ts promises the readers of the persisted row,     *)
(* which is recomputed "from each state transition": while it says         *)
(* eligible, a full-representation agreement of the room is signed.  The   *)
(* code breaks this with a hand-made link.                                 *)
(***************************************************************************)
EligibleMeansSigned ==
  \A r \in Rooms : eligibility[r].isEligible =>
    SignedOf(agreements, InRoom(agreements, r), "full_representation") # {}
=============================================================================
