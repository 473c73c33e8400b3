--------------------------- MODULE LeadAttribution ---------------------------
(***************************************************************************)
(* Where a buyer came from: the touches of an anonymous browser session,   *)
(* their handoff to the user who signs in, and the conversion by the first *)
(* deal room (convex/leadAttribution.ts, convex/lib/leadAttribution.ts,    *)
(* ensureCurrentBuyer of convex/users.ts, create of convex/dealRooms.ts).  *)
(*                                                                         *)
(* Convex's unique() throws when two rows match, and the throw rolls the   *)
(* whole mutation back: such a call is a step that cannot be taken.        *)
(***************************************************************************)
EXTENDS FiniteSets, Naturals, Sequences, SequencesExt

CONSTANTS
  Sessions,     \* attribution cookies, one per browser
  Leads,        \* people who may sign in
  Touches,      \* values of source, medium and campaign
  DirectTouch,  \* the one of a visitor who came without a campaign
  Homes,   \* properties a room may be created for
  Nobody,       \* a row without a user
  MaxTouches    \* bound on the touches of a session

ASSUME LeadAssumption ==
  /\ DirectTouch \in Touches /\ Nobody \notin Leads /\ MaxTouches \in Nat

Attribution == [userId : Leads \cup {Nobody}, firstTouch : Touches, lastTouch : Touches,
                touchCount : Nat, status : {"anonymous", "registered", "converted"}]
NoAttribution == [status |-> "none"]

VARIABLES
  attribution,  \* leadAttribution, by session
  leadRooms,    \* the properties each user has a deal room for
  captured      \* history: the touches of each session, the synthetic one too

leadVars == <<attribution, leadRooms, captured>>

Known(s) == attribution[s] # NoAttribution
RowsOf(u) == {s \in Sessions : Known(s) /\ attribution[s].userId = u}
UniqueReadFails(u) == Cardinality(RowsOf(u)) > 1
-----------------------------------------------------------------------------
CreateAnonymous(t) ==
  [userId |-> Nobody, firstTouch |-> t, lastTouch |-> t, touchCount |-> 1,
   status |-> "anonymous"]

\* Mutant: repeated page views of one campaign count again.
AppendTouch_Counted(row, t) ==
  [row EXCEPT !.lastTouch = t, !.touchCount = @ + 1]

AppendTouch(row, t) ==
  IF t = row.lastTouch THEN row
  ELSE [row EXCEPT !.lastTouch = t, !.touchCount = @ + 1]

CaptureTouch(s, t) ==
  /\ Len(captured[s]) < MaxTouches
  /\ captured' = [captured EXCEPT ![s] = Append(@, t)]
  /\ attribution' = [attribution EXCEPT ![s] =
       IF Known(s) THEN AppendTouch(@, t) ELSE CreateAnonymous(t)]
  /\ UNCHANGED leadRooms

Synthetic(u) == [CreateAnonymous(DirectTouch) EXCEPT !.userId = u, !.status = "registered"]

\* handoffToUser: the rows of the user are read only when the session has none.
HandoffAllowed(s, u) ==
  IF Known(s) THEN attribution[s].userId \in {u, Nobody} ELSE ~UniqueReadFails(u)

HandedOff(s, u) ==
  [attribution EXCEPT ![s] =
     CASE Known(s) /\ @.userId = Nobody -> [@ EXCEPT !.userId = u, !.status = "registered"]
       [] ~Known(s) /\ RowsOf(u) = {} -> Synthetic(u)
       [] OTHER -> @]

EnsureCurrentBuyer(s, u) ==
  /\ HandoffAllowed(s, u)
  /\ attribution' = HandedOff(s, u)
  /\ captured' = [captured EXCEPT ![s] =
       IF ~Known(s) /\ RowsOf(u) = {} THEN <<DirectTouch>> ELSE @]
  /\ UNCHANGED leadRooms

\* markConverted runs at the end of create, whether or not the room is new.
CreateDealRoom(u, p) ==
  /\ ~UniqueReadFails(u)
  /\ leadRooms' = [leadRooms EXCEPT ![u] = @ \cup {p}]
  /\ attribution' = [s \in Sessions |->
       IF s \in RowsOf(u) THEN [attribution[s] EXCEPT !.status = "converted"]
                          ELSE attribution[s]]
  /\ UNCHANGED captured
-----------------------------------------------------------------------------
LeadInit ==
  /\ attribution = [s \in Sessions |-> NoAttribution]
  /\ leadRooms = [u \in Leads |-> {}]
  /\ captured = [s \in Sessions |-> <<>>]

LeadNext ==
  \/ \E s \in Sessions, t \in Touches : CaptureTouch(s, t)
  \/ \E s \in Sessions, u \in Leads : EnsureCurrentBuyer(s, u)
  \/ \E u \in Leads, p \in Homes : CreateDealRoom(u, p)

LeadSpec == LeadInit /\ [][LeadNext]_leadVars
-----------------------------------------------------------------------------
LeadTypeOK ==
  /\ attribution \in [Sessions -> Attribution \cup {NoAttribution}]
  /\ leadRooms \in [Leads -> SUBSET Homes]
  /\ captured \in [Sessions -> Seq(Touches)]

\* A row tells what its session sent: the first touch stays the first, the
\* last one is the last, and only changes of campaign are counted, through
\* the handoff and the conversion.
TouchesTrue ==
  \A s \in Sessions : Known(s) =>
    LET row == attribution[s]
        sent == captured[s]
    IN /\ sent # <<>> /\ row.firstTouch = sent[1] /\ row.lastTouch = Last(sent)
       /\ row.touchCount =
            Cardinality({i \in DOMAIN sent : i = 1 \/ sent[i] # sent[i - 1]})

\* A lead that counts as converted belongs to a user who has a deal room,
\* and a row without a user is anonymous.
ConversionsTrue ==
  \A s \in Sessions : Known(s) =>
    /\ attribution[s].status = "anonymous" <=> attribution[s].userId = Nobody
    /\ attribution[s].status = "converted" => leadRooms[attribution[s].userId] # {}

AttributionTrue == LeadTypeOK /\ TouchesTrue /\ ConversionsTrue

\* Every user has at most one row: the reads that convert the user and sign
\* him in on another device rely on it.
OneRowPerUser == \A u \in Leads : Cardinality(RowsOf(u)) <= 1
=============================================================================
