---------------------------- MODULE OutsideAccess ----------------------------
(***************************************************************************)
(* The two doors through which people without an account reach a deal room.*)
(*                                                                         *)
(* Share links show one deal room (convex/dealRoomShareLinks.ts,           *)
(* convex/lib/shareLinkState.ts, convex/lib/shareLink.ts).  Expiry is      *)
(* never stored: every resolution works it out from the clock.  A refused  *)
(* resolution returns and leaves its event behind.                         *)
(*                                                                         *)
(* Tokens let a listing agent answer (convex/externalAccess.ts): what they *)
(* allow (packages/shared/src/external-access.ts,                          *)
(* convex/lib/externalAccessSession.ts) and the responses submitted with   *)
(* them (convex/listingResponses.ts, convex/lib/listingResponses.ts).      *)
(* Here every refusal throws, so a refused submission changes nothing of   *)
(* these tables (RefusedAccess).                                           *)
(***************************************************************************)
EXTENDS Naturals, Sequences, FiniteSets

CONSTANTS
  Persons,     \* buyers
  Staff,       \* brokers and administrators
  SharedRooms, \* deal rooms
  HolderOf,    \* the buyer of each
  MaxLinks, MaxLinkEvents, MaxMinute   \* bounds

ASSUME ShareLinksAssumption ==
  /\ HolderOf \in [SharedRooms -> Persons]
  /\ Persons \cap Staff = {}
  /\ {MaxLinks, MaxLinkEvents, MaxMinute} \subseteq Nat /\ MaxMinute > 0

Unset == 0                       \* an instant that is null
Minutes == 1 .. MaxMinute

Link == [dealRoomId : SharedRooms, createdByUserId : Persons,
         status : {"active", "revoked"}, expiresAt : Minutes \cup {Unset},
         accessCount : Nat, lastAccessedAt : Minutes \cup {Unset}]
LinkEvent == [linkId : 1 .. MaxLinks, timestamp : Minutes,
              event : {"created", "resolved", "denied_expired", "denied_revoked",
                       "revoked"}]

VARIABLES
  links,       \* dealRoomShareLinks, by age
  linkEvents,  \* dealRoomShareLinkEvents, by age
  minute       \* the clock

linkVars == <<links, linkEvents, minute>>

RecordLinkEvent(l, event) ==
  /\ Len(linkEvents) < MaxLinkEvents
  /\ linkEvents' = Append(linkEvents,
                     [linkId |-> l, event |-> event, timestamp |-> minute])
-----------------------------------------------------------------------------
\* Mutant: expiry is looked at before the stored status.
ComputeStatus_ExpiryFirst(link) ==
  CASE link.expiresAt # Unset /\ minute >= link.expiresAt -> "expired"
    [] link.status = "revoked" -> "revoked"
    [] OTHER -> "active"

ComputeStatus(link) ==
  CASE link.status = "revoked" -> "revoked"
    [] link.status # "revoked" /\ link.expiresAt # Unset /\ minute >= link.expiresAt
         -> "expired"
    [] OTHER -> "active"

\* Staff create on behalf of the buyer, who then counts as the creator.
CreateLink(actor, room, expires) ==
  /\ Len(links) < MaxLinks
  /\ actor = HolderOf[room] \/ actor \in Staff
  /\ expires # Unset => expires > minute
  /\ links' = Append(links,
       [dealRoomId |-> room, createdByUserId |-> HolderOf[room],
        status |-> "active", expiresAt |-> expires, accessCount |-> 0,
        lastAccessedAt |-> Unset])
  /\ RecordLinkEvent(Len(links) + 1, "created")
  /\ UNCHANGED minute

\* resolveBySlug.  A slug that no link has is only audited.
ResolveLink(l) ==
  /\ \/ /\ ComputeStatus(links[l]) = "active"
        /\ links' = [links EXCEPT ![l].accessCount = @ + 1,
                                  ![l].lastAccessedAt = minute]
        /\ RecordLinkEvent(l, "resolved")
     \/ /\ ComputeStatus(links[l]) # "active"
        /\ RecordLinkEvent(l, IF ComputeStatus(links[l]) = "expired"
                                THEN "denied_expired" ELSE "denied_revoked")
        /\ UNCHANGED links
  /\ UNCHANGED minute

CanRevoke(link, actor) ==
  /\ link.status # "revoked"
  /\ actor \in Staff \cup {link.createdByUserId}

RevokeLink(actor, l) ==
  /\ CanRevoke(links[l], actor)
  /\ links' = [links EXCEPT ![l].status = "revoked"]
  /\ RecordLinkEvent(l, "revoked")
  /\ UNCHANGED minute

LinkTick == minute < MaxMinute /\ minute' = minute + 1 /\ UNCHANGED <<links, linkEvents>>

LinkInit == links = <<>> /\ linkEvents = <<>> /\ minute = 1

LinkNext ==
  \/ \E actor \in Persons \cup Staff :
       \/ \E room \in SharedRooms, expires \in Minutes \cup {Unset} :
            CreateLink(actor, room, expires)
       \/ \E l \in DOMAIN links : RevokeLink(actor, l)
  \/ \E l \in DOMAIN links : ResolveLink(l)
  \/ LinkTick

LinkSpec == LinkInit /\ [][LinkNext]_linkVars
-----------------------------------------------------------------------------
LinkTypeOK ==
  /\ links \in Seq(Link) /\ Len(links) <= MaxLinks
  /\ linkEvents \in Seq(LinkEvent) /\ Len(linkEvents) <= MaxLinkEvents
  /\ minute \in Minutes

LinkEventsOf(l) == {i \in DOMAIN linkEvents : linkEvents[i].linkId = l}
ViewsOf(l) == {i \in LinkEventsOf(l) : linkEvents[i].event = "resolved"}
RevokedBefore(l, i) == \E k \in LinkEventsOf(l) : k < i /\ linkEvents[k].event = "revoked"
ExpiredAt(l, i) ==
  links[l].expiresAt # Unset /\ linkEvents[i].timestamp >= links[l].expiresAt

LinkEventTrue(l, i) ==
  LET event == linkEvents[i].event
  IN /\ event = "created" => \A k \in LinkEventsOf(l) : i <= k
     /\ event \in {"resolved", "denied_expired", "revoked"} => ~RevokedBefore(l, i)
     /\ event = "denied_revoked" => RevokedBefore(l, i)
     /\ event = "resolved" => ~ExpiredAt(l, i)
     /\ event = "denied_expired" => ExpiredAt(l, i)

TrailTrue(l) ==
  /\ \E i \in LinkEventsOf(l) : linkEvents[i].event = "created"
  /\ \A i \in LinkEventsOf(l) : LinkEventTrue(l, i)
  /\ links[l].accessCount = Cardinality(ViewsOf(l))
  /\ ViewsOf(l) = {} => links[l].lastAccessedAt = Unset
  /\ \A i \in ViewsOf(l) : (\A k \in ViewsOf(l) : k <= i) =>
       links[l].lastAccessedAt = linkEvents[i].timestamp

(***************************************************************************)
(* The events of a link and its row tell one story: it was created first   *)
(* and once, every view was granted before the expiry and before the       *)
(* revocation and is counted, the last one being remembered, every refusal *)
(* names the true reason, a revoked link never being called expired, and   *)
(* as long as a link works its buyer can take it back, also when staff     *)
(* created it.                                                             *)
(***************************************************************************)
LinkTrailTrue ==
  /\ LinkTypeOK
  /\ \A l \in DOMAIN links :
       /\ TrailTrue(l)
       /\ links[l].status = "active" =>
            CanRevoke(links[l], HolderOf[links[l].dealRoomId])
-----------------------------------------------------------------------------
(* The tokens of listing agents. *)

CONSTANTS
  DealRooms,
  SellerOffers,   \* offers a response may be about
  RoomOfOffer,    \* the deal room of each of them
  NoOffer,
  ActionOf,       \* getListingResponseAccessAction: what a response type needs
  Counters,       \* the response types that need an offer
  DedupeWindow,         \* DEDUPE_WINDOW_MS, in ticks
  MaxTokens, MaxResponses, MaxClock   \* bounds

ASSUME ExternalAccessAssumption ==
  /\ RoomOfOffer \in [SellerOffers -> DealRooms]
  /\ NoOffer \notin SellerOffers
  /\ {DedupeWindow, MaxTokens, MaxResponses, MaxClock} \subseteq Nat /\ MaxClock > 0

ResponseTypes == DOMAIN ActionOf
AccessActions == {ActionOf[type] : type \in ResponseTypes}
Never == 0
Instants == 1 .. MaxClock

Token == [dealRoomId : DealRooms, offerId : SellerOffers \cup {NoOffer},
          allowedActions : SUBSET AccessActions, expiresAt : Instants,
          revokedAt : Instants \cup {Never}, lastUsedAt : Instants \cup {Never}]
Response == [tokenId : 1 .. MaxTokens, dealRoomId : DealRooms,
             offerId : SellerOffers \cup {NoOffer}, responseType : ResponseTypes,
             submittedAt : Instants,
             reviewStatus : {"unreviewed", "acknowledged", "actioned", "dismissed"}]
AccessEvent == [tokenId : 1 .. MaxTokens, timestamp : Instants,
                eventType : {"issued", "accessed", "submitted", "denied", "revoked"}]

VARIABLES
  tokens,        \* externalAccessTokens, by age
  accessEvents,  \* externalAccessEvents, by age
  responses,     \* listingResponses, by age
  instant        \* the clock

accessVars == <<tokens, accessEvents, responses, instant>>

RecordEvents(t, types) ==   \* recordEvent, one after the other
  accessEvents' = accessEvents \o
    [i \in DOMAIN types |-> [tokenId |-> t, eventType |-> types[i], timestamp |-> instant]]
-----------------------------------------------------------------------------
IssueToken(room, offer, allowed, expires) ==
  /\ Len(tokens) < MaxTokens
  /\ allowed # {}
  /\ offer # NoOffer => RoomOfOffer[offer] = room
  /\ expires > instant
  /\ tokens' = Append(tokens,
       [dealRoomId |-> room, offerId |-> offer, allowedActions |-> allowed,
        expiresAt |-> expires, revokedAt |-> Never, lastUsedAt |-> Never])
  /\ RecordEvents(Len(tokens) + 1, <<"issued">>)
  /\ UNCHANGED <<responses, instant>>

RevokeToken(t) ==
  /\ tokens[t].revokedAt = Never
  /\ tokens' = [tokens EXCEPT ![t].revokedAt = instant]
  /\ RecordEvents(t, <<"revoked">>)
  /\ UNCHANGED <<responses, instant>>

Granted(token, action) ==   \* validateToken
  /\ token.revokedAt = Never
  /\ instant < token.expiresAt
  /\ action \in token.allowedActions

InScope(token, room, offer) ==   \* authorizeExternalAccessSession
  /\ token.dealRoomId = room
  /\ token.offerId # NoOffer => token.offerId = offer

Duplicate(t, type) ==
  \E i \in DOMAIN responses :
    /\ responses[i].tokenId = t
    /\ responses[i].responseType = type
    /\ instant < responses[i].submittedAt + DedupeWindow

AuthorizeListingResponseSubmission(t, room, offer, type) ==
  /\ Granted(tokens[t], ActionOf[type])
  /\ InScope(tokens[t], room, offer)
  /\ ~Duplicate(t, type)

ValidPayload(offer, type) == type \in Counters => offer # NoOffer   \* validateInline

SubmitResponse(t, room, offer, type) ==
  /\ Len(responses) < MaxResponses
  /\ AuthorizeListingResponseSubmission(t, room, offer, type)
  /\ offer # NoOffer => RoomOfOffer[offer] = room
  /\ ValidPayload(offer, type)
  /\ responses' = Append(responses,
       [tokenId |-> t, dealRoomId |-> room, offerId |-> offer,
        responseType |-> type, submittedAt |-> instant,
        reviewStatus |-> "unreviewed"])
  /\ tokens' = [tokens EXCEPT ![t].lastUsedAt = instant]
  /\ RecordEvents(t, <<"accessed", "submitted">>)
  /\ UNCHANGED instant

MarkReviewed(i, status) ==
  /\ responses' = [responses EXCEPT ![i].reviewStatus = status]
  /\ UNCHANGED <<tokens, accessEvents, instant>>

AccessTick ==
  /\ instant < MaxClock
  /\ instant' = instant + 1
  /\ UNCHANGED <<tokens, accessEvents, responses>>
-----------------------------------------------------------------------------
AccessInit == tokens = <<>> /\ accessEvents = <<>> /\ responses = <<>> /\ instant = 1

AccessNext ==
  \/ \E room \in DealRooms, offer \in SellerOffers \cup {NoOffer},
        allowed \in SUBSET AccessActions, expires \in Instants :
       IssueToken(room, offer, allowed, expires)
  \/ \E t \in DOMAIN tokens :
       \/ RevokeToken(t)
       \/ \E room \in DealRooms, offer \in SellerOffers \cup {NoOffer},
             type \in ResponseTypes : SubmitResponse(t, room, offer, type)
  \/ \E i \in DOMAIN responses, status \in {"acknowledged", "actioned", "dismissed"} :
       MarkReviewed(i, status)
  \/ AccessTick

AccessSpec == AccessInit /\ [][AccessNext]_accessVars
-----------------------------------------------------------------------------
\* Shape of the tables.
AccessTypeOK ==
  /\ tokens \in Seq(Token) /\ Len(tokens) <= MaxTokens
  /\ accessEvents \in Seq(AccessEvent)
  /\ responses \in Seq(Response) /\ Len(responses) <= MaxResponses
  /\ instant \in Instants

\* The same answer is not stored twice within the window, whatever other
\* answers were given with the token in between.
RepeatsSpaced ==
  \A i, k \in DOMAIN responses :
    (/\ i < k
     /\ responses[i].tokenId = responses[k].tokenId
     /\ responses[i].responseType = responses[k].responseType)
    => responses[k].submittedAt >= responses[i].submittedAt + DedupeWindow

\* A response was given while its token lived, for its room and its offer.
GivenInScope ==
  \A i \in DOMAIN responses :
    LET r == responses[i]  token == tokens[r.tokenId] IN
    /\ r.dealRoomId = token.dealRoomId
    /\ token.offerId \in {NoOffer, r.offerId}
    /\ r.offerId # NoOffer => RoomOfOffer[r.offerId] = r.dealRoomId
    /\ r.submittedAt < token.expiresAt
    /\ token.revokedAt = Never \/ r.submittedAt <= token.revokedAt

EventsOf(t) == {k \in DOMAIN accessEvents : accessEvents[k].tokenId = t}
ResponsesOf(t) == {i \in DOMAIN responses : responses[i].tokenId = t}

\* The submissions the log knows of, up to its k-th entry.
SubmittedUpTo(k) ==
  {j \in DOMAIN accessEvents : j <= k /\ accessEvents[j].eventType = "submitted"}

AccessEventTrue(k) ==
  LET e == accessEvents[k]
      r == responses[Cardinality(SubmittedUpTo(k))]
  IN /\ e.eventType = "issued" => \A j \in EventsOf(e.tokenId) : k <= j
     /\ e.eventType = "accessed" =>
          /\ k + 1 \in DOMAIN accessEvents
          /\ accessEvents[k + 1] \in
               {[e EXCEPT !.eventType = type] : type \in {"submitted", "denied"}}
     /\ e.eventType = "submitted" =>
          /\ k - 1 \in DOMAIN accessEvents
          /\ accessEvents[k - 1] = [e EXCEPT !.eventType = "accessed"]
          /\ r.tokenId = e.tokenId /\ r.submittedAt = e.timestamp
     /\ e.eventType = "revoked" =>
          /\ tokens[e.tokenId].revokedAt = e.timestamp
          /\ \A j \in EventsOf(e.tokenId) : j > k => accessEvents[j].eventType = "denied"

TokenTrue(t) ==
  /\ \E k \in EventsOf(t) : accessEvents[k].eventType = "issued"
  /\ tokens[t].revokedAt # Never =>
       \E k \in EventsOf(t) : accessEvents[k].eventType = "revoked"
  /\ ResponsesOf(t) = {} => tokens[t].lastUsedAt = Never
  /\ \A i \in ResponsesOf(t) : (\A j \in ResponsesOf(t) : j <= i) =>
       tokens[t].lastUsedAt = responses[i].submittedAt

(***************************************************************************)
(* The event log tells what was granted: each token was issued first and   *)
(* once, nothing is granted after its revocation, and the submissions in   *)
(* the log are the stored responses, one for one and in their order, each  *)
(* with the access right before it; a token was last used at the last of   *)
(* them.  Whether the log also tells what was refused is the question of   *)
(* RefusedAccess.                                                          *)
(***************************************************************************)
EventsTellTheLife ==
  /\ Cardinality(SubmittedUpTo(Len(accessEvents))) = Len(responses)
  /\ \A k \in DOMAIN accessEvents : AccessEventTrue(k)
  /\ \A t \in DOMAIN tokens : TokenTrue(t)

SubmissionsSound ==
  AccessTypeOK /\ RepeatsSpaced /\ GivenInScope /\ EventsTellTheLife

\* What outsiders are shown and what they get to hand in is recorded as it happened.
OutsidersSound == LinkTrailTrue /\ SubmissionsSound
=============================================================================
