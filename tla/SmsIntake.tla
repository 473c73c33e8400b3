------------------------------ MODULE SmsIntake ------------------------------
(***************************************************************************)
(* Text-a-link: the messages of one phone (convex/smsIntake.ts), its bucket*)
(* of RateLimiter, its consent, and the listings the links are stored as.  *)
(* Twilio may deliver a message again at any later time; what a phone sent *)
(* is told apart by the intent of classifyInboundSms and, for a link, by   *)
(* what parseListingUrl makes of it.                                       *)
(***************************************************************************)
EXTENDS RateLimiter

CONSTANTS
  Sids,        \* Twilio's ids of the messages
  Listings,    \* links to supported portals, by normalized url
  NoConsent    \* a phone without a row

ASSUME SmsAssumption ==
  /\ NoConsent \notin {"opted_in", "opted_out"}
  /\ Listings \cap {"empty", "stop", "start", "help", "text_only",
                    "unsupported_url", "invalid_url"} = {}

BadLinks == {"unsupported_url", "invalid_url"}
Intents == {"empty", "stop", "start", "help", "text_only"} \cup BadLinks \cup Listings
Outcomes == {"empty_body", "stop_received", "start_received", "help_reply",
             "suppressed", "rate_limited", "url_processed"} \cup BadLinks
Message == [sid : Sids, intent : Intents, outcome : Outcomes, replySent : BOOLEAN]

VARIABLES
  messages,        \* smsIntakeMessages, by age
  consent,         \* smsConsent.status
  sourceListings,  \* sourceListings created by links, by age
  replies          \* history: what each message was answered with, by sid

smsVars == <<limiterVars, messages, consent, sourceListings, replies>>

IsLink(intent) == intent \in BadLinks \cup Listings
-----------------------------------------------------------------------------
Suppressed(intent) == consent = "opted_out" /\ intent \notin {"help", "start"}

Unlimited == [empty |-> "empty_body", stop |-> "stop_received",
              start |-> "start_received", help |-> "help_reply"]

WriteMessage(sid, intent, outcome) ==
  LET sent == outcome \notin {"suppressed", "empty_body"}
  IN /\ messages' = Append(messages, [sid |-> sid, intent |-> intent,
                                      outcome |-> outcome, replySent |-> sent])
     /\ replies' = [replies EXCEPT ![sid] = @ \cup {<<outcome, sent>>}]

\* Mutant: a delivery is a duplicate only of a message that was answered.
Seen_Answered(sid) == \E i \in DOMAIN messages : messages[i].sid = sid /\ messages[i].replySent

Seen(sid) == \E i \in DOMAIN messages : messages[i].sid = sid

\* No reply, or one that costs nothing: the limiter is not asked.
ProcessUnlimited(sid, intent) ==
  /\ ~Seen(sid)
  /\ Suppressed(intent) \/ intent \in DOMAIN Unlimited
  /\ WriteMessage(sid, intent,
       IF Suppressed(intent) THEN "suppressed" ELSE Unlimited[intent])
  /\ consent' = CASE Suppressed(intent) -> consent
                  [] ~Suppressed(intent) /\ intent = "stop" -> "opted_out"
                  [] intent = "start" -> "opted_in"
                  [] OTHER -> consent
  /\ UNCHANGED <<limiterVars, sourceListings>>

\* A link opts in also when it cannot be used; only text does not.
ProcessLimited(sid, intent) ==
  LET check == CheckRateLimit(bucket, tick)
      admitted == check.reason = "allowed"
      usable == intent \in Listings
  IN /\ ~Seen(sid) /\ ~Suppressed(intent)
     /\ intent \notin DOMAIN Unlimited
     /\ CountMore
     /\ WriteMessage(sid, intent,
          CASE ~admitted -> "rate_limited"
            [] admitted /\ usable -> "url_processed"
            [] admitted /\ intent = "text_only" -> "invalid_url"
            [] OTHER -> intent)
     /\ consent' = IF admitted /\ IsLink(intent) THEN "opted_in" ELSE consent
     /\ bucket' = CASE ~admitted -> check.bucket
                    [] admitted /\ usable -> RecordSuccess(check.bucket)
                    [] OTHER -> RecordFailure(check.bucket, tick)
     /\ admittedAt' = IF admitted THEN Append(admittedAt, tick) ELSE admittedAt
     /\ sourceListings' = IF admitted /\ usable /\ ~Contains(sourceListings, intent)
                            THEN Append(sourceListings, intent) ELSE sourceListings
     /\ UNCHANGED tick

\* A message seen before is answered from its row.
ProcessDuplicate(sid) ==
  \E i \in DOMAIN messages :
    /\ messages[i].sid = sid
    /\ replies' = [replies EXCEPT ![sid] =
         @ \cup {<<messages[i].outcome, messages[i].replySent>>}]
    /\ UNCHANGED <<limiterVars, messages, consent, sourceListings>>
-----------------------------------------------------------------------------
SmsInit ==
  /\ LimiterInit
  /\ messages = <<>>
  /\ consent = NoConsent
  /\ sourceListings = <<>>
  /\ replies = [sid \in Sids |-> {}]

SmsNext ==
  \/ \E sid \in Sids, intent \in Intents :
       ProcessUnlimited(sid, intent) \/ ProcessLimited(sid, intent)
  \/ \E sid \in Sids : ProcessDuplicate(sid)
  \/ Wait /\ UNCHANGED <<messages, consent, sourceListings, replies>>

SmsSpec == SmsInit /\ [][SmsNext]_smsVars
-----------------------------------------------------------------------------
SmsTypeOK ==
  /\ messages \in Seq(Message)
  /\ consent \in {"opted_in", "opted_out", NoConsent}
  /\ sourceListings \in Seq(Listings)

\* After STOP and until START nothing but HELP is answered, no link is
\* taken, and nothing else changes the consent back.
Silenced(i) ==
  \E k \in 1 .. (i - 1) :
    /\ messages[k].outcome = "stop_received"
    /\ \A j \in (k + 1) .. (i - 1) : messages[j].outcome # "start_received"

StopHolds ==
  /\ \A i \in DOMAIN messages : Silenced(i) =>
       messages[i].outcome \in {"suppressed", "help_reply", "start_received"}
  /\ consent = "opted_out" <=> Silenced(Len(messages) + 1)

\* A message delivered again is stored once and answered as the first time,
\* also when the consent or the limit have changed since, and a link is
\* stored once for all the messages that hold it.
AnsweredOnce ==
  /\ \A i, k \in DOMAIN messages : messages[i].sid = messages[k].sid => i = k
  /\ \A sid \in Sids : Cardinality(replies[sid]) <= 1
  /\ IsInjective(sourceListings)
  /\ ToSet(sourceListings) =
       {messages[i].intent : i \in {k \in DOMAIN messages :
                                      messages[k].outcome = "url_processed"}}

SmsSound == SmsTypeOK /\ LimitsHold /\ StopHolds /\ AnsweredOnce
-----------------------------------------------------------------------------
\* How a text was answered, by its row.
AnswerTo(sid) ==
  IF Seen(sid) THEN messages[CHOOSE i \in DOMAIN messages : messages[i].sid = sid].outcome
  ELSE "none"

Conversation == INSTANCE TextConversation WITH
  Links    <- Listings,
  answer   <- [sid \in Sids |-> AnswerTo(sid)],
  optedOut <- (consent = "opted_out"),
  links    <- ToSet(sourceListings),
  looked   <- admittedAt,
  now      <- tick

(***************************************************************************)
(* Seen from the phone the handler is that conversation: a message that is *)
(* delivered again, whenever and however often, is no step of it, and the  *)
(* bucket with its pruned list and its blocks never lets in more.          *)
(***************************************************************************)
ImplementsConversation == Conversation!Spec
=============================================================================
