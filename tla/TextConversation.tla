--------------------------- MODULE TextConversation ---------------------------
(***************************************************************************)
(* What text-a-link promises to a phone: every text is answered once,      *)
(* however often it is delivered; after STOP there is silence but for HELP *)
(* until START; and in no window of time more links are looked at than the *)
(* channel allows.  There are no rows, deliveries, buckets or blocks.      *)
(***************************************************************************)
EXTENDS Integers, Sequences, FiniteSets

CONSTANTS Sids,   \* the texts
          Links,  \* the links that can be taken
          MaxPerWindow, WindowTicks

VARIABLES
  answer,    \* how each text was answered
  optedOut,
  links,     \* the links taken
  looked,    \* when a text was looked at for a link
  now

vars == <<answer, optedOut, links, looked, now>>

Unanswered == "none"

Answer(sid, outcome) ==
  answer[sid] = Unanswered /\ answer' = [answer EXCEPT ![sid] = outcome]

\* A text that changes nothing but that it is answered.
Remark(sid) ==
  /\ \/ optedOut /\ Answer(sid, "suppressed")
     \/ ~optedOut /\ \E outcome \in {"empty_body", "rate_limited"} : Answer(sid, outcome)
     \/ Answer(sid, "help_reply")
  /\ UNCHANGED <<optedOut, links, looked, now>>

Stop(sid) ==
  /\ ~optedOut /\ Answer(sid, "stop_received")
  /\ optedOut' = TRUE
  /\ UNCHANGED <<links, looked, now>>

Start(sid) ==
  /\ Answer(sid, "start_received")
  /\ optedOut' = FALSE
  /\ UNCHANGED <<links, looked, now>>

\* What was looked at in the window that ends now.
Recent == {i \in DOMAIN looked : looked[i] > now - WindowTicks}

Look(sid) ==
  /\ ~optedOut /\ Cardinality(Recent) < MaxPerWindow
  /\ looked' = Append(looked, now)
  /\ \/ \E link \in Links : Answer(sid, "url_processed") /\ links' = links \cup {link}
     \/ \E outcome \in {"unsupported_url", "invalid_url"} :
          Answer(sid, outcome) /\ UNCHANGED links
  /\ UNCHANGED <<optedOut, now>>

Pass == now' = now + 1 /\ UNCHANGED <<answer, optedOut, links, looked>>
-----------------------------------------------------------------------------
Init ==
  /\ answer = [sid \in Sids |-> Unanswered]
  /\ optedOut = FALSE /\ links = {} /\ looked = <<>> /\ now = 1

Next ==
  \/ \E sid \in Sids : Remark(sid) \/ Stop(sid) \/ Start(sid) \/ Look(sid)
  \/ Pass

Spec == Init /\ [][Next]_vars
=============================================================================
