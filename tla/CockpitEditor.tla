---------------------------- MODULE CockpitEditor ----------------------------
(***************************************************************************)
(* The editor of an offer draft in the buyer's browser                     *)
(* (src/lib/dealroom/use-offer-cockpit.ts and its buttons in               *)
(* src/components/offer) over the mutations of OfferCockpit.  A window     *)
(* keeps the terms it shows and the terms it takes for stored; the server's*)
(* answers and the snapshots of the query come when they come, and the     *)
(* buyer goes on typing meanwhile.  A window's mutations are run in the    *)
(* order they were sent, and each is answered after a snapshot with its    *)
(* effect, as the client library of Convex has it.                         *)
(***************************************************************************)
EXTENDS OfferCockpit, SequencesExt

CONSTANTS
  Windows,     \* open editors of EditedRoom
  EditedRoom,
  Terms,       \* values of the offer's terms
  Scenarios,   \* those of them that are suggested scenarios
  Blank        \* emptyTerms: the list price, shown while nothing is stored

ASSUME CockpitEditorAssumption ==
  /\ IsFiniteSet(Windows)
  /\ EditedRoom \in Rooms /\ Scenarios \subseteq Terms /\ Blank \notin Terms

VARIABLES
  draftTerms,  \* the terms of each row of drafts
  windows,     \* the state of useOfferCockpit
  shownAt      \* history: what the window showed when the button was pressed
               \* whose save or submission was carried out last

editorVars == <<cockpitVars, draftTerms, windows, shownAt>>

RequestKinds == {"save", "save_and_submit", "submit_saved", "submit", "discard"}
Shown == Terms \cup {Blank}
Snapshot == [version : 0 .. MaxVersion, status : DraftStatuses, terms : Shown,
             canEdit : BOOLEAN]
Request == [kind : RequestKinds, terms : Shown,
            answer : {"none", "done", "error"}, version : 0 .. MaxVersion]
Window == [terms : Shown, pristineTerms : Shown, data : Snapshot,
           saving : BOOLEAN, submitting : BOOLEAN, sent : Seq(Request)]

StoredTerms == IF HasDraft(EditedRoom) THEN Last(draftTerms[EditedRoom]) ELSE Blank

GetCockpit ==
  LET has == HasDraft(EditedRoom) IN
  [version |-> IF has THEN Latest(EditedRoom).version ELSE 0,
   status |-> IF has THEN Latest(EditedRoom).status ELSE "draft",
   terms |-> StoredTerms, canEdit |-> eligibility[EditedRoom].isEligible]

Dirty(w) == windows[w].terms # windows[w].pristineTerms
CanEdit(w) == windows[w].data.canEdit /\ windows[w].data.status \in EditableDraftStatuses
Send(window, kind, terms) ==
  [window EXCEPT !.sent = Append(@, [kind |-> kind, terms |-> terms,
                                     answer |-> "none", version |-> 0])]
Update(w, window) == windows' = [windows EXCEPT ![w] = window]
ServerRests == UNCHANGED <<cockpitVars, draftTerms>>
-----------------------------------------------------------------------------
(* The buyer. *)
SetTerms(w, t) ==
  /\ CanEdit(w) \/ t \in Scenarios      \* a scenario card is never disabled
  /\ Update(w, [windows[w] EXCEPT !.terms = t])
  /\ ServerRests /\ UNCHANGED shownAt

Reset(w) ==
  /\ Dirty(w) /\ ~windows[w].saving
  /\ Update(w, [windows[w] EXCEPT !.terms = windows[w].pristineTerms])
  /\ ServerRests /\ UNCHANGED shownAt

\* The banner's button stays enabled during a submission.
PressSave(w) ==
  /\ Dirty(w) /\ ~windows[w].saving
  /\ Update(w, Send([windows[w] EXCEPT !.saving = TRUE], "save", windows[w].terms))
  /\ ServerRests /\ UNCHANGED shownAt

\* Submission sends the terms first when they are not stored yet.
PressSubmit(w) ==
  /\ CanEdit(w)
  /\ ~windows[w].saving /\ ~windows[w].submitting
  /\ Update(w, Send([windows[w] EXCEPT !.submitting = TRUE],
                    IF Dirty(w) THEN "save_and_submit" ELSE "submit",
                    windows[w].terms))
  /\ ServerRests /\ UNCHANGED shownAt

\* The answer will bring back what was stored when the button was pressed.
PressDiscard(w) ==
  /\ CanEdit(w) /\ ~windows[w].saving /\ ~windows[w].submitting
  /\ Update(w, Send([windows[w] EXCEPT !.saving = TRUE], "discard",
                    windows[w].data.terms))
  /\ ServerRests /\ UNCHANGED shownAt
-----------------------------------------------------------------------------
(* The server. *)
StoreTerms(t) ==
  /\ UpsertDraft(EditedRoom)
  /\ draftTerms' = [draftTerms EXCEPT ![EditedRoom] =
       IF HasDraft(EditedRoom) THEN [@ EXCEPT ![Len(@)] = t] ELSE Append(@, t)]

Succeeds(kind) ==
  CASE kind \in {"submit", "submit_saved"} ->
         /\ HasDraft(EditedRoom)
         /\ Latest(EditedRoom).status \in {"draft", "rejected"}
         /\ eligibility[EditedRoom].isEligible
    [] kind = "discard" -> ~UpsertRefused(EditedRoom)
    [] OTHER -> eligibility[EditedRoom].isEligible /\ ~UpsertRefused(EditedRoom)

\* The first request that has no answer yet is run, or throws.
Serve(w) ==
  \E i \in DOMAIN windows[w].sent :
    LET request == windows[w].sent[i]
        Answer(answer, version) ==
          windows' = [windows EXCEPT ![w].sent[i].answer = answer,
                                     ![w].sent[i].version = version]
    IN /\ request.answer = "none"
       /\ \A k \in 1 .. (i - 1) : windows[w].sent[k].answer # "none"
       /\ UNCHANGED vars
       /\ \/ /\ ~Succeeds(request.kind)
             /\ Answer("error", 0)
             /\ UNCHANGED <<drafts, draftTerms, shownAt>>
          \/ /\ Succeeds(request.kind)
             /\ shownAt' = IF request.kind \in {"save", "save_and_submit", "submit"}
                             THEN request.terms ELSE shownAt
             /\ \/ /\ request.kind \in {"save", "save_and_submit"}
                   /\ StoreTerms(request.terms)
                   /\ Answer("done", Latest(EditedRoom)'.version)
                \/ /\ request.kind \in {"submit", "submit_saved"}
                   /\ SubmitForReview(EditedRoom)
                   /\ Answer("done", 0)
                   /\ UNCHANGED draftTerms
                \/ /\ request.kind = "discard"
                   /\ IF HasDraft(EditedRoom) THEN DiscardDraft(EditedRoom)
                                              ELSE UNCHANGED drafts
                   /\ Answer("done", 0)
                   /\ UNCHANGED draftTerms
-----------------------------------------------------------------------------
(* The hook. *)

\* The effect runs when the version changes, and stops at unsaved edits.
Rehydrated(window, data) ==
  IF \/ data.version = window.data.version
     \/ window.terms # window.pristineTerms
    THEN [window EXCEPT !.data = data]
    ELSE [window EXCEPT !.data = data, !.terms = data.terms, !.pristineTerms = data.terms]

Deliver(w) ==
  /\ windows[w].data # GetCockpit
  /\ Update(w, Rehydrated(windows[w], GetCockpit))
  /\ ServerRests /\ UNCHANGED shownAt

\* Mutant: what is on the screen by then is taken for stored.
Stored_OnScreen(window, request) ==
  [window EXCEPT !.pristineTerms = window.terms]

\* The call stores the terms it was made with, whatever was typed since.
Stored(window, request) == [window EXCEPT !.pristineTerms = request.terms]

Resolve(w) ==
  LET window == [windows[w] EXCEPT !.sent = Tail(@)]
      request == Head(windows[w].sent)
      done == request.answer = "done"
  IN /\ windows[w].sent # <<>>
     /\ request.answer # "none"
     /\ window.data.version >= request.version
     /\ Update(w,
          CASE request.kind = "save" ->
                 [(IF done THEN Stored(window, request) ELSE window) EXCEPT !.saving = FALSE]
            [] request.kind = "save_and_submit" ->
                 IF done THEN Send(Stored(window, request), "submit_saved", request.terms)
                         ELSE [window EXCEPT !.submitting = FALSE]
            [] request.kind \in {"submit", "submit_saved"} -> [window EXCEPT !.submitting = FALSE]
            [] request.kind = "discard" ->
                 IF done THEN [window EXCEPT !.saving = FALSE, !.terms = request.terms,
                                             !.pristineTerms = request.terms]
                         ELSE [window EXCEPT !.saving = FALSE])
     /\ ServerRests /\ UNCHANGED shownAt
-----------------------------------------------------------------------------
EditorInit ==
  /\ CockpitInit
  /\ draftTerms = [r \in Rooms |-> <<>>]
  /\ windows = [w \in Windows |->
       [terms |-> Blank, pristineTerms |-> Blank, data |-> GetCockpit,
        saving |-> FALSE, submitting |-> FALSE, sent |-> <<>>]]
  /\ shownAt = Blank

BrokerDecides ==
  /\ \E i \in DOMAIN drafts[EditedRoom], decision \in {"approved", "rejected"} :
       RecordBrokerDecision(EditedRoom, i, decision)
  /\ UNCHANGED <<vars, draftTerms, windows, shownAt>>

WindowStep(w) ==
  \/ \E t \in Terms : SetTerms(w, t)
  \/ Reset(w) \/ PressSave(w) \/ PressSubmit(w) \/ PressDiscard(w)
  \/ Serve(w) \/ Deliver(w) \/ Resolve(w)

EditorNext ==
  \/ \E w \in Windows : WindowStep(w)
  \/ BrokerDecides
  \/ Next /\ UNCHANGED <<drafts, draftTerms, windows, shownAt>>

EditorSpec == EditorInit /\ [][EditorNext]_editorVars
-----------------------------------------------------------------------------
EditorTypeOK ==
  /\ CockpitTypeOK
  /\ \A r \in Rooms : draftTerms[r] \in [DOMAIN drafts[r] -> Shown]
  /\ windows \in [Windows -> Window]

\* A window without unsaved edits and without calls under way, which has
\* got the newest snapshot, shows the terms that are stored.
CleanMeansStored ==
  \A w \in Windows :
    (/\ ~Dirty(w)
     /\ windows[w].sent = <<>>
     /\ windows[w].data = GetCockpit) => windows[w].terms = StoredTerms

\* What the broker reviews is what the buyer had on the screen when the
\* button was pressed that last had an effect, not what was typed since.
ReviewedAsShown ==
  (/\ HasDraft(EditedRoom)
   /\ Latest(EditedRoom).status = "pending_review") => StoredTerms = shownAt

(***************************************************************************)
(* For the buyer's only window: the editor never takes unsaved terms for   *)
(* saved, and never shows stale ones as the stored draft, although edits,  *)
(* snapshots and answers overlap.                                          *)
(***************************************************************************)
EditorTruthful ==
  /\ EditorTypeOK
  /\ Cardinality(Windows) = 1 => CleanMeansStored /\ ReviewedAsShown
=============================================================================
