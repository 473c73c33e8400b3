------------------------------ MODULE AdminDesk ------------------------------
(***************************************************************************)
(* The desk of brokers and admins: review queues, message templates,       *)
(* settings, internal notes and manual overrides, each with its audit      *)
(* (convex/opsQueues.ts, convex/communicationTemplates.ts,                 *)
(* convex/settings.ts, convex/internalNotes.ts,                            *)
(* convex/manualOverrides.ts).                                             *)
(* The five tables share the staff and nothing else; each operation names  *)
(* the table it writes, and a behaviour works on one of them.              *)
(***************************************************************************)
EXTENDS Naturals, Sequences, FiniteSets, FiniteSetsExt

CONSTANTS Brokers, Admins,  \* the staff
          Items,            \* opsReviewQueueItems; whoever opens one is not in the code
          Versions,         \* versions of the one template of a channel
          SettingValues,    \* values its catalog entry allows
          SettingRole,      \* role that may write the setting
          MaxNotes, MaxAudit \* bounds

ASSUME DeskAssumption ==
  /\ Brokers \cap Admins = {} /\ "nobody" \notin Brokers \cup Admins
  /\ SettingRole \in {"broker", "admin"}

VARIABLES
  desk,        \* the table at work
  items,       \* status, assignee and priority of the queue items
  templates,   \* communicationTemplates: version -> isActive
  setting,     \* settingsEntries of one key, "default" while there is no row
  notes,       \* internalNotes: visibility, author, parentNoteId (0: none)
  overrides,   \* manualOverrideRecords: who reversed it, or "nobody"
  audit        \* auditLog and settingsAuditLog, newest last

deskVars == <<desk, items, templates, setting, notes, overrides, audit>>

Staff == Brokers \cup Admins
Closed == {"resolved", "dismissed"}
Visibilities == {"internal", "admin_only"}  \* broker_only is read like internal

DeskRests(table, v) == desk \in {"none", table} /\ desk' = table /\ UNCHANGED v
WriteAudit(by, action, id, before, after) ==
  /\ Len(audit) < MaxAudit
  /\ audit' = Append(audit, [by |-> by, action |-> action, id |-> id,
                             before |-> before, after |-> after])
-----------------------------------------------------------------------------
(* Queues.  An item in review may be claimed again, by anybody. *)

QueueOthers == DeskRests("queues", <<templates, setting, notes, overrides>>)

ClaimForReview(by, i) ==
  /\ items[i].status \notin Closed
  /\ items' = [items EXCEPT ![i].status = "in_review", ![i].assignee = by]
  /\ WriteAudit(by, "claimed", i, items[i].assignee, by) /\ QueueOthers

CloseItem(by, i, status) ==  \* resolveItem, dismissItem
  /\ items[i].status \notin Closed
  /\ items' = [items EXCEPT ![i].status = status]
  /\ WriteAudit(by, status, i, items[i].status, status) /\ QueueOthers

\* Nothing looks at the status: the priority of a closed item can change.
UpdatePriority(by, i) ==
  LET other == IF items[i].priority = "urgent" THEN "normal" ELSE "urgent"
  IN /\ items' = [items EXCEPT ![i].priority = other]
     /\ WriteAudit(by, "priority", i, items[i].priority, other) /\ QueueOthers
-----------------------------------------------------------------------------
(* Templates of one key and channel. *)

ActiveVersions == {v \in DOMAIN templates : templates[v]}
TemplateOthers == DeskRests("templates", <<items, setting, notes, overrides>>)

\* A version that exists is refused; the placeholders were compared before.
CreateVersion(by, v) ==
  /\ v \notin DOMAIN templates
  /\ templates' = [u \in DOMAIN templates \cup {v} |-> u # v /\ templates[u]]
  /\ WriteAudit(by, "created", v, 0, v) /\ TemplateOthers

\* The sibling stays active.
ActivateVersion_KeepsSibling(by, v) ==
  /\ v \in DOMAIN templates
  /\ templates' = [templates EXCEPT ![v] = TRUE]
  /\ WriteAudit(by, "activated", v, 0, v) /\ TemplateOthers

\* The sibling that is active is looked up with unique(), which two would break.
ActivateVersion(by, v) ==
  /\ v \in DOMAIN templates /\ Cardinality(ActiveVersions) <= 1
  /\ templates' = [u \in DOMAIN templates |-> u = v]
  /\ WriteAudit(by, "activated", v,
                IF ActiveVersions \ {v} = {} THEN 0 ELSE CHOOSE u \in ActiveVersions : TRUE, v)
  /\ TemplateOthers
-----------------------------------------------------------------------------
(* Settings and overrides. *)

UpsertByKey(by, value) ==
  /\ by \in Admins \/ SettingRole = "broker"
  /\ setting' = value
  /\ WriteAudit(by, "set", "setting", setting, value)
  /\ DeskRests("settings", <<items, templates, notes, overrides>>)

OverrideOthers == DeskRests("overrides", <<items, templates, setting, notes>>)

\* Every entry of the catalog is for admins.
ExecuteOverride(by) ==
  /\ by \in Admins
  /\ overrides' = Append(overrides, "nobody")
  /\ WriteAudit(by, "executed", Len(overrides'), 0, 0) /\ OverrideOthers

ReverseOverride(by, r) ==
  /\ by \in Admins /\ overrides[r] = "nobody"
  /\ overrides' = [overrides EXCEPT ![r] = by]
  /\ WriteAudit(by, "reversed", r, 0, 0) /\ OverrideOthers
-----------------------------------------------------------------------------
(* Notes: an edit is a row of its own, and every row stays. *)

CanRead(who, n) == notes[n].visibility = "internal" \/ who \in Admins
NoteOthers == DeskRests("notes", <<items, templates, setting, overrides>>)

AddNote(by, visibility, parent, action, before) ==
  /\ visibility = "internal" \/ by \in Admins
  /\ Len(notes) < MaxNotes
  /\ notes' = Append(notes, [visibility |-> visibility, author |-> by, parent |-> parent])
  /\ WriteAudit(by, action, Len(notes'), before, visibility) /\ NoteOthers

CreateNote(by, visibility) == AddNote(by, visibility, 0, "note", 0)
EditNote(by, n, visibility) ==
  CanRead(by, n) /\ AddNote(by, visibility, n, "edited", n)

\* Back along the parents while they can be read, then one revision ahead.
WalkBack(who, n) ==
  LET back[m \in 0 .. Len(notes)] ==
        IF m = 0 THEN {} ELSE IF ~CanRead(who, m) THEN {} ELSE {m} \cup back[notes[m].parent]
  IN back[n]
History(who, n) ==
  WalkBack(who, n) \cup {m \in DOMAIN notes : notes[m].parent = n /\ CanRead(who, m)}
-----------------------------------------------------------------------------
DeskInit ==
  /\ desk = "none"
  /\ items = [i \in Items |-> [status |-> "open", assignee |-> "nobody", priority |-> "normal"]]
  /\ templates = [v \in {} |-> FALSE]
  /\ setting = "default" /\ notes = <<>> /\ overrides = <<>> /\ audit = <<>>

DeskNext ==
  \E by \in Staff :
    \/ \E i \in Items : \/ ClaimForReview(by, i) \/ UpdatePriority(by, i)
                         \/ \E status \in Closed : CloseItem(by, i, status)
    \/ \E v \in Versions : CreateVersion(by, v) \/ ActivateVersion(by, v)
    \/ \E value \in SettingValues : UpsertByKey(by, value)
    \/ ExecuteOverride(by)
    \/ \E r \in DOMAIN overrides : ReverseOverride(by, r)
    \/ \E visibility \in Visibilities : \/ CreateNote(by, visibility)
                                        \/ \E n \in DOMAIN notes : EditNote(by, n, visibility)

DeskSpec == DeskInit /\ [][DeskNext]_deskVars
-----------------------------------------------------------------------------
\* The entries about an id, by their places in the audit.
Entries(id, actions) == {k \in DOMAIN audit : audit[k].id = id /\ audit[k].action \in actions}
Earlier(ks, k) == {l \in ks : l < k}
LastAfter(ks, first) == IF ks = {} THEN first ELSE audit[Max(ks)].after
Chained(ks, first) == \A k \in ks : audit[k].before = LastAfter(Earlier(ks, k), first)

\* The audit tells, for an item, through whose hands it went to the one who holds
\* it, that it was closed at most once and never claimed after that, and its
\* priority, which may change later still.
ItemAudited(i) ==
  LET claims == Entries(i, {"claimed"})  moves == Entries(i, {"claimed"} \cup Closed)
      priorities == Entries(i, {"priority"})
  IN /\ Chained(claims, "nobody") /\ items[i].assignee = LastAfter(claims, "nobody")
     /\ Chained(priorities, "normal")
     /\ items[i].priority = LastAfter(priorities, "normal")
     /\ \A k, l \in moves : audit[k].action \in Closed => l <= k
     /\ items[i].status = IF moves = {} THEN "open"
                          ELSE IF audit[Max(moves)].action = "claimed" THEN "in_review"
                          ELSE audit[Max(moves)].action

QueueAudited == desk = "queues" => \A i \in Items : ItemAudited(i)

\* The active version is the one activated last, alone, and each activation names
\* the one it took the place of.
Activations == {k \in DOMAIN audit : audit[k].action = "activated"}
Replaced(v, ks) == IF LastAfter(ks, 0) = v THEN 0 ELSE LastAfter(ks, 0)

TemplatesAudited ==
  desk = "templates" =>
    /\ ActiveVersions = IF Activations = {} THEN {} ELSE {audit[Max(Activations)].id}
    /\ \A k \in Activations : /\ audit[k].after = audit[k].id
                              /\ audit[k].before = Replaced(audit[k].id, Earlier(Activations, k))

\* The history of a setting is one chain from the default to the value in force.
SettingAudited ==
  desk = "settings" =>
    Chained(DOMAIN audit, "default") /\ setting = LastAfter(DOMAIN audit, "default")

\* An override is reversed at most once, after it was made, and the audit says by whom.
OverrideAudited(r) ==
  \E k \in DOMAIN audit :
    /\ Entries(r, {"executed"}) = {k}
    /\ IF overrides[r] = "nobody" THEN Entries(r, {"reversed"}) = {}
       ELSE \E l \in DOMAIN audit : /\ Entries(r, {"reversed"}) = {l} /\ k < l
                                    /\ audit[l].by = overrides[r]

OverridesAudited == desk = "overrides" => \A r \in DOMAIN overrides : OverrideAudited(r)

\* An admin finds every row in the history of some note that nobody revised, and
\* in that history all that the note was made of; a broker's revision is of a
\* note that brokers read.
NotesTraced ==
  desk = "notes" =>
    \A n \in DOMAIN notes :
      /\ \A admin \in Admins :
           /\ notes[n].parent # 0 => History(admin, notes[n].parent) \subseteq
                History(admin, n) \cup {m \in DOMAIN notes : notes[m].parent = notes[n].parent}
           /\ \E leaf \in DOMAIN notes :
                n \in History(admin, leaf) /\ \A m \in DOMAIN notes : notes[m].parent # leaf
      /\ notes[n].author \in Brokers /\ notes[n].parent # 0 =>
           CanRead(notes[n].author, notes[n].parent)

DeskSound == /\ QueueAudited /\ TemplatesAudited /\ SettingAudited
             /\ OverridesAudited /\ NotesTraced
=============================================================================
