------------------------------ MODULE DealClient ------------------------------
(***************************************************************************)
(* The iOS client of a buyer (ios/BuyerCodex): what it keeps of a deal on  *)
(* the disk of the phone, and what its shell shows of the active deal.     *)
(*                                                                         *)
(* The cache (DealCacheCoordinator.swift, DealCacheStore.swift).  Each     *)
(* sign-in mounts a shell with a coordinator of its own; the disk is       *)
(* shared, one file per user.  The coordinator runs on the main actor, and *)
(* gives it away wherever it waits for the disk: warming, saving and       *)
(* clearing are modelled step by step, with everything else in between.    *)
(* They go on when their shell is gone.  The app may be killed at any time.*)
(* It is assumed that a shell is told that the session has ended before it *)
(* is removed from the screen.                                             *)
(*                                                                         *)
(* The shell (DealTrackerShell.swift, DealService.swift,                   *)
(* DealTasksService.swift, DealTimelineService.swift).  The deal service   *)
(* says which deal is active; the shell observes it and loads first the    *)
(* tasks and then the events of that deal, and stores a snapshot of the    *)
(* three when they have settled.  Everything runs on the main actor, which *)
(* is given away while an answer is awaited.  The shell looks at all three *)
(* when it is updated: changes that follow each other before that are      *)
(* observed as one, but an answer about the deals never overtakes the      *)
(* update that shows the load.  Tasks that the shell starts begin in the   *)
(* order it starts them.                                                   *)
(***************************************************************************)
EXTENDS Naturals, SequencesExt

CONSTANTS
  Users,
  NoUser,     \* nobody is signed in
  MaxShells,  \* bound on the shells that are mounted in one run of the app
  MaxOps      \* bound on the operations that are under way at once

ASSUME CacheAssumption == NoUser \notin Users /\ MaxShells \in Nat /\ MaxOps \in Nat

VARIABLES
  session,  \* the user of the stored tokens, or NoUser
  shells,   \* the shells mounted so far, the last one may be on the screen
  disk,     \* per user the cached snapshot: none, usable, or expired
  ops,      \* what was called on the coordinators and has not returned
  exposed   \* history: users whose file was left behind by no fault of the
            \* coordinator: the app was killed, or a file could not be deleted

cacheVars == <<session, shells, disk, ops, exposed>>

\* The user, the mounted shell, currentUserId (set or nil), and the state.
Shell == [user : Users, mounted : BOOLEAN, current : BOOLEAN,
          shown : {"warming", "data", "empty", "cleared"}]

Op == [shell : 1 .. MaxShells, kind : {"warm", "apply", "clear"},
       step : {"write", "wrote", "read", "drop", "found", "missing",
               "delete", "deleted", "undo"}]

UserOf(i) == shells[ops[i].shell].user
Current(i) == shells[ops[i].shell].current

StepTo(i, step) == ops' = [ops EXCEPT ![i].step = step]
Return(i) == ops' = RemoveAt(ops, i)
Show(i, what) == shells' = [shells EXCEPT ![ops[i].shell].shown = what]
Begin(s, kind, step) ==
  /\ Len(ops) < MaxOps
  /\ ops' = Append(ops, [shell |-> s, kind |-> kind, step |-> step])
-----------------------------------------------------------------------------
Mounted == \E s \in DOMAIN shells : shells[s].mounted

\* A user signs in, or the app is launched with a stored session.
SignIn(u) ==
  /\ ~Mounted /\ session \in {u, NoUser} /\ Len(shells) < MaxShells
  /\ session' = u
  /\ shells' = Append(shells, [user |-> u, mounted |-> TRUE, current |-> TRUE,
                               shown |-> "warming"])
  /\ Begin(Len(shells) + 1, "warm", "read")
  /\ UNCHANGED <<disk, exposed>>

\* Mutant: the user id is kept while the file is deleted.
SignOut_KeepsUser ==
  \E s \in DOMAIN shells :
    /\ shells[s].mounted
    /\ session' = NoUser
    /\ shells' = [shells EXCEPT ![s].mounted = FALSE]
    /\ Begin(s, "clear", "delete")
    /\ UNCHANGED <<disk, exposed>>

\* The buyer signs out, or the session expires.
SignOut ==
  \E s \in DOMAIN shells :
    /\ shells[s].mounted
    /\ session' = NoUser
    /\ shells' = [shells EXCEPT ![s].mounted = FALSE, ![s].current = FALSE]
    /\ Begin(s, "clear", "delete")
    /\ UNCHANGED <<disk, exposed>>

\* The services have settled: applyLiveSnapshot, which returns at once when
\* the user is not the current one.
ApplyLiveSnapshot(s) ==
  /\ shells[s].current
  /\ Begin(s, "apply", "write")
  /\ UNCHANGED <<session, shells, disk, exposed>>

\* store.saveSnapshot.  When it fails nothing else is done.
Write(i) ==
  /\ ops[i].step = "write"
  /\ \/ disk' = [disk EXCEPT ![UserOf(i)] = "usable"] /\ StepTo(i, "wrote")
     \/ UNCHANGED disk /\ Return(i)
  /\ UNCHANGED <<session, shells, exposed>>

Recheck(i) ==
  /\ ops[i].step = "wrote"
  /\ StepTo(i, IF Current(i) THEN "read" ELSE "undo")
  /\ UNCHANGED <<session, shells, disk, exposed>>

\* store.loadSnapshot.  A file that has expired, or has another shape, is
\* deleted after it was read.
Read(i) ==
  /\ ops[i].step = "read"
  /\ StepTo(i, CASE disk[UserOf(i)] = "none" -> "missing"
                 [] disk[UserOf(i)] = "usable" -> "found"
                 [] disk[UserOf(i)] = "expired" -> "drop")
  /\ UNCHANGED <<session, shells, disk, exposed>>

\* The file cannot be read: nothing is warmed, nor shown as synchronised.
ReadFails(i) ==
  /\ ops[i].step = "read"
  /\ IF ops[i].kind = "warm" THEN StepTo(i, "missing") ELSE Return(i)
  /\ UNCHANGED <<session, shells, disk, exposed>>

DeleteFile(i) ==
  /\ disk' = [disk EXCEPT ![UserOf(i)] = "none"]
  /\ exposed' = exposed \ {UserOf(i)}

Drop(i) ==
  /\ ops[i].step = "drop"
  /\ DeleteFile(i) \/ UNCHANGED <<disk, exposed>>
  /\ StepTo(i, "missing")
  /\ UNCHANGED <<session, shells>>

WarmEnds(i) ==
  /\ ops[i].kind = "warm" /\ ops[i].step \in {"found", "missing"}
  /\ IF Current(i) THEN Show(i, IF ops[i].step = "found" THEN "data" ELSE "empty")
                   ELSE UNCHANGED shells
  /\ Return(i)
  /\ UNCHANGED <<session, disk, exposed>>

\* A snapshot that has gone in the meantime is shown as empty, whoever is
\* signed in.
ApplyEnds(i) ==
  /\ ops[i].kind = "apply" /\ ops[i].step \in {"found", "missing"}
  /\ \/ ops[i].step = "found" /\ Current(i) /\ Show(i, "data") /\ Return(i)
     \/ ops[i].step = "found" /\ ~Current(i) /\ UNCHANGED shells /\ StepTo(i, "undo")
     \/ ops[i].step = "missing" /\ Show(i, "empty") /\ Return(i)
  /\ UNCHANGED <<session, disk, exposed>>

\* store.clear, in a sign-out or after a save that came too late.  Whether it
\* worked is not looked at.
Delete(i) ==
  /\ ops[i].step \in {"delete", "undo"}
  /\ \/ DeleteFile(i)
     \/ exposed' = exposed \cup {UserOf(i)} /\ UNCHANGED disk
  /\ IF ops[i].step = "delete" THEN StepTo(i, "deleted") ELSE Return(i)
  /\ UNCHANGED <<session, shells>>

ClearEnds(i) ==
  /\ ops[i].step = "deleted"
  /\ Show(i, "cleared") /\ Return(i)
  /\ UNCHANGED <<session, disk, exposed>>

\* A snapshot ages, or an update of the app changes its shape.
Age(u) ==
  /\ disk[u] = "usable"
  /\ disk' = [disk EXCEPT ![u] = "expired"]
  /\ UNCHANGED <<session, shells, ops, exposed>>

Left == {u \in Users : u # session /\ disk[u] # "none"}

\* The app is killed; what was under way is lost.
Kill ==
  /\ shells' = <<>> /\ ops' = <<>>
  /\ exposed' = exposed \cup Left
  /\ UNCHANGED <<session, disk>>

\* A launch finds that the stored session is no longer valid.  There is no
\* shell that could clear anything.
SessionLost ==
  /\ ~Mounted /\ session # NoUser
  /\ session' = NoUser
  /\ exposed' = exposed \cup {session}
  /\ UNCHANGED <<shells, disk, ops>>
-----------------------------------------------------------------------------
CacheInit ==
  /\ session = NoUser
  /\ shells = <<>> /\ ops = <<>>
  /\ disk = [u \in Users |-> "none"]
  /\ exposed = {}

Continue(i) ==
  \/ Write(i) \/ Recheck(i) \/ Read(i) \/ ReadFails(i) \/ Drop(i)
  \/ WarmEnds(i) \/ ApplyEnds(i) \/ Delete(i) \/ ClearEnds(i)

CacheNext ==
  \/ \E u \in Users : SignIn(u) \/ Age(u)
  \/ SignOut \/ Kill \/ SessionLost
  \/ \E s \in DOMAIN shells : ApplyLiveSnapshot(s)
  \/ \E i \in DOMAIN ops : Continue(i)

CacheSpec == CacheInit /\ [][CacheNext]_cacheVars
-----------------------------------------------------------------------------
CacheTypeOK ==
  /\ session \in Users \cup {NoUser}
  /\ shells \in Seq(Shell) /\ Len(shells) <= MaxShells
  /\ ops \in Seq(Op) /\ Len(ops) <= MaxOps
  /\ disk \in [Users -> {"none", "usable", "expired"}]
  /\ exposed \subseteq Users

AtRest == ops = <<>>

(***************************************************************************)
(* "No prior-session data survives into a different sign-in"               *)
(* (DealTrackerShell.swift): once nothing is under way, no file is left of *)
(* a user who is not signed in, however saves, sign-outs and sign-ins      *)
(* overlapped, and a shell that is gone shows nothing.  Files that a kill, *)
(* a failed deletion or a session lost at launch left behind are the       *)
(* exception.                                                              *)
(***************************************************************************)
CachePrivate ==
  AtRest =>
    /\ Left \subseteq exposed
    /\ \A s \in DOMAIN shells :
         shells[s].shown \in IF shells[s].mounted THEN {"data", "empty"} ELSE {"cleared", "empty"}
-----------------------------------------------------------------------------
(* The shell of one signed-in buyer. *)

CONSTANTS
  Deals,     \* deal rooms of the buyer
  NoDeal,    \* the buyer has no active deal
  MaxCalls   \* bound on the loads of one session

ASSUME TrackerAssumption ==
  /\ NoDeal \notin Deals /\ MaxCalls \in Nat
  /\ {"loading", "error"} \cap (Deals \cup {NoDeal}) = {}

VARIABLES
  deal,      \* DealService.state
  seen,      \* the state the shell has observed last
  tasks,     \* DealTasksService: the deal it loads, its state, whose tasks it has
  timeline,  \* DealTimelineService, likewise
  calls,     \* the loads under way: a sync of both services, or one refresh
  changed,   \* tasks or timeline have changed since the shell was updated
  dirty,     \* a task that persists the snapshot is due
  stored,    \* the last snapshot handed to the cache
  overtaken  \* history: a sync was still loading the tasks of another deal when
             \* the shell observed this one

trackerVars == <<deal, seen, tasks, timeline, calls, changed, dirty, stored,
                 overtaken>>

DealStates == Deals \cup {NoDeal, "loading", "error"}
Service == [current : Deals \cup {NoDeal}, of : Deals \cup {NoDeal},
            state : {"idle", "loading", "stale", "loaded", "empty", "noDeal", "error"}]
Idle == [current |-> NoDeal, of |-> NoDeal, state |-> "idle"]

Call == [kind : {"sync", "refresh"}, at : {"tasks", "events", "end"}, room : Deals]

\* loadTasks and loadEvents up to the request: loaded data stays visible.
Loading(service, room) ==
  [service EXCEPT !.current = room, !.state = IF @ = "loaded" THEN "stale" ELSE "loading"]
HandleNoActiveDeal == [current |-> NoDeal, of |-> NoDeal, state |-> "noDeal"]

\* An answer for a deal that is no longer the current one is dropped.
Answered(service, room) ==
  IF service.current # room THEN {service}
  ELSE {[service EXCEPT !.of = room, !.state = s] : s \in {"loaded", "empty", "error"}}
-----------------------------------------------------------------------------
\* Pull to refresh, or the retry button.
RefreshDeals ==
  /\ deal \in Deals \cup {"error"}
  /\ deal' = "loading"
  /\ UNCHANGED <<seen, tasks, timeline, calls, changed, dirty, stored, overtaken>>

DealsAnswered ==
  /\ deal = "loading" /\ seen = "loading"
  /\ deal' \in DealStates \ {"loading"}
  /\ UNCHANGED <<seen, tasks, timeline, calls, changed, dirty, stored, overtaken>>

Starts(kind, at, room) ==
  /\ Len(calls) < MaxCalls
  /\ calls' = Append(calls, [kind |-> kind, at |-> at, room |-> room])

SyncChildServices ==
  \/ deal \in Deals /\ Starts("sync", "tasks", deal)
     /\ tasks' = Loading(tasks, deal) /\ UNCHANGED timeline
  \/ deal = NoDeal /\ tasks' = HandleNoActiveDeal /\ timeline' = HandleNoActiveDeal
     /\ UNCHANGED calls
  \/ deal \in {"loading", "error"} /\ UNCHANGED <<tasks, timeline, calls>>

\* The shell is updated.
Observe ==
  /\ seen # deal \/ changed
  /\ seen' = deal /\ dirty' = TRUE
  /\ IF seen # deal
       THEN /\ SyncChildServices
            /\ overtaken' = \E i \in DOMAIN calls :
                 /\ calls[i].kind = "sync" /\ calls[i].at = "tasks"
                 /\ calls[i].room # deal
       ELSE UNCHANGED <<tasks, timeline, calls, overtaken>>
  /\ changed' = (tasks' # tasks \/ timeline' # timeline)
  /\ UNCHANGED <<deal, stored>>

\* After the tasks a sync loads the events, of the deal it was started for.
TasksAnswered(i) ==
  /\ calls[i].at = "tasks"
  /\ tasks' \in Answered(tasks, calls[i].room)
  /\ IF calls[i].kind = "sync"
       THEN /\ timeline' = Loading(timeline, calls[i].room)
            /\ calls' = [calls EXCEPT ![i].at = "events"]
       ELSE UNCHANGED timeline /\ calls' = [calls EXCEPT ![i].at = "end"]
  /\ changed' = TRUE
  /\ UNCHANGED <<deal, seen, dirty, stored, overtaken>>

EventsAnswered(i) ==
  /\ calls[i].at = "events"
  /\ timeline' \in Answered(timeline, calls[i].room)
  /\ calls' = [calls EXCEPT ![i].at = "end"]
  /\ changed' = TRUE
  /\ dirty' = (dirty \/ calls[i].kind = "sync")
  /\ UNCHANGED <<deal, seen, tasks, stored, overtaken>>

RefreshTasks ==
  /\ deal \in Deals /\ tasks.current # NoDeal
  /\ Starts("refresh", "tasks", tasks.current)
  /\ tasks' = Loading(tasks, tasks.current)
  /\ changed' = TRUE
  /\ UNCHANGED <<deal, seen, timeline, dirty, stored, overtaken>>

RefreshEvents ==
  /\ deal \in Deals /\ timeline.current # NoDeal
  /\ Starts("refresh", "events", timeline.current)
  /\ timeline' = Loading(timeline, timeline.current)
  /\ changed' = TRUE
  /\ UNCHANGED <<deal, seen, tasks, dirty, stored, overtaken>>

Ready == {"loaded", "empty", "noDeal"}
DataOf(service) == IF service.state = "loaded" THEN service.of ELSE NoDeal
Snapshot == [deal |-> deal, tasks |-> DataOf(tasks), events |-> DataOf(timeline)]
AllReady ==
  deal \in Deals \cup {NoDeal} /\ tasks.state \in Ready /\ timeline.state \in Ready

PersistSnapshotIfReady ==
  /\ dirty /\ dirty' = FALSE
  /\ stored' = IF AllReady THEN Snapshot ELSE stored
  /\ UNCHANGED <<deal, seen, tasks, timeline, calls, changed, overtaken>>
-----------------------------------------------------------------------------
TrackerInit ==
  /\ deal = "loading" /\ seen = "loading"
  /\ tasks = Idle /\ timeline = Idle
  /\ calls = <<>> /\ changed = FALSE /\ dirty = FALSE /\ overtaken = FALSE
  /\ stored = [deal |-> NoDeal, tasks |-> NoDeal, events |-> NoDeal]

TrackerNext ==
  \/ RefreshDeals \/ DealsAnswered \/ Observe
  \/ RefreshTasks \/ RefreshEvents \/ PersistSnapshotIfReady
  \/ \E i \in DOMAIN calls : TasksAnswered(i) \/ EventsAnswered(i)

TrackerSpec == TrackerInit /\ [][TrackerNext]_trackerVars
-----------------------------------------------------------------------------
TrackerTypeOK ==
  /\ {deal, seen} \subseteq DealStates
  /\ {tasks, timeline} \subseteq Service
  /\ calls \in Seq(Call) /\ Len(calls) <= MaxCalls
  /\ {changed, dirty, overtaken} \subseteq BOOLEAN
  /\ DOMAIN stored = {"deal", "tasks", "events"}

Settled ==
  /\ seen = deal /\ deal # "loading" /\ ~changed /\ ~dirty
  /\ \A i \in DOMAIN calls : calls[i].at = "end"

ShowsDeal(service) ==
  IF deal = NoDeal THEN service.state = "noDeal"
                   ELSE service.state \in {"loaded", "empty", "error"} /\ service.of = deal

(***************************************************************************)
(* "Old-deal events don't repopulate the new state": when all answers have *)
(* come, the tabs show the tasks and the events of the deal that is on the *)
(* screen, and so does the snapshot that was stored, however refreshes,    *)
(* answers and changes of the deal overlapped.                             *)
(*                                                                         *)
(* Events are the exception when a sync was overtaken: it loads the events *)
(* of the deal it was started for after the shell has moved on.            *)
(***************************************************************************)
TabsOfCurrentDeal ==
  (Settled /\ deal # "error") =>
    /\ ShowsDeal(tasks)
    /\ ShowsDeal(timeline) \/ overtaken
    /\ AllReady => stored = Snapshot

TrackerTruthful == TrackerTypeOK /\ TabsOfCurrentDeal

\* What the phone keeps is of its buyer, and what it shows of one deal.
PhoneSound == CacheTypeOK /\ CachePrivate /\ TrackerTruthful
=============================================================================
