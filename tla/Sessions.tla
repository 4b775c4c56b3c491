------------------------------ MODULE Sessions ------------------------------
(***************************************************************************)
(* The daemon's sessions on one project: who opens it, who watches it, and *)
(* who runs the indexer on it, and when (crates/zrag-daemon: state.rs,     *)
(* watch.rs, listener.rs, handlers/).                                      *)
(*                                                                         *)
(* Every connection is served by a tokio task that takes one request after *)
(* the other, and every batch of file events spawns a task of its own.     *)
(* They meet at the registry of loaded projects, at the list of watched    *)
(* projects with the debouncer behind it, and, per LoadedProject, at the   *)
(* indexing lock (tokio's Mutex: first come, first served), the flag       *)
(* reindex_scheduled and the flag cancel.  Each step here ends at an await *)
(* or at a lock.  A run of the indexer is its start, where it reads the    *)
(* tree, and its end; module Indexer has what lies between.                *)
(*                                                                         *)
(* The tree is the number of edits it has seen; the index is the number of *)
(* them it is known to include.                                            *)
(***************************************************************************)
EXTENDS Integers, Sequences, FiniteSets

CONSTANTS
    Clients,        \* connections to the daemon
    Autos,          \* tasks of schedule_reindex
    Objects,        \* LoadedProject values; one nobody refers to can be made anew
    NoProject,      \* no LoadedProject
    Requests,       \* kinds of request sent: "index", "query", "remove"
    MaxEdits,       \* bound: edits of the tree
    MaxCancels,     \* bound: CancelIndex requests
    MaxFailures     \* bound: runs and watches that fail, connections that break

ASSUME SessionsAssumption ==
    /\ Clients \cap Autos = {}
    /\ NoProject \notin Objects
    /\ Requests \subseteq {"index", "query", "remove"}
    /\ MaxEdits \in Nat /\ MaxCancels \in Nat /\ MaxFailures \in Nat

VARIABLES
    disk,           \* edits of the tree so far
    indexed,        \* edits the tables are known to include
    row,            \* the project has its row in table "projects"
    registry,       \* the LoadedProject the registry holds
    lock,           \* per object: holder and waiters of indexing_lock
    scheduled,      \* per object: reindex_scheduled
    cancel,         \* per object: cancel
    watched,        \* entries of the project in WatchManager.watched
    debouncing,     \* the debouncer has a watch on the root
    event,          \* a debounced batch waits in the event loop's channel
    pc,             \* per task: its next step
    request,        \* per connection: the request it serves
    obj,            \* per task: the LoadedProject it works on
    seen,           \* per task: edits its run has read
    owed,           \* edits the watcher has announced
    walked,         \* edits the latest run to start has read
    cancels, failures

Tasks == Clients \cup Autos

tables == <<indexed, row>>
flags == <<scheduled, cancel>>
watcher == <<watched, debouncing>>
tasks == <<pc, request, obj, seen>>
ledger == <<owed, walked>>
environment == <<cancels, failures>>
vars == <<disk, tables, registry, lock, flags, watcher, event, tasks, ledger,
          environment>>

Init ==
    /\ disk = 1 /\ indexed = 0 /\ row = FALSE
    /\ registry = NoProject
    /\ lock = [o \in Objects |-> <<>>]
    /\ scheduled = [o \in Objects |-> FALSE]
    /\ cancel = [o \in Objects |-> FALSE]
    /\ watched = 0 /\ debouncing = FALSE /\ event = FALSE
    /\ pc = [t \in Tasks |-> "idle"]
    /\ request = [c \in Clients |-> "none"]
    /\ obj = [t \in Tasks |-> NoProject]
    /\ seen = [t \in Tasks |-> 0]
    /\ owed = 0 /\ walked = 0
    /\ cancels = 0 /\ failures = 0

\* the next step of a task and the project it refers to; the locals of a
\* request or of a watcher's task go with it
Move(t, step, o) ==
    LET over == step \in {"idle", "closed"}
    IN  /\ pc' = [pc EXCEPT ![t] = step]
        /\ obj' = [obj EXCEPT ![t] = IF over THEN NoProject ELSE o]
        /\ seen' = [seen EXCEPT ![t] = IF over THEN 0 ELSE @]
        /\ request' = [c \in Clients |-> IF c = t /\ over THEN "none"
                                                        ELSE request[c]]

Goto(t, step) == Move(t, step, obj[t])

\* no Arc of it is left
Dropped == {o \in Objects : registry # o /\ \A t \in Tasks : obj[t] # o}

\* the guard of indexing_lock is dropped: the next waiter, if any, holds it
Unlock(t) == lock' = [lock EXCEPT ![obj[t]] = Tail(@)]

Holds(t) == lock[obj[t]] # <<>> /\ Head(lock[obj[t]]) = t

-----------------------------------------------------------------------------
(* A request opens its project: DaemonState::load_or_open *)

Request(c, kind) ==
    /\ pc[c] = "idle"
    /\ pc' = [pc EXCEPT ![c] = IF kind = "remove" THEN "findRow" ELSE "open"]
    /\ request' = [request EXCEPT ![c] = kind]
    /\ UNCHANGED <<disk, tables, registry, lock, flags, watcher, event, obj,
                   seen, ledger, environment>>

\* what is left of the request once the project is at hand
AfterOpen(c) == IF request[c] = "index" THEN "lock" ELSE "idle"

FindLoaded(c) ==
    /\ pc[c] = "open"
    /\ Move(c, IF registry = NoProject THEN "insert" ELSE AfterOpen(c), registry)
    /\ UNCHANGED <<disk, tables, registry, lock, flags, watcher, event, ledger,
                   environment>>

\* the write lock is taken anew: nobody looks whether another task was faster
InsertLoaded(c) ==
    /\ pc[c] = "insert"
    /\ \E o \in Dropped :
          /\ registry' = o
          /\ scheduled' = [scheduled EXCEPT ![o] = FALSE]
          /\ cancel' = [cancel EXCEPT ![o] = FALSE]
          /\ Move(c, "watch", o)
    /\ UNCHANGED <<disk, tables, lock, watcher, event, ledger, environment>>

-----------------------------------------------------------------------------
(* WatchManager::watch and unwatch *)

\* watch returns: a request that has not run goes on to the lock or ends, one
\* that has run is over and drops its guard
Return(c) ==
    IF Holds(c) THEN Goto(c, "idle") /\ Unlock(c)
                ELSE Goto(c, AfterOpen(c)) /\ UNCHANGED lock

AlreadyWatched(c) ==
    /\ pc[c] = "watch"
    /\ watched > 0
    /\ Return(c)
    /\ UNCHANGED <<disk, tables, registry, flags, watcher, event, ledger,
                   environment>>

NotWatched(c) ==
    /\ pc[c] = "watch"
    /\ watched = 0
    /\ Goto(c, "debounce")
    /\ UNCHANGED <<disk, tables, registry, lock, flags, watcher, event, ledger,
                   environment>>

Debounce(c) ==
    /\ pc[c] = "debounce"
    /\ debouncing' = TRUE
    /\ Goto(c, "push")
    /\ UNCHANGED <<disk, tables, registry, lock, flags, watched, event, ledger,
                   environment>>

\* `debouncer.watch(..)?` fails: both callers drop the error, and the project
\* stays loaded and unwatched
DebounceFails(c) ==
    /\ pc[c] = "debounce"
    /\ failures < MaxFailures
    /\ failures' = failures + 1
    /\ Return(c)
    /\ UNCHANGED <<disk, tables, registry, flags, watcher, event, ledger, cancels>>

PushWatched(c) ==
    /\ pc[c] = "push"
    /\ watched' = watched + 1
    /\ Return(c)
    /\ UNCHANGED <<disk, tables, registry, flags, debouncing, event, ledger,
                   environment>>

-----------------------------------------------------------------------------
(* Index requests and runs *)

\* `indexing_lock.lock().await`
Enqueue(t) ==
    /\ pc[t] = "lock"
    /\ lock' = [lock EXCEPT ![obj[t]] = Append(@, t)]
    /\ Goto(t, "queued")
    /\ UNCHANGED <<disk, tables, registry, flags, watcher, event, ledger,
                   environment>>

\* Slip: the flag stays set
GrantedWithoutReset(t) ==
    /\ pc[t] = "queued"
    /\ Holds(t)
    /\ Goto(t, "start")
    /\ UNCHANGED <<disk, tables, registry, lock, flags, watcher, event, ledger,
                   environment>>

\* the lock is ours; a task of the watcher makes way for the next one
Granted(t) ==
    /\ pc[t] = "queued"
    /\ Holds(t)
    /\ Goto(t, "start")
    /\ scheduled' = IF t \in Autos THEN [scheduled EXCEPT ![obj[t]] = FALSE]
                                   ELSE scheduled
    /\ UNCHANGED <<disk, tables, registry, lock, cancel, watcher, event, ledger,
                   environment>>

\* the cancel flag is cleared, and index_project walks the tree
StartRun(t) ==
    /\ pc[t] = "start"
    /\ cancel' = [cancel EXCEPT ![obj[t]] = FALSE]
    /\ pc' = [pc EXCEPT ![t] = "run"]
    /\ seen' = [seen EXCEPT ![t] = disk]
    /\ walked' = disk
    /\ UNCHANGED <<disk, tables, registry, lock, scheduled, watcher, event,
                   request, obj, owed, environment>>

\* the run is Ok: a client makes sure that the project is watched, still
\* under the lock; an auto-reindex is over
RunOk(t) ==
    IF t \in Clients THEN Goto(t, "watch") /\ UNCHANGED lock
                     ELSE Goto(t, "idle") /\ Unlock(t)

Publish(t) ==
    /\ pc[t] = "run"
    /\ indexed' = seen[t]
    /\ row' = TRUE
    /\ RunOk(t)
    /\ UNCHANGED <<disk, registry, flags, watcher, event, ledger, environment>>

\* the embed loop saw the cancel flag: some files wait for the next run
PauseRun(t) ==
    /\ pc[t] = "run"
    /\ cancel[obj[t]]
    /\ row' = TRUE
    /\ RunOk(t)
    /\ UNCHANGED <<disk, indexed, registry, flags, watcher, event, ledger,
                   environment>>

\* index_project returned an error: it is reported, or logged for the watcher
FailRun(t) ==
    /\ pc[t] = "run"
    /\ failures < MaxFailures
    /\ failures' = failures + 1
    /\ Goto(t, "idle")
    /\ Unlock(t)
    /\ UNCHANGED <<disk, tables, registry, flags, watcher, event, ledger,
                   cancels>>

\* Slip: the guard of the lock is not dropped
AbortRunLocked(c) ==
    /\ pc[c] = "run"
    /\ failures < MaxFailures
    /\ failures' = failures + 1
    /\ Goto(c, "orphan")
    /\ UNCHANGED <<disk, tables, registry, lock, flags, watcher, event, ledger,
                   cancels>>

\* a progress frame cannot be written: abort() asks the run's task to stop,
\* and the handler returns at once, with the lock and the connection
AbortRun(c) ==
    /\ pc[c] = "run"
    /\ failures < MaxFailures
    /\ failures' = failures + 1
    /\ Goto(c, "orphan")
    /\ Unlock(c)
    /\ UNCHANGED <<disk, tables, registry, flags, watcher, event, ledger,
                   cancels>>

\* the aborted task stops at an await, unless its last poll completes it
OrphanStops(c) ==
    /\ pc[c] = "orphan"
    /\ Goto(c, "closed")
    /\ \/ indexed' = seen[c] /\ row' = TRUE
       \/ UNCHANGED tables
    /\ UNCHANGED <<disk, registry, lock, flags, watcher, event, ledger,
                   environment>>

\* CancelIndex reads the registry and stores the flag under its read guard
CancelIndex(c) ==
    /\ pc[c] = "idle"
    /\ cancels < MaxCancels
    /\ registry # NoProject
    /\ cancels' = cancels + 1
    /\ cancel' = [cancel EXCEPT ![registry] = TRUE]
    /\ UNCHANGED <<disk, tables, registry, lock, scheduled, watcher, event,
                   tasks, ledger, failures>>

-----------------------------------------------------------------------------
(* RemoveProject *)

FindRow(c) ==
    /\ pc[c] = "findRow"
    /\ Goto(c, IF row THEN "unregister" ELSE "idle")
    /\ UNCHANGED <<disk, tables, registry, lock, flags, watcher, event, ledger,
                   environment>>

Unregister(c) ==
    /\ pc[c] = "unregister"
    /\ registry' = NoProject
    /\ Goto(c, "rmdir")
    /\ UNCHANGED <<disk, tables, lock, flags, watcher, event, ledger,
                   environment>>

\* remove_dir_all of the project's tables; an error leaves the watch behind
RemoveDir(c) ==
    /\ pc[c] = "rmdir"
    /\ \/ /\ indexed' = 0 /\ row' = FALSE
          /\ Goto(c, "unlist")
          /\ UNCHANGED failures
       \/ /\ failures < MaxFailures
          /\ failures' = failures + 1
          /\ Goto(c, "idle")
          /\ UNCHANGED tables
    /\ UNCHANGED <<disk, registry, lock, flags, watcher, event, ledger, cancels>>

\* unwatch takes one entry off the list
Unlist(c) ==
    /\ pc[c] = "unlist"
    /\ watched' = IF watched > 0 THEN watched - 1 ELSE 0
    /\ Goto(c, IF watched > 0 THEN "undebounce" ELSE "idle")
    /\ UNCHANGED <<disk, tables, registry, lock, flags, debouncing, event,
                   ledger, environment>>

Undebounce(c) ==
    /\ pc[c] = "undebounce"
    /\ debouncing' = FALSE
    /\ Goto(c, "idle")
    /\ UNCHANGED <<disk, tables, registry, lock, flags, watched, event, ledger,
                   environment>>

-----------------------------------------------------------------------------
(* The watcher: event_loop and schedule_reindex *)

Edit ==
    /\ disk <= MaxEdits
    /\ disk' = disk + 1
    /\ event' = (event \/ debouncing)
    /\ UNCHANGED <<tables, registry, lock, flags, watcher, tasks, ledger,
                   environment>>

\* a batch that touches no watched project is dropped
IgnoreEvent ==
    /\ event
    /\ watched = 0
    /\ event' = FALSE
    /\ UNCHANGED <<disk, tables, registry, lock, flags, watcher, tasks, ledger,
                   environment>>

SpawnReindex(a) ==
    /\ event
    /\ watched > 0
    /\ pc[a] = "idle"
    /\ event' = FALSE
    /\ owed' = disk
    /\ Goto(a, "lookup")
    /\ UNCHANGED <<disk, tables, registry, lock, flags, watcher, walked,
                   environment>>

\* Slip: a project that is no longer in the registry goes unnoticed
LookupUnchecked(a) ==
    /\ pc[a] = "lookup"
    /\ Move(a, "swap", registry)
    /\ UNCHANGED <<disk, tables, registry, lock, flags, watcher, event, ledger,
                   environment>>

\* a project that is no longer in the registry is not indexed
LookupProject(a) ==
    /\ pc[a] = "lookup"
    /\ Move(a, IF registry = NoProject THEN "idle" ELSE "swap", registry)
    /\ owed' = IF registry = NoProject THEN walked ELSE owed
    /\ UNCHANGED <<disk, tables, registry, lock, flags, watcher, event, walked,
                   environment>>

\* Slip: the result of swap is not looked at
SwapUnchecked(a) ==
    /\ pc[a] = "swap"
    /\ Goto(a, "lock")
    /\ scheduled' = [scheduled EXCEPT ![obj[a]] = TRUE]
    /\ UNCHANGED <<disk, tables, registry, lock, cancel, watcher, event, ledger,
                   environment>>

\* `reindex_scheduled.swap(true)`: a task that finds it set leaves its event
\* to the task that set it
SwapScheduled(a) ==
    /\ pc[a] = "swap"
    /\ Goto(a, IF scheduled[obj[a]] THEN "idle" ELSE "lock")
    /\ scheduled' = [scheduled EXCEPT ![obj[a]] = TRUE]
    /\ UNCHANGED <<disk, tables, registry, lock, cancel, watcher, event, ledger,
                   environment>>

-----------------------------------------------------------------------------

ClientStep(c) ==
    \/ FindLoaded(c) \/ InsertLoaded(c)
    \/ AlreadyWatched(c) \/ NotWatched(c) \/ Debounce(c) \/ PushWatched(c)
    \/ FindRow(c) \/ Unregister(c) \/ RemoveDir(c) \/ Unlist(c) \/ Undebounce(c)
    \/ OrphanStops(c)

\* a step of the indexing path, shared by requests and the watcher's tasks
IndexStep(t) ==
    Enqueue(t) \/ Granted(t) \/ StartRun(t) \/ Publish(t) \/ PauseRun(t)

AutoStep(a) == LookupProject(a) \/ SwapScheduled(a)

EventStep == IgnoreEvent \/ \E a \in Autos : SpawnReindex(a)

Next ==
    \/ \E c \in Clients :
          \/ \E kind \in Requests : Request(c, kind)
          \/ ClientStep(c) \/ DebounceFails(c) \/ AbortRun(c) \/ CancelIndex(c)
    \/ \E t \in Tasks : IndexStep(t) \/ FailRun(t)
    \/ \E a \in Autos : AutoStep(a)
    \/ EventStep
    \/ Edit

Spec == Init /\ [][Next]_vars

\* tokio polls every ready task, its mutex serves its waiters in turn, and a
\* run that neither fails nor is aborted comes to its end
Fairness ==
    /\ \A c \in Clients : WF_vars(ClientStep(c))
    /\ \A t \in Tasks : WF_vars(IndexStep(t))
    /\ \A a \in Autos : WF_vars(AutoStep(a))
    /\ WF_vars(EventStep)

FairSpec == Spec /\ Fairness

-----------------------------------------------------------------------------
(* Properties *)

Steps == {"idle", "open", "insert", "watch", "debounce", "push", "lock",
          "queued", "start", "run", "orphan", "closed", "findRow",
          "unregister", "rmdir", "unlist", "undebounce", "lookup", "swap"}

\* Every variable has a value of its kind, and whoever works on a project has
\* a LoadedProject to work on.
TypeOK ==
    /\ disk \in 1..(MaxEdits + 1)
    /\ indexed \in 0..disk /\ row \in BOOLEAN
    /\ registry \in Objects \cup {NoProject}
    /\ lock \in [Objects -> Seq(Tasks)]
    /\ scheduled \in [Objects -> BOOLEAN]
    /\ cancel \in [Objects -> BOOLEAN]
    /\ watched \in Nat /\ debouncing \in BOOLEAN /\ event \in BOOLEAN
    /\ pc \in [Tasks -> Steps]
    /\ request \in [Clients -> Requests \cup {"none"}]
    /\ obj \in [Tasks -> Objects \cup {NoProject}]
    /\ seen \in [Tasks -> 0..disk]
    /\ owed \in 0..disk /\ walked \in 0..disk
    /\ cancels \in 0..MaxCancels /\ failures \in 0..MaxFailures
    /\ \A t \in Tasks :
          pc[t] \in {"swap", "lock", "queued", "start", "run"} =>
              obj[t] # NoProject

\* the tasks of the watcher that have yet to start the run of their event
Waiting == {a \in Autos : pc[a] \in {"lookup", "swap", "lock", "queued", "start"}}

\* watch.rs:125-127: coalescing loses no edit.  While an edit the watcher has
\* announced is newer than what every run has read, a task is on its way to a
\* run that has not read the tree yet, whichever LoadedProject it works on.
NoEventLost == owed > walked => Waiting # {}

\* watch.rs:125-127: events that arrive while a run is queued do not stack up:
\* one task at most waits for the indexing lock of a LoadedProject.
OneTrailingRun ==
    \A a, b \in Autos :
        /\ pc[a] \in {"lock", "queued"} /\ pc[b] \in {"lock", "queued"}
        /\ obj[a] = obj[b]
        => a = b

\* Every request and every task of the watcher comes to its end: no return path
\* keeps the indexing lock from the tasks behind it.
Ends(t) == (pc[t] # "idle") ~> (pc[t] \in {"idle", "closed"})
Answered == \A t \in Tasks : Ends(t)

\* README.md:213: "File watcher detects changes and incrementally re-indexes":
\* once the project is indexed and the editing ends, the index has every edit,
\* unless a run failed or was cancelled (nothing tries it again), or the watch could
\* not be started (nothing tries that before the end of the next run on request).
EditsGetIndexed == row ~> (indexed = disk \/ failures > 0 \/ cancels > 0)

\* watch.rs:125: the reindex of the watcher is single-flight.
SingleFlight ==
    \A a, b \in Autos : pc[a] = "run" /\ pc[b] = "run" => a = b

=============================================================================
