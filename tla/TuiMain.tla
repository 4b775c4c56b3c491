------------------------------ MODULE TuiMain -------------------------------
(***************************************************************************)
(* The main screen of the terminal UI (apps/zebrarag/src/tui).  One thread *)
(* draws, drains the bounded channel and handles a key.  The daemon        *)
(* monitor and one task per request share the connection to the daemon     *)
(* behind a mutex that they hold from a request to its answer.  Requests   *)
(* carry no identity: a connection yields the answers in order, so a       *)
(* request that was dropped leaves its answer for the next one.            *)
(*                                                                         *)
(* A project is its root; the list is in the order of the roots.           *)
(***************************************************************************)
EXTENDS Naturals, Sequences, FiniteSets, SequencesExt

CONSTANTS
    Roots,          \* projects, as numbers
    None,           \* absent
    Dead,           \* a connection whose daemon is gone
    Capacity,       \* room in the channel (4096 in the code)
    MaxTasks,       \* bound: tasks that the user starts
    MaxEvents       \* bound: exits of the daemon and changes by other clients

MainAssumption ==
    /\ Roots \subseteq Nat /\ {None, Dead} \cap Nat = {}
    /\ Capacity \in Nat \ {0} /\ MaxTasks \in Nat /\ MaxEvents \in Nat

VARIABLES
    view,           \* [screen, modal, root, listed, selected, searching, stopped]
    thread,         \* the UI thread: "free", or "locking" the mutex
    shouldRun,      \* the flag that the monitor reads
    channel,        \* messages to the UI
    holder,         \* who holds the mutex, or None
    client,         \* the connection: None, Dead, 0 in order, 1 behind by answers
    daemon,         \* "up", with its socket, or "down"
    stored,         \* the projects on disk
    monitor,        \* [pc, says, next]; pc "off" when it was aborted
    tasks,          \* [id, what, root, pc, says]
    started, events \* how many of each so far

shared == <<shouldRun, holder, client, daemon>>
vars == <<view, thread, shared, channel, stored, monitor, tasks, started, events>>

Refresher == MaxTasks      \* the list is read again, or being read
Watcher == MaxTasks + 1    \* the monitor, as a holder

List(S) == SetToSortSeq(S, <)
Room == Len(channel) < Capacity
Post(message) == Room /\ channel' = Append(channel, message)
Message(what) == [what |-> what, status |-> None, list |-> <<>>]

Selected == view.selected < Len(view.listed)
SelectedRoot == IF Selected THEN view.listed[view.selected + 1] ELSE None

Fresh == [pc |-> "look", says |-> None, next |-> None]

Init ==
    /\ view = [screen |-> "main", modal |-> "none", root |-> None, listed |-> <<>>,
               selected |-> 0, searching |-> FALSE, stopped |-> FALSE]
    /\ thread = "free" /\ shouldRun = TRUE
    /\ channel = <<>> /\ holder = None /\ client = None
    /\ daemon \in {"up", "down"}
    /\ stored \in SUBSET Roots
    /\ monitor = Fresh
    /\ tasks = {} /\ started = 0 /\ events = 0

-----------------------------------------------------------------------------
(* The shared connection *)

\* ensure_client: connects, which may start the daemon, unless a connection is
\* there already, whatever its state
Connected ==
    /\ holder = None
    /\ IF client # None THEN UNCHANGED <<client, daemon>>
       ELSE client' = 0 /\ daemon' = "up"

ConnectFails == holder = None /\ client = None

InOrder == client = 0

-----------------------------------------------------------------------------
(* The daemon monitor *)

MonitorGoes(pc) == monitor' = [monitor EXCEPT !.pc = pc]
MonitorTells(status, next) == monitor' = [pc |-> "tell", says |-> status, next |-> next]
MonitorKeeps == UNCHANGED <<view, thread, shouldRun, stored, tasks, started, events>>

\* one turn of daemon_monitor: is there a socket, and should there be one
Look ==
    /\ monitor.pc = "look"
    /\ CASE daemon = "up" -> MonitorGoes("ask")
         [] daemon = "down" /\ ~shouldRun -> MonitorTells("stopped", "look")
         [] daemon = "down" /\ shouldRun -> MonitorTells("starting", "start")
    /\ MonitorKeeps /\ UNCHANGED <<channel, holder, client, daemon>>

\* fetch_daemon_status takes the mutex
AskStatus ==
    /\ monitor.pc = "ask" /\ holder = None
    /\ IF client = None
       THEN MonitorTells("starting", "connect") /\ UNCHANGED holder
       ELSE MonitorGoes("asked") /\ holder' = Watcher
    /\ MonitorKeeps /\ UNCHANGED <<channel, client, daemon>>

\* the answer to another request counts as no answer; an error drops the client
StatusAnswered ==
    /\ monitor.pc = "asked"
    /\ holder' = None
    /\ CASE client = Dead -> MonitorTells("error", "list") /\ client' = None
         [] InOrder -> MonitorTells("running", "list") /\ UNCHANGED client
         [] OTHER -> MonitorTells("starting", "connect") /\ UNCHANGED client
    /\ MonitorKeeps /\ UNCHANGED <<channel, daemon>>

Tell ==
    /\ monitor.pc = "tell"
    /\ Post([Message("status") EXCEPT !.status = monitor.says])
    /\ MonitorGoes(monitor.next)
    /\ MonitorKeeps /\ UNCHANGED <<holder, client, daemon>>

\* try_connect; without a socket the list of projects is not read
TryConnect ==
    /\ monitor.pc \in {"start", "connect"}
    /\ LET next == IF monitor.pc = "start" THEN "look" ELSE "list"
       IN  \/ Connected /\ MonitorGoes(next)
           \/ ConnectFails /\ MonitorTells("error", next) /\ UNCHANGED <<client, daemon>>
    /\ MonitorKeeps /\ UNCHANGED <<channel, holder>>

\* list_projects
SendList ==
    /\ monitor.pc = "list"
    /\ Post([Message("projects") EXCEPT !.list = List(stored)])
    /\ MonitorGoes("look")
    /\ MonitorKeeps /\ UNCHANGED <<holder, client, daemon>>

Monitor == Look \/ AskStatus \/ StatusAnswered \/ Tell \/ TryConnect \/ SendList

\* abort drops the future where it stands: the mutex is released, and the
\* answer to a request under way stays in the connection
Abort ==
    /\ holder' = IF monitor.pc = "asked" THEN None ELSE holder
    /\ client' = IF monitor.pc = "asked" /\ client # Dead THEN 1 ELSE client

-----------------------------------------------------------------------------
(* Requests: do_search, do_index, do_remove_project, the Stop of a client *)

StartTask(what, root) ==
    /\ started < MaxTasks
    /\ started' = started + 1
    /\ tasks' = tasks \cup {[id |-> started, what |-> what, root |-> root, says |-> None,
                             pc |-> IF what = "stop" THEN "stop" ELSE "ensure"]}

Goes(t, pc) == tasks' = (tasks \ {t}) \cup {[t EXCEPT !.pc = pc]}

\* Slip: an unexpected answer is only logged.
SaysNothing(t, what) ==
    tasks' = IF t.what = "search" THEN tasks \ {t}
             ELSE (tasks \ {t}) \cup {[t EXCEPT !.pc = "report", !.says = what]}

\* a removal deletes the directory whatever the daemon said
Says(t, what) ==
    tasks' = (tasks \ {t}) \cup
                {IF t.what = "remove" THEN [t EXCEPT !.says = what, !.pc = "delete"]
                 ELSE [t EXCEPT !.says = what, !.pc = "report", !.root = None]}
Failed(t) == Says(t, IF t.what = "search" THEN "search_end" ELSE "index_failed")
Kept == UNCHANGED <<view, thread, shouldRun, monitor, started, events>>

TaskConnects(t) ==
    /\ t.pc = "ensure"
    /\ \/ Connected /\ Goes(t, "lock")
       \/ ConnectFails /\ Failed(t) /\ UNCHANGED <<client, daemon>>
    /\ Kept /\ UNCHANGED <<channel, holder, stored>>

\* between ensure_client and this lock another task may have taken the client;
\* a search without a selected project takes the first one there is
TaskAsks(t) ==
    /\ t.pc = "lock" /\ holder = None
    /\ \/ /\ client # None
          /\ Goes(t, "asked") /\ holder' = t.id
       \/ /\ client = None \/ (t.what = "search" /\ t.root = None /\ stored = {})
          /\ Failed(t) /\ UNCHANGED holder
    /\ Kept /\ UNCHANGED <<channel, client, daemon, stored>>

\* try_send: a progress frame that finds no room is dropped
TaskProgress(t) ==
    /\ t.pc = "asked" /\ t.what = "index" /\ InOrder
    /\ Post(Message("progress"))
    /\ Kept /\ UNCHANGED <<holder, client, daemon, stored, tasks>>

\* Slip: the result is sent under the mutex.
TaskAnsweredLocked(t) ==
    /\ t.pc = "asked"
    /\ holder' = None
    /\ Post(Message(IF t.what = "search" THEN "search_end" ELSE "index_failed"))
    /\ tasks' = tasks \ {t}
    /\ Kept /\ UNCHANGED <<client, daemon, stored>>

\* the answer, or the error of a connection that is gone; the mutex is free
\* before the result is sent
TaskAnswered(t) ==
    /\ t.pc = "asked"
    /\ holder' = None
    /\ \/ /\ InOrder
          /\ \/ t.what = "search" /\ Says(t, "search_end") /\ UNCHANGED stored
             \/ t.what = "index" /\ Says(t, "index_end") /\ stored' = stored \cup {t.root}
             \/ t.what = "remove" /\ Says(t, "removed") /\ stored' = stored \ {t.root}
       \/ Failed(t) /\ UNCHANGED stored
    /\ Kept /\ UNCHANGED <<channel, client, daemon>>

TaskDeletes(t) ==
    /\ t.pc = "delete"
    /\ \/ /\ stored' = stored \ {t.root}
          /\ tasks' = (tasks \ {t}) \cup {[t EXCEPT !.pc = "report", !.says = "removed", !.root = None]}
       \/ /\ t.root \in stored /\ UNCHANGED stored
          /\ tasks' = (tasks \ {t})
                       \cup {[t EXCEPT !.pc = "report", !.says = "remove_failed", !.root = None]}
    /\ Kept /\ UNCHANGED <<channel, holder, client, daemon>>

TaskReports(t) ==
    /\ t.pc = "report"
    /\ Post(Message(t.says))
    /\ tasks' = tasks \ {t}
    /\ Kept /\ UNCHANGED <<holder, client, daemon, stored>>

\* the client is taken out of the mutex and its daemon told to stop
TaskStops(t) ==
    /\ t.pc = "stop" /\ holder = None
    /\ daemon' = IF client \in Nat THEN "down" ELSE daemon
    /\ client' = None
    /\ tasks' = tasks \ {t}
    /\ Kept /\ UNCHANGED <<channel, holder, stored>>

\* spawn_refresh_projects sends the list once more
TaskLists(t) ==
    /\ t.pc = "refresh"
    /\ Post([Message("projects") EXCEPT !.list = List(stored)])
    /\ tasks' = tasks \ {t}
    /\ Kept /\ UNCHANGED <<holder, client, daemon, stored>>

Task(t) ==
    \/ TaskConnects(t) \/ TaskAsks(t) \/ TaskAnswered(t) \/ TaskDeletes(t)
    \/ TaskReports(t) \/ TaskStops(t) \/ TaskLists(t)

-----------------------------------------------------------------------------
(* Messages: dispatch and App::apply_message *)

Window(modal) == view' = [view EXCEPT !.modal = modal, !.root = None]

Refresh ==
    tasks' = tasks \cup {[id |-> Refresher, what |-> "refresh", root |-> None,
                          says |-> None, pc |-> "refresh"]}

DispatchStatus(m) ==
    /\ m.what = "status"
    /\ view' = [view EXCEPT !.stopped = (m.status = "stopped")]
    /\ UNCHANGED tasks

\* ProjectsLoaded: the selection may point one past the end, to "add"
DispatchProjects(m) ==
    /\ m.what = "projects"
    /\ view' = [view EXCEPT !.listed = m.list,
                   !.selected = IF @ > Len(m.list) THEN Len(m.list) ELSE @]
    /\ UNCHANGED tasks

DispatchSearch(m) ==
    /\ m.what = "search_end"
    /\ view' = [view EXCEPT !.searching = FALSE]
    /\ UNCHANGED tasks

\* IndexProgress keeps the root of the window that is open, or has none
DispatchProgress(m) ==
    /\ m.what = "progress"
    /\ view' = [view EXCEPT !.modal = "indexing",
                   !.root = IF view.modal = "indexing" THEN @ ELSE None]
    /\ UNCHANGED tasks

\* IndexComplete and IndexPaused close any window, IndexError replaces it
DispatchIndexed(m) ==
    \/ m.what = "index_end" /\ Window("none") /\ Refresh
    \/ /\ m.what \in {"index_failed", "remove_failed"}
       /\ Window("error")
       /\ UNCHANGED tasks

\* ProjectRemoved takes the selected row out of the list
DispatchRemoved(m) ==
    /\ m.what = "removed"
    /\ LET rest == IF Selected THEN RemoveAt(view.listed, view.selected + 1) ELSE view.listed
       IN  view' = [view EXCEPT !.modal = "none", !.root = None, !.listed = rest,
                       !.selected = IF Selected /\ @ >= Len(rest) /\ rest # <<>>
                                    THEN Len(rest) - 1 ELSE @]
    /\ Refresh

Dispatch ==
    /\ thread = "free" /\ channel # <<>>
    /\ channel' = Tail(channel)
    /\ LET m == Head(channel)
       IN  \/ DispatchStatus(m) \/ DispatchProjects(m) \/ DispatchSearch(m)
           \/ DispatchProgress(m) \/ DispatchIndexed(m) \/ DispatchRemoved(m)
    /\ UNCHANGED <<thread, shared, stored, monitor, started, events>>

-----------------------------------------------------------------------------
(* Keys: map_main_key, map_modal_key and handle_action *)

On(modal) == thread = "free" /\ view.screen = "main" /\ view.modal = modal
OnlyView == UNCHANGED <<thread, shared, channel, stored, monitor, tasks, started, events>>
OnlyTask == UNCHANGED <<thread, shared, channel, stored, monitor, events>>

\* the row after the last one is "add a project"
Select ==
    /\ On("none")
    /\ \E s \in {view.selected + 1, view.selected - 1} \cap (0 .. Len(view.listed)) :
          view' = [view EXCEPT !.selected = s]
    /\ OnlyView

Open ==
    /\ On("none")
    /\ Window(IF Selected THEN "detail" ELSE "add")
    /\ OnlyView

\* DetailBack, Esc, and the Back button of a project
Close ==
    /\ \E modal \in {"detail", "error", "add", "method"} : On(modal)
    /\ Window("none")
    /\ OnlyView

\* ConfirmRemoveNo returns to the project while there is one
Confirm ==
    /\ \/ On("detail") /\ Window("confirm")
       \/ On("confirm") /\ Window(IF Selected THEN "detail" ELSE "none")
    /\ OnlyView

\* spawn_reindex
Reindex ==
    /\ On("detail")
    /\ IF Selected
       THEN /\ StartTask("index", SelectedRoot)
            /\ view' = [view EXCEPT !.modal = "indexing", !.root = SelectedRoot]
       ELSE Window("none") /\ UNCHANGED <<tasks, started>>
    /\ OnlyTask

\* ConfirmRemoveYes: the project selected now
RemoveProject ==
    /\ On("confirm")
    /\ IF Selected THEN StartTask("remove", SelectedRoot) ELSE UNCHANGED <<tasks, started>>
    /\ Window("none")
    /\ OnlyTask

\* SubmitPath, with the directory in the window that follows; Cancel goes back
SubmitPath ==
    /\ \/ \E r \in Roots : /\ On("add")
                           /\ view' = [view EXCEPT !.modal = "method", !.root = r]
       \/ On("method") /\ Window("add")
    /\ OnlyView

\* the search method is saved, or cannot be
SubmitMethod ==
    /\ On("method")
    /\ \/ /\ StartTask("index", view.root)
          /\ view' = [view EXCEPT !.modal = "indexing"]
       \/ Window("error") /\ UNCHANGED <<tasks, started>>
    /\ OnlyTask

\* cancel_index uses a connection of its own, which may start the daemon
CancelIndex ==
    /\ On("indexing") /\ daemon = "down"
    /\ daemon' = "up"
    /\ UNCHANGED <<view, thread, shouldRun, channel, holder, client, stored, monitor, tasks,
                   started, events>>

Search ==
    /\ On("none") /\ ~view.searching
    /\ StartTask("search", SelectedRoot)
    /\ view' = [view EXCEPT !.searching = TRUE]
    /\ OnlyTask

StopDaemon ==
    /\ On("none")
    /\ shouldRun' = FALSE
    /\ StartTask("stop", None)
    /\ UNCHANGED <<view, thread, channel, holder, client, daemon, stored, monitor, events>>

\* RestartDaemon waits for the mutex on the UI thread
RestartDaemon ==
    /\ On("none") /\ view.stopped
    /\ shouldRun' = TRUE /\ thread' = "locking"
    /\ UNCHANGED <<view, channel, holder, client, daemon, stored, monitor, tasks, started,
                   events>>

Restarted ==
    /\ thread = "locking" /\ holder = None
    /\ thread' = "free" /\ client' = None
    /\ view' = [view EXCEPT !.stopped = FALSE]
    /\ UNCHANGED <<shouldRun, channel, holder, daemon, stored, monitor, tasks, started,
                   events>>

ChangeModel ==
    /\ On("none")
    /\ view' = [view EXCEPT !.screen = "setup"]
    /\ Abort /\ MonitorGoes("off")
    /\ UNCHANGED <<thread, shouldRun, channel, daemon, stored, tasks, started, events>>

\* out of the setup, by SetupBack or, after a new choice, by SetupComplete
LeaveSetup ==
    /\ thread = "free" /\ view.screen = "setup"
    /\ view' = [view EXCEPT !.screen = "main"]
    /\ shouldRun' = TRUE /\ monitor' = Fresh
    /\ \/ UNCHANGED <<tasks, started>>
       \/ StartTask("stop", None)
    /\ UNCHANGED <<thread, channel, holder, client, daemon, stored, events>>

Key ==
    \/ Select \/ Open \/ Close \/ Confirm \/ Reindex \/ RemoveProject \/ SubmitPath
    \/ SubmitMethod \/ CancelIndex \/ Search \/ StopDaemon \/ RestartDaemon
    \/ ChangeModel \/ LeaveSetup

-----------------------------------------------------------------------------
(* The environment *)

\* the daemon is stopped or killed by someone else
DaemonExits ==
    /\ events < MaxEvents /\ daemon = "up"
    /\ daemon' = "down"
    /\ client' = IF client \in Nat THEN Dead ELSE client
    /\ events' = events + 1
    /\ UNCHANGED <<view, thread, shouldRun, channel, holder, stored, monitor, tasks, started>>

\* another client indexes or removes a project
StoreChanges ==
    /\ events < MaxEvents
    /\ \E r \in Roots : stored' = (stored \ {r}) \cup ({r} \ stored)
    /\ events' = events + 1
    /\ UNCHANGED <<view, thread, shared, channel, monitor, tasks, started>>

Next ==
    \/ Monitor \/ Dispatch \/ Key \/ Restarted \/ DaemonExits \/ StoreChanges
    \/ \E t \in tasks : Task(t) \/ TaskProgress(t)

Spec == Init /\ [][Next]_vars

-----------------------------------------------------------------------------
(* Properties *)

\* tasks.rs:404-462, 514-589: while the UI says that it searches or indexes, a
\* task that will report it runs, or its report is on the way.
Reported(what, says) ==
    \/ \E t \in tasks : t.what = what
    \/ \E i \in DOMAIN channel : channel[i].what \in says

NothingSpins ==
    /\ view.searching => Reported("search", {"search_end"})
    /\ view.modal = "indexing" => Reported("index", {"index_end", "index_failed"})

\* actions.rs:475-482: the UI thread may wait for the mutex, and then nobody
\* empties the channel; so whoever holds the mutex never waits for the channel.
HolderMoves ==
    holder # None =>
        \/ holder = Watcher /\ ENABLED StatusAnswered
        \/ \E t \in tasks : t.id = holder /\ ENABLED TaskAnswered(t)

=============================================================================
