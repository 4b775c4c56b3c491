------------------------------ MODULE MCDaemon ------------------------------
(* The daemon, for liveness: a behaviour is one of the tasks of a running    *)
(* daemon, one of clients and daemons starting, or one of the MCP server's   *)
(* calls, while the others of the components stay in an initial state.       *)
EXTENDS Integers, Sequences, FiniteSets, TLC

CONSTANTS c1, a1, a2, a3, o1, o2, NoProject,
          s1, s2, d1, d2, d3, p1, p2, p3, None,
          k1, k2, k3

VARIABLES
    part,
    disk, indexed, row, registry, lock, scheduled, cancel, watched, debouncing, event, pc,
    request, obj, seen, owed, walked, cancels, failures,
    pidPath, flock, text, socket, process, file, version, peer, victim, again, crashes, stops,
    kills,
    up, age, next, client, holder, line, wire, call, lost

sessions == <<disk, indexed, row, registry, lock, scheduled, cancel, watched, debouncing,
              event, pc, request, obj, seen, owed, walked, cancels, failures>>
lifecycle == <<pidPath, flock, text, socket, process, file, version, peer, victim, again,
               crashes, stops, kills>>
calls == <<up, age, next, client, holder, line, wire, call, lost>>
vars == <<part, sessions, lifecycle, calls>>

\* One connection and three tasks of the watcher.
S == INSTANCE Sessions WITH
  Clients <- {c1}, Autos <- {a1, a2, a3}, Objects <- {o1, o2},
  Requests <- {"index", "query"}, MaxEdits <- 2, MaxCancels <- 1, MaxFailures <- 1

\* Two clients of one build and three daemons.
L == INSTANCE Lifecycle WITH
  Clients <- {s1, s2}, Daemons <- {d1, d2, d3}, Files <- {p1, p2, p3},
  Version <- [c \in {s1, s2} |-> 1], MaxFailures <- 1, MaxStops <- 0,
  pc <- process, failures <- crashes

\* A search, a symbol's tree and a diagnosis that share one connection; one project's
\* directory is inside another's.
KindOf(c) == CASE c = k1 -> "search" [] c = k2 -> "dep" [] OTHER -> "doctor"
RefOf(c) == CASE c = k1 -> <<"#", 1>> [] c = k2 -> <<"/", "a">> [] OTHER -> None
M == INSTANCE Mcp WITH
  Calls <- {k1, k2, k3}, Kind <- KindOf, Ref <- RefOf, PoolSize <- 1,
  Paths <- <<<<"/", "a">>, <<"/", "a", "b">>>>, Cwd <- <<"/", "a", "b">>, MaxStops <- 1

ASSUME Bounds == M!McpAssumption

Init ==
    /\ part \in {"sessions", "lifecycle", "mcp"} /\ S!Init /\ L!Init /\ M!Init
    /\ part # "mcp" => up

Next ==
    \/ part = "sessions" /\ S!Next /\ UNCHANGED <<part, lifecycle, calls>>
    \/ part = "lifecycle" /\ L!Next /\ UNCHANGED <<part, sessions, calls>>
    \/ part = "mcp" /\ M!Next /\ UNCHANGED <<part, sessions, lifecycle>>

\* The fairness that each component states, of the behaviours that are its own.
FairSpec ==
    /\ Init /\ [][Next]_vars
    /\ WF_sessions(part = "sessions" /\ S!ClientStep(c1))
    /\ \A t \in {c1, a1, a2, a3} : WF_sessions(part = "sessions" /\ S!IndexStep(t))
    /\ \A a \in {a1, a2, a3} : WF_sessions(part = "sessions" /\ S!AutoStep(a))
    /\ WF_sessions(part = "sessions" /\ S!EventStep)
    /\ \A c \in {s1, s2} : WF_lifecycle(part = "lifecycle" /\ L!ClientStep(c))
    /\ \A d \in {d1, d2, d3} : WF_lifecycle(part = "lifecycle" /\ L!DaemonStep(d))
    /\ \A c \in {k1, k2, k3} : WF_calls(part = "mcp" /\ M!CallStep(c))
    /\ \A s \in M!Slots : WF_calls(part = "mcp" /\ M!Serve(s))

\* Sessions: every request and task comes to its end.  The tasks of the watcher are
\* interchangeable, one stands for the three.  Mcp: so does every call, the
\* daemon's stopping or not.
Answered == S!Ends(c1) /\ S!Ends(a1) /\ M!Ends(k1) /\ M!Ends(k2) /\ M!Ends(k3)

\* Sessions: once the project is indexed, the index gets every edit.
EditsGetIndexed == S!EditsGetIndexed

\* Lifecycle: a client's wait for a daemon that holds the lock ends.  The clients
\* are interchangeable here.
WaitEnds == L!WaitEndsFor(s1)

=============================================================================
