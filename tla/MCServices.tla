---------------------------- MODULE MCServices ------------------------------
(* What serves a user, side by side: a behaviour is one of the terminal UI's *)
(* setup, one of its main screen, one of the daemon's readers, or one of the *)
(* MCP server's calls, while the variables of the other parts rest.  The     *)
(* properties of the readers are those of Serving itself.                    *)
EXTENDS Serving, Sequences

CONSTANTS Locals, Providers, Keys, MaxJobs, MaxStarts,
          Roots, Dead, Capacity, MaxTasks, MaxEvents,
          Calls, CallKind(_), CallRef(_), PoolSize, MaxStops, Paths, Cwd

CONSTANTS c1, c2, c3, l1, p1, p2, k1, k2, r1, r2, m1, m2, t1, t2

VARIABLES part, channel, monitor,
          screen, chosen, memory, catalog, jobs, count, config, keyring, backend,
          cached, starts, borrowed,
          view, thread, shouldRun, holder, client, daemon, stored, tasks, started, events,
          up, age, next, slots, holding, line, wire, call, lost

setup == <<screen, chosen, memory, catalog, jobs, count, config, keyring, backend, cached,
           starts, borrowed>>
main == <<view, thread, shouldRun, holder, client, daemon, stored, tasks, started, events>>
mcp == <<up, age, next, slots, holding, line, wire, call, lost>>
services == <<part, channel, monitor, setup, main, vars, mcp>>

\* two models of different dimensions, and the requests of each reader
DimOf(m) == IF m = m1 THEN 1 ELSE 2
KindsOf(r) == IF r = r1 THEN {"search", "doctor", "symbols"}
              ELSE {"search", "exhaustive", "symbols"}

S == INSTANCE TuiSetup
M == INSTANCE TuiMain

\* a search by the directory, a symbol's tree in a project by number, a diagnosis
KindOf(c) == CASE c = c1 -> "search" [] c = c2 -> "dep" [] OTHER -> "doctor"
RefOf(c) == IF c = c2 THEN <<"#", 1>> ELSE None
NestedPaths == <<<<"/", "a">>, <<"/", "a", "b">>>>
InnerPath == <<"/", "a", "b">>

C == INSTANCE Mcp WITH
  Kind <- CallKind, Ref <- CallRef, client <- slots, holder <- holding

ASSUME Bounds == C!McpAssumption /\ S!SetupAssumption /\ M!MainAssumption /\ ServingAssumption

NoSetup ==
    /\ screen = None /\ chosen = None /\ memory = None /\ catalog = None /\ jobs = None
    /\ count = None /\ config = None /\ keyring = None /\ backend = None /\ cached = None
    /\ starts = None /\ borrowed = None

NoMain ==
    /\ view = None /\ thread = None /\ shouldRun = None /\ holder = None /\ client = None
    /\ daemon = None /\ stored = None /\ tasks = None /\ started = None /\ events = None

\* no request has come
NoReaders == Init /\ row.model = Primary

NoCalls ==
    /\ up = None /\ age = None /\ next = None /\ slots = None /\ holding = None /\ line = None
    /\ wire = None /\ call = None /\ lost = None

ServicesInit ==
    \/ part = "setup" /\ S!Init /\ NoMain /\ NoReaders /\ NoCalls
    \/ part = "main" /\ M!Init /\ NoSetup /\ NoReaders /\ NoCalls
    \/ /\ part = "readers" /\ Init /\ NoSetup /\ NoMain /\ NoCalls
       /\ channel = None /\ monitor = None
    \/ /\ part = "mcp" /\ C!Init /\ NoSetup /\ NoMain /\ NoReaders
       /\ channel = None /\ monitor = None

SetupStep == part = "setup" /\ S!Next /\ UNCHANGED <<part, main, vars, mcp>>
MainStep == part = "main" /\ M!Next /\ UNCHANGED <<part, setup, vars, mcp>>
ReadersStep ==
    part = "readers" /\ Next /\ UNCHANGED <<part, channel, monitor, setup, main, mcp>>
McpStep ==
    part = "mcp" /\ C!Next /\ UNCHANGED <<part, channel, monitor, setup, main, vars>>

ServicesSpec ==
    ServicesInit /\ [][SetupStep \/ MainStep \/ ReadersStep \/ McpStep]_services

\* TuiSetup: the daemon monitor of the main screen is the chosen model's.
MonitorFollowsModel == part = "setup" => S!MonitorFollowsModel

\* TuiSetup: the key of a configured remote model is found by the next start.
KeyFound == part = "setup" => S!KeyFound

\* TuiSetup: a screen that only waits has a job or a report behind it.  TuiMain: so
\* has a search or an index run that the UI shows.
NothingSpins ==
    /\ part = "setup" => S!SpinnersEnd
    /\ part = "main" => M!NothingSpins

\* TuiMain: whoever holds the connection's mutex does not wait for the UI.  Serving:
\* as long as one request is not over, one can move.
SomebodyMoves ==
    /\ part = "main" => M!HolderMoves
    /\ NobodyStuck

\* Mcp: no call waits for a connection that is free or reads another's answer, and a
\* daemon that stops fails one call per connection.
CallsFit == part = "mcp" => C!Safe

=============================================================================
