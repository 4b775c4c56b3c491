------------------------------ MODULE Lifecycle ------------------------------
(***************************************************************************)
(* How daemons start and stop and how clients find one: run_daemon         *)
(* (crates/zrag-daemon/src/lib.rs), connect_or_spawn, kill_daemon and      *)
(* Client::connect (crates/zrag-ipc-client).                               *)
(*                                                                         *)
(* They are processes that meet in the file system, at the path of the pid *)
(* file and at the path of the socket.  The pid file is locked (flock) and *)
(* written through an open file, not through its path: a file that was     *)
(* unlinked keeps its lock and its text for whoever has it open, and the   *)
(* next open of the path makes a new file.  A lock goes when its holder    *)
(* drops the file or dies.  Every step ends at a system call that another  *)
(* process can notice.                                                     *)
(***************************************************************************)
EXTENDS Integers, FiniteSets

CONSTANTS
    Clients,        \* calls of Client::connect
    Daemons,        \* daemon processes; each lives once
    Files,          \* pid files; one that nobody refers to can be made anew
    None,           \* no file, no process
    Version,        \* per client: its PROTOCOL_VERSION, and its daemon's
    MaxFailures,    \* bound: daemons that fail or crash, clients that give up
    MaxStops        \* bound: Stop requests and ctrl-c

ASSUME LifecycleAssumption ==
    /\ Clients \cap Daemons = {}
    /\ None \notin Clients \cup Daemons \cup Files
    /\ Version \in [Clients -> Nat]
    /\ IsFiniteSet(Clients) /\ IsFiniteSet(Daemons) /\ IsFiniteSet(Files)
    /\ MaxFailures \in Nat /\ MaxStops \in Nat

VARIABLES
    pidPath,        \* the file at the path of the pid file
    flock,          \* per file: the process that has it locked
    text,           \* per file: the daemon it names
    socket,         \* the daemon whose socket is at the socket's path
    pc,             \* per process: its next step
    file,           \* per process: the pid file it has open
    version,        \* per daemon: its PROTOCOL_VERSION
    peer,           \* per client: the daemon it is connected to
    victim,         \* per client: the process it is about to kill
    again,          \* clients that have restarted the daemon
    failures, stops, kills

Processes == Clients \cup Daemons

paths == <<pidPath, socket>>
files == <<flock, text>>
client == <<peer, victim, again>>
ledger == <<failures, stops, kills>>
vars == <<paths, files, pc, file, version, client, ledger>>

Init ==
    /\ pidPath = None /\ socket = None
    /\ flock = [f \in Files |-> None]
    /\ text = [f \in Files |-> None]
    /\ pc = [p \in Processes |-> IF p \in Clients THEN "connect" ELSE "off"]
    /\ file = [p \in Processes |-> None]
    /\ version = [d \in Daemons |-> 0]
    /\ peer = [c \in Clients |-> None]
    /\ victim = [c \in Clients |-> None]
    /\ again = {}
    /\ failures = 0 /\ stops = 0 /\ kills = 0

Goto(p, step) == pc' = [pc EXCEPT ![p] = step]

Fail == failures < MaxFailures /\ failures' = failures + 1

Unused == {f \in Files : pidPath # f /\ \A p \in Processes : file[p] # f}

\* OpenOptions::create(true) without truncation
OpenPidFile(p) ==
    IF pidPath # None
    THEN file' = [file EXCEPT ![p] = pidPath] /\ UNCHANGED <<pidPath, text>>
    ELSE \E f \in Unused :
            /\ pidPath' = f
            /\ file' = [file EXCEPT ![p] = f]
            /\ text' = [text EXCEPT ![f] = None]

\* the locks a process leaves behind
Unlocked(p) == [f \in Files |-> IF flock[f] = p THEN None ELSE flock[f]]

Alive(d) == pc[d] \notin {"off", "dead"}

\* a process ends: the kernel closes its file
Exit(d) ==
    /\ Goto(d, "dead")
    /\ flock' = Unlocked(d)
    /\ file' = [file EXCEPT ![d] = None]

Listening(d) == pc[d] = "listen"

Found == socket # None /\ Listening(socket)

-----------------------------------------------------------------------------
(* Client::connect *)

Connect(c) ==
    /\ pc[c] = "connect"
    /\ IF Found
       THEN Goto(c, "handshake") /\ peer' = [peer EXCEPT ![c] = socket]
       ELSE Goto(c, "open") /\ UNCHANGED peer
    /\ UNCHANGED <<paths, files, file, version, victim, again, ledger>>

\* Slip: the lock is tried on a file that could not be opened
OpenUnchecked(c) ==
    /\ pc[c] = "open"
    /\ Goto(c, "tryLock")
    /\ UNCHANGED <<paths, files, file, version, client, ledger>>

OpenToSpawn(c) ==
    /\ pc[c] = "open"
    /\ OpenPidFile(c)
    /\ Goto(c, "tryLock")
    /\ UNCHANGED <<socket, flock, version, client, ledger>>

\* whoever gets the lock spawns; the others wait for the socket
TryLock(c) ==
    /\ pc[c] = "tryLock"
    /\ IF flock[file[c]] = None
       THEN Goto(c, "spawn") /\ flock' = [flock EXCEPT ![file[c]] = c]
       ELSE Goto(c, "wait") /\ UNCHANGED flock
    /\ UNCHANGED <<paths, text, file, version, client, ledger>>

Launch(d, v) ==
    /\ pc[d] = "off"
    /\ version' = [version EXCEPT ![d] = v]

Spawn(c) ==
    /\ pc[c] = "spawn"
    /\ \E d \in Daemons :
          /\ Launch(d, Version[c])
          /\ pc' = [pc EXCEPT ![c] = "release", ![d] = "openPid"]
    /\ UNCHANGED <<paths, files, file, client, ledger>>

\* no model was named, no binary is found, or the spawn itself fails
SpawnFails(c) ==
    /\ pc[c] = "spawn"
    /\ Fail
    /\ Goto(c, "failed")
    /\ flock' = Unlocked(c)
    /\ file' = [file EXCEPT ![c] = None]
    /\ UNCHANGED <<paths, text, version, client, stops, kills>>

Release(c) ==
    /\ pc[c] = "release"
    /\ Goto(c, "wait")
    /\ flock' = Unlocked(c)
    /\ file' = [file EXCEPT ![c] = None]
    /\ UNCHANGED <<paths, text, version, client, ledger>>

\* wait_for_socket: every 100 ms
SocketFound(c) ==
    /\ pc[c] = "wait"
    /\ Found
    /\ Goto(c, "handshake")
    /\ peer' = [peer EXCEPT ![c] = socket]
    /\ file' = [file EXCEPT ![c] = None]
    /\ UNCHANGED <<paths, files, version, victim, again, ledger>>

TimeOut(c) ==
    /\ pc[c] = "wait"
    /\ Fail
    /\ Goto(c, "failed")
    /\ file' = [file EXCEPT ![c] = None]
    /\ UNCHANGED <<paths, files, version, client, stops, kills>>

\* Slip: the daemon is restarted until it has the client's protocol
HandshakeInsists(c) ==
    /\ pc[c] = "handshake"
    /\ Goto(c, CASE ~Alive(peer[c]) -> "failed"
                 [] version[peer[c]] = Version[c] -> "connected"
                 [] OTHER -> "readPid")
    /\ UNCHANGED <<paths, files, file, version, client, ledger>>

\* a daemon of another protocol is restarted, once
Handshake(c) ==
    /\ pc[c] = "handshake"
    /\ Goto(c, CASE ~Alive(peer[c]) -> "failed"
                 [] version[peer[c]] = Version[c] -> "connected"
                 [] c \in again -> "failed"
                 [] OTHER -> "readPid")
    /\ UNCHANGED <<paths, files, file, version, client, ledger>>

-----------------------------------------------------------------------------
(* kill_daemon *)

ReadPid(c) ==
    /\ pc[c] = "readPid"
    /\ victim' = [victim EXCEPT ![c] =
                      IF pidPath = None THEN None ELSE text[pidPath]]
    /\ Goto(c, "kill")
    /\ UNCHANGED <<paths, files, file, version, peer, again, ledger>>

\* SIGTERM ends a daemon at once: nothing handles it
Kill(c) ==
    /\ pc[c] = "kill"
    /\ kills' = kills + 1
    /\ IF victim[c] # None /\ Alive(victim[c])
       THEN /\ pc' = [pc EXCEPT ![c] = "unlinkSocket", ![victim[c]] = "dead"]
            /\ flock' = Unlocked(victim[c])
            /\ file' = [file EXCEPT ![victim[c]] = None]
       ELSE Goto(c, "unlinkSocket") /\ UNCHANGED <<flock, file>>
    /\ UNCHANGED <<paths, text, version, client, failures, stops>>

\* by path: whose socket and whose pid file it is is not looked at
UnlinkSocket(c) ==
    /\ pc[c] = "unlinkSocket"
    /\ socket' = None
    /\ Goto(c, "unlinkPid")
    /\ UNCHANGED <<pidPath, files, file, version, client, ledger>>

UnlinkPid(c) ==
    /\ pc[c] = "unlinkPid"
    /\ pidPath' = None
    /\ again' = again \cup {c}
    /\ peer' = [peer EXCEPT ![c] = None]
    /\ victim' = [victim EXCEPT ![c] = None]
    /\ Goto(c, "connect")
    /\ UNCHANGED <<socket, files, file, version, ledger>>

-----------------------------------------------------------------------------
(* run_daemon *)

\* `zebrarag daemon`, by hand
UserSpawn(d) ==
    /\ \E c \in Clients : Launch(d, Version[c])
    /\ Goto(d, "openPid")
    /\ UNCHANGED <<paths, files, file, client, ledger>>

OpenPid(d) ==
    /\ pc[d] = "openPid"
    /\ OpenPidFile(d)
    /\ Goto(d, "lockPid")
    /\ UNCHANGED <<socket, flock, version, client, ledger>>

\* Slip: the daemon does not mind a lock that is held
LockPidIgnored(d) ==
    /\ pc[d] = "lockPid"
    /\ Goto(d, "truncate")
    /\ flock' = [flock EXCEPT ![file[d]] = d]
    /\ UNCHANGED <<paths, text, file, version, client, ledger>>

LockPid(d) ==
    /\ pc[d] = "lockPid"
    /\ flock[file[d]] = None
    /\ Goto(d, "truncate")
    /\ flock' = [flock EXCEPT ![file[d]] = d]
    /\ UNCHANGED <<paths, text, file, version, client, ledger>>

\* "Daemon is already running"
Refused(d) ==
    /\ pc[d] = "lockPid"
    /\ flock[file[d]] # None
    /\ Exit(d)
    /\ UNCHANGED <<paths, text, version, client, ledger>>

Truncate(d) ==
    /\ pc[d] = "truncate"
    /\ text' = [text EXCEPT ![file[d]] = None]
    /\ Goto(d, "writePid")
    /\ UNCHANGED <<paths, flock, file, version, client, ledger>>

WritePid(d) ==
    /\ pc[d] = "writePid"
    /\ text' = [text EXCEPT ![file[d]] = d]
    /\ Goto(d, "clear")
    /\ UNCHANGED <<paths, flock, file, version, client, ledger>>

\* Slip: the socket a crashed daemon has left behind stays where it is
ClearNothing(d) ==
    /\ pc[d] = "clear"
    /\ Goto(d, "bind")
    /\ UNCHANGED <<paths, files, file, version, client, ledger>>

ClearSocket(d) ==
    /\ pc[d] = "clear"
    /\ socket' = None
    /\ Goto(d, "bind")
    /\ UNCHANGED <<pidPath, files, file, version, client, ledger>>

\* the model is loaded and the listener bound; a path that exists is an error
Bind(d) ==
    /\ pc[d] = "bind"
    /\ socket = None
    /\ socket' = d
    /\ Goto(d, "listen")
    /\ UNCHANGED <<pidPath, files, file, version, client, ledger>>

BindFails(d) ==
    /\ pc[d] = "bind"
    /\ socket # None
    /\ Exit(d)
    /\ UNCHANGED <<paths, text, version, client, ledger>>

\* an error on the way (the model, a file, accept) or a crash: nothing is
\* cleaned up
Crash(d) ==
    /\ Alive(d)
    /\ Fail
    /\ Exit(d)
    /\ UNCHANGED <<paths, text, version, client, stops, kills>>

\* a Stop request or ctrl-c ends listener::run
Shutdown(d) ==
    /\ Listening(d)
    /\ stops < MaxStops
    /\ stops' = stops + 1
    /\ Goto(d, "removePid")
    /\ UNCHANGED <<paths, files, file, version, client, failures, kills>>

\* by path, like a client that kills; the lock is held until the process ends
RemovePid(d) ==
    /\ pc[d] = "removePid"
    /\ pidPath' = None
    /\ Goto(d, "removeSocket")
    /\ UNCHANGED <<socket, files, file, version, client, ledger>>

RemoveSocket(d) ==
    /\ pc[d] = "removeSocket"
    /\ socket' = None
    /\ Goto(d, "quit")
    /\ UNCHANGED <<pidPath, files, file, version, client, ledger>>

\* the runtime waits for what it has spawned
Quit(d) ==
    /\ pc[d] = "quit"
    /\ Exit(d)
    /\ UNCHANGED <<paths, text, version, client, ledger>>

-----------------------------------------------------------------------------

ClientStep(c) ==
    \/ Connect(c) \/ OpenToSpawn(c) \/ TryLock(c) \/ Spawn(c) \/ Release(c)
    \/ SocketFound(c) \/ Handshake(c)
    \/ ReadPid(c) \/ Kill(c) \/ UnlinkSocket(c) \/ UnlinkPid(c)

DaemonStep(d) ==
    \/ OpenPid(d) \/ LockPid(d) \/ Refused(d) \/ Truncate(d) \/ WritePid(d)
    \/ ClearSocket(d) \/ Bind(d) \/ BindFails(d)
    \/ RemovePid(d) \/ RemoveSocket(d) \/ Quit(d)

Next ==
    \/ \E c \in Clients : ClientStep(c) \/ SpawnFails(c) \/ TimeOut(c)
    \/ \E d \in Daemons :
          DaemonStep(d) \/ UserSpawn(d) \/ Crash(d) \/ Shutdown(d)

Spec == Init /\ [][Next]_vars

\* a process the system schedules; a client's wait polls the socket
Fairness ==
    /\ \A c \in Clients : WF_vars(ClientStep(c))
    /\ \A d \in Daemons : WF_vars(DaemonStep(d))

FairSpec == Spec /\ Fairness

-----------------------------------------------------------------------------
(* Properties *)

ClientSteps == {"connect", "open", "tryLock", "spawn", "release", "wait",
                "handshake", "connected", "failed", "readPid", "kill",
                "unlinkSocket", "unlinkPid"}

DaemonSteps == {"off", "openPid", "lockPid", "truncate", "writePid", "clear",
                "bind", "listen", "removePid", "removeSocket", "quit", "dead"}

Locked == {"truncate", "writePid", "clear", "bind", "listen", "removePid",
           "removeSocket", "quit"}

\* Every variable has a value of its kind, and whoever works on the pid file has
\* one open.
TypeOK ==
    /\ pidPath \in Files \cup {None} /\ socket \in Daemons \cup {None}
    /\ flock \in [Files -> Processes \cup {None}]
    /\ text \in [Files -> Daemons \cup {None}]
    /\ pc \in [Processes -> ClientSteps \cup DaemonSteps]
    /\ \A c \in Clients : pc[c] \in ClientSteps
    /\ \A d \in Daemons : pc[d] \in DaemonSteps
    /\ file \in [Processes -> Files \cup {None}]
    /\ \A p \in Processes :
          pc[p] \in Locked \cup {"tryLock", "spawn", "release", "lockPid"} =>
              file[p] # None
    /\ version \in [Daemons -> Nat]
    /\ peer \in [Clients -> Daemons \cup {None}]
    /\ victim \in [Clients -> Daemons \cup {None}]
    /\ again \subseteq Clients
    /\ failures \in 0..MaxFailures /\ stops \in 0..MaxStops /\ kills \in Nat

\* spawn.rs:15: the pid file kill_daemon reads never names a live daemon other
\* than the one that has it locked, whoever locked it before and crashed.
PidNamesHolder ==
    \A f \in Files : text[f] # None /\ Alive(text[f]) => flock[f] = text[f]

\* lib.rs:45: one daemon at most gets past the lock of the pid file, however many
\* are spawned at once and whoever crashes, as long as the pid file is not
\* unlinked (by a daemon that stops, or by kill_daemon).
OneDaemon ==
    kills = 0 /\ stops = 0 =>
        \A d, e \in Daemons : pc[d] \in Locked /\ pc[e] \in Locked => d = e

\* A daemon that listens can be found: the socket's path is its own, unless a
\* stopping daemon or kill_daemon has unlinked it.
Reachable ==
    kills = 0 /\ stops = 0 => \A d \in Daemons : Listening(d) => socket = d

\* client.rs:39-56, spawn.rs:13-30: what restarts can destroy.  A client may kill, or
\* unlink the pid file and the socket of, a daemon that another has just started for
\* it; but it does so once, and not at all among clients of one protocol, so that
\* two protocols do not kill each other's daemons for ever; and of the daemons that
\* are past a lock at once, one has the lock of the pid file at the path, and each
\* restart or stop has left one more at most.
RestartsContained ==
    /\ kills <= Cardinality({c \in Clients : \E e \in Clients : Version[e] # Version[c]})
    /\ Cardinality({d \in Daemons : pc[d] \in Locked}) <= 1 + Cardinality(again) + stops

\* The same restarts, if each killed daemons of another protocol only: the slower of
\* two clients kills the daemon that the faster one, or the user, has just started.
KillsOutdatedOnly ==
    [][\A c \in Clients :
           Kill(c) /\ victim[c] # None /\ Alive(victim[c])
               => version[victim[c]] # Version[c]]_vars

\* spawn.rs:150-163: a client that waits for the socket while a daemon has the pid
\* lock gets through to it, even if an earlier daemon crashed and left its files,
\* unless something else goes wrong before.
WaitEndsFor(c) ==
    /\ pc[c] = "wait" /\ \E d \in Daemons : pc[d] \in Locked
    /\ failures = MaxFailures
    ~> (pc[c] # "wait" \/ stops + kills > 0)
WaitEnds == \A c \in Clients : WaitEndsFor(c)

\* lib.rs:46: "Lock held -- a daemon is already running": a daemon that is refused
\* the lock leaves another daemon behind.
LockHeldMeansRunning ==
    [][\A d \in Daemons :
           Refused(d) => \E e \in Daemons \ {d} : pc[e] \in Locked]_vars

=============================================================================
