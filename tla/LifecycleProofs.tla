--------------------------- MODULE LifecycleProofs ---------------------------
(***************************************************************************)
(* Theorems about Lifecycle for every number of clients, daemons and files *)
(* and every bound: its type invariant, that the pid file names the daemon *)
(* that holds it, that its lock lets one daemon through, that a daemon     *)
(* that listens can be found, and what restarts can destroy.               *)
(***************************************************************************)
EXTENDS Lifecycle, FiniteSetTheorems, TLAPS

-----------------------------------------------------------------------------
(* The inductive invariant *)

\* Whoever acts as the holder of the pid file's lock is it.
LockOwner ==
    \A p \in Processes :
        pc[p] \in Locked \cup {"spawn", "release"} => flock[file[p]] = p

\* Whoever unlinks the pid file has killed or was told to stop.
Unlinkers ==
    /\ \A c \in Clients :
          pc[c] \in {"unlinkSocket", "unlinkPid"} => kills > 0
    /\ \A d \in Daemons :
          pc[d] \in {"removePid", "removeSocket", "quit"} => stops > 0

\* As long as nobody unlinks it, there is one pid file.
OnePidFile ==
    kills = 0 /\ stops = 0 =>
        \A p \in Processes : file[p] # None => file[p] = pidPath

\* A pid file names nobody, a daemon that is gone, or one that has it open and
\* got past the lock.
TextOK ==
    \A f \in Files : text[f] # None =>
        /\ pc[text[f]] # "off"
        /\ Alive(text[f]) =>
              /\ file[text[f]] = f
              /\ pc[text[f]] \in Locked \ {"truncate", "writePid"}

IInv == TypeOK /\ LockOwner /\ Unlinkers /\ OnePidFile /\ TextOK

\* A lock has one holder, so two daemons past it would have two files open.
LEMMA IInvSafe == IInv => PidNamesHolder /\ OneDaemon
<1> SUFFICES ASSUME IInv PROVE PidNamesHolder /\ OneDaemon
  OBVIOUS
<1>1. Daemons \subseteq Processes
  BY DEF Processes
<1>2. PidNamesHolder
  <2>1. SUFFICES ASSUME NEW f \in Files, text[f] # None, Alive(text[f])
                 PROVE  flock[f] = text[f]
    BY DEF PidNamesHolder
  <2>2. text[f] \in Processes
    BY <1>1, <2>1 DEF IInv, TypeOK
  <2>3. file[text[f]] = f /\ pc[text[f]] \in Locked
    BY <2>1 DEF IInv, TextOK
  <2> QED
    BY <2>2, <2>3 DEF IInv, LockOwner
<1>3. OneDaemon
  <2>1. SUFFICES ASSUME kills = 0, stops = 0,
                        NEW d \in Daemons, NEW e \in Daemons,
                        pc[d] \in Locked, pc[e] \in Locked
                 PROVE  d = e
    BY DEF OneDaemon
  <2>2. file[d] # None /\ file[e] # None
    BY <1>1, <2>1 DEF IInv, TypeOK
  <2>3. file[d] = pidPath /\ file[e] = pidPath
    BY <1>1, <2>1, <2>2 DEF IInv, OnePidFile
  <2> QED
    BY <1>1, <2>1, <2>3 DEF IInv, LockOwner
<1> QED
  BY <1>2, <1>3

-----------------------------------------------------------------------------
(* Every step keeps the invariant *)

LEMMA InitInv == Init => IInv
<1> SUFFICES ASSUME Init PROVE IInv
  OBVIOUS
<1> USE LifecycleAssumption DEF Init, Processes
<1>1. TypeOK
  BY DEF TypeOK, ClientSteps, DaemonSteps, Locked
<1>2. LockOwner /\ Unlinkers
  BY DEF LockOwner, Unlinkers, Locked
<1>3. OnePidFile /\ TextOK
  BY DEF OnePidFile, TextOK
<1> QED
  BY <1>1, <1>2, <1>3 DEF IInv

\* A client looks for a daemon.
LEMMA SearchInv ==
    ASSUME IInv, NEW c \in Clients,
           Connect(c) \/ SocketFound(c) \/ TimeOut(c) \/ Handshake(c)
    PROVE  IInv'
<1> USE LifecycleAssumption DEF IInv, Processes, TypeOK, ClientSteps,
        DaemonSteps, Locked, paths, files, client, ledger, Goto, Fail, Exit,
        Unlocked, Found, Listening, Alive
<1>1. CASE Connect(c)
  <2>1. TypeOK'
    BY <1>1 DEF Connect
  <2>2. LockOwner'
    BY <1>1 DEF Connect, LockOwner
  <2>3. Unlinkers'
    BY <1>1 DEF Connect, Unlinkers
  <2>4. OnePidFile'
    BY <1>1 DEF Connect, OnePidFile, Unlinkers
  <2>5. TextOK'
    BY <1>1 DEF Connect, TextOK, Alive
  <2> QED
    BY <2>1, <2>2, <2>3, <2>4, <2>5
<1>2. CASE SocketFound(c)
  <2>1. TypeOK'
    BY <1>2 DEF SocketFound
  <2>2. LockOwner'
    BY <1>2 DEF SocketFound, LockOwner
  <2>3. Unlinkers'
    BY <1>2 DEF SocketFound, Unlinkers
  <2>4. OnePidFile'
    BY <1>2 DEF SocketFound, OnePidFile, Unlinkers
  <2>5. TextOK'
    BY <1>2 DEF SocketFound, TextOK, Alive
  <2> QED
    BY <2>1, <2>2, <2>3, <2>4, <2>5
<1>3. CASE TimeOut(c)
  <2>1. TypeOK'
    BY <1>3 DEF TimeOut
  <2>2. LockOwner'
    BY <1>3 DEF TimeOut, LockOwner
  <2>3. Unlinkers'
    BY <1>3 DEF TimeOut, Unlinkers
  <2>4. OnePidFile'
    BY <1>3 DEF TimeOut, OnePidFile, Unlinkers
  <2>5. TextOK'
    BY <1>3 DEF TimeOut, TextOK, Alive
  <2> QED
    BY <2>1, <2>2, <2>3, <2>4, <2>5
<1>4. CASE Handshake(c)
  <2>1. TypeOK'
    BY <1>4 DEF Handshake
  <2>2. LockOwner'
    BY <1>4 DEF Handshake, LockOwner
  <2>3. Unlinkers'
    BY <1>4 DEF Handshake, Unlinkers
  <2>4. OnePidFile'
    BY <1>4 DEF Handshake, OnePidFile, Unlinkers
  <2>5. TextOK'
    BY <1>4 DEF Handshake, TextOK, Alive
  <2> QED
    BY <2>1, <2>2, <2>3, <2>4, <2>5
<1> QED
  BY <1>1, <1>2, <1>3, <1>4

\* A client takes the lock, spawns and drops it.
LEMMA SpawnInv ==
    ASSUME IInv, NEW c \in Clients,
           OpenToSpawn(c) \/ TryLock(c) \/ Spawn(c) \/ SpawnFails(c) \/ Release(c)
    PROVE  IInv'
<1> USE LifecycleAssumption DEF IInv, Processes, TypeOK, ClientSteps,
        DaemonSteps, Locked, paths, files, client, ledger, Goto, Fail, Exit,
        Unlocked, OpenPidFile, Unused, Launch
<1>1. CASE OpenToSpawn(c)
  <2>1. TypeOK'
    BY <1>1 DEF OpenToSpawn
  <2>2. LockOwner'
    BY <1>1 DEF OpenToSpawn, LockOwner
  <2>3. Unlinkers'
    BY <1>1 DEF OpenToSpawn, Unlinkers
  <2>4. OnePidFile'
    BY <1>1 DEF OpenToSpawn, OnePidFile, Unlinkers
  <2>5. TextOK'
    BY <1>1 DEF OpenToSpawn, TextOK, Alive
  <2> QED
    BY <2>1, <2>2, <2>3, <2>4, <2>5
<1>2. CASE TryLock(c)
  <2>1. TypeOK'
    BY <1>2 DEF TryLock
  <2>2. LockOwner'
    BY <1>2 DEF TryLock, LockOwner
  <2>3. Unlinkers'
    BY <1>2 DEF TryLock, Unlinkers
  <2>4. OnePidFile'
    BY <1>2 DEF TryLock, OnePidFile, Unlinkers
  <2>5. TextOK'
    BY <1>2 DEF TryLock, TextOK, Alive
  <2> QED
    BY <2>1, <2>2, <2>3, <2>4, <2>5
<1>3. CASE Spawn(c)
  <2>1. TypeOK'
    BY <1>3 DEF Spawn
  <2>2. LockOwner'
    BY <1>3 DEF Spawn, LockOwner
  <2>3. Unlinkers'
    BY <1>3 DEF Spawn, Unlinkers
  <2>4. OnePidFile'
    BY <1>3 DEF Spawn, OnePidFile, Unlinkers
  <2>5. TextOK'
    BY <1>3 DEF Spawn, TextOK, Alive
  <2> QED
    BY <2>1, <2>2, <2>3, <2>4, <2>5
<1>4. CASE SpawnFails(c)
  <2>1. TypeOK'
    BY <1>4 DEF SpawnFails
  <2>2. LockOwner'
    BY <1>4 DEF SpawnFails, LockOwner
  <2>3. Unlinkers'
    BY <1>4 DEF SpawnFails, Unlinkers
  <2>4. OnePidFile'
    BY <1>4 DEF SpawnFails, OnePidFile, Unlinkers
  <2>5. TextOK'
    BY <1>4 DEF SpawnFails, TextOK, Alive
  <2> QED
    BY <2>1, <2>2, <2>3, <2>4, <2>5
<1>5. CASE Release(c)
  <2>1. TypeOK'
    BY <1>5 DEF Release
  <2>2. LockOwner'
    BY <1>5 DEF Release, LockOwner
  <2>3. Unlinkers'
    BY <1>5 DEF Release, Unlinkers
  <2>4. OnePidFile'
    BY <1>5 DEF Release, OnePidFile, Unlinkers
  <2>5. TextOK'
    BY <1>5 DEF Release, TextOK, Alive
  <2> QED
    BY <2>1, <2>2, <2>3, <2>4, <2>5
<1> QED
  BY <1>1, <1>2, <1>3, <1>4, <1>5

\* A client kills and unlinks.
LEMMA KillInv ==
    ASSUME IInv, NEW c \in Clients,
           ReadPid(c) \/ Kill(c) \/ UnlinkSocket(c) \/ UnlinkPid(c)
    PROVE  IInv'
<1> USE LifecycleAssumption DEF IInv, Processes, TypeOK, ClientSteps,
        DaemonSteps, Locked, paths, files, client, ledger, Goto, Fail, Exit,
        Unlocked, Alive
<1>1. CASE ReadPid(c)
  <2>1. TypeOK'
    BY <1>1 DEF ReadPid
  <2>2. LockOwner'
    BY <1>1 DEF ReadPid, LockOwner
  <2>3. Unlinkers'
    BY <1>1 DEF ReadPid, Unlinkers
  <2>4. OnePidFile'
    BY <1>1 DEF ReadPid, OnePidFile, Unlinkers
  <2>5. TextOK'
    BY <1>1 DEF ReadPid, TextOK, Alive
  <2> QED
    BY <2>1, <2>2, <2>3, <2>4, <2>5
<1>2. CASE Kill(c)
  <2>1. TypeOK'
    BY <1>2 DEF Kill
  <2>2. LockOwner'
    BY <1>2 DEF Kill, LockOwner
  <2>3. Unlinkers'
    BY <1>2 DEF Kill, Unlinkers
  <2>4. OnePidFile'
    BY <1>2 DEF Kill, OnePidFile, Unlinkers
  <2>5. TextOK'
    BY <1>2 DEF Kill, TextOK, Alive
  <2> QED
    BY <2>1, <2>2, <2>3, <2>4, <2>5
<1>3. CASE UnlinkSocket(c)
  <2>1. TypeOK'
    BY <1>3 DEF UnlinkSocket
  <2>2. LockOwner'
    BY <1>3 DEF UnlinkSocket, LockOwner
  <2>3. Unlinkers'
    BY <1>3 DEF UnlinkSocket, Unlinkers
  <2>4. OnePidFile'
    BY <1>3 DEF UnlinkSocket, OnePidFile, Unlinkers
  <2>5. TextOK'
    BY <1>3 DEF UnlinkSocket, TextOK, Alive
  <2> QED
    BY <2>1, <2>2, <2>3, <2>4, <2>5
<1>4. CASE UnlinkPid(c)
  <2>1. TypeOK'
    BY <1>4 DEF UnlinkPid
  <2>2. LockOwner'
    BY <1>4 DEF UnlinkPid, LockOwner
  <2>3. Unlinkers'
    BY <1>4 DEF UnlinkPid, Unlinkers
  <2>4. OnePidFile'
    BY <1>4 DEF UnlinkPid, OnePidFile, Unlinkers
  <2>5. TextOK'
    BY <1>4 DEF UnlinkPid, TextOK, Alive
  <2> QED
    BY <2>1, <2>2, <2>3, <2>4, <2>5
<1> QED
  BY <1>1, <1>2, <1>3, <1>4

\* A daemon comes up to the lock.
LEMMA StartInv ==
    ASSUME IInv, NEW d \in Daemons,
           UserSpawn(d) \/ OpenPid(d) \/ LockPid(d) \/ Refused(d)
    PROVE  IInv'
<1> USE LifecycleAssumption DEF IInv, Processes, TypeOK, ClientSteps,
        DaemonSteps, Locked, paths, files, client, ledger, Goto, Fail, Exit,
        Unlocked, OpenPidFile, Unused, Launch
<1>1. CASE UserSpawn(d)
  <2>1. TypeOK'
    BY <1>1 DEF UserSpawn
  <2>2. LockOwner'
    BY <1>1 DEF UserSpawn, LockOwner
  <2>3. Unlinkers'
    BY <1>1 DEF UserSpawn, Unlinkers
  <2>4. OnePidFile'
    BY <1>1 DEF UserSpawn, OnePidFile, Unlinkers
  <2>5. TextOK'
    BY <1>1 DEF UserSpawn, TextOK, Alive
  <2> QED
    BY <2>1, <2>2, <2>3, <2>4, <2>5
<1>2. CASE OpenPid(d)
  <2>1. TypeOK'
    BY <1>2 DEF OpenPid
  <2>2. LockOwner'
    BY <1>2 DEF OpenPid, LockOwner
  <2>3. Unlinkers'
    BY <1>2 DEF OpenPid, Unlinkers
  <2>4. OnePidFile'
    BY <1>2 DEF OpenPid, OnePidFile, Unlinkers
  <2>5. TextOK'
    BY <1>2 DEF OpenPid, TextOK, Alive
  <2> QED
    BY <2>1, <2>2, <2>3, <2>4, <2>5
<1>3. CASE LockPid(d)
  <2>1. TypeOK'
    BY <1>3 DEF LockPid
  <2>2. LockOwner'
    BY <1>3 DEF LockPid, LockOwner
  <2>3. Unlinkers'
    BY <1>3 DEF LockPid, Unlinkers
  <2>4. OnePidFile'
    BY <1>3 DEF LockPid, OnePidFile, Unlinkers
  <2>5. TextOK'
    BY <1>3 DEF LockPid, TextOK, Alive
  <2> QED
    BY <2>1, <2>2, <2>3, <2>4, <2>5
<1>4. CASE Refused(d)
  <2>1. TypeOK'
    BY <1>4 DEF Refused
  <2>2. LockOwner'
    BY <1>4 DEF Refused, LockOwner
  <2>3. Unlinkers'
    BY <1>4 DEF Refused, Unlinkers
  <2>4. OnePidFile'
    BY <1>4 DEF Refused, OnePidFile, Unlinkers
  <2>5. TextOK'
    BY <1>4 DEF Refused, TextOK, Alive
  <2> QED
    BY <2>1, <2>2, <2>3, <2>4, <2>5
<1> QED
  BY <1>1, <1>2, <1>3, <1>4

\* A daemon with the lock writes its pid and binds its socket.
LEMMA ServeInv ==
    ASSUME IInv, NEW d \in Daemons,
           Truncate(d) \/ WritePid(d) \/ ClearSocket(d) \/ Bind(d) \/ BindFails(d)
    PROVE  IInv'
<1> USE LifecycleAssumption DEF IInv, Processes, TypeOK, ClientSteps,
        DaemonSteps, Locked, paths, files, client, ledger, Goto, Fail, Exit,
        Unlocked
<1>1. CASE Truncate(d)
  <2>1. TypeOK'
    BY <1>1 DEF Truncate
  <2>2. LockOwner'
    BY <1>1 DEF Truncate, LockOwner
  <2>3. Unlinkers'
    BY <1>1 DEF Truncate, Unlinkers
  <2>4. OnePidFile'
    BY <1>1 DEF Truncate, OnePidFile, Unlinkers
  <2>5. TextOK'
    BY <1>1 DEF Truncate, TextOK, Alive
  <2> QED
    BY <2>1, <2>2, <2>3, <2>4, <2>5
<1>2. CASE WritePid(d)
  <2>1. TypeOK'
    BY <1>2 DEF WritePid
  <2>2. LockOwner'
    BY <1>2 DEF WritePid, LockOwner
  <2>3. Unlinkers'
    BY <1>2 DEF WritePid, Unlinkers
  <2>4. OnePidFile'
    BY <1>2 DEF WritePid, OnePidFile, Unlinkers
  <2>5. TextOK'
    BY <1>2 DEF WritePid, TextOK, Alive
  <2> QED
    BY <2>1, <2>2, <2>3, <2>4, <2>5
<1>3. CASE ClearSocket(d)
  <2>1. TypeOK'
    BY <1>3 DEF ClearSocket
  <2>2. LockOwner'
    BY <1>3 DEF ClearSocket, LockOwner
  <2>3. Unlinkers'
    BY <1>3 DEF ClearSocket, Unlinkers
  <2>4. OnePidFile'
    BY <1>3 DEF ClearSocket, OnePidFile, Unlinkers
  <2>5. TextOK'
    BY <1>3 DEF ClearSocket, TextOK, Alive
  <2> QED
    BY <2>1, <2>2, <2>3, <2>4, <2>5
<1>4. CASE Bind(d)
  <2>1. TypeOK'
    BY <1>4 DEF Bind
  <2>2. LockOwner'
    BY <1>4 DEF Bind, LockOwner
  <2>3. Unlinkers'
    BY <1>4 DEF Bind, Unlinkers
  <2>4. OnePidFile'
    BY <1>4 DEF Bind, OnePidFile, Unlinkers
  <2>5. TextOK'
    BY <1>4 DEF Bind, TextOK, Alive
  <2> QED
    BY <2>1, <2>2, <2>3, <2>4, <2>5
<1>5. CASE BindFails(d)
  <2>1. TypeOK'
    BY <1>5 DEF BindFails
  <2>2. LockOwner'
    BY <1>5 DEF BindFails, LockOwner
  <2>3. Unlinkers'
    BY <1>5 DEF BindFails, Unlinkers
  <2>4. OnePidFile'
    BY <1>5 DEF BindFails, OnePidFile, Unlinkers
  <2>5. TextOK'
    BY <1>5 DEF BindFails, TextOK, Alive
  <2> QED
    BY <2>1, <2>2, <2>3, <2>4, <2>5
<1> QED
  BY <1>1, <1>2, <1>3, <1>4, <1>5

\* A daemon crashes or is stopped.
LEMMA EndInv ==
    ASSUME IInv, NEW d \in Daemons,
           Crash(d) \/ Shutdown(d) \/ RemovePid(d) \/ RemoveSocket(d) \/ Quit(d)
    PROVE  IInv'
<1> USE LifecycleAssumption DEF IInv, Processes, TypeOK, ClientSteps,
        DaemonSteps, Locked, paths, files, client, ledger, Goto, Fail, Exit,
        Unlocked, Listening
<1>1. CASE Crash(d)
  <2>1. TypeOK'
    BY <1>1 DEF Crash
  <2>2. LockOwner'
    BY <1>1 DEF Crash, LockOwner
  <2>3. Unlinkers'
    BY <1>1 DEF Crash, Unlinkers
  <2>4. OnePidFile'
    BY <1>1 DEF Crash, OnePidFile, Unlinkers
  <2>5. TextOK'
    BY <1>1 DEF Crash, TextOK, Alive
  <2> QED
    BY <2>1, <2>2, <2>3, <2>4, <2>5
<1>2. CASE Shutdown(d)
  <2>1. TypeOK'
    BY <1>2 DEF Shutdown
  <2>2. LockOwner'
    BY <1>2 DEF Shutdown, LockOwner
  <2>3. Unlinkers'
    BY <1>2 DEF Shutdown, Unlinkers
  <2>4. OnePidFile'
    BY <1>2 DEF Shutdown, OnePidFile, Unlinkers
  <2>5. TextOK'
    BY <1>2 DEF Shutdown, TextOK, Alive
  <2> QED
    BY <2>1, <2>2, <2>3, <2>4, <2>5
<1>3. CASE RemovePid(d)
  <2>1. TypeOK'
    BY <1>3 DEF RemovePid
  <2>2. LockOwner'
    BY <1>3 DEF RemovePid, LockOwner
  <2>3. Unlinkers'
    BY <1>3 DEF RemovePid, Unlinkers
  <2>4. OnePidFile'
    BY <1>3 DEF RemovePid, OnePidFile, Unlinkers
  <2>5. TextOK'
    BY <1>3 DEF RemovePid, TextOK, Alive
  <2> QED
    BY <2>1, <2>2, <2>3, <2>4, <2>5
<1>4. CASE RemoveSocket(d)
  <2>1. TypeOK'
    BY <1>4 DEF RemoveSocket
  <2>2. LockOwner'
    BY <1>4 DEF RemoveSocket, LockOwner
  <2>3. Unlinkers'
    BY <1>4 DEF RemoveSocket, Unlinkers
  <2>4. OnePidFile'
    BY <1>4 DEF RemoveSocket, OnePidFile, Unlinkers
  <2>5. TextOK'
    BY <1>4 DEF RemoveSocket, TextOK, Alive
  <2> QED
    BY <2>1, <2>2, <2>3, <2>4, <2>5
<1>5. CASE Quit(d)
  <2>1. TypeOK'
    BY <1>5 DEF Quit
  <2>2. LockOwner'
    BY <1>5 DEF Quit, LockOwner
  <2>3. Unlinkers'
    BY <1>5 DEF Quit, Unlinkers
  <2>4. OnePidFile'
    BY <1>5 DEF Quit, OnePidFile, Unlinkers
  <2>5. TextOK'
    BY <1>5 DEF Quit, TextOK, Alive
  <2> QED
    BY <2>1, <2>2, <2>3, <2>4, <2>5
<1> QED
  BY <1>1, <1>2, <1>3, <1>4, <1>5

-----------------------------------------------------------------------------
(* The socket of a daemon that listens *)

\* A step that leaves the socket's path alone and lets no daemon begin to listen
\* keeps every listener reachable.
LEMMA ReachableKept ==
    ASSUME Reachable, socket' = socket,
           kills' = 0 /\ stops' = 0 => kills = 0 /\ stops = 0,
           \A d \in Daemons : pc'[d] = "listen" => pc[d] = "listen"
    PROVE  Reachable'
BY DEF Reachable, Listening

\* The paths are changed by the one daemon past the lock, or after a kill or a stop.
LEMMA ReachableStep ==
    ASSUME IInv, Reachable, [Next]_vars
    PROVE  Reachable'
<1> USE DEF paths, files, client, ledger, Goto
<1>a. /\ TypeOK /\ Unlinkers /\ OneDaemon
      /\ pc \in [Processes -> ClientSteps \cup DaemonSteps]
      /\ kills \in Nat /\ stops \in Nat
  BY IInvSafe, LifecycleAssumption DEF IInv, TypeOK
<1>b. Clients \subseteq Processes /\ Daemons \subseteq Processes /\ Clients \cap Daemons = {}
  BY LifecycleAssumption DEF Processes
<1>1. ASSUME NEW c \in Clients,
             Connect(c) \/ OpenToSpawn(c) \/ TryLock(c) \/ Spawn(c) \/ Release(c)
               \/ SpawnFails(c)
      PROVE  Reachable'
  <2>1. socket' = socket /\ kills' = kills /\ stops' = stops
    BY <1>1 DEF Connect, OpenToSpawn, TryLock, Spawn, Release, SpawnFails
  <2>2. \A d \in Daemons : pc'[d] = "listen" => pc[d] = "listen"
    BY <1>1, <1>a, <1>b DEF Connect, OpenToSpawn, TryLock, Spawn, Release, SpawnFails
  <2> QED
    BY <2>1, <2>2, ReachableKept
<1>2. ASSUME NEW c \in Clients,
             SocketFound(c) \/ TimeOut(c) \/ Handshake(c) \/ ReadPid(c) \/ UnlinkPid(c)
      PROVE  Reachable'
  <2>1. socket' = socket /\ kills' = kills /\ stops' = stops
    BY <1>2 DEF SocketFound, TimeOut, Handshake, ReadPid, UnlinkPid
  <2>2. \A d \in Daemons : pc'[d] = pc[d]
    BY <1>2, <1>a, <1>b DEF SocketFound, TimeOut, Handshake, ReadPid, UnlinkPid
  <2> QED
    BY <2>1, <2>2, ReachableKept
<1>3. ASSUME NEW c \in Clients, Kill(c) \/ UnlinkSocket(c)
      PROVE  Reachable'
  <2>1. kills' > 0
    BY <1>3, <1>a DEF Kill, UnlinkSocket, Unlinkers
  <2> QED
    BY <2>1 DEF Reachable
<1>4. ASSUME NEW d \in Daemons,
             UserSpawn(d) \/ OpenPid(d) \/ LockPid(d) \/ Truncate(d) \/ WritePid(d)
               \/ RemovePid(d)
      PROVE  Reachable'
  <2>1. socket' = socket /\ kills' = kills /\ stops' = stops
    BY <1>4 DEF UserSpawn, OpenPid, LockPid, Truncate, WritePid, RemovePid
  <2>2. \A e \in Daemons : pc'[e] = "listen" => pc[e] = "listen"
    BY <1>4, <1>a, <1>b DEF UserSpawn, OpenPid, LockPid, Truncate, WritePid, RemovePid
  <2> QED
    BY <2>1, <2>2, ReachableKept
<1>5. ASSUME NEW d \in Daemons,
             Refused(d) \/ BindFails(d) \/ Crash(d) \/ Quit(d)
      PROVE  Reachable'
  <2>1. socket' = socket /\ kills' = kills /\ stops' = stops
    BY <1>5 DEF Refused, BindFails, Crash, Quit
  <2>2. \A e \in Daemons : pc'[e] = "listen" => pc[e] = "listen"
    BY <1>5, <1>a, <1>b DEF Refused, BindFails, Crash, Quit, Exit
  <2> QED
    BY <2>1, <2>2, ReachableKept
<1>6. ASSUME NEW d \in Daemons, Shutdown(d) \/ RemoveSocket(d)
      PROVE  Reachable'
  <2>1. stops' > 0
    BY <1>6, <1>a DEF Shutdown, RemoveSocket, Unlinkers
  <2> QED
    BY <2>1 DEF Reachable
<1>7. ASSUME NEW d \in Daemons, ClearSocket(d) \/ Bind(d)
      PROVE  Reachable'
  <2>1. /\ pc[d] \in {"clear", "bind"} /\ kills' = kills /\ stops' = stops
        /\ \A e \in Daemons \ {d} : pc'[e] = pc[e]
        /\ pc'[d] = "bind" \/ (pc'[d] = "listen" /\ socket' = d)
    BY <1>7, <1>a, <1>b DEF ClearSocket, Bind
  <2>2. SUFFICES ASSUME kills = 0, stops = 0, NEW e \in Daemons \ {d}, pc[e] = "listen"
                 PROVE  FALSE
    BY <2>1 DEF Reachable, Listening
  <2> QED
    BY <1>a, <2>1, <2>2 DEF OneDaemon, Locked
<1>8. CASE UNCHANGED vars
  BY <1>8, ReachableKept DEF vars
<1> QED
  BY <1>1, <1>2, <1>3, <1>4, <1>5, <1>6, <1>7, <1>8 DEF Next, ClientStep, DaemonStep

-----------------------------------------------------------------------------
(* What restarts can destroy *)

Restarting == {"readPid", "kill", "unlinkSocket", "unlinkPid"}
Differing == {c \in Clients : \E e \in Clients : Version[e] # Version[c]}

\* The clients that have killed.
Killers == {c \in Clients : c \in again \/ pc[c] \in {"unlinkSocket", "unlinkPid"}}

\* The pid files that were unlinked and that a process still has open.
Astray == {f \in Files : f # pidPath /\ \E p \in Processes : file[p] = f}

\* The daemons about to unlink the pid file.
Leaving == {d \in Daemons : pc[d] = "removePid"}

\* Every daemon is of the build of a client.
Built == \A d \in Daemons : pc[d] # "off" => \E e \in Clients : version[d] = Version[e]

\* A client shakes hands with a daemon that has started, whose version is settled.
PeerOK ==
    \A c \in Clients : pc[c] = "handshake" => peer[c] \in Daemons /\ pc[peer[c]] # "off"

\* A client restarts for another build, and has not done so before.
Outdated ==
    /\ again \subseteq Differing
    /\ \A c \in Clients : pc[c] \in Restarting => c \in Differing /\ c \notin again

KillsCounted == kills = Cardinality(Killers)

\* Restarts and stops have unlinked as many pid files as are astray, or more.
FilesCounted == Cardinality(Astray) + Cardinality(Leaving) <= Cardinality(again) + stops

Restarts == Built /\ PeerOK /\ Outdated /\ KillsCounted /\ FilesCounted

\* The counts are of finite sets.
LEMMA Counts ==
    ASSUME TypeOK
    PROVE  /\ IsFiniteSet(Astray) /\ IsFiniteSet(Leaving) /\ IsFiniteSet(again) /\ IsFiniteSet(Killers)
           /\ Cardinality(Astray) \in Nat /\ Cardinality(Leaving) \in Nat
           /\ Cardinality(again) \in Nat /\ Cardinality(Killers) \in Nat
           /\ stops \in Nat /\ kills \in Nat
<1>1. IsFiniteSet(Files) /\ IsFiniteSet(Daemons) /\ IsFiniteSet(Clients)
  BY LifecycleAssumption
<1>2. /\ Astray \in SUBSET Files /\ Leaving \in SUBSET Daemons
      /\ again \in SUBSET Clients /\ Killers \in SUBSET Clients
  BY DEF Astray, Leaving, Killers, TypeOK
<1>3. IsFiniteSet(Astray) /\ IsFiniteSet(Leaving) /\ IsFiniteSet(again) /\ IsFiniteSet(Killers)
  BY <1>1, <1>2, FS_Subset
<1>4. stops \in Nat /\ kills \in Nat
  BY LifecycleAssumption DEF TypeOK
<1> QED
  BY <1>3, <1>4, FS_CardinalityType

\* Opening the pid file, and closing one, lets none go astray.
LEMMA NoneAstray ==
    ASSUME NEW q \in Processes,
           \/ OpenPidFile(q) /\ file \in [Processes -> Files \cup {None}]
           \/ /\ pidPath' = pidPath
              /\ \A p \in Processes : file'[p] = file[p] \/ file'[p] = None
    PROVE  Astray' \subseteq Astray
<1> USE LifecycleAssumption DEF Astray
<1>1. CASE OpenPidFile(q) /\ file \in [Processes -> Files \cup {None}]
  <2>1. CASE pidPath # None
    BY <1>1, <2>1 DEF OpenPidFile
  <2>2. CASE pidPath = None
    <3>1. PICK f \in Unused : pidPath' = f /\ file' = [file EXCEPT ![q] = f]
      BY <1>1, <2>2 DEF OpenPidFile
    <3> QED
      BY <1>1, <2>2, <3>1
  <2> QED
    BY <2>1, <2>2
<1>2. CASE /\ pidPath' = pidPath
           /\ \A p \in Processes : file'[p] = file[p] \/ file'[p] = None
  BY <1>2
<1> QED
  BY <1>1, <1>2

\* Steps that launch nobody, kill nobody and unlink no pid file.
LEMMA RestartsKept ==
    ASSUME TypeOK, TypeOK', Restarts,
           UNCHANGED <<version, again, stops, kills>>,
           \A d \in Daemons : (pc'[d] = "off" <=> pc[d] = "off")
                              /\ (pc'[d] = "removePid" => pc[d] = "removePid"),
           \A c \in Clients :
               /\ pc'[c] = "handshake" =>
                    \/ pc[c] = "handshake" /\ peer'[c] = peer[c]
                    \/ peer'[c] \in Daemons /\ pc[peer'[c]] # "off"
               /\ pc'[c] \in Restarting => pc[c] \in Restarting
               /\ pc'[c] \in {"unlinkSocket", "unlinkPid"} <=> pc[c] \in {"unlinkSocket", "unlinkPid"},
           Astray' \subseteq Astray
    PROVE  Restarts'
<1>1. Built' /\ Outdated'
  BY DEF Restarts, Built, Outdated
<1>2. PeerOK'
  BY DEF Restarts, PeerOK
<1>3. KillsCounted'
  <2>1. Killers' = Killers
    BY DEF Killers
  <2> QED
    BY <2>1 DEF Restarts, KillsCounted
<1>4. FilesCounted'
  <2>1. Leaving' \subseteq Leaving
    BY DEF Leaving
  <2>2. Cardinality(Astray') <= Cardinality(Astray) /\ Cardinality(Leaving') <= Cardinality(Leaving)
    BY <2>1, Counts, FS_Subset
  <2>3. Cardinality(Astray)' \in Nat /\ Cardinality(Leaving)' \in Nat
    BY Counts, <2>1, FS_Subset, FS_CardinalityType
  <2> QED
    BY <2>2, <2>3, Counts DEF Restarts, FilesCounted
<1> QED
  BY <1>1, <1>2, <1>3, <1>4 DEF Restarts

\* A daemon is launched, by a client or by hand.
LEMMA LaunchCounted ==
    ASSUME TypeOK, Restarts, NEW c \in Clients, NEW d \in Daemons, Launch(d, Version[c]),
           UNCHANGED <<again, peer, stops, kills, pidPath, file>>,
           pc'[d] = "openPid",
           \A q \in Processes \ {d} : pc'[q] = pc[q] \/ (pc[q] = "spawn" /\ pc'[q] = "release")
    PROVE  Restarts'
<1>1. Clients \subseteq Processes \ {d} /\ Daemons \subseteq Processes
  BY LifecycleAssumption DEF Processes
<1>2. pc[d] = "off" /\ version' = [version EXCEPT ![d] = Version[c]] /\ version \in [Daemons -> Nat]
  BY DEF Launch, TypeOK
<1>3. Built'
  BY <1>1, <1>2 DEF Restarts, Built
<1>4. PeerOK'
  <2> SUFFICES ASSUME NEW e \in Clients, pc'[e] = "handshake"
               PROVE  peer[e] \in Daemons /\ pc'[peer[e]] # "off"
    BY DEF PeerOK
  <2>1. peer[e] \in Daemons /\ pc[peer[e]] # "off"
    BY <1>1 DEF Restarts, PeerOK
  <2> QED
    BY <1>1, <2>1
<1>5. Outdated'
  BY <1>1 DEF Restarts, Outdated, Restarting, Differing
<1>6. KillsCounted'
  <2>1. Killers' = Killers
    BY <1>1 DEF Killers
  <2> QED
    BY <2>1 DEF Restarts, KillsCounted
<1>7. FilesCounted'
  <2>1. Leaving' = Leaving /\ Astray' = Astray
    BY <1>1, <1>2 DEF Leaving, Astray
  <2> QED
    BY <2>1 DEF Restarts, FilesCounted
<1> QED
  BY <1>3, <1>4, <1>5, <1>6, <1>7 DEF Restarts

\* A handshake begins a restart with a daemon of another build only.
LEMMA HandshakeCounted ==
    ASSUME TypeOK, Restarts, NEW c \in Clients, Handshake(c)
    PROVE  Restarts'
<1> DEFINE answer == CASE ~Alive(peer[c]) -> "failed"
                       [] version[peer[c]] = Version[c] -> "connected"
                       [] c \in again -> "failed"
                       [] OTHER -> "readPid"
<1>1. /\ pc[c] = "handshake" /\ pc' = [pc EXCEPT ![c] = answer]
      /\ UNCHANGED <<paths, files, file, version, client, ledger>>
  BY DEF Handshake, Goto
<1>2. /\ answer \in {"failed", "connected", "readPid"}
      /\ answer = "readPid" => version[peer[c]] # Version[c] /\ c \notin again
  OBVIOUS
<1> HIDE DEF answer
<1>3. Clients \subseteq Processes /\ Daemons \subseteq Processes /\ Clients \cap Daemons = {}
  BY LifecycleAssumption DEF Processes
<1>4. /\ \A q \in Processes \ {c} : pc'[q] = pc[q]
      /\ pc'[c] = answer
  BY <1>1, <1>3 DEF TypeOK
<1>5. UNCHANGED <<pidPath, file, version, peer, again, stops, kills>>
  BY <1>1 DEF paths, client, ledger
<1>6. Built' /\ PeerOK'
  BY <1>2, <1>3, <1>4, <1>5 DEF Restarts, Built, PeerOK
<1>7. answer = "readPid" => c \in Differing
  <2>1. peer[c] \in Daemons /\ pc[peer[c]] # "off"
    BY <1>1 DEF Restarts, PeerOK
  <2>2. PICK e \in Clients : version[peer[c]] = Version[e]
    BY <2>1 DEF Restarts, Built
  <2> QED
    BY <1>2, <2>2 DEF Differing
<1>8. Outdated'
  BY <1>2, <1>3, <1>4, <1>5, <1>7 DEF Restarts, Outdated, Restarting, Differing
<1>9. KillsCounted'
  <2>1. Killers' = Killers
    BY <1>1, <1>2, <1>3, <1>4, <1>5 DEF Killers
  <2> QED
    BY <1>5, <2>1 DEF Restarts, KillsCounted
<1>10. FilesCounted'
  <2>1. Leaving' = Leaving /\ Astray' = Astray
    BY <1>3, <1>4, <1>5 DEF Leaving, Astray
  <2> QED
    BY <1>5, <2>1 DEF Restarts, FilesCounted
<1> QED
  BY <1>6, <1>8, <1>9, <1>10 DEF Restarts

\* A client that kills has not killed before.
LEMMA KillCounted ==
    ASSUME TypeOK, Restarts, NEW c \in Clients, Kill(c)
    PROVE  Restarts'
<1>1. Clients \subseteq Processes /\ Daemons \subseteq Processes /\ Clients \cap Daemons = {}
  BY LifecycleAssumption DEF Processes
<1>2. victim[c] \in Daemons \cup {None} /\ None \notin Clients /\ c \notin Daemons
  BY <1>1, LifecycleAssumption DEF TypeOK
<1>3. /\ pc[c] = "kill" /\ pc'[c] = "unlinkSocket" /\ kills' = kills + 1
      /\ UNCHANGED <<pidPath, version, peer, again, stops>>
      /\ \A q \in Processes \ {c} : pc'[q] = pc[q] \/ (pc'[q] = "dead" /\ q \in Daemons /\ pc[q] # "off")
      /\ \A p \in Processes : file'[p] = file[p] \/ file'[p] = None
  BY <1>1, <1>2 DEF Kill, Goto, paths, client, TypeOK, Alive
<1>4. Built' /\ PeerOK'
  BY <1>1, <1>3 DEF Restarts, Built, PeerOK
<1>5. Outdated' /\ c \notin again
  BY <1>1, <1>3 DEF Restarts, Outdated, Restarting, Differing
<1>6. KillsCounted'
  <2>1. c \notin Killers /\ Killers' = Killers \cup {c}
    BY <1>1, <1>3, <1>5 DEF Killers
  <2>2. Cardinality(Killers \cup {c}) = Cardinality(Killers) + 1
    BY <2>1, Counts, FS_AddElement
  <2> QED
    BY <1>3, <2>1, <2>2 DEF Restarts, KillsCounted
<1>7. FilesCounted'
  <2>1. Leaving' \subseteq Leaving
    BY <1>1, <1>3 DEF Leaving
  <2>2. Astray' \subseteq Astray
    BY <1>1, <1>3, NoneAstray
  <2>3. /\ Cardinality(Astray') <= Cardinality(Astray) /\ Cardinality(Leaving') <= Cardinality(Leaving)
        /\ Cardinality(Astray') \in Nat /\ Cardinality(Leaving') \in Nat
    BY <2>1, <2>2, Counts, FS_Subset, FS_CardinalityType
  <2> QED
    BY <1>3, <2>3, Counts DEF Restarts, FilesCounted
<1> QED
  BY <1>4, <1>5, <1>6, <1>7 DEF Restarts

\* One element more makes a set larger by one at most.
LEMMA OneMore ==
    ASSUME NEW S, NEW x, IsFiniteSet(S)
    PROVE  /\ IsFiniteSet(S \cup {x})
           /\ Cardinality(S) \in Nat /\ Cardinality(S \cup {x}) \in Nat
           /\ Cardinality(S \cup {x}) <= Cardinality(S) + 1
<1>1. /\ IsFiniteSet(S \cup {x})
      /\ Cardinality(S \cup {x}) = IF x \in S THEN Cardinality(S) ELSE Cardinality(S) + 1
  BY FS_AddElement
<1>2. Cardinality(S) \in Nat
  BY FS_CardinalityType
<1> QED
  BY <1>1, <1>2

\* The pid file is unlinked: one more is astray.
LEMMA UnlinkAstray ==
    ASSUME TypeOK, pidPath' = None, file' = file
    PROVE  /\ Cardinality(Astray') \in Nat
           /\ Cardinality(Astray') <= Cardinality(Astray) + 1
<1> DEFINE all == Astray \cup {pidPath}
<1>1. Astray' \subseteq all
  BY DEF Astray
<1>2. /\ IsFiniteSet(all) /\ Cardinality(Astray) \in Nat /\ Cardinality(all) \in Nat
      /\ Cardinality(all) <= Cardinality(Astray) + 1
  BY Counts, OneMore
<1> HIDE DEF all
<1>3. Cardinality(Astray') \in Nat /\ Cardinality(Astray') <= Cardinality(all)
  BY <1>1, <1>2, FS_Subset, FS_CardinalityType
<1> QED
  BY <1>2, <1>3

\* A client or a daemon unlinks the pid file.
LEMMA UnlinkCounted ==
    ASSUME TypeOK, Restarts, NEW c \in Clients, UnlinkPid(c)
    PROVE  Restarts'
<1>1. Clients \subseteq Processes /\ Daemons \subseteq Processes /\ Clients \cap Daemons = {}
  BY LifecycleAssumption DEF Processes
<1>2. /\ pc[c] = "unlinkPid" /\ pc'[c] = "connect" /\ \A q \in Processes \ {c} : pc'[q] = pc[q]
      /\ pidPath' = None /\ file' = file /\ version' = version
      /\ again' = again \cup {c} /\ peer' = [peer EXCEPT ![c] = None]
      /\ stops' = stops /\ kills' = kills
  BY <1>1 DEF UnlinkPid, Goto, TypeOK, ledger
<1>3. c \in Differing /\ c \notin again
  BY <1>2 DEF Restarts, Outdated, Restarting
<1>4. Built' /\ PeerOK'
  BY <1>1, <1>2 DEF Restarts, Built, PeerOK, TypeOK
<1>5. Outdated'
  BY <1>1, <1>2, <1>3 DEF Restarts, Outdated, Restarting, Differing
<1>6. KillsCounted'
  <2>1. Killers' = Killers
    BY <1>1, <1>2 DEF Killers
  <2> QED
    BY <1>2, <2>1 DEF Restarts, KillsCounted
<1>7. FilesCounted'
  <2>1. Leaving' = Leaving
    BY <1>1, <1>2 DEF Leaving
  <2>2. Cardinality(again') = Cardinality(again) + 1
    BY <1>2, <1>3, Counts, FS_AddElement
  <2>3. Cardinality(Astray') \in Nat /\ Cardinality(Astray') <= Cardinality(Astray) + 1
    BY <1>2, UnlinkAstray
  <2> QED
    BY <1>2, <2>1, <2>2, <2>3, Counts DEF Restarts, FilesCounted
<1> QED
  BY <1>4, <1>5, <1>6, <1>7 DEF Restarts

LEMMA StopCounted ==
    ASSUME TypeOK, Restarts, NEW d \in Daemons, Shutdown(d) \/ RemovePid(d)
    PROVE  Restarts'
<1>1. Clients \subseteq Processes /\ Daemons \subseteq Processes /\ Clients \cap Daemons = {}
  BY LifecycleAssumption DEF Processes
<1>2. /\ pc[d] # "off" /\ pc'[d] \notin {"off"} /\ \A q \in Processes \ {d} : pc'[q] = pc[q]
      /\ UNCHANGED <<file, version, again, peer, kills>>
  BY <1>1 DEF Shutdown, RemovePid, Listening, Goto, TypeOK, client, ledger
<1>3. Built' /\ PeerOK' /\ Outdated'
  BY <1>1, <1>2 DEF Restarts, Built, PeerOK, Outdated, Restarting, Differing
<1>4. KillsCounted'
  <2>1. Killers' = Killers
    BY <1>1, <1>2 DEF Killers
  <2> QED
    BY <1>2, <2>1 DEF Restarts, KillsCounted
<1>5. FilesCounted'
  <2>1. CASE Shutdown(d)
    <3>1. pidPath' = pidPath /\ stops' = stops + 1 /\ pc[d] = "listen" /\ pc'[d] = "removePid"
      BY <1>1, <2>1 DEF Shutdown, Listening, Goto, TypeOK, paths
    <3>2. Astray' = Astray
      BY <1>2, <3>1 DEF Astray
    <3>3. Leaving' = Leaving \cup {d} /\ d \notin Leaving
      BY <1>1, <1>2, <3>1 DEF Leaving
    <3>4. Cardinality(Leaving') = Cardinality(Leaving) + 1
      BY <3>3, Counts, FS_AddElement
    <3> QED
      BY <1>2, <3>1, <3>2, <3>4, Counts DEF Restarts, FilesCounted
  <2>2. CASE RemovePid(d)
    <3>1. pidPath' = None /\ stops' = stops /\ pc[d] = "removePid" /\ pc'[d] = "removeSocket"
      BY <1>1, <2>2 DEF RemovePid, Goto, TypeOK, ledger
    <3>2. Leaving' = Leaving \ {d} /\ d \in Leaving
      BY <1>1, <1>2, <3>1 DEF Leaving
    <3>3. Cardinality(Leaving') = Cardinality(Leaving) - 1
      BY <3>2, Counts, FS_RemoveElement
    <3>4. Cardinality(Astray') \in Nat /\ Cardinality(Astray') <= Cardinality(Astray) + 1
      BY <1>2, <3>1, UnlinkAstray
    <3> QED
      BY <1>2, <3>1, <3>3, <3>4, Counts DEF Restarts, FilesCounted
  <2> QED
    BY <2>1, <2>2
<1> QED
  BY <1>3, <1>4, <1>5 DEF Restarts

LEMMA RestartsStep ==
    ASSUME TypeOK, TypeOK', Restarts, [Next]_vars
    PROVE  Restarts'
<1> USE DEF paths, files, client, ledger, Goto
<1>a. /\ pc \in [Processes -> ClientSteps \cup DaemonSteps]
      /\ file \in [Processes -> Files \cup {None}]
      /\ peer \in [Clients -> Daemons \cup {None}]
      /\ socket \in Daemons \cup {None}
  BY DEF TypeOK
<1>b. Clients \subseteq Processes /\ Daemons \subseteq Processes /\ Clients \cap Daemons = {}
  BY LifecycleAssumption DEF Processes
<1>1. ASSUME NEW c \in Clients,
             Connect(c) \/ OpenToSpawn(c) \/ TryLock(c) \/ SpawnFails(c) \/ Release(c)
               \/ SocketFound(c) \/ TimeOut(c) \/ ReadPid(c) \/ UnlinkSocket(c)
      PROVE  Restarts'
  <2>1. /\ UNCHANGED <<version, again, stops, kills>>
        /\ \A q \in Processes \ {c} : pc'[q] = pc[q]
        /\ \A e \in Clients \ {c} : peer'[e] = peer[e]
    BY <1>1, <1>a, <1>b
       DEF Connect, OpenToSpawn, TryLock, SpawnFails, Release, SocketFound, TimeOut, ReadPid,
           UnlinkSocket
  <2>2. /\ pc'[c] = "handshake" => peer'[c] \in Daemons /\ pc[peer'[c]] # "off"
        /\ pc'[c] \in Restarting => pc[c] \in Restarting
        /\ pc'[c] \in {"unlinkSocket", "unlinkPid"} <=> pc[c] \in {"unlinkSocket", "unlinkPid"}
    BY <1>1, <1>a, <1>b
       DEF Connect, OpenToSpawn, TryLock, SpawnFails, Release, SocketFound, TimeOut, ReadPid,
           UnlinkSocket, Restarting, Found, Listening
  <2>3. Astray' \subseteq Astray
    <3>1. CASE OpenToSpawn(c)
      BY <1>a, <1>b, <3>1, NoneAstray DEF OpenToSpawn
    <3>2. CASE Connect(c) \/ TryLock(c) \/ SpawnFails(c) \/ Release(c) \/ SocketFound(c)
                 \/ TimeOut(c) \/ ReadPid(c) \/ UnlinkSocket(c)
      <4>1. pidPath' = pidPath /\ \A p \in Processes : file'[p] = file[p] \/ file'[p] = None
        BY <1>a, <3>2
           DEF Connect, TryLock, SpawnFails, Release, SocketFound, TimeOut, ReadPid, UnlinkSocket
      <4> QED
        BY <1>b, <4>1, NoneAstray
    <3> QED
      BY <1>1, <3>1, <3>2
  <2> QED
    BY <1>b, <2>1, <2>2, <2>3, RestartsKept
<1>2. ASSUME NEW d \in Daemons,
             OpenPid(d) \/ LockPid(d) \/ Refused(d) \/ Truncate(d) \/ WritePid(d)
               \/ ClearSocket(d) \/ Bind(d) \/ BindFails(d) \/ Crash(d) \/ RemoveSocket(d)
               \/ Quit(d)
      PROVE  Restarts'
  <2>1. /\ UNCHANGED <<version, again, peer, stops, kills>>
        /\ \A q \in Processes \ {d} : pc'[q] = pc[q]
        /\ pc[d] # "off" /\ pc'[d] \notin {"off", "removePid"}
    BY <1>2, <1>a, <1>b
       DEF OpenPid, LockPid, Refused, Truncate, WritePid, ClearSocket, Bind, BindFails, Crash,
           RemoveSocket, Quit, Exit, Alive
  <2>2. Astray' \subseteq Astray
    <3>1. CASE OpenPid(d)
      BY <1>a, <1>b, <3>1, NoneAstray DEF OpenPid
    <3>2. CASE LockPid(d) \/ Refused(d) \/ Truncate(d) \/ WritePid(d) \/ ClearSocket(d) \/ Bind(d)
                 \/ BindFails(d) \/ Crash(d) \/ RemoveSocket(d) \/ Quit(d)
      <4>1. pidPath' = pidPath /\ \A p \in Processes : file'[p] = file[p] \/ file'[p] = None
        BY <1>a, <3>2
           DEF LockPid, Refused, Truncate, WritePid, ClearSocket, Bind, BindFails, Crash,
               RemoveSocket, Quit, Exit
      <4> QED
        BY <1>b, <4>1, NoneAstray
    <3> QED
      BY <1>2, <3>1, <3>2
  <2> QED
    BY <1>b, <2>1, <2>2, RestartsKept
<1>3. ASSUME NEW c \in Clients, Spawn(c)
      PROVE  Restarts'
  <2>1. PICK d \in Daemons : /\ Launch(d, Version[c])
                             /\ pc' = [pc EXCEPT ![c] = "release", ![d] = "openPid"]
    BY <1>3 DEF Spawn
  <2>2. /\ pc[c] = "spawn" /\ pc'[d] = "openPid"
        /\ \A q \in Processes \ {d} : pc'[q] = pc[q] \/ (pc[q] = "spawn" /\ pc'[q] = "release")
    BY <1>3, <1>a, <1>b, <2>1 DEF Spawn
  <2>3. UNCHANGED <<again, peer, stops, kills, pidPath, file>>
    BY <1>3 DEF Spawn
  <2> QED
    BY <2>1, <2>2, <2>3, LaunchCounted
<1>4. ASSUME NEW d \in Daemons, UserSpawn(d)
      PROVE  Restarts'
  <2>1. PICK c \in Clients : Launch(d, Version[c])
    BY <1>4 DEF UserSpawn
  <2>2. /\ pc'[d] = "openPid" /\ \A q \in Processes \ {d} : pc'[q] = pc[q]
        /\ UNCHANGED <<again, peer, stops, kills, pidPath, file>>
    BY <1>4, <1>a, <1>b DEF UserSpawn
  <2> QED
    BY <2>1, <2>2, LaunchCounted
<1>5. CASE UNCHANGED vars
  <2>1. UNCHANGED <<pc, pidPath, file, version, again, peer, stops, kills>>
    BY <1>5 DEF vars
  <2> QED
    BY <2>1 DEF Restarts, Built, PeerOK, Outdated, KillsCounted, FilesCounted, Killers, Astray,
                Leaving
<1> QED
  BY <1>1, <1>2, <1>3, <1>4, <1>5, HandshakeCounted, KillCounted, UnlinkCounted, StopCounted
     DEF Next, ClientStep, DaemonStep

\* Daemons past a lock have different files open, each the one at the path or astray.
LEMMA RestartsSafe == IInv /\ Restarts => RestartsContained
<1> SUFFICES ASSUME IInv, Restarts PROVE RestartsContained
  OBVIOUS
<1> DEFINE Past == {d \in Daemons : pc[d] \in Locked}
           opened == [d \in Past |-> file[d]]
           Held == Astray \cup {pidPath}
<1>1. TypeOK /\ LockOwner /\ Daemons \subseteq Processes
  BY DEF IInv, Processes
<1>2. ASSUME NEW d \in Past PROVE file[d] \in Held /\ flock[file[d]] = d
  <2>1. d \in Processes /\ pc[d] \in Locked
    BY <1>1
  <2>2. file[d] \in Files
    BY <1>1, <2>1 DEF TypeOK
  <2> QED
    BY <1>1, <2>1, <2>2 DEF LockOwner, Astray
<1>3. opened \in Injection(Past, Held)
  BY <1>2 DEF Injection, IsInjective
<1>4. IsFiniteSet(Held) /\ Cardinality(Held) <= Cardinality(Astray) + 1
  BY <1>1, Counts, OneMore
<1>5. IsFiniteSet(Past) /\ Cardinality(Past) <= Cardinality(Held)
  BY <1>3, <1>4, FS_Injection
<1>6. Cardinality(Past) <= 1 + Cardinality(again) + stops
  <2>1. Cardinality(Past) \in Nat /\ Cardinality(Held) \in Nat
    BY <1>4, <1>5, FS_CardinalityType
  <2> HIDE DEF Past, Held
  <2> QED
    BY <1>1, <1>4, <1>5, <2>1, Counts DEF Restarts, FilesCounted
<1>7. kills <= Cardinality(Differing)
  <2>1. Killers \subseteq Differing
    BY DEF Killers, Restarts, Outdated, Restarting
  <2>2. IsFiniteSet(Differing)
    BY LifecycleAssumption, FS_Subset DEF Differing
  <2> QED
    BY <2>1, <2>2, FS_Subset DEF Restarts, KillsCounted
<1> QED
  BY <1>6, <1>7 DEF RestartsContained, Differing

-----------------------------------------------------------------------------
(* The theorems *)

LEMMA NextInv == IInv /\ [Next]_vars => IInv'
<1> SUFFICES ASSUME IInv, [Next]_vars PROVE IInv'
  OBVIOUS
<1>1. CASE \E c \in Clients : ClientStep(c) \/ SpawnFails(c) \/ TimeOut(c)
  BY <1>1, SearchInv, SpawnInv, KillInv DEF ClientStep
<1>2. CASE \E d \in Daemons :
              DaemonStep(d) \/ UserSpawn(d) \/ Crash(d) \/ Shutdown(d)
  BY <1>2, StartInv, ServeInv, EndInv DEF DaemonStep
<1>3. CASE UNCHANGED vars
  BY <1>3 DEF vars, paths, files, client, ledger, IInv, TypeOK, LockOwner,
              Unlinkers, OnePidFile, TextOK, Alive
<1> QED
  BY <1>1, <1>2, <1>3 DEF Next

LEMMA Inductive == Spec => []IInv
<1> QED
  BY InitInv, NextInv, PTL DEF Spec

\* The type invariant holds for any number of processes and files, and whoever
\* works on the pid file has it open (lib.rs, spawn.rs).
THEOREM TypeCorrect == Spec => []TypeOK
<1>1. IInv => TypeOK
  BY DEF IInv
<1> QED
  BY <1>1, Inductive, PTL

\* spawn.rs:15: whatever crashes, restarts and kills there are, the process that
\* kill_daemon finds in a pid file is gone or is the daemon that has it locked.
THEOREM PidTrue == Spec => []PidNamesHolder
<1> QED
  BY IInvSafe, Inductive, PTL

\* lib.rs:45: however many daemons are spawned, by whomever, and however many of
\* them crash, one at most is past the lock until somebody unlinks the pid file.
THEOREM LockExcludes == Spec => []OneDaemon
<1> QED
  BY IInvSafe, Inductive, PTL

\* However many daemons race for the socket's path and whatever sockets crashed
\* ones left there, a daemon that listens owns the path until somebody unlinks it.
THEOREM ListenersReachable == Spec => []Reachable
<1>1. Init => Reachable
  BY DEF Init, Reachable, Listening, Processes
<1>2. IInv /\ Reachable /\ [Next]_vars => Reachable'
  BY ReachableStep
<1> QED
  BY <1>1, <1>2, Inductive, PTL DEF Spec

\* client.rs:39-56, spawn.rs:13-30: however many clients restart daemons of other
\* protocols, and in whatever order they kill, unlink and start, each kills once at
\* most, only a client with another protocol around it kills, and of the daemons past
\* a lock at once, all but one are due to a restart or a stop each.
THEOREM RestartsLimited == Spec => []RestartsContained
<1>1. Init => Restarts
  <2> SUFFICES ASSUME Init PROVE Restarts
    OBVIOUS
  <2>1. Clients \subseteq Processes /\ Daemons \subseteq Processes /\ Clients \cap Daemons = {}
    BY LifecycleAssumption DEF Processes
  <2>2. Built /\ PeerOK /\ Outdated
    BY <2>1 DEF Init, Built, PeerOK, Outdated, Restarting
  <2>3. Killers = {} /\ Astray = {} /\ Leaving = {} /\ again = {} /\ kills = 0 /\ stops = 0
    BY <2>1, LifecycleAssumption DEF Init, Killers, Astray, Leaving
  <2> QED
    BY <2>2, <2>3, FS_EmptySet DEF Restarts, KillsCounted, FilesCounted
<1>2. TypeOK /\ TypeOK' /\ Restarts /\ [Next]_vars => Restarts'
  BY RestartsStep
<1>3. IInv /\ Restarts => RestartsContained
  BY RestartsSafe
<1> QED
  BY <1>1, <1>2, <1>3, Inductive, TypeCorrect, PTL DEF Spec

=============================================================================
