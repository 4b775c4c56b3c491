-------------------------------- MODULE Mcp --------------------------------
(***************************************************************************)
(* The MCP server (apps/zebrarag mcp): tool calls that run at the same     *)
(* time, a pool of connections to the daemon they lease one request at a   *)
(* time, and the daemon at the other end, which may stop and be started    *)
(* again by somebody else.  The projects a call may name are read from the *)
(* disk (zrag-store db).                                                   *)
(*                                                                         *)
(* A path is a sequence of letters and slashes.                            *)
(***************************************************************************)
EXTENDS Integers, Sequences, FiniteSets, SequencesExt, FiniteSetsExt

CONSTANTS
    Calls,          \* the tool calls
    Kind(_),        \* of a call: "search", "dep" or "doctor"
    Ref(_),         \* what a call gives as its project: None, a path, a name, a number
    None,
    PoolSize,       \* POOL_SIZE
    Paths,          \* the roots a project may have, in the order of their names
    Cwd,            \* the directory the server runs in
    MaxStops

McpAssumption ==
    /\ PoolSize \in Nat \ {0} /\ MaxStops \in Nat /\ None \notin Calls \cup Nat
    /\ \A c \in Calls : Kind(c) \in {"search", "dep", "doctor"}

Slots == 0..(PoolSize - 1)
Directories == {Paths[i] : i \in DOMAIN Paths}

VARIABLES
    up,             \* a daemon is listening
    age,            \* the number of daemons that have stopped
    next,           \* DaemonPool::next
    client,         \* per slot: the age of the daemon it is connected to, or None
    holder,         \* per slot: the call that holds its mutex, or None
    line,           \* per slot: the calls that wait for its mutex, first come first served
    wire,           \* per slot: the frames of its connection that nobody has read
    call,           \* per call: [pc, root, exhaustive, slot, left]
    lost            \* how many calls ended with "IPC lost, retry"

pool == <<next, client, holder, line>>
vars == <<up, age, pool, wire, call, lost>>

Idle == [pc |-> "idle", root |-> None, exhaustive |-> FALSE, slot |-> 0, left |-> 0]

Init ==
    /\ up \in BOOLEAN /\ age = 0 /\ next = 0
    /\ client = [s \in Slots |-> None] /\ holder = [s \in Slots |-> None]
    /\ line = [s \in Slots |-> <<>>] /\ wire = [s \in Slots |-> <<>>]
    /\ call = [c \in Calls |-> Idle] /\ lost = 0

-----------------------------------------------------------------------------
(* Naming a project.                                                       *)

\* list_projects: by name.  What is indexed comes and goes between two calls.
Listed(projects) == SelectSeq(Paths, LAMBDA p : p \in projects)

\* the first of the list that is in a set
FirstIn(list, set) ==
    LET found == SelectSeq(list, LAMBDA p : p \in set)
    IN IF found = <<>> THEN None ELSE Head(found)

Basename(p) == SubSeq(p, Max({0} \cup {i \in DOMAIN p : p[i] = "/"}) + 1, Len(p))

\* resolve_auto: the first root the directory's name begins with, or the only project
ResolveAuto(list) ==
    LET around == FirstIn(list, {p \in Directories : IsPrefix(p, Cwd)})
    IN IF around = None /\ Len(list) = 1 THEN list[1] ELSE around

\* find_project: a root, a number of the list, a name.  The number n is <<"#", n>>.
FindProject(list, ref) ==
    IF \E i \in DOMAIN list : list[i] = ref THEN ref
    ELSE IF ref[1] = "#" /\ ref[2] \in DOMAIN list THEN list[ref[2]]
    ELSE FirstIn(list, {p \in Directories : Basename(p) = ref})

\* resolve_project
Resolve(list, ref) == IF ref = None THEN ResolveAuto(list) ELSE FindProject(list, ref)

-----------------------------------------------------------------------------
(* The pool.                                                               *)

\* lease begins: a sweep of all slots, from the next in turn
Sweeping(record, root) ==
    [record EXCEPT !.pc = "sweep", !.root = root, !.slot = next, !.left = PoolSize]

\* A tool call: do_search, search_dep, doctor
Start(c) ==
    /\ call[c].pc = "idle"
    /\ \E projects \in SUBSET Directories :
         LET general == Kind(c) = "doctor" /\ Ref(c) = None
             root == IF general THEN None ELSE Resolve(Listed(projects), Ref(c))
         IN \/ /\ root = None /\ ~general
               /\ call' = [call EXCEPT ![c].pc = "failed"] /\ UNCHANGED next
            \/ /\ root # None \/ general
               /\ call' = [call EXCEPT ![c] = Sweeping(@, root)] /\ next' = (next + 1) % PoolSize
    /\ UNCHANGED <<up, age, client, holder, line, wire, lost>>

Take(c, s) ==
    /\ holder[s] = None
    /\ holder' = [holder EXCEPT ![s] = c]
    /\ call' = [call EXCEPT ![c].pc = "leased", ![c].left = 0]

\* lease: try_lock, one slot after the other
TryLock(c) ==
    LET s == call[c].slot IN
    /\ call[c].pc = "sweep" /\ call[c].left > 0
    /\ \/ Take(c, s)
       \/ /\ holder[s] # None
          /\ call' = [call EXCEPT ![c].slot = (s + 1) % PoolSize, ![c].left = @ - 1]
          /\ UNCHANGED holder
    /\ UNCHANGED <<up, age, next, client, line, wire, lost>>

\* lease: every slot was taken, lock().await on the first
Queue(c) ==
    LET s == call[c].slot IN
    /\ call[c].pc = "sweep" /\ call[c].left = 0
    /\ \/ Take(c, s) /\ UNCHANGED line
       \/ /\ holder[s] # None
          /\ line' = [line EXCEPT ![s] = Append(@, c)]
          /\ call' = [call EXCEPT ![c].pc = "queued"]
          /\ UNCHANGED holder
    /\ UNCHANGED <<up, age, next, client, wire, lost>>

\* the guard is dropped: the mutex goes to the first that waits for it
Calling(c, after) ==
    LET s == call[c].slot
        waiting == line[s]
    IN [d \in Calls |-> IF d = c THEN after
                        ELSE IF waiting # <<>> /\ d = waiting[1] THEN [call[d] EXCEPT !.pc = "leased"]
                        ELSE call[d]]

Release(c) ==
    LET s == call[c].slot
        waiting == line[s]
    IN /\ holder' = [holder EXCEPT ![s] = IF waiting = <<>> THEN None ELSE Head(waiting)]
       /\ line' = [line EXCEPT ![s] = IF waiting = <<>> THEN <<>> ELSE Tail(waiting)]

Connected(c) == client[call[c].slot] # None
Alive(s) == up /\ client[s] = age

\* connect_if_needed: there is no model to start a daemon with
Connect(c) ==
    /\ call[c].pc = "leased" /\ ~Connected(c)
    /\ IF up
       THEN /\ client' = [client EXCEPT ![call[c].slot] = age]
            /\ wire' = [wire EXCEPT ![call[c].slot] = <<>>]
            /\ UNCHANGED <<holder, line, call>>
       ELSE /\ Release(c) /\ call' = Calling(c, [Idle EXCEPT !.pc = "failed"])
            /\ UNCHANGED <<client, wire>>
    /\ UNCHANGED <<up, age, next, lost>>

\* Slip: the dead client stays in its slot
Kept(s) == client

\* PoolGuard::poison
Poisoned(s) == [client EXCEPT ![s] = None]

\* Client::request fails: "IPC lost, retry"
Lose(c) ==
    /\ client' = Poisoned(call[c].slot)
    /\ Release(c) /\ call' = Calling(c, [Idle EXCEPT !.pc = "failed"])
    /\ lost' = lost + 1

\* ZebraMcpServer::send, to write_frame
Send(c) ==
    LET s == call[c].slot IN
    /\ call[c].pc = "leased" /\ Connected(c)
    /\ IF Alive(s)
       THEN /\ wire' = [wire EXCEPT ![s] = Append(@, [to |-> c, root |-> call[c].root,
                                         exhaustive |-> call[c].exhaustive, body |-> "request"])]
            /\ call' = [call EXCEPT ![c].pc = "sent"]
            /\ UNCHANGED <<client, holder, line, lost>>
       ELSE Lose(c) /\ UNCHANGED wire
    /\ UNCHANGED <<up, age, next>>

Unanswered(s) == {i \in DOMAIN wire[s] : wire[s][i].body = "request"}

\* the connection closes while the call reads
Broken(c) ==
    LET s == call[c].slot IN
    /\ call[c].pc = "sent" /\ ~Alive(s)
    /\ wire[s] = <<>> \/ wire[s][1].body = "request"
    /\ Lose(c)
    /\ UNCHANGED <<up, age, next, wire>>

\* do_search: an empty answer is asked for once more, exhaustively
Answered(c, body) == Kind(c) # "search" \/ body # "empty" \/ call[c].exhaustive

\* ZebraMcpServer::send, from read_frame
Receive(c) ==
    LET s == call[c].slot
        frame == wire[s][1]
    IN /\ call[c].pc = "sent" /\ wire[s] # <<>> /\ wire[s][1].body # "request"
       /\ wire' = [wire EXCEPT ![s] = Tail(@)]
       /\ Release(c)
       /\ IF Answered(c, frame.body)
          THEN call' = Calling(c, [Idle EXCEPT !.pc = "done"]) /\ UNCHANGED next
          ELSE /\ call' = Calling(c, [Sweeping(call[c], call[c].root) EXCEPT !.exhaustive = TRUE])
               /\ next' = (next + 1) % PoolSize
       /\ UNCHANGED <<up, age, client, lost>>

-----------------------------------------------------------------------------
(* The daemon and the projects.                                            *)

\* handle_connection: one frame after the other.  An answer is a result or an error.
Serve(s) ==
    /\ Alive(s) /\ Unanswered(s) # {}
    /\ LET i == CHOOSE k \in Unanswered(s) : \A j \in Unanswered(s) : k <= j
       IN \E body \in {"answer"} \cup (IF Kind(wire[s][i].to) = "search" THEN {"empty"} ELSE {}) :
            wire' = [wire EXCEPT ![s][i].body = body]
    /\ UNCHANGED <<up, age, pool, call, lost>>

Stop ==
    /\ up /\ age < MaxStops
    /\ up' = FALSE /\ age' = age + 1
    /\ UNCHANGED <<pool, wire, call, lost>>

\* by the terminal UI or the command line, which know a model
Restart ==
    /\ ~up
    /\ up' = TRUE
    /\ UNCHANGED <<age, pool, wire, call, lost>>

CallStep(c) ==
    TryLock(c) \/ Queue(c) \/ Connect(c) \/ Send(c) \/ Broken(c) \/ Receive(c)

Next ==
    \/ \E c \in Calls : Start(c) \/ CallStep(c)
    \/ \E s \in Slots : Serve(s)
    \/ Stop \/ Restart

Spec == Init /\ [][Next]_vars

FairSpec ==
    /\ Spec
    /\ \A c \in Calls : WF_vars(CallStep(c))
    /\ \A s \in Slots : WF_vars(Serve(s))

-----------------------------------------------------------------------------
(* Properties.                                                             *)

\* What a call reads is the answer to its own last request.
AnswersFit ==
    \A c \in Calls :
        LET frames == wire[call[c].slot] IN
        call[c].pc = "sent" /\ frames # <<>> =>
            /\ frames[1].to = c
            /\ frames[1].root = call[c].root /\ frames[1].exhaustive = call[c].exhaustive

\* "IPC lost, retry": the connections to one daemon fail one call each, not more.
EachConnectionLostOnce == lost <= age * PoolSize

\* A slot is nobody's only while nobody waits for it, and whoever waits is in line
\* once.
LinesMove ==
    \A s \in Slots :
        /\ holder[s] = None => line[s] = <<>>
        /\ \A c \in Calls : call[c].pc = "queued" /\ call[c].slot = s
                              <=> \E i \in DOMAIN line[s] : line[s][i] = c
        /\ IsInjective(line[s])

Safe == AnswersFit /\ EachConnectionLostOnce /\ LinesMove

\* Every call ends, daemon or no daemon.
Ends(c) == call[c].pc # "idle" ~> call[c].pc \in {"done", "failed"}

\* "auto-resolve via CWD match" (db.rs): of several projects the one that is found
\* by the directory holds it.
CwdInProject ==
    \A projects \in SUBSET Directories :
        LET root == ResolveAuto(Listed(projects))
        IN root # None /\ Cardinality(projects) > 1
             => Cwd = root \/ IsPrefix(root \o <<"/">>, Cwd)
=============================================================================
