--------------------------- MODULE SessionsProofs ---------------------------
(***************************************************************************)
(* Theorems about Sessions for every set of connections, watcher tasks and *)
(* LoadedProjects and every bound: its type invariant, that coalescing     *)
(* loses no edit, and that no second task of the watcher queues up.        *)
(***************************************************************************)
EXTENDS Sessions, SequenceTheorems, TLAPS

-----------------------------------------------------------------------------
(* The inductive invariant *)

WithProject == {"watch", "debounce", "push", "swap", "lock", "queued", "start",
                "run", "orphan"}

\* Whoever has passed the registry has a LoadedProject.
ProjectOK == \A t \in Tasks : pc[t] \in WithProject => obj[t] \in Objects

\* Whoever indexes holds the indexing lock of its LoadedProject.
LockOK == \A t \in Tasks : pc[t] \in {"start", "run"} => Holds(t)

\* The flag is set exactly while a task of the watcher waits for the lock: a
\* task that finds it set leaves its event to one that has yet to run.
FlagOK ==
    /\ \A o \in Objects : scheduled[o] =>
          \E a \in Autos : pc[a] \in {"lock", "queued"} /\ obj[a] = o
    /\ \A a \in Autos : pc[a] \in {"lock", "queued"} => scheduled[obj[a]]

\* The type invariant in three parts: counters, flags, and what tasks own.
Numbers ==
    /\ disk \in 1..(MaxEdits + 1) /\ indexed \in 0..disk
    /\ watched \in Nat /\ owed \in 0..disk /\ walked \in 0..disk
    /\ cancels \in 0..MaxCancels /\ failures \in 0..MaxFailures

Switches ==
    /\ row \in BOOLEAN /\ debouncing \in BOOLEAN /\ event \in BOOLEAN
    /\ scheduled \in [Objects -> BOOLEAN]
    /\ cancel \in [Objects -> BOOLEAN]

Locals ==
    /\ registry \in Objects \cup {NoProject}
    /\ lock \in [Objects -> Seq(Tasks)]
    /\ pc \in [Tasks -> Steps]
    /\ request \in [Clients -> Requests \cup {"none"}]
    /\ obj \in [Tasks -> Objects \cup {NoProject}]
    /\ seen \in [Tasks -> 0..disk]

Rest == ProjectOK /\ LockOK /\ FlagOK /\ OneTrailingRun /\ NoEventLost

IInv == Numbers /\ Switches /\ Locals /\ Rest

LEMMA IInvTypes == IInv => TypeOK
<1> SUFFICES ASSUME IInv PROVE TypeOK
  OBVIOUS
<1>1. \A t \in Tasks : pc[t] \in {"swap", "lock", "queued", "start", "run"} =>
          obj[t] # NoProject
  BY SessionsAssumption DEF IInv, Rest, ProjectOK, WithProject
<1> QED
  BY <1>1 DEF IInv, Numbers, Switches, Locals, TypeOK

-----------------------------------------------------------------------------
(* Moves *)

\* A move changes the program counter and the locals of one task only.
LEMMA MoveFacts ==
    ASSUME Numbers, Locals, NEW t \in Tasks, NEW step \in Steps,
           NEW o \in Objects \cup {NoProject}, Move(t, step, o)
    PROVE  /\ pc' \in [Tasks -> Steps]
           /\ obj' \in [Tasks -> Objects \cup {NoProject}]
           /\ seen' \in [Tasks -> 0..disk]
           /\ request' \in [Clients -> Requests \cup {"none"}]
           /\ pc'[t] = step
           /\ step \notin {"idle", "closed"} => obj'[t] = o
           /\ \A u \in Tasks : u # t => pc'[u] = pc[u] /\ obj'[u] = obj[u]
<1> USE DEF Move, Locals
<1>1. pc' \in [Tasks -> Steps] /\ pc'[t] = step
  OBVIOUS
<1>2. obj' \in [Tasks -> Objects \cup {NoProject}]
  OBVIOUS
<1>3. seen' \in [Tasks -> 0..disk]
  BY 0 \in 0..disk DEF Numbers
<1>4. request' \in [Clients -> Requests \cup {"none"}]
  OBVIOUS
<1>5. step \notin {"idle", "closed"} => obj'[t] = o
  OBVIOUS
<1>6. \A u \in Tasks : u # t => pc'[u] = pc[u] /\ obj'[u] = obj[u]
  OBVIOUS
<1> QED
  BY <1>1, <1>2, <1>3, <1>4, <1>5, <1>6

\* A connection that neither takes nor gives up the lock, and does not start a
\* run, disturbs nothing the watcher's tasks rely on.
LEMMA ClientMove ==
    ASSUME IInv, NEW c \in Clients, NEW step \in Steps \ {"start", "run"},
           NEW o \in Objects \cup {NoProject}, Move(c, step, o),
           step \in WithProject => o \in Objects,
           UNCHANGED <<lock, scheduled, owed, walked>>
    PROVE  Rest'
<1>1. c \in Tasks /\ c \notin Autos /\ Autos \subseteq Tasks
  BY SessionsAssumption DEF Tasks
<1>2. /\ pc'[c] = step
      /\ step \notin {"idle", "closed"} => obj'[c] = o
      /\ \A u \in Tasks : u # c => pc'[u] = pc[u] /\ obj'[u] = obj[u]
  BY <1>1, MoveFacts DEF IInv
<1>3. \A a \in Autos : pc'[a] = pc[a] /\ obj'[a] = obj[a]
  BY <1>1, <1>2
<1>4. ProjectOK'
  BY <1>2 DEF IInv, Rest, ProjectOK, WithProject
<1>5. LockOK'
  BY <1>2 DEF IInv, Rest, LockOK, Holds
<1>6. FlagOK'
  BY <1>3 DEF IInv, Rest, FlagOK
<1>7. OneTrailingRun'
  BY <1>3 DEF IInv, Rest, OneTrailingRun
<1>8. NoEventLost'
  BY <1>3 DEF IInv, Rest, NoEventLost, Waiting
<1> QED
  BY <1>4, <1>5, <1>6, <1>7, <1>8 DEF Rest

\* A task that gives up the lock at the end of its work leaves every other
\* holder its own.
LEMMA UnlockMove ==
    ASSUME IInv, NEW t \in Tasks, NEW step \in {"idle", "orphan"},
           pc[t] \in {"run", "watch", "debounce", "push"}, Holds(t), Goto(t, step),
           Unlock(t), UNCHANGED <<scheduled, owed, walked>>
    PROVE  /\ lock' \in [Objects -> Seq(Tasks)]
           /\ Rest'
<1>1. obj[t] \in Objects /\ step \in Steps
  BY DEF IInv, Rest, ProjectOK, WithProject, Steps
<1>2. /\ pc'[t] = step
      /\ step \notin {"idle", "closed"} => obj'[t] = obj[t]
      /\ \A u \in Tasks : u # t => pc'[u] = pc[u] /\ obj'[u] = obj[u]
  BY <1>1, MoveFacts DEF IInv, Locals, Goto
<1>3. lock \in [Objects -> Seq(Tasks)] /\ lock[obj[t]] # <<>>
  BY DEF IInv, Locals, Holds
<1>4. Tail(lock[obj[t]]) \in Seq(Tasks)
  BY <1>1, <1>3
<1>5. lock' \in [Objects -> Seq(Tasks)]
  BY <1>3, <1>4 DEF Unlock
<1>6. ProjectOK'
  BY <1>1, <1>2 DEF IInv, Rest, ProjectOK, WithProject
<1>7. LockOK'
  <2>1. SUFFICES ASSUME NEW u \in Tasks, pc'[u] \in {"start", "run"}
                 PROVE  Holds(u)'
    BY DEF LockOK
  <2>2. u # t /\ pc[u] \in {"start", "run"} /\ obj'[u] = obj[u]
    BY <1>2, <2>1
  <2>3. Holds(u) /\ obj[u] \in Objects
    BY <2>2 DEF IInv, Rest, LockOK, ProjectOK, WithProject
  <2>4. obj[u] # obj[t]
    BY <2>2, <2>3 DEF Holds
  <2>5. lock'[obj[u]] = lock[obj[u]]
    BY <1>3, <2>3, <2>4 DEF Unlock
  <2> QED
    BY <2>2, <2>3, <2>5 DEF Holds
<1>8. Autos \subseteq Tasks
  BY DEF Tasks
<1>9. \A a \in Autos : \/ pc'[a] = pc[a] /\ obj'[a] = obj[a]
                       \/ /\ pc[a] \in {"run", "watch", "debounce", "push"}
                          /\ pc'[a] \in {"idle", "orphan"}
  BY <1>2, <1>8
<1>10. FlagOK'
  BY <1>9 DEF IInv, Rest, FlagOK
<1>11. OneTrailingRun'
  BY <1>9 DEF IInv, Rest, OneTrailingRun
<1>12. NoEventLost'
  BY <1>9 DEF IInv, Rest, NoEventLost, Waiting
<1> QED
  BY <1>5, <1>6, <1>7, <1>10, <1>11, <1>12 DEF Rest

-----------------------------------------------------------------------------
(* Every step keeps the invariant *)

-----------------------------------------------------------------------------
(* Every step keeps the invariant *)

LEMMA InitInv == Init => IInv
<1> SUFFICES ASSUME Init PROVE IInv
  OBVIOUS
<1> USE DEF Init
<1>1. Numbers
  BY SessionsAssumption DEF Numbers
<1>2. Switches
  BY Zenon DEF Switches
<1>3. Locals
  <2>1. <<>> \in Seq(Tasks) /\ "idle" \in Steps
    BY DEF Steps
  <2> QED
    BY <2>1 DEF Locals
<1>4. ProjectOK /\ LockOK
  BY DEF ProjectOK, LockOK, WithProject
<1>5. FlagOK /\ OneTrailingRun /\ NoEventLost
  BY DEF FlagOK, OneTrailingRun, NoEventLost, Tasks
<1> QED
  BY <1>1, <1>2, <1>3, <1>4, <1>5 DEF IInv, Rest

\* What a step of a connection outside the indexing lock leaves to show.
LEMMA ClientGoto ==
    ASSUME IInv, NEW c \in Clients, NEW o \in Objects \cup {NoProject},
           NEW step \in Steps \ {"start", "run"}, Move(c, step, o),
           step \in WithProject => o \in Objects,
           UNCHANGED <<disk, lock, scheduled, owed, walked>>,
           registry' \in Objects \cup {NoProject}
    PROVE  Locals' /\ Rest'
<1>1. c \in Tasks
  BY DEF Tasks
<1>2. Rest'
  BY ClientMove
<1>3. Locals'
  BY <1>1, MoveFacts DEF IInv, Locals
<1> QED
  BY <1>2, <1>3

\* Both ends of watch: a request goes on to the lock, or is over and drops it.
LEMMA ReturnInv ==
    ASSUME IInv, NEW c \in Clients, pc[c] \in {"watch", "debounce", "push"}, Return(c),
           UNCHANGED <<disk, registry, scheduled, owed, walked>>
    PROVE  Locals' /\ Rest'
<1>1. c \in Tasks
  BY DEF Tasks
<1>2. obj[c] \in Objects /\ registry \in Objects \cup {NoProject}
  BY <1>1 DEF IInv, Rest, Locals, ProjectOK, WithProject
<1>3. CASE Holds(c)
  <2>1. Goto(c, "idle") /\ Unlock(c) /\ "idle" \in Steps
    BY <1>3 DEF Return, Steps
  <2>2. Rest' /\ lock' \in [Objects -> Seq(Tasks)]
    BY <1>1, <1>3, <2>1, UnlockMove
  <2> QED
    BY <1>1, <1>2, <2>1, <2>2, MoveFacts DEF Goto, IInv, Locals
<1>4. CASE ~Holds(c)
  <2>1. Move(c, AfterOpen(c), obj[c]) /\ UNCHANGED lock
    BY <1>4 DEF Return, Goto
  <2>2. AfterOpen(c) \in Steps \ {"start", "run"}
    BY DEF AfterOpen, Steps
  <2> QED
    BY <1>2, <2>1, <2>2, ClientGoto
<1> QED
  BY <1>3, <1>4

\* A request finds its project, or makes a LoadedProject nobody refers to.
LEMMA OpenInv ==
    ASSUME IInv, NEW c \in Clients, FindLoaded(c) \/ InsertLoaded(c)
    PROVE  IInv'
<1>1. c \in Tasks
  BY DEF Tasks
<1>2. UNCHANGED <<disk, tables, lock, watcher, event, ledger, environment>>
  BY DEF FindLoaded, InsertLoaded
<1>3. Numbers'
  BY <1>2 DEF IInv, Numbers, tables, watcher, ledger, environment
<1>4. CASE FindLoaded(c)
  <2>1. UNCHANGED <<row, debouncing, event, scheduled, cancel, registry>>
    BY <1>4 DEF FindLoaded, tables, watcher, flags
  <2>2. Switches'
    BY <2>1, Zenon DEF IInv, Switches
  <2> DEFINE step == IF registry = NoProject THEN "insert" ELSE AfterOpen(c)
  <2>3. registry \in Objects \cup {NoProject}
    BY DEF IInv, Locals
  <2>4. /\ step \in Steps \ {"start", "run"}
        /\ step \in WithProject => registry \in Objects
    BY <2>3 DEF AfterOpen, Steps, WithProject
  <2>5. Move(c, step, registry)
    BY <1>4 DEF FindLoaded
  <2>6. Locals' /\ Rest'
    BY <1>2, <2>1, <2>3, <2>4, <2>5, ClientGoto DEF ledger
  <2> QED
    BY <1>3, <2>2, <2>6 DEF IInv
<1>5. CASE InsertLoaded(c)
  <2>1. PICK o \in Dropped : /\ registry' = o
                             /\ scheduled' = [scheduled EXCEPT ![o] = FALSE]
                             /\ cancel' = [cancel EXCEPT ![o] = FALSE]
                             /\ Move(c, "watch", o)
    BY <1>5 DEF InsertLoaded
  <2>2. /\ o \in Objects /\ "watch" \in Steps
        /\ \A t \in Tasks : obj[t] # o
    BY DEF Dropped, Steps
  <2>3. scheduled \in [Objects -> BOOLEAN] /\ cancel \in [Objects -> BOOLEAN]
    BY DEF IInv, Switches
  <2>4. /\ scheduled' \in [Objects -> BOOLEAN]
        /\ cancel' \in [Objects -> BOOLEAN]
    BY <2>1, <2>3
  <2>5. UNCHANGED <<row, debouncing, event>>
    BY <1>2 DEF tables, watcher
  <2>6. Switches'
    BY <2>4, <2>5, Zenon DEF IInv, Switches
  <2>7. Locals'
    BY <1>1, <1>2, <2>1, <2>2, MoveFacts DEF IInv, Locals
  <2>8. /\ pc'[c] = "watch" /\ obj'[c] = o
        /\ \A u \in Tasks : u # c => pc'[u] = pc[u] /\ obj'[u] = obj[u]
    BY <1>1, <2>1, <2>2, MoveFacts DEF IInv
  <2>9. ProjectOK'
    BY <2>2, <2>8 DEF IInv, Rest, ProjectOK, WithProject
  <2>10. LockOK'
    BY <1>2, <2>8 DEF IInv, Rest, LockOK, Holds
  <2>11. \A a \in Autos : /\ a \in Tasks /\ a # c
                          /\ pc'[a] = pc[a] /\ obj'[a] = obj[a]
    BY <2>8, SessionsAssumption DEF Tasks
  <2>12. /\ \A p \in Objects : p # o => scheduled'[p] = scheduled[p]
         /\ ~scheduled'[o]
    BY <2>1, <2>2, <2>3
  <2>13. \A a \in Autos : pc[a] \in {"lock", "queued"} =>
             obj[a] \in Objects /\ obj[a] # o
    BY <2>2, <2>11 DEF IInv, Rest, ProjectOK, WithProject
  <2>14. FlagOK'
    BY <2>2, <2>11, <2>12, <2>13 DEF IInv, Rest, FlagOK
  <2>15. OneTrailingRun' /\ NoEventLost'
    BY <1>2, <2>11 DEF IInv, Rest, OneTrailingRun, NoEventLost, Waiting, ledger
  <2> QED
    BY <1>3, <2>6, <2>7, <2>9, <2>10, <2>14, <2>15 DEF IInv, Rest
<1> QED
  BY <1>4, <1>5

\* Watching, unwatching and removing touch neither the lock nor the flag.
LEMMA ClientStepInv ==
    ASSUME IInv, NEW c \in Clients, ClientStep(c)
    PROVE  IInv'
<1>1. c \in Tasks
  BY DEF Tasks
<1>2. obj[c] \in Objects \cup {NoProject}
  BY <1>1 DEF IInv, Locals
<1>3. CASE FindLoaded(c) \/ InsertLoaded(c)
  BY <1>3, OpenInv
<1>4. CASE AlreadyWatched(c) \/ PushWatched(c)
  <2>1. /\ pc[c] \in {"watch", "push"} /\ Return(c)
        /\ watched' \in {watched, watched + 1}
        /\ UNCHANGED <<disk, tables, registry, flags, debouncing, event, ledger,
                       environment>>
    BY <1>4 DEF AlreadyWatched, PushWatched, watcher
  <2>2. Locals' /\ Rest'
    BY <2>1, ReturnInv DEF flags, ledger
  <2>3. Numbers'
    BY <2>1 DEF IInv, Numbers, tables, ledger, environment
  <2>4. UNCHANGED <<row, debouncing, event, scheduled, cancel>>
    BY <2>1 DEF tables, flags
  <2>5. Switches'
    BY <2>4, Zenon DEF IInv, Switches
  <2> QED
    BY <2>2, <2>3, <2>5 DEF IInv
<1>5. ASSUME NEW step \in {"debounce", "push", "unregister", "rmdir", "unlist",
                           "undebounce", "idle", "closed"},
             Goto(c, step),
             step \in {"debounce", "push"} => pc[c] \in {"watch", "debounce"},
             registry' \in {registry, NoProject},
             UNCHANGED <<disk, lock, flags, ledger>>
      PROVE  Locals' /\ Rest'
  <2>1. step \in Steps \ {"start", "run"}
    BY DEF Steps
  <2>2. step \in WithProject => obj[c] \in Objects
    BY <1>1, <1>5 DEF IInv, Rest, ProjectOK, WithProject
  <2>3. Move(c, step, obj[c])
    BY <1>5 DEF Goto
  <2>4. registry' \in Objects \cup {NoProject}
    BY <1>5 DEF IInv, Locals
  <2> QED
    BY <1>2, <1>5, <2>1, <2>2, <2>3, <2>4, ClientGoto DEF flags, ledger
<1>6. CASE NotWatched(c) \/ Debounce(c)
  <2>1. Locals' /\ Rest'
    BY <1>5, <1>6 DEF NotWatched, Debounce
  <2>2. Numbers'
    BY <1>6 DEF NotWatched, Debounce, IInv, Numbers, tables, watcher, ledger,
                environment
  <2>3. /\ UNCHANGED <<row, event, scheduled, cancel>>
        /\ debouncing' = debouncing \/ debouncing' = TRUE
    BY <1>6, Zenon DEF NotWatched, Debounce, tables, flags, watcher
  <2>4. Switches'
    BY <2>3, Zenon DEF IInv, Switches
  <2> QED
    BY <2>1, <2>2, <2>4 DEF IInv
<1>7. CASE FindRow(c) \/ Unregister(c)
  <2>1. Locals' /\ Rest'
    BY <1>5, <1>7 DEF FindRow, Unregister
  <2>2. Numbers'
    BY <1>7 DEF FindRow, Unregister, IInv, Numbers, tables, watcher, ledger,
                environment
  <2>3. UNCHANGED <<row, event, scheduled, cancel, debouncing>>
    BY <1>7 DEF FindRow, Unregister, tables, flags, watcher
  <2>4. Switches'
    BY <2>3, Zenon DEF IInv, Switches
  <2> QED
    BY <2>1, <2>2, <2>4 DEF IInv
<1>8. CASE RemoveDir(c)
  <2>1. Locals' /\ Rest'
    BY <1>5, <1>8 DEF RemoveDir
  <2>2. Numbers'
    BY <1>8, SessionsAssumption DEF RemoveDir, IInv, Numbers, tables, watcher,
                                    ledger, environment
  <2>3. UNCHANGED <<event, scheduled, cancel, debouncing>>
    BY <1>8 DEF RemoveDir, flags, watcher
  <2>4. row' = row \/ row' = FALSE
    BY <1>8, Zenon DEF RemoveDir, tables
  <2>5. Switches'
    BY <2>3, <2>4, Zenon DEF IInv, Switches
  <2> QED
    BY <2>1, <2>2, <2>5 DEF IInv
<1>9. CASE Unlist(c) \/ Undebounce(c)
  <2>1. Locals' /\ Rest'
    BY <1>5, <1>9 DEF Unlist, Undebounce
  <2>2. Numbers'
    BY <1>9 DEF Unlist, Undebounce, IInv, Numbers, tables, ledger, environment
  <2>3. /\ UNCHANGED <<row, event, scheduled, cancel>>
        /\ debouncing' = debouncing \/ debouncing' = FALSE
    BY <1>9, Zenon DEF Unlist, Undebounce, tables, flags
  <2>4. Switches'
    BY <2>3, Zenon DEF IInv, Switches
  <2> QED
    BY <2>1, <2>2, <2>4 DEF IInv
<1>10. CASE OrphanStops(c)
  <2>1. Locals' /\ Rest'
    BY <1>5, <1>10 DEF OrphanStops
  <2>2. seen[c] \in 0..disk
    BY <1>1 DEF IInv, Locals
  <2>3. Numbers'
    BY <1>10, <2>2 DEF OrphanStops, IInv, Numbers, tables, watcher, ledger,
                       environment
  <2>4. UNCHANGED <<event, scheduled, cancel, debouncing>>
    BY <1>10 DEF OrphanStops, flags, watcher
  <2>5. row' = row \/ row' = TRUE
    BY <1>10, Zenon DEF OrphanStops, tables
  <2>6. Switches'
    BY <2>4, <2>5, Zenon DEF IInv, Switches
  <2> QED
    BY <2>1, <2>3, <2>6 DEF IInv
<1> QED
  BY <1>3, <1>4, <1>6, <1>7, <1>8, <1>9, <1>10 DEF ClientStep

\* A new request has no project yet; a cancelled run keeps its own.
LEMMA RequestInv ==
    ASSUME IInv, NEW c \in Clients,
           CancelIndex(c) \/ \E kind \in Requests : Request(c, kind)
    PROVE  IInv'
<1>1. c \in Tasks /\ c \notin Autos /\ Autos \subseteq Tasks
  BY SessionsAssumption DEF Tasks
<1>2. CASE CancelIndex(c)
  <2>1. UNCHANGED <<disk, tables, registry, lock, scheduled, watcher, event,
                    tasks, ledger, failures>>
    BY <1>2 DEF CancelIndex
  <2>2. Numbers'
    BY <1>2, <2>1, SessionsAssumption DEF CancelIndex, IInv, Numbers, tables,
                                          watcher, ledger
  <2>3. UNCHANGED <<row, event, scheduled, debouncing>>
    BY <2>1 DEF tables, watcher
  <2>4. cancel' \in [Objects -> BOOLEAN]
    BY <1>2 DEF CancelIndex, IInv, Switches
  <2>5. Switches'
    BY <2>3, <2>4, Zenon DEF IInv, Switches
  <2>6. Locals'
    BY <2>1 DEF IInv, Locals, tasks
  <2>7. Rest'
    BY <2>1 DEF IInv, Rest, ProjectOK, LockOK, Holds, FlagOK, OneTrailingRun,
                NoEventLost, Waiting, tasks, ledger
  <2> QED
    BY <2>2, <2>5, <2>6, <2>7 DEF IInv
<1>3. CASE \E kind \in Requests : Request(c, kind)
  <2>1. PICK kind \in Requests : Request(c, kind)
    BY <1>3
  <2>2. UNCHANGED <<disk, tables, registry, lock, flags, watcher, event, obj,
                    seen, ledger, environment>>
    BY <2>1 DEF Request
  <2>3. Numbers'
    BY <2>2 DEF IInv, Numbers, tables, watcher, ledger, environment
  <2>4. UNCHANGED <<row, event, scheduled, cancel, debouncing>>
    BY <2>2 DEF tables, flags, watcher
  <2>5. Switches'
    BY <2>4, Zenon DEF IInv, Switches
  <2>6. Locals'
    BY <1>1, <2>1, <2>2 DEF Request, IInv, Locals, Steps
  <2>7. /\ pc'[c] \in {"findRow", "open"}
        /\ \A u \in Tasks : u # c => pc'[u] = pc[u]
    BY <1>1, <2>1 DEF Request, IInv, Locals
  <2>8. ProjectOK' /\ LockOK'
    BY <2>2, <2>7 DEF IInv, Rest, ProjectOK, WithProject, LockOK, Holds
  <2>9. \A a \in Autos : pc'[a] = pc[a]
    BY <1>1, <2>7
  <2>10. FlagOK' /\ OneTrailingRun' /\ NoEventLost'
    BY <2>2, <2>4, <2>9 DEF IInv, Rest, FlagOK, OneTrailingRun, NoEventLost,
                            Waiting, ledger
  <2> QED
    BY <2>3, <2>5, <2>6, <2>8, <2>10 DEF IInv, Rest
<1> QED
  BY <1>2, <1>3

-----------------------------------------------------------------------------
(* The steps of the indexing path *)

\* A task joins the queue of the lock behind its holder.
LEMMA EnqueueInv ==
    ASSUME IInv, NEW t \in Tasks, Enqueue(t)
    PROVE  IInv'
<1>1. /\ pc[t] = "lock" /\ Move(t, "queued", obj[t])
      /\ lock' = [lock EXCEPT ![obj[t]] = Append(@, t)]
      /\ UNCHANGED <<disk, tables, registry, flags, watcher, event, ledger,
                     environment>>
  BY DEF Enqueue, Goto
<1>2. obj[t] \in Objects /\ "queued" \in Steps
  BY <1>1 DEF IInv, Rest, ProjectOK, WithProject, Steps
<1>3. /\ pc'[t] = "queued" /\ obj'[t] = obj[t]
      /\ \A u \in Tasks : u # t => pc'[u] = pc[u] /\ obj'[u] = obj[u]
  BY <1>1, <1>2, MoveFacts DEF IInv
<1>4. Numbers'
  BY <1>1 DEF IInv, Numbers, tables, watcher, ledger, environment
<1>5. UNCHANGED <<row, event, scheduled, cancel, debouncing, owed, walked>>
  BY <1>1 DEF tables, flags, watcher, ledger
<1>6. Switches'
  BY <1>5, Zenon DEF IInv, Switches
<1>7. lock' \in [Objects -> Seq(Tasks)]
  <2>1. lock[obj[t]] \in Seq(Tasks)
    BY <1>2 DEF IInv, Locals
  <2>2. Append(lock[obj[t]], t) \in Seq(Tasks)
    BY <2>1
  <2> QED
    BY <1>1, <2>2 DEF IInv, Locals
<1>8. Locals'
  BY <1>1, <1>2, <1>7, MoveFacts DEF IInv, Locals
<1>9. ProjectOK'
  BY <1>2, <1>3 DEF IInv, Rest, ProjectOK, WithProject
<1>10. LockOK'
  <2>1. SUFFICES ASSUME NEW u \in Tasks, pc'[u] \in {"start", "run"}
                 PROVE  Holds(u)'
    BY DEF LockOK
  <2>2. /\ pc[u] \in {"start", "run"} /\ obj'[u] = obj[u]
        /\ Holds(u) /\ obj[u] \in Objects
    BY <1>3, <2>1 DEF IInv, Rest, LockOK, ProjectOK, WithProject
  <2>3. \A q \in Seq(Tasks) : q # <<>> =>
            Append(q, t) # <<>> /\ Head(Append(q, t)) = Head(q)
    OBVIOUS
  <2>4. lock[obj[u]] \in Seq(Tasks) /\ lock[obj[u]] # <<>>
    BY <2>2 DEF IInv, Locals, Holds
  <2>5. lock'[obj[u]] \in {lock[obj[u]], Append(lock[obj[u]], t)}
    BY <1>1, <2>2 DEF IInv, Locals
  <2> QED
    BY <2>2, <2>3, <2>4, <2>5 DEF Holds
<1>11. Autos \subseteq Tasks
  BY DEF Tasks
<1>12. FlagOK' /\ OneTrailingRun' /\ NoEventLost'
  BY <1>1, <1>3, <1>5, <1>11 DEF IInv, Rest, FlagOK, OneTrailingRun,
                                 NoEventLost, Waiting
<1> QED
  BY <1>4, <1>6, <1>8, <1>9, <1>10, <1>12 DEF IInv, Rest

\* A task of the watcher that gets the lock was the only one to wait for it, so
\* clearing the flag is right.
LEMMA GrantedInv ==
    ASSUME IInv, NEW t \in Tasks, Granted(t)
    PROVE  IInv'
<1>1. /\ pc[t] = "queued" /\ Holds(t) /\ Move(t, "start", obj[t])
      /\ UNCHANGED <<disk, tables, registry, lock, cancel, watcher, event,
                     ledger, environment>>
      /\ scheduled' = IF t \in Autos
                      THEN [scheduled EXCEPT ![obj[t]] = FALSE]
                      ELSE scheduled
  BY DEF Granted, Goto
<1>2. obj[t] \in Objects /\ "start" \in Steps
  BY <1>1 DEF IInv, Rest, ProjectOK, WithProject, Steps
<1>3. /\ pc'[t] = "start" /\ obj'[t] = obj[t]
      /\ \A u \in Tasks : u # t => pc'[u] = pc[u] /\ obj'[u] = obj[u]
  BY <1>1, <1>2, MoveFacts DEF IInv
<1>4. Numbers'
  BY <1>1 DEF IInv, Numbers, tables, watcher, ledger, environment
<1>5. UNCHANGED <<row, event, cancel, debouncing, owed, walked>>
  BY <1>1 DEF tables, watcher, ledger
<1>6. scheduled \in [Objects -> BOOLEAN]
  BY DEF IInv, Switches
<1>7. scheduled' \in [Objects -> BOOLEAN]
  BY <1>1, <1>6
<1>8. Switches'
  BY <1>5, <1>7, Zenon DEF IInv, Switches
<1>9. Locals'
  BY <1>1, <1>2, MoveFacts DEF IInv, Locals
<1>10. ProjectOK'
  BY <1>2, <1>3 DEF IInv, Rest, ProjectOK, WithProject
<1>11. LockOK'
  BY <1>1, <1>3 DEF IInv, Rest, LockOK, Holds
<1>12. Autos \subseteq Tasks
  BY DEF Tasks
<1>13. NoEventLost'
  BY <1>1, <1>3, <1>5, <1>12 DEF IInv, Rest, NoEventLost, Waiting
<1>14. OneTrailingRun'
  BY <1>1, <1>3, <1>12 DEF IInv, Rest, OneTrailingRun
<1>15. ASSUME t \in Autos PROVE FlagOK'
  <2>1. /\ \A o \in Objects : o # obj[t] => scheduled'[o] = scheduled[o]
        /\ ~scheduled'[obj[t]]
    BY <1>1, <1>2, <1>6, <1>15
  <2>2. ASSUME NEW o \in Objects, scheduled'[o]
        PROVE  \E a \in Autos : pc'[a] \in {"lock", "queued"} /\ obj'[a] = o
    <3>1. o # obj[t] /\ scheduled[o]
      BY <2>1, <2>2
    <3>2. PICK a \in Autos : pc[a] \in {"lock", "queued"} /\ obj[a] = o
      BY <3>1 DEF IInv, Rest, FlagOK
    <3> QED
      BY <1>3, <1>12, <3>1, <3>2
  <2>3. ASSUME NEW a \in Autos, pc'[a] \in {"lock", "queued"}
        PROVE  scheduled'[obj'[a]]
    <3>1. a # t /\ pc[a] \in {"lock", "queued"} /\ obj'[a] = obj[a]
      BY <1>3, <1>12, <2>3
    <3>2. obj[a] # obj[t]
      BY <1>1, <1>15, <3>1 DEF IInv, Rest, OneTrailingRun
    <3>3. obj[a] \in Objects /\ scheduled[obj[a]]
      BY <1>12, <3>1 DEF IInv, Rest, FlagOK, ProjectOK, WithProject
    <3> QED
      BY <2>1, <3>1, <3>2, <3>3
  <2> QED
    BY <2>2, <2>3 DEF FlagOK
<1>16. ASSUME t \notin Autos PROVE FlagOK'
  <2>1. \A a \in Autos : pc'[a] = pc[a] /\ obj'[a] = obj[a]
    BY <1>3, <1>12, <1>16
  <2>2. scheduled' = scheduled
    BY <1>1, <1>16
  <2> QED
    BY <2>1, <2>2 DEF IInv, Rest, FlagOK
<1>17. FlagOK'
  BY <1>15, <1>16
<1> QED
  BY <1>4, <1>8, <1>9, <1>10, <1>11, <1>13, <1>14, <1>17 DEF IInv, Rest

\* A run that starts reads every edit announced so far.
LEMMA StartRunInv ==
    ASSUME IInv, NEW t \in Tasks, StartRun(t)
    PROVE  IInv'
<1>1. /\ pc[t] = "start" /\ pc' = [pc EXCEPT ![t] = "run"]
      /\ seen' = [seen EXCEPT ![t] = disk] /\ walked' = disk
      /\ cancel' = [cancel EXCEPT ![obj[t]] = FALSE]
      /\ UNCHANGED <<disk, tables, registry, lock, scheduled, watcher, event,
                     request, obj, owed, environment>>
  BY DEF StartRun
<1>2. Numbers'
  BY <1>1 DEF IInv, Numbers, tables, watcher, environment
<1>3. UNCHANGED <<row, event, scheduled, debouncing>>
  BY <1>1 DEF tables, watcher
<1>4. cancel' \in [Objects -> BOOLEAN]
  BY <1>1 DEF IInv, Switches
<1>5. Switches'
  BY <1>3, <1>4, Zenon DEF IInv, Switches
<1>6. seen' \in [Tasks -> 0..disk']
  <2>1. disk \in 0..disk
    BY DEF IInv, Numbers
  <2> QED
    BY <1>1, <2>1 DEF IInv, Locals
<1>7. "run" \in Steps
  BY DEF Steps
<1>8. pc' \in [Tasks -> Steps]
  BY <1>1, <1>7 DEF IInv, Locals
<1>9. Locals'
  BY <1>1, <1>6, <1>8 DEF IInv, Locals
<1>10. pc'[t] = "run" /\ \A u \in Tasks : u # t => pc'[u] = pc[u]
  BY <1>1 DEF IInv, Locals
<1>11. ProjectOK'
  BY <1>1, <1>10 DEF IInv, Rest, ProjectOK, WithProject
<1>12. LockOK'
  BY <1>1, <1>10 DEF IInv, Rest, LockOK, Holds
<1>13. Autos \subseteq Tasks
  BY DEF Tasks
<1>14. \A a \in Autos : pc'[a] \in {"lock", "queued"} <=> pc[a] \in {"lock", "queued"}
  BY <1>1, <1>10, <1>13
<1>15. FlagOK' /\ OneTrailingRun'
  BY <1>1, <1>14 DEF IInv, Rest, FlagOK, OneTrailingRun
<1>16. NoEventLost'
  BY <1>1 DEF IInv, Numbers, NoEventLost
<1> QED
  BY <1>2, <1>5, <1>9, <1>11, <1>12, <1>15, <1>16 DEF IInv, Rest

\* A watch that cannot be started ends like one that is there already.
LEMMA DebounceFailsInv ==
    ASSUME IInv, NEW c \in Clients, DebounceFails(c)
    PROVE  IInv'
<1>1. /\ pc[c] = "debounce" /\ Return(c)
      /\ failures < MaxFailures /\ failures' = failures + 1
      /\ UNCHANGED <<disk, tables, registry, flags, watcher, event, ledger, cancels>>
  BY DEF DebounceFails
<1>2. Locals' /\ Rest'
  BY <1>1, ReturnInv DEF flags, ledger
<1>3. Numbers'
  BY <1>1, SessionsAssumption DEF IInv, Numbers, tables, watcher, ledger
<1>4. UNCHANGED <<row, debouncing, event, scheduled, cancel>>
  BY <1>1 DEF tables, flags, watcher
<1>5. Switches'
  BY <1>4, Zenon DEF IInv, Switches
<1> QED
  BY <1>2, <1>3, <1>5 DEF IInv

\* A run that ends drops the lock, or leaves it to the watch that follows.
LEMMA EndRunInv ==
    ASSUME IInv, NEW t \in Tasks,
           \/ Publish(t) \/ PauseRun(t) \/ FailRun(t)
           \/ t \in Clients /\ AbortRun(t)
    PROVE  IInv'
<1>1. /\ pc[t] = "run"
      /\ UNCHANGED <<disk, registry, flags, watcher, event, ledger, cancels>>
  BY DEF Publish, PauseRun, FailRun, AbortRun, environment
<1>2. obj[t] \in Objects /\ Holds(t)
  BY <1>1 DEF IInv, Rest, ProjectOK, WithProject, LockOK
<1>3. seen[t] \in 0..disk
  BY DEF IInv, Locals
<1>4. /\ indexed' = indexed \/ indexed' = seen[t]
      /\ \/ failures' = failures
         \/ failures < MaxFailures /\ failures' = failures + 1
  BY Zenon DEF Publish, PauseRun, FailRun, AbortRun, tables, environment
<1>5. Numbers'
  BY <1>1, <1>3, <1>4, SessionsAssumption DEF IInv, Numbers, watcher, ledger
<1>6. row' = row \/ row' = TRUE
  BY Zenon DEF Publish, PauseRun, FailRun, AbortRun, tables
<1>7. UNCHANGED <<event, scheduled, cancel, debouncing>>
  BY <1>1 DEF flags, watcher
<1>8. Switches'
  BY <1>6, <1>7, Zenon DEF IInv, Switches
<1>9. \/ t \in Clients /\ Goto(t, "watch") /\ UNCHANGED lock
      \/ Goto(t, "idle") /\ Unlock(t)
      \/ Goto(t, "orphan") /\ Unlock(t)
  BY DEF Publish, PauseRun, FailRun, AbortRun, RunOk
<1>10. CASE t \in Clients /\ Goto(t, "watch") /\ UNCHANGED lock
  <2>1. "watch" \in Steps \ {"start", "run"}
    BY DEF Steps
  <2>2. registry' \in Objects \cup {NoProject}
    BY <1>1 DEF IInv, Locals
  <2> QED
    BY <1>1, <1>2, <1>5, <1>8, <1>10, <2>1, <2>2, ClientGoto
       DEF IInv, Goto, flags, ledger
<1>11. ASSUME NEW step \in {"idle", "orphan"}, Goto(t, step), Unlock(t)
       PROVE  IInv'
  <2>1. step \in Steps
    BY DEF Steps
  <2>2. Rest' /\ lock' \in [Objects -> Seq(Tasks)]
    BY <1>1, <1>2, <1>11, UnlockMove DEF flags, ledger
  <2>3. Locals'
    BY <1>1, <1>2, <1>11, <2>1, <2>2, MoveFacts DEF IInv, Locals, Goto
  <2> QED
    BY <1>5, <1>8, <2>2, <2>3 DEF IInv
<1> QED
  BY <1>9, <1>10, <1>11

-----------------------------------------------------------------------------
(* The steps of the watcher *)

\* An edit moves nothing but the tree and the channel.
LEMMA EditInv ==
    ASSUME IInv, Edit \/ IgnoreEvent
    PROVE  IInv'
<1>1. /\ disk' \in {disk, disk + 1} /\ disk' <= MaxEdits + 1
      /\ UNCHANGED <<tables, registry, lock, flags, watcher, tasks, ledger,
                     environment>>
  BY SessionsAssumption DEF IInv, Numbers, Edit, IgnoreEvent
<1>2. Numbers'
  BY <1>1, SessionsAssumption DEF IInv, Numbers, tables, watcher, ledger,
                                  environment
<1>3. event' \in BOOLEAN
  BY Zenon DEF Edit, IgnoreEvent
<1>4. UNCHANGED <<row, debouncing, scheduled, cancel>>
  BY <1>1 DEF tables, watcher, flags
<1>5. Switches'
  BY <1>3, <1>4, Zenon DEF IInv, Switches
<1>6. \A n \in 0..disk : n \in 0..disk'
  BY <1>1 DEF IInv, Numbers
<1>7. seen' \in [Tasks -> 0..disk']
  BY <1>1, <1>6 DEF IInv, Locals, tasks
<1>8. Locals'
  BY <1>1, <1>7 DEF IInv, Locals, tasks
<1>9. Rest'
  BY <1>1 DEF IInv, Rest, ProjectOK, LockOK, Holds, FlagOK, OneTrailingRun,
              NoEventLost, Waiting, tasks, ledger, flags
<1> QED
  BY <1>2, <1>5, <1>8, <1>9 DEF IInv

\* A task of the watcher on its way to the flag: it waits, or there is nothing
\* to wait for.
LEMMA AutoMoveInv ==
    ASSUME IInv, NEW a \in Autos, SpawnReindex(a) \/ LookupProject(a)
    PROVE  IInv'
<1>1. a \in Tasks /\ Autos \subseteq Tasks
  BY DEF Tasks
<1>2. /\ pc[a] \in {"idle", "lookup"}
      /\ UNCHANGED <<disk, tables, registry, lock, flags, watcher, walked,
                     environment>>
  BY DEF SpawnReindex, LookupProject
<1>3. PICK step \in {"lookup", "swap", "idle"}, o \in Objects \cup {NoProject} :
          /\ Move(a, step, o)
          /\ step = "swap" => o # NoProject
          /\ step = "idle" => owed' = walked
          /\ owed' \in {owed, walked, disk}
  <2>1. obj[a] \in Objects \cup {NoProject} /\ registry \in Objects \cup {NoProject}
    BY <1>1 DEF IInv, Locals
  <2>2. CASE SpawnReindex(a)
    BY <2>1, <2>2 DEF SpawnReindex, Goto
  <2>3. CASE LookupProject(a)
    BY <2>1, <2>3 DEF LookupProject
  <2> QED
    BY <2>2, <2>3
<1>4. step \in Steps
  BY DEF Steps
<1>5. /\ pc'[a] = step
      /\ step # "idle" => obj'[a] = o
      /\ \A u \in Tasks : u # a => pc'[u] = pc[u] /\ obj'[u] = obj[u]
  BY <1>1, <1>3, <1>4, MoveFacts DEF IInv
<1>6. Numbers'
  BY <1>2, <1>3 DEF IInv, Numbers, tables, watcher, environment
<1>7. event' = event \/ event' = FALSE
  BY Zenon DEF SpawnReindex, LookupProject
<1>8. UNCHANGED <<row, debouncing, scheduled, cancel>>
  BY <1>2 DEF tables, watcher, flags
<1>9. Switches'
  BY <1>7, <1>8, Zenon DEF IInv, Switches
<1>10. Locals'
  BY <1>1, <1>2, <1>3, <1>4, MoveFacts DEF IInv, Locals
<1>11. ProjectOK'
  BY <1>3, <1>5 DEF IInv, Rest, ProjectOK, WithProject
<1>12. LockOK'
  BY <1>2, <1>5 DEF IInv, Rest, LockOK, Holds
<1>13. \A b \in Autos : \/ pc'[b] = pc[b] /\ obj'[b] = obj[b]
                        \/ /\ b = a
                           /\ pc[b] \notin {"lock", "queued"}
                           /\ pc'[b] \notin {"lock", "queued"}
  BY <1>1, <1>2, <1>5
<1>14. FlagOK' /\ OneTrailingRun'
  BY <1>8, <1>13 DEF IInv, Rest, FlagOK, OneTrailingRun
<1>15. ASSUME step = "idle" PROVE NoEventLost'
  BY <1>2, <1>3, <1>15 DEF IInv, Numbers, NoEventLost
<1>16. ASSUME step # "idle" PROVE NoEventLost'
  BY <1>5, <1>16 DEF NoEventLost, Waiting
<1> QED
  BY <1>6, <1>9, <1>10, <1>11, <1>12, <1>14, <1>15, <1>16 DEF IInv, Rest

\* The flag decides who waits: the task that sets it, or the one that set it
\* before and still waits.
LEMMA SwapInv ==
    ASSUME IInv, NEW a \in Autos, SwapScheduled(a)
    PROVE  IInv'
<1>1. a \in Tasks /\ Autos \subseteq Tasks
  BY DEF Tasks
<1>2. /\ pc[a] = "swap"
      /\ scheduled' = [scheduled EXCEPT ![obj[a]] = TRUE]
      /\ UNCHANGED <<disk, tables, registry, lock, cancel, watcher, event,
                     ledger, environment>>
  BY DEF SwapScheduled
<1>3. obj[a] \in Objects /\ scheduled \in [Objects -> BOOLEAN]
  BY <1>1, <1>2 DEF IInv, Rest, ProjectOK, WithProject, Switches
<1>4. /\ scheduled' \in [Objects -> BOOLEAN]
      /\ scheduled'[obj[a]]
      /\ \A o \in Objects : o # obj[a] => scheduled'[o] = scheduled[o]
  BY <1>2, <1>3
<1>5. Numbers'
  BY <1>2 DEF IInv, Numbers, tables, watcher, ledger, environment
<1>6. UNCHANGED <<row, event, debouncing, cancel, owed, walked>>
  BY <1>2 DEF tables, watcher, ledger
<1>7. Switches'
  BY <1>4, <1>6, Zenon DEF IInv, Switches
<1> DEFINE step == IF scheduled[obj[a]] THEN "idle" ELSE "lock"
<1>8. Move(a, step, obj[a]) /\ step \in Steps
  BY DEF SwapScheduled, Goto, Steps
<1>9. Locals'
  BY <1>1, <1>2, <1>3, <1>8, MoveFacts DEF IInv, Locals
<1>10. /\ pc'[a] = step
       /\ step \notin {"idle", "closed"} => obj'[a] = obj[a]
       /\ \A u \in Tasks : u # a => pc'[u] = pc[u] /\ obj'[u] = obj[u]
  BY <1>1, <1>3, <1>8, MoveFacts DEF IInv
<1> HIDE DEF step
<1>11. ProjectOK'
  BY <1>3, <1>10 DEF IInv, Rest, ProjectOK, WithProject, step
<1>12. LockOK'
  BY <1>2, <1>10 DEF IInv, Rest, LockOK, Holds, step
<1>13. CASE scheduled[obj[a]]
  <2>1. PICK b \in Autos : pc[b] \in {"lock", "queued"} /\ obj[b] = obj[a]
    BY <1>3, <1>13 DEF IInv, Rest, FlagOK
  <2>2. pc'[a] = "idle" /\ b # a /\ pc'[b] = pc[b]
    BY <1>1, <1>2, <1>10, <1>13, <2>1 DEF step
  <2>3. NoEventLost'
    BY <2>1, <2>2 DEF NoEventLost, Waiting
  <2>4. \A o \in Objects : scheduled'[o] <=> scheduled[o]
    BY <1>4, <1>13
  <2>5. \A d \in Autos : /\ pc'[d] \in {"lock", "queued"} <=> pc[d] \in {"lock", "queued"}
                         /\ pc[d] \in {"lock", "queued"} =>
                                obj'[d] = obj[d] /\ obj[d] \in Objects
    BY <1>1, <1>2, <1>10, <2>2 DEF IInv, Rest, ProjectOK, WithProject
  <2>6. FlagOK' /\ OneTrailingRun'
    BY <2>4, <2>5 DEF IInv, Rest, FlagOK, OneTrailingRun
  <2> QED
    BY <1>5, <1>7, <1>9, <1>11, <1>12, <2>3, <2>6 DEF IInv, Rest
<1>14. CASE ~scheduled[obj[a]]
  <2>1. pc'[a] = "lock" /\ obj'[a] = obj[a]
    BY <1>10, <1>14 DEF step
  <2>2. NoEventLost'
    BY <2>1 DEF NoEventLost, Waiting
  <2>3. \A b \in Autos : pc[b] \in {"lock", "queued"} =>
            obj[b] # obj[a] /\ obj[b] \in Objects
    BY <1>1, <1>14 DEF IInv, Rest, FlagOK, ProjectOK, WithProject
  <2>4. \A b \in Autos : b # a => pc'[b] = pc[b] /\ obj'[b] = obj[b]
    BY <1>1, <1>10
  <2>5. OneTrailingRun'
    BY <2>1, <2>3, <2>4 DEF IInv, Rest, OneTrailingRun
  <2>6. ASSUME NEW o \in Objects, scheduled'[o]
        PROVE  \E b \in Autos : pc'[b] \in {"lock", "queued"} /\ obj'[b] = o
    <3>1. CASE o = obj[a]
      BY <2>1, <3>1
    <3>2. CASE o # obj[a]
      <4>1. PICK b \in Autos : pc[b] \in {"lock", "queued"} /\ obj[b] = o
        BY <1>4, <2>6, <3>2 DEF IInv, Rest, FlagOK
      <4> QED
        BY <2>4, <3>2, <4>1
    <3> QED
      BY <3>1, <3>2
  <2>7. ASSUME NEW b \in Autos, pc'[b] \in {"lock", "queued"}
        PROVE  scheduled'[obj'[b]]
    <3>1. CASE b = a
      BY <1>4, <2>1, <3>1
    <3>2. CASE b # a
      BY <1>4, <2>3, <2>4, <2>7, <3>2 DEF IInv, Rest, FlagOK
    <3> QED
      BY <3>1, <3>2
  <2>8. FlagOK'
    BY <2>6, <2>7 DEF FlagOK
  <2> QED
    BY <1>5, <1>7, <1>9, <1>11, <1>12, <2>2, <2>5, <2>8 DEF IInv, Rest
<1> QED
  BY <1>13, <1>14

-----------------------------------------------------------------------------
(* The theorems *)

LEMMA StutterInv ==
    ASSUME IInv, UNCHANGED vars
    PROVE  IInv'
<1>1. UNCHANGED <<disk, indexed, row, registry, lock, scheduled, cancel,
                  watched, debouncing, event, pc, request, obj, seen, owed,
                  walked, cancels, failures>>
  BY DEF vars, tables, flags, watcher, tasks, ledger, environment
<1>2. Numbers'
  BY <1>1 DEF IInv, Numbers
<1>3. Switches'
  BY <1>1, Zenon DEF IInv, Switches
<1>4. Locals'
  BY <1>1 DEF IInv, Locals
<1>5. Rest'
  BY <1>1 DEF IInv, Rest, ProjectOK, LockOK, Holds, FlagOK, OneTrailingRun,
              NoEventLost, Waiting
<1> QED
  BY <1>2, <1>3, <1>4, <1>5 DEF IInv

\* One lemma for each group of disjuncts of Next.
LEMMA NextInv == IInv /\ [Next]_vars => IInv'
<1> SUFFICES ASSUME IInv, [Next]_vars PROVE IInv'
  OBVIOUS
<1>1. CASE \E c \in Clients :
              \/ CancelIndex(c) \/ \E kind \in Requests : Request(c, kind)
  BY <1>1, RequestInv
<1>2. CASE \E c \in Clients : ClientStep(c)
  BY <1>2, ClientStepInv
<1>3. CASE \E t \in Tasks : \/ Publish(t) \/ PauseRun(t) \/ FailRun(t)
                            \/ t \in Clients /\ AbortRun(t)
  BY <1>3, EndRunInv
<1>4. CASE \E t \in Tasks : Enqueue(t) \/ Granted(t) \/ StartRun(t)
  BY <1>4, EnqueueInv, GrantedInv, StartRunInv
<1>5. CASE \E a \in Autos : SpawnReindex(a) \/ LookupProject(a) \/ SwapScheduled(a)
  BY <1>5, AutoMoveInv, SwapInv
<1>6. CASE Edit \/ IgnoreEvent
  BY <1>6, EditInv
<1>7. CASE UNCHANGED vars
  BY <1>7, StutterInv
<1>8. Clients \subseteq Tasks
  BY DEF Tasks
<1>9. CASE \E c \in Clients : DebounceFails(c)
  BY <1>9, DebounceFailsInv
<1> QED
  BY <1>1, <1>2, <1>3, <1>4, <1>5, <1>6, <1>7, <1>8, <1>9
     DEF Next, IndexStep, AutoStep, EventStep

LEMMA Inductive == Spec => []IInv
<1> QED
  BY InitInv, NextInv, PTL DEF Spec

\* The type invariant holds for any number of connections, tasks and edits, and
\* whoever works on a project has its LoadedProject (state.rs, watch.rs).
THEOREM TypeCorrect == Spec => []TypeOK
<1> QED
  BY Inductive, IInvTypes, PTL

\* watch.rs:125-170: a task of the watcher that finds reindex_scheduled set may
\* go, for the one that set it has yet to read the tree.
THEOREM NoEditLost == Spec => []NoEventLost
<1>1. IInv => NoEventLost
  BY DEF IInv, Rest
<1> QED
  BY <1>1, Inductive, PTL

\* watch.rs:125-170: however fast the events come, one task of the watcher at
\* most waits for the indexing lock of a LoadedProject.
THEOREM OneWaits == Spec => []OneTrailingRun
<1>1. IInv => OneTrailingRun
  BY DEF IInv, Rest
<1> QED
  BY <1>1, Inductive, PTL

=============================================================================
