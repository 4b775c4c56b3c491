--------------------------- MODULE ServicesProofs ---------------------------
(***************************************************************************)
(* Theorems about what serves a user, for any models, providers, keys,     *)
(* projects, tasks, calls, connections and bounds.                         *)
(*                                                                         *)
(* The terminal UI: the setup runs the chosen model's monitor and keeps    *)
(* its key, neither the setup nor the main screen is busy with nothing     *)
(* behind it, and whoever holds the shared connection waits for the daemon *)
(* and not for the UI. The MCP server's pool of connections: a call reads  *)
(* the answer to its own request, nobody waits for a connection that is    *)
(* free, and a daemon that stops fails at most one call per connection.    *)
(*                                                                         *)
(* The daemon's shared caches: an engine is loaded once, cached search     *)
(* parameters follow the project row, there is one graph per project,      *)
(* readers drop no rows, the state has its types, and whoever waits for a  *)
(* lock or a cell waits for a reader at work.  None is inductive.  The     *)
(* first needs that whoever loads holds the lock and that its model has no *)
(* engine; the second that objects are never reused, so that the           *)
(* parameters of an object not yet made are empty, and that a run about to *)
(* reset parameters resets those of the project in the registry or has     *)
(* marked that one as late; the third that the cells in use are at most    *)
(* one more than the removals that forgot a cell; the fourth that a reader *)
(* carries the model of the row as it has read it; the last two that the   *)
(* holder of the lock is the reader that loads, and the builder of a cell  *)
(* the one reader that builds it.                                          *)
(***************************************************************************)
EXTENDS MCServices, SequenceTheorems, FiniteSetTheorems, TLAPS

-----------------------------------------------------------------------------
(* Channels *)

\* The messages of a channel.
Said(q) == {q[i] : i \in DOMAIN q}
IsQueue(q) == q \in Seq(Said(q))

LEMMA Retyped ==
    ASSUME NEW T, NEW R, NEW q \in Seq(T), \A i \in 1..Len(q) : q[i] \in R
    PROVE  q \in Seq(R)
<1>1. q \in [1..Len(q) -> R] /\ Len(q) \in Nat
  BY LenProperties
<1> QED BY <1>1, SMT

LEMMA Posted ==
    ASSUME NEW q, IsQueue(q), NEW m
    PROVE  /\ IsQueue(Append(q, m))
           /\ Said(Append(q, m)) = Said(q) \cup {m}
<1> DEFINE T == Said(q) \cup {m}
<1>0. q \in Seq(T) /\ m \in T
  BY SMT DEF IsQueue
<1> HIDE DEF T
<1>1. /\ Append(q, m) \in Seq(T) /\ Len(q) \in Nat /\ DOMAIN q = 1..Len(q)
      /\ DOMAIN Append(q, m) = 1..(Len(q) + 1)
      /\ \A i \in 1..Len(q) : Append(q, m)[i] = q[i]
      /\ Append(q, m)[Len(q) + 1] = m
  BY <1>0, SMT
<1>2. 1..(Len(q) + 1) = 1..Len(q) \cup {Len(q) + 1}
  BY <1>1, SMT
<1>3. ASSUME NEW i \in 1..(Len(q) + 1) PROVE Append(q, m)[i] \in Said(q) \cup {m}
  BY <1>1, <1>2, <1>3, Zenon DEF Said
<1>4. m \in Said(Append(q, m))
  <2>1. Len(q) + 1 \in 1..(Len(q) + 1)
    BY <1>1, SMT
  <2> QED BY <2>1, <1>1, Zenon DEF Said
<1>5. Said(q) \subseteq Said(Append(q, m))
  BY <1>1, <1>2, Zenon DEF Said
<1>6. Said(Append(q, m)) = T
  BY <1>1, <1>3, <1>4, <1>5, Zenon DEF Said, T
<1> QED BY <1>1, <1>6 DEF IsQueue, T

LEMMA Dropped ==
    ASSUME NEW q, IsQueue(q), q # <<>>
    PROVE  /\ IsQueue(Tail(q))
           /\ Said(q) = Said(Tail(q)) \cup {Head(q)}
<1> DEFINE T == Said(q)
<1>0. q \in Seq(T)
  BY DEF IsQueue
<1> HIDE DEF T
<1>1. /\ Tail(q) \in Seq(T) /\ Head(q) = q[1]
      /\ Len(q) \in Nat \ {0} /\ DOMAIN q = 1..Len(q) /\ DOMAIN Tail(q) = 1..(Len(q) - 1)
      /\ \A i \in 1..(Len(q) - 1) : Tail(q)[i] = q[i + 1]
  BY <1>0, SMT
<1>2. ASSUME NEW i \in 1..Len(q) PROVE q[i] \in Said(Tail(q)) \cup {Head(q)}
  <2>1. CASE i = 1
    BY <1>1, <2>1
  <2>2. CASE i # 1
    <3>1. i - 1 \in 1..(Len(q) - 1) /\ Tail(q)[i - 1] = q[i]
      BY <1>1, <1>2, <2>2, SMT
    <3> QED BY <3>1, <1>1, Zenon DEF Said
  <2> QED BY <2>1, <2>2
<1>3. ASSUME NEW i \in 1..(Len(q) - 1) PROVE Tail(q)[i] \in Said(q)
  <2>1. i + 1 \in 1..Len(q)
    BY <1>1, SMT
  <2> QED BY <2>1, <1>1, Zenon DEF Said
<1>4. Head(q) \in Said(q)
  <2>1. 1 \in 1..Len(q)
    BY <1>1, SMT
  <2> QED BY <2>1, <1>1, Zenon DEF Said
<1>5. Said(q) = Said(Tail(q)) \cup {Head(q)}
  <2>1. Said(q) \subseteq Said(Tail(q)) \cup {Head(q)}
    BY <1>1, <1>2, Zenon DEF Said
  <2>2. Said(Tail(q)) \subseteq Said(q)
    BY <1>1, <1>3, Zenon DEF Said
  <2> QED BY <2>1, <2>2, <1>4
<1>6. Tail(q) \in Seq(Said(Tail(q)))
  <2>1. Len(Tail(q)) = Len(q) - 1 /\ Len(q) - 1 \in Nat
    BY <1>0, <1>1, SMT
  <2>2. \A i \in 1..(Len(q) - 1) : Tail(q)[i] \in Said(Tail(q))
    BY <1>1, Zenon DEF Said
  <2> QED BY <1>1, <2>1, <2>2, Retyped
<1> QED BY <1>5, <1>6 DEF IsQueue

-----------------------------------------------------------------------------
(* The inductive invariant of the setup *)

SetupShapes ==
    /\ screen = [at |-> screen.at, model |-> screen.model, provider |-> screen.provider,
                 key |-> screen.key, kept |-> screen.kept]
    /\ keyring = [p \in Providers |-> keyring[p]]
    /\ IsQueue(channel) /\ cached \subseteq Locals

\* A screen, a job and a message carry what their next step needs.
ScreenOK ==
    /\ screen.at \in {"dtype", "method"} => screen.model \in Locals
    /\ screen.at \in {"api_key", "fetching_models", "remote_models"} => screen.provider \in Providers
    /\ screen.at = "remote_models" => screen.key # None

JobsOK ==
    \A j \in jobs :
        /\ j.what \in {"registry", "download", "models"}
        /\ j.what = "download" => j.model \in Locals
        /\ j.what = "models" => j.provider \in Providers /\ j.key # None

\* A key that is known without the user is stored.
MessageOK(m) ==
    /\ m.what \in {"downloaded", "complete"} => m.model # None
    /\ m.what = "downloaded" => m.model \in Locals
    /\ m.what = "models" => m.provider \in Providers /\ m.key # None
    /\ m.what = "resolved" /\ m.key # None => m.model \in Providers /\ S!StoredKey(m.model) # None

MessagesOK == \A m \in Said(channel) : MessageOK(m)

KeysOK ==
    /\ backend => config.key = None
    /\ memory.key # None /\ ~borrowed
         => memory.provider \in Providers /\ S!StoredKey(memory.provider) # None
    /\ screen.at = "remote_models" /\ screen.kept /\ ~borrowed => S!StoredKey(screen.provider) # None

\* What only waits has a job or a message behind it.
Behind(what) ==
    \/ \E j \in jobs : j.what = what
    \/ \E m \in Said(channel) : m.what \in S!Reports(what) \cup {"complete"}

BusyOK ==
    /\ screen.at = "fetching_registry" => Behind("registry")
    /\ screen.at = "downloading" => Behind("download")
    /\ screen.at = "fetching_models" => Behind("models")
    /\ screen.at = "launching" => \E m \in Said(channel) : m.what = "complete"

SetupInv ==
    /\ SetupShapes /\ ScreenOK /\ JobsOK /\ MessagesOK /\ KeysOK /\ BusyOK
    /\ S!MonitorFollowsModel /\ S!KeyFound

LEMMA SetupBegins == S!Init => SetupInv
<1> SUFFICES ASSUME S!Init PROVE SetupInv
  OBVIOUS
<1> USE DEF S!Init, S!Blank
<1>1. Said(channel) = {} /\ IsQueue(channel)
  BY SMT DEF Said, IsQueue
<1>2. SetupShapes
  BY <1>1, SMT DEF SetupShapes
<1>3. ScreenOK /\ BusyOK /\ S!MonitorFollowsModel
  BY SMT DEF ScreenOK, BusyOK, S!MonitorFollowsModel, S!At
<1>4. JobsOK /\ MessagesOK /\ KeysOK /\ S!KeyFound
  BY <1>1, Bounds, SMT DEF JobsOK, MessagesOK, KeysOK, S!KeyFound, S!SetupAssumption
<1> QED BY <1>2, <1>3, <1>4 DEF SetupInv

\* A key once stored stays stored, whoever saves the configuration.
LEMMA SaveKeeps ==
    ASSUME SetupShapes, KeysOK, NEW model, NEW p, NEW key, key = None \/ p \in Providers,
           S!Save(model, p, key), backend' = backend
    PROVE  /\ keyring' = [q \in Providers |-> keyring'[q]]
           /\ backend => config'.key = None
           /\ \A q \in Providers : S!StoredKey(q) # None => S!StoredKey(q)' # None
           /\ key # None => S!StoredKey(p)' # None
           /\ config'.model = model
  BY SMT DEF SetupShapes, KeysOK, S!Save, S!StoredKey

LEMMA ResolveStep == SetupInv /\ (S!Resolve \/ S!ResolveFromProjects) => SetupInv'
<1> SUFFICES ASSUME SetupInv, S!Resolve \/ S!ResolveFromProjects PROVE SetupInv'
  OBVIOUS
<1> USE DEF SetupInv
<1>1. CASE S!Resolve
  <2> USE <1>1 DEF S!Resolve, S!At, S!app, S!disk
  <2>0. PICK m : /\ channel' = Append(channel, m) /\ m.what = "resolved"
                 /\ m.key # None => m.model \in Providers /\ S!StoredKey(m.model) # None
    BY SMT DEF S!Post, S!StoredKey
  <2>1. IsQueue(channel') /\ Said(channel') = Said(channel) \cup {m}
    BY <2>0, Posted DEF SetupShapes
  <2>2. SetupShapes' /\ ScreenOK' /\ JobsOK' /\ S!MonitorFollowsModel' /\ S!KeyFound'
    BY <2>1 DEF SetupShapes, ScreenOK, JobsOK, S!MonitorFollowsModel, S!KeyFound, S!StoredKey
  <2>3. MessagesOK' /\ KeysOK' /\ BusyOK'
    BY <2>0, <2>1, SMT DEF MessagesOK, MessageOK, KeysOK, BusyOK, S!StoredKey
  <2> QED BY <2>2, <2>3
<1>2. CASE S!ResolveFromProjects
  <2> USE <1>2 DEF S!ResolveFromProjects, S!At, S!app
  <2>0. PICK m \in cached : S!Save(m, None, None) /\ S!Post(S!Message("resolved", m))
    OBVIOUS
  <2> DEFINE resolved == S!Message("resolved", m)
  <2>1. IsQueue(channel') /\ Said(channel') = Said(channel) \cup {resolved}
    BY <2>0, Posted DEF SetupShapes, S!Post
  <2>2. resolved.what = "resolved" /\ resolved.key = None
    BY DEF S!Message
  <2> HIDE DEF resolved
  <2>3. m \notin Providers
    BY Bounds, SMT DEF SetupShapes, S!SetupAssumption
  <2>4. /\ keyring' = [q \in Providers |-> keyring'[q]]
        /\ backend => config'.key = None
        /\ \A q \in Providers : S!StoredKey(q) # None => S!StoredKey(q)' # None
        /\ config'.model = m
    BY <2>0, SaveKeeps
  <2>5. SetupShapes' /\ ScreenOK' /\ JobsOK' /\ S!MonitorFollowsModel' /\ S!KeyFound'
    BY <2>1, <2>3, <2>4 DEF SetupShapes, ScreenOK, JobsOK, S!MonitorFollowsModel, S!KeyFound
  <2>6. MessagesOK' /\ KeysOK' /\ BusyOK'
    BY <2>1, <2>2, <2>4, SMT DEF MessagesOK, MessageOK, KeysOK, BusyOK
  <2> QED BY <2>5, <2>6
<1> QED BY <1>1, <1>2

\* fetch_registry, download_model and spawn_fetch_remote_models all report.
LEMMA JobEndsStep == SetupInv /\ S!JobEnds => SetupInv'
<1> SUFFICES ASSUME SetupInv, NEW j \in jobs, NEW what \in S!Reports(j.what),
                    jobs' = jobs \ {j},
                    cached' = IF what = "downloaded" THEN cached \cup {j.model} ELSE cached,
                    S!Post([what |-> what, model |-> j.model, provider |-> j.provider,
                            key |-> j.key]),
                    UNCHANGED <<S!app, count, config, keyring, backend, starts, borrowed>>
             PROVE  SetupInv'
  BY Zenon DEF S!JobEnds
<1> USE DEF SetupInv, S!app
<1> DEFINE report == [what |-> what, model |-> j.model, provider |-> j.provider, key |-> j.key]
<1>1. IsQueue(channel') /\ Said(channel') = Said(channel) \cup {report}
  BY Posted DEF SetupShapes, S!Post
<1>2. report.what = what /\ report.model = j.model /\ report.provider = j.provider /\ report.key = j.key
  OBVIOUS
<1> HIDE DEF report
<1>3. /\ what \in {"downloaded", "download_failed"} <=> j.what = "download"
      /\ what \in {"models", "models_failed"} <=> j.what = "models"
      /\ what \in {"registry", "registry_failed"} <=> j.what = "registry"
  BY SMT DEF JobsOK, S!Reports
<1>4. SetupShapes'
  BY <1>1, <1>3, SMT DEF SetupShapes, JobsOK
<1>5. ScreenOK' /\ JobsOK' /\ S!MonitorFollowsModel' /\ S!KeyFound' /\ KeysOK'
  BY DEF ScreenOK, JobsOK, S!MonitorFollowsModel, S!KeyFound, KeysOK, S!StoredKey, S!At
<1>6. MessageOK(report)' /\ \A m \in Said(channel) : MessageOK(m)'
  BY <1>2, <1>3, Bounds, SMT DEF MessagesOK, MessageOK, JobsOK, S!StoredKey, S!SetupAssumption
<1>7. MessagesOK'
  BY <1>1, <1>6 DEF MessagesOK
<1>8. \A w \in {"registry", "download", "models"} : Behind(w) => Behind(w)'
  <2> SUFFICES ASSUME NEW w \in {"registry", "download", "models"}, Behind(w) PROVE Behind(w)'
    OBVIOUS
  <2>1. CASE \E m \in Said(channel) : m.what \in S!Reports(w) \cup {"complete"}
    BY <1>1, <2>1 DEF Behind
  <2>2. CASE \E k \in jobs : k.what = w
    <3>1. CASE j.what = w
      BY <1>1, <1>2, <3>1 DEF Behind
    <3>2. CASE j.what # w
      BY <2>2, <3>2 DEF Behind
    <3> QED BY <3>1, <3>2
  <2> QED BY <2>1, <2>2 DEF Behind
<1>9. BusyOK'
  BY <1>1, <1>8 DEF BusyOK
<1> QED BY <1>4, <1>5, <1>7, <1>9

LEMMA Shown ==
    ASSUME NEW at, S!Show(at)
    PROVE  screen' = [at |-> at, model |-> None, provider |-> None, key |-> None, kept |-> FALSE]
  BY DEF S!Show, S!Blank

LEMMA Started ==
    ASSUME NEW what, NEW provider, NEW model, NEW key, S!Start(what, provider, model, key)
    PROVE  \E j : /\ jobs' = jobs \cup {j}
                  /\ j.what = what /\ j.provider = provider /\ j.model = model /\ j.key = key
<1> DEFINE j == [id |-> count, what |-> what, provider |-> provider, model |-> model, key |-> key]
<1>1. jobs' = jobs \cup {j}
  BY DEF S!Start
<1>2. j.what = what /\ j.provider = provider /\ j.model = model /\ j.key = key
  OBVIOUS
<1> QED BY <1>1, <1>2

\* A report, in whatever order it comes, leaves the setup on a screen that fits it.
LEMMA DispatchStep == SetupInv /\ S!Dispatch => SetupInv'
<1> SUFFICES ASSUME SetupInv, S!Dispatch PROVE SetupInv'
  OBVIOUS
<1> DEFINE m == Head(channel)
           rest == Tail(channel)
<1> USE DEF SetupInv, S!disk, S!At
<1>0. channel # <<>>
  BY DEF S!Dispatch, S!Next1, S!DispatchResolved, S!DispatchRegistry, S!DispatchFailure,
         S!DispatchDownloaded, S!DispatchModels, S!DispatchComplete
<1>1. IsQueue(rest) /\ Said(channel) = Said(rest) \cup {m}
  BY <1>0, Dropped DEF SetupShapes
<1>2. MessageOK(m) /\ \A n \in Said(rest) : MessageOK(n)
  BY <1>1 DEF MessagesOK
<1>3. CASE S!DispatchResolved
  <2> USE <1>3 DEF S!DispatchResolved, S!Next1, S!Head1, S!Drop
  <2>0. screen' = [at |-> IF m.model = None THEN "fetching_registry" ELSE "main", model |-> None,
                    provider |-> None, key |-> None, kept |-> FALSE]
    BY Shown
  <2>1. CASE m.model = None
    <3>1. /\ SetupShapes' /\ ScreenOK' /\ KeysOK' /\ MessagesOK'
          /\ S!MonitorFollowsModel' /\ S!KeyFound'
      BY <1>1, <1>2, <2>0, <2>1, SMT DEF SetupShapes, ScreenOK, KeysOK, MessagesOK, MessageOK,
         S!MonitorFollowsModel, S!KeyFound, S!StoredKey
    <3>2. PICK j : jobs' = jobs \cup {j} /\ j.what = "registry"
      BY <2>1, Started
    <3>3. JobsOK' /\ BusyOK'
      BY <2>0, <2>1, <3>2, SMT DEF JobsOK, BusyOK, Behind
    <3> QED BY <3>1, <3>3
  <2>2. CASE m.model # None
    <3>1. /\ SetupShapes' /\ ScreenOK' /\ KeysOK' /\ MessagesOK'
          /\ S!MonitorFollowsModel' /\ S!KeyFound'
      BY <1>1, <1>2, <2>0, <2>2, SMT DEF SetupShapes, ScreenOK, KeysOK, MessagesOK, MessageOK,
         S!MonitorFollowsModel, S!KeyFound, S!StoredKey
    <3>2. JobsOK' /\ BusyOK'
      BY <1>1, <2>0, <2>2, SMT DEF JobsOK, BusyOK, Behind
    <3> QED BY <3>1, <3>2
  <2> QED BY <2>1, <2>2
<1>4. CASE S!DispatchRegistry \/ S!DispatchFailure
  <2>0. PICK at \in {"models", "error_retry", "error"} : S!Show(at)
    BY <1>4 DEF S!DispatchRegistry, S!DispatchFailure
  <2>1. /\ channel' = rest /\ UNCHANGED <<chosen, memory, monitor, jobs, config, keyring, backend,
                                          cached, borrowed>>
    BY <1>4 DEF S!DispatchRegistry, S!DispatchFailure, S!Drop
  <2>2. screen' = [at |-> at, model |-> None, provider |-> None, key |-> None, kept |-> FALSE]
    BY <2>0, Shown
  <2>3. SetupShapes' /\ screen'.at = at
    BY <1>1, <2>1, <2>2, SMT DEF SetupShapes
  <2>4. /\ ScreenOK' /\ KeysOK' /\ MessagesOK' /\ S!MonitorFollowsModel' /\ S!KeyFound'
        /\ JobsOK' /\ BusyOK'
    BY <1>2, <2>0, <2>1, <2>3, SMT DEF ScreenOK, KeysOK, MessagesOK, MessageOK,
       S!MonitorFollowsModel, S!KeyFound, S!StoredKey, JobsOK, BusyOK
  <2> QED BY <2>3, <2>4
<1>5. CASE S!DispatchDownloaded
  <2> DEFINE complete == S!Message("complete", m.model)
  <2>1. /\ channel' = Append(rest, complete) /\ m.what = "downloaded"
        /\ UNCHANGED <<screen, chosen, memory, monitor, jobs, config, keyring, backend, cached,
                       borrowed>>
    BY <1>5 DEF S!DispatchDownloaded, S!Next1, S!Head1, S!app
  <2>2. complete.what = "complete" /\ complete.model = m.model
    BY DEF S!Message
  <2> HIDE DEF complete
  <2>3. IsQueue(channel') /\ Said(channel') = Said(rest) \cup {complete}
    BY <1>1, <2>1, Posted
  <2>4. SetupShapes' /\ ScreenOK' /\ KeysOK' /\ S!MonitorFollowsModel' /\ S!KeyFound' /\ JobsOK'
    BY <2>1, <2>3 DEF SetupShapes, ScreenOK, KeysOK, S!MonitorFollowsModel, S!KeyFound,
       S!StoredKey, JobsOK
  <2>5. MessagesOK' /\ BusyOK'
    BY <1>2, <2>1, <2>2, <2>3, SMT DEF MessagesOK, MessageOK, S!StoredKey, BusyOK, Behind
  <2> QED BY <2>4, <2>5
<1>6. CASE S!DispatchModels
  <2> DEFINE kept == (memory.key = m.key)
  <2>1. /\ screen' = [at |-> "remote_models", model |-> None, provider |-> m.provider,
                      key |-> m.key, kept |-> kept]
        /\ channel' = rest
        /\ UNCHANGED <<chosen, memory, monitor, jobs, config, keyring, backend, cached>>
    BY <1>6, Zenon DEF S!DispatchModels, S!Next1, S!Head1, S!Drop, S!Blank
  <2>2. ~borrowed' => ~borrowed /\ (kept => memory.provider = m.provider)
    BY <1>6 DEF S!DispatchModels, S!Head1
  <2>3. m.key # None /\ m.provider \in Providers /\ (kept => memory.key = m.key)
    BY <1>2, <1>6 DEF MessageOK, S!DispatchModels, S!Next1, S!Head1
  <2> HIDE DEF kept
  <2>4. SetupShapes' /\ ScreenOK' /\ S!MonitorFollowsModel' /\ JobsOK' /\ BusyOK'
    BY <1>1, <2>1, <2>3, SMT DEF SetupShapes, ScreenOK, S!MonitorFollowsModel, JobsOK, BusyOK
  <2>5. KeysOK'
    BY <2>1, <2>2, <2>3, SMT DEF KeysOK, S!StoredKey
  <2>6. MessagesOK' /\ S!KeyFound'
    BY <1>2, <2>1, <2>2, SMT DEF MessagesOK, MessageOK, S!KeyFound, S!StoredKey
  <2> QED BY <2>4, <2>5, <2>6
<1>7. CASE S!DispatchComplete
  <2> USE <1>7 DEF S!DispatchComplete, S!Next1, S!Head1, S!Drop
  <2>0. screen' = [at |-> "main", model |-> None, provider |-> None, key |-> None, kept |-> FALSE]
    BY Shown
  <2>1. SetupShapes' /\ ScreenOK' /\ S!MonitorFollowsModel' /\ JobsOK' /\ BusyOK'
    BY <1>1, <1>2, <2>0, SMT DEF SetupShapes, ScreenOK, S!MonitorFollowsModel, JobsOK, BusyOK,
       MessageOK
  <2>2. KeysOK' /\ MessagesOK' /\ S!KeyFound'
    BY <1>2, <2>0, SMT DEF KeysOK, MessagesOK, MessageOK, S!KeyFound, S!StoredKey
  <2> QED BY <2>1, <2>2
<1> QED BY <1>3, <1>4, <1>5, <1>6, <1>7 DEF S!Dispatch

\* Choosing a model: a provider, whose key may be known, or one that runs here.
LEMMA PickStep ==
    ASSUME SetupInv,
           \/ \E p \in Providers : S!PickProvider(p)
           \/ \E l \in Locals : S!PickLocal(l)
           \/ S!PickDtype
    PROVE  SetupInv'
<1> USE DEF SetupInv, S!disk, S!At
<1>1. ASSUME NEW p \in Providers, S!PickProvider(p) PROVE SetupInv'
  <2>1. PICK key, kept : /\ screen' = [at |-> "api_key", model |-> None, provider |-> p,
                                       key |-> key, kept |-> kept]
                         /\ UNCHANGED <<chosen, memory, monitor, jobs, channel, config, keyring,
                                        backend, cached>>
    BY <1>1, Zenon DEF S!PickProvider, S!Blank
  <2>2. ~borrowed' => ~borrowed
    BY <1>1 DEF S!PickProvider
  <2>3. SetupShapes' /\ ScreenOK' /\ JobsOK' /\ BusyOK' /\ S!MonitorFollowsModel'
    BY <2>1, SMT DEF SetupShapes, ScreenOK, JobsOK, BusyOK, S!MonitorFollowsModel
  <2>4. MessagesOK' /\ KeysOK' /\ S!KeyFound'
    BY <2>1, <2>2, SMT DEF MessagesOK, MessageOK, KeysOK, S!KeyFound, S!StoredKey
  <2> QED BY <2>3, <2>4
<1>2. ASSUME NEW l \in Locals, S!PickLocal(l) PROVE SetupInv'
  <2> DEFINE at == IF l \in cached THEN "dtype" ELSE "downloading"
  <2>1. /\ screen' = [at |-> at, model |-> l, provider |-> None, key |-> None, kept |-> FALSE]
        /\ UNCHANGED <<chosen, memory, monitor, channel, config, keyring, backend, cached, borrowed>>
    BY <1>2, Zenon DEF S!PickLocal, S!Blank
  <2>2. SetupShapes' /\ ScreenOK' /\ S!MonitorFollowsModel'
    BY <2>1, SMT DEF SetupShapes, ScreenOK, S!MonitorFollowsModel
  <2>3. MessagesOK' /\ KeysOK' /\ S!KeyFound'
    BY <2>1, SMT DEF MessagesOK, MessageOK, KeysOK, S!KeyFound, S!StoredKey
  <2>4. JobsOK' /\ BusyOK'
    <3>1. CASE l \in cached
      <4>1. jobs' = jobs
        BY <1>2, <3>1, Zenon DEF S!PickLocal
      <4> QED BY <2>1, <3>1, <4>1, SMT DEF JobsOK, BusyOK
    <3>2. CASE l \notin cached
      <4>1. PICK j : jobs' = jobs \cup {j} /\ j.what = "download" /\ j.model = l
        <5>1. S!Start("download", None, l, None)
          BY <1>2, <3>2, Zenon DEF S!PickLocal
        <5> QED BY <5>1, Started
      <4> QED BY <2>1, <3>2, <4>1, SMT DEF JobsOK, BusyOK, Behind
    <3> QED BY <3>1, <3>2
  <2> QED BY <2>2, <2>3, <2>4
<1>3. ASSUME S!PickDtype PROVE SetupInv'
  <2>1. /\ screen.at = "dtype" /\ screen' = [screen EXCEPT !.at = "method"]
        /\ UNCHANGED <<chosen, memory, monitor, jobs, channel, config, keyring, backend, cached,
                       borrowed>>
    BY <1>3 DEF S!PickDtype
  <2> QED BY <2>1, SMT DEF SetupShapes, ScreenOK, JobsOK, BusyOK, S!MonitorFollowsModel, MessagesOK,
             MessageOK, KeysOK, S!KeyFound, S!StoredKey, Behind
<1> QED BY <1>1, <1>2, <1>3

\* The last key of the setup saves the configuration, or cannot.
LEMMA FinishStep == SetupInv /\ (S!PickMethod \/ S!PickRemote) => SetupInv'
<1> SUFFICES ASSUME SetupInv, S!PickMethod \/ S!PickRemote PROVE SetupInv'
  OBVIOUS
<1> USE DEF SetupInv, S!At
<1>1. ASSUME NEW model, model # None, NEW p, NEW key, key = None \/ p \in Providers,
             S!Save(model, p, key), UNCHANGED <<chosen, monitor, jobs, backend, cached, borrowed>>,
             S!Show("launching"), S!Post(S!Message("complete", model)),
             model \in Providers /\ ~borrowed => S!StoredKey(model)' # None,
             \/ UNCHANGED memory
             \/ memory'.provider = model /\ model \in Providers
      PROVE  SetupInv'
  <2> DEFINE complete == S!Message("complete", model)
  <2>1. IsQueue(channel') /\ Said(channel') = Said(channel) \cup {complete}
    BY <1>1, Posted DEF SetupShapes, S!Post
  <2>2. complete.what = "complete" /\ complete.model = model
    BY DEF S!Message
  <2> HIDE DEF complete
  <2>3. screen' = [at |-> "launching", model |-> None, provider |-> None, key |-> None,
                   kept |-> FALSE]
    BY <1>1, Shown
  <2>4. /\ keyring' = [q \in Providers |-> keyring'[q]]
        /\ backend => config'.key = None
        /\ \A q \in Providers : S!StoredKey(q) # None => S!StoredKey(q)' # None
        /\ config'.model = model
    BY <1>1, SaveKeeps
  <2>5. SetupShapes' /\ ScreenOK' /\ JobsOK' /\ S!MonitorFollowsModel' /\ S!KeyFound'
    BY <1>1, <2>1, <2>3, <2>4, SMT DEF SetupShapes, ScreenOK, JobsOK, S!MonitorFollowsModel,
       S!KeyFound
  <2>6. MessagesOK' /\ BusyOK'
    BY <1>1, <2>1, <2>2, <2>3, <2>4, SMT DEF MessagesOK, MessageOK, BusyOK
  <2>7. KeysOK'
    BY <1>1, <2>3, <2>4, SMT DEF KeysOK
  <2> QED BY <2>5, <2>6, <2>7
<1>2. ASSUME S!Show("error"), UNCHANGED <<chosen, memory, monitor, jobs, channel, config, keyring,
                                          backend, cached, borrowed>>
      PROVE  SetupInv'
  <2>1. screen' = [at |-> "error", model |-> None, provider |-> None, key |-> None, kept |-> FALSE]
    BY <1>2, Shown
  <2>2. SetupShapes' /\ ScreenOK' /\ JobsOK' /\ BusyOK' /\ S!MonitorFollowsModel'
    BY <1>2, <2>1, SMT DEF SetupShapes, ScreenOK, JobsOK, BusyOK, S!MonitorFollowsModel
  <2>3. MessagesOK' /\ KeysOK' /\ S!KeyFound'
    BY <1>2, <2>1, SMT DEF MessagesOK, MessageOK, KeysOK, S!KeyFound, S!StoredKey
  <2> QED BY <2>2, <2>3
<1>3. CASE S!PickMethod
  <2>1. screen.model \in Locals /\ screen.model \notin Providers /\ screen.model # None
    BY <1>3, Bounds, SMT DEF S!PickMethod, ScreenOK, S!SetupAssumption
  <2> QED BY <1>1, <1>2, <1>3, <2>1 DEF S!PickMethod
<1>4. CASE S!PickRemote
  <2>1. PICK p, key : p = screen.provider /\ key = IF screen.kept THEN None ELSE screen.key
    OBVIOUS
  <2>2. p \in Providers /\ p # None /\ screen.key # None
    BY <1>4, <2>1, Bounds, SMT DEF S!PickRemote, ScreenOK, S!SetupAssumption
  <2>3. \/ /\ S!Save(p, p, key) /\ memory' = [provider |-> p, key |-> screen.key]
           /\ S!Show("launching") /\ S!Post(S!Message("complete", p))
           /\ UNCHANGED <<chosen, monitor, jobs, backend, cached, borrowed>>
        \/ /\ S!Show("error")
           /\ UNCHANGED <<chosen, memory, monitor, jobs, channel, config, keyring, backend, cached,
                          borrowed>>
    BY <1>4, <2>1 DEF S!PickRemote
  <2>4. CASE S!Save(p, p, key) /\ memory' = [provider |-> p, key |-> screen.key] /\ backend' = backend
    <3>1. /\ \A q \in Providers : S!StoredKey(q) # None => S!StoredKey(q)' # None
          /\ key # None => S!StoredKey(p)' # None
      BY <2>2, <2>4, SaveKeeps
    <3>2. ~borrowed => key # None \/ S!StoredKey(p) # None
      BY <1>4, <2>1, <2>2 DEF S!PickRemote, KeysOK
    <3>3. ~borrowed => S!StoredKey(p)' # None
      BY <2>2, <3>1, <3>2
    <3>4. memory'.provider = p
      BY <2>4
    <3> QED BY <1>1, <1>2, <2>2, <2>3, <3>3, <3>4
  <2> QED BY <1>2, <2>3, <2>4
<1> QED BY <1>3, <1>4

\* Keys, retries and ways back; a new start finds what is on the disk.
LEMMA KeyStep ==
    ASSUME SetupInv,
           \/ \E k \in Keys \cup {None} : S!TypeKey(k)
           \/ S!SubmitKey \/ S!Back \/ S!Retry \/ S!ChangeModel \/ S!Restart
    PROVE  SetupInv'
<1> USE DEF SetupInv, S!At, S!disk
<1>1. ASSUME NEW at, NEW model, NEW provider, NEW key, NEW kept,
             screen' = [at |-> at, model |-> model, provider |-> provider, key |-> key, kept |-> kept],
             at \notin {"dtype", "method", "remote_models", "main", "launching", "downloading"},
             at \in {"api_key", "fetching_models"} => provider \in Providers,
             \/ at \notin {"fetching_registry", "fetching_models"} /\ jobs' \subseteq jobs
             \/ \E j : /\ jobs' = jobs \cup {j} /\ j.what \in {"registry", "models"}
                       /\ at = "fetching_registry" => j.what = "registry"
                       /\ at = "fetching_models" => j.what = "models"
                       /\ j.what = "models" => j.provider \in Providers /\ j.key # None,
             \/ UNCHANGED memory /\ UNCHANGED channel
             \/ memory'.key = None /\ channel' = <<>>,
             UNCHANGED <<config, keyring, backend, cached, borrowed>>
      PROVE  SetupInv'
  <2>1. IsQueue(channel') /\ Said(channel') \subseteq Said(channel)
    <3>1. IsQueue(<<>>) /\ Said(<<>>) = {}
      BY SMT DEF IsQueue, Said
    <3> QED BY <1>1, <3>1 DEF SetupShapes
  <2>2. SetupShapes' /\ ScreenOK' /\ S!MonitorFollowsModel'
    BY <1>1, <2>1, SMT DEF SetupShapes, ScreenOK, S!MonitorFollowsModel
  <2>3. MessagesOK' /\ KeysOK' /\ S!KeyFound'
    BY <1>1, <2>1, SMT DEF MessagesOK, MessageOK, KeysOK, S!KeyFound, S!StoredKey
  <2>4. JobsOK' /\ BusyOK'
    BY <1>1, SMT DEF JobsOK, BusyOK, Behind
  <2> QED BY <2>2, <2>3, <2>4
<1>2. ASSUME S!Show("fetching_registry"), S!Start("registry", None, None, None),
             UNCHANGED <<memory, channel, config, keyring, backend, cached, borrowed>>
      PROVE  SetupInv'
  <2>1. screen' = [at |-> "fetching_registry", model |-> None, provider |-> None, key |-> None,
                   kept |-> FALSE]
    BY <1>2, Shown
  <2>2. \E j : jobs' = jobs \cup {j} /\ j.what = "registry"
    BY <1>2, Started
  <2> QED BY <1>1, <1>2, <2>1, <2>2
<1>3. ASSUME NEW k, S!TypeKey(k) PROVE SetupInv'
  <2>1. /\ screen.at = "api_key" /\ screen' = [screen EXCEPT !.key = k]
        /\ UNCHANGED <<memory, jobs, channel, config, keyring, backend, cached, borrowed>>
    BY <1>3 DEF S!TypeKey
  <2>2. /\ screen' = [at |-> "api_key", model |-> screen.model, provider |-> screen.provider,
                      key |-> k, kept |-> screen.kept]
        /\ screen.provider \in Providers
    BY <2>1, SMT DEF SetupShapes, ScreenOK
  <2> QED BY <1>1, <2>1, <2>2
<1>4. ASSUME S!SubmitKey PROVE SetupInv'
  <2>1. /\ screen.at = "api_key" /\ screen.key # None
        /\ S!Start("models", screen.provider, None, screen.key)
        /\ screen' = [screen EXCEPT !.at = "fetching_models"]
        /\ UNCHANGED <<memory, channel, config, keyring, backend, cached, borrowed>>
    BY <1>4 DEF S!SubmitKey
  <2>2. /\ screen' = [at |-> "fetching_models", model |-> screen.model, provider |-> screen.provider,
                      key |-> screen.key, kept |-> screen.kept]
        /\ screen.provider \in Providers
    BY <2>1, SMT DEF SetupShapes, ScreenOK
  <2>3. \E j : /\ jobs' = jobs \cup {j}
               /\ j.what = "models" /\ j.provider = screen.provider /\ j.key = screen.key
    BY <2>1, Started
  <2> QED BY <1>1, <2>1, <2>2, <2>3
<1>5. ASSUME S!Back PROVE SetupInv'
  <2>1. CASE screen.at = "models"
    <3>1. /\ chosen # None /\ S!Show("main") /\ monitor' = chosen
          /\ UNCHANGED <<chosen, memory, jobs, channel, config, keyring, backend, cached, borrowed>>
      BY <1>5, <2>1 DEF S!Back
    <3>2. screen' = [at |-> "main", model |-> None, provider |-> None, key |-> None, kept |-> FALSE]
      BY <3>1, Shown
    <3>3. SetupShapes' /\ ScreenOK' /\ S!MonitorFollowsModel' /\ JobsOK' /\ BusyOK'
      BY <3>1, <3>2, SMT DEF SetupShapes, ScreenOK, S!MonitorFollowsModel, JobsOK, BusyOK
    <3>4. MessagesOK' /\ KeysOK' /\ S!KeyFound'
      BY <3>1, <3>2, SMT DEF MessagesOK, MessageOK, KeysOK, S!KeyFound, S!StoredKey
    <3> QED BY <3>3, <3>4
  <2>2. CASE screen.at \in {"dtype", "api_key"}
    <3>1. \/ S!Show("models") /\ UNCHANGED jobs
          \/ S!Show("fetching_registry") /\ S!Start("registry", None, None, None)
      BY <1>5, <2>2 DEF S!Back
    <3>2. UNCHANGED <<memory, channel, config, keyring, backend, cached, borrowed>>
      BY <1>5 DEF S!Back
    <3>3. CASE S!Show("models") /\ UNCHANGED jobs
      <4>1. screen' = [at |-> "models", model |-> None, provider |-> None, key |-> None,
                       kept |-> FALSE]
        BY <3>3, Shown
      <4> QED BY <1>1, <3>2, <3>3, <4>1
    <3> QED BY <1>2, <3>1, <3>2, <3>3
  <2>3. CASE screen.at \in {"fetching_models", "remote_models"}
    <3>1. /\ screen' = [screen EXCEPT !.at = "api_key"] /\ jobs' \subseteq jobs
          /\ UNCHANGED <<memory, channel, config, keyring, backend, cached, borrowed>>
      BY <1>5, <2>3 DEF S!Back
    <3>2. /\ screen' = [at |-> "api_key", model |-> screen.model, provider |-> screen.provider,
                        key |-> screen.key, kept |-> screen.kept]
          /\ screen.provider \in Providers
      BY <2>3, <3>1, SMT DEF SetupShapes, ScreenOK
    <3> QED BY <1>1, <3>1, <3>2
  <2> QED BY <1>5, <2>1, <2>2, <2>3 DEF S!Back
<1>6. ASSUME S!Restart PROVE SetupInv'
  <2>1. /\ screen' = [at |-> "resolving", model |-> None, provider |-> None, key |-> None,
                      kept |-> FALSE]
        /\ jobs' \subseteq jobs /\ channel' = <<>> /\ memory' = [provider |-> None, key |-> None]
        /\ UNCHANGED <<config, keyring, backend, cached, borrowed>>
    BY <1>6 DEF S!Restart, S!Blank
  <2>2. memory'.key = None
    BY <2>1
  <2> QED BY <1>1, <2>1, <2>2
<1>7. S!Retry => SetupInv'
  BY <1>2 DEF S!Retry
<1>8. S!ChangeModel => SetupInv'
  BY <1>2 DEF S!ChangeModel
<1> QED BY <1>3, <1>4, <1>5, <1>6, <1>7, <1>8

LEMMA SetupGoes == SetupInv /\ [S!Next]_S!vars => SetupInv'
<1> SUFFICES ASSUME SetupInv, [S!Next]_S!vars PROVE SetupInv'
  OBVIOUS
<1>1. ASSUME S!Key PROVE SetupInv'
  BY <1>1, PickStep, FinishStep, KeyStep DEF S!Key
<1>2. ASSUME S!Next PROVE SetupInv'
  BY <1>1, <1>2, ResolveStep, JobEndsStep, DispatchStep DEF S!Next
<1>3. ASSUME UNCHANGED S!vars PROVE SetupInv'
  BY <1>3 DEF S!vars, S!app, S!disk, SetupInv, SetupShapes, ScreenOK, JobsOK, MessagesOK, MessageOK,
     KeysOK, BusyOK, Behind, S!MonitorFollowsModel, S!KeyFound, S!StoredKey, S!At
<1> QED BY <1>2, <1>3

LEMMA SetupSafe == SetupInv => S!MonitorFollowsModel /\ S!KeyFound /\ S!SpinnersEnd
  BY DEF SetupInv, BusyOK, Behind, Said, S!SpinnersEnd, S!Pending, S!At

-----------------------------------------------------------------------------
(* The inductive invariant of the main screen *)

Ends == {"index_end", "index_failed"}

\* Behind every report of progress in the channel comes the end of a run.
Followed(q) ==
    \A i \in DOMAIN q : q[i].what = "progress" => \E k \in DOMAIN q : k > i /\ q[k].what \in Ends

LEMMA FollowedPosted ==
    ASSUME NEW q, IsQueue(q), NEW m, m.what \in Ends \/ (Followed(q) /\ m.what # "progress")
    PROVE  Followed(Append(q, m))
<1>1. /\ Len(q) \in Nat /\ DOMAIN q = 1..Len(q)
      /\ DOMAIN Append(q, m) = 1..(Len(q) + 1)
      /\ \A i \in 1..Len(q) : Append(q, m)[i] = q[i]
      /\ Append(q, m)[Len(q) + 1] = m
  BY SMT DEF IsQueue
<1>2. m.what # "progress"
  BY DEF Ends
<1> SUFFICES ASSUME NEW i \in 1..(Len(q) + 1), Append(q, m)[i].what = "progress"
             PROVE  \E k \in 1..(Len(q) + 1) : k > i /\ Append(q, m)[k].what \in Ends
  BY <1>1 DEF Followed
<1>3. i \in 1..Len(q)
  BY <1>1, <1>2, SMT
<1>4. CASE m.what \in Ends
  BY <1>1, <1>3, <1>4, SMT
<1>5. CASE Followed(q)
  <2>1. PICK k \in 1..Len(q) : k > i /\ q[k].what \in Ends
    BY <1>1, <1>3, <1>5, Zenon DEF Followed
  <2> QED BY <1>1, <2>1, SMT
<1> QED BY <1>4, <1>5

LEMMA FollowedDropped ==
    ASSUME NEW q, IsQueue(q), q # <<>>, Followed(q)
    PROVE  /\ Followed(Tail(q))
           /\ Head(q).what = "progress" => \E m \in Said(Tail(q)) : m.what \in Ends
<1>1. /\ Head(q) = q[1] /\ Len(q) \in Nat \ {0}
      /\ DOMAIN q = 1..Len(q) /\ DOMAIN Tail(q) = 1..(Len(q) - 1)
      /\ \A i \in 1..(Len(q) - 1) : Tail(q)[i] = q[i + 1]
  BY SMT DEF IsQueue
<1>2. ASSUME NEW i \in 1..Len(q), q[i].what = "progress"
      PROVE  \E k \in 1..(Len(q) - 1) : k + 1 > i /\ Tail(q)[k].what \in Ends
  <2>1. PICK k \in 1..Len(q) : k > i /\ q[k].what \in Ends
    BY <1>1, <1>2, Zenon DEF Followed
  <2>2. k - 1 \in 1..(Len(q) - 1) /\ (k - 1) + 1 > i /\ (k - 1) + 1 = k
    BY <1>1, <2>1, SMT
  <2> QED BY <1>1, <2>1, <2>2, Zenon
<1>3. ASSUME NEW i \in 1..(Len(q) - 1), Tail(q)[i].what = "progress"
      PROVE  \E k \in 1..(Len(q) - 1) : k > i /\ Tail(q)[k].what \in Ends
  <2>1. i + 1 \in 1..Len(q) /\ q[i + 1].what = "progress"
    BY <1>1, <1>3, SMT
  <2>2. PICK k \in 1..(Len(q) - 1) : k + 1 > i + 1 /\ Tail(q)[k].what \in Ends
    BY <1>2, <2>1
  <2> QED BY <2>2, SMT
<1>4. Head(q).what = "progress" => \E m \in Said(Tail(q)) : m.what \in Ends
  <2>1. 1 \in 1..Len(q)
    BY <1>1, SMT
  <2> QED BY <1>1, <1>2, <2>1, Zenon DEF Said
<1> QED BY <1>1, <1>3, <1>4 DEF Followed

IsView(v) ==
    v = [screen |-> v.screen, modal |-> v.modal, root |-> v.root, listed |-> v.listed,
         selected |-> v.selected, searching |-> v.searching, stopped |-> v.stopped]

LEMMA ViewSet ==
    ASSUME NEW v, IsView(v), NEW x, NEW w,
           \/ w = [v EXCEPT !.screen = x] \/ w = [v EXCEPT !.root = x]
           \/ w = [v EXCEPT !.listed = x] \/ w = [v EXCEPT !.selected = x]
           \/ w = [v EXCEPT !.stopped = x]
    PROVE  IsView(w) /\ w.modal = v.modal /\ w.searching = v.searching
<1>1. CASE w = [v EXCEPT !.screen = x]
  BY <1>1, SMT DEF IsView
<1>2. CASE w = [v EXCEPT !.root = x]
  BY <1>2, SMT DEF IsView
<1>3. CASE w = [v EXCEPT !.listed = x]
  BY <1>3, SMT DEF IsView
<1>4. CASE w = [v EXCEPT !.selected = x]
  BY <1>4, SMT DEF IsView
<1>5. CASE w = [v EXCEPT !.stopped = x]
  BY <1>5, SMT DEF IsView
<1> QED BY <1>1, <1>2, <1>3, <1>4, <1>5

LEMMA ModalSet ==
    ASSUME NEW v, IsView(v), NEW x, NEW w, w = [v EXCEPT !.modal = x]
    PROVE  IsView(w) /\ w.modal = x /\ w.searching = v.searching
  BY SMT DEF IsView

LEMMA SearchingSet ==
    ASSUME NEW v, IsView(v), NEW x, NEW w, w = [v EXCEPT !.searching = x]
    PROVE  IsView(w) /\ w.modal = v.modal /\ w.searching = x
  BY SMT DEF IsView

\* Another window is opened, or none is left.
LEMMA WindowSet ==
    ASSUME IsView(view), NEW modal, NEW root,
           view' = [view EXCEPT !.modal = modal, !.root = root]
    PROVE  IsView(view') /\ view'.modal = modal /\ view'.searching = view.searching
<1> DEFINE v == [view EXCEPT !.modal = modal]
<1>1. IsView(v) /\ v.modal = modal /\ v.searching = view.searching
  BY ModalSet
<1>2. view' = [v EXCEPT !.root = root]
  OBVIOUS
<1> HIDE DEF v
<1>3. ASSUME NEW w, w = [v EXCEPT !.root = root]
      PROVE  IsView(w) /\ w.modal = v.modal /\ w.searching = v.searching
  BY <1>1, <1>3, ViewSet
<1>4. IsView(view') /\ view'.modal = v.modal /\ view'.searching = v.searching
  BY <1>2, <1>3
<1> QED BY <1>1, <1>4

MainShapes ==
    /\ IsView(view)
    /\ \A t \in tasks : t = [id |-> t.id, what |-> t.what, root |-> t.root, says |-> t.says,
                             pc |-> t.pc]
    /\ IsQueue(channel)

\* What a task is about to do tells what it is for.
TaskOK(t) ==
    /\ t.pc \in {"stop", "refresh"} => t.what = t.pc
    /\ t.pc = "delete" => t.what = "remove"
    /\ t.pc = "report" => t.says # "progress"
    /\ t.pc = "report" /\ t.what = "search" => t.says = "search_end"
    /\ t.pc = "report" /\ t.what = "index" => t.says \in Ends

TasksOK == \A t \in tasks : TaskOK(t)

SearchOK ==
    view.searching => \/ \E t \in tasks : t.what = "search"
                      \/ \E m \in Said(channel) : m.what = "search_end"

\* No progress is behind the end of the last run: it would open the window again.
IndexOK ==
    \/ \E t \in tasks : t.what = "index"
    \/ /\ view.modal = "indexing" => \E m \in Said(channel) : m.what \in Ends
       /\ Followed(channel)

MainInv == MainShapes /\ TasksOK /\ SearchOK /\ IndexOK

LEMMA MainSafe == MainInv => M!NothingSpins
  BY DEF MainInv, SearchOK, IndexOK, Ends, Said, M!NothingSpins, M!Reported

LEMMA MainBegins == M!Init => MainInv
<1> SUFFICES ASSUME M!Init PROVE MainInv
  OBVIOUS
<1>1. IsQueue(channel) /\ Said(channel) = {} /\ Followed(channel)
  BY SMT DEF M!Init, IsQueue, Said, Followed
<1> QED BY <1>1, SMT DEF M!Init, MainInv, MainShapes, IsView, TasksOK, SearchOK, IndexOK

\* A step of the monitor: at most a status or a list is sent.
LEMMA MonitorStep == MainInv /\ M!Monitor => MainInv'
<1> SUFFICES ASSUME MainInv, M!Monitor PROVE MainInv'
  OBVIOUS
<1>1. UNCHANGED <<view, tasks>>
  BY DEF M!Monitor, M!Look, M!AskStatus, M!StatusAnswered, M!Tell, M!TryConnect, M!SendList,
     M!MonitorKeeps
<1>2. UNCHANGED channel \/ \E m : channel' = Append(channel, m) /\ m.what \in {"status", "projects"}
  <2>1. CASE M!Tell
    <3> DEFINE m == [M!Message("status") EXCEPT !.status = monitor.says]
    <3>1. channel' = Append(channel, m)
      BY <2>1 DEF M!Tell, M!Post
    <3>2. m.what = "status"
      BY DEF M!Message
    <3> QED BY <3>1, <3>2
  <2>2. CASE M!SendList
    <3> DEFINE m == [M!Message("projects") EXCEPT !.list = M!List(stored)]
    <3>1. channel' = Append(channel, m)
      BY <2>2 DEF M!SendList, M!Post
    <3>2. m.what = "projects"
      BY DEF M!Message
    <3> QED BY <3>1, <3>2
  <2> QED BY <2>1, <2>2 DEF M!Monitor, M!Look, M!AskStatus, M!StatusAnswered, M!TryConnect
<1>3. CASE UNCHANGED channel
  BY <1>1, <1>3 DEF MainInv, MainShapes, TasksOK, TaskOK, SearchOK, IndexOK
<1>4. ASSUME NEW m, channel' = Append(channel, m), m.what \in {"status", "projects"}
      PROVE  MainInv'
  <2>1. /\ IsQueue(channel') /\ Said(channel') = Said(channel) \cup {m}
        /\ Followed(channel) => Followed(channel')
    BY <1>4, Posted, FollowedPosted DEF MainInv, MainShapes
  <2> QED BY <1>1, <2>1 DEF MainInv, MainShapes, TasksOK, TaskOK, SearchOK, IndexOK
<1> QED BY <1>2, <1>3, <1>4

\* A task goes on, or ends and has said what it had to.
LEMMA TaskGoes ==
    ASSUME MainInv, NEW t \in tasks, NEW u, u.what = t.what, TaskOK(u),
           u = [id |-> u.id, what |-> u.what, root |-> u.root, says |-> u.says, pc |-> u.pc],
           tasks' = (tasks \ {t}) \cup {u}, UNCHANGED <<view, channel>>
    PROVE  MainInv'
<1>1. MainShapes' /\ TasksOK'
  BY DEF MainInv, MainShapes, TasksOK, TaskOK
<1>2. ASSUME NEW what, \E v \in tasks : v.what = what
      PROVE  \E v \in tasks' : v.what = what
  BY <1>2
<1>3. SearchOK' /\ IndexOK'
  BY <1>2 DEF MainInv, SearchOK, IndexOK
<1> QED BY <1>1, <1>3 DEF MainInv

LEMMA TaskEnds ==
    ASSUME MainInv, NEW t \in tasks, tasks' = tasks \ {t}, UNCHANGED view,
           \/ UNCHANGED channel /\ t.what \notin {"search", "index"}
           \/ \E m : /\ channel' = Append(channel, m) /\ m.what # "progress"
                     /\ t.what = "search" => m.what = "search_end"
                     /\ t.what = "index" => m.what \in Ends
    PROVE  MainInv'
<1>1. CASE UNCHANGED channel /\ t.what \notin {"search", "index"}
  <2>1. ASSUME NEW what \in {"search", "index"}, \E v \in tasks : v.what = what
        PROVE  \E v \in tasks' : v.what = what
    BY <1>1, <2>1
  <2>2. MainShapes' /\ TasksOK'
    BY <1>1 DEF MainInv, MainShapes, TasksOK, TaskOK
  <2>3. SearchOK' /\ IndexOK'
    BY <1>1, <2>1 DEF MainInv, SearchOK, IndexOK
  <2> QED BY <2>2, <2>3 DEF MainInv
<1>2. ASSUME NEW m, channel' = Append(channel, m), m.what # "progress",
             t.what = "search" => m.what = "search_end",
             t.what = "index" => m.what \in Ends
      PROVE  MainInv'
  <2>1. /\ IsQueue(channel') /\ Said(channel') = Said(channel) \cup {m}
        /\ Followed(channel) \/ m.what \in Ends => Followed(channel')
    BY <1>2, Posted, FollowedPosted DEF MainInv, MainShapes
  <2>2. MainShapes' /\ TasksOK'
    BY <2>1 DEF MainInv, MainShapes, TasksOK, TaskOK
  <2>3. SearchOK'
    BY <1>2, <2>1, SMT DEF MainInv, SearchOK
  <2>4. IndexOK'
    BY <1>2, <2>1, SMT DEF MainInv, IndexOK
  <2> QED BY <2>2, <2>3, <2>4 DEF MainInv
<1> QED BY <1>1, <1>2

LEMMA TaskStep == ASSUME MainInv, NEW t \in tasks, M!Task(t) \/ M!TaskProgress(t) PROVE MainInv'
<1>0. t = [id |-> t.id, what |-> t.what, root |-> t.root, says |-> t.says, pc |-> t.pc] /\ TaskOK(t)
  BY DEF MainInv, MainShapes, TasksOK
<1>1. ASSUME NEW says, says # "progress", UNCHANGED <<view, channel>>, M!Says(t, says),
             t.what = "search" => says = "search_end",
             t.what = "index" => says \in Ends
      PROVE  MainInv'
  <2> DEFINE u == IF t.what = "remove" THEN [t EXCEPT !.says = says, !.pc = "delete"]
                  ELSE [t EXCEPT !.says = says, !.pc = "report", !.root = None]
  <2>1. tasks' = (tasks \ {t}) \cup {u}
    BY <1>1 DEF M!Says
  <2>2. /\ u = [id |-> u.id, what |-> u.what, root |-> u.root, says |-> u.says, pc |-> u.pc]
        /\ u.what = t.what /\ TaskOK(u)
    <3>1. CASE t.what = "remove"
      <4>1. u = [id |-> t.id, what |-> "remove", root |-> t.root, says |-> says, pc |-> "delete"]
        BY <1>0, <3>1, Zenon
      <4> HIDE DEF u
      <4> QED BY <3>1, <4>1 DEF TaskOK
    <3>2. CASE t.what # "remove"
      <4>1. u = [id |-> t.id, what |-> t.what, root |-> None, says |-> says, pc |-> "report"]
        BY <1>0, <3>2, Zenon
      <4> HIDE DEF u
      <4> QED BY <1>1, <3>2, <4>1, SMT DEF TaskOK
    <3> QED BY <3>1, <3>2
  <2> HIDE DEF u
  <2> QED BY <1>1, <2>1, <2>2, TaskGoes
<1>2. ASSUME UNCHANGED <<view, channel>>, M!Failed(t) PROVE MainInv'
  BY <1>1, <1>2, SMT DEF M!Failed, Ends
<1>3. ASSUME NEW pc \in {"lock", "asked"}, UNCHANGED <<view, channel>>, M!Goes(t, pc) PROVE MainInv'
  <2> DEFINE u == [t EXCEPT !.pc = pc]
  <2>1. tasks' = (tasks \ {t}) \cup {u}
    BY <1>3 DEF M!Goes
  <2>2. u = [id |-> t.id, what |-> t.what, root |-> t.root, says |-> t.says, pc |-> pc]
    BY <1>0, SMT
  <2> HIDE DEF u
  <2> QED BY <1>3, <2>1, <2>2, TaskGoes DEF TaskOK
<1>4. CASE M!TaskConnects(t)
  BY <1>2, <1>3, <1>4 DEF M!TaskConnects, M!Kept
<1>5. CASE M!TaskAsks(t)
  BY <1>2, <1>3, <1>5 DEF M!TaskAsks, M!Kept
<1>6. CASE M!TaskAnswered(t)
  BY <1>1, <1>2, <1>6 DEF M!TaskAnswered, M!Kept, Ends
<1>7. CASE M!TaskDeletes(t)
  <2>1. PICK says : /\ tasks' = (tasks \ {t}) \cup {[t EXCEPT !.pc = "report", !.says = says, !.root = None]}
                    /\ t.pc = "delete" /\ says # "progress" /\ UNCHANGED <<view, channel>>
    BY <1>7 DEF M!TaskDeletes, M!Kept
  <2> DEFINE u == [t EXCEPT !.pc = "report", !.says = says, !.root = None]
  <2>2. u = [id |-> t.id, what |-> t.what, root |-> None, says |-> says, pc |-> "report"]
    <3>1. u = [[[t EXCEPT !.pc = "report"] EXCEPT !.says = says] EXCEPT !.root = None]
      OBVIOUS
    <3> HIDE DEF u
    <3> DEFINE a == [id |-> t.id, what |-> t.what, root |-> t.root, says |-> t.says, pc |-> "report"]
               b == [id |-> t.id, what |-> t.what, root |-> t.root, says |-> says, pc |-> "report"]
    <3>2. [t EXCEPT !.pc = "report"] = a
      BY <1>0, SMT
    <3>3. [a EXCEPT !.says = says] = b
      OBVIOUS
    <3>4. [b EXCEPT !.root = None]
            = [id |-> t.id, what |-> t.what, root |-> None, says |-> says, pc |-> "report"]
      OBVIOUS
    <3> QED BY <3>1, <3>2, <3>3, <3>4
  <2>3. t.what = "remove"
    BY <1>0, <2>1 DEF TaskOK
  <2> HIDE DEF u
  <2>4. TaskOK(u) /\ u.what = t.what
    BY <2>1, <2>2, <2>3 DEF TaskOK
  <2> QED BY <2>1, <2>2, <2>4, TaskGoes DEF u
<1>8. CASE M!TaskReports(t)
  <2> DEFINE m == M!Message(t.says)
  <2>1. /\ channel' = Append(channel, m) /\ tasks' = tasks \ {t} /\ UNCHANGED view /\ t.pc = "report"
    BY <1>8 DEF M!TaskReports, M!Post, M!Kept
  <2>2. m.what = t.says
    BY DEF M!Message
  <2> HIDE DEF m
  <2> QED BY <1>0, <2>1, <2>2, TaskEnds DEF TaskOK
<1>9. CASE M!TaskStops(t)
  BY <1>0, <1>9, TaskEnds DEF M!TaskStops, M!Kept, TaskOK
<1>10. CASE M!TaskLists(t)
  <2> DEFINE m == [M!Message("projects") EXCEPT !.list = M!List(stored)]
  <2>1. /\ channel' = Append(channel, m) /\ tasks' = tasks \ {t} /\ UNCHANGED view /\ t.pc = "refresh"
    BY <1>10 DEF M!TaskLists, M!Post, M!Kept
  <2>2. m.what = "projects"
    BY DEF M!Message
  <2> HIDE DEF m
  <2> QED BY <1>0, <2>1, <2>2, TaskEnds DEF TaskOK
<1>11. CASE M!TaskProgress(t)
  <2>1. /\ channel' = Append(channel, M!Message("progress")) /\ UNCHANGED <<tasks, view>>
        /\ t.what = "index"
    BY <1>11 DEF M!TaskProgress, M!Post, M!Kept
  <2>2. IsQueue(channel') /\ Said(channel') = Said(channel) \cup {M!Message("progress")}
    BY <2>1, Posted DEF MainInv, MainShapes
  <2> QED BY <2>1, <2>2 DEF MainInv, MainShapes, TasksOK, TaskOK, SearchOK, IndexOK
<1> QED BY <1>4, <1>5, <1>6, <1>7, <1>8, <1>9, <1>10, <1>11 DEF M!Task

\* A message is drawn: progress opens the window, the end of a run closes it.
LEMMA MainDispatchStep == MainInv /\ M!Dispatch => MainInv'
<1> SUFFICES ASSUME MainInv, M!Dispatch PROVE MainInv'
  OBVIOUS
<1> DEFINE m == Head(channel)
           rest == Tail(channel)
<1>1. channel # <<>> /\ channel' = rest
  BY DEF M!Dispatch
<1>2. /\ IsQueue(rest) /\ Said(channel) = Said(rest) \cup {m}
      /\ Followed(channel) => Followed(rest)
      /\ Followed(channel) /\ m.what = "progress" => \E n \in Said(rest) : n.what \in Ends
  BY <1>1, Dropped, FollowedDropped DEF MainInv, MainShapes
<1>3. \/ M!DispatchStatus(m) \/ M!DispatchProjects(m) \/ M!DispatchSearch(m)
      \/ M!DispatchProgress(m) \/ M!DispatchIndexed(m) \/ M!DispatchRemoved(m)
  BY DEF M!Dispatch
<1> HIDE DEF m, rest
<1>4. /\ IsView(view')
      /\ view'.searching => view.searching /\ m.what # "search_end"
      /\ view'.modal = "indexing" => \/ m.what = "progress"
                                     \/ view.modal = "indexing" /\ m.what \notin Ends
  <2>0. IsView(view)
    BY DEF MainInv, MainShapes
  <2>1. CASE M!DispatchStatus(m)
    BY <2>0, <2>1, ViewSet DEF M!DispatchStatus, Ends
  <2>2. CASE M!DispatchProjects(m)
    <3> DEFINE v == [view EXCEPT !.listed = m.list]
    <3>1. PICK x : view' = [v EXCEPT !.selected = x]
      BY <2>2 DEF M!DispatchProjects
    <3>2. IsView(v) /\ v.modal = view.modal /\ v.searching = view.searching
      BY <2>0, ViewSet
    <3> HIDE DEF v
    <3>3. IsView(view') /\ view'.modal = view.modal /\ view'.searching = view.searching
      BY <3>1, <3>2, ViewSet
    <3> QED BY <2>2, <3>3 DEF M!DispatchProjects, Ends
  <2>3. CASE M!DispatchSearch(m)
    BY <2>0, <2>3, SearchingSet DEF M!DispatchSearch, Ends
  <2>4. CASE M!DispatchProgress(m)
    <3>1. PICK root : view' = [view EXCEPT !.modal = "indexing", !.root = root]
      BY <2>4 DEF M!DispatchProgress
    <3> QED BY <2>0, <2>4, <3>1, WindowSet DEF M!DispatchProgress
  <2>5. CASE M!DispatchIndexed(m)
    BY <2>0, <2>5, WindowSet DEF M!DispatchIndexed, M!Window
  <2>6. CASE M!DispatchRemoved(m)
    <3> DEFINE v == [view EXCEPT !.modal = "none", !.root = None]
    <3>1. PICK listed, selected : view' = [[v EXCEPT !.listed = listed] EXCEPT !.selected = selected]
      BY <2>6 DEF M!DispatchRemoved
    <3>2. IsView(v) /\ v.modal = "none" /\ v.searching = view.searching
      <4> DEFINE u == [view EXCEPT !.modal = "none"]
      <4>1. IsView(u) /\ u.modal = "none" /\ u.searching = view.searching
        BY <2>0, ModalSet
      <4>2. v = [u EXCEPT !.root = None]
        OBVIOUS
      <4> HIDE DEF u, v
      <4> QED BY <4>1, <4>2, ViewSet
    <3> HIDE DEF v
    <3> DEFINE w == [v EXCEPT !.listed = listed]
    <3>3. IsView(w) /\ w.modal = v.modal /\ w.searching = v.searching
      BY <3>2, ViewSet
    <3>4. view' = [w EXCEPT !.selected = selected]
      BY <3>1
    <3> HIDE DEF w
    <3>5. IsView(view') /\ view'.modal = "none" /\ view'.searching = view.searching
      BY <3>2, <3>3, <3>4, ViewSet
    <3> QED BY <2>6, <3>5 DEF M!DispatchRemoved
  <2> QED BY <1>3, <2>1, <2>2, <2>3, <2>4, <2>5, <2>6
<1>5. tasks' = tasks \/ \E u : /\ tasks' = tasks \cup {u} /\ TaskOK(u)
                               /\ u = [id |-> u.id, what |-> u.what, root |-> u.root,
                                       says |-> u.says, pc |-> u.pc]
  <2>1. CASE M!Refresh
    <3> DEFINE u == [id |-> M!Refresher, what |-> "refresh", root |-> None, says |-> None,
                     pc |-> "refresh"]
    <3>1. tasks' = tasks \cup {u}
      BY <2>1 DEF M!Refresh
    <3>2. u = [id |-> u.id, what |-> u.what, root |-> u.root, says |-> u.says, pc |-> u.pc]
      OBVIOUS
    <3>3. TaskOK(u)
      BY DEF TaskOK
    <3> QED BY <3>1, <3>2, <3>3
  <2> QED BY <1>3, <2>1 DEF M!DispatchStatus, M!DispatchProjects, M!DispatchSearch,
             M!DispatchProgress, M!DispatchIndexed, M!DispatchRemoved
<1>6. MainShapes' /\ TasksOK'
  BY <1>1, <1>2, <1>4, <1>5 DEF MainInv, MainShapes, TasksOK
<1>7. \A t \in tasks : t \in tasks'
  BY <1>5
<1>8. SearchOK' /\ IndexOK'
  BY <1>1, <1>2, <1>4, <1>7, SMT DEF MainInv, SearchOK, IndexOK
<1> QED BY <1>6, <1>8 DEF MainInv

\* A task that the user has just started.
Begun(t) ==
    /\ tasks' = tasks \cup {t} /\ TaskOK(t)
    /\ t = [id |-> t.id, what |-> t.what, root |-> t.root, says |-> t.says, pc |-> t.pc]

LEMMA TaskBegins ==
    ASSUME NEW what, NEW root, M!StartTask(what, root)
    PROVE  \E t : Begun(t) /\ t.what = what
<1> DEFINE t == [id |-> started, what |-> what, root |-> root, says |-> None,
                 pc |-> IF what = "stop" THEN "stop" ELSE "ensure"]
<1>1. tasks' = tasks \cup {t}
  BY DEF M!StartTask
<1>2. t = [id |-> t.id, what |-> t.what, root |-> t.root, says |-> t.says, pc |-> t.pc]
  OBVIOUS
<1>3. t.what = what /\ t.pc = IF what = "stop" THEN "stop" ELSE "ensure"
  OBVIOUS
<1> HIDE DEF t
<1>4. TaskOK(t)
  BY <1>3 DEF TaskOK
<1> QED BY <1>1, <1>2, <1>3, <1>4 DEF Begun

\* The user opens and closes windows and starts tasks.
LEMMA MainKeyStep == MainInv /\ (M!Key \/ M!Restarted) => MainInv'
<1> SUFFICES ASSUME MainInv, M!Key \/ M!Restarted PROVE MainInv'
  OBVIOUS
<1>0. IsView(view)
  BY DEF MainInv, MainShapes
<1>1. ASSUME IsView(view'), UNCHANGED channel, view'.searching => view.searching,
             view'.modal = "indexing" => view.modal = "indexing",
             UNCHANGED tasks \/ M!StartTask("remove", M!SelectedRoot) \/ M!StartTask("stop", None)
      PROVE  MainInv'
  <2>1. tasks' = tasks \/ \E t : Begun(t)
    BY <1>1, TaskBegins
  <2>2. MainShapes' /\ TasksOK'
    BY <1>1, <2>1 DEF MainInv, MainShapes, TasksOK, Begun
  <2>3. SearchOK' /\ IndexOK'
    BY <1>1, <2>1 DEF MainInv, SearchOK, IndexOK, Begun
  <2> QED BY <2>2, <2>3 DEF MainInv
<1>2. ASSUME NEW root, IsView(view'), UNCHANGED channel, view'.searching => view.searching,
             M!StartTask("index", root)
      PROVE  MainInv'
  <2>1. PICK t : Begun(t) /\ t.what = "index"
    BY <1>2, TaskBegins
  <2>2. MainShapes' /\ TasksOK'
    BY <1>2, <2>1 DEF MainInv, MainShapes, TasksOK, Begun
  <2>3. SearchOK' /\ IndexOK'
    BY <1>2, <2>1 DEF MainInv, SearchOK, IndexOK, Begun
  <2> QED BY <2>2, <2>3 DEF MainInv
<1>3. ASSUME NEW modal \in {"none", "detail", "confirm", "error", "add", "method"}, NEW root,
             view' = [view EXCEPT !.modal = modal, !.root = root]
      PROVE  IsView(view') /\ view'.modal # "indexing" /\ view'.searching = view.searching
  BY <1>0, <1>3, WindowSet
<1>4. ASSUME UNCHANGED view PROVE IsView(view') /\ view'.modal = view.modal /\ view'.searching = view.searching
  BY <1>0, <1>4
<1>5. CASE M!Select
  <2>1. PICK x : view' = [view EXCEPT !.selected = x]
    BY <1>5 DEF M!Select
  <2>2. IsView(view') /\ view'.modal = view.modal /\ view'.searching = view.searching
    BY <1>0, <2>1, ViewSet
  <2> QED BY <1>1, <1>5, <2>2 DEF M!Select, M!OnlyView
<1>6. CASE M!Open \/ M!Close \/ M!Confirm \/ M!SubmitPath
  <2>1. PICK modal \in {"none", "detail", "confirm", "error", "add", "method"} :
          \E root : view' = [view EXCEPT !.modal = modal, !.root = root]
    BY <1>6 DEF M!Open, M!Close, M!Confirm, M!SubmitPath, M!Window
  <2> QED BY <1>1, <1>3, <1>6, <2>1 DEF M!Open, M!Close, M!Confirm, M!SubmitPath, M!OnlyView
<1>7. CASE M!Reindex
  <2>1. CASE M!Selected
    <3>1. IsView(view') /\ view'.searching = view.searching
      BY <1>0, <1>7, <2>1, WindowSet DEF M!Reindex
    <3> QED BY <1>2, <1>7, <2>1, <3>1 DEF M!Reindex, M!OnlyTask
  <2>2. CASE ~M!Selected
    BY <1>1, <1>3, <1>7, <2>2 DEF M!Reindex, M!Window, M!OnlyTask
  <2> QED BY <2>1, <2>2
<1>8. CASE M!RemoveProject
  BY <1>1, <1>3, <1>8 DEF M!RemoveProject, M!Window, M!OnlyTask
<1>9. CASE M!SubmitMethod
  <2>1. \/ M!StartTask("index", view.root) /\ view' = [view EXCEPT !.modal = "indexing"]
        \/ M!Window("error") /\ UNCHANGED tasks
    BY <1>9 DEF M!SubmitMethod
  <2>2. UNCHANGED channel
    BY <1>9 DEF M!SubmitMethod, M!OnlyTask
  <2>3. CASE M!StartTask("index", view.root) /\ view' = [view EXCEPT !.modal = "indexing"]
    <3>1. IsView(view') /\ view'.searching = view.searching
      BY <1>0, <2>3, ModalSet
    <3> QED BY <1>2, <2>2, <2>3, <3>1
  <2>4. CASE M!Window("error") /\ UNCHANGED tasks
    <3>1. IsView(view') /\ view'.modal # "indexing" /\ view'.searching = view.searching
      BY <1>3, <2>4 DEF M!Window
    <3> QED BY <1>1, <2>2, <2>4, <3>1
  <2> QED BY <2>1, <2>3, <2>4
<1>10. CASE M!CancelIndex \/ M!StopDaemon
  BY <1>1, <1>4, <1>10 DEF M!CancelIndex, M!StopDaemon
<1>11. CASE M!Search
  <2>1. IsView(view') /\ view'.modal = view.modal /\ UNCHANGED channel
    BY <1>0, <1>11, SearchingSet DEF M!Search, M!OnlyTask
  <2>2. PICK t : Begun(t) /\ t.what = "search"
    BY <1>11, TaskBegins DEF M!Search
  <2>3. MainShapes' /\ TasksOK'
    BY <2>1, <2>2 DEF MainInv, MainShapes, TasksOK, Begun
  <2>4. SearchOK' /\ IndexOK'
    BY <2>1, <2>2 DEF MainInv, SearchOK, IndexOK, Begun
  <2> QED BY <2>3, <2>4 DEF MainInv
<1>12. CASE M!RestartDaemon
  BY <1>1, <1>4, <1>12 DEF M!RestartDaemon
<1>13. CASE M!ChangeModel
  BY <1>0, <1>1, <1>13, ViewSet DEF M!ChangeModel
<1>14. CASE M!LeaveSetup
  BY <1>0, <1>1, <1>14, ViewSet DEF M!LeaveSetup
<1>15. CASE M!Restarted
  BY <1>0, <1>1, <1>15, ViewSet DEF M!Restarted
<1> QED BY <1>5, <1>6, <1>7, <1>8, <1>9, <1>10, <1>11, <1>12, <1>13, <1>14, <1>15 DEF M!Key

LEMMA MainGoes == MainInv /\ [M!Next]_M!vars => MainInv'
<1> SUFFICES ASSUME MainInv, [M!Next]_M!vars PROVE MainInv'
  OBVIOUS
<1>1. CASE UNCHANGED <<view, tasks, channel>>
  BY <1>1 DEF MainInv, MainShapes, TasksOK, TaskOK, SearchOK, IndexOK
<1>2. CASE M!DaemonExits \/ M!StoreChanges
  BY <1>1, <1>2 DEF M!DaemonExits, M!StoreChanges
<1> QED BY <1>1, <1>2, MonitorStep, MainDispatchStep, MainKeyStep, TaskStep DEF M!Next, M!vars

-----------------------------------------------------------------------------
(* The connection's mutex *)

IsMonitor(m) == m = [pc |-> m.pc, says |-> m.says, next |-> m.next]

\* Whoever holds the mutex awaits an answer of the daemon, and nothing else.
HolderAwaits ==
    holder # None => \/ holder = M!Watcher /\ monitor.pc = "asked"
                     \/ \E t \in tasks : t.id = holder /\ t.pc = "asked"

\* No monitor runs beside the setup.
MonitorOff == view.screen = "setup" => monitor.pc = "off"

HolderInv == daemon \in {"up", "down"} /\ IsMonitor(monitor) /\ MonitorOff /\ HolderAwaits

LEMMA MonitorSet ==
    ASSUME NEW m, IsMonitor(m), NEW pc, NEW w, w = [m EXCEPT !.pc = pc]
    PROVE  IsMonitor(w) /\ w.pc = pc
  BY SMT DEF IsMonitor

LEMMA FieldKept ==
    ASSUME NEW v, "screen" \in DOMAIN v, NEW f, f # "screen", NEW x, NEW w, w = [v EXCEPT ![f] = x]
    PROVE  "screen" \in DOMAIN w /\ w.screen = v.screen
  OBVIOUS

\* Only the way into the setup and the way out of it change the screen.
LEMMA ScreenKept ==
    ASSUME IsView(view), M!Dispatch \/ M!Key \/ M!Restarted, ~M!ChangeModel, ~M!LeaveSetup
    PROVE  view'.screen = view.screen
<1>0. "screen" \in DOMAIN view
  BY SMT DEF IsView
<1>1. ASSUME NEW f, f # "screen", NEW x, view' = [view EXCEPT ![f] = x]
      PROVE  view'.screen = view.screen
  BY <1>0, <1>1, FieldKept
<1>2. ASSUME NEW f, f # "screen", NEW x, NEW g, g # "screen", NEW y,
             view' = [[view EXCEPT ![f] = x] EXCEPT ![g] = y]
      PROVE  view'.screen = view.screen
  <2> DEFINE v == [view EXCEPT ![f] = x]
  <2>1. "screen" \in DOMAIN v /\ v.screen = view.screen
    BY <1>0, <1>2, FieldKept
  <2>2. view' = [v EXCEPT ![g] = y]
    BY <1>2
  <2> HIDE DEF v
  <2> QED BY <1>2, <2>1, <2>2, FieldKept
<1>3. ASSUME NEW modal, NEW root, view' = [view EXCEPT !.modal = modal, !.root = root]
      PROVE  view'.screen = view.screen
  <2>1. view' = [[view EXCEPT !["modal"] = modal] EXCEPT !["root"] = root]
    BY <1>3
  <2> QED BY <1>2, <2>1
<1>4. CASE M!Select
  <2>1. PICK x : view' = [view EXCEPT !.selected = x]
    BY <1>4 DEF M!Select
  <2> QED BY <1>1, <2>1
<1>5. CASE M!Open \/ M!Close \/ M!Confirm \/ M!SubmitPath \/ M!RemoveProject
  BY <1>3, <1>5 DEF M!Open, M!Close, M!Confirm, M!SubmitPath, M!RemoveProject, M!Window
<1>6. CASE M!Reindex
  BY <1>3, <1>6 DEF M!Reindex, M!Window
<1>7. CASE M!SubmitMethod
  <2>1. CASE M!Window("error")
    BY <1>3, <2>1 DEF M!Window
  <2>2. CASE view' = [view EXCEPT !.modal = "indexing"]
    BY <1>1, <2>2
  <2> QED BY <1>7, <2>1, <2>2 DEF M!SubmitMethod
<1>8. CASE M!CancelIndex \/ M!StopDaemon \/ M!RestartDaemon
  BY <1>8 DEF M!CancelIndex, M!StopDaemon, M!RestartDaemon
<1>9. CASE M!Search
  <2>1. view' = [view EXCEPT !.searching = TRUE]
    BY <1>9 DEF M!Search
  <2> QED BY <1>1, <2>1
<1>10. CASE M!Restarted
  <2>1. view' = [view EXCEPT !.stopped = FALSE]
    BY <1>10 DEF M!Restarted
  <2> QED BY <1>1, <2>1
<1>11. CASE M!Dispatch
  <2> DEFINE m == Head(channel)
  <2>0. \/ M!DispatchStatus(m) \/ M!DispatchProjects(m) \/ M!DispatchSearch(m)
        \/ M!DispatchProgress(m) \/ M!DispatchIndexed(m) \/ M!DispatchRemoved(m)
    BY <1>11 DEF M!Dispatch
  <2> HIDE DEF m
  <2>1. CASE M!DispatchStatus(m)
    <3>1. PICK x : view' = [view EXCEPT !.stopped = x]
      BY <2>1 DEF M!DispatchStatus
    <3> QED BY <1>1, <3>1
  <2>2. CASE M!DispatchProjects(m)
    <3>1. PICK x, y : view' = [[view EXCEPT !["listed"] = x] EXCEPT !["selected"] = y]
      BY <2>2 DEF M!DispatchProjects
    <3> QED BY <1>2, <3>1
  <2>3. CASE M!DispatchSearch(m)
    <3>1. view' = [view EXCEPT !.searching = FALSE]
      BY <2>3 DEF M!DispatchSearch
    <3> QED BY <1>1, <3>1
  <2>4. CASE M!DispatchProgress(m)
    <3>1. PICK root : view' = [view EXCEPT !.modal = "indexing", !.root = root]
      BY <2>4 DEF M!DispatchProgress
    <3> QED BY <1>3, <3>1
  <2>5. CASE M!DispatchIndexed(m)
    BY <1>3, <2>5 DEF M!DispatchIndexed, M!Window
  <2>6. CASE M!DispatchRemoved(m)
    <3>1. PICK x, y : view' = [[[view EXCEPT !.modal = "none", !.root = None]
                                  EXCEPT !.listed = x] EXCEPT !.selected = y]
      BY <2>6 DEF M!DispatchRemoved
    <3> DEFINE u == [view EXCEPT !["modal"] = "none"]
               v == [u EXCEPT !["root"] = None]
               w == [v EXCEPT !["listed"] = x]
    <3>2. view' = [w EXCEPT !["selected"] = y]
      BY <3>1
    <3>3. "screen" \in DOMAIN u /\ u.screen = view.screen
      BY <1>0, FieldKept
    <3> HIDE DEF u
    <3>4. "screen" \in DOMAIN v /\ v.screen = view.screen
      BY <3>3, FieldKept
    <3> HIDE DEF v
    <3>5. "screen" \in DOMAIN w /\ w.screen = view.screen
      BY <3>4, FieldKept
    <3> HIDE DEF w
    <3> QED BY <3>2, <3>5, FieldKept
  <2> QED BY <2>0, <2>1, <2>2, <2>3, <2>4, <2>5, <2>6
<1> QED BY <1>4, <1>5, <1>6, <1>7, <1>8, <1>9, <1>10, <1>11 DEF M!Key

LEMMA HolderBegins == M!Init => HolderInv
<1> SUFFICES ASSUME M!Init PROVE HolderInv
  OBVIOUS
<1>1. monitor = [pc |-> "look", says |-> None, next |-> None] /\ holder = None
  BY DEF M!Init, M!Fresh
<1>2. IsMonitor(monitor)
  BY <1>1, SMT DEF IsMonitor
<1>3. view.screen = "main" /\ daemon \in {"up", "down"}
  BY DEF M!Init
<1> QED BY <1>1, <1>2, <1>3 DEF HolderInv, MonitorOff, HolderAwaits

\* The monitor takes the mutex when it asks and frees it when it is answered.
LEMMA HolderMonitorStep == HolderInv /\ M!Monitor => HolderInv'
<1> SUFFICES ASSUME HolderInv, M!Monitor PROVE HolderInv'
  OBVIOUS
<1>1. UNCHANGED <<view, tasks>> /\ monitor.pc # "off"
  BY DEF M!Monitor, M!Look, M!AskStatus, M!StatusAnswered, M!Tell, M!TryConnect, M!SendList,
     M!MonitorKeeps
<1>2. view'.screen # "setup"
  BY <1>1 DEF HolderInv, MonitorOff
<1>3. ASSUME NEW pc, M!MonitorGoes(pc) PROVE IsMonitor(monitor') /\ monitor'.pc = pc
  BY <1>3, MonitorSet DEF HolderInv, M!MonitorGoes
<1>4. ASSUME NEW status, NEW after, M!MonitorTells(status, after) PROVE IsMonitor(monitor')
  BY <1>4, SMT DEF M!MonitorTells, IsMonitor
<1>5. IsMonitor(monitor')
  <2>1. CASE M!StatusAnswered
    <3>1. \E status, after : M!MonitorTells(status, after)
      BY <2>1, Zenon DEF M!StatusAnswered
    <3> QED BY <1>4, <3>1
  <2>2. CASE M!Look
    <3>1. CASE daemon = "up"
      <4>1. M!MonitorGoes("ask")
        BY <2>2, <3>1 DEF M!Look
      <4> QED BY <1>3, <4>1
    <3>2. CASE daemon = "down"
      <4>1. \/ M!MonitorTells("stopped", "look") \/ M!MonitorTells("starting", "start")
        BY <2>2, <3>2, Zenon DEF M!Look
      <4> QED BY <1>4, <4>1
    <3> QED BY <3>1, <3>2 DEF HolderInv
  <2>3. CASE M!TryConnect
    <3>1. \/ \E pc : M!MonitorGoes(pc)
          \/ \E status, after : M!MonitorTells(status, after)
      BY <2>3, Zenon DEF M!TryConnect
    <3> QED BY <1>3, <1>4, <3>1
  <2> QED BY <1>3, <1>4, <2>1, <2>2, <2>3 DEF M!Monitor, M!AskStatus, M!Tell, M!SendList
<1>6. HolderAwaits'
  <2>1. CASE M!AskStatus
    <3>1. CASE M!MonitorGoes("asked") /\ holder' = M!Watcher
      BY <1>3, <3>1 DEF HolderAwaits
    <3>2. CASE UNCHANGED holder
      BY <2>1, <3>2 DEF M!AskStatus, HolderAwaits
    <3> QED BY <2>1, <3>1, <3>2 DEF M!AskStatus
  <2>2. CASE M!StatusAnswered
    BY <2>2 DEF M!StatusAnswered, HolderAwaits
  <2>3. CASE UNCHANGED holder /\ monitor.pc # "asked"
    BY <1>1, <2>3 DEF HolderInv, HolderAwaits
  <2> QED BY <2>1, <2>2, <2>3 DEF M!Monitor, M!Look, M!Tell, M!TryConnect, M!SendList
<1>7. daemon' \in {"up", "down"}
  BY DEF HolderInv, M!Monitor, M!Look, M!AskStatus, M!StatusAnswered, M!Tell, M!TryConnect,
     M!SendList, M!Connected
<1> QED BY <1>2, <1>5, <1>6, <1>7 DEF HolderInv, MonitorOff

\* Only a task that awaits an answer may hold the mutex.
LEMMA HolderTaskStep ==
    ASSUME MainInv, HolderInv, NEW t \in tasks, M!Task(t) \/ M!TaskProgress(t)
    PROVE  HolderInv'
<1>1. UNCHANGED <<view, monitor>>
  BY DEF M!Task, M!TaskConnects, M!TaskAsks, M!TaskAnswered, M!TaskDeletes, M!TaskReports,
     M!TaskStops, M!TaskLists, M!TaskProgress, M!Kept
<1>2. HolderAwaits'
  <2>1. CASE M!TaskAnswered(t)
    BY <2>1 DEF M!TaskAnswered, HolderAwaits
  <2>2. CASE M!TaskAsks(t)
    <3>1. CASE M!Goes(t, "asked") /\ holder' = t.id
      <4> DEFINE u == [t EXCEPT !.pc = "asked"]
      <4>1. u.id = t.id /\ u.pc = "asked"
        BY SMT DEF MainInv, MainShapes
      <4>2. u \in tasks'
        BY <3>1 DEF M!Goes
      <4> HIDE DEF u
      <4> QED BY <3>1, <4>1, <4>2 DEF HolderAwaits
    <3>2. CASE UNCHANGED holder
      BY <2>2, <3>2 DEF M!TaskAsks, HolderAwaits
    <3> QED BY <2>2, <3>1, <3>2 DEF M!TaskAsks
  <2>3. CASE UNCHANGED <<holder, tasks>>
    BY <1>1, <2>3 DEF HolderInv, HolderAwaits
  <2>4. CASE UNCHANGED holder /\ t.pc # "asked" /\ \A u \in tasks : u # t => u \in tasks'
    BY <1>1, <2>4 DEF HolderInv, HolderAwaits
  <2> QED BY <2>1, <2>2, <2>3, <2>4 DEF M!Task, M!TaskConnects, M!TaskDeletes, M!TaskReports,
             M!TaskStops, M!TaskLists, M!TaskProgress, M!Goes, M!Failed, M!Says, M!Kept
<1>3. daemon' \in {"up", "down"}
  BY DEF HolderInv, M!Task, M!TaskConnects, M!TaskAsks, M!TaskAnswered, M!TaskDeletes,
     M!TaskReports, M!TaskStops, M!TaskLists, M!TaskProgress, M!Kept, M!Connected
<1> QED BY <1>1, <1>2, <1>3 DEF HolderInv, MonitorOff

LEMMA HolderGoes == MainInv /\ HolderInv /\ [M!Next]_M!vars => HolderInv'
<1> SUFFICES ASSUME MainInv, HolderInv, [M!Next]_M!vars PROVE HolderInv'
  OBVIOUS
<1>1. ASSUME UNCHANGED <<monitor, holder>>, tasks \subseteq tasks', view'.screen = view.screen,
             daemon' \in {daemon, "up", "down"}
      PROVE  HolderInv'
  BY <1>1 DEF HolderInv, MonitorOff, HolderAwaits
<1>2. IsView(view)
  BY DEF MainInv, MainShapes
<1>3. CASE M!ChangeModel
  <2>1. /\ M!MonitorGoes("off") /\ tasks' = tasks /\ daemon' = daemon
        /\ holder' = IF monitor.pc = "asked" THEN None ELSE holder
    BY <1>3 DEF M!ChangeModel, M!Abort
  <2>2. IsMonitor(monitor') /\ monitor'.pc = "off"
    BY <2>1, MonitorSet DEF M!MonitorGoes, HolderInv
  <2> QED BY <2>1, <2>2 DEF HolderInv, MonitorOff, HolderAwaits
<1>4. CASE M!LeaveSetup
  <2>1. /\ view.screen = "setup" /\ view' = [view EXCEPT !.screen = "main"]
        /\ monitor' = M!Fresh /\ holder' = holder /\ tasks \subseteq tasks'
        /\ daemon' = daemon
    BY <1>4 DEF M!LeaveSetup, M!StartTask
  <2>2. view'.screen = "main"
    BY <1>2, <2>1, SMT DEF IsView
  <2>3. IsMonitor(monitor')
    BY <2>1, SMT DEF M!Fresh, IsMonitor
  <2>4. monitor.pc # "asked"
    BY <2>1 DEF HolderInv, MonitorOff
  <2> QED BY <2>1, <2>2, <2>3, <2>4 DEF HolderInv, MonitorOff, HolderAwaits
<1>5. CASE (M!Dispatch \/ M!Key \/ M!Restarted) /\ ~M!ChangeModel /\ ~M!LeaveSetup
  <2>1. /\ UNCHANGED <<monitor, holder>> /\ tasks \subseteq tasks'
        /\ daemon' \in {daemon, "up", "down"}
    <3>1. CASE M!Dispatch
      BY <3>1 DEF M!Dispatch, M!DispatchStatus, M!DispatchProjects, M!DispatchSearch,
         M!DispatchProgress, M!DispatchIndexed, M!DispatchRemoved, M!Refresh, M!shared
    <3>2. CASE M!Restarted
      BY <3>2 DEF M!Restarted
    <3>3. CASE M!Key
      BY <1>5, <3>3 DEF M!Key, M!Select, M!Open, M!Close, M!Confirm, M!Reindex,
         M!RemoveProject, M!SubmitPath, M!SubmitMethod, M!CancelIndex, M!Search, M!StopDaemon,
         M!RestartDaemon, M!StartTask, M!OnlyView, M!OnlyTask, M!shared
    <3> QED BY <1>5, <3>1, <3>2, <3>3
  <2> QED BY <1>1, <1>2, <1>5, <2>1, ScreenKept
<1>6. CASE M!DaemonExits \/ M!StoreChanges \/ UNCHANGED M!vars
  BY <1>1, <1>6 DEF M!DaemonExits, M!StoreChanges, M!vars, M!shared
<1> QED BY <1>3, <1>4, <1>5, <1>6, HolderMonitorStep, HolderTaskStep DEF M!Next

-----------------------------------------------------------------------------
(* The theorems of the terminal UI.  The variables of the other parts rest.  *)

TuiInv ==
    /\ part = "setup" => SetupInv
    /\ part = "main" => MainInv /\ HolderInv

LEMMA TuiBegins == ServicesInit => TuiInv
<1> SUFFICES ASSUME ServicesInit PROVE TuiInv
  OBVIOUS
<1>1. CASE part = "setup"
  BY <1>1, SetupBegins DEF ServicesInit, TuiInv
<1>2. CASE part = "main"
  BY <1>2, MainBegins, HolderBegins DEF ServicesInit, TuiInv
<1> QED BY <1>1, <1>2 DEF TuiInv

LEMMA TuiGoes ==
    TuiInv /\ [SetupStep \/ MainStep \/ ReadersStep \/ McpStep]_services => TuiInv'
<1> SUFFICES ASSUME TuiInv, [SetupStep \/ MainStep \/ ReadersStep \/ McpStep]_services
             PROVE  TuiInv'
  OBVIOUS
<1>1. UNCHANGED part
  BY DEF SetupStep, MainStep, ReadersStep, McpStep, services
<1>2. CASE part = "setup"
  <2>1. S!Next \/ UNCHANGED S!vars
    BY <1>2 DEF SetupStep, MainStep, ReadersStep, McpStep, services, setup, S!vars, S!app, S!disk
  <2> QED BY <1>1, <1>2, <2>1, SetupGoes DEF TuiInv
<1>3. CASE part = "main"
  <2>1. M!Next \/ UNCHANGED M!vars
    BY <1>3 DEF SetupStep, MainStep, ReadersStep, McpStep, services, main, M!vars, M!shared
  <2> QED BY <1>1, <1>3, <2>1, MainGoes, HolderGoes DEF TuiInv
<1> QED BY <1>1, <1>2, <1>3 DEF TuiInv

LEMMA TuiAlways == ServicesSpec => []TuiInv
  BY TuiBegins, TuiGoes, PTL DEF ServicesSpec

\* Whatever models are chosen, downloaded, cancelled and tried again, and however
\* late the answers of abandoned jobs arrive: once a model is chosen, the monitor
\* that the main screen shows is that model's.
THEOREM MonitorOfTheModel == ServicesSpec => []MonitorFollowsModel
<1>1. TuiInv => MonitorFollowsModel
  BY SetupSafe DEF TuiInv, MonitorFollowsModel
<1> QED BY <1>1, TuiAlways, PTL

\* A remote model that the config names has its key in the keyring or in the config,
\* where the next start looks for it, however often keys are typed and providers
\* changed in between: but for the key that the setup took over from another provider
\* (borrowed).
THEOREM KeyStaysFound == ServicesSpec => []KeyFound
<1>1. TuiInv => KeyFound
  BY SetupSafe DEF TuiInv, KeyFound
<1> QED BY <1>1, TuiAlways, PTL

\* A screen that shows a spinner, a search or a run has a task or a message behind it
\* that will end it: no order of answers, failures and keys leaves it without.
THEOREM SpinnersHaveTasks == ServicesSpec => []NothingSpins
<1>1. TuiInv => NothingSpins
  BY SetupSafe, MainSafe DEF TuiInv, NothingSpins
<1> QED BY <1>1, TuiAlways, PTL

\* Whoever holds the connection's mutex awaits an answer of the daemon, which needs
\* neither the UI thread nor room in its channel: the UI thread, which waits for the
\* mutex when the daemon is restarted, waits for nobody that waits for it
\* (actions.rs, tasks.rs; SomebodyMoves says it by what is enabled).
THEOREM HolderAwaitsDaemon == ServicesSpec => [](part = "main" => HolderAwaits)
<1>1. TuiInv => (part = "main" => HolderAwaits)
  BY DEF TuiInv, HolderInv
<1> QED BY <1>1, TuiAlways, PTL

-----------------------------------------------------------------------------
(* The MCP server's connections                                              *)

Slots == C!Slots

LEMMA InTurn ==
    /\ 0 \in Slots
    /\ \A s \in Slots : s \in Nat /\ (s + 1) % PoolSize \in Slots
<1>1. PoolSize \in Nat \ {0}
  BY Bounds DEF C!McpAssumption
<1> QED BY <1>1, SMT DEF Slots, C!Slots

LEMMA FiniteSlots ==
    /\ IsFiniteSet(Slots) /\ Cardinality(Slots) = PoolSize /\ PoolSize \in Nat \ {0}
<1>1. PoolSize \in Nat \ {0}
  BY Bounds DEF C!McpAssumption
<1>2. IsFiniteSet(0..(PoolSize - 1)) /\ Cardinality(0..(PoolSize - 1)) = (PoolSize - 1) - 0 + 1
  BY <1>1, FS_Interval, SMT
<1> QED BY <1>1, <1>2, SMT DEF Slots, C!Slots

-----------------------------------------------------------------------------
(* Functions and lines *)

LEMMA PutAt ==
    ASSUME NEW D, NEW f, f = [x \in D |-> f[x]], NEW a \in D, NEW v, NEW g, g = [f EXCEPT ![a] = v]
    PROVE  /\ g = [x \in D |-> g[x]] /\ g[a] = v
           /\ \A x \in D : x # a => g[x] = f[x]
  OBVIOUS

InLine(q) == {q[i] : i \in DOMAIN q}

IsLine(q) == q \in Seq(Calls) /\ C!IsInjective(q)

LEMMA Joined ==
    ASSUME NEW q, IsLine(q), NEW c \in Calls, c \notin InLine(q)
    PROVE  IsLine(Append(q, c)) /\ InLine(Append(q, c)) = InLine(q) \cup {c}
<1> DEFINE a == Append(q, c)
<1>1. /\ a \in Seq(Calls) /\ Len(q) \in Nat /\ DOMAIN q = 1..Len(q)
      /\ DOMAIN a = 1..(Len(q) + 1)
      /\ \A i \in 1..Len(q) : a[i] = q[i]
      /\ a[Len(q) + 1] = c
  BY SMT DEF IsLine
<1>2. 1..(Len(q) + 1) = 1..Len(q) \cup {Len(q) + 1} /\ Len(q) + 1 \notin 1..Len(q)
  BY <1>1, SMT
<1> HIDE DEF a
<1>3. InLine(a) = InLine(q) \cup {c}
  <2>1. InLine(a) \subseteq InLine(q) \cup {c}
    BY <1>1, <1>2, Zenon DEF InLine
  <2>2. InLine(q) \subseteq InLine(a) /\ c \in InLine(a)
    BY <1>1, <1>2, Zenon DEF InLine
  <2> QED BY <2>1, <2>2
<1>4. \A i \in 1..Len(q) : q[i] # c
  BY <1>1 DEF InLine
<1>5. C!IsInjective(a)
  BY <1>1, <1>2, <1>4 DEF IsLine, C!IsInjective
<1> QED BY <1>1, <1>3, <1>5 DEF IsLine, a

LEMMA Served ==
    ASSUME NEW q, IsLine(q), q # <<>>
    PROVE  /\ IsLine(Tail(q)) /\ Head(q) = q[1] /\ q[1] \in InLine(q) /\ q[1] \in Calls
           /\ InLine(Tail(q)) = InLine(q) \ {q[1]}
<1>1. /\ Tail(q) \in Seq(Calls) /\ Len(q) \in Nat \ {0} /\ DOMAIN q = 1..Len(q)
      /\ DOMAIN Tail(q) = 1..(Len(q) - 1)
      /\ \A i \in 1..(Len(q) - 1) : Tail(q)[i] = q[i + 1]
      /\ Head(q) = q[1] /\ q[1] \in Calls
  BY SMT DEF IsLine
<1>2. 1 \in 1..Len(q)
  BY <1>1, SMT
<1>3. \A i \in 1..(Len(q) - 1) : i + 1 \in 1..Len(q) /\ i + 1 # 1
  BY <1>1, SMT
<1>4. \A i \in 1..Len(q) : i # 1 => i - 1 \in 1..(Len(q) - 1) /\ (i - 1) + 1 = i
  BY <1>1, SMT
<1>5. C!IsInjective(Tail(q))
  <2> SUFFICES ASSUME NEW i \in 1..(Len(q) - 1), NEW j \in 1..(Len(q) - 1), Tail(q)[i] = Tail(q)[j]
               PROVE  i = j
    BY <1>1 DEF C!IsInjective
  <2>1. i + 1 = j + 1
    BY <1>1, <1>3 DEF IsLine, C!IsInjective
  <2> QED BY <2>1, SMT
<1>6. InLine(Tail(q)) \subseteq InLine(q) \ {q[1]}
  <2> SUFFICES ASSUME NEW i \in 1..(Len(q) - 1) PROVE Tail(q)[i] \in InLine(q) /\ Tail(q)[i] # q[1]
    BY <1>1, Zenon DEF InLine
  <2>1. i + 1 \in DOMAIN q /\ 1 \in DOMAIN q /\ i + 1 # 1 /\ Tail(q)[i] = q[i + 1]
    BY <1>1, <1>2, <1>3
  <2> QED BY <2>1, Zenon DEF InLine, IsLine, C!IsInjective
<1>7. InLine(q) \ {q[1]} \subseteq InLine(Tail(q))
  <2> SUFFICES ASSUME NEW i \in 1..Len(q), q[i] # q[1] PROVE q[i] \in InLine(Tail(q))
    BY <1>1, Zenon DEF InLine
  <2>1. i - 1 \in DOMAIN Tail(q) /\ Tail(q)[i - 1] = q[i]
    BY <1>1, <1>4
  <2> QED BY <2>1, Zenon DEF InLine
<1> QED BY <1>1, <1>2, <1>5, <1>6, <1>7 DEF IsLine, InLine

-----------------------------------------------------------------------------
(* The inductive invariant of the calls *)

IsCall(k) ==
    /\ k = [pc |-> k.pc, root |-> k.root, exhaustive |-> k.exhaustive, slot |-> k.slot,
            left |-> k.left]
    /\ k.slot \in Slots

CallsOK ==
    /\ call = [c \in Calls |-> call[c]]
    /\ \A c \in Calls : IsCall(call[c])

PoolOK ==
    /\ up \in BOOLEAN /\ age \in Nat /\ lost \in Nat /\ next \in Slots
    /\ wire = [s \in Slots |-> wire[s]]
    /\ slots = [s \in Slots |-> slots[s]]
    /\ \A s \in Slots : slots[s] # None => slots[s] \in 0..age /\ (~up => slots[s] # age)

Has(c, s) == call[c].pc \in {"leased", "sent"} /\ call[c].slot = s
Sent(c, s) == call[c].pc = "sent" /\ call[c].slot = s
Queued(c, s) == call[c].pc = "queued" /\ call[c].slot = s

\* Who holds a mutex uses its connection, and who waits for it is in its line.
HoldersOK ==
    /\ holding = [s \in Slots |-> holding[s]]
    /\ line = [s \in Slots |-> line[s]]
    /\ \A s \in Slots :
        /\ holding[s] # None => holding[s] \in Calls
        /\ \A c \in Calls : holding[s] = c <=> Has(c, s)
        /\ IsLine(line[s])
        /\ \A c \in Calls : c \in InLine(line[s]) <=> Queued(c, s)
        /\ holding[s] = None => line[s] = <<>>

Frame(c, body) ==
    [to |-> c, root |-> call[c].root, exhaustive |-> call[c].exhaustive, body |-> body]

\* A connection carries the request of the call that waits for its answer, or the
\* answer, and nothing else.
WiresOK ==
    /\ \A c \in Calls, s \in Slots :
        Sent(c, s) => slots[s] # None /\ \E body : wire[s] = <<Frame(c, body)>>
    /\ \A s \in Slots :
        slots[s] # None => wire[s] = <<>> \/ \E c \in Calls : Sent(c, s)

\* The connections to daemons that have stopped: each of them may fail one call.
Stale == {s \in Slots : slots[s] # None /\ slots[s] # age}
LostOK == lost + Cardinality(Stale) <= age * PoolSize

McpInv == CallsOK /\ PoolOK /\ HoldersOK /\ WiresOK /\ LostOK

LEMMA Stales == /\ IsFiniteSet(Stale) /\ Cardinality(Stale) \in Nat
                /\ Cardinality(Stale) <= PoolSize
<1>1. Stale \subseteq Slots
  BY DEF Stale
<1> QED BY <1>1, FiniteSlots, FS_Subset, FS_CardinalityType

LEMMA McpSafe == McpInv => C!Safe
<1> SUFFICES ASSUME McpInv PROVE C!Safe
  OBVIOUS
<1>1. C!AnswersFit
  <2> SUFFICES ASSUME NEW c \in Calls, call[c].pc = "sent"
               PROVE  /\ wire[call[c].slot][1].to = c
                      /\ wire[call[c].slot][1].root = call[c].root
                      /\ wire[call[c].slot][1].exhaustive = call[c].exhaustive
    BY DEF C!AnswersFit
  <2>1. PICK body : wire[call[c].slot] = <<Frame(c, body)>>
    BY DEF McpInv, WiresOK, CallsOK, IsCall, Sent
  <2>2. wire[call[c].slot][1] = Frame(c, body)
    BY <2>1
  <2> QED BY <2>2 DEF Frame
<1>2. C!EachConnectionLostOnce
  <2>1. age * PoolSize \in Nat
    BY FiniteSlots, SMT DEF McpInv, PoolOK
  <2> QED BY <2>1, Stales, SMT DEF McpInv, LostOK, PoolOK, C!EachConnectionLostOnce
<1>3. C!LinesMove
  BY DEF McpInv, HoldersOK, IsLine, InLine, Queued, Slots, C!LinesMove
<1> QED BY <1>1, <1>2, <1>3 DEF C!Safe

LEMMA McpBegins == C!Init => McpInv
<1> SUFFICES ASSUME C!Init PROVE McpInv
  OBVIOUS
<1> USE DEF C!Init, Slots
<1>1. CallsOK
  BY InTurn DEF CallsOK, IsCall, C!Idle
<1>2. PoolOK
  BY InTurn DEF PoolOK
<1>3. \A c \in Calls : call[c].pc = "idle"
  BY DEF C!Idle
<1>4. HoldersOK
  <2>1. IsLine(<<>>) /\ InLine(<<>>) = {}
    BY SMT DEF IsLine, InLine, C!IsInjective
  <2>2. None \notin Calls
    BY Bounds DEF C!McpAssumption
  <2> QED BY <1>3, <2>1, <2>2 DEF HoldersOK, Has, Queued
<1>5. WiresOK
  BY <1>3 DEF WiresOK, Sent
<1>6. LostOK
  <2>1. Stale = {}
    BY DEF Stale
  <2> QED BY <2>1, FS_EmptySet, FiniteSlots, SMT DEF LostOK
<1> QED BY <1>1, <1>2, <1>4, <1>5, <1>6 DEF McpInv

-----------------------------------------------------------------------------
(* The steps of the calls *)

\* A call that has no mutex and waits for none goes on with another one.
LEMMA Aside ==
    ASSUME McpInv, NEW c \in Calls, call[c].pc \notin {"leased", "sent", "queued"},
           NEW k, IsCall(k), k.pc \notin {"leased", "sent", "queued"},
           call' = [call EXCEPT ![c] = k], next' \in Slots,
           UNCHANGED <<up, age, slots, holding, line, wire, lost>>
    PROVE  McpInv'
<1>1. call' = [d \in Calls |-> call'[d]] /\ call'[c] = k /\ \A d \in Calls : d # c => call'[d] = call[d]
  BY PutAt DEF McpInv, CallsOK
<1>2. CallsOK' /\ PoolOK'
  BY <1>1 DEF McpInv, CallsOK, PoolOK
<1>3. \A d \in Calls, s \in Slots : /\ Has(d, s)' <=> Has(d, s)
                                    /\ Sent(d, s)' <=> Sent(d, s)
                                    /\ Queued(d, s)' <=> Queued(d, s)
  BY <1>1 DEF Has, Sent, Queued
<1>4. HoldersOK'
  BY <1>3 DEF McpInv, HoldersOK
<1>5. WiresOK'
  <2>1. \A d \in Calls, s \in Slots : Sent(d, s) => \A body : Frame(d, body)' = Frame(d, body)
    BY <1>1 DEF Sent, Frame
  <2> QED BY <1>3, <2>1 DEF McpInv, WiresOK
<1>6. LostOK'
  BY DEF McpInv, LostOK, Stale
<1> QED BY <1>2, <1>4, <1>5, <1>6 DEF McpInv

\* A call that has no mutex gets one that is free, or waits for one that is not.
LEMMA Comes ==
    ASSUME McpInv, NEW c \in Calls, call[c].pc \notin {"leased", "sent", "queued"},
           NEW k, IsCall(k), call' = [call EXCEPT ![c] = k],
           \/ /\ k.pc = "leased" /\ holding[k.slot] = None
              /\ holding' = [holding EXCEPT ![k.slot] = c] /\ UNCHANGED line
           \/ /\ k.pc = "queued" /\ holding[k.slot] # None
              /\ line' = [line EXCEPT ![k.slot] = Append(line[k.slot], c)] /\ UNCHANGED holding,
           UNCHANGED <<up, age, next, slots, wire, lost>>
    PROVE  McpInv'
<1>0. None \notin Calls /\ k.slot \in Slots
  BY Bounds DEF C!McpAssumption, IsCall
<1>1. call' = [d \in Calls |-> call'[d]] /\ call'[c] = k /\ \A d \in Calls : d # c => call'[d] = call[d]
  BY PutAt DEF McpInv, CallsOK
<1>2. CallsOK' /\ PoolOK'
  BY <1>1 DEF McpInv, CallsOK, PoolOK
<1>3. /\ \A d \in Calls, s \in Slots :
          /\ d # c => (Has(d, s)' <=> Has(d, s)) /\ (Queued(d, s)' <=> Queued(d, s))
          /\ Sent(d, s)' <=> Sent(d, s)
      /\ \A s \in Slots : ~Has(c, s) /\ ~Queued(c, s)
      /\ \A s \in Slots : /\ Has(c, s)' <=> k.pc = "leased" /\ s = k.slot
                          /\ Queued(c, s)' <=> k.pc = "queued" /\ s = k.slot
  BY <1>1 DEF Has, Sent, Queued
<1>4. HoldersOK'
  <2>1. CASE /\ k.pc = "leased" /\ holding[k.slot] = None
             /\ holding' = [holding EXCEPT ![k.slot] = c] /\ UNCHANGED line
    <3>1. /\ holding' = [s \in Slots |-> holding'[s]] /\ holding'[k.slot] = c
          /\ \A s \in Slots : s # k.slot => holding'[s] = holding[s]
      BY <1>0, <2>1, PutAt DEF McpInv, HoldersOK
    <3> QED BY <1>0, <1>3, <2>1, <3>1 DEF McpInv, HoldersOK
  <2>2. CASE /\ k.pc = "queued" /\ holding[k.slot] # None
             /\ line' = [line EXCEPT ![k.slot] = Append(line[k.slot], c)] /\ UNCHANGED holding
    <3>1. /\ line' = [s \in Slots |-> line'[s]] /\ line'[k.slot] = Append(line[k.slot], c)
          /\ \A s \in Slots : s # k.slot => line'[s] = line[s]
      BY <1>0, <2>2, PutAt DEF McpInv, HoldersOK
    <3>2. /\ IsLine(line'[k.slot])
          /\ InLine(line'[k.slot]) = InLine(line[k.slot]) \cup {c}
      BY <1>0, <1>3, <3>1, Joined DEF McpInv, HoldersOK
    <3> QED BY <1>0, <1>3, <2>2, <3>1, <3>2 DEF McpInv, HoldersOK
  <2> QED BY <2>1, <2>2
<1>5. WiresOK'
  <2>1. \A d \in Calls, s \in Slots : Sent(d, s) => \A body : Frame(d, body)' = Frame(d, body)
    BY <1>1 DEF Sent, Frame
  <2> QED BY <1>3, <2>1 DEF McpInv, WiresOK
<1>6. LostOK'
  BY DEF McpInv, LostOK, Stale
<1> QED BY <1>2, <1>4, <1>5, <1>6 DEF McpInv

\* A call gives its mutex back: it goes to the first in line.
LEMMA Handed ==
    ASSUME McpInv, NEW c \in Calls, call[c].pc \in {"leased", "sent"},
           NEW k, IsCall(k), k.pc \notin {"leased", "sent", "queued"},
           C!Release(c), call' = C!Calling(c, k)
    PROVE  /\ CallsOK' /\ HoldersOK'
           /\ \A d \in Calls, s \in Slots :
                Sent(d, s)' <=> Sent(d, s) /\ s # call[c].slot
           /\ \A d \in Calls : d # c => /\ call'[d].slot = call[d].slot
                                        /\ call'[d].root = call[d].root
                                        /\ call'[d].exhaustive = call[d].exhaustive
<1>s. PICK s0 \in Slots : s0 = call[c].slot
  BY DEF McpInv, CallsOK, IsCall
<1>q. PICK q : q = line[s0]
  OBVIOUS
<1>0. None \notin Calls /\ holding[s0] = c /\ IsLine(q) /\ c \notin InLine(q)
  BY <1>s, <1>q, Bounds DEF McpInv, HoldersOK, Has, Queued, C!McpAssumption
<1>a. /\ holding' = [holding EXCEPT ![s0] = IF q = <<>> THEN None ELSE Head(q)]
      /\ line' = [line EXCEPT ![s0] = IF q = <<>> THEN <<>> ELSE Tail(q)]
  BY <1>s, <1>q DEF C!Release
<1>b. call' = [d \in Calls |-> IF d = c THEN k
                               ELSE IF q # <<>> /\ d = q[1] THEN [call[d] EXCEPT !.pc = "leased"]
                               ELSE call[d]]
  BY <1>s, <1>q DEF C!Calling
<1>1. call' = [d \in Calls |-> call'[d]] /\ call'[c] = k
  BY <1>b
<1>2. /\ holding' = [s \in Slots |-> holding'[s]] /\ line' = [s \in Slots |-> line'[s]]
      /\ \A s \in Slots : s # s0 => holding'[s] = holding[s] /\ line'[s] = line[s]
      /\ holding'[s0] = (IF q = <<>> THEN None ELSE Head(q))
      /\ line'[s0] = (IF q = <<>> THEN <<>> ELSE Tail(q))
  BY <1>0, <1>a, PutAt DEF McpInv, HoldersOK
<1>3. \A d \in Calls : Sent(d, s0) => d = c
  BY <1>0 DEF McpInv, HoldersOK, Has, Sent
<1>4. q = line[s0] /\ s0 = call[c].slot
  BY <1>s, <1>q
<1>5. \A s \in Slots : /\ ~Has(c, s)' /\ ~Sent(c, s)' /\ ~Queued(c, s)'
                       /\ Has(c, s) <=> s = s0
                       /\ ~Queued(c, s)
  BY <1>0, <1>1, <1>4 DEF Has, Sent, Queued
<1>6. CASE q = <<>>
  <2>1. \A d \in Calls : d # c => call'[d] = call[d]
    BY <1>b, <1>6
  <2>2. CallsOK'
    BY <1>1, <2>1 DEF McpInv, CallsOK
  <2>3. \A d \in Calls, s \in Slots :
          d # c => /\ Has(d, s)' <=> Has(d, s)
                   /\ Sent(d, s)' <=> Sent(d, s)
                   /\ Queued(d, s)' <=> Queued(d, s)
    BY <2>1 DEF Has, Sent, Queued
  <2>4. HoldersOK'
    <3>1. \A s \in Slots : s # s0 => holding[s] # c
      BY <1>5 DEF McpInv, HoldersOK
    <3>2. ASSUME NEW s \in Slots, s # s0
          PROVE  /\ holding'[s] # None => holding'[s] \in Calls
                 /\ \A d \in Calls : holding'[s] = d <=> Has(d, s)'
                 /\ IsLine(line'[s])
                 /\ \A d \in Calls : d \in InLine(line'[s]) <=> Queued(d, s)'
                 /\ holding'[s] = None => line'[s] = <<>>
      BY <1>2, <1>5, <2>3, <3>1, <3>2 DEF McpInv, HoldersOK
    <3>3. /\ holding'[s0] = None /\ line'[s0] = <<>> /\ line[s0] = <<>> /\ IsLine(line'[s0])
          /\ \A d \in Calls : ~Has(d, s0)'
          /\ \A d \in Calls : d \in InLine(line'[s0]) <=> Queued(d, s0)'
      BY <1>0, <1>2, <1>4, <1>5, <1>6, <2>3 DEF McpInv, HoldersOK
    <3> QED BY <1>0, <1>2, <3>2, <3>3 DEF HoldersOK
  <2> QED BY <1>0, <1>3, <1>4, <1>5, <2>1, <2>2, <2>3, <2>4 DEF Sent
<1>7. CASE q # <<>>
  <2>0. PICK w : w = q[1]
    OBVIOUS
  <2>1. /\ IsLine(Tail(q)) /\ Head(q) = w /\ w \in InLine(q) /\ w \in Calls
        /\ InLine(Tail(q)) = InLine(q) \ {w}
    BY <1>0, <1>7, <2>0, Served
  <2>2. Queued(w, s0) /\ w # c
    BY <1>0, <1>4, <2>1 DEF McpInv, HoldersOK
  <2>3. /\ call'[w] = [call[w] EXCEPT !.pc = "leased"]
        /\ \A d \in Calls : d # c /\ d # w => call'[d] = call[d]
    BY <1>b, <1>7, <2>0, <2>1, <2>2
  <2>4. /\ IsCall(call'[w]) /\ call'[w].pc = "leased" /\ call'[w].slot = call[w].slot
        /\ call'[w].root = call[w].root /\ call'[w].exhaustive = call[w].exhaustive
    <3>1. IsCall(call[w])
      BY <2>1 DEF McpInv, CallsOK
    <3>2. call'[w] = [pc |-> "leased", root |-> call[w].root, exhaustive |-> call[w].exhaustive,
                      slot |-> call[w].slot, left |-> call[w].left]
      BY <2>3, <3>1, SMT DEF IsCall
    <3> QED BY <3>1, <3>2 DEF IsCall
  <2>5. CallsOK'
    BY <1>1, <2>3, <2>4 DEF McpInv, CallsOK
  <2>6. /\ \A d \in Calls, s \in Slots :
            d # c /\ d # w => /\ Has(d, s)' <=> Has(d, s)
                              /\ Sent(d, s)' <=> Sent(d, s)
                              /\ Queued(d, s)' <=> Queued(d, s)
        /\ \A s \in Slots : /\ Has(w, s)' <=> s = s0
                            /\ ~Has(w, s) /\ ~Sent(w, s) /\ ~Sent(w, s)' /\ ~Queued(w, s)'
                            /\ Queued(w, s) <=> s = s0
    BY <2>2, <2>3, <2>4 DEF Has, Sent, Queued
  <2>7. HoldersOK'
    <3>1. \A s \in Slots : s # s0 => holding[s] # c /\ holding[s] # w
      BY <1>5, <2>1, <2>6 DEF McpInv, HoldersOK
    <3>2. ASSUME NEW s \in Slots, s # s0
          PROVE  /\ holding'[s] # None => holding'[s] \in Calls
                 /\ \A d \in Calls : holding'[s] = d <=> Has(d, s)'
                 /\ IsLine(line'[s])
                 /\ \A d \in Calls : d \in InLine(line'[s]) <=> Queued(d, s)'
                 /\ holding'[s] = None => line'[s] = <<>>
      BY <1>2, <1>5, <2>1, <2>6, <3>1, <3>2 DEF McpInv, HoldersOK
    <3>3. holding'[s0] = w /\ line'[s0] = Tail(q)
      BY <1>2, <1>7, <2>1
    <3>4. \A d \in Calls : w = d <=> Has(d, s0)'
      BY <1>0, <1>4, <1>5, <2>1, <2>6 DEF McpInv, HoldersOK
    <3>5. \A d \in Calls : d \in InLine(Tail(q)) <=> Queued(d, s0)'
      BY <1>0, <1>4, <1>5, <2>1, <2>6 DEF McpInv, HoldersOK
    <3>6. /\ holding'[s0] \in Calls /\ holding'[s0] # None
          /\ \A d \in Calls : holding'[s0] = d <=> Has(d, s0)'
          /\ IsLine(line'[s0])
          /\ \A d \in Calls : d \in InLine(line'[s0]) <=> Queued(d, s0)'
      BY <1>0, <2>1, <3>3, <3>4, <3>5
    <3> QED BY <1>2, <3>2, <3>6 DEF HoldersOK
  <2>8. \A d \in Calls, s \in Slots : Sent(d, s)' <=> Sent(d, s) /\ s # s0
    <3> SUFFICES ASSUME NEW d \in Calls, NEW s \in Slots
                 PROVE  Sent(d, s)' <=> Sent(d, s) /\ s # s0
      OBVIOUS
    <3>1. CASE d = c
      BY <1>4, <1>5, <3>1 DEF Sent
    <3>2. CASE d = w
      BY <2>6, <3>2
    <3>3. CASE d # c /\ d # w
      BY <1>3, <2>6, <3>3
    <3> QED BY <3>1, <3>2, <3>3
  <2>9. \A d \in Calls : d # c => /\ call'[d].slot = call[d].slot
                                 /\ call'[d].root = call[d].root
                                 /\ call'[d].exhaustive = call[d].exhaustive
    BY <2>3, <2>4
  <2> QED BY <1>4, <2>5, <2>7, <2>8, <2>9
<1> QED BY <1>6, <1>7

\* A call gives its connection back: closed, or with nothing on it.
LEMMA Leaves ==
    ASSUME McpInv, NEW c \in Calls, call[c].pc \in {"leased", "sent"},
           NEW k, IsCall(k), k.pc \notin {"leased", "sent", "queued"},
           C!Release(c), call' = C!Calling(c, k), UNCHANGED <<up, age>>, next' \in Slots,
           wire' = [s \in Slots |-> wire'[s]], slots' = [s \in Slots |-> slots'[s]],
           \A s \in Slots : s # call[c].slot => wire'[s] = wire[s] /\ slots'[s] = slots[s],
           \/ slots'[call[c].slot] = None
           \/ slots'[call[c].slot] = slots[call[c].slot] /\ wire'[call[c].slot] = <<>>,
           lost' \in Nat, LostOK'
    PROVE  McpInv'
<1>1. /\ CallsOK' /\ HoldersOK'
      /\ \A d \in Calls, s \in Slots : Sent(d, s)' <=> Sent(d, s) /\ s # call[c].slot
      /\ \A d \in Calls : d # c => /\ call'[d].slot = call[d].slot
                                   /\ call'[d].root = call[d].root
                                   /\ call'[d].exhaustive = call[d].exhaustive
  BY Handed
<1>2. PoolOK'
  BY DEF McpInv, PoolOK
<1>3. WiresOK'
  <2>1. ASSUME NEW d \in Calls, NEW s \in Slots, Sent(d, s)'
        PROVE  slots'[s] # None /\ \E body : wire'[s] = <<Frame(d, body)'>>
    <3>1. Sent(d, s) /\ s # call[c].slot /\ d # c
      BY <1>1, <2>1 DEF Sent
    <3>2. PICK body : slots[s] # None /\ wire[s] = <<Frame(d, body)>>
      BY <3>1 DEF McpInv, WiresOK
    <3>3. Frame(d, body)' = Frame(d, body)
      BY <1>1, <3>1 DEF Frame
    <3> QED BY <3>1, <3>2, <3>3
  <2>2. ASSUME NEW s \in Slots, slots'[s] # None
        PROVE  wire'[s] = <<>> \/ \E d \in Calls : Sent(d, s)'
    <3>1. CASE s = call[c].slot
      BY <2>2, <3>1
    <3>2. CASE s # call[c].slot
      BY <1>1, <2>2, <3>2 DEF McpInv, WiresOK
    <3> QED BY <3>1, <3>2
  <2> QED BY <2>1, <2>2 DEF WiresOK
<1> QED BY <1>1, <1>2, <1>3 DEF McpInv

-----------------------------------------------------------------------------
(* The actions *)

LEMMA Swept ==
    ASSUME NEW r, IsCall(r), next \in Slots, NEW root
    PROVE  C!Sweeping(r, root) = [pc |-> "sweep", root |-> root, exhaustive |-> r.exhaustive,
                                  slot |-> next, left |-> PoolSize]
<1> DEFINE a1 == [pc |-> "sweep", root |-> r.root, exhaustive |-> r.exhaustive, slot |-> r.slot,
                  left |-> r.left]
           a2 == [pc |-> "sweep", root |-> root, exhaustive |-> r.exhaustive, slot |-> r.slot,
                  left |-> r.left]
           a3 == [pc |-> "sweep", root |-> root, exhaustive |-> r.exhaustive, slot |-> next,
                  left |-> r.left]
<1>1. C!Sweeping(r, root) = [[[[r EXCEPT !.pc = "sweep"] EXCEPT !.root = root]
                                EXCEPT !.slot = next] EXCEPT !.left = PoolSize]
  BY DEF C!Sweeping
<1>2. [r EXCEPT !.pc = "sweep"] = a1
  BY SMT DEF IsCall
<1>3. [a1 EXCEPT !.root = root] = a2
  OBVIOUS
<1>4. [a2 EXCEPT !.slot = next] = a3
  OBVIOUS
<1>5. [a3 EXCEPT !.left = PoolSize]
        = [pc |-> "sweep", root |-> root, exhaustive |-> r.exhaustive, slot |-> next,
           left |-> PoolSize]
  OBVIOUS
<1> QED BY <1>1, <1>2, <1>3, <1>4, <1>5

LEMMA Ended ==
    ASSUME NEW pc
    PROVE  IsCall([C!Idle EXCEPT !.pc = pc]) /\ [C!Idle EXCEPT !.pc = pc].pc = pc
<1>1. IsCall(C!Idle)
  BY InTurn DEF C!Idle, IsCall
<1>2. ASSUME NEW r, IsCall(r) PROVE IsCall([r EXCEPT !.pc = pc]) /\ [r EXCEPT !.pc = pc].pc = pc
  BY <1>2, SMT DEF IsCall
<1> QED BY <1>1, <1>2

LEMMA AskedAgain ==
    ASSUME NEW r, IsCall(r)
    PROVE  /\ IsCall([r EXCEPT !.exhaustive = TRUE])
           /\ [r EXCEPT !.exhaustive = TRUE].pc = r.pc
<1>1. ASSUME NEW e
      PROVE  IsCall([r EXCEPT !.exhaustive = e]) /\ [r EXCEPT !.exhaustive = e].pc = r.pc
  BY SMT DEF IsCall
<1> QED BY <1>1

LEMMA StartStep == ASSUME McpInv, NEW c \in Calls, C!Start(c) PROVE McpInv'
<1>1. /\ call[c].pc = "idle" /\ IsCall(call[c]) /\ next \in Slots
      /\ UNCHANGED <<up, age, slots, holding, line, wire, lost>>
  BY DEF C!Start, McpInv, CallsOK, PoolOK
<1>2. PICK root : \/ call' = [call EXCEPT ![c].pc = "failed"] /\ UNCHANGED next
                  \/ /\ call' = [call EXCEPT ![c] = C!Sweeping(call[c], root)]
                     /\ next' = (next + 1) % PoolSize
  BY DEF C!Start
<1>3. CASE call' = [call EXCEPT ![c].pc = "failed"] /\ UNCHANGED next
  <2>1. PICK k : k = [call[c] EXCEPT !.pc = "failed"]
    OBVIOUS
  <2>2. call' = [call EXCEPT ![c] = k]
    BY <1>3, <2>1
  <2>3. IsCall(k) /\ k.pc = "failed"
    BY <1>1, <2>1, SMT DEF IsCall
  <2> QED BY <1>1, <1>3, <2>2, <2>3, Aside
<1>4. CASE /\ call' = [call EXCEPT ![c] = C!Sweeping(call[c], root)]
           /\ next' = (next + 1) % PoolSize
  <2>1. IsCall(C!Sweeping(call[c], root)) /\ C!Sweeping(call[c], root).pc = "sweep"
    BY <1>1, Swept DEF IsCall
  <2>2. next' \in Slots
    BY <1>1, <1>4, InTurn
  <2> QED BY <1>1, <1>4, <2>1, <2>2, Aside
<1> QED BY <1>2, <1>3, <1>4

\* The mutex of the slot is taken if it is free.
LEMMA TakeStep ==
    ASSUME McpInv, NEW c \in Calls, call[c].pc = "sweep", C!Take(c, call[c].slot),
           UNCHANGED <<up, age, next, slots, line, wire, lost>>
    PROVE  McpInv'
<1>1. IsCall(call[c])
  BY DEF McpInv, CallsOK
<1>2. PICK k : k = [[call[c] EXCEPT !.pc = "leased"] EXCEPT !.left = 0]
  OBVIOUS
<1>3. call' = [call EXCEPT ![c] = k]
  <2>1. call' = [call EXCEPT ![c].pc = "leased", ![c].left = 0]
    BY DEF C!Take
  <2>2. c \in DOMAIN call
    BY DEF McpInv, CallsOK
  <2> QED BY <1>2, <2>1, <2>2
<1>4. k = [pc |-> "leased", root |-> call[c].root, exhaustive |-> call[c].exhaustive,
           slot |-> call[c].slot, left |-> 0]
  <2>1. [call[c] EXCEPT !.pc = "leased"]
          = [pc |-> "leased", root |-> call[c].root, exhaustive |-> call[c].exhaustive,
             slot |-> call[c].slot, left |-> call[c].left]
    BY <1>1, SMT DEF IsCall
  <2> QED BY <1>2, <2>1
<1>5. IsCall(k) /\ k.pc = "leased" /\ k.slot = call[c].slot
  BY <1>1, <1>4 DEF IsCall
<1> QED BY <1>3, <1>5, Comes DEF C!Take

LEMMA LeaseStep == ASSUME McpInv, NEW c \in Calls, C!TryLock(c) \/ C!Queue(c) PROVE McpInv'
<1>1. /\ call[c].pc = "sweep" /\ IsCall(call[c]) /\ next \in Slots
      /\ UNCHANGED <<up, age, next, slots, wire, lost>>
  BY DEF C!TryLock, C!Queue, McpInv, CallsOK, PoolOK
<1>2. ASSUME C!Take(c, call[c].slot), UNCHANGED line PROVE McpInv'
  BY <1>1, <1>2, TakeStep
<1>3. CASE C!TryLock(c) /\ ~C!Take(c, call[c].slot)
  <2>1. /\ UNCHANGED <<holding, line>>
        /\ call' = [call EXCEPT ![c].slot = (call[c].slot + 1) % PoolSize, ![c].left = @ - 1]
    BY <1>3 DEF C!TryLock
  <2>2. PICK k : k = [[call[c] EXCEPT !.slot = (call[c].slot + 1) % PoolSize]
                        EXCEPT !.left = call[c].left - 1]
    OBVIOUS
  <2>3. call' = [call EXCEPT ![c] = k]
    BY <2>1, <2>2 DEF McpInv, CallsOK
  <2>4. k = [pc |-> "sweep", root |-> call[c].root, exhaustive |-> call[c].exhaustive,
             slot |-> (call[c].slot + 1) % PoolSize, left |-> call[c].left - 1]
    <3>1. [call[c] EXCEPT !.slot = (call[c].slot + 1) % PoolSize]
            = [pc |-> "sweep", root |-> call[c].root, exhaustive |-> call[c].exhaustive,
               slot |-> (call[c].slot + 1) % PoolSize, left |-> call[c].left]
      BY <1>1, SMT DEF IsCall
    <3> QED BY <2>2, <3>1
  <2>5. IsCall(k) /\ k.pc = "sweep"
    BY <1>1, <2>4, InTurn DEF IsCall
  <2> QED BY <1>1, <2>1, <2>3, <2>5, Aside
<1>4. CASE C!Queue(c) /\ ~C!Take(c, call[c].slot)
  <2>1. /\ UNCHANGED holding /\ holding[call[c].slot] # None
        /\ line' = [line EXCEPT ![call[c].slot] = Append(@, c)]
        /\ call' = [call EXCEPT ![c].pc = "queued"]
    BY <1>4 DEF C!Queue
  <2>2. PICK k : k = [call[c] EXCEPT !.pc = "queued"]
    OBVIOUS
  <2>3. call' = [call EXCEPT ![c] = k]
    BY <2>1, <2>2
  <2>4. IsCall(k) /\ k.pc = "queued" /\ k.slot = call[c].slot
    BY <1>1, <2>2, SMT DEF IsCall
  <2>5. line' = [line EXCEPT ![k.slot] = Append(line[k.slot], c)]
    BY <2>1, <2>4
  <2> QED BY <1>1, <2>1, <2>3, <2>4, <2>5, Comes
<1>5. CASE C!TryLock(c)
  <2>1. UNCHANGED line
    BY <1>5 DEF C!TryLock
  <2> QED BY <1>2, <1>3, <1>5, <2>1
<1>6. CASE C!Queue(c)
  <2>1. C!Take(c, call[c].slot) => UNCHANGED line
    BY <1>6 DEF C!Queue, C!Take
  <2> QED BY <1>2, <1>4, <1>6, <2>1
<1> QED BY <1>5, <1>6

LEMMA ConnectStep == ASSUME McpInv, NEW c \in Calls, C!Connect(c) PROVE McpInv'
<1>1. PICK s0 \in Slots : s0 = call[c].slot
  BY DEF McpInv, CallsOK, IsCall
<1>2. /\ call[c].pc = "leased" /\ slots[s0] = None /\ UNCHANGED <<up, age, next, lost>>
  BY <1>1 DEF C!Connect, C!Connected
<1>3. CASE up
  <2>1. /\ slots' = [slots EXCEPT ![s0] = age] /\ wire' = [wire EXCEPT ![s0] = <<>>]
        /\ UNCHANGED <<holding, line, call>>
    BY <1>1, <1>3 DEF C!Connect
  <2>2. /\ slots' = [s \in Slots |-> slots'[s]] /\ wire' = [s \in Slots |-> wire'[s]]
        /\ slots'[s0] = age /\ wire'[s0] = <<>>
        /\ \A s \in Slots : s # s0 => slots'[s] = slots[s] /\ wire'[s] = wire[s]
    BY <2>1, PutAt DEF McpInv, PoolOK
  <2>3. CallsOK' /\ HoldersOK'
    BY <2>1 DEF McpInv, CallsOK, HoldersOK, Has, Queued
  <2>4. age # None /\ age \in 0..age
    BY Bounds, SMT DEF McpInv, PoolOK, C!McpAssumption
  <2>5. PoolOK'
    BY <1>2, <1>3, <2>2, <2>4 DEF McpInv, PoolOK
  <2>6. \A d \in Calls : ~Sent(d, s0)
    BY <1>1, <1>2 DEF McpInv, HoldersOK, Has, Sent
  <2>7. WiresOK'
    <3>1. /\ \A d \in Calls, s \in Slots : Sent(d, s)' <=> Sent(d, s)
          /\ \A d \in Calls : \A body : Frame(d, body)' = Frame(d, body)
      BY <2>1 DEF Sent, Frame
    <3> QED BY <2>2, <2>6, <3>1 DEF McpInv, WiresOK
  <2>8. LostOK'
    <3>1. Stale' = Stale
      BY <1>2, <2>2, <2>4 DEF Stale
    <3> QED BY <1>2, <3>1 DEF McpInv, LostOK
  <2> QED BY <2>3, <2>5, <2>7, <2>8 DEF McpInv
<1>4. CASE ~up
  <2>1. /\ C!Release(c) /\ call' = C!Calling(c, [C!Idle EXCEPT !.pc = "failed"])
        /\ UNCHANGED <<slots, wire>>
    BY <1>4 DEF C!Connect
  <2>2. LostOK' /\ PoolOK
    BY <1>2, <2>1 DEF McpInv, LostOK, Stale
  <2>3. IsCall([C!Idle EXCEPT !.pc = "failed"]) /\ [C!Idle EXCEPT !.pc = "failed"].pc = "failed"
    BY Ended
  <2> QED BY <1>1, <1>2, <2>1, <2>2, <2>3, Leaves DEF PoolOK
<1> QED BY <1>3, <1>4

\* The connection is closed: it is one of those that may fail a call, and does.
LEMMA LoseStep ==
    ASSUME McpInv, NEW c \in Calls, call[c].pc \in {"leased", "sent"}, C!Lose(c),
           slots[call[c].slot] # None, ~C!Alive(call[c].slot), UNCHANGED <<up, age, next, wire>>
    PROVE  McpInv'
<1>1. PICK s0 \in Slots : s0 = call[c].slot
  BY DEF McpInv, CallsOK, IsCall
<1>2. /\ slots' = [slots EXCEPT ![s0] = None] /\ lost' = lost + 1
      /\ C!Release(c) /\ call' = C!Calling(c, [C!Idle EXCEPT !.pc = "failed"])
  BY <1>1 DEF C!Lose, C!Poisoned
<1>3. /\ slots' = [s \in Slots |-> slots'[s]] /\ slots'[s0] = None
      /\ \A s \in Slots : s # s0 => slots'[s] = slots[s]
  BY <1>2, PutAt DEF McpInv, PoolOK
<1>4. s0 \in Stale
  BY <1>1 DEF Stale, C!Alive, McpInv, PoolOK
<1>5. Stale' = Stale \ {s0}
  BY <1>3 DEF Stale
<1>6. Cardinality(Stale') = Cardinality(Stale) - 1
  BY <1>4, <1>5, Stales, FS_RemoveElement
<1>7. LostOK' /\ lost' \in Nat
  <2>1. age * PoolSize \in Nat
    BY FiniteSlots, SMT DEF McpInv, PoolOK
  <2> QED BY <1>2, <1>6, <2>1, Stales, SMT DEF McpInv, PoolOK, LostOK
<1>8. IsCall([C!Idle EXCEPT !.pc = "failed"]) /\ [C!Idle EXCEPT !.pc = "failed"].pc = "failed"
  BY Ended
<1>9. next' \in Slots /\ wire' = [s \in Slots |-> wire'[s]]
  BY DEF McpInv, PoolOK
<1> QED BY <1>1, <1>2, <1>3, <1>7, <1>8, <1>9, Leaves

LEMMA SendStep == ASSUME McpInv, NEW c \in Calls, C!Send(c) PROVE McpInv'
<1>1. PICK s0 \in Slots : s0 = call[c].slot
  BY DEF McpInv, CallsOK, IsCall
<1>2. /\ call[c].pc = "leased" /\ slots[s0] # None /\ UNCHANGED <<up, age, next>>
  BY <1>1 DEF C!Send, C!Connected
<1>3. CASE C!Alive(s0)
  <2>1. /\ wire' = [wire EXCEPT ![s0] = Append(@, Frame(c, "request"))]
        /\ call' = [call EXCEPT ![c].pc = "sent"]
        /\ UNCHANGED <<slots, holding, line, lost>>
    BY <1>1, <1>3 DEF C!Send, Frame
  <2>2. \A d \in Calls : ~Sent(d, s0)
    BY <1>1, <1>2 DEF McpInv, HoldersOK, Has, Sent
  <2>3. wire[s0] = <<>>
    BY <1>2, <2>2 DEF McpInv, WiresOK
  <2>4. Append(<<>>, Frame(c, "request")) = <<Frame(c, "request")>>
    OBVIOUS
  <2>5. /\ wire' = [s \in Slots |-> wire'[s]] /\ wire'[s0] = <<Frame(c, "request")>>
        /\ \A s \in Slots : s # s0 => wire'[s] = wire[s]
    BY <2>1, <2>3, <2>4, PutAt DEF McpInv, PoolOK
  <2>6. PICK k : k = [call[c] EXCEPT !.pc = "sent"]
    OBVIOUS
  <2>7. call' = [call EXCEPT ![c] = k]
    BY <2>1, <2>6
  <2>8. /\ IsCall(k) /\ k.pc = "sent" /\ k.slot = s0
        /\ k.root = call[c].root /\ k.exhaustive = call[c].exhaustive
    <3>1. IsCall(call[c])
      BY DEF McpInv, CallsOK
    <3> QED BY <1>1, <2>6, <3>1, SMT DEF IsCall
  <2>9. /\ call' = [d \in Calls |-> call'[d]] /\ call'[c] = k
        /\ \A d \in Calls : d # c => call'[d] = call[d]
    BY <2>7, PutAt DEF McpInv, CallsOK
  <2>10. CallsOK'
    BY <2>8, <2>9 DEF McpInv, CallsOK
  <2>11. PoolOK'
    BY <1>2, <2>1, <2>5 DEF McpInv, PoolOK
  <2>12. \A d \in Calls, s \in Slots : /\ Has(d, s)' <=> Has(d, s)
                                       /\ Queued(d, s)' <=> Queued(d, s)
                                       /\ Sent(d, s)' <=> Sent(d, s) \/ (d = c /\ s = s0)
    BY <1>1, <1>2, <2>8, <2>9 DEF Has, Queued, Sent
  <2>13. HoldersOK'
    BY <2>1, <2>12 DEF McpInv, HoldersOK
  <2>14. \A d \in Calls : \A body : Frame(d, body)' = Frame(d, body)
    BY <2>8, <2>9 DEF Frame
  <2>15. WiresOK'
    BY <1>2, <2>1, <2>2, <2>5, <2>12, <2>14 DEF McpInv, WiresOK
  <2>16. LostOK'
    BY <1>2, <2>1 DEF McpInv, LostOK, Stale
  <2> QED BY <2>10, <2>11, <2>13, <2>15, <2>16 DEF McpInv
<1>4. CASE ~C!Alive(s0)
  <2>1. C!Lose(c) /\ UNCHANGED wire
    BY <1>1, <1>4 DEF C!Send
  <2> QED BY <1>1, <1>2, <1>4, <2>1, LoseStep
<1> QED BY <1>3, <1>4

LEMMA ReceiveStep == ASSUME McpInv, NEW c \in Calls, C!Broken(c) \/ C!Receive(c) PROVE McpInv'
<1>1. PICK s0 \in Slots : s0 = call[c].slot
  BY DEF McpInv, CallsOK, IsCall
<1>2. call[c].pc = "sent" /\ UNCHANGED <<up, age>> /\ slots[s0] # None
  BY <1>1 DEF C!Broken, C!Receive, McpInv, WiresOK, Sent
<1>3. CASE C!Broken(c)
  BY <1>1, <1>2, <1>3, LoseStep DEF C!Broken
<1>4. CASE C!Receive(c)
  <2>1. PICK body : wire[s0] = <<Frame(c, body)>>
    BY <1>1, <1>2 DEF McpInv, WiresOK, Sent
  <2>2. wire' = [wire EXCEPT ![s0] = Tail(@)] /\ C!Release(c) /\ UNCHANGED <<slots, lost>>
    BY <1>1, <1>4 DEF C!Receive
  <2>3. Tail(<<Frame(c, body)>>) = <<>>
    OBVIOUS
  <2>4. /\ wire' = [s \in Slots |-> wire'[s]] /\ wire'[s0] = <<>>
        /\ \A s \in Slots : s # s0 => wire'[s] = wire[s]
    BY <2>1, <2>2, <2>3, PutAt DEF McpInv, PoolOK
  <2>5. LostOK' /\ lost' \in Nat /\ slots' = [s \in Slots |-> slots'[s]]
    BY <1>2, <2>2 DEF McpInv, PoolOK, LostOK, Stale
  <2>6. \E k : /\ call' = C!Calling(c, k) /\ IsCall(k) /\ k.pc \in {"done", "sweep"}
               /\ next' \in Slots
    <3>1. next \in Slots /\ IsCall(call[c])
      BY DEF McpInv, PoolOK, CallsOK
    <3>2. CASE call' = C!Calling(c, [C!Idle EXCEPT !.pc = "done"]) /\ UNCHANGED next
      BY <3>1, <3>2, Ended
    <3>3. CASE /\ call' = C!Calling(c, [C!Sweeping(call[c], call[c].root) EXCEPT !.exhaustive = TRUE])
               /\ next' = (next + 1) % PoolSize
      <4>1. IsCall(C!Sweeping(call[c], call[c].root)) /\ C!Sweeping(call[c], call[c].root).pc = "sweep"
        BY <3>1, Swept DEF IsCall
      <4> QED BY <3>1, <3>3, <4>1, AskedAgain, InTurn
    <3> QED BY <1>4, <3>2, <3>3 DEF C!Receive
  <2> QED BY <1>1, <1>2, <2>2, <2>4, <2>5, <2>6, Leaves
<1> QED BY <1>3, <1>4

-----------------------------------------------------------------------------
(* The daemon's steps *)

LEMMA ServeStep == ASSUME McpInv, NEW s0 \in Slots, C!Serve(s0) PROVE McpInv'
<1>0. UNCHANGED <<up, age, next, slots, holding, line, call, lost>>
  BY DEF C!Serve, C!pool
<1>1. slots[s0] # None
  <2>1. slots[s0] = age
    BY DEF C!Serve, C!Alive
  <2>2. age # None
    BY Bounds, SMT DEF McpInv, PoolOK, C!McpAssumption
  <2> QED BY <2>1, <2>2
<1>2. C!Unanswered(s0) # {} /\ C!Unanswered(s0) \subseteq DOMAIN wire[s0]
  BY DEF C!Serve, C!Unanswered
<1>3. PICK c \in Calls : Sent(c, s0) /\ \E b : wire[s0] = <<Frame(c, b)>>
  BY <1>1, <1>2 DEF McpInv, WiresOK
<1>b. PICK body : wire[s0] = <<Frame(c, body)>>
  BY <1>3
<1>4. (CHOOSE k \in C!Unanswered(s0) : \A j \in C!Unanswered(s0) : k <= j) = 1
  <2>1. DOMAIN wire[s0] = {1}
    BY <1>b
  <2>2. C!Unanswered(s0) = {1}
    BY <1>2, <2>1
  <2> QED BY <2>2, SMT
<1>5. PICK said : wire' = [wire EXCEPT ![s0][1].body = said]
  BY <1>4 DEF C!Serve
<1> DEFINE f == [wire[s0] EXCEPT ![1].body = said]
<1>6. wire' = [wire EXCEPT ![s0] = f]
  BY <1>5
<1>7. f = <<Frame(c, said)>>
  <2>1. [Frame(c, body) EXCEPT !.body = said] = Frame(c, said)
    BY DEF Frame
  <2>2. ASSUME NEW a, NEW b PROVE [<<a>> EXCEPT ![1] = b] = <<b>>
    OBVIOUS
  <2>3. f = [<<Frame(c, body)>> EXCEPT ![1] = [Frame(c, body) EXCEPT !.body = said]]
    BY <1>b
  <2> QED BY <2>1, <2>2, <2>3
<1> HIDE DEF f
<1>8. /\ wire' = [s \in Slots |-> wire'[s]] /\ wire'[s0] = <<Frame(c, said)>>
      /\ \A s \in Slots : s # s0 => wire'[s] = wire[s]
  BY <1>6, <1>7, PutAt DEF McpInv, PoolOK
<1>9. CallsOK' /\ PoolOK' /\ HoldersOK' /\ LostOK'
  BY <1>0, <1>8 DEF McpInv, CallsOK, PoolOK, HoldersOK, LostOK, Has, Queued, Stale
<1>10. /\ \A d \in Calls, s \in Slots : Sent(d, s)' <=> Sent(d, s)
       /\ \A d \in Calls : \A b : Frame(d, b)' = Frame(d, b)
       /\ \A d \in Calls : Sent(d, s0) => d = c
  BY <1>0, <1>3 DEF Sent, Frame, McpInv, HoldersOK, Has
<1>11. WiresOK'
  BY <1>0, <1>1, <1>3, <1>8, <1>10 DEF McpInv, WiresOK
<1> QED BY <1>9, <1>11 DEF McpInv

LEMMA Unmoved ==
    ASSUME UNCHANGED <<slots, holding, line, wire, call>>, CallsOK, HoldersOK, WiresOK
    PROVE  CallsOK' /\ HoldersOK' /\ WiresOK'
<1>1. \A d \in Calls, s \in Slots : /\ Has(d, s)' <=> Has(d, s)
                                    /\ Queued(d, s)' <=> Queued(d, s)
                                    /\ Sent(d, s)' <=> Sent(d, s)
  BY DEF Has, Queued, Sent
<1>2. \A d \in Calls : \A b : Frame(d, b)' = Frame(d, b)
  BY DEF Frame
<1>3. CallsOK'
  BY DEF CallsOK
<1>4. HoldersOK'
  BY <1>1 DEF HoldersOK
<1>5. WiresOK'
  BY <1>1, <1>2 DEF WiresOK
<1> QED BY <1>3, <1>4, <1>5

\* A daemon stops: each connection may be one to it.
LEMMA StopStep == McpInv /\ (C!Stop \/ C!Restart) => McpInv'
<1> SUFFICES ASSUME McpInv, C!Stop \/ C!Restart PROVE McpInv'
  OBVIOUS
<1>1. /\ UNCHANGED <<next, slots, holding, line, wire, call, lost>>
      /\ \/ up' = FALSE /\ age' = age + 1
         \/ up' = TRUE /\ UNCHANGED age
  BY DEF C!Stop, C!Restart, C!pool
<1>2. CallsOK' /\ HoldersOK' /\ WiresOK'
  <2>1. UNCHANGED <<slots, holding, line, wire, call>>
    BY <1>1
  <2>2. CallsOK /\ HoldersOK /\ WiresOK
    BY DEF McpInv
  <2> QED BY <2>1, <2>2, Unmoved
<1>3. PoolOK'
  <2>1. up' \in BOOLEAN /\ age' \in Nat /\ lost' \in Nat /\ next' \in Slots
    <3>1. age + 1 \in Nat
      BY SMT DEF McpInv, PoolOK
    <3> QED BY <1>1, <3>1 DEF McpInv, PoolOK
  <2>2. ASSUME NEW s \in Slots, slots[s] # None
        PROVE  slots[s] \in 0..age' /\ (~up' => slots[s] # age')
    <3>1. slots[s] \in 0..age /\ age \in Nat
      BY <2>2 DEF McpInv, PoolOK
    <3>2. slots[s] \in 0..(age + 1) /\ slots[s] # age + 1
      BY <3>1, SMT
    <3> QED BY <1>1, <3>1, <3>2
  <2>3. wire' = [s \in Slots |-> wire'[s]] /\ slots' = [s \in Slots |-> slots'[s]]
    BY <1>1 DEF McpInv, PoolOK
  <2> QED BY <1>1, <2>1, <2>2, <2>3 DEF PoolOK
<1>4. LostOK'
  <2>1. CASE UNCHANGED age
    BY <1>1, <2>1 DEF McpInv, LostOK, Stale
  <2>2. CASE age' = age + 1
    <3>1. /\ (age + 1) * PoolSize = age * PoolSize + PoolSize
          /\ age * PoolSize \in Nat
      BY FiniteSlots, SMT DEF McpInv, PoolOK
    <3>2. Cardinality(Stale') <= PoolSize /\ Cardinality(Stale') \in Nat
      <4>1. Stale' \subseteq Slots
        BY DEF Stale
      <4> QED BY <4>1, FiniteSlots, FS_Subset, FS_CardinalityType
    <3> QED BY <1>1, <2>2, <3>1, <3>2, Stales, FiniteSlots, SMT DEF McpInv, PoolOK, LostOK
  <2> QED BY <1>1, <2>1, <2>2
<1> QED BY <1>2, <1>3, <1>4 DEF McpInv

LEMMA McpGoes == McpInv /\ [C!Next]_C!vars => McpInv'
<1> SUFFICES ASSUME McpInv, [C!Next]_C!vars PROVE McpInv'
  OBVIOUS
<1>1. CASE UNCHANGED C!vars
  <2>1. UNCHANGED <<up, age, next, slots, holding, line, wire, call, lost>>
    BY <1>1 DEF C!vars, C!pool
  <2>2. CallsOK' /\ HoldersOK' /\ WiresOK'
    BY <2>1, Unmoved DEF McpInv
  <2> QED BY <2>1, <2>2 DEF McpInv, PoolOK, LostOK, Stale
<1>2. ASSUME NEW c \in Calls, C!Start(c) \/ C!CallStep(c) PROVE McpInv'
  BY <1>2, StartStep, LeaseStep, ConnectStep, SendStep, ReceiveStep DEF C!CallStep
<1>3. ASSUME NEW s \in Slots, C!Serve(s) PROVE McpInv'
  BY <1>3, ServeStep
<1> QED BY <1>1, <1>2, <1>3, StopStep DEF C!Next, Slots

-----------------------------------------------------------------------------
(* The theorem of the calls.  The variables of the other parts rest. *)

LEMMA McpStays ==
    /\ ServicesInit => (part = "mcp" => McpInv)
    /\ (part = "mcp" => McpInv) /\ [SetupStep \/ MainStep \/ ReadersStep \/ McpStep]_services
         => (part = "mcp" => McpInv)'
<1>1. ServicesInit => (part = "mcp" => McpInv)
  BY McpBegins DEF ServicesInit
<1>2. ASSUME part = "mcp" => McpInv, [SetupStep \/ MainStep \/ ReadersStep \/ McpStep]_services
      PROVE  (part = "mcp" => McpInv)'
  <2>1. UNCHANGED part
    BY <1>2 DEF SetupStep, MainStep, ReadersStep, McpStep, services
  <2>2. CASE part = "mcp"
    <3>1. C!Next \/ UNCHANGED C!vars
      BY <1>2, <2>2 DEF SetupStep, MainStep, ReadersStep, McpStep, services, mcp, C!vars, C!pool
    <3> QED BY <1>2, <2>1, <2>2, <3>1, McpGoes
  <2> QED BY <2>1, <2>2
<1> QED BY <1>1, <1>2

\* However many calls share the pool, with daemons that stop and start again between
\* any two of their steps: a call reads the answer to its own last request, a mutex
\* that is free has nobody waiting for it, and "IPC lost, retry" is said at most once
\* per connection to a daemon that has stopped.
THEOREM CallsFitAlways == ServicesSpec => []CallsFit
<1>1. (part = "mcp" => McpInv) => CallsFit
  BY McpSafe DEF CallsFit
<1> QED BY <1>1, McpStays, PTL DEF ServicesSpec

-----------------------------------------------------------------------------
(* The daemon's readers and their caches (Serving) *)

\* A reader is a record with these fields (of any value: the proofs look at a few).
Fields == {"pc", "kind", "obj", "row", "model", "method", "cell", "tree"}

Shape == DOMAIN reader = Readers /\ \A r \in Readers : DOMAIN reader[r] = Fields

LoadsOK ==
    /\ loads \in [Models -> Nat]
    /\ \A m \in Models : loads[m] <= 1
    /\ \A m \in Models : m \notin engines => loads[m] = 0

LoaderOK ==
    \A r \in Readers : reader[r].pc = "load" => loader = r /\ reader[r].model \notin engines

LoadInv == Shape /\ LoadsOK /\ LoaderOK

LEMMA LoadInit == Init => LoadInv
  BY SMT DEF Init, LoadInv, Shape, Fields, LoadsOK, LoaderOK, Idle

\* A reader's step changes only its own record, and keeps its fields.
LEMMA OwnRecord ==
  ASSUME Shape, NEW r \in Readers, ReaderStep(r) \/ \E kind \in Kinds(r) : Ask(r, kind)
  PROVE  /\ Shape'
         /\ \A q \in Readers \ {r} : reader'[q] = reader[q]
<1> USE DEF Shape, Fields, At, Go, Idle
<1>1. CASE ReadRow(r) BY <1>1, SMT DEF ReadRow
<1>2. CASE FindEngine(r) BY <1>2, SMT DEF FindEngine
<1>3. CASE LockLoad(r) BY <1>3, SMT DEF LockLoad
<1>4. CASE LoadEngine(r) BY <1>4, SMT DEF LoadEngine
<1>5. CASE LoadFails(r) BY <1>5, SMT DEF LoadFails
<1>6. CASE EmbedFails(r) BY <1>6, SMT DEF EmbedFails
<1>7. CASE ReadParams(r) BY <1>7, SMT DEF ReadParams
<1>8. CASE StoreParams(r) BY <1>8, SMT DEF StoreParams
<1>9. CASE OpenTable(r) BY <1>9, SMT DEF OpenTable
<1>10. CASE FindCell(r) BY <1>10, SMT DEF FindCell
<1>11. CASE BeginBuild(r) BY <1>11, SMT DEF BeginBuild
<1>12. CASE Build(r) BY <1>12, SMT DEF Build
<1>13. CASE BuildFails(r) BY <1>13, SMT DEF BuildFails
<1>14. CASE UseGraph(r) BY <1>14, SMT DEF UseGraph
<1>15. CASE Fetch(r) BY <1>15, SMT DEF Fetch
<1>16. CASE OpenAgain(r) BY <1>16, SMT DEF OpenAgain
<1>17. CASE FindIndex(r) BY <1>17, SMT DEF FindIndex
<1>18. CASE StoreIndex(r) BY <1>18, SMT DEF StoreIndex
<1>19. ASSUME NEW kind \in Kinds(r), Ask(r, kind) PROVE /\ Shape'
                                                      /\ \A q \in Readers \ {r} : reader'[q] = reader[q]
  <2> DEFINE new == [Idle EXCEPT !.pc = IF kind = "symbols" THEN "symbols" ELSE "row",
                                 !.kind = kind, !.obj = Loaded]
  <2>1. DOMAIN new = Fields
    BY SMT
  <2>2. reader' = [reader EXCEPT ![r] = new]
    BY <1>19 DEF Ask
  <2> HIDE DEF new
  <2> QED BY <2>1, <2>2, SMT
<1> QED BY <1>1, <1>2, <1>3, <1>4, <1>5, <1>6, <1>7, <1>8, <1>9, <1>10, <1>11, <1>12, <1>13, <1>14, <1>15, <1>16, <1>17, <1>18, <1>19 DEF ReaderStep

-----------------------------------------------------------------------------
(* A model is loaded once. *)

\* Whoever goes on after the lock either loads, holding it, or does not.
LEMMA LoadStep ==
  ASSUME ServingAssumption, LoadInv, NEW r \in Readers, ReaderStep(r)
  PROVE  LoadInv'
<1> USE DEF LoadInv, LoadsOK, LoaderOK, At
<1>own. Shape' /\ \A q \in Readers \ {r} : reader'[q] = reader[q]
  BY OwnRecord
<1>quiet. ASSUME UNCHANGED <<engines, loader, loads>>, reader'[r].pc # "load"
          PROVE  LoadInv'
  BY <1>own, <1>quiet, SMT
<1>1. CASE ReadRow(r) BY <1>1, <1>quiet, SMT DEF ReadRow, Go, Idle, caches, history, Shape, Fields, Kind
<1>2. CASE FindEngine(r) BY <1>2, <1>quiet, SMT DEF FindEngine, Go, Idle, caches, history, Shape, Fields, AfterEngine
<1>3. CASE EmbedFails(r) BY <1>3, <1>quiet, SMT DEF EmbedFails, Go, Idle, caches, history, Shape, Fields, others
<1>4. CASE ReadParams(r) BY <1>4, <1>quiet, SMT DEF ReadParams, Go, Idle, caches, history, Shape, Fields
<1>5. CASE StoreParams(r) BY <1>5, <1>quiet, SMT DEF StoreParams, Go, Idle, caches, history, Shape, Fields
<1>6. CASE OpenTable(r) BY <1>6, <1>quiet, SMT DEF OpenTable, Go, Idle, caches, history, Shape, Fields, AfterTable, Kind
<1>7. CASE FindCell(r) BY <1>7, <1>quiet, SMT DEF FindCell, Go, Idle, caches, history, Shape, Fields
<1>8. CASE BeginBuild(r) BY <1>8, <1>quiet, SMT DEF BeginBuild, Go, Idle, caches, history, Shape, Fields
<1>9. CASE Build(r) BY <1>9, <1>quiet, SMT DEF Build, Go, Idle, caches, history, Shape, Fields
<1>10. CASE BuildFails(r) BY <1>10, <1>quiet, SMT DEF BuildFails, Go, Idle, caches, history, Shape, Fields
<1>11. CASE UseGraph(r) BY <1>11, <1>quiet, SMT DEF UseGraph, Go, Idle, caches, history, Shape, Fields
<1>12. CASE Fetch(r) BY <1>12, <1>quiet, SMT DEF Fetch, Go, Idle, caches, history, Shape, Fields
<1>13. CASE OpenAgain(r) BY <1>13, <1>quiet, SMT DEF OpenAgain, Go, Idle, caches, history, Shape, Fields
<1>14. CASE FindIndex(r) BY <1>14, <1>quiet, SMT DEF FindIndex, Go, Idle, caches, history, Shape, Fields
<1>15. CASE StoreIndex(r) BY <1>15, <1>quiet, SMT DEF StoreIndex, Go, Idle, caches, history, Shape, Fields
<1>16. CASE LockLoad(r)
  <2>1. loader = None /\ UNCHANGED <<engines, loads>>
    BY <1>16, SMT DEF LockLoad, history
  <2>2. \A q \in Readers : reader[q].pc # "load"
    BY <2>1, SMT DEF ServingAssumption
  <2>3. CASE reader[r].model \in engines
    BY <1>16, <1>quiet, <2>1, <2>3, SMT DEF LockLoad, AfterEngine, Kind, Go, Idle, Shape, Fields
  <2>4. CASE reader[r].model \notin engines
    <3>1. loader' = r /\ reader'[r].model = reader[r].model
      BY <1>16, <2>4, SMT DEF LockLoad, Go, Idle, Shape, Fields
    <3> QED BY <1>own, <2>1, <2>2, <2>4, <3>1, SMT
  <2> QED BY <2>3, <2>4
<1>17. CASE LoadEngine(r)
  <2>1. /\ reader[r].pc = "load" /\ loader = r /\ reader[r].model \notin engines
        /\ engines' = engines \cup {reader[r].model}
        /\ loads' = [loads EXCEPT ![reader[r].model] = @ + 1]
    BY <1>17, SMT DEF LoadEngine
  <2>2. \A q \in Readers \ {r} : reader[q].pc # "load"
    BY <2>1, SMT
  <2>3. reader'[r].pc # "load"
    BY <1>17, SMT DEF LoadEngine, AfterEngine, Kind, Go, Idle, Shape, Fields
  <2>4. LoaderOK'
    BY <1>own, <2>2, <2>3, SMT
  <2>5. LoadsOK'
    <3>1. ASSUME NEW m \in Models
          PROVE  loads'[m] = IF m = reader[r].model THEN loads[m] + 1 ELSE loads[m]
      BY <2>1, <3>1, SMT
    <3>2. loads[reader[r].model] = 0 \/ reader[r].model \notin Models
      BY <2>1, SMT
    <3>3. loads' \in [Models -> Nat]
      <4>1. loads \in [Models -> Nat]
        OBVIOUS
      <4>2. \A x : [loads EXCEPT ![x] = @ + 1] = [m \in Models |-> IF m = x THEN loads[m] + 1 ELSE loads[m]]
        BY <4>1, Zenon
      <4>3. loads' = [m \in Models |-> IF m = reader[r].model THEN loads[m] + 1 ELSE loads[m]]
        BY <2>1, <4>2
      <4> QED BY ONLY <4>1, <4>3, SMT
    <3> QED BY <2>1, <3>1, <3>2, <3>3, SMT
  <2> QED BY <1>own, <2>4, <2>5
<1>18. CASE LoadFails(r) BY <1>18, <1>own, SMT DEF LoadFails, Go, Idle, Kind, history, Shape, Fields
<1> QED BY <1>1, <1>2, <1>3, <1>4, <1>5, <1>6, <1>7, <1>8, <1>9, <1>10, <1>11, <1>12, <1>13, <1>14, <1>15, <1>16, <1>17, <1>18 DEF ReaderStep

LEMMA LoadNext ==
  ASSUME ServingAssumption, LoadInv, [Next]_vars
  PROVE  LoadInv'
<1>1. ASSUME NEW r \in Readers, ReaderStep(r) PROVE LoadInv'
  BY <1>1, LoadStep
<1>2. ASSUME NEW r \in Readers, NEW kind \in Kinds(r), Ask(r, kind) PROVE LoadInv'
  <2>1. Shape' /\ \A q \in Readers \ {r} : reader'[q] = reader[q]
    BY <1>2, OwnRecord DEF LoadInv
  <2>2. reader'[r].pc # "load" /\ UNCHANGED <<engines, loader, loads>>
    BY <1>2, SMT DEF Ask, Idle, At, LoadInv, Shape, Fields, history
  <2> QED BY <2>1, <2>2, SMT DEF LoadInv, LoadsOK, LoaderOK
<1>3. CASE RunStep \/ RemoverStep
  BY <1>3, SMT DEF RunStep, RemoverStep, RunBegins, RunOpens, RunAppends, RunPublishes, RunResets,
       RunStops, Invalidate, Unload, RemoveFiles, LoadInv, LoadsOK, LoaderOK, Shape, caches, history
<1>4. CASE UNCHANGED vars
  BY <1>4, SMT DEF vars, LoadInv, LoadsOK, LoaderOK, Shape, caches, history
<1> QED BY <1>1, <1>2, <1>3, <1>4 DEF Next

\* However many requests ask for a model at the same time, it is loaded once
\* (state.rs:131-139): the map is looked at again under the lock.
THEOREM LoadedOnce == ASSUME ServingAssumption PROVE Spec => []OneLoad
<1>1. LoadInv => OneLoad
  BY DEF LoadInv, LoadsOK, OneLoad
<1> QED BY <1>1, LoadInit, LoadNext, PTL DEF Spec

-----------------------------------------------------------------------------
(* Cached parameters follow the row. *)

\* Objects made so far: those of earlier loads, and the one in the registry.
Made == IF loaded # None THEN removals + 1 ELSE removals

ObjectsOK ==
    /\ removals \in 0..MaxRemovals
    /\ remover = "registry" => removals < MaxRemovals
    /\ loaded \in {None, removals + 1}
    /\ DOMAIN run = {"pc", "obj"} /\ DOMAIN params = Objects
    /\ run.pc # "idle" => run.obj \in 1..Made
    /\ \A r \in Readers : reader[r].pc \notin {"idle", "done"} => reader[r].obj \in 1..Made

\* An object not yet made has no parameters.
FreshOK == \A o \in Objects : o > Made => params[o] = None

FollowOK ==
    loaded # None /\ row # None /\ params[loaded] # None =>
        \/ params[loaded].run = row.run
        \/ loaded \in late
        \/ run.pc = "reset" /\ run.obj = loaded

ParamInv == Shape /\ ObjectsOK /\ FreshOK /\ FollowOK

LEMMA ParamInit == ServingAssumption /\ Init => ParamInv
  BY SMT DEF ServingAssumption, Init, ParamInv, Shape, Fields, ObjectsOK, FreshOK, FollowOK, Made,
             Objects, Idle

LEMMA MadeInRange ==
  ASSUME ServingAssumption, ObjectsOK
  PROVE  /\ MaxRemovals \in Nat /\ None \notin Nat
         /\ Made \in 0..(MaxRemovals + 1) /\ 1..Made \subseteq Objects
         /\ loaded # None => loaded \in Objects /\ loaded = Made
<1>1. MaxRemovals \in Nat /\ None \notin Nat
  BY DEF ServingAssumption
<1>2. removals \in 0..MaxRemovals /\ loaded \in {None, removals + 1}
  BY DEF ObjectsOK
<1>3. Made \in 0..(MaxRemovals + 1)
  BY <1>1, <1>2, SMT DEF Made
<1>4. 1..Made \subseteq Objects
  BY <1>1, <1>3, SMT DEF Objects
<1>5. loaded # None => loaded = Made /\ Made \in 1..(MaxRemovals + 1)
  BY <1>1, <1>2, SMT DEF Made
<1> QED BY <1>1, <1>3, <1>4, <1>5 DEF Objects

\* Opening the project makes an object at most, the next one.
LEMMA OpenMakes ==
  ASSUME ServingAssumption, ObjectsOK, UNCHANGED removals,
         loaded' = IF loaded # None THEN loaded ELSE removals + 1
  PROVE  /\ loaded' = removals + 1 /\ loaded' # None /\ Made' = loaded'
         /\ Made' \in Objects /\ Made \in Nat /\ Made <= Made' /\ removals \in Nat
         /\ loaded = None => Made' > Made
<1>1. MaxRemovals \in Nat /\ None \notin Nat
  BY DEF ServingAssumption
<1>2. removals \in 0..MaxRemovals /\ loaded \in {None, removals + 1}
  BY DEF ObjectsOK
<1>3. loaded' = removals + 1 /\ removals + 1 \in Nat
  BY <1>1, <1>2, SMT
<1>4. loaded' # None
  BY <1>1, <1>3
<1> QED BY <1>1, <1>2, <1>3, <1>4, SMT DEF Made, Objects

\* A reader keeps its object until it is done.
LEMMA OwnObject ==
  ASSUME Shape, NEW r \in Readers, ReaderStep(r)
  PROVE  /\ reader[r].pc \notin {"idle", "done"}
         /\ reader'[r].pc \in {"idle", "done"} \/ reader'[r].obj = reader[r].obj
<1> USE DEF Shape, Fields, At, Go, Idle
<1>1. CASE ReadRow(r) BY <1>1, SMT DEF ReadRow
<1>2. CASE FindEngine(r) BY <1>2, SMT DEF FindEngine
<1>3. CASE LockLoad(r) BY <1>3, SMT DEF LockLoad
<1>4. CASE LoadEngine(r) BY <1>4, SMT DEF LoadEngine
<1>5. CASE LoadFails(r) BY <1>5, SMT DEF LoadFails
<1>6. CASE EmbedFails(r) BY <1>6, SMT DEF EmbedFails
<1>7. CASE ReadParams(r) BY <1>7, SMT DEF ReadParams
<1>8. CASE StoreParams(r) BY <1>8, SMT DEF StoreParams
<1>9. CASE OpenTable(r) BY <1>9, SMT DEF OpenTable
<1>10. CASE FindCell(r) BY <1>10, SMT DEF FindCell
<1>11. CASE BeginBuild(r) BY <1>11, SMT DEF BeginBuild
<1>12. CASE Build(r) BY <1>12, SMT DEF Build
<1>13. CASE BuildFails(r) BY <1>13, SMT DEF BuildFails
<1>14. CASE UseGraph(r) BY <1>14, SMT DEF UseGraph
<1>15. CASE Fetch(r) BY <1>15, SMT DEF Fetch
<1>16. CASE OpenAgain(r) BY <1>16, SMT DEF OpenAgain
<1>17. CASE FindIndex(r) BY <1>17, SMT DEF FindIndex
<1>18. CASE StoreIndex(r) BY <1>18, SMT DEF StoreIndex
<1> QED BY <1>1, <1>2, <1>3, <1>4, <1>5, <1>6, <1>7, <1>8, <1>9, <1>10, <1>11, <1>12, <1>13, <1>14, <1>15, <1>16, <1>17, <1>18 DEF ReaderStep

\* The only step of a reader that touches what the parameters depend on.
LEMMA OthersQuiet ==
  ASSUME NEW r \in Readers, ReaderStep(r), ~StoreParams(r)
  PROVE  UNCHANGED <<params, loaded, row, late, run, remover, removals>>
<1> USE DEF caches, others, history, store
<1>1. CASE ReadRow(r) BY <1>1, SMT DEF ReadRow
<1>2. CASE FindEngine(r) BY <1>2, SMT DEF FindEngine
<1>3. CASE LockLoad(r) BY <1>3, SMT DEF LockLoad
<1>4. CASE LoadEngine(r) BY <1>4, SMT DEF LoadEngine
<1>5. CASE LoadFails(r) BY <1>5, SMT DEF LoadFails
<1>6. CASE EmbedFails(r) BY <1>6, SMT DEF EmbedFails
<1>7. CASE ReadParams(r) BY <1>7, SMT DEF ReadParams
<1>8. CASE OpenTable(r) BY <1>8, SMT DEF OpenTable
<1>9. CASE FindCell(r) BY <1>9, SMT DEF FindCell
<1>10. CASE BeginBuild(r) BY <1>10, SMT DEF BeginBuild
<1>11. CASE Build(r) BY <1>11, SMT DEF Build
<1>12. CASE BuildFails(r) BY <1>12, SMT DEF BuildFails
<1>13. CASE UseGraph(r) BY <1>13, SMT DEF UseGraph
<1>14. CASE Fetch(r) BY <1>14, SMT DEF Fetch
<1>15. CASE OpenAgain(r) BY <1>15, SMT DEF OpenAgain
<1>16. CASE FindIndex(r) BY <1>16, SMT DEF FindIndex
<1>17. CASE StoreIndex(r) BY <1>17, SMT DEF StoreIndex
<1> QED BY <1>1, <1>2, <1>3, <1>4, <1>5, <1>6, <1>7, <1>8, <1>9, <1>10, <1>11, <1>12, <1>13, <1>14, <1>15, <1>16, <1>17 DEF ReaderStep

LEMMA ParamStep ==
  ASSUME ServingAssumption, ParamInv, NEW r \in Readers, ReaderStep(r)
  PROVE  ParamInv'
<1>own. Shape' /\ \A q \in Readers \ {r} : reader'[q] = reader[q]
  BY OwnRecord DEF ParamInv
<1>obj. /\ reader[r].pc \notin {"idle", "done"}
        /\ reader'[r].pc \in {"idle", "done"} \/ reader'[r].obj = reader[r].obj
  BY OwnObject DEF ParamInv
<1>1. CASE ~StoreParams(r)
  <2>1. UNCHANGED <<params, loaded, row, late, run, remover, removals>>
    BY <1>1, OthersQuiet
  <2> QED BY <1>own, <1>obj, <2>1, SMT DEF ParamInv, ObjectsOK, FreshOK, FollowOK, Made
<1>2. CASE StoreParams(r)
  <2> DEFINE o == reader[r].obj
             mine == reader[r].row
  <2>1. /\ UNCHANGED <<loaded, row, run, remover, removals>>
        /\ params' = [params EXCEPT ![o] = [method |-> mine.method, run |-> mine.run]]
        /\ late' = IF row # None /\ mine.run # row.run THEN late \cup {o} ELSE late
    BY <1>2, SMT DEF StoreParams, others, store
  <2>2. o \in 1..Made /\ o \in Objects
    BY <1>obj, MadeInRange, SMT DEF ParamInv, ObjectsOK
  <2>3. ObjectsOK'
    BY <1>own, <1>obj, <2>1, SMT DEF ParamInv, ObjectsOK, Made
  <2>4. FreshOK'
    <3>1. Made' = Made /\ Made \in Int
      BY <2>1, MadeInRange, SMT DEF Made, ParamInv
    <3>2. ASSUME NEW p \in Objects, p > Made PROVE p # o
      BY <2>2, <3>1, <3>2, SMT DEF Objects
    <3>3. ASSUME NEW p \in Objects, p # o PROVE params'[p] = params[p]
      BY <2>1, <3>3, SMT
    <3> QED BY <3>1, <3>2, <3>3, SMT DEF ParamInv, FreshOK
  <2>5. FollowOK'
    <3>1. loaded = o => params'[loaded].run = mine.run
      BY <2>1, <2>2, SMT DEF ParamInv, ObjectsOK
    <3>2. loaded # o => params'[loaded] = params[loaded]
      BY <2>1, SMT
    <3> QED BY <2>1, <3>1, <3>2, SMT DEF ParamInv, FollowOK
  <2> QED BY <1>own, <2>3, <2>4, <2>5 DEF ParamInv
<1> QED BY <1>1, <1>2

LEMMA ParamNext ==
  ASSUME ServingAssumption, ParamInv, [Next]_vars
  PROVE  ParamInv'
<1> USE DEF ParamInv, ObjectsOK, FreshOK, FollowOK, Made, Shape
<1>range. /\ MaxRemovals \in Nat /\ None \notin Nat
          /\ Made \in 0..(MaxRemovals + 1) /\ 1..Made \subseteq Objects
          /\ loaded # None => loaded \in Objects /\ loaded = Made
  BY MadeInRange
<1>1. ASSUME NEW r \in Readers, ReaderStep(r) PROVE ParamInv'
  BY <1>1, ParamStep
<1>2. ASSUME NEW r \in Readers, NEW kind \in Kinds(r), Ask(r, kind) PROVE ParamInv'
  <2>1. Shape' /\ \A q \in Readers \ {r} : reader'[q] = reader[q]
    BY <1>2, OwnRecord
  <2>2. /\ loaded' = (IF loaded # None THEN loaded ELSE removals + 1)
        /\ UNCHANGED <<params, row, late, run, remover, removals>>
    BY <1>2, SMT DEF Ask, Loaded, others, history, store
  <2>3. reader'[r].obj = loaded'
    BY <1>2, SMT DEF Ask, Idle, At
  <2>4. /\ loaded' = removals + 1 /\ loaded' # None /\ Made' = loaded'
        /\ Made' \in Objects /\ Made \in Nat /\ Made <= Made' /\ removals \in Nat
        /\ loaded = None => Made' > Made
    BY <2>2, OpenMakes
  <2> HIDE DEF Made
  <2>5. ObjectsOK'
    BY <2>1, <2>2, <2>3, <2>4, SMT DEF Objects
  <2>6. FreshOK'
    BY <2>2, <2>4, SMT DEF Objects
  <2>7. FollowOK'
    BY <2>2, <2>4, SMT
  <2> QED BY <2>1, <2>5, <2>6, <2>7
<1>3. CASE RunBegins
  <2>1. /\ loaded' = (IF loaded # None THEN loaded ELSE removals + 1)
        /\ run' = [run EXCEPT !.pc = "open", !.obj = loaded']
        /\ run.pc = "idle"
        /\ UNCHANGED <<params, row, late, reader, remover, removals>>
    BY <1>3, SMT DEF RunBegins, Loaded, store, history
  <2>2. DOMAIN run' = {"pc", "obj"} /\ run'.pc = "open" /\ run'.obj = loaded'
    BY <2>1, SMT
  <2>3. /\ loaded' = removals + 1 /\ loaded' # None /\ Made' = loaded'
        /\ Made' \in Objects /\ Made \in Nat /\ Made <= Made' /\ removals \in Nat
        /\ loaded = None => Made' > Made
    BY <2>1, OpenMakes
  <2> HIDE DEF Made
  <2>4. ObjectsOK'
    BY <2>1, <2>2, <2>3, SMT DEF Objects
  <2>5. FreshOK'
    BY <2>1, <2>3, SMT DEF Objects
  <2>6. FollowOK'
    BY <2>1, <2>2, <2>3, SMT
  <2> QED BY <2>1, <2>4, <2>5, <2>6
<1>4. CASE RunOpens
  BY <1>4, SMT DEF RunOpens, caches
<1>5. CASE RunAppends
  BY <1>5, SMT DEF RunAppends, caches, history
<1>6. CASE RunPublishes
  BY <1>6, SMT DEF RunPublishes, caches
<1>7. CASE RunResets
  <2>1. /\ UNCHANGED <<loaded, row, reader, remover, removals>>
        /\ params' = [params EXCEPT ![run.obj] = None]
        /\ late' = late \ {run.obj}
        /\ run' = [run EXCEPT !.pc = "idle"] /\ run.pc = "reset"
    BY <1>7, SMT DEF RunResets, store
  <2>2. ObjectsOK'
    BY <2>1, SMT
  <2>3. \A p \in Objects : params'[p] = IF p = run.obj THEN None ELSE params[p]
    BY <2>1, SMT
  <2>4. FreshOK'
    BY <2>1, <2>3, SMT
  <2>5. FollowOK'
    BY <1>range, <2>1, <2>3, SMT
  <2> QED BY <2>1, <2>2, <2>4, <2>5
<1>8. CASE RunStops
  BY <1>8, SMT DEF RunStops, store, caches
<1>9. CASE Invalidate
  BY <1>9, SMT DEF Invalidate, store, history
<1>10. CASE Unload
  <2>1. /\ UNCHANGED <<params, row, late, reader, run>>
        /\ loaded' = None /\ removals' = removals + 1
        /\ remover = "registry" /\ remover' = "files"
    BY <1>10, SMT DEF Unload, store, history
  <2>2. Made' >= Made /\ Made' \in Int /\ Made \in Int
    BY <1>range, <2>1, SMT
  <2> QED BY <1>range, <2>1, <2>2, SMT DEF Objects
<1>11. CASE RemoveFiles
  BY <1>11, SMT DEF RemoveFiles, caches
<1>12. CASE UNCHANGED vars
  BY <1>12, SMT DEF vars, store, caches, others, history
<1> QED
  BY <1>1, <1>2, <1>3, <1>4, <1>5, <1>6, <1>7, <1>8, <1>9, <1>10, <1>11, <1>12
  DEF Next, RunStep, RemoverStep

\* However searches, runs and removals overlap, the parameters a search is given are those
\* of the project row, but for the three ways that ParamsFollowRow names.
THEOREM ParamsCurrent == ASSUME ServingAssumption PROVE Spec => []ParamsFollowRow
<1>1. ParamInv => ParamsFollowRow
  BY DEF ParamInv, FollowOK, ParamsFollowRow
<1> QED BY <1>1, ParamInit, ParamNext, PTL DEF Spec

-----------------------------------------------------------------------------
(* One graph for a project. *)

\* Cells that hold something, are the project's, or that a reader refers to.
InUse == {c \in Cells : \/ cells[c].builder # None
                        \/ cells[c].graph # None
                        \/ c = cell
                        \/ \E r \in Readers : reader[r].cell = c}

CellsOK ==
    /\ DOMAIN cells = Cells
    /\ \A c \in Cells : cells[c] = [builder |-> cells[c].builder, graph |-> cells[c].graph]
    /\ cell \in Cells \cup {None}
    /\ removals \in 0..MaxRemovals
    /\ remover = "registry" => removals < MaxRemovals
    /\ \A r \in Readers : reader[r].pc \in {"graph", "build"} => reader[r].cell \in Cells

\* A removal that forgets the cell pays for the next one.
Allowed == Forgotten + IF cell = None THEN 0 ELSE 1
CountOK == Cardinality(InUse) <= Allowed

GraphInv == Shape /\ CellsOK /\ CountOK

\* There are finitely many cells, more than can be in use.
LEMMA CellsFinite ==
  ASSUME ServingAssumption
  PROVE  /\ None \notin Cells /\ IsFiniteSet(Cells)
         /\ Cardinality(Cells) = 2 * (MaxRemovals + 1) /\ MaxRemovals \in Nat
<1>1. MaxRemovals \in Nat /\ None \notin Nat
  BY DEF ServingAssumption
<1>2. 2 * (MaxRemovals + 1) \in Nat
  BY <1>1
<1>3. /\ IsFiniteSet(1..(2 * (MaxRemovals + 1)))
      /\ Cardinality(1..(2 * (MaxRemovals + 1))) = 2 * (MaxRemovals + 1)
  BY <1>2, FS_Interval
<1> QED BY <1>1, <1>3 DEF Cells

LEMMA InUseFinite ==
  ASSUME ServingAssumption
  PROVE  IsFiniteSet(InUse) /\ Cardinality(InUse) \in Nat
<1>1. InUse \in SUBSET Cells
  BY DEF InUse
<1> QED BY <1>1, CellsFinite, FS_Subset, FS_CardinalityType

LEMMA GraphInit == ServingAssumption /\ Init => GraphInv
<1> SUFFICES ASSUME ServingAssumption, Init PROVE GraphInv
  OBVIOUS
<1>1. None \notin Cells /\ MaxRemovals \in Nat
  BY CellsFinite
<1>2. Shape
  BY SMT DEF Init, Shape, Fields, Idle
<1>3. CellsOK
  BY <1>1, SMT DEF Init, CellsOK, Idle
<1>4. InUse = {}
  BY <1>1, SMT DEF Init, InUse, Idle
<1>5. Cardinality(InUse) = 0
  BY <1>4, FS_EmptySet
<1>6. CountOK
  BY <1>5, SMT DEF CountOK, Allowed, Forgotten, Init
<1> QED BY <1>2, <1>3, <1>6 DEF GraphInv

\* No more cells in use, and no fewer to account for: the count stays.
LEMMA CountKept ==
  ASSUME ServingAssumption, CountOK, InUse' \subseteq InUse,
         Allowed \in Nat, Allowed' \in Nat, Allowed' >= Allowed
  PROVE  CountOK'
<1>1. IsFiniteSet(InUse) /\ Cardinality(InUse) \in Nat
  BY InUseFinite
<1>2. IsFiniteSet(InUse') /\ Cardinality(InUse') <= Cardinality(InUse)
  BY <1>1, FS_Subset
<1>3. Cardinality(InUse') \in Nat
  BY <1>2, FS_CardinalityType
<1> QED BY <1>1, <1>2, <1>3, SMT DEF CountOK

\* Without a cell for the project, one is free.
LEMMA FreeCell ==
  ASSUME ServingAssumption, CellsOK, CountOK, cell = None, Forgotten \in Nat
  PROVE  \E c \in Cells : /\ cells[c] = [builder |-> None, graph |-> None]
                          /\ \A q \in Readers : reader[q].cell # c
<1>1. Cardinality(InUse) <= Forgotten
  BY DEF CountOK, Allowed
<1>2. Forgotten <= MaxRemovals /\ MaxRemovals \in Nat
  BY CellsFinite, SMT DEF Forgotten, CellsOK
<1>3. InUse # Cells
  BY <1>1, <1>2, CellsFinite
<1>4. PICK c \in Cells : c \notin InUse
  BY <1>3 DEF InUse
<1>5. /\ cells[c].builder = None /\ cells[c].graph = None
      /\ \A q \in Readers : reader[q].cell # c
  BY <1>4 DEF InUse
<1>6. cells[c] = [builder |-> cells[c].builder, graph |-> cells[c].graph]
  BY DEF CellsOK
<1>7. cells[c] = [builder |-> None, graph |-> None]
  BY <1>5, <1>6
<1> QED BY <1>5, <1>7

\* The steps of a reader that have to do with cells; all others leave them
\* alone, and keep or drop the reader's own reference.
CellStep(r) == FindCell(r) \/ BeginBuild(r) \/ Build(r) \/ BuildFails(r)

LEMMA CellsQuiet ==
  ASSUME Shape, NEW r \in Readers, ReaderStep(r), ~CellStep(r)
  PROVE  /\ UNCHANGED <<cell, cells, remover, removals>>
         /\ reader'[r].cell \in {reader[r].cell, None}
         /\ reader'[r].pc \notin {"graph", "build"}
<1> USE DEF caches, others, Shape, Fields, At, Go, Idle
<1>1. CASE ReadRow(r) BY <1>1, SMT DEF ReadRow
<1>2. CASE FindEngine(r) BY <1>2, SMT DEF FindEngine, AfterEngine
<1>3. CASE LockLoad(r) BY <1>3, SMT DEF LockLoad, AfterEngine
<1>4. CASE LoadEngine(r) BY <1>4, SMT DEF LoadEngine, AfterEngine
<1>5. CASE LoadFails(r) BY <1>5, SMT DEF LoadFails
<1>6. CASE EmbedFails(r) BY <1>6, SMT DEF EmbedFails
<1>7. CASE ReadParams(r) BY <1>7, SMT DEF ReadParams
<1>8. CASE StoreParams(r) BY <1>8, SMT DEF StoreParams
<1>9. CASE OpenTable(r)
  <2>1. AfterTable(r) \in {"done", "cell", "scan"}
    BY Zenon DEF AfterTable
  <2> QED BY <1>9, <2>1, SMT DEF OpenTable
<1>10. CASE UseGraph(r) BY <1>10, SMT DEF UseGraph
<1>11. CASE Fetch(r) BY <1>11, SMT DEF Fetch
<1>12. CASE OpenAgain(r) BY <1>12, SMT DEF OpenAgain
<1>13. CASE FindIndex(r) BY <1>13, SMT DEF FindIndex
<1>14. CASE StoreIndex(r) BY <1>14, SMT DEF StoreIndex
<1> QED BY <1>1, <1>2, <1>3, <1>4, <1>5, <1>6, <1>7, <1>8, <1>9, <1>10, <1>11, <1>12, <1>13, <1>14 DEF ReaderStep, CellStep

LEMMA GraphStep ==
  ASSUME ServingAssumption, GraphInv, NEW r \in Readers, ReaderStep(r)
  PROVE  GraphInv'
<1>own. Shape' /\ \A q \in Readers \ {r} : reader'[q] = reader[q]
  BY OwnRecord DEF GraphInv
<1>num. /\ Forgotten \in Nat /\ Allowed \in Nat /\ None \notin Cells
        /\ Shape /\ CellsOK /\ CountOK
  BY CellsFinite, SMT DEF GraphInv, CellsOK, Forgotten, Allowed
<1>keep. ASSUME UNCHANGED <<cell, remover, removals>>, CellsOK', InUse' \subseteq InUse
         PROVE  GraphInv'
  <2>1. Allowed' = Allowed
    BY <1>keep DEF Allowed, Forgotten
  <2>2. CountOK'
    BY <1>keep, <1>num, <2>1, CountKept, SMT
  <2> QED BY <1>own, <1>keep, <2>2 DEF GraphInv
<1>1. CASE ~CellStep(r)
  <2>1. /\ UNCHANGED <<cell, cells, remover, removals>>
        /\ reader'[r].cell \in {reader[r].cell, None}
        /\ reader'[r].pc \notin {"graph", "build"}
    BY <1>1, <1>num, CellsQuiet
  <2>2. CellsOK'
    BY <1>own, <1>num, <2>1, SMT DEF CellsOK
  <2>3. InUse' \subseteq InUse
    BY <1>own, <1>num, <2>1, SMT DEF InUse
  <2> QED BY <1>keep, <2>1, <2>2, <2>3
<1>2. CASE FindCell(r)
  <2>1. cells' = cells /\ remover' = remover /\ removals' = removals
    BY <1>2 DEF FindCell, others
  <2>2. reader'[r].cell = cell' /\ reader'[r].pc = "graph"
    <3>1. reader' = [reader EXCEPT ![r].pc = "graph", ![r].cell = cell']
      BY <1>2 DEF FindCell
    <3> QED BY <1>num, <3>1, SMT DEF Shape, Fields
  <2>3. \A q \in Readers \ {r} : reader'[q] = reader[q]
    BY <1>own
  <2>4. ASSUME cell' \in Cells PROVE CellsOK'
    BY <1>num, <2>1, <2>2, <2>3, <2>4, SMT DEF CellsOK
  <2>5. CASE cell # None
    <3>1. cell' = cell /\ cell \in Cells
      BY <1>2, <1>num, <2>5 DEF FindCell, CellsOK
    <3>2. CellsOK'
      BY <2>4, <3>1
    <3>3. InUse' \subseteq InUse
      BY <2>1, <2>2, <2>3, <3>1, SMT DEF InUse
    <3> QED BY <1>keep, <2>1, <3>1, <3>2, <3>3
  <2>6. CASE cell = None
    <3>1. \E c \in Cells : /\ cells[c] = [builder |-> None, graph |-> None]
                           /\ \A q \in Readers : reader[q].cell # c
      BY <1>num, <2>6, FreeCell DEF CellsOK
    <3>2. cell' = CHOOSE c \in Cells : /\ cells[c] = [builder |-> None, graph |-> None]
                                      /\ \A q \in Readers : reader[q].cell # c
      BY <1>2, <2>6 DEF FindCell
    <3>3. cell' \in Cells
      BY <3>1, <3>2
    <3>4. CellsOK'
      BY <2>4, <3>3
    <3>5. InUse' \subseteq InUse \cup {cell'}
      BY <2>1, <2>2, <2>3, <2>6, SMT DEF InUse
    <3>6. CountOK'
      <4>1. /\ IsFiniteSet(InUse \cup {cell'})
            /\ Cardinality(InUse \cup {cell'}) \in {Cardinality(InUse), Cardinality(InUse) + 1}
        BY InUseFinite, FS_AddElement
      <4>2. IsFiniteSet(InUse') /\ Cardinality(InUse') <= Cardinality(InUse \cup {cell'})
        BY <3>5, <4>1, FS_Subset
      <4>3. Cardinality(InUse) \in Nat /\ Cardinality(InUse') \in Nat
        BY <4>2, InUseFinite, FS_CardinalityType
      <4>4. Allowed = Forgotten /\ Allowed' = Forgotten + 1
        BY <1>num, <2>1, <2>6, <3>3 DEF Allowed, Forgotten
      <4>5. Cardinality(InUse) <= Forgotten
        BY <1>num, <4>4 DEF CountOK
      <4>6. Cardinality(InUse') <= Cardinality(InUse) + 1
        BY <4>1, <4>2, <4>3, SMT
      <4>7. Cardinality(InUse') <= Allowed'
        BY <1>num, <4>3, <4>4, <4>5, <4>6, SMT
      <4> QED BY <4>7 DEF CountOK
    <3> QED BY <1>own, <3>4, <3>6 DEF GraphInv
  <2> QED BY <2>5, <2>6
<1>3. ASSUME UNCHANGED <<cell, remover, removals>>, reader[r].cell \in Cells,
             NEW new, cells' = [cells EXCEPT ![reader[r].cell] = new],
             new = [builder |-> new.builder, graph |-> new.graph],
             reader'[r].cell \in {reader[r].cell, None},
             reader'[r].pc \in {"graph", "build"} => reader'[r].cell \in Cells
      PROVE  GraphInv'
  <2>1. \A c \in Cells : cells'[c] = IF c = reader[r].cell THEN new ELSE cells[c]
    BY <1>3, <1>num, SMT DEF CellsOK
  <2>2. CellsOK'
    BY <1>own, <1>num, <1>3, <2>1, SMT DEF CellsOK
  <2>3. InUse' \subseteq InUse
    BY <1>own, <1>num, <1>3, <2>1, SMT DEF InUse
  <2> QED BY <1>keep, <1>3, <2>2, <2>3
<1>4. CASE BeginBuild(r)
  <2>1. /\ reader[r].pc = "graph" /\ UNCHANGED <<cell, remover, removals>>
        /\ cells' = [cells EXCEPT ![reader[r].cell] = [@ EXCEPT !.builder = r]]
    BY <1>4, SMT DEF BeginBuild, others, At
  <2> DEFINE x == reader[r].cell
  <2>2. x \in Cells
    BY <1>num, <2>1 DEF CellsOK
  <2>3. cells' = [cells EXCEPT ![x] = [builder |-> r, graph |-> cells[x].graph]]
    <3>1. cells[x] = [builder |-> cells[x].builder, graph |-> cells[x].graph]
      BY <1>num, <2>2 DEF CellsOK
    <3>2. [cells[x] EXCEPT !.builder = r] = [builder |-> r, graph |-> cells[x].graph]
      BY <3>1, SMT
    <3>3. cells' = [cells EXCEPT ![x] = [cells[x] EXCEPT !.builder = r]]
      BY <2>1, Zenon
    <3> QED BY <3>2, <3>3
  <2>4. reader'[r].cell = x /\ reader'[r].pc = "build"
    BY <1>4, <1>num, SMT DEF BeginBuild, Go, At, Shape, Fields
  <2> QED BY <1>3, <2>1, <2>2, <2>3, <2>4
<1>5. CASE Build(r)
  <2>1. /\ reader[r].pc = "build" /\ UNCHANGED <<cell, remover, removals>>
        /\ cells' = [cells EXCEPT ![reader[r].cell] = [builder |-> None, graph |-> table.dim]]
    BY <1>5, SMT DEF Build, others, At
  <2>2. reader[r].cell \in Cells
    BY <1>num, <2>1 DEF CellsOK
  <2>3. reader'[r].cell = reader[r].cell
    BY <1>5, <1>num, SMT DEF Build, Go, At, Shape, Fields
  <2> QED BY <1>3, <2>1, <2>2, <2>3
<1>6. CASE BuildFails(r)
  <2>1. /\ reader[r].pc = "build" /\ UNCHANGED <<cell, remover, removals>>
        /\ cells' = [cells EXCEPT ![reader[r].cell] = [@ EXCEPT !.builder = None]]
    BY <1>6, SMT DEF BuildFails, others, At
  <2> DEFINE x == reader[r].cell
  <2>2. x \in Cells
    BY <1>num, <2>1 DEF CellsOK
  <2>3. cells' = [cells EXCEPT ![x] = [builder |-> None, graph |-> cells[x].graph]]
    <3>1. cells[x] = [builder |-> cells[x].builder, graph |-> cells[x].graph]
      BY <1>num, <2>2 DEF CellsOK
    <3>2. [cells[x] EXCEPT !.builder = None] = [builder |-> None, graph |-> cells[x].graph]
      BY <3>1, SMT
    <3>3. cells' = [cells EXCEPT ![x] = [cells[x] EXCEPT !.builder = None]]
      BY <2>1, Zenon
    <3> QED BY <3>2, <3>3
  <2>4. reader'[r].cell = None /\ reader'[r].pc = "done"
    BY <1>6, <1>num, SMT DEF BuildFails, Go, Idle, At, Shape, Fields
  <2> QED BY <1>3, <2>1, <2>2, <2>3, <2>4
<1> QED BY <1>1, <1>2, <1>4, <1>5, <1>6 DEF CellStep

LEMMA GraphNext ==
  ASSUME ServingAssumption, GraphInv, [Next]_vars
  PROVE  GraphInv'
<1>num. /\ Forgotten \in Nat /\ removals \in Nat /\ MaxRemovals \in Nat
        /\ None \notin Cells /\ Shape /\ CellsOK /\ CountOK /\ Allowed \in Nat
  BY CellsFinite, SMT DEF GraphInv, CellsOK, Forgotten, Allowed
<1>1. ASSUME NEW r \in Readers, ReaderStep(r) PROVE GraphInv'
  BY <1>1, GraphStep
<1>2. ASSUME NEW r \in Readers, NEW kind \in Kinds(r), Ask(r, kind) PROVE GraphInv'
  <2>1. Shape' /\ \A q \in Readers \ {r} : reader'[q] = reader[q]
    BY <1>2, <1>num, OwnRecord
  <2>2. /\ UNCHANGED <<cell, cells, remover, removals>>
        /\ reader'[r].cell = None /\ reader'[r].pc \notin {"graph", "build"}
    BY <1>2, <1>num, SMT DEF Ask, Idle, At, Shape, Fields, others
  <2>3. CellsOK'
    BY <1>num, <2>1, <2>2, SMT DEF CellsOK
  <2>4. InUse' \subseteq InUse
    BY <1>num, <2>1, <2>2, SMT DEF InUse
  <2>5. CountOK'
    <3>1. Allowed' = Allowed
      BY <2>2 DEF Allowed, Forgotten
    <3> QED BY <1>num, <2>4, <3>1, CountKept, SMT
  <2> QED BY <2>1, <2>3, <2>5 DEF GraphInv
<1>3. ASSUME UNCHANGED <<cell, cells, reader, remover, removals>> PROVE GraphInv'
  BY <1>3, <1>num DEF GraphInv, Shape, CellsOK, CountOK, InUse, Allowed, Forgotten
<1>4. CASE RunStep
  BY <1>3, <1>4, SMT DEF RunStep, RunBegins, RunOpens, RunAppends, RunPublishes, RunResets,
       RunStops, caches
<1>5. ASSUME UNCHANGED <<cells, reader>>, cell' \in {cell, None}, CellsOK',
             Allowed' \in Nat, Allowed' >= Allowed
      PROVE  GraphInv'
  <2>1. InUse' \subseteq InUse
    BY <1>5, <1>num, SMT DEF InUse
  <2>2. CountOK'
    BY <1>5, <1>num, <2>1, CountKept
  <2>3. Shape'
    BY <1>5, <1>num DEF Shape
  <2> QED BY <1>5, <2>2, <2>3 DEF GraphInv
<1>6. CASE Invalidate
  <2>1. /\ UNCHANGED <<cells, reader, removals>> /\ cell' = None
        /\ remover = "idle" /\ remover' = "registry" /\ removals < MaxRemovals
    BY <1>6, SMT DEF Invalidate
  <2>2. CellsOK'
    BY <1>num, <2>1 DEF CellsOK
  <2>3. Allowed \in {removals, removals + 1} /\ Allowed' = removals + 1
    BY <1>num, <2>1, SMT DEF Allowed, Forgotten
  <2> QED BY <1>5, <1>num, <2>1, <2>2, <2>3, SMT
<1>7. CASE Unload
  <2>1. /\ UNCHANGED <<cells, reader, cell>> /\ removals' = removals + 1
        /\ remover = "registry" /\ remover' = "files"
    BY <1>7, SMT DEF Unload
  <2>2. CellsOK'
    BY <1>num, <2>1, SMT DEF CellsOK
  <2>3. Allowed' = Allowed
    BY <1>num, <2>1, SMT DEF Allowed, Forgotten
  <2> QED BY <1>5, <1>num, <2>1, <2>2, <2>3, SMT
<1>8. CASE RemoveFiles
  <2>1. /\ UNCHANGED <<cells, reader, cell, removals>>
        /\ remover = "files" /\ remover' = "idle"
    BY <1>8, SMT DEF RemoveFiles, caches
  <2>2. CellsOK'
    BY <1>num, <2>1, SMT DEF CellsOK
  <2>3. Allowed' = Allowed
    BY <1>num, <2>1, SMT DEF Allowed, Forgotten
  <2> QED BY <1>5, <1>num, <2>1, <2>2, <2>3, SMT
<1>9. CASE UNCHANGED vars
  BY <1>3, <1>9 DEF vars, caches, others
<1> QED BY <1>1, <1>2, <1>4, <1>6, <1>7, <1>8, <1>9 DEF Next, RemoverStep

\* However many searches ask at once, builds fail and runs overlap, there is one
\* graph of a project, and one more for each removal that forgot a cell
\* (cache.rs:26-41): searches that come together wait on one cell, and it is
\* forgotten by a removal only.
THEOREM GraphOnce == ASSUME ServingAssumption PROVE Spec => []OneGraph
<1>1. GraphInv => OneGraph
  <2>1. SUFFICES ASSUME GraphInv PROVE OneGraph
    OBVIOUS
  <2> DEFINE graphs == {c \in Cells : cells[c].graph # None}
  <2>2. graphs \subseteq InUse
    BY DEF InUse
  <2>3. IsFiniteSet(InUse) /\ Cardinality(InUse) \in Nat
    BY InUseFinite
  <2>4. IsFiniteSet(graphs) /\ Cardinality(graphs) <= Cardinality(InUse)
    BY <2>2, <2>3, FS_Subset
  <2>5. Cardinality(graphs) \in Nat
    BY <2>4, FS_CardinalityType
  <2>6. Forgotten \in Nat
    BY <2>1, CellsFinite, SMT DEF GraphInv, CellsOK, Forgotten
  <2>7. Cardinality(InUse) <= Allowed /\ Allowed \in {Forgotten, Forgotten + 1}
    BY <2>1, <2>6, SMT DEF GraphInv, CountOK, Allowed
  <2> HIDE DEF graphs
  <2>8. Cardinality(graphs) <= Forgotten + 1
    BY <2>3, <2>4, <2>5, <2>6, <2>7, SMT
  <2> QED BY <2>8 DEF OneGraph, graphs
<1> QED BY <1>1, GraphInit, GraphNext, PTL DEF Spec

-----------------------------------------------------------------------------
(* Readers keep the rows. *)

\* Whoever has read the row goes on with its model, but for doctor's fallback.
ModelOK ==
    \A r \in Readers :
        reader[r].kind # "doctor" /\ reader[r].row # None
        => reader[r].model = reader[r].row.model

RowsInv == Shape /\ ModelOK

\* A reader's model is set when it reads the row, and kept until it is done.
LEMMA OwnModel ==
  ASSUME Shape, NEW r \in Readers, ReaderStep(r), ~ReadRow(r)
  PROVE  \/ reader'[r].row = None
         \/ /\ reader'[r].kind = reader[r].kind /\ reader'[r].row = reader[r].row
            /\ reader'[r].model = reader[r].model \/ reader[r].kind = "doctor"
<1> USE DEF Shape, Fields, At, Kind, Go, Idle
<1>1. CASE FindEngine(r) BY <1>1, SMT DEF FindEngine
<1>2. CASE LockLoad(r) BY <1>2, SMT DEF LockLoad
<1>3. CASE LoadEngine(r) BY <1>3, SMT DEF LoadEngine
<1>4. CASE LoadFails(r) BY <1>4, SMT DEF LoadFails
<1>5. CASE EmbedFails(r) BY <1>5, SMT DEF EmbedFails
<1>6. CASE ReadParams(r) BY <1>6, SMT DEF ReadParams
<1>7. CASE StoreParams(r) BY <1>7, SMT DEF StoreParams
<1>8. CASE OpenTable(r) BY <1>8, SMT DEF OpenTable
<1>9. CASE FindCell(r) BY <1>9, SMT DEF FindCell
<1>10. CASE BeginBuild(r) BY <1>10, SMT DEF BeginBuild
<1>11. CASE Build(r) BY <1>11, SMT DEF Build
<1>12. CASE BuildFails(r) BY <1>12, SMT DEF BuildFails
<1>13. CASE UseGraph(r) BY <1>13, SMT DEF UseGraph
<1>14. CASE Fetch(r) BY <1>14, SMT DEF Fetch
<1>15. CASE OpenAgain(r) BY <1>15, SMT DEF OpenAgain
<1>16. CASE FindIndex(r) BY <1>16, SMT DEF FindIndex
<1>17. CASE StoreIndex(r) BY <1>17, SMT DEF StoreIndex
<1> QED BY <1>1, <1>2, <1>3, <1>4, <1>5, <1>6, <1>7, <1>8, <1>9, <1>10, <1>11, <1>12, <1>13, <1>14, <1>15, <1>16, <1>17 DEF ReaderStep

LEMMA RowsNext ==
  ASSUME RowsInv, [Next]_vars
  PROVE  RowsInv'
<1>1. ASSUME NEW r \in Readers, ReaderStep(r) PROVE RowsInv'
  <2>1. Shape' /\ \A q \in Readers \ {r} : reader'[q] = reader[q]
    BY <1>1, OwnRecord DEF RowsInv
  <2>2. CASE ReadRow(r)
    <3>1. \/ reader'[r].row = None
          \/ reader'[r].row = row /\ reader'[r].model = IF row = None THEN Primary ELSE row.model
      BY <2>2, SMT DEF ReadRow, Go, Idle, At, Kind, RowsInv, Shape, Fields
    <3> QED BY <2>1, <3>1, SMT DEF RowsInv, ModelOK
  <2>3. CASE ~ReadRow(r)
    <3>1. \/ reader'[r].row = None
          \/ /\ reader'[r].kind = reader[r].kind /\ reader'[r].row = reader[r].row
             /\ reader'[r].model = reader[r].model \/ reader[r].kind = "doctor"
      BY <1>1, <2>3, OwnModel DEF RowsInv
    <3> QED BY <2>1, <3>1, SMT DEF RowsInv, ModelOK
  <2> QED BY <2>2, <2>3
<1>2. ASSUME NEW r \in Readers, NEW kind \in Kinds(r), Ask(r, kind) PROVE RowsInv'
  <2>1. Shape' /\ \A q \in Readers \ {r} : reader'[q] = reader[q]
    BY <1>2, OwnRecord DEF RowsInv
  <2>2. reader'[r].row = None
    BY <1>2, SMT DEF Ask, Idle, At, RowsInv, Shape, Fields
  <2> QED BY <2>1, <2>2, SMT DEF RowsInv, ModelOK
<1>3. ASSUME UNCHANGED reader PROVE RowsInv'
  BY <1>3 DEF RowsInv, Shape, ModelOK
<1>4. CASE RunStep \/ RemoverStep \/ UNCHANGED vars
  BY <1>3, <1>4, SMT DEF RunStep, RemoverStep, RunBegins, RunOpens, RunAppends, RunPublishes,
       RunResets, RunStops, Invalidate, Unload, RemoveFiles, vars
<1> QED BY <1>1, <1>2, <1>3, <1>4 DEF Next

\* A reader changes the table by opening it only.
LEMMA TableQuiet ==
  ASSUME NEW r \in Readers, ReaderStep(r), ~OpenTable(r), ~OpenAgain(r)
  PROVE  table' = table
<1> USE DEF store
<1>1. CASE ReadRow(r) BY <1>1 DEF ReadRow
<1>2. CASE FindEngine(r) BY <1>2 DEF FindEngine
<1>3. CASE LockLoad(r) BY <1>3 DEF LockLoad
<1>4. CASE LoadEngine(r) BY <1>4 DEF LoadEngine
<1>5. CASE LoadFails(r) BY <1>5 DEF LoadFails
<1>6. CASE EmbedFails(r) BY <1>6 DEF EmbedFails
<1>7. CASE ReadParams(r) BY <1>7 DEF ReadParams
<1>8. CASE StoreParams(r) BY <1>8 DEF StoreParams
<1>9. CASE FindCell(r) BY <1>9 DEF FindCell
<1>10. CASE BeginBuild(r) BY <1>10 DEF BeginBuild
<1>11. CASE Build(r) BY <1>11 DEF Build
<1>12. CASE BuildFails(r) BY <1>12 DEF BuildFails
<1>13. CASE UseGraph(r) BY <1>13 DEF UseGraph
<1>14. CASE Fetch(r) BY <1>14 DEF Fetch
<1>15. CASE FindIndex(r) BY <1>15 DEF FindIndex
<1>16. CASE StoreIndex(r) BY <1>16 DEF StoreIndex
<1> QED BY <1>1, <1>2, <1>3, <1>4, <1>5, <1>6, <1>7, <1>8, <1>9, <1>10, <1>11, <1>12, <1>13, <1>14, <1>15, <1>16 DEF ReaderStep

\* A request that reads drops no rows of the model the project row names, unless
\* what it read of the row is outdated or doctor has fallen back on the primary
\* model (chunks_table.rs:90-99), whatever runs, removals and readers there are.
THEOREM ReadersKeep == Spec => ReadersKeepRows
<1>1. Init => RowsInv
  BY SMT DEF Init, RowsInv, Shape, Fields, ModelOK, Idle
<1>2. RowsInv /\ [Next]_vars => RowsInv'
  BY RowsNext
<1>3. RowsInv /\ [Next]_vars => [KeepsRows]_vars
  <2>1. SUFFICES ASSUME RowsInv, Next, NEW r \in Readers, reader[r] # reader'[r],
                        RowsOfTheRow, table' # table, reader[r].row = row,
                        reader[r].kind # "doctor"
                 PROVE  FALSE
    BY DEF KeepsRows, Kind
  <2>2. ASSUME NEW q \in Readers, ReaderStep(q) \/ \E kind \in Kinds(q) : Ask(q, kind)
        PROVE  q = r
    BY <2>1, <2>2, OwnRecord DEF RowsInv
  <2>3. ~RunStep /\ ~RemoverStep
    BY <2>1, SMT DEF RunStep, RemoverStep, RunBegins, RunOpens, RunAppends, RunPublishes,
       RunResets, RunStops, Invalidate, Unload, RemoveFiles
  <2>4. \A kind \in Kinds(r) : ~Ask(r, kind)
    BY <2>1 DEF Ask, store
  <2>5. ReaderStep(r)
    BY <2>1, <2>2, <2>3, <2>4 DEF Next
  <2>6. table' = Opened(Dim(reader[r].model))
    BY <2>1, <2>5, TableQuiet DEF OpenTable, OpenAgain
  <2>7. reader[r].model = row.model
    BY <2>1 DEF RowsInv, ModelOK, RowsOfTheRow
  <2> QED BY <2>1, <2>6, <2>7 DEF Opened, RowsOfTheRow
<1> QED BY <1>1, <1>2, <1>3, PTL DEF Spec, ReadersKeepRows

-----------------------------------------------------------------------------
(* Whoever waits, waits for a reader that is at work. *)

\* The lock is with the reader that loads, and a cell's builder is building that cell.
LockOK ==
    /\ loader \in Readers \cup {None}
    /\ \A r \in Readers : reader[r].pc = "load" <=> loader = r

BuilderOK ==
    /\ \A c \in Cells : cells[c].builder # None =>
         /\ cells[c].builder \in Readers
         /\ reader[cells[c].builder].pc = "build" /\ reader[cells[c].builder].cell = c
    /\ \A r \in Readers : reader[r].pc = "build" => cells[reader[r].cell].builder = r

\* An engine is loaded for a model there is.
EnginesOK ==
    /\ engines \subseteq Models /\ Primary \in engines
    /\ row # None => row.model \in Models
    /\ \A r \in Readers : reader[r].pc \in {"engine", "lock", "load"} => reader[r].model \in Models

TurnsOK == LockOK /\ BuilderOK /\ EnginesOK

LEMMA TurnsBegin == ServingAssumption /\ Init => TurnsOK
<1> SUFFICES ASSUME ServingAssumption, Init PROVE TurnsOK
  OBVIOUS
<1>1. /\ \A r \in Readers : reader[r].pc = "idle"
      /\ \A c \in Cells : cells[c].builder = None
      /\ loader = None /\ None \notin Readers
  BY SMT DEF Init, Idle, ServingAssumption
<1>2. engines = {Primary} /\ Primary \in Models /\ row.model \in Models
  BY SMT DEF Init, ServingAssumption
<1> QED BY <1>1, <1>2 DEF TurnsOK, LockOK, BuilderOK, EnginesOK

\* A reader's step changes only its own record, and holds on to what it works on.
LEMMA TurnsStep ==
  ASSUME ServingAssumption, Shape, CellsOK, TurnsOK, NEW r \in Readers, ReaderStep(r)
  PROVE  TurnsOK'
<1>own. Shape' /\ \A q \in Readers \ {r} : reader'[q] = reader[q]
  BY OwnRecord
<1>none. None \notin Readers
  BY DEF ServingAssumption
<1>lock. ASSUME UNCHANGED loader, reader[r].pc # "load", reader'[r].pc # "load"
         PROVE  LockOK'
  BY <1>own, <1>lock, SMT DEF TurnsOK, LockOK
<1>build. ASSUME UNCHANGED cells, reader[r].pc # "build", reader'[r].pc # "build"
          PROVE  BuilderOK'
  <2>1. ASSUME NEW c \in Cells, cells[c].builder # None
        PROVE  cells[c].builder \in Readers \ {r}
    BY <1>build, <2>1 DEF TurnsOK, BuilderOK
  <2> QED BY <1>own, <1>build, <2>1 DEF TurnsOK, BuilderOK
<1>engine. ASSUME UNCHANGED <<row, engines>>,
                  reader'[r].pc \in {"engine", "lock", "load"} => reader'[r].model \in Models
           PROVE  EnginesOK'
  BY <1>own, <1>engine, SMT DEF TurnsOK, EnginesOK
<1>quiet. ASSUME UNCHANGED <<row, engines, loader, cells>>,
                 reader[r].pc \notin {"load", "build"},
                 reader'[r].pc \notin {"lock", "load", "build"},
                 reader'[r].pc = "engine" => reader'[r].model \in Models
          PROVE  TurnsOK'
  <2>1. LockOK' /\ BuilderOK'
    BY <1>quiet, <1>lock, <1>build
  <2>2. EnginesOK'
    BY <1>quiet, <1>engine
  <2> QED BY <2>1, <2>2 DEF TurnsOK
<1> USE DEF Shape, Fields, At, Go, Idle
<1>1. CASE ReadRow(r)
  <2>1. reader'[r].pc \in {"done", "engine"} /\ reader[r].pc = "row"
    BY <1>1, SMT DEF ReadRow
  <2>2. reader'[r].pc = "engine" => reader'[r].model \in {Primary, row.model}
    BY <1>1, SMT DEF ReadRow
  <2>3. reader'[r].pc = "engine" => reader'[r].model \in Models
    <3>1. ASSUME reader'[r].pc = "engine", row = None PROVE reader'[r].model = Primary
      BY <1>1, <3>1, SMT DEF ReadRow
    <3>2. Primary \in Models /\ (row # None => row.model \in Models)
      BY DEF ServingAssumption, TurnsOK, EnginesOK
    <3> QED BY <2>2, <3>1, <3>2
  <2>4. UNCHANGED <<row, engines, loader, cells>>
    BY <1>1 DEF ReadRow, store, caches
  <2> QED BY <1>quiet, <2>1, <2>3, <2>4
<1>2. CASE FindEngine(r)
  <2>1. /\ reader[r].pc = "engine" /\ reader'[r].model = reader[r].model
        /\ reader'[r].pc \in {"lock", "params", "table"}
    BY <1>2, SMT DEF FindEngine, AfterEngine
  <2>2. UNCHANGED <<row, engines, loader, cells>>
    BY <1>2 DEF FindEngine, store, caches
  <2>3. reader'[r].model \in Models
    BY <2>1 DEF TurnsOK, EnginesOK
  <2> QED BY <1>lock, <1>build, <1>engine, <2>1, <2>2, <2>3 DEF TurnsOK
<1>3. CASE LockLoad(r)
  <2>1. /\ reader[r].pc = "lock" /\ loader = None /\ UNCHANGED <<row, engines, cells>>
        /\ reader'[r].model = reader[r].model
    BY <1>3, SMT DEF LockLoad, store, AfterEngine
  <2>2. \/ UNCHANGED loader /\ reader'[r].pc \in {"params", "table"}
        \/ loader' = r /\ reader'[r].pc = "load"
    BY <1>3, SMT DEF LockLoad, AfterEngine
  <2>3. LockOK'
    <3>1. CASE UNCHANGED loader /\ reader'[r].pc \in {"params", "table"}
      BY <1>lock, <2>1, <3>1
    <3>2. CASE loader' = r /\ reader'[r].pc = "load"
      <4>1. \A q \in Readers : reader[q].pc # "load"
        BY <1>none, <2>1 DEF TurnsOK, LockOK
      <4> QED BY <1>own, <3>2, <4>1 DEF LockOK
    <3> QED BY <2>2, <3>1, <3>2
  <2>4. reader'[r].model \in Models
    BY <2>1 DEF TurnsOK, EnginesOK
  <2> QED BY <1>build, <1>engine, <2>1, <2>2, <2>3, <2>4 DEF TurnsOK
<1>4. CASE LoadEngine(r) \/ LoadFails(r)
  <2>1. /\ reader[r].pc = "load" /\ loader' = None /\ UNCHANGED <<row, cells>>
        /\ engines' \in {engines, engines \cup {reader[r].model}}
    BY <1>4 DEF LoadEngine, LoadFails, store
  <2>2. reader'[r].pc \in {"done", "table", "params"}
    BY <1>4, SMT DEF LoadEngine, LoadFails, AfterEngine
  <2>3. LockOK'
    <3>1. \A q \in Readers \ {r} : reader[q].pc # "load"
      BY <2>1 DEF TurnsOK, LockOK
    <3> QED BY <1>none, <1>own, <2>1, <2>2, <3>1 DEF LockOK
  <2>4. EnginesOK'
    BY <1>own, <2>1, <2>2 DEF TurnsOK, EnginesOK
  <2> QED BY <1>build, <2>1, <2>2, <2>3, <2>4 DEF TurnsOK
<1>5. CASE BeginBuild(r)
  <2> DEFINE c == reader[r].cell
  <2>1. /\ reader[r].pc = "graph" /\ c \in Cells /\ UNCHANGED <<row, engines, loader>>
        /\ cells[c] = [builder |-> None, graph |-> None]
        /\ cells' = [cells EXCEPT ![c].builder = r]
    BY <1>5 DEF BeginBuild, store, CellsOK
  <2>2. reader'[r].pc = "build" /\ reader'[r].cell = c
    BY <1>5, SMT DEF BeginBuild
  <2>3. BuilderOK'
    <3>1. cells'[c].builder = r /\ \A d \in Cells \ {c} : cells'[d] = cells[d]
      BY <2>1, SMT DEF CellsOK
    <3>2. ASSUME NEW d \in Cells, cells[d].builder # None
          PROVE  cells[d].builder \in Readers \ {r} /\ d # c
      <4>1. cells[c].builder = None
        BY <2>1
      <4> QED BY <2>1, <3>2, <4>1 DEF TurnsOK, BuilderOK
    <3>3. \A q \in Readers \ {r} : reader[q].pc = "build" => reader[q].cell \in Cells \ {c}
      <4>1. cells[c].builder = None
        BY <2>1
      <4> QED BY <1>none, <4>1 DEF TurnsOK, BuilderOK, CellsOK
    <3> HIDE DEF c
    <3>4. \A d \in Cells : cells'[d].builder # None =>
            /\ cells'[d].builder \in Readers
            /\ reader'[cells'[d].builder].pc = "build" /\ reader'[cells'[d].builder].cell = d
      BY <1>own, <2>2, <3>1, <3>2 DEF TurnsOK, BuilderOK
    <3>5. \A q \in Readers : reader'[q].pc = "build" => cells'[reader'[q].cell].builder = q
      BY <1>own, <2>2, <3>1, <3>3 DEF TurnsOK, BuilderOK
    <3> QED BY <3>4, <3>5 DEF BuilderOK
  <2> QED BY <1>lock, <1>engine, <2>1, <2>2, <2>3 DEF TurnsOK
<1>6. CASE Build(r) \/ BuildFails(r)
  <2> DEFINE c == reader[r].cell
  <2>1. /\ reader[r].pc = "build" /\ c \in Cells /\ UNCHANGED <<row, engines, loader>>
    BY <1>6 DEF Build, BuildFails, store, CellsOK
  <2>2. reader'[r].pc \in {"graph", "done"}
    BY <1>6, SMT DEF Build, BuildFails
  <2>3. cells'[c].builder = None /\ \A d \in Cells \ {c} : cells'[d] = cells[d]
    <3>1. CASE Build(r)
      <4>1. cells' = [cells EXCEPT ![c] = [builder |-> None, graph |-> table.dim]]
        BY <3>1 DEF Build
      <4> QED BY <2>1, <4>1, SMT DEF CellsOK
    <3>2. CASE BuildFails(r)
      <4>1. cells' = [cells EXCEPT ![c].builder = None]
        BY <3>2 DEF BuildFails
      <4> QED BY <2>1, <4>1, SMT DEF CellsOK
    <3> QED BY <1>6, <3>1, <3>2
  <2>4. BuilderOK'
    <3>1. cells[c].builder = r
      BY <2>1 DEF TurnsOK, BuilderOK
    <3>2. ASSUME NEW d \in Cells \ {c}, cells[d].builder # None
          PROVE  cells[d].builder \in Readers \ {r}
      BY <2>1, <3>2 DEF TurnsOK, BuilderOK
    <3>3. \A q \in Readers \ {r} : reader[q].pc = "build" => reader[q].cell \in Cells \ {c}
      BY <3>1 DEF TurnsOK, BuilderOK, CellsOK
    <3> HIDE DEF c
    <3>4. \A d \in Cells : cells'[d].builder # None =>
            /\ cells'[d].builder \in Readers
            /\ reader'[cells'[d].builder].pc = "build" /\ reader'[cells'[d].builder].cell = d
      BY <1>own, <2>3, <3>2 DEF TurnsOK, BuilderOK
    <3>5. \A q \in Readers : reader'[q].pc = "build" => cells'[reader'[q].cell].builder = q
      BY <1>own, <2>2, <2>3, <3>3 DEF TurnsOK, BuilderOK
    <3> QED BY <3>4, <3>5 DEF BuilderOK
  <2> QED BY <1>lock, <1>engine, <2>1, <2>2, <2>4 DEF TurnsOK
<1>7. CASE EmbedFails(r) BY <1>7, <1>quiet, SMT DEF EmbedFails, store, caches
<1>8. CASE ReadParams(r) BY <1>8, <1>quiet, SMT DEF ReadParams, store, caches
<1>9. CASE StoreParams(r) BY <1>9, <1>quiet, SMT DEF StoreParams, store
<1>10. CASE OpenTable(r) BY <1>10, <1>quiet, SMT DEF OpenTable, caches, AfterTable
<1>11. CASE FindCell(r)
  <2>1. reader[r].pc = "cell" /\ reader'[r].pc = "graph"
    BY <1>11, SMT DEF FindCell
  <2> QED BY <1>11, <1>quiet, <2>1 DEF FindCell, store
<1>12. CASE UseGraph(r) BY <1>12, <1>quiet, SMT DEF UseGraph, store, caches
<1>13. CASE Fetch(r) BY <1>13, <1>quiet, SMT DEF Fetch, store, caches
<1>14. CASE OpenAgain(r) BY <1>14, <1>quiet, SMT DEF OpenAgain, caches
<1>15. CASE FindIndex(r)
  <2>1. reader[r].pc = "symbols" /\ reader'[r].pc \in {"done", "parsed"}
    BY <1>15, SMT DEF FindIndex
  <2> QED BY <1>15, <1>quiet, <2>1 DEF FindIndex, store, caches
<1>16. CASE StoreIndex(r) BY <1>16, <1>quiet, SMT DEF StoreIndex, store
<1> QED BY <1>1, <1>2, <1>3, <1>4, <1>5, <1>6, <1>7, <1>8, <1>9, <1>10, <1>11, <1>12, <1>13,
           <1>14, <1>15, <1>16 DEF ReaderStep

LEMMA TurnsNext ==
  ASSUME ServingAssumption, Shape, CellsOK, TurnsOK, [Next]_vars
  PROVE  TurnsOK'
<1>1. ASSUME NEW r \in Readers, ReaderStep(r) PROVE TurnsOK'
  BY <1>1, TurnsStep
<1>2. ASSUME NEW r \in Readers, NEW kind \in Kinds(r), Ask(r, kind) PROVE TurnsOK'
  <2>1. \A q \in Readers \ {r} : reader'[q] = reader[q]
    BY <1>2, OwnRecord
  <2>2. reader[r].pc = "idle" /\ UNCHANGED <<row, engines, loader, cells>>
    BY <1>2 DEF Ask, At, store
  <2>3. reader'[r].pc \in {"symbols", "row"}
    BY <1>2, SMT DEF Ask, Idle, Shape
  <2>4. LockOK'
    BY <2>1, <2>2, <2>3, SMT DEF TurnsOK, LockOK
  <2>5. BuilderOK'
    <3>1. ASSUME NEW c \in Cells, cells[c].builder # None
          PROVE  cells[c].builder \in Readers \ {r}
      BY <2>2, <3>1 DEF TurnsOK, BuilderOK
    <3> QED BY <2>1, <2>2, <2>3, <3>1 DEF TurnsOK, BuilderOK
  <2>6. EnginesOK'
    BY <2>1, <2>2, <2>3, SMT DEF TurnsOK, EnginesOK
  <2> QED BY <2>4, <2>5, <2>6 DEF TurnsOK
<1>3. CASE RunStep \/ RemoverStep \/ UNCHANGED vars
  <2>1. UNCHANGED <<engines, loader, cells, reader>>
    BY <1>3 DEF RunStep, RemoverStep, RunBegins, RunOpens, RunAppends, RunPublishes, RunResets,
       RunStops, Invalidate, Unload, RemoveFiles, vars, caches
  <2>2. row' # None => row'.model \in Models
    <3>1. CASE RunPublishes
      <4>1. PICK m \in Methods : row' = [model |-> Primary, method |-> m, run |-> runs]
        BY <3>1 DEF RunPublishes
      <4>2. row'.model = Primary
        BY <4>1
      <4> QED BY <4>2 DEF ServingAssumption
    <3>2. CASE RemoveFiles
      BY <3>2 DEF RemoveFiles
    <3>3. CASE UNCHANGED row
      BY <3>3 DEF TurnsOK, EnginesOK
    <3> QED BY <1>3, <3>1, <3>2, <3>3 DEF RunStep, RemoverStep, RunBegins, RunOpens, RunAppends,
               RunResets, RunStops, Invalidate, Unload, vars, store
  <2>3. LockOK' /\ BuilderOK'
    BY <2>1 DEF TurnsOK, LockOK, BuilderOK
  <2> QED BY <2>1, <2>2, <2>3 DEF TurnsOK, EnginesOK
<1> QED BY <1>1, <1>2, <1>3 DEF Next

TurnInv == ParamInv /\ GraphInv /\ TurnsOK

LEMMA TurnAlways == ASSUME ServingAssumption PROVE Spec => []TurnInv
<1>1. Init => TurnInv
  BY ParamInit, GraphInit, TurnsBegin DEF TurnInv
<1>2. TurnInv /\ [Next]_vars => TurnInv'
  BY ParamNext, GraphNext, TurnsNext DEF TurnInv, GraphInv
<1> QED BY <1>1, <1>2, PTL DEF Spec

\* The holders of the lock and of the cells are readers at that work, and the caches hold
\* values of their kind.
THEOREM TypeCorrect == ASSUME ServingAssumption PROVE Spec => []TypeOK
<1>1. TurnInv => TypeOK
  <2>1. SUFFICES ASSUME TurnInv PROVE TypeOK
    OBVIOUS
  <2>2. loaded \in Objects \cup {None}
    BY <2>1, MadeInRange DEF TurnInv, ParamInv
  <2>3. cell \in Cells \cup {None} /\ \A r \in Readers : reader[r].pc \in {"graph", "build"} => reader[r].cell \in Cells
    BY <2>1 DEF TurnInv, GraphInv, CellsOK
  <2>4. \A r \in Readers : reader[r].pc = "build" <=> \E c \in Cells : cells[c].builder = r
    BY <2>1, <2>3 DEF TurnInv, TurnsOK, BuilderOK, ServingAssumption
  <2> QED BY <2>1, <2>2, <2>3, <2>4 DEF TurnInv, TurnsOK, LockOK, EnginesOK, TypeOK, At
<1> QED BY <1>1, TurnAlways, PTL

\* No lock and no cell keeps a request waiting for good, whoever fails while holding it
\* (state.rs, cache.rs): whoever waits, waits for a reader that loads or builds and does
\* not wait itself.
THEOREM NobodyWaitsForGood == ASSUME ServingAssumption PROVE Spec => []NobodyWaits
<1>1. TurnInv => WaitersServed
  <2>1. SUFFICES ASSUME TurnInv, NEW r \in Readers, Waits(r)
                 PROVE  \E q \in Readers :
                          /\ reader[q].pc \in {"load", "build"} /\ ~Waits(q)
                          /\ \/ reader[r].pc = "lock" /\ loader = q
                             \/ reader[r].pc = "graph" /\ cells[reader[r].cell].builder = q
    BY DEF WaitersServed
  <2>2. CASE reader[r].pc = "lock" /\ loader # None
    <3>1. loader \in Readers /\ reader[loader].pc = "load"
      BY <2>1, <2>2 DEF TurnInv, TurnsOK, LockOK
    <3>2. ~Waits(loader)
      BY <3>1 DEF Waits
    <3> QED BY <2>2, <3>1, <3>2
  <2>3. CASE reader[r].pc = "graph" /\ cells[reader[r].cell].builder # None
    <3> DEFINE q == cells[reader[r].cell].builder
    <3>1. q \in Readers /\ reader[q].pc = "build"
      BY <2>1, <2>3 DEF TurnInv, GraphInv, CellsOK, TurnsOK, BuilderOK
    <3>2. ~Waits(q)
      BY <3>1 DEF Waits
    <3> QED BY <2>3, <3>1, <3>2
  <2> QED BY <2>1, <2>2, <2>3 DEF Waits
<1> QED BY <1>1, TypeCorrect, TurnAlways, PTL DEF NobodyWaits


\* The daemon of a service's behaviour is that of Serving, whatever else the behaviour
\* is of: the readers take their own steps or none.
LEMMA ReadersOwnSteps == ServicesSpec => Spec
<1>1. ServicesInit => Init
  BY DEF ServicesInit, NoReaders
<1>2. [SetupStep \/ MainStep \/ ReadersStep \/ McpStep]_services => [Next]_vars
  BY DEF SetupStep, MainStep, ReadersStep, McpStep, services
<1> QED BY <1>1, <1>2, PTL DEF ServicesSpec, Spec

\* In every behaviour of the services the caches are those of Serving: one engine of a
\* model, parameters that follow the row, one graph, no waiter without a reader at work
\* (state.rs, cache.rs, search.rs).
THEOREM CachesOfServices ==
    ServicesSpec => [](OneLoad /\ ParamsFollowRow /\ OneGraph /\ NobodyWaits)
<1>1. ServingAssumption
  BY Bounds
<1>2. Spec => []OneLoad
  BY <1>1, LoadedOnce
<1>3. Spec => []ParamsFollowRow
  BY <1>1, ParamsCurrent
<1>4. Spec => []OneGraph
  BY <1>1, GraphOnce
<1>5. Spec => []NobodyWaits
  BY <1>1, NobodyWaitsForGood
<1> QED BY <1>2, <1>3, <1>4, <1>5, ReadersOwnSteps, PTL

=============================================================================
