------------------------------ MODULE TuiSetup ------------------------------
(***************************************************************************)
(* The setup of the terminal UI (apps/zebrarag/src/tui: actions, tasks,    *)
(* config, mod): from the stored configuration or the user's choices to a  *)
(* model and a running daemon monitor.  The UI thread handles one message  *)
(* of its channel or one key at a time; downloads and listings run in      *)
(* tasks of their own that report through the channel.                     *)
(*                                                                         *)
(* Cursor keys only move a selection: confirming picks any entry.  Formats *)
(* of numbers and the search method are choices without consequence here.  *)
(***************************************************************************)
EXTENDS Naturals, Sequences, FiniteSets

CONSTANTS
    Locals,         \* models that run here
    Providers,      \* remote providers; each offers one model, named as it is
    Keys,           \* API keys
    None,           \* absent
    MaxJobs,        \* bound: background jobs over a whole session
    MaxStarts       \* bound: starts of the program

SetupAssumption ==
    /\ None \notin Locals \cup Providers \cup Keys
    /\ Locals \cap Providers = {}
    /\ MaxJobs \in Nat /\ MaxStarts \in Nat \ {0}

Choices == Locals \cup Providers

VARIABLES
    screen,         \* [at, model, provider, key, kept]; kept is from_keyring
    chosen,         \* app.model
    memory,         \* app.remote_api_key and its provider: [provider, key]
    catalog,        \* whether setup_registry is known
    jobs,           \* background tasks: a set of [id, what, provider, model, key]
    count,          \* jobs so far
    channel,        \* messages to the UI
    monitor,        \* the model of the daemon monitor that runs, or None
    config,         \* config.toml: [model, key]; model is None without a file
    keyring,        \* the OS keyring: provider |-> key or None
    backend,        \* whether this platform has a keyring
    cached,         \* local models whose files are there
    starts,         \* starts of the program
    borrowed        \* history: a key of one provider was taken for another

app == <<screen, chosen, memory, catalog, monitor>>
disk == <<config, keyring, backend, cached>>
vars == <<app, jobs, count, channel, disk, starts, borrowed>>

At(at) == screen.at = at
Blank == [at |-> "resolving", model |-> None, provider |-> None, key |-> None,
          kept |-> FALSE]
Show(at) == screen' = [Blank EXCEPT !.at = at]

\* tokio::spawn of a task that will report
Start(what, provider, model, key) ==
    /\ count < MaxJobs
    /\ count' = count + 1
    /\ jobs' = jobs \cup {[id |-> count, what |-> what, provider |-> provider,
                           model |-> model, key |-> key]}

Post(message) == channel' = Append(channel, message)
Message(what, model) == [what |-> what, model |-> model, provider |-> None, key |-> None]

Init ==
    /\ screen = Blank /\ chosen = None
    /\ memory = [provider |-> None, key |-> None]
    /\ catalog = FALSE /\ monitor = None
    /\ jobs = {} /\ count = 0 /\ channel = <<>>
    /\ config = [model |-> None, key |-> None]
    /\ keyring = [p \in Providers |-> None]
    /\ backend \in BOOLEAN
    /\ cached \in SUBSET Locals
    /\ starts = 1 /\ borrowed = FALSE

-----------------------------------------------------------------------------
(* The configuration file *)

StoredKey(p) == IF keyring[p] # None THEN keyring[p] ELSE config.key

\* Slip: the file is written anew without the key that it had.
SaveForgets(model, p, key) ==
    /\ keyring' = IF key # None /\ backend THEN [keyring EXCEPT ![p] = key] ELSE keyring
    /\ config' = [model |-> model, key |-> IF backend THEN None ELSE key]

\* config::save; without a key it keeps the one in the file
Save(model, p, key) ==
    /\ keyring' = IF key # None /\ backend THEN [keyring EXCEPT ![p] = key] ELSE keyring
    /\ config' = [model |-> model,
                  key |-> IF key = None THEN config.key
                          ELSE IF backend THEN None ELSE key]

\* resolve_startup: a remote model needs its key, a local one is taken as it is
Resolve ==
    /\ At("resolving") /\ channel = <<>> /\ jobs = {}
    /\ Post([what |-> "resolved", provider |-> None,
             model |-> IF config.model \in Providers /\ StoredKey(config.model) = None
                       THEN None ELSE config.model,
             key |-> IF config.model \in Providers THEN StoredKey(config.model) ELSE None])
    /\ UNCHANGED <<app, jobs, count, disk, starts, borrowed>>

\* without a configuration, a project indexed with a model that is there
ResolveFromProjects ==
    /\ At("resolving") /\ channel = <<>> /\ jobs = {} /\ config.model = None
    /\ \E m \in cached :
          /\ Save(m, None, None)
          /\ Post(Message("resolved", m))
    /\ UNCHANGED <<app, jobs, count, backend, cached, starts, borrowed>>

-----------------------------------------------------------------------------
(* Background jobs *)

Reports(what) ==
    IF what = "registry" THEN {"registry", "registry_failed"}
    ELSE IF what = "download" THEN {"downloaded", "download_failed"}
    ELSE {"models", "models_failed"}

\* fetch_registry, download_model and spawn_fetch_remote_models all report
JobEnds ==
    \E j \in jobs : \E what \in Reports(j.what) :
        /\ jobs' = jobs \ {j}
        /\ cached' = IF what = "downloaded" THEN cached \cup {j.model} ELSE cached
        /\ Post([what |-> what, model |-> j.model, provider |-> j.provider, key |-> j.key])
        /\ UNCHANGED <<app, count, config, keyring, backend, starts, borrowed>>

-----------------------------------------------------------------------------
(* Messages: dispatch *)

Head1 == Head(channel)
Next1(what) == channel # <<>> /\ Head1.what = what
Drop == channel' = Tail(channel)

\* ConfigResolved; a remote key comes from the keyring or from the file
DispatchResolved ==
    /\ Next1("resolved") /\ Drop
    /\ IF Head1.model = None
       THEN /\ Start("registry", None, None, None)
            /\ Show("fetching_registry")
            /\ UNCHANGED <<chosen, memory, monitor>>
       ELSE /\ chosen' = Head1.model /\ monitor' = Head1.model
            /\ memory' = [provider |-> IF Head1.model \in Providers
                                       THEN Head1.model ELSE None,
                          key |-> Head1.key]
            /\ Show("main")
            /\ UNCHANGED <<jobs, count>>
    /\ UNCHANGED <<catalog, disk, starts, borrowed>>

DispatchRegistry ==
    /\ Next1("registry") /\ Drop
    /\ catalog' = TRUE
    /\ Show("models")
    /\ UNCHANGED <<chosen, memory, monitor, jobs, count, disk, starts, borrowed>>

\* RegistryError, RemoteModelsError may be retried, ModelDownloadError may not
DispatchFailure ==
    /\ \/ Next1("registry_failed") /\ Show("error_retry")
       \/ Next1("models_failed") /\ Show("error_retry")
       \/ Next1("download_failed") /\ Show("error")
    /\ Drop
    /\ UNCHANGED <<chosen, memory, catalog, monitor, jobs, count, disk, starts, borrowed>>

\* ModelDownloaded: the UI sends itself SetupComplete
DispatchDownloaded ==
    /\ Next1("downloaded")
    /\ channel' = Append(Tail(channel), Message("complete", Head1.model))
    /\ UNCHANGED <<app, jobs, count, disk, starts, borrowed>>

\* RemoteModelsLoaded: a key that is already in memory need not be stored
DispatchModels ==
    /\ Next1("models") /\ Drop
    /\ screen' = [Blank EXCEPT !.at = "remote_models", !.provider = Head1.provider,
                     !.key = Head1.key, !.kept = (memory.key = Head1.key)]
    /\ borrowed' = (borrowed \/ (/\ memory.key = Head1.key
                                 /\ memory.provider # Head1.provider))
    /\ UNCHANGED <<chosen, memory, catalog, monitor, jobs, count, disk, starts>>

\* Slip: the monitor of the model before goes on.
DispatchCompleteOnly ==
    /\ Next1("complete") /\ Drop
    /\ chosen' = Head1.model
    /\ Show("main")
    /\ UNCHANGED <<memory, catalog, monitor, jobs, count, disk, starts, borrowed>>

\* SetupComplete: the monitor is spawned anew; it clones the model it serves
DispatchComplete ==
    /\ Next1("complete") /\ Drop
    /\ chosen' = Head1.model /\ monitor' = Head1.model
    /\ Show("main")
    /\ UNCHANGED <<memory, catalog, jobs, count, disk, starts, borrowed>>

Dispatch ==
    \/ DispatchResolved \/ DispatchRegistry \/ DispatchFailure
    \/ DispatchDownloaded \/ DispatchModels \/ DispatchComplete

-----------------------------------------------------------------------------
(* Keys: handle_action *)

\* SetupConfirm on a remote provider: its key may be known already
PickProvider(p) ==
    /\ At("models")
    /\ LET key == IF memory.key # None THEN memory.key ELSE keyring[p]
       IN  screen' = [Blank EXCEPT !.at = "api_key", !.provider = p, !.key = key,
                         !.kept = (key # None)]
    /\ borrowed' = (borrowed \/ (memory.key # None /\ memory.provider # p))
    /\ UNCHANGED <<chosen, memory, catalog, monitor, jobs, count, channel, disk, starts>>

\* SetupConfirm on a local model
PickLocal(m) ==
    /\ At("models")
    /\ screen' = [Blank EXCEPT !.at = IF m \in cached THEN "dtype" ELSE "downloading",
                               !.model = m]
    /\ IF m \in cached THEN UNCHANGED <<jobs, count>>
       ELSE Start("download", None, m, None)
    /\ UNCHANGED <<chosen, memory, catalog, monitor, channel, disk, starts, borrowed>>

PickDtype ==
    /\ At("dtype")
    /\ screen' = [screen EXCEPT !.at = "method"]
    /\ UNCHANGED <<chosen, memory, catalog, monitor, jobs, count, channel, disk, starts,
                   borrowed>>

\* the configuration is saved, or cannot be
PickMethod ==
    /\ At("method")
    /\ \/ /\ Save(screen.model, None, None)
          /\ Show("launching")
          /\ Post(Message("complete", screen.model))
       \/ /\ Show("error")
          /\ UNCHANGED <<config, keyring, channel>>
    /\ UNCHANGED <<chosen, memory, catalog, monitor, jobs, count, backend, cached, starts,
                   borrowed>>

TypeKey(k) ==
    /\ At("api_key")
    /\ screen' = [screen EXCEPT !.key = k]
    /\ UNCHANGED <<chosen, memory, catalog, monitor, jobs, count, channel, disk, starts,
                   borrowed>>

\* an empty key is refused
SubmitKey ==
    /\ At("api_key") /\ screen.key # None
    /\ Start("models", screen.provider, None, screen.key)
    /\ screen' = [screen EXCEPT !.at = "fetching_models"]
    /\ UNCHANGED <<chosen, memory, catalog, monitor, channel, disk, starts, borrowed>>

\* SetupConfirm on a remote model: a key from the keyring is not stored again
PickRemote ==
    /\ At("remote_models")
    /\ \/ /\ Save(screen.provider, screen.provider,
                  IF screen.kept THEN None ELSE screen.key)
          /\ memory' = [provider |-> screen.provider, key |-> screen.key]
          /\ Show("launching")
          /\ Post(Message("complete", screen.provider))
       \/ /\ Show("error")
          /\ UNCHANGED <<config, keyring, memory, channel>>
    /\ UNCHANGED <<chosen, catalog, monitor, jobs, count, backend, cached, starts, borrowed>>

\* SetupBack
Back ==
    /\ \/ /\ At("models") /\ chosen # None
          /\ Show("main") /\ monitor' = chosen
          /\ UNCHANGED <<jobs, count>>
       \/ /\ screen.at \in {"dtype", "api_key"}
          /\ IF catalog
             THEN Show("models") /\ UNCHANGED <<jobs, count>>
             ELSE Show("fetching_registry") /\ Start("registry", None, None, None)
          /\ UNCHANGED monitor
       \/ /\ At("fetching_models")
          /\ screen' = [screen EXCEPT !.at = "api_key"]
          /\ jobs' = {j \in jobs : j.id # count - 1}
          /\ UNCHANGED <<monitor, count>>
       \/ /\ At("remote_models")
          /\ screen' = [screen EXCEPT !.at = "api_key"]
          /\ UNCHANGED <<monitor, jobs, count>>
    /\ UNCHANGED <<chosen, memory, catalog, channel, disk, starts, borrowed>>

\* SetupRetry
Retry ==
    /\ At("error_retry")
    /\ Show("fetching_registry") /\ Start("registry", None, None, None)
    /\ UNCHANGED <<chosen, memory, catalog, monitor, channel, disk, starts, borrowed>>

\* ChangeModel aborts the monitor
ChangeModel ==
    /\ At("main")
    /\ monitor' = None
    /\ Show("fetching_registry") /\ Start("registry", None, None, None)
    /\ UNCHANGED <<chosen, memory, catalog, channel, disk, starts, borrowed>>

\* Ctrl-C ends the program on every screen; it is started again
Restart ==
    /\ starts < MaxStarts /\ count < MaxJobs
    /\ starts' = starts + 1
    /\ screen' = Blank /\ chosen' = None /\ catalog' = FALSE /\ monitor' = None
    /\ memory' = [provider |-> None, key |-> None]
    /\ jobs' = {} /\ channel' = <<>>
    /\ UNCHANGED <<count, disk, borrowed>>

Key ==
    \/ \E p \in Providers : PickProvider(p)
    \/ \E m \in Locals : PickLocal(m)
    \/ \E k \in Keys \cup {None} : TypeKey(k)
    \/ PickDtype \/ PickMethod \/ SubmitKey \/ PickRemote
    \/ Back \/ Retry \/ ChangeModel \/ Restart

Next == Resolve \/ ResolveFromProjects \/ JobEnds \/ Dispatch \/ Key

Spec == Init /\ [][Next]_vars

-----------------------------------------------------------------------------
(* Properties *)

\* tasks.rs:303-314, actions.rs:288-291: whichever way the user comes to the
\* main screen, the daemon monitor runs, and for the model that was chosen.
MonitorFollowsModel == At("main") => chosen # None /\ monitor = chosen

\* config.rs:70-99, actions.rs:235-241: once a remote model is configured its
\* key is found by the next start, unless the key in memory was another
\* provider's.
KeyFound ==
    config.model \in Providers /\ ~borrowed => StoredKey(config.model) # None

\* tasks.rs:146: a choice the user made is respected by the next start.
ChoiceSaved == At("main") => config.model = chosen

\* event.rs:86-89: the screens that only wait leave the user nothing but to
\* quit.  Behind each of them a job runs whose end leaves the screen, or its
\* report is on the way.
Pending(what) ==
    \/ \E j \in jobs : j.what = what
    \/ \E i \in DOMAIN channel : channel[i].what \in Reports(what) \cup {"complete"}

SpinnersEnd ==
    /\ At("fetching_registry") => Pending("registry")
    /\ At("downloading") => Pending("download")
    /\ At("fetching_models") => Pending("models")
    /\ At("launching") => \E i \in DOMAIN channel : channel[i].what = "complete"

=============================================================================
