---------------------------- MODULE IndexStream -----------------------------
(***************************************************************************)
(* One connection of the daemon and the client at its other end.  Most     *)
(* requests get one frame; an index request gets the progress of the run   *)
(* as it happens and then one frame that ends it.  The run is a task of    *)
(* its own, whose reports go through an unbounded channel; the handler     *)
(* polls the channel and then, in a step of its own, the task, so reports  *)
(* arrive in between.  Frames carry no identity: what a client reads next  *)
(* answers what it asked last.                                             *)
(*                                                                         *)
(* Of a run, only what it reports is here (Indexer has the rest); of what   *)
(* clients draw of it, the bar of the CLI, which follows the frames, and   *)
(* the rows of the TUI, which are worked out from the last one.            *)
(***************************************************************************)
EXTENDS Naturals, Sequences, SequencesExt, FiniteSetsExt

CONSTANTS
    MaxFiles,       \* bound: code files of the tree
    MaxChunks,      \* bound: chunks to embed
    BatchSize,      \* chunks of an embed batch
    Room,           \* frames that fit between the two ends before a write waits
    MaxAsks,        \* bound: requests of the client
    MaxExits        \* bound: ends of the daemon's process

StreamAssumption ==
    /\ {MaxFiles, MaxChunks, MaxAsks, MaxExits} \subseteq Nat
    /\ {BatchSize, Room} \subseteq Nat \ {0}

VARIABLES
    serving,        \* the connection's task in the daemon
    inbox,          \* the request on its way to it: "none", "index" or "other"
    run,            \* where the run is; "none" when there is none
    size,           \* of the run: [files, chunks, table], the table's rows at its end or not
    count,          \* files parsed, preamble frames sent, or chunks embedded
    meter,          \* IpcReporter: [current, total]
    channel,        \* reports the handler has not taken
    wire,           \* frames the client has not read
    client,         \* "idle", "waiting" or "gone"
    asked,          \* what the client asked last
    got,            \* progress the client got of its last request
    answer,         \* how that request ended: "none", "ok", "err", "other" or a stray phase
    bar,            \* of the CLI: [open, length, position]
    sent,           \* history: reports of the run, in order
    asks, exits     \* how many of each so far

task == <<run, size, count, meter, sent>>
user == <<client, asked, got, answer, bar, asks>>
vars == <<serving, inbox, task, channel, wire, user, exits>>

Report(phase, current, total) == [phase |-> phase, current |-> current, total |-> total]
Ended == {"ok", "err", "panicked"}
Order == [Start |-> 0, Dsl |-> 1, Gather |-> 2, Tokenize |-> 3, Embed |-> 4,
          BuildIndex |-> 5, Finish |-> 6]
IsProgress(frame) == frame.phase \in DOMAIN Order

Sizes == [files : 0..MaxFiles, chunks : 0..MaxChunks, table : BOOLEAN]
NoSize == [files |-> 0, chunks |-> 0, table |-> FALSE]
NoBar == [open |-> FALSE, length |-> 0, position |-> 0]

Init ==
    /\ serving = "reading" /\ inbox = "none"
    /\ run = "none" /\ size = NoSize /\ count = 0 /\ meter = [current |-> 0, total |-> 0]
    /\ channel = <<>> /\ wire = <<>>
    /\ client = "idle" /\ asked = "none" /\ got = <<>> /\ answer = "none"
    /\ bar = NoBar /\ sent = <<>> /\ asks = 0 /\ exits = 0

-----------------------------------------------------------------------------
(* The run, as the reporter hears it. *)

Say(report) == channel' = Append(channel, report) /\ sent' = Append(sent, report)

\* a run that finds nothing to embed says so and ends
NothingToDo ==
    /\ run = "planning"
    /\ Say(Report("Finish", meter.current, meter.total))
    /\ run' = "ok"
    /\ UNCHANGED <<size, count, meter>>

Plan(s) ==
    /\ run = "planning"
    /\ size' = s /\ run' = "parsing"
    /\ Say(Report("Dsl", 0, s.files))
    /\ UNCHANGED <<count, meter>>

Parse ==
    /\ run = "parsing"
    /\ IF count < size.files
       THEN /\ Say(Report("Dsl", count + 1, size.files))
            /\ count' = count + 1 /\ UNCHANGED run
       ELSE \* files that failed to parse are not counted
            /\ \E parsed \in 0..size.files : Say(Report("Gather", parsed, parsed))
            /\ count' = 0 /\ run' = "chunking"
    /\ UNCHANGED <<size, meter>>

StartBar ==
    /\ run = "chunking"
    /\ meter' = [current |-> 0, total |-> size.chunks]
    /\ Say(Report("Start", 0, size.chunks))
    /\ run' = "tokenizing"
    /\ UNCHANGED <<size, count>>

\* no tokenizing happens here: both of its frames, and the first of the embedding
Announce ==
    LET frames == << Report("Tokenize", 0, size.chunks),
                     Report("Tokenize", size.chunks, size.chunks),
                     Report("Embed", 0, size.chunks) >>
    IN /\ run = "tokenizing"
       /\ Say(frames[count + 1])
       /\ IF count + 1 = Len(frames) THEN count' = 0 /\ run' = "embedding"
                                     ELSE count' = count + 1 /\ UNCHANGED run
       /\ UNCHANGED <<size, meter>>

\* Slip: the value that fetch_add returns, from before the addition.
IncStale(n) ==
    /\ meter' = [meter EXCEPT !.current = @ + n]
    /\ Say(Report("Embed", meter.current, meter.total))

\* IpcReporter::inc
Inc(n) ==
    /\ meter' = [meter EXCEPT !.current = @ + n]
    /\ Say(Report("Embed", meter.current + n, meter.total))

EmbedBatch ==
    LET n == Min({BatchSize, size.chunks - count})
    IN /\ run = "embedding" /\ count < size.chunks
       /\ Inc(n)
       /\ count' = count + n
       /\ UNCHANGED <<run, size>>

\* the batches are done, or the cancel flag is up
StopEmbedding(paused) ==
    /\ run = "embedding" /\ (paused \/ count = size.chunks)
    /\ run' = "storing"
    /\ UNCHANGED <<size, count, meter, sent, channel>>

BuildIndex ==
    /\ run = "storing" /\ (size.table \/ count > 0)
    /\ Say(Report("BuildIndex", 0, 0))
    /\ run' = "finishing"
    /\ UNCHANGED <<size, count, meter>>

Finish ==
    /\ \/ run = "finishing"
       \/ run = "storing" /\ ~size.table /\ count = 0
    /\ Say(Report("Finish", meter.current, meter.total))
    /\ run' = "ok"
    /\ UNCHANGED <<size, count, meter>>

\* an error of the store or the engine, or a panic, ends the run without a report
RunFails(how) ==
    /\ run \notin Ended \cup {"none"}
    /\ how = "err" => run \in {"planning", "chunking", "embedding", "storing", "finishing"}
    /\ run' = how
    /\ UNCHANGED <<size, count, meter, sent, channel>>

RunStep ==
    /\ \/ NothingToDo \/ Parse \/ StartBar \/ Announce \/ EmbedBatch
       \/ BuildIndex \/ Finish
       \/ \E s \in Sizes : Plan(s)
       \/ \E paused \in BOOLEAN : StopEmbedding(paused)
       \/ \E how \in {"err", "panicked"} : RunFails(how)
    /\ UNCHANGED <<serving, inbox, wire, user, exits>>

-----------------------------------------------------------------------------
(* The daemon: handle_connection and handle_streaming. *)

Attached == client # "gone"
Fits == Len(wire) < Room

\* the reader's end: the next request, or the end of the connection
ReadRequest ==
    /\ serving = "reading" /\ inbox # "none"
    /\ inbox' = "none"
    /\ IF inbox = "other" THEN serving' = "answering other" /\ UNCHANGED task
       ELSE \/ \* the project cannot be opened
               serving' = "answering err" /\ UNCHANGED task
            \/ /\ serving' = "streaming"
               /\ run' = "planning" /\ size' = NoSize /\ count' = 0
               /\ meter' = [current |-> 0, total |-> 0] /\ sent' = <<>>
    /\ channel' = <<>>
    /\ UNCHANGED <<wire, user, exits>>

ReadEnds ==
    /\ serving = "reading" /\ inbox = "none" /\ ~Attached
    /\ serving' = "closed"
    /\ UNCHANGED <<inbox, task, channel, wire, user, exits>>

\* a report is written as it comes; when that fails the run is aborted
ForwardReport ==
    /\ serving = "streaming" /\ channel # <<>>
    /\ channel' = Tail(channel)
    /\ IF Attached
       THEN /\ Fits /\ wire' = Append(wire, Head(channel))
            /\ UNCHANGED <<serving, run>>
       ELSE serving' = "closed" /\ run' = "none" /\ UNCHANGED wire
    /\ UNCHANGED <<inbox, size, count, meter, sent, user, exits>>

\* the select found no report; it polls the task next
PollRun ==
    /\ serving = "streaming" /\ channel = <<>>
    /\ serving' = "joining"
    /\ UNCHANGED <<inbox, task, channel, wire, user, exits>>

JoinRun ==
    /\ serving = "joining"
    /\ serving' = IF run \in Ended THEN "draining" ELSE "streaming"
    /\ UNCHANGED <<inbox, task, channel, wire, user, exits>>

\* the reports that came between the two polls; a write that fails is ignored
Drain ==
    /\ serving = "draining" /\ channel # <<>>
    /\ channel' = Tail(channel)
    /\ IF Attached THEN Fits /\ wire' = Append(wire, Head(channel)) ELSE UNCHANGED wire
    /\ UNCHANGED <<serving, inbox, task, user, exits>>

\* Slip: the answer without the drain before it.
DrainedUnread ==
    /\ serving = "draining"
    /\ serving' = IF run = "ok" THEN "answering ok" ELSE "answering err"
    /\ run' = "none"
    /\ UNCHANGED <<inbox, size, count, meter, sent, channel, wire, user, exits>>

Drained ==
    /\ serving = "draining" /\ channel = <<>>
    /\ serving' = IF run = "ok" THEN "answering ok" ELSE "answering err"
    /\ run' = "none"
    /\ UNCHANGED <<inbox, size, count, meter, sent, channel, wire, user, exits>>

\* the frame that ends a request has a body and no progress in it
Answers == [x \in {"answering ok", "answering err", "answering other"} |->
              Report(CASE x = "answering ok" -> "ok" [] x = "answering err" -> "err"
                       [] OTHER -> "other", 0, 0)]

WriteAnswer ==
    /\ serving \in DOMAIN Answers
    /\ IF Attached
       THEN Fits /\ wire' = Append(wire, Answers[serving]) /\ serving' = "reading"
       ELSE serving' = "closed" /\ UNCHANGED wire
    /\ UNCHANGED <<inbox, task, channel, user, exits>>

\* the process ends, and all its tasks with it
Exit ==
    /\ exits < MaxExits /\ serving # "closed"
    /\ serving' = "closed" /\ run' = "none" /\ channel' = <<>>
    /\ exits' = exits + 1
    /\ UNCHANGED <<inbox, size, count, meter, sent, wire, user>>

HandlerStep ==
    \/ ReadRequest \/ ReadEnds
    \/ ForwardReport \/ PollRun \/ JoinRun \/ Drain \/ Drained
    \/ WriteAnswer

-----------------------------------------------------------------------------
(* The client. *)

Ask(what) ==
    /\ client = "idle" /\ asks < MaxAsks
    /\ client' = "waiting" /\ asked' = what /\ inbox' = what
    /\ got' = <<>> /\ answer' = "none" /\ bar' = NoBar /\ asks' = asks + 1
    /\ UNCHANGED <<serving, task, channel, wire, exits>>

\* the CLI's bar when a frame arrives
Drawn(b, frame) ==
    IF frame.phase = "Start" THEN [open |-> TRUE, length |-> frame.total, position |-> 0]
    ELSE IF frame.phase = "Finish" THEN [b EXCEPT !.open = FALSE]
    ELSE IF b.open /\ frame.phase # "BuildIndex" THEN [b EXCEPT !.position = frame.current]
    ELSE b

\* the TUI's row for a phase while another is active
Row(phase, active) ==
    IF Order[phase] < Order[active] THEN "done"
    ELSE IF phase = active THEN "active" ELSE "pending"

\* request_streaming hands progress on and returns any other frame; request returns
\* whatever frame comes first
Receive ==
    /\ client = "waiting" /\ wire # <<>>
    /\ wire' = Tail(wire)
    /\ IF asked = "index" /\ IsProgress(Head(wire))
       THEN /\ got' = Append(got, Head(wire)) /\ bar' = Drawn(bar, Head(wire))
            /\ UNCHANGED <<client, answer>>
       ELSE client' = "idle" /\ answer' = Head(wire).phase /\ UNCHANGED <<got, bar>>
    /\ UNCHANGED <<serving, inbox, task, channel, asked, asks, exits>>

\* Slip: a connection that ended is taken for one with nothing to read yet.
ReceiveFailsSilently ==
    /\ client = "waiting" /\ wire = <<>> /\ serving = "closed"
    /\ UNCHANGED vars

ReceiveFails ==
    /\ client = "waiting" /\ wire = <<>> /\ serving = "closed"
    /\ client' = "gone"
    /\ UNCHANGED <<serving, inbox, task, channel, wire, asked, got, answer, bar, asks, exits>>

Leave ==
    /\ client # "gone"
    /\ client' = "gone" /\ wire' = <<>>
    /\ UNCHANGED <<serving, inbox, task, channel, asked, got, answer, bar, asks, exits>>

ClientStep == Receive \/ ReceiveFails

Next ==
    \/ RunStep \/ HandlerStep \/ ClientStep
    \/ \E what \in {"index", "other"} : Ask(what)
    \/ Leave \/ Exit

Spec == Init /\ [][Next]_vars
FairSpec == Spec /\ WF_vars(RunStep) /\ WF_vars(HandlerStep) /\ WF_vars(ClientStep)

-----------------------------------------------------------------------------
(* Properties. *)

TypeOK ==
    /\ serving \in {"reading", "streaming", "joining", "draining", "closed"} \cup DOMAIN Answers
    /\ inbox \in {"none", "index", "other"} /\ asked \in {"none", "index", "other"}
    /\ run \in {"none", "planning", "parsing", "chunking", "tokenizing", "embedding",
                "storing", "finishing"} \cup Ended
    /\ size \in Sizes /\ meter \in [current : Nat, total : Nat]
    /\ client \in {"idle", "waiting", "gone"}
    /\ Len(wire) <= Room /\ asks \in 0..MaxAsks /\ exits \in 0..MaxExits

\* progress on its way to the client
InFlight == {frame \in Range(wire) \cup Range(channel) : IsProgress(frame)}

\* An index request gets any number of progress frames and then exactly one frame that
\* ends it (handlers/index.rs:14): none of them is lost, doubled or out of order, nothing
\* follows the last, and the answer says that the run ended well only to a client that
\* has all of its reports.
OneTerminalFrame ==
    /\ client = "idle" => wire = <<>> /\ answer \in {"none", "ok", "err", "other"}
    /\ client = "waiting" /\ serving \in {"streaming", "joining", "draining"} =>
         got \o wire \o channel = sent
    /\ client = "idle" /\ answer = "ok" => got = sent /\ Last(got).phase = "Finish"

\* What a client draws fits the run: a bar never passes its end, counts up while chunks
\* are embedded and is taken down, where the run says it stopped, when the request ended
\* well; a phase that is ticked off is reported no more (cli.rs:176, modals.rs:211).
BarFits ==
    /\ bar.position <= bar.length
    /\ client = "idle" /\ answer = "ok" => ~bar.open /\ bar.position = Last(got).current
    /\ got # <<>> /\ Last(got).phase = "Embed" =>
         /\ \A f \in Range(got) : f.phase = "Embed" => f.current <= Last(got).current
         /\ Last(got).current = Last(got).total /\ Last(got).total > 0 =>
              \A f \in InFlight : f.phase # "Embed"
    /\ client = "waiting" /\ got # <<>> =>
         \A f \in InFlight : Row(f.phase, Last(got).phase) # "done" \/ f.phase = "Start"

\* Whoever waits for an answer gets one, or learns that the daemon is gone.
RequestsEnd == client = "waiting" ~> client # "waiting"

=============================================================================
