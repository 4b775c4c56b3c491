# Verification of zebraindex

TLA+ models of the zebraindex workspace (`src/crates`), the TLC runs that check
them on small instances, and theorems about them that TLAPS proves for every
instance.  Line numbers refer to the sources under `src/`; `PROJECT.json` maps
every definition to the lines it stands for and lists the hazards the
properties are aimed at.

## 1. Inventory

zebraindex indexes source trees for semantic search.  One daemon per user holds
an embedding model and serves a Unix socket; a CLI, a TUI and an MCP server are
its clients.  A project's index is three LanceDB tables under `~/.zebrarag`.

| Component | State it keeps | Operations | Model |
|---|---|---|---|
| Incremental indexer (`zrag-pipeline/indexer.rs`, `manifest.rs`) | the locals of one `index_project`: snapshots, plan, queue of chunks, cursors | snapshot, diff, delete, chunk, embed, append, checkpoint, upsert | `Indexer` |
| Which files count (`manifest.rs`, `zrag-dsl/index.rs`, `watch.rs`) | the Foundry roots the watcher was started with, the symbol index | walk, filter an event, build the index | `Sources` |
| Store (`zrag-store`) | tables `files`, `chunks`, `projects` | open (and drop on another dimension), append, delete, upsert, query, find a project | parts of `Indexer`, `Serving`, `Ranking`, `TurboLeg`, `Mcp`; what it promises: `Catalog` |
| Daemon sessions (`zrag-daemon`: `state.rs`, `watch.rs`, `listener.rs`, `handlers/`) | registry of `LoadedProject`s, their indexing lock and flags, the watched list and the debouncer | open, index, cancel, remove, watch, auto-reindex | `Sessions` |
| Daemon readers (`handlers/`, `state.rs`, `zrag-ann/cache.rs`) | engines by model, search parameters, graph of vectors, symbol index | search, exhaustive search, status, doctor, symbol requests | `Serving` |
| Daemon process and clients (`zrag-daemon/lib.rs`, `zrag-ipc-client`) | pid file with its lock and text, socket path | connect, spawn, kill, bind, stop | `Lifecycle` |
| Connection and progress (`zrag-protocol`, `handlers/index.rs`, progress in CLI and TUI) | channel of reports, frames on the wire | stream progress, end the request with one frame, draw | `IndexStream` |
| Embedding engines (`zrag-embed/engine.rs`, `any.rs`, `zrag-remote-embed`) | worker threads and their channels; a window of requests and their retries | submit, encode, run, reply; request, retry, take | `EmbedWorker`, `RemoteEmbed`, `Embedding`; what they promise: `EmbedService` |
| Search (`zrag-pipeline/search.rs`, `fusion.rs`, `zrag-rerank`, `zrag-ann/selector.rs`) | the method in use | legs, fusion, rerank, dedup, diversify, cut, appendix | `Ranking`, `TurboLeg` |
| Chunkers (`zrag-recursive-chunk`, `zrag-dsl/chunking.rs`, `tabular.rs`, `pdf.rs`) | none | atoms, merge at least cost, lines of a symbol, rows of a table, pages | `Chunker`, `FileChunks`, `Pdf` |
| Symbol walker (`zrag-ts-core/walker.rs`) | open scopes, symbols, calls of one file | enter, emit, leave, collect | `Walker` |
| Symbol index (`zrag-dsl`) | symbols, edges, lookups by name | parse, resolve, look up, render chains, callees and tree | `DslIndex` |
| PDF extraction (`zrag-pdf`) | graphics and text state of one page | interpret, rebuild matrices, fold lines, find headings, join pages | `Pdf` |
| TUI (`apps/zebrarag/src/tui`) | screens, configuration and keys, background tasks, message channel, shared connection | setup; main screen, monitor, tasks, modals | `TuiSetup`, `TuiMain` |
| MCP server (`apps/zebrarag/src/mcp.rs`) | pool of connections | resolve the project, lease, connect, send, read | `Mcp` |
| CLI (`apps/zebrarag/src/cli.rs`, `dsl.rs`) | a progress bar | one request per command | its bar in `IndexStream`, its connection in `Lifecycle` |
| Tree-sitter frontends, model arithmetic, batches by length, hardware probe, shared types | none, or tensors | | not modelled, see section 7 |

How they interact.  A client connects to the socket, spawning a daemon if there
is none.  Every connection is a tokio task that serves one request after the
other.  `Index` opens the project (registry, watch), takes the project's
indexing lock and runs `index_project`, streaming progress to the client.  The
file watcher's callback sends batches of events to one event loop, which spawns
a reindex task per watched project they touch; the flag `reindex_scheduled`
coalesces those tasks and the same lock orders their runs.  `CancelIndex` sets a
flag the embed loop polls.  `RemoveProject` deletes the tables without the lock.
Searches and other readers take no lock of the project either: they read the
project row, ask for the engine of its model, and open the tables between any
two steps of a run.  All requests share the engine, whose two threads serve them
in order of arrival.  All state that survives a restart is in the tables, in two
paths, the pid file and the socket, and in the user's configuration and keyring.

Where it is hard, and a test would hardly reach:

* a run stops (error, abort, death of the process) between two commits to two
  tables, in the middle of a file or of a flush;
* the tree changes while it is read, events arrive while a run is queued or
  running, and must not be lost or pile up;
* requests check shared state under one lock and act on it under another;
* an aborted task, a dropped connection and a cancelled run must free the lock;
* processes race for a lock file that others may unlink, spawn each other while
  they hold it, crash and leave their files behind;
* caches are filled after an await with what was read before it: engines,
  search parameters, graphs, the symbol index;
* a thread behind channels panics while others wait for its replies; a provider
  fails, answers late, in another order or in part;
* frames have no identity: an answer nobody reads becomes the next one's;
* the UI thread waits for a lock whose holder may wait for the UI thread;
* offsets, lines, page numbers and ids are worked out in one place and used in
  another, after cuts, merges and renumbering.

## 2. Modules

`Indexer` -- one project's `index_project`, one action per await (walking one
file, listing, opening and perhaps dropping tables, planning, each delete
commit, chunking, one embed batch, one append, one checkpoint, the project row).
`Interrupt` may end a run in every state: it stands for every `?` of the loop, an
abort of the task and the death of the process, which all lose the locals and
leave the tables.  The environment edits the tree at every step, cancels, and
installs a release with a new index format.  A content stands for its hash and
is the sequence of its chunk bodies.  A chunk row is identified by the path it
is stored under, which is the absolute one (`indexer.rs:332`), and the body;
deletes are given relative paths (`indexer.rs:211`) and are modelled as such, so
in the model as in the code they match no row.  Copies of a row are counted up to
`MaxCopies`, where the count saturates: `chunks` says which rows there are, and
with `MaxCopies = 2` which are duplicated.

`Catalog` -- the abstract specification of the tables: a file is listed only
while every part of its content is stored.  `Indexer!KeepsCatalog` is the
refinement (`listed <- files`, `stored <-` the rows with a copy).

`Sessions` -- the tasks of the daemon on one project.  A connection is a task
with a program counter; so is each task of `schedule_reindex`.  `lock[o]` is the
FIFO queue of tokio's mutex of `LoadedProject` `o`, its head the holder.  A step
ends where the code awaits or takes a lock, so checks and the acts that rely on
them are separate (`FindLoaded`/`InsertLoaded`, `NotWatched`/`PushWatched`,
`Unlist`/`Undebounce`).  The debouncer may fail to watch the root (`DebounceFails`),
which both callers ignore.  An index run is two steps: `StartRun` reads the number of
edits, `Publish` makes the index include them; that this is what a run does is
`Indexer`'s `PublishesSnapshot`.  Objects are made anew once no task refers to
them, as an `Arc` is freed.  `owed` and `walked` are history variables of
`NoEventLost`: the edits the watcher has announced, and those the latest run to
start has read.

`Lifecycle` -- processes around two paths.  `pidPath` is the file the pid path
names, `flock` and `text` belong to the file and not to the path, so an unlinked
file keeps its lock; `socket` is the daemon whose socket the socket path names.
Clients (`Client::connect` with its one restart) and daemons (`run_daemon`) have
program counters, with one step per system call another process can notice.
`Crash` covers death and every error of `run_daemon` after the lock: neither
cleans up.

`Serving` -- requests that read a project, one step per await: find the row, find
or load the engine under the load lock, read or store the search parameters, open
the table (which drops one of another dimension), find the graph's cell and build
in it, fetch, open again for the appendix; symbol requests build and store the
symbol index.  A run is what a reader sees of it: open, append, write the row,
reset the parameters.  A removal forgets the graph's cell, then the registry's
entry, then the files.  `loads` and `late` are history variables.

`IndexStream` -- one connection.  The run is a task that reports through an
unbounded channel; the handler polls the channel and then, in a step of its own,
the task (the biased `select!`), drains what came in between and writes the one
frame that ends the request.  A write waits when `Room` frames are in flight.  The
client may leave, the daemon may end.  The CLI's bar is a variable that each frame
moves; what the TUI's rows show is worked out from the last one.

`EmbedService`, `EmbedWorker`, `RemoteEmbed`, `Embedding` -- the abstract service
(each submission is answered at most once, rows are given out in order of
acceptance, and a failure ends one stretch of the line); the tokenizer and GPU
threads with their channels and one-shot replies, and a panic of either;
the remote client's sub-batches, window, retries and a provider that fails or
answers with fewer or more rows than it was sent texts, which nothing compares
(`client.rs:180-193` looks at gaps in the indices only); and the embed loop of `index_project` over either engine, with
searches that embed a query on the same one.

`TuiSetup`, `TuiMain` -- the screens of the setup with stored configuration,
keyring, downloads and listings that end late; the main screen with the daemon
monitor and request tasks that share one connection behind a mutex and report
through a bounded channel that the UI thread drains.

`Mcp` -- tool calls over a pool of leased connections to a daemon that stops and is
started again by somebody else, and how a call names its project.

`Walker` -- the pre-order walk with its stack of open scopes, and the second walk
per symbol that collects calls.  `DslIndex` -- parsed files put together, aliases,
edges resolved by name, lookups, chains, callee trees, the file tree.  The index of
a file is its number modulo `FileIds`, which is 2^16 in the code (`index.rs:123`).
`Chunker` -- atoms along the syntax tree and ever finer separators, the dynamic
program with costs and overlaps in wrapping integers, positions; tables packed
row by row.  `FileChunks` -- how symbols become chunks of lines with the
documentation above them.  `Pdf` -- operators to glyph runs, matrices rebuilt from
geometry, lines, headings, pages joined and split again, packed and labelled.
`Ranking` -- index runs that renumber symbols but write rows of changed files only,
the rows of the earlier texts staying in the table because the delete matches none
(finding 1), then one search from its two legs to its page and appendix, and the
choice of the method with hysteresis.  A row's id is made of its file, name, place and
body (`indexer.rs:37-47`), so an unchanged chunk of a changed file is there twice under
one id: the legs fetch every copy (`Copies`), the fusion adds up a copy's ranks and
keeps one row per id, and the two dedups, by symbol before the cut and by lines after
it, are those of the code.  `TurboLeg` -- columns of turbo codes in batches, scores, the
heap of the best rows, and the fetch of all rows that share an id with one of them.  `Sources` -- the walk of a run, the watcher's filter
and the symbol index's own filter over one set of paths that come and go.

`MCIndexer`, `MCSessions` and `MCLifecycle` give constants their values and
symmetry sets.  `MCPipeline`, `MCDaemon`, `MCServices` and `Text` put several
components side by side: `part` says which of them a behaviour is of, and the
variables of the others keep one initial value.  The components of one such
module do not interact there; what they share in the code is modelled inside the
component that suffers from it (`Serving` has the runs and removals that readers
see, `Embedding` composes its three modules, `IndexStream` has a run's reports).
Fairness is stated for each part of its own behaviours; of the behaviours of the
other parts, a temporal property holds because its variables rest there.  The
proofs of one component are in a module beside it: `IndexerProofs`,
`SessionsProofs`, `LifecycleProofs`, `EmbeddingProofs` and `IndexStreamProofs`;
`ServicesProofs` has those of the readers and their caches, the terminal UI and the
MCP server, `TextProofs` those of the text pipeline, and `PipelineProofs` carries
those of three components over to the specification the run `pipeline` checks.
For that, `MCPipeline` takes the components' parameters as constants of its own,
which only its .cfg bounds; so do `MCServices` and `Text`.  `MCText` gives `Text` its
values and puts the two splitters beside it of which nothing is proved, `Chunker` and
`Pdf`, with their texts and documents written into it.  A behaviour of `MCSpec`, the
specification the run `text` checks, is one of a splitter, or one of `Spec`, which the
theorems of `TextProofs` are about, with the splitters' variables at rest.

`Ordering` is what `Ranking` and `TurboLeg` do with lists: `Kept` is `Vec::retain` and
`SortedBy` a stable sort; `FileChunks` keeps line starts with it.  Its recursions are
functions, not RECURSIVE operators, so that they can be reasoned about.

Operators whose comment begins with "Slip" (`GrantedWithoutReset`,
`CheckpointTouched`, ...) are not part of any specification.  Each is a plausible
mistake in the operator that follows it; put in its place, it makes the property
PROJECT.json pairs it with fail, so the property does constrain that code.

## 3. Runs

| Run | Instance | Shows |
|---|---|---|
| `indexer_core` | 2 files, 2 bodies, contents of up to 2 chunks, 2 model dimensions, 1 change, 1 interrupt, 1 cancel, the ignored failure of dropping `files` | the checkpoint never records a file whose chunks are not stored; no file is forgotten or kept at an old content; an unpaused run publishes its snapshot |
| `pipeline` | `Indexer`: 2 files of 2 versions, 1 dimension, 1 change, interrupt and cancel, the ignored failure of listing `files`. `Embedding`: 3 batches and 1 query, 2 sub-batches of 1 text at a time, answers of 0 to 2 rows, 1 retry, 3 faults, 1 panic. `IndexStream`: 1 code file, 2 chunks in batches of 1, room for 1 frame, 2 requests, 1 end of the process | runs implement `Catalog` and bring `files` back to the tree; the engines implement `EmbedService`, rows belong to the batch that asked, and to the text unless an answer had rows too many, nobody waits for good; the client gets what the run said, in order, and one answer |
| `sessions_core` | 2 connections, 2 watcher tasks, 2 objects, index and remove, 2 edits, 1 cancel, 1 failure | coalescing loses no edit and queues one task at most, across objects |
| `daemon` | `Sessions`: 1 connection, 3 watcher tasks, 2 edits, 1 cancel, 1 failure. `Lifecycle`: 2 clients, 3 daemons, 1 failure. `Mcp`: 3 calls, 1 pooled connection, 1 stop | every request, task and call ends; the index gets every edit unless a run or a watch failed or a run was cancelled; a client that waits while a daemon has the lock gets through |
| `lifecycle_core` | 2 clients of 2 protocols, 3 daemons, 3 files, 1 failure, 1 stop | one daemon past the lock, findable, named by its pid file; restarts by clients of two protocols destroy no more than one kill per client allows |
| `services` | `TuiSetup`: 1 local model, 2 providers, 2 keys, 4 jobs, 2 starts. `TuiMain`: 1 project, a channel of 1 message, 2 tasks, 1 event. `Serving`: 2 readers, 2 models, 2 runs, 1 removal, 1 fault. `Mcp`: 3 calls, 2 pooled connections, 1 stop | the setup never waits for nothing and starts the chosen model's monitor; UI and tasks do not block each other; engines and graphs are made once, cached parameters follow the row, reading drops no rows; calls do not read each other's answers |
| `text` | `Walker`: every tree of 3 nodes below the root. `DslIndex`: 2 files, 3 symbols. `Chunker`: texts of 4 characters of 4 kinds, or 7 words and blanks, 4 configurations. `Pdf`: a matrix of 4 cells, 3 operators of 14, up to 4 pages of 5 kinds. `Ranking`: 2 files, 2 runs, 1 edit, pages of 1 and 2 out of an overfetch of 2. `TurboLeg`: 3 rows of 2 ids in batches of 2. `FileChunks`: 2 symbols. `Sources`: 8 paths, 3 edits | nothing of a text is lost on its way to a chunk and what is shown of it is labelled right |

Five runs expect a violation; each is a finding, described in section 6.

Why the bounds are enough to be interesting.  Two files with up to two chunks and
flushes of two rows let a flush end inside a file, span two files and leave a
remainder; batches of one row put a step between any two chunks.  One interrupt
and one edit compose to every "stop here, change that, run again"; runs
themselves are not bounded.  Two dimensions are needed for the drop of the
tables.  Two connections and two objects let tasks of one project work on
different `LoadedProject`s; three watcher tasks let one run, one wait and one
find the flag set.  Three daemons are one that crashes or is outdated and two
that race to follow it.  Three batches are one done, one in flight and one ahead;
two sub-batches end in either order, one may have a row too many and the other one
too few, and three faults exhaust the one retry and leave a fault over.  Room for
one frame blocks every second write.  Two readers
are one that loads or builds and one that waits for it; the removal lets the
second meet a new object.  Two jobs of a channel of one message are one that
blocks and one that holds.  Three rows of two ids have a copy
in the batch of its original or in the next.  Two runs around an edit leave an
outdated row beside its successor, with the same lines or with others; no two
chunks are siblings, which change the order of a page and not its length.  Two files have
an index each under `FileIds = 2`, as up to 65,536 files have in the code.  Texts of
four characters hold each kind at each place
and an atom on either side of a cut.  Every counter with a bound (`changes`,
`interrupts`, `cancels`, `failures`, `stops`, `faults`, `panics`, `asks`, `exits`,
`starts`, `events`, `runs`, `removals`, `edits`) belongs to the environment, never to
the code; `kills` is bounded by the one restart per client, and the jobs of a
session by `MaxJobs`.

Deadlock is not checked (`CHECK_DEADLOCK FALSE`): every environment is bounded
and the connections may all have closed, the daemon idle, the client served, the
text read, in which case the real system stops too.  What must not stop is stated
as liveness or, where nothing fair drives it, as an invariant that somebody can
move (`NobodyWaits`, `SomebodyMoves`, `NothingSpins`).

Fairness, and why the code justifies it.  `Indexer`: weak fairness of `RunStep`
(a spawned run is polled to its end; embed and store calls return or fail, and a
failure is an `Interrupt`) and of `StartRun` (the user or the watcher indexes
again: `Converges` is about indexing again and again, and says so).  `Sessions`:
weak fairness of each task's steps, since tokio polls every task that is ready;
that a waiter gets the lock is not assumed but follows from the FIFO queue.
Requests, edits, cancels and failures are not fair.  `Lifecycle`: weak fairness
of each process; a waiting client polls every 100 ms.  Time-outs, crashes and
stops are not fair.  `Embedding`: each caller is a task tokio polls, the tokenizer
and GPU threads are threads of the operating system, and the provider's turn is
fair because the HTTP client has a timeout; panics and faults are not.
`IndexStream`: the run's task, the handler and a client that reads; that a client
leaves or the daemon ends is not fair.  `Mcp`: each call, and the daemon's answer
to what it has read; stops and restarts are not fair.  `services` and `text` check
safety only and state no fairness.

## 4. Properties

`Indexer`.  `RecordedMeansStored` is what a resumed run relies on: it skips files
whose row has the hash it reads, so a row without its chunks would hide a file
from search for good.  It needs the order append, checkpoint and the countdown
per file; the self-heal for an empty table is part of it, and shows in the
disjunct for the ignored failure of `drop_table("files")`.  It does not survive
both ignored failures at once (a failed drop and, later, a failed listing), nor
an Indexer whose chunk deletes matched: there, a crash between the delete of a
file's chunks and the delete of its row, followed by a revert of the edit,
leaves a row without chunks.  Whoever repairs the paths of the delete has to
swap those two commits as well.  `EveryFileAccounted` is its counterpart
for the other direction, `PublishesSnapshot` says what a successful run is worth,
`Converges` that stopped and cancelled runs are made up for.

`Sessions`.  `NoEventLost` is the argument behind the trailing run: a task that
finds the flag set returns, so somebody else must still be before its walk.  It
depends on the flag being cleared after the lock is granted and before the tree
is read.  `OneTrailingRun` is its price: at most one waits.  `EditsGetIndexed` is
the promise end to end, `Answered` that no return path keeps the lock.  A run that
fails and a watch that cannot be started are excepted from the promise: nothing
tries the run again before the next edit, nor the watch before the end of the next
run on request, which may be never.

`Lifecycle`.  `OneDaemon` and `Reachable` are stated for runs in which nobody stops
or kills a daemon, because both unlink paths without looking whose they are: a
daemon that opened the old pid file before it was unlinked and locks it after
its holder ended serves beside one that made a new file, and a daemon on its way
out, or a second client restarting an outdated daemon, takes the socket from a
fresh one.  The model has these behaviours; the two properties say what holds
without them.  `PidNamesHolder`, `WaitEnds` and `RestartsContained` hold with them, and
the last bounds the damage: a client kills once at most, and only where clients of
another protocol are around, so that two protocols do not kill each other's daemons
for ever; and of the daemons that are past a lock at the same time, all but one are due
to a restart or a stop each, which unlinked the pid file under somebody.  That a
client kills daemons of another protocol only is not so (`KillsOutdatedOnly`).

`Embedding` and `IndexStream`.  `ServesInOrder` is the refinement of `EmbedService`:
no panic, dropped reply or closed channel answers a job twice or past an earlier
one.  `InOrder` joins what two components promise in order: the loop stores as many rows
for a batch as it has texts, those of its texts in their order, though one batch is
always in flight ahead; where an answer of the provider had rows too many, the rows
are still the batch's and in order, but may be those of the wrong text (section 6); the client
has every report of its run before the one frame that ends it, which the drain
after the select is for; and the bar never shows more than its total.
`CallersGetOn` and `ThreadsEnd` are what the drop of channel ends is for: a thread
that dies tells everyone who waits.

`Serving`.  `OneLoad` needs the second look under the load lock.  `ParamsFollowRow` is
as strong as the code allows: a search that read the row before the latest run
may store what it read after the reset, where it stays until the next run; the
property names those searches, so that race is in the model and is not excluded.
`OneGraph` counts the graphs against the removals that forgot a cell.
`ReadersKeepRows` is an action property about a table that a reader's own open
would drop; excepted are `doctor`, which falls back on the primary model (section
6), and a reader whose row a run has replaced since it read it, which may drop the
new table.  `NobodyWaits` covers every load and build that fails: who waits for the lock or
for a graph waits for a reader that is at that work, and never for one that has
left without freeing it.

`TuiSetup` and `TuiMain`.  `NothingSpins` says that whatever the setup or the main
screen shows as busy has a job or a report behind it, after retries, ways back and
late reports; `MonitorFollowsModel` and `KeyFound` relate the screen to what runs and to
what is stored; `SomebodyMoves` has the absence of the deadlock between the UI thread
that waits for the mutex and a task that waits for the channel.

`Mcp`.  An answer is to the caller's own last request, a stopped daemon costs each
connection one call (both in `CallsFit`), and every call ends (`Answered`).

Text.  `ScopesFollowTree` and `CallsCountedOnce` relate the walker's stack and its
second walk to the tree; `PlainNamesResolve` and `EverySymbolRendered` the edges,
lookups and renderings of the symbol index to its files; that a symbol is under its
own file holds for as many files as there are indexes.  `FilesRead` relates the
watcher's filter and the symbol tree's to the walk's (`EditsSeen`,
`SourcesHaveSymbols`) and the chunk of a symbol to the lines it names
(`ChunksOfSymbols`).  What `EditsSeen` exempts are two edits that the watcher does
miss: of a file that bears the name of a skipped directory, and of one in the
dependency directory of a Foundry root that the watcher found when it started and
that was gone when the walk took the file.  The second takes three edits to show
(the root goes, comes back after a run, and then the file changes), hence the bound.
`LettersKept` and `ChunksAdvance` are the chunkers'
contracts: no letter is lost, chunks advance, overlap as configured, fit the
budget, and the costs do not wrap.  `PagesKept` (`GlyphsKept`, `PagesNumbered`) says that
rebuilding matrices loses no glyph and that a chunk's pages are those of its text,
for the documents in which a segment is a page.  `PageFull` says that dedup, spread
and cut leave no room on the page of a search that is not exhaustive while a symbol
id or a passage is left, but for the ids whose rows overlap, under one name, a shown
row of another run, which the dedup behind the cut takes away; and that the batched
leg has the best rows with the copies of their ids, scored as single codes are.

## 5. Proofs

TLAPS checks every proof, for all values of the constants under the assumptions
of the modules.  Most theorems are of the form `Spec => []Inv`, by an inductive
invariant that implies `Inv`, with one lemma per group of actions and one step per
action; `RunPublishes` and `ReadersKeep` are about steps, and `ImplementsCatalog` and
`EngineServes` are refinements.

* `IndexerProofs`.  None of the properties is inductive: a checkpoint records a file
  because its countdown reached zero, so the invariant says what the countdown
  means.  `PhaseOK`: the dimension is known and the cursors are zero before
  embedding; `NeedOK`: the needed files are in the snapshot; `QueueOK`: the queue
  enumerates exactly the chunks of the needed files; `CountsOK`: `remaining` counts
  a file's positions behind the last checkpoint; `FlushedOK`: chunks up to `flushed`
  are in the table.  These hold whatever fails (`RunInv`), and give
  - `TypeCorrect`, with cursors in order;
  - `NoFileForgotten` (`EveryFileAccounted`), with `AccountsOK`: what the run listed is
    what the table holds until its deletes (`ListedOK`, `DeletingOK`), then a needed
    file is recorded exactly when none of its chunks is left to count
    (`BuildingOK`), and a run that was not paused finishes with none left (`DoneOK`);
  - `RunPublishes` (`PublishesSnapshot`), a fact about the step that ends a run, from
    the same.

  Two theorems depend on which of the two ignored failures can occur.
  `CheckpointSound` (`RecordedMeansStored`) holds under `OneFault`, with `StoredOK`: a
  recorded file may lack its chunks only after a table could not be dropped and
  until the rows the run listed are deleted.  `ImplementsCatalog` (`KeepsCatalog`)
  holds without the failed drop: every step of every run, stopped or resumed, maps
  to a step of `Catalog` or to a stutter.  The lemmas about `EmbedOrders` and about
  counting positions are stated once.
* `SessionsProofs`: `TypeCorrect`, `NoEditLost` and `OneWaits`, for all sets of
  connections, tasks and objects.  `NoEventLost` is not inductive: the task that
  returns must leave another behind.  `FlagOK` supplies it (the flag of an object
  is set exactly while a watcher's task of that object waits), which in turn
  needs `OneTrailingRun` (clearing the flag leaves no second waiter),
  `ProjectOK` (who has passed the registry has an object) and `LockOK` (who runs
  holds the lock).
* `LifecycleProofs`: `TypeCorrect`, `PidTrue`, `LockExcludes`, `ListenersReachable`
  (`Reachable`) and `RestartsLimited` (`RestartsContained`), for all finite sets of
  processes and files and any number of protocols.  `LockOwner` says who acts as holder is holder,
  `OnePidFile` that without unlinking all open files are the same, `TextOK` that a
  pid file names only somebody gone or its holder.  `Reachable` rests
  on `OneDaemon`: who would take the socket's path from a listener would be a second
  daemon past the lock.  `Restarts` counts for `RestartsContained`: kills are the
  clients that have killed (`KillsCounted`), who each met a peer of another protocol
  (`PeerOK`, `Outdated`, and `Built`: a daemon has the protocol of a client); and the
  pid files that are open somewhere but no longer at the path, with the stopping
  daemons about to unlink one, are at most the restarts and stops (`FilesCounted`), each of
  which has room for one daemon past its lock.
* `ServicesProofs`, the readers, for any readers, models, runs, removals and faults.
  `CachesOfServices` carries what follows over to the run `services`.  `LoadedOnce`
  (`OneLoad`): whoever loads holds the lock and found no engine under it
  (`LoaderOK`).  `ParamsCurrent` (`ParamsFollowRow`): objects are never reused, so the
  parameters of one not yet made are empty, and a run about to reset parameters
  resets those of the project in the registry or has marked it late.  `GraphOnce`
  (`OneGraph`): a graph belongs to a cell, and the cells in use are at most one more
  than the removals that forgot one.  `ReadersKeep` (`ReadersKeepRows`): a reader
  carries the model of the row as it has read it (`ModelOK`).  `TypeCorrect` and
  `NobodyWaitsForGood` (`NobodyWaits`), with `TurnsOK`: the lock is with the reader that
  loads, a cell's builder builds that cell, and an engine is loaded for a model
  there is; so whoever waits, waits for a reader that is at work.
* `EmbeddingProofs`, for any number of batches, queries, panics and faults, any
  window and any size of a sub-batch, under the assumptions of the three modules.
  `EngineServes` is the refinement of `EmbedService`: the abstract line is what is in
  the two channels and in the hands of the two threads, in that order, and `LineOK`
  says that a job stands in it once and has its caller waiting.  `RowsInPlace`
  (`RowsAligned`) is about the remote engine's window too: `RemoteOK` says which rows
  of a call are in, in flight or still to be asked for, whatever is retried, late,
  short or long (the rows are in order, and if none is too many, as many rows as texts
  can only be the texts' own), and `LoopOK` that the loop awaits the batch it is at and has submitted the
  next.  `TypeCorrect` bounds windows and retries.
* `IndexStreamProofs`, for trees, batches and buffers of any size, under
  `StreamAssumption`.  `StreamEndsOnce` (`OneTerminalFrame`) follows the frames: while
  the handler streams, what the client has, what is on the wire and what is in the
  channel are together what the run said (`StreamOK`, `WireOK`); the run says Finish
  last (`RunOK`); an idle handler leaves nothing in the channel (`IdleOK`).
  `BarFollowsRun` (`BarFits`) goes on from there: the order of a run's reports
  (`SaidOK`), where the run is after its last one (`SpokenOK`), where in them the
  frames of client, wire and channel stand (`PlacedOK`), and the bar after the frame
  the client had last (`BarOK`); the request before leaves nothing that the next
  one's bar could draw.  `TypeCorrect` says that a frame is written only where the
  buffer has room.
* `PipelineProofs`: a behaviour of `MCPipeline`'s specification is one of each
  component (two of which rest), so what is proved of them gives `PipelineInOrder`
  (`InOrder`), `PipelineServes` (`ServesInOrder`) and, without the failed drop,
  `PipelineKeepsCatalog` (`KeepsCatalog`), as the run `pipeline` checks them.
* `ServicesProofs`, the rest, for any models, providers, keys, jobs, tasks, calls and
  connections.  The setup (`SetupInv`): a key once stored stays stored, the key the
  setup has kept is stored unless it was borrowed from another provider (`KeysOK`),
  a job and a message carry what their next step needs (`JobsOK`, `MessagesOK`), and
  what shows as busy has one of them behind it (`BusyOK`); this gives
  `MonitorOfTheModel` (`MonitorFollowsModel`) and `KeyStaysFound` (`KeyFound`).  The main
  screen (`MainInv`): a task that is not over will say so (`TasksOK`), a search that
  shows as running has its task or its end on the way (`SearchOK`), and no progress is behind the end of
  the last run (`IndexOK`); with the setup's, `SpinnersHaveTasks` (`NothingSpins`).
  `HolderAwaitsDaemon`: whoever holds the shared connection has asked the daemon and
  waits for its answer, never for the channel.  The MCP server: who holds a mutex
  uses its connection and who waits is in its line (`HoldersOK`), a connection
  carries the frame of the call that waits for it and nothing else (`WiresOK`), and
  the calls lost plus the connections gone stale are at most one per connection and
  stop (`LostOK`); this gives `CallsFitAlways` (`CallsFit`).
* `TextProofs`, for trees, files, texts and codes of any size.  What a definition
  computes by recursion is a function on an interval of numbers here, and two lemmas
  stand in for induction: `NatSet` (a set with 0 and every successor has all numbers,
  by way of `Least`) and `Recursion` (such a function exists and solves its equation),
  with `CourseOfValues` for trees, whose nodes are numbered parents first.
  - `ScopesFollow` (`ScopesFollowTree`): between two steps of the walk the stack is the
    path from the root to the node, the open scopes are exactly the emitted symbols on
    it (`Around`, in `WalkInv`), and the two depths count the functions and the
    containers among them (`Stacked`).
  - `CallsOnce` (`CallsCountedOnce`): of two symbols around a call one is around the
    other, and the walk for the outer one's calls stops there (`CallsHold`).
  - `PlainNames` (`PlainNamesResolve`), with `IndexInv`: identifiers are places in the
    list of symbols, each file's symbols are an interval of it (`Placed`), and a call by a
    plain name leads to the one symbol of that name (`CallsLead`, which `PlainForm` says
    is the property).
  - `PagesFilled` (`PageFull`) joins two inductive invariants.  `RankInv`: the rows of
    one file that bear one name and are of one run are of one symbol id (`Coherent`),
    the candidates are such rows, and a ranked page is full but for the outdated ids.
    That it is follows the list through its sorts, which shuffle it (`Shuffled`), the
    spread and the cut, which draw from it (`DrawnFrom`), and the first dedup, which
    leaves one candidate per symbol id and each passage (`DedupCounts`); the second
    drops a row only for one of another id and the same name, hence of another run
    (`OverlapsLost`), so what the page lost is what `Outdated` counts (`PageHolds`).  `TurboInv`: the flat
    columns of a batch are blocks, one per row of the batch and with the fields of
    its code (`BatchOk`), so scoring the matrix scores each code by itself (`ScoresOf`);
    and the heap is the best of the rows sent and scored so far (`HeapOk`, `PushedOk`).
    The fetch then finds each row of an id of the heap once (`FetchedOnce`), gives it the
    least score of the copies in the heap (`ScoreIs`), and the sort orders them
    (`FetchIsBest`).
    `OrderIs` says what a stable sort by decreasing key is, once for both.
  - `FilesAreRead` (`FilesRead`) joins two more.  `FilesInv`: what is stored is what one
    walk found, whatever has come and gone since, and with no run scheduled every edit
    since the last run was none for the watcher's filter; a path that a walk takes is
    one for that filter but for the two exemptions (`WalkedIsCandidate`).  `SymbolsInv`:
    every chunk is cut for a symbol, from where `DocStart` says.  `StartsAre` and
    `BreaksCount` relate the table of line starts to the newlines in their order, from
    which both tables of `SameRanges` and the lines of a body (`RangeOf`) follow.

Model-checked only, and why:

* All liveness (`Converges`, `CallersGetOn`, `ThreadsEnd`, `Answered`, `EditsGetIndexed`,
  `WaitEnds`): the prover has no fairness.
* `SomebodyMoves`: it says with ENABLED that who holds the connection can go on, and
  a reader that is not done too.  What it says of the state is proved, as
  `HolderAwaitsDaemon` and as `NobodyWaits`.
* `LettersKept`, `ChunksAdvance`, `PagesKept` and `EverySymbolRendered`: each compares
  what a nest of recursions and folds over a text, a document or a call graph leaves
  with what went in.  The provers have no induction over data, and each recursion would
  have to be taken through `Recursion` by hand, as the ranking's sort is; TLC compares
  them on all inputs of the instance.

## 6. Findings

Five claims of the repository that a run refutes:

1. `indexer_duplicates`: chunk deletes are given relative paths, rows store
   absolute ones; a file indexed twice keeps its old chunks and duplicates the
   unchanged ones, against `indexer.rs:200` and `:549`.
2. `indexer_resume`: an interrupted first run has no project row, and the next run
   rebuilds what was checkpointed, against `indexer.rs:1007`.
3. `sessions_auto_sync`: a project is in the registry before it is watched; a
   second connection may index it in between, and an edit after that run's walk
   is never indexed, against `README.md:213`.
4. `sessions_single_flight`: two connections that open a project at once make two
   `LoadedProject`s with a lock each; two automatic runs overlap, against
   `watch.rs:125`.
5. `lifecycle_lock_held`: a client spawns the daemon while it holds the pid lock
   itself; the daemon may be refused, says that one is running and exits, and
   the client waits for nobody, against `lib.rs:46`.

The models show more.  Those marked with a name are definitions of the component's
module, not part of any run, that TLC refutes on the instances above (`RankSpec` of
`Text` and `PdfSpec` of `MCText` are the search's and the PDF's behaviours alone, for
`SymbolsShown`, `PageFullOverOldRows` and `PageNumbersAreReal`).

Embedding and processes:

* `NeverShifted`: `client.rs:180-193` accepts any number of rows whose indices have no
  gap, and `indexer.rs:651-657` compares only the sum over the sub-batches of a batch; a
  row too many in one and one too few in another pass, and the rows in between are
  stored for the wrong texts.
* `KillsOutdatedOnly`: `kill_daemon` kills whom the pid file names at that moment; the
  slower of two clients that restart a daemon kills the one the faster one, or the
  user, has just started, whatever its protocol, and unlinks its files.

Readers and search:

* `DoctorKeepsRows`: `doctor` takes the primary engine if the project's own cannot be
  loaded, and opens the table under that one's dimension, which drops it, against
  `README.md:347` ("Run diagnostics").
* A graph is invalidated by a removal only, never by a run, and `RemoveProject`
  forgets its cell before the registry's entry, so a search in between rebuilds
  the graph of a project that is about to go.
* `PageFullOverOldRows`: finding 1 leaves the rows of a file's earlier text in the
  table, under the symbol ids of the run that wrote them.  The dedup by symbol id takes
  the old and the new row of one symbol for two, and the daemon's dedup by name and
  lines (`handlers/search.rs:178-205`) drops one of them after the cut: a page is short
  while candidates remain.
* `NoMoreThanAsked`: an unchanged chunk of a re-indexed file is in the table twice under
  one id; `fetch_by_chunk_ids` returns both, so a leg that asked for `raw_k` rows has
  more, and both may have taken a place in the heap (`search.rs:120-141`).
* `SymbolsShown`: symbol ids are numbered anew by each run but only changed files'
  rows are written, so rows of different symbols may carry one id; dedup
  (`search.rs:346`) then drops a symbol that was found, and the appendix follows an
  outdated id.  It also ignores the search's filters.
* `ExhaustivePageFull`: the cut of an exhaustive search can leave a page short while
  candidates are left (`search.rs:305-308`).
* Hits of the graph leg are not sorted before fusion (`search.rs:157-167`), which
  reads their places as ranks.
* A turbo code whose lengths differ from the batch's shifts the flat columns for
  the rows behind it.

Files and symbols:

* `IndexFollowsDisk`: a file named like a skipped directory is walked but is no
  candidate of the watcher (`manifest.rs:123-133`, `318-325`), and a change of
  `foundry.toml` or `.gitignore` schedules no run, against `manifest.rs:70-71`.
* `ManifestsRendered`: a manifest under a directory that `build_index` skips is
  neither indexed nor rendered, against `manifest.rs:10-12`; `write_preamble` has
  no caller.
* `UnderOwnFile`, with fewer indexes than files: `files.len() as u16` (`index.rs:123`)
  wraps at the 65,537th file that parses, whose symbols then pass for the first
  file's, in the renderings, in the resolution within a file and in its chunks
  (`chunking.rs:94,108` wraps in the same way).
* `CutByOwnSymbols`: the suffix fallback of `locate_file` may take another file's
  symbols for a file that did not parse.
* A one-line item that begins like documentation is swallowed by the documented
  symbol below it (`chunking.rs:173-181`).
* `CallsKept`: the calls behind a boundary symbol can belong to nobody, against
  `walker.rs:527-529`.
* `ChainsFromEntryPoints`: a reverse edge carries the caller in `to`, so the set that
  `tree.rs:23-33` calls `has_incoming` holds all callers, and no caller passes for an
  entry point: a symbol that is called has no chain, against `tree.rs:17-19`.
* `CandidatesLead`: a name that `search_dep.rs:169` offers for another try can be
  ambiguous again.
* The symbol index of a `LoadedProject` is built once and never refreshed; two
  requests that build it at once may answer from different ones.
* `PageNumbersAreReal`: no separator is written while the text is empty, so pages
  behind leading empty ones are numbered too low, against `manifest.rs:241`; a form
  feed in a matrix cell adds a page.

Front ends:

* `ChoiceSaved`: the path through a download never saves the configuration, so the
  next start asks again.
* Progress that arrives after the modal was closed opens it again; a confirmed
  removal acts on the selection of the moment; a monitor that is aborted between
  request and answer leaves the answer for the next request; a dead client is
  never replaced unless the user restarts the daemon (`README.md:372`).
* `IndexPhase::order` puts Start before Dsl, a run sends it after Gather
  (`response.rs:49-59`, `indexer.rs:498`): the checklist is reset for that frame, and
  the CLI's bar, made at Start, never draws the two phases before it.
* `CwdInProject`: the directory is compared by characters (`db.rs:178`), so from
  `/a/bc` the project `/a/b` is found.  A project named by its number may be another
  by the time the call is served.  After a restart of the daemon each pooled
  connection fails one call.

## 7. Not modelled, and the plan

Not modelled: tensor arithmetic and quantised scoring beyond integers standing for
floats (batches by length are about padding and belong here), devices, the
grammars of tree-sitter and the frontends' text extraction (stateless, one per
grammar), LanceDB's own transactions (each commit is atomic here) and the
maintenance of its full-text and vector indexes, the operating system's scheduling
beyond fairness, argument parsing, drawing, and the wording of answers.  Frames
are whole: the cast of a length to 32 bits is reached by frames of 4 GiB only.

Of the modelled components these details are left out: the chunk count of the
project row and rows of an older format after a paused upgrade (`Indexer`); a
cancel that arrives while its request still waits for the lock, which the run
wipes when it starts, and a watcher that fails to start at all, in which case the event
loop does not keep the pid file open and a stopping daemon drops its lock earlier
than `Lifecycle` says; token budgets and signatures of the renderings
(`DslIndex`), and the cast of the number of symbols to 32 bits (`index.rs:125`), which
memory ends before; `FileChunks` assumes no more files than there are file indexes;
a build of the symbol index that fails on an unreadable entry, which leaves nothing
behind (`Sources`); encodings beyond two fonts (`Pdf`).  Hazards in `PROJECT.json` without a
property name the reason each.

What is left, in the order of worth:

1. The writer of `Serving` and the runs of `Sessions` as one component, so that a
   removal, a run and readers of several objects interact in one behaviour.
2. The refinement of `Catalog` under both ignored failures at once, which needs an
   abstract catalog that may be dropped.
3. A refinement for `Serving`: one cache per project that is filled once and
   emptied by removals, implemented by lock, cells and objects.
4. The chunk count of the project row, and a row of an older format.
