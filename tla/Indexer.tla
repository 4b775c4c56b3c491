------------------------------ MODULE Indexer ------------------------------
(***************************************************************************)
(* One project's incremental indexer: index_project of                     *)
(* crates/zrag-pipeline/src/indexer.rs over the three LanceDB tables of    *)
(* crates/zrag-store (files, chunks, projects).                            *)
(*                                                                         *)
(* A run snapshots the tree, diffs it against the "files" rows, deletes    *)
(* what changed, embeds the chunks of the files it needs in batches, and   *)
(* appends the embedded rows to "chunks" before it records the finished    *)
(* files in "files".  Every await is a step of its own, and the run may    *)
(* stop between two of them: the process dies, the task is aborted, or the *)
(* awaited call returns an error (an embed failure, a NaN vector, an I/O   *)
(* error) that `?` hands to the caller.  All of these leave the tables as  *)
(* they are and lose every local of the run.                               *)
(*                                                                         *)
(* Data: a file's content is the sequence of its chunk bodies, and stands  *)
(* for its blake3 hash; a chunk row is identified, as content_chunk_id     *)
(* does, by the path it is stored under and its body.                      *)
(***************************************************************************)
EXTENDS Integers, Sequences, FiniteSets

CONSTANTS
    Files,          \* paths relative to the project root
    Bodies,         \* chunk bodies (with the qualified name they belong to)
    Contents,       \* file contents: sequences of bodies
    Absent,         \* "no such file", "no such row"
    Dims,           \* embedding dimensions of the models a run may use
    NoTable,        \* the chunks table does not exist
    BatchSize,      \* engine.recommended_batch_size()
    FlushRows,      \* CHUNK_FLUSH_ROWS
    Faults,         \* calls whose failure the run ignores and that may fail
    MaxCopies,      \* bound: copies of one chunk row that are told apart
    MaxChanges,     \* bound: edits of the tree and upgrades of the program
    MaxInterrupts,  \* bound: runs that stop half-way
    MaxCancels      \* bound: CancelIndex requests

ASSUME IndexerAssumption ==
    /\ IsFiniteSet(Files)
    /\ Contents \subseteq Seq(Bodies)
    /\ Absent \notin Contents
    /\ NoTable \notin Dims
    /\ BatchSize \in Nat \ {0}
    /\ FlushRows \in Nat \ {0}
    /\ Faults \subseteq {"list", "dropFiles"}
    /\ MaxCopies \in Nat \ {0}
    /\ MaxChanges \in Nat /\ MaxInterrupts \in Nat /\ MaxCancels \in Nat

VARIABLES
    disk,           \* the source tree
    files,          \* table "files": path -> hash of the indexed content
    chunks,         \* table "chunks": row -> number of copies
    chunksDim,      \* the vector dimension of table "chunks"
    project,        \* the row of table "projects"
    pc,             \* where the running index_project stands
    dim,            \* engine.dim() of the run
    refresh,        \* the request asked for a full rebuild
    walked,         \* files walk_source_files has visited
    snap,           \* snapshots: path -> content read
    prev,           \* previous: the rows of "files" as listed
    need,           \* need_reindex
    doomed,         \* to_delete: paths the running delete loop still covers
    dropped,        \* to_delete, as computed
    queue,          \* all_pending: <<file, position of the body>>
    cursor,         \* chunks embedded
    flushed,        \* chunks appended to "chunks"
    counted,        \* chunks handed to checkpoint_completed
    remaining,      \* chunks per file not yet checkpointed
    paused,
    cancel,         \* LoadedProject.cancel
    changes, interrupts, cancels   \* counters of the bounded environment

store == <<files, chunks, chunksDim, project>>
locals == <<dim, refresh, walked, snap, prev, need, doomed, dropped, queue,
            cursor, flushed, counted, remaining, paused>>
environment == <<changes, interrupts, cancels>>
vars == <<disk, store, pc, locals, cancel, environment>>

-----------------------------------------------------------------------------
(* Paths and rows *)

\* `rel`: the key of the snapshots and of the "files" rows
Rel(f) == <<"rel", f>>

\* `root.join(rel).display()`: what Chunk.file and so the chunk row holds
FullPath(f) == <<"abs", f>>

ChunkRow == [path : {FullPath(f) : f \in Files} \cup {Rel(f) : f \in Files},
             body : Bodies]

RowOf(f, body) == [path |-> FullPath(f), body |-> body]

NoChunks == [r \in ChunkRow |-> 0]
NoFiles == [f \in Files |-> Absent]

IsStored(f, content) ==
    \A i \in DOMAIN content : chunks[RowOf(f, content[i])] > 0

Project == [dim : Dims, version : {"old", "current"}]

-----------------------------------------------------------------------------
(* Pure parts of a run *)

\* Slip: a file listed before counts as unchanged, whatever its hash
ChangedWithoutHash(now, before) ==
    {f \in Files : now[f] # Absent /\ before[f] = Absent}

\* detect_changes: the paths of the snapshots whose hash is not the listed one
Changed(now, before) == {f \in Files : now[f] # Absent /\ now[f] # before[f]}

\* Slip: rows of files that left the tree are not looked for
RemovedIgnored(now, before) == {}

Removed(now, before) == {f \in Files : now[f] = Absent /\ before[f] # Absent}

\* Slip: no self-heal of an empty chunks table
ForceRebuildWithoutSelfHeal ==
    \/ refresh
    \/ project # Absent /\ project.version = "old"
    \/ project = Absent /\ chunks # NoChunks

ForceRebuild ==
    LET chunksLen == IF chunks = NoChunks THEN 0 ELSE 1
        stale == project # Absent /\ project.version = "old"
        missingRow == project = Absent /\ chunksLen > 0
        selfHeal == prev # NoFiles /\ chunksLen = 0
    IN  refresh \/ stale \/ missingRow \/ selfHeal

\* the chunks of the files to index, as <<file, position of the body>>
Pending(wanted) == UNION {{f} \X DOMAIN snap[f] : f \in wanted}

\* par_iter().enumerate().flat_map().collect(): any order of the files (they
\* come out of a HashMap), each file's chunks together and in file order
EmbedOrders(wanted) ==
    LET P == Pending(wanted)
        N == 1..Cardinality(P)
    IN  {q \in [N -> P] :
            /\ \A p \in P : \E k \in N : q[k] = p
            /\ \A j, k \in N : j < k /\ q[j][1] = q[k][1] =>
                  /\ q[j][2] < q[k][2]
                  /\ \A i \in j..k : q[i][1] = q[j][1]}

QueueRow(k) == RowOf(queue[k][1], snap[queue[k][1]][queue[k][2]])

\* the queue positions first..last that belong to file f
Positions(f, first, last) == {k \in first..last : queue[k][1] = f}

\* Slip: the last pending row is left out of the commit
AppendedShort(tbl, first, last) ==
    [r \in ChunkRow |->
        LET n == tbl[r] + Cardinality({k \in first..(last - 1) : QueueRow(k) = r})
        IN  IF n > MaxCopies THEN MaxCopies ELSE n]

\* ChunksTable::append_batches: `add` keeps rows whose chunk_id already exists
Appended(tbl, first, last) ==
    [r \in ChunkRow |->
        LET n == tbl[r] + Cardinality({k \in first..last : QueueRow(k) = r})
        IN  IF n > MaxCopies THEN MaxCopies ELSE n]

\* ChunksTable::delete_for_files: file_path IN (...), the paths given as is
DeletedRows(tbl, paths) ==
    [r \in ChunkRow |-> IF r.path \in paths THEN 0 ELSE tbl[r]]

\* upsert_files / delete_for_paths on the "files" table
Upserted(tbl, done) == [f \in Files |-> IF f \in done THEN snap[f] ELSE tbl[f]]
DeletedFiles(tbl, gone) ==
    [f \in Files |-> IF f \in gone THEN Absent ELSE tbl[f]]

-----------------------------------------------------------------------------
(* States between runs: no local of index_project exists *)

NoRun ==
    /\ dim = NoTable
    /\ refresh = FALSE
    /\ walked = {}
    /\ snap = NoFiles
    /\ prev = NoFiles
    /\ need = {}
    /\ doomed = {}
    /\ dropped = {}
    /\ queue = <<>>
    /\ cursor = 0
    /\ flushed = 0
    /\ counted = 0
    /\ remaining = [f \in Files |-> 0]
    /\ paused = FALSE

Init ==
    /\ disk \in [Files -> Contents \cup {Absent}]
    /\ files = NoFiles
    /\ chunks = NoChunks
    /\ chunksDim = NoTable
    /\ project = Absent
    /\ pc = "idle"
    /\ NoRun
    /\ cancel = FALSE
    /\ changes = 0
    /\ interrupts = 0
    /\ cancels = 0

-----------------------------------------------------------------------------
(* One run of index_project, one action per await *)

Begin(d, r) ==
    /\ pc = "idle"
    /\ pc' = "walk"
    /\ dim' = d
    /\ refresh' = r
    /\ cancel' = FALSE
    /\ UNCHANGED <<disk, store, walked, snap, prev, need, doomed, dropped,
                   queue, cursor, flushed, counted, remaining, paused,
                   environment>>

\* walk_source_files reads one file after the other; edits fall in between
WalkFile(f) ==
    /\ pc = "walk"
    /\ f \notin walked
    /\ walked' = walked \cup {f}
    /\ snap' = [snap EXCEPT ![f] = disk[f]]
    /\ pc' = IF walked' = Files THEN "list" ELSE "walk"
    /\ UNCHANGED <<disk, store, dim, refresh, prev, need, doomed, dropped,
                   queue, cursor, flushed, counted, remaining, paused, cancel,
                   environment>>

\* `files_table.list().await.unwrap_or_default()`
ListFiles ==
    /\ pc = "list"
    /\ pc' = "open"
    /\ \/ prev' = files
       \/ "list" \in Faults /\ prev' = NoFiles
    /\ UNCHANGED <<disk, store, dim, refresh, walked, snap, need, doomed,
                   dropped, queue, cursor, flushed, counted, remaining, paused,
                   cancel, environment>>

\* ChunksTable::open; a table of another dimension is dropped and made anew
OpenChunks ==
    /\ pc = "open"
    /\ pc' = IF chunksDim \in {dim, NoTable} THEN "plan" ELSE "dropFiles"
    /\ chunksDim' = IF chunksDim = NoTable THEN dim ELSE chunksDim
    /\ UNCHANGED <<disk, files, chunks, project, locals, cancel, environment>>

\* `db.drop_table("files").await.ok()`; the table is created again, empty, by
\* the next FilesTable::open
DropFiles ==
    /\ pc = "dropFiles"
    /\ pc' = "dropChunks"
    /\ \/ files' = NoFiles
       \/ "dropFiles" \in Faults /\ files' = files
    /\ UNCHANGED <<disk, chunks, chunksDim, project, locals, cancel,
                   environment>>

DropChunks ==
    /\ pc = "dropChunks"
    /\ pc' = "open"
    /\ chunks' = NoChunks
    /\ chunksDim' = NoTable
    /\ UNCHANGED <<disk, files, project, locals, cancel, environment>>

\* Slip: only the rows of removed files are deleted
PlanRunKeepsRows ==
    /\ pc = "plan"
    /\ need' = IF ForceRebuild THEN {f \in Files : snap[f] # Absent}
                               ELSE Changed(snap, prev)
    /\ dropped' = Removed(snap, prev)
    /\ doomed' = dropped'
    /\ pc' = IF dropped' = {} THEN "chunk" ELSE "deleteChunks"
    /\ UNCHANGED <<disk, store, dim, refresh, walked, snap, prev, queue, cursor,
                   flushed, counted, remaining, paused, cancel, environment>>

PlanRun ==
    /\ pc = "plan"
    /\ need' = IF ForceRebuild THEN {f \in Files : snap[f] # Absent}
                               ELSE Changed(snap, prev)
    /\ dropped' = IF ForceRebuild THEN {f \in Files : prev[f] # Absent}
                                  ELSE Removed(snap, prev) \cup need'
    /\ doomed' = dropped'
    /\ pc' = IF dropped' = {} THEN "chunk" ELSE "deleteChunks"
    /\ UNCHANGED <<disk, store, dim, refresh, walked, snap, prev, queue, cursor,
                   flushed, counted, remaining, paused, cancel, environment>>

\* one commit per predicate of file_path_delete_filters
DeleteChunks ==
    /\ pc = "deleteChunks"
    /\ \E batch \in SUBSET doomed \ {{}} :
          /\ chunks' = DeletedRows(chunks, {Rel(f) : f \in batch})
          /\ IF batch = doomed
             THEN doomed' = dropped /\ pc' = "deleteFiles"
             ELSE doomed' = doomed \ batch /\ pc' = pc
    /\ UNCHANGED <<disk, files, chunksDim, project, dim, refresh, walked, snap,
                   prev, need, dropped, queue, cursor, flushed, counted,
                   remaining, paused, cancel, environment>>

DeleteFiles ==
    /\ pc = "deleteFiles"
    /\ \E batch \in SUBSET doomed \ {{}} :
          /\ files' = DeletedFiles(files, batch)
          /\ doomed' = doomed \ batch
          /\ pc' = IF batch = doomed THEN "chunk" ELSE pc
    /\ UNCHANGED <<disk, chunks, chunksDim, project, dim, refresh, walked, snap,
                   prev, need, dropped, queue, cursor, flushed, counted,
                   remaining, paused, cancel, environment>>

\* chunk the needed files, count them, and record those without a chunk
ChunkFiles ==
    /\ pc = "chunk"
    /\ need # {}
    /\ queue' \in EmbedOrders(need)
    /\ remaining' = [f \in Files |->
                        Cardinality({k \in DOMAIN queue' : queue'[k][1] = f})]
    /\ files' = Upserted(files, {f \in need : remaining'[f] = 0})
    /\ pc' = IF Len(queue') = 0 THEN "finish" ELSE "embed"
    /\ UNCHANGED <<disk, chunks, chunksDim, project, dim, refresh, walked, snap,
                   prev, need, doomed, dropped, cursor, flushed, counted,
                   paused, cancel, environment>>

\* the top of the loop finds the cancel flag set; pending rows are still flushed
Pause ==
    /\ pc = "embed"
    /\ cancel
    /\ paused' = TRUE
    /\ pc' = IF flushed < cursor THEN "append" ELSE "finish"
    /\ UNCHANGED <<disk, store, dim, refresh, walked, snap, prev, need, doomed,
                   dropped, queue, cursor, flushed, counted, remaining, cancel,
                   environment>>

EmbedBatch ==
    /\ pc = "embed"
    /\ ~cancel
    /\ cursor' = IF cursor + BatchSize < Len(queue) THEN cursor + BatchSize
                                                    ELSE Len(queue)
    /\ pc' = IF cursor' - flushed >= FlushRows \/ cursor' = Len(queue)
             THEN "append" ELSE "embed"
    /\ UNCHANGED <<disk, store, dim, refresh, walked, snap, prev, need, doomed,
                   dropped, queue, flushed, counted, remaining, paused, cancel,
                   environment>>

AppendBatches ==
    /\ pc = "append"
    /\ chunks' = Appended(chunks, flushed + 1, cursor)
    /\ flushed' = cursor
    /\ pc' = "checkpoint"
    /\ UNCHANGED <<disk, files, chunksDim, project, dim, refresh, walked, snap,
                   prev, need, doomed, dropped, queue, cursor, counted,
                   remaining, paused, cancel, environment>>

\* Slip: a file is recorded as soon as a flush holds one of its chunks
CheckpointTouched ==
    /\ pc = "checkpoint"
    /\ LET drained(f) == Cardinality(Positions(f, counted + 1, flushed))
       IN  /\ remaining' = [f \in Files |-> remaining[f] - drained(f)]
           /\ files' = Upserted(files, {f \in Files : drained(f) > 0})
    /\ counted' = flushed
    /\ pc' = IF paused \/ cursor = Len(queue) THEN "finish" ELSE "embed"
    /\ UNCHANGED <<disk, chunks, chunksDim, project, dim, refresh, walked, snap,
                   prev, need, doomed, dropped, queue, cursor, flushed, paused,
                   cancel, environment>>

\* Slip: pending_file_idxs is not taken, so a flush is counted again
CheckpointTwice ==
    /\ pc = "checkpoint"
    /\ LET drained(f) == Cardinality(Positions(f, counted + 1, flushed))
       IN  /\ remaining' = [f \in Files |-> remaining[f] - drained(f)]
           /\ files' = Upserted(files, {f \in Files : drained(f) > 0 /\ remaining'[f] = 0})
    /\ counted' = counted
    /\ pc' = IF paused \/ cursor = Len(queue) THEN "finish" ELSE "embed"
    /\ UNCHANGED <<disk, chunks, chunksDim, project, dim, refresh, walked, snap,
                   prev, need, doomed, dropped, queue, cursor, flushed, paused,
                   cancel, environment>>

\* checkpoint_completed: files whose last chunk is in this flush are recorded
CheckpointCompleted ==
    /\ pc = "checkpoint"
    /\ LET drained(f) == Cardinality(Positions(f, counted + 1, flushed))
       IN  /\ remaining' = [f \in Files |-> remaining[f] - drained(f)]
           /\ files' = Upserted(files, {f \in Files : drained(f) > 0 /\ remaining'[f] = 0})
    /\ counted' = flushed
    /\ pc' = IF paused \/ cursor = Len(queue) THEN "finish" ELSE "embed"
    /\ UNCHANGED <<disk, chunks, chunksDim, project, dim, refresh, walked, snap,
                   prev, need, doomed, dropped, queue, cursor, flushed, paused,
                   cancel, environment>>

\* the future of index_project is gone, and its locals with it
Return ==
    /\ pc' = "idle"
    /\ dim' = NoTable
    /\ refresh' = FALSE
    /\ walked' = {}
    /\ snap' = NoFiles
    /\ prev' = NoFiles
    /\ need' = {}
    /\ doomed' = {}
    /\ dropped' = {}
    /\ queue' = <<>>
    /\ cursor' = 0
    /\ flushed' = 0
    /\ counted' = 0
    /\ remaining' = [f \in Files |-> 0]
    /\ paused' = FALSE

NothingToReindex ==
    /\ pc = "chunk"
    /\ need = {}
    /\ Return
    /\ UNCHANGED <<disk, store, cancel, environment>>

\* optimize, FTS and vector indexes keep the rows; then upsert_project, paused or not
UpsertProject ==
    /\ pc = "finish"
    /\ project' = [dim |-> dim, version |-> "current"]
    /\ Return
    /\ UNCHANGED <<disk, files, chunks, chunksDim, cancel, environment>>

RunStep ==
    \/ \E f \in Files : WalkFile(f)
    \/ ListFiles \/ OpenChunks \/ DropFiles \/ DropChunks
    \/ PlanRun \/ DeleteChunks \/ DeleteFiles
    \/ ChunkFiles \/ Pause \/ EmbedBatch \/ AppendBatches \/ CheckpointCompleted
    \/ NothingToReindex \/ UpsertProject

StartRun == \E d \in Dims, r \in BOOLEAN : Begin(d, r)

-----------------------------------------------------------------------------
(* The environment *)

\* an error, an abort of the task or the death of the process ends the run
Interrupt ==
    /\ pc # "idle"
    /\ interrupts < MaxInterrupts
    /\ interrupts' = interrupts + 1
    /\ Return
    /\ UNCHANGED <<disk, store, cancel, changes, cancels>>

Edit(f, content) ==
    /\ changes < MaxChanges
    /\ disk[f] # content
    /\ disk' = [disk EXCEPT ![f] = content]
    /\ changes' = changes + 1
    /\ UNCHANGED <<store, pc, locals, cancel, interrupts, cancels>>

\* a release with a higher INDEX_FORMAT_VERSION is installed
Upgrade ==
    /\ pc = "idle"
    /\ changes < MaxChanges
    /\ project # Absent
    /\ project.version = "current"
    /\ project' = [project EXCEPT !.version = "old"]
    /\ changes' = changes + 1
    /\ UNCHANGED <<disk, files, chunks, chunksDim, pc, locals, cancel,
                   interrupts, cancels>>

\* the CancelIndex handler; a cancel between runs is undone by Begin
CancelIndex ==
    /\ pc # "idle"
    /\ ~cancel
    /\ cancels < MaxCancels
    /\ cancel' = TRUE
    /\ cancels' = cancels + 1
    /\ UNCHANGED <<disk, store, pc, locals, changes, interrupts>>

Next ==
    \/ StartRun
    \/ RunStep
    \/ Interrupt
    \/ \E f \in Files, c \in Contents \cup {Absent} : Edit(f, c)
    \/ Upgrade
    \/ CancelIndex

Spec == Init /\ [][Next]_vars

\* a run that has started is polled to its end, and the user or the watcher
\* starts another one
FairSpec == Spec /\ WF_vars(RunStep) /\ WF_vars(StartRun)

-----------------------------------------------------------------------------
(* Properties *)

Steps == {"idle", "walk", "list", "open", "dropFiles", "dropChunks", "plan",
          "deleteChunks", "deleteFiles", "chunk", "embed", "append",
          "checkpoint", "finish"}

\* The tables and the locals of a run hold values of their kind, and the three
\* cursors of the embed loop never overtake each other.
TypeOK ==
    /\ disk \in [Files -> Contents \cup {Absent}]
    /\ files \in [Files -> Contents \cup {Absent}]
    /\ chunks \in [ChunkRow -> 0..MaxCopies]
    /\ chunksDim \in Dims \cup {NoTable}
    /\ project \in Project \cup {Absent}
    /\ pc \in Steps
    /\ dim \in Dims \cup {NoTable}
    /\ refresh \in BOOLEAN
    /\ walked \subseteq Files
    /\ snap \in [Files -> Contents \cup {Absent}]
    /\ prev \in [Files -> Contents \cup {Absent}]
    /\ need \subseteq Files
    /\ doomed \subseteq Files
    /\ dropped \subseteq Files
    /\ queue \in Seq(Files \X (Nat \ {0}))
    /\ counted \in 0..flushed
    /\ flushed \in 0..cursor
    /\ cursor \in 0..Len(queue)
    /\ remaining \in [Files -> Nat]
    /\ paused \in BOOLEAN
    /\ cancel \in BOOLEAN
    /\ changes \in 0..MaxChanges
    /\ interrupts \in 0..MaxInterrupts
    /\ cancels \in 0..MaxCancels

\* The checkpoint: a file is recorded in "files" only while every chunk of the
\* recorded content is in "chunks", whatever step a run stopped at.  If dropping
\* "files" may fail unnoticed, the table of chunks is then empty as a whole, the
\* state the self-heal of the next run looks for.
RecordedMeansStored ==
    \A f \in Files : files[f] # Absent =>
        \/ IsStored(f, files[f])
        \/ "dropFiles" \in Faults /\ chunks = NoChunks

\* While a run embeds, each file of the snapshot is either recorded with the
\* content the run read, or unrecorded with chunks the run has yet to count: a
\* run stopped here forgets no file and leaves no row of an older content
\* (a row the failed listing did not show stays until its file is done).
EveryFileAccounted ==
    pc \in {"embed", "append", "checkpoint"} =>
        \A f \in Files :
            \/ files[f] = snap[f]
            \/ /\ f \in need /\ remaining[f] > 0
               /\ files[f] = Absent \/ "list" \in Faults
            \/ snap[f] = Absent /\ "list" \in Faults

\* A run that returns Ok without having been paused leaves "files" equal to the
\* tree it read: changed files recorded, removed ones gone (those last unless
\* the listing of the table failed, which the run treats as an empty table).
PublishesSnapshot ==
    [][ (pc # "idle" /\ pc' = "idle" /\ interrupts' = interrupts /\ ~paused) =>
          \A f \in Files : \/ files'[f] = snap[f]
                           \/ "list" \in Faults /\ snap[f] = Absent ]_vars

\* Once the tree is left alone and the faults are over (the table can be listed
\* again), indexing again brings "files" up to date with the tree.
Converges ==
    <>[][pc = "list" /\ pc' = "open" => prev' = files]_vars => []<>(files = disk)

\* The tables keep the catalog's promise through every run, stop and restart
\* (when dropping "files" does not fail).
Cat == INSTANCE Catalog
         WITH listed <- files,
              stored <- {p \in Files \X Bodies : chunks[RowOf(p[1], p[2])] > 0}
KeepsCatalog == Cat!Spec

\* indexer.rs:200-201 and 547-550: deleting a file's chunks before it is
\* indexed again keeps a chunk_id from being stored twice.
NoDuplicateRows == \A r \in ChunkRow : chunks[r] <= 1

\* indexer.rs:1007-1009: a file row is "the checkpoint a resumed run relies
\* on", so a run that was not asked for a rebuild, over tables of the current
\* format, does not index again a file recorded with the content it read.
ResumeSkipsRecorded ==
    [][ (pc = "plan" /\ pc' # "idle" /\ ~refresh
           /\ (project = Absent \/ project.version = "current")) =>
          \A f \in need' : ~(files[f] = snap[f] /\ IsStored(f, snap[f])) ]_vars

=============================================================================
