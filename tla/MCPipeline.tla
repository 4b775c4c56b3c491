----------------------------- MODULE MCPipeline -----------------------------
(* The index pipeline, for liveness and for the failed listing: a behaviour  *)
(* is one of index runs, or one of the engine under the embed loop, or one   *)
(* of the connection that reports a run, while the other components stay in  *)
(* an initial state.                                                         *)
EXTENDS Integers, Sequences, FiniteSets

CONSTANTS Files, Bodies, Contents, Absent, Dims, NoTable, BatchSize, FlushRows, Faults,
          MaxCopies, MaxChanges, MaxInterrupts, MaxCancels,
          Batches, Queries, NoJob, Rows(_), SubBatches(_), SubRows, Ceiling, MaxConcurrency,
          MaxRetries, AnswerRows, MaxFaults, MaxPanics,
          MaxFiles, MaxChunks, StreamBatch, Room, MaxAsks, MaxExits

CONSTANTS f1, f2, q1

VARIABLES
    part,
    disk, files, chunks, chunksDim, project, pc, dim, refresh, walked, snap, prev, need,
    doomed, dropped, queue, cursor, flushed, counted, remaining, paused, cancel, changes,
    interrupts, cancels,
    open, jobs, tok, encoding, encoded, gpu, running, reply, panics, result, next, window,
    rows, faults, kind, caller, batch, pending, ahead, taken,
    serving, inbox, run, size, count, meter, channel, wire, client, asked, got, answer,
    bar, sent, asks, exits

indexer == <<disk, files, chunks, chunksDim, project, pc, dim, refresh, walked, snap, prev,
             need, doomed, dropped, queue, cursor, flushed, counted, remaining, paused,
             cancel, changes, interrupts, cancels>>
embedding == <<open, jobs, tok, encoding, encoded, gpu, running, reply, panics, result, next,
               window, rows, faults, kind, caller, batch, pending, ahead, taken>>
stream == <<serving, inbox, run, size, count, meter, channel, wire, client, asked, got,
            answer, bar, sent, asks, exits>>
vars == <<part, indexer, embedding, stream>>

\* Two versions of a file that differ in one chunk; a batch of the index run is two
\* sub-batches for the provider, a query one.
TwoVersions == {<<"b1">>, <<"b2", "b1">>}
TwoOfBatch(c) == IF c = q1 THEN 1 ELSE 2

Jobs == 1..Batches \cup Queries

\* The modules of the proofs are the components with the theorems about them.
I == INSTANCE IndexerProofs
E == INSTANCE EmbeddingProofs WITH Calls <- Jobs, pc <- caller, cursor <- batch
S == INSTANCE IndexStreamProofs WITH BatchSize <- StreamBatch

ASSUME Bounds ==
    /\ I!IndexerAssumption
    /\ E!EmbeddingAssumption /\ E!EmbedWorkerAssumption /\ E!RemoteEmbedAssumption
    /\ S!StreamAssumption

Init ==
    /\ part \in {"indexer", "embedding", "stream"} /\ I!Init /\ E!Init /\ S!Init
    /\ part # "embedding" => kind = "local"
    /\ part # "indexer" => disk = [f \in Files |-> Absent]

Next ==
    \/ part = "indexer" /\ I!Next /\ UNCHANGED <<part, embedding, stream>>
    \/ part = "embedding" /\ E!Next /\ UNCHANGED <<part, indexer, stream>>
    \/ part = "stream" /\ S!Next /\ UNCHANGED <<part, indexer, embedding>>

\* The fairness that each component states, of the behaviours that are its own.
FairSpec ==
    /\ Init /\ [][Next]_vars
    /\ WF_indexer(part = "indexer" /\ I!RunStep)
    /\ WF_indexer(part = "indexer" /\ I!StartRun)
    /\ \A c \in E!Callers : WF_embedding(part = "embedding" /\ E!CallerStep(c))
    /\ WF_embedding(part = "embedding" /\ E!TokTurn)
    /\ WF_embedding(part = "embedding" /\ E!GpuTurn)
    /\ WF_embedding(part = "embedding" /\ E!ClientTurn)
    /\ WF_embedding(part = "embedding" /\ E!ProviderTurn)
    /\ WF_stream(part = "stream" /\ S!RunStep)
    /\ WF_stream(part = "stream" /\ S!HandlerStep)
    /\ WF_stream(part = "stream" /\ S!ClientStep)

\* Indexer: the tables implement Catalog.
KeepsCatalog == I!KeepsCatalog

\* Indexer: "files" comes to equal the tree again and again.
Converges == I!Converges

\* Embedding: the loop takes the rows of the batch it asked for, shifted at most by an
\* answer that had rows too many; IndexStream: a client gets every report of its run, in
\* order, and then one answer, and draws what fits them (and the variables of both are
\* of their types).
InOrder ==
    /\ E!TypeOK /\ E!RowsAligned
    /\ S!TypeOK /\ S!OneTerminalFrame /\ S!BarFits

\* Embedding: the two threads implement EmbedService.
ServesInOrder == E!ServesInOrder

\* Embedding: nobody awaits an embedding for ever; IndexStream: nor an answer.
CallersGetOn == E!CallersGetOn /\ S!RequestsEnd

\* Embedding: dropping the engine ends its threads.
ThreadsEnd == E!ThreadsEnd

=============================================================================
