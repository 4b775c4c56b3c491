------------------------------ MODULE Embedding ------------------------------
(***************************************************************************)
(* The embed loop of index_project over an AnyEmbedEngine, with searches   *)
(* that embed their query on the same engine (zrag-pipeline/src/indexer.rs,*)
(* zrag-embed/src/any.rs).                                                 *)
(*                                                                         *)
(* The loop keeps a local engine busy by submitting a batch before it      *)
(* awaits the one before; a remote engine it calls batch by batch.  Batch  *)
(* k of the loop is job or call k; a query is a job or call of its own.    *)
(***************************************************************************)
EXTENDS EmbedWorker, RemoteEmbed

CONSTANTS
    Batches,        \* how many batches the run has
    Queries         \* searches

BatchIds == 1..Batches
Callers == {"indexer"} \cup Queries

EmbeddingAssumption ==
    /\ Batches \in Nat
    /\ Jobs = BatchIds \cup Queries /\ Calls = Jobs
    /\ "indexer" \notin Queries

VARIABLES
    kind,           \* the engine is "local" or "remote"
    pc,             \* per caller: "idle", "top", "next", "await" or an end
    cursor,         \* the batch the loop is at
    pending,        \* the job whose reply the loop awaits: pending_rx
    ahead,          \* the job submitted after it: next_rx
    taken           \* per batch taken: the batch the loop took it for, its rows

loop == <<cursor, pending, ahead, taken>>
vars == <<worker, remote, kind, pc, loop>>

Ends == {"done", "paused", "failed"}

Init ==
    /\ WorkerInit /\ RemoteInit
    /\ kind \in {"local", "remote"}
    /\ pc = [c \in Callers |-> "idle"]
    /\ cursor = 1 /\ pending = NoJob /\ ahead = NoJob /\ taken = <<>>

Step(c, to) == pc' = [pc EXCEPT ![c] = to]

\* what the rest of a step after a submit depends on
Refused(j) == reply'[j] = "gone"

-----------------------------------------------------------------------------
(* The embed loop *)

Begin ==
    /\ pc["indexer"] = "idle"
    /\ Step("indexer", "top")
    /\ UNCHANGED <<worker, remote, kind, loop>>

\* the loop has no batch left
LoopEnds ==
    /\ pc["indexer"] = "top" /\ cursor > Batches
    /\ Step("indexer", "done")
    /\ UNCHANGED <<worker, remote, kind, loop>>

\* cancel is set: pending_rx is dropped with the loop
Pause ==
    /\ pc["indexer"] = "top" /\ cursor <= Batches
    /\ Step("indexer", "paused")
    /\ UNCHANGED <<worker, remote, kind, loop>>

\* submit_texts_pooled, unless the batch before has seen to it
SubmitCurrent ==
    /\ kind = "local" /\ pc["indexer"] = "top" /\ cursor <= Batches
    /\ IF pending = NoJob
       THEN /\ Submit(cursor)
            /\ pending' = cursor
            /\ Step("indexer", IF Refused(cursor) THEN "failed" ELSE "next")
       ELSE Step("indexer", "next") /\ UNCHANGED <<worker, pending>>
    /\ UNCHANGED <<remote, kind, cursor, ahead, taken>>

SubmitAhead ==
    /\ pc["indexer"] = "next"
    /\ IF cursor < Batches
       THEN /\ Submit(cursor + 1)
            /\ ahead' = cursor + 1
            /\ Step("indexer", IF Refused(cursor + 1) THEN "failed" ELSE "await")
       ELSE /\ ahead' = NoJob
            /\ Step("indexer", "await") /\ UNCHANGED worker
    /\ UNCHANGED <<remote, kind, cursor, pending, taken>>

CallRemote ==
    /\ kind = "remote" /\ pc["indexer"] = "top" /\ cursor <= Batches
    /\ StartCall(cursor)
    /\ Step("indexer", "await")
    /\ UNCHANGED <<worker, kind, loop>>

\* the rows a finished job or call has
RowsFor(j) == IF kind = "local" THEN Expected(j) ELSE rows[j]

\* Slip: the rows are not counted.
TakeUncounted ==
    /\ pc["indexer"] = "await"
    /\ LET j == IF kind = "local" THEN pending ELSE cursor
       IN  /\ (IF kind = "local" THEN reply[j] ELSE result[j]) = "rows"
           /\ taken' = Append(taken, [batch |-> cursor, of |-> j, rows |-> RowsFor(j)])
    /\ pending' = ahead /\ ahead' = NoJob
    /\ cursor' = cursor + 1
    /\ Step("indexer", "top")
    /\ UNCHANGED <<worker, remote, kind>>

\* rows for as many texts as the batch has, and the loop goes on
TakeBatch ==
    /\ pc["indexer"] = "await"
    /\ LET j == IF kind = "local" THEN pending ELSE cursor
       IN  /\ (IF kind = "local" THEN reply[j] ELSE result[j]) = "rows"
           /\ Len(RowsFor(j)) = Len(Expected(cursor))
           /\ taken' = Append(taken, [batch |-> cursor, of |-> j, rows |-> RowsFor(j)])
    /\ pending' = ahead /\ ahead' = NoJob
    /\ cursor' = cursor + 1
    /\ Step("indexer", "top")
    /\ UNCHANGED <<worker, remote, kind>>

\* an error, a worker that is gone, or a wrong number of rows
BatchFails ==
    /\ pc["indexer"] = "await"
    /\ LET j == IF kind = "local" THEN pending ELSE cursor
           got == IF kind = "local" THEN reply[j] ELSE result[j]
       IN  \/ got \in {"error", "gone"}
           \/ got = "rows" /\ Len(RowsFor(j)) # Len(Expected(cursor))
    /\ Step("indexer", "failed")
    /\ UNCHANGED <<worker, remote, kind, loop>>

\* the connection breaks while the loop awaits; what is submitted stays so
Abort ==
    /\ pc["indexer"] = "await"
    /\ Step("indexer", "failed")
    /\ IF kind = "remote" THEN DropCall(cursor) ELSE UNCHANGED remote
    /\ UNCHANGED <<worker, kind, loop>>

-----------------------------------------------------------------------------
(* A search: embed_query_async *)

AskQuery(q) ==
    /\ pc[q] = "idle"
    /\ IF kind = "local"
       THEN /\ Submit(q)
            /\ Step(q, IF Refused(q) THEN "failed" ELSE "await")
            /\ UNCHANGED remote
       ELSE /\ StartCall(q)
            /\ Step(q, "await") /\ UNCHANGED worker
    /\ UNCHANGED <<kind, loop>>

\* an answer without a vector is an error here as well
AnswerQuery(q) ==
    /\ pc[q] = "await"
    /\ LET got == IF kind = "local" THEN reply[q] ELSE result[q]
       IN  /\ got \in {"rows", "error", "gone"}
           /\ Step(q, IF got = "rows" /\ RowsFor(q) # <<>> THEN "done" ELSE "failed")
    /\ UNCHANGED <<worker, remote, kind, loop>>

\* the daemon goes down once nobody is served: the last Arc of the engine
Shutdown ==
    /\ \A c \in Callers : pc[c] \in Ends
    /\ DropEngine
    /\ UNCHANGED <<remote, kind, pc, loop>>

CallerStep(c) ==
    \/ /\ c = "indexer"
       /\ \/ LoopEnds \/ SubmitCurrent \/ SubmitAhead \/ CallRemote
          \/ TakeBatch \/ BatchFails
    \/ c \in Queries /\ AnswerQuery(c)

\* a panic; a turn of the tokenizer or GPU thread, of the HTTP client, of the provider
Panic == (TokPanics \/ GpuPanics) /\ UNCHANGED <<remote, kind, pc, loop>>
TokTurn == TokStep /\ UNCHANGED <<remote, kind, pc, loop>>
GpuTurn == GpuStep /\ UNCHANGED <<remote, kind, pc, loop>>
ClientTurn == ClientStep /\ UNCHANGED <<worker, kind, pc, loop>>
ProviderTurn == ProviderStep /\ UNCHANGED <<worker, kind, pc, loop>>

Next ==
    \/ Begin \/ Pause \/ Abort
    \/ \E c \in Callers : CallerStep(c)
    \/ \E q \in Queries : AskQuery(q)
    \/ Panic \/ TokTurn \/ GpuTurn \/ ClientTurn \/ ProviderTurn
    \/ Shutdown

Spec == Init /\ [][Next]_vars

\* threads run, tokio polls its tasks, and the client's timeout ends a request
\* the provider leaves open
FairSpec ==
    /\ Spec
    /\ \A c \in Callers : WF_vars(CallerStep(c))
    /\ WF_vars(TokTurn)
    /\ WF_vars(GpuTurn)
    /\ WF_vars(ClientTurn)
    /\ WF_vars(ProviderTurn)

-----------------------------------------------------------------------------
(* Properties *)

Replies == {"none", "waiting", "rows", "error", "gone"}

\* Channels and slots hold jobs, the window is never wider than the provider
\* allows, and no request is tried more often than MAX_RETRIES allows.
TypeOK ==
    /\ kind \in {"local", "remote"}
    /\ pc \in [Callers -> {"idle", "top", "next", "await"} \cup Ends]
    /\ jobs \in Seq(Jobs) /\ encoded \in Seq(Jobs)
    /\ {encoding, running, pending, ahead} \subseteq Jobs \cup {NoJob}
    /\ reply \in [Jobs -> Replies]
    /\ result \in [Calls -> {"none", "running", "rows", "error"}]
    /\ \A c \in Calls :
          /\ Len(window[c]) <= MaxConcurrency
          /\ \A i \in DOMAIN window[c] : window[c][i].attempt <= MaxRetries
    /\ cursor \in 1..(Batches + 1)

\* A row ahead of another answers an earlier sub-batch, or an earlier text of its own.
Before(a, b) == a[1] < b[1] \/ (a[1] = b[1] /\ a[2] < b[2])
InTurn(r) == \A i, k \in DOMAIN r : i < k => Before(r[i], r[k])

\* An answer had a row that answers no text of its sub-batch.
Surplus(r) == \E i \in DOMAIN r : r[i][2] > SubRows

\* indexer.rs:639-656, client.rs:180-193: the rows the loop stores for a batch are
\* those of the batch's own texts, in their order, although one batch is always in
\* flight ahead, and remote answers finish in any order and may lack rows.  Only the
\* sum of the rows is compared with the texts: where an answer of the provider had rows
\* too many, the batch has as many rows as texts, in the order of the sub-batches.
RowsAligned ==
    \A k \in DOMAIN taken :
        /\ taken[k].batch = k /\ taken[k].of = k
        /\ Len(taken[k].rows) = Len(Expected(k))
        /\ \/ taken[k].rows = Expected(k)
           \/ kind = "remote" /\ Surplus(taken[k].rows) /\ InTurn(taken[k].rows)

\* Not so: a row too many in one sub-batch and one too few in another shift the rows
\* between them by a text.
NeverShifted == \A k \in DOMAIN taken : taken[k].rows = Expected(k)

\* jobs that are accepted and not answered, the one on the GPU first
InHand(j) == IF j = NoJob THEN <<>> ELSE <<j>>
Line == InHand(running) \o encoded \o InHand(encoding) \o jobs

Answer(r) == IF r = "rows" THEN "rows"
             ELSE IF r \in {"error", "gone"} THEN "failure" ELSE "none"

\* engine.rs:538-574: the two threads and their channels serve jobs in the order
\* they were submitted in and answer each at most once, whatever fails.
Service == INSTANCE EmbedService WITH
    line <- Line, answer <- [j \in Jobs |-> Answer(reply[j])]
ServesInOrder == Service!Spec

\* Whoever awaits an embedding gets on: no thread's end, error or panic, no
\* retry and no provider leaves a caller waiting for ever.
CallersGetOn == \A c \in Callers : (pc[c] = "await") ~> (pc[c] # "await")

\* engine.rs:536-537: dropping the engine ends both threads, the jobs that are
\* queued before it first.
ThreadsEnd == (~open) ~> (tok = "down" /\ gpu = "down")

=============================================================================
