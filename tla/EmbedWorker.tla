----------------------------- MODULE EmbedWorker -----------------------------
(***************************************************************************)
(* The local embedding engine (zrag-embed/src/engine.rs): a tokenizer      *)
(* thread and a GPU thread behind two unbounded channels, and a one-shot   *)
(* reply per job.  Callers never block a thread: they send a job and await *)
(* its reply, or drop it.                                                  *)
(*                                                                         *)
(* A thread ends when its channel is closed and empty, or when it panics.  *)
(* A channel whose receiver is gone drops what it holds, and with every    *)
(* job its reply sender: the caller is told that the worker is gone.       *)
(***************************************************************************)
EXTENDS Integers, Sequences, FiniteSets

CONSTANTS
    Jobs,           \* jobs anybody may submit
    NoJob,          \* a thread that waits on its channel
    Rows(_),        \* rows a job has, one per text
    Ceiling,        \* BATCH_CEILING
    MaxPanics       \* bound: threads that panic

EmbedWorkerAssumption ==
    /\ NoJob \notin Jobs
    /\ \A j \in Jobs : Rows(j) \in Nat
    /\ Ceiling \in Nat /\ MaxPanics \in Nat

VARIABLES
    open,           \* somebody still holds the engine, and with it tx
    jobs,           \* the channel of EmbedRequests
    tok,            \* "up" or "down": the tokenizer thread
    encoding,       \* the job it encodes
    encoded,        \* the channel of encoded jobs
    gpu,            \* "up" or "down": the GPU thread
    running,        \* the job it runs
    reply,          \* per job: "none", "waiting", "rows", "error" or "gone"
    panics

worker == <<open, jobs, tok, encoding, encoded, gpu, running, reply, panics>>

WorkerInit ==
    /\ open = TRUE
    /\ jobs = <<>> /\ tok = "up" /\ encoding = NoJob
    /\ encoded = <<>> /\ gpu = "up" /\ running = NoJob
    /\ reply = [j \in Jobs |-> "none"]
    /\ panics = 0

InSeq(s) == {s[i] : i \in DOMAIN s}

\* the reply senders of these jobs are dropped
Gone(lost) == [j \in Jobs |-> IF j \in lost THEN "gone" ELSE reply[j]]

\* EmbedEngine::submit_texts: queued, or refused because nobody receives
Submit(j) ==
    /\ open
    /\ reply[j] = "none"
    /\ IF tok = "up" THEN /\ jobs' = Append(jobs, j)
                          /\ reply' = [reply EXCEPT ![j] = "waiting"]
                     ELSE /\ reply' = [reply EXCEPT ![j] = "gone"]
                          /\ UNCHANGED jobs
    /\ UNCHANGED <<open, tok, encoding, encoded, gpu, running, panics>>

-----------------------------------------------------------------------------
(* The tokenizer thread *)

TokReceive ==
    /\ tok = "up" /\ encoding = NoJob /\ jobs # <<>>
    /\ encoding' = Head(jobs) /\ jobs' = Tail(jobs)
    /\ UNCHANGED <<open, tok, encoded, gpu, running, reply, panics>>

TokHandsOn ==
    /\ encoding # NoJob /\ gpu = "up"
    /\ encoded' = Append(encoded, encoding)
    /\ encoding' = NoJob
    /\ UNCHANGED <<open, jobs, tok, gpu, running, reply, panics>>

\* encode_batch fails: the caller is told, past the jobs the GPU still has
TokFails ==
    /\ encoding # NoJob
    /\ reply' = [reply EXCEPT ![encoding] = "error"]
    /\ encoding' = NoJob
    /\ UNCHANGED <<open, jobs, tok, encoded, gpu, running, panics>>

\* Slip: the reply senders outlive the thread.
TokStopsSilently ==
    /\ tok' = "down"
    /\ jobs' = <<>> /\ encoding' = NoJob
    /\ UNCHANGED <<open, encoded, gpu, running, reply>>

\* the thread is over, and with it the receiver of the jobs
TokStops ==
    /\ tok' = "down"
    /\ reply' = Gone(InSeq(jobs) \cup ({encoding} \ {NoJob}))
    /\ jobs' = <<>> /\ encoding' = NoJob
    /\ UNCHANGED <<open, encoded, gpu, running>>

\* enc_tx.send fails because the GPU thread is gone
TokBreaks == encoding # NoJob /\ gpu = "down" /\ TokStops /\ UNCHANGED panics

\* Slip: the thread holds a sender of its own channel.
TokKeepsSender == open /\ ~open /\ TokStops /\ UNCHANGED panics

\* every sender is gone and the channel is empty
TokEnds ==
    /\ tok = "up" /\ encoding = NoJob /\ jobs = <<>> /\ ~open
    /\ TokStops /\ UNCHANGED panics

TokPanics ==
    /\ encoding # NoJob /\ panics < MaxPanics
    /\ panics' = panics + 1
    /\ TokStops

-----------------------------------------------------------------------------
(* The GPU thread *)

\* Slip: the newest job first.
GpuReceiveLatest ==
    /\ gpu = "up" /\ running = NoJob /\ encoded # <<>>
    /\ running' = encoded[Len(encoded)]
    /\ encoded' = SubSeq(encoded, 1, Len(encoded) - 1)
    /\ UNCHANGED <<open, jobs, tok, encoding, gpu, reply, panics>>

GpuReceive ==
    /\ gpu = "up" /\ running = NoJob /\ encoded # <<>>
    /\ running' = Head(encoded) /\ encoded' = Tail(encoded)
    /\ UNCHANGED <<open, jobs, tok, encoding, gpu, reply, panics>>

\* embed_on_state: the forward pass or an error of it; a job with too many
\* texts is refused here
Forward(outcome) ==
    /\ running # NoJob
    /\ outcome = "rows" => Rows(running) <= Ceiling
    /\ reply' = [reply EXCEPT ![running] = outcome]
    /\ running' = NoJob
    /\ UNCHANGED <<open, jobs, tok, encoding, encoded, gpu, panics>>

GpuStops ==
    /\ gpu' = "down"
    /\ reply' = Gone(InSeq(encoded) \cup ({running} \ {NoJob}))
    /\ encoded' = <<>> /\ running' = NoJob
    /\ UNCHANGED <<open, jobs, tok, encoding>>

GpuEnds ==
    /\ gpu = "up" /\ running = NoJob /\ encoded = <<>> /\ tok = "down"
    /\ GpuStops /\ UNCHANGED panics

GpuPanics ==
    /\ running # NoJob /\ panics < MaxPanics
    /\ panics' = panics + 1
    /\ GpuStops

\* the last Arc of the engine is dropped
DropEngine ==
    /\ open
    /\ open' = FALSE
    /\ UNCHANGED <<jobs, tok, encoding, encoded, gpu, running, reply, panics>>

TokStep == TokReceive \/ TokHandsOn \/ TokFails \/ TokBreaks \/ TokEnds
GpuStep == GpuReceive \/ Forward("rows") \/ Forward("error") \/ GpuEnds

=============================================================================
