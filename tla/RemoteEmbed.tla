----------------------------- MODULE RemoteEmbed -----------------------------
(***************************************************************************)
(* The remote embedding engine (zrag-remote-embed): a call is split into   *)
(* sub-batches, a few of which are requested from the provider at a time;  *)
(* each request is tried again when it failed for a passing reason, and    *)
(* results are taken in the order of the sub-batches.                      *)
(*                                                                         *)
(* A request that is in flight is a future in the window of its call       *)
(* (futures::buffered): a finished future keeps its place there until the  *)
(* ones before it are taken.  What the provider answers is arbitrary; it   *)
(* may also never answer, which the client's timeout turns into an error.  *)
(***************************************************************************)
EXTENDS Integers, Sequences, FiniteSets

CONSTANTS
    Calls,          \* calls of embed_texts or embed_query
    SubBatches(_),  \* sub-batches of a call
    SubRows,        \* texts of a sub-batch
    MaxConcurrency, \* RemoteProvider::max_concurrency
    MaxRetries,     \* MAX_RETRIES
    AnswerRows,     \* how many rows an answer may have
    MaxFaults       \* bound: requests the provider does not answer with a row per text

RemoteEmbedAssumption ==
    /\ \A c \in Calls : SubBatches(c) \in Nat \ {0}
    /\ SubRows \in Nat \ {0} /\ MaxConcurrency \in Nat \ {0}
    /\ MaxRetries \in Nat /\ MaxFaults \in Nat
    /\ AnswerRows \subseteq Nat

VARIABLES
    result,         \* per call: "none", "running", "rows" or "error"
    next,           \* per call: the first sub-batch not requested yet
    window,         \* per call: its futures, oldest first
    rows,           \* per call: the vectors collected, as <<sub-batch, index>>
    faults

remote == <<result, next, window, rows, faults>>

RemoteInit ==
    /\ result = [c \in Calls |-> "none"]
    /\ next = [c \in Calls |-> 1]
    /\ window = [c \in Calls |-> <<>>]
    /\ rows = [c \in Calls |-> <<>>]
    /\ faults = 0

\* the vectors of a sub-batch whose answer has n of them
RowsOf(sub, n) == [i \in 1..n |-> <<sub, i>>]

Expected(c) ==
    [k \in 1..(SubBatches(c) * SubRows) |->
        <<((k - 1) \div SubRows) + 1, ((k - 1) % SubRows) + 1>>]

StartCall(c) ==
    /\ result[c] = "none"
    /\ result' = [result EXCEPT ![c] = "running"]
    /\ UNCHANGED <<next, window, rows, faults>>

\* buffered polls the next sub-batch in while there is room for its future
Request(c) ==
    /\ result[c] = "running"
    /\ next[c] <= SubBatches(c)
    /\ Len(window[c]) < MaxConcurrency
    /\ window' = [window EXCEPT ![c] =
            Append(@, [sub |-> next[c], attempt |-> 0, state |-> "sent", n |-> 0])]
    /\ next' = [next EXCEPT ![c] = @ + 1]
    /\ UNCHANGED <<result, rows, faults>>

Finish(c, i, state, n) ==
    window' = [window EXCEPT ![c][i] = [@ EXCEPT !.state = state, !.n = n]]

\* a list of vectors with indices 0, 1, 2, ...: whether they are as many as the
\* texts, fewer or more is not looked at
Respond(c, i, n) ==
    /\ window[c][i].state = "sent"
    /\ n = SubRows \/ faults < MaxFaults
    /\ faults' = IF n = SubRows THEN faults ELSE faults + 1
    /\ Finish(c, i, "done", n)
    /\ UNCHANGED <<result, next, rows>>

\* too many requests, a server's error, no connection, or no answer in time
FailPassing(c, i) ==
    /\ window[c][i].state = "sent" /\ faults < MaxFaults
    /\ faults' = faults + 1
    /\ Finish(c, i, IF window[c][i].attempt < MaxRetries THEN "backoff" ELSE "failed", 0)
    /\ UNCHANGED <<result, next, rows>>

\* any other status, a body that breaks off, an error in a body of status 200,
\* indices with a gap
FailForGood(c, i) ==
    /\ window[c][i].state = "sent" /\ faults < MaxFaults
    /\ faults' = faults + 1
    /\ Finish(c, i, "failed", 0)
    /\ UNCHANGED <<result, next, rows>>

\* the delay of the attempt, or the one the provider asked for, is over
Retry(c, i) ==
    /\ window[c][i].state = "backoff"
    /\ window' = [window EXCEPT ![c][i] =
            [@ EXCEPT !.state = "sent", !.attempt = window[c][i].attempt + 1]]
    /\ UNCHANGED <<result, next, rows, faults>>

\* the oldest future is finished: its vectors follow the ones collected
TakeRows(c) ==
    /\ result[c] = "running" /\ window[c] # <<>>
    /\ LET first == Head(window[c])
       IN  /\ first.state = "done"
           /\ rows' = [rows EXCEPT ![c] = @ \o RowsOf(first.sub, first.n)]
    /\ window' = [window EXCEPT ![c] = Tail(@)]
    /\ UNCHANGED <<result, next, faults>>

\* the first error ends the call and drops the futures behind it
TakeError(c) ==
    /\ result[c] = "running" /\ window[c] # <<>>
    /\ Head(window[c]).state = "failed"
    /\ result' = [result EXCEPT ![c] = "error"]
    /\ window' = [window EXCEPT ![c] = <<>>]
    /\ UNCHANGED <<next, rows, faults>>

EndCall(c) ==
    /\ result[c] = "running"
    /\ window[c] = <<>> /\ next[c] > SubBatches(c)
    /\ result' = [result EXCEPT ![c] = "rows"]
    /\ UNCHANGED <<next, window, rows, faults>>

\* the caller is aborted and its future is dropped
DropCall(c) ==
    /\ result[c] = "running"
    /\ result' = [result EXCEPT ![c] = "error"]
    /\ window' = [window EXCEPT ![c] = <<>>]
    /\ UNCHANGED <<next, rows, faults>>

ClientStep ==
    \E c \in Calls :
        \/ Request(c) \/ TakeRows(c) \/ TakeError(c) \/ EndCall(c)
        \/ \E i \in DOMAIN window[c] : Retry(c, i)

ProviderStep ==
    \E c \in Calls : \E i \in DOMAIN window[c] :
        \/ \E n \in AnswerRows : Respond(c, i, n)
        \/ FailPassing(c, i) \/ FailForGood(c, i)

=============================================================================
