---------------------------- MODULE EmbedService ----------------------------
(***************************************************************************)
(* What an embedding engine promises its callers: a job that was accepted  *)
(* is answered at most once, with rows or with a failure, and rows are     *)
(* given out in the order the jobs were accepted in.  A failure may        *)
(* overtake the rows of an earlier job.                                    *)
(***************************************************************************)
EXTENDS Integers, Sequences

CONSTANT Jobs

VARIABLES
    line,           \* jobs accepted and not answered, oldest first
    answer          \* per job: "none", "rows" or "failure"

Init == line = <<>> /\ answer = [j \in Jobs |-> "none"]

Waiting(j) == \E i \in DOMAIN line : line[i] = j

Accept(j) ==
    /\ answer[j] = "none" /\ ~Waiting(j)
    /\ line' = Append(line, j)
    /\ UNCHANGED answer

\* a job that is refused is told so at once
Refuse(j) ==
    /\ answer[j] = "none" /\ ~Waiting(j)
    /\ answer' = [answer EXCEPT ![j] = "failure"]
    /\ UNCHANGED line

GiveRows ==
    /\ line # <<>>
    /\ answer' = [answer EXCEPT ![Head(line)] = "rows"]
    /\ line' = Tail(line)

\* one job fails, or a thread dies and with it the jobs it holds: a stretch of
\* the line
Fail(first, last) ==
    /\ answer' = [j \in Jobs |-> IF \E i \in first..last : line[i] = j
                                 THEN "failure" ELSE answer[j]]
    /\ line' = SubSeq(line, 1, first - 1) \o SubSeq(line, last + 1, Len(line))

Next ==
    \/ \E j \in Jobs : Accept(j) \/ Refuse(j)
    \/ GiveRows
    \/ \E first \in DOMAIN line : \E last \in first..Len(line) : Fail(first, last)

Spec == Init /\ [][Next]_<<line, answer>>

=============================================================================
