------------------------- MODULE IndexStreamProofs --------------------------
(***************************************************************************)
(* Theorems about an index request, for trees, batches and buffers of any  *)
(* size.                                                                   *)
(*                                                                         *)
(* It is answered by all the reports of its run, in order, and one frame   *)
(* after them. The invariant (IInv) says what is between the two ends of   *)
(* the connection at each point of the handler: while it streams, the      *)
(* frames the client has, those on the wire and those in the channel make  *)
(* up what the run said; once it has answered, the wire ends with the      *)
(* answer, and if that is a good one, what is before it makes up the same. *)
(*                                                                         *)
(* What a client draws from them follows the run. The second invariant     *)
(* (DInv) says in which order a run reports (SaidOK) and where in it the   *)
(* run is (SpokenOK), where in that the frames of the client, the wire and *)
(* the channel stand (PlacedOK), and what the bar shows after the last     *)
(* frame the client has (BarOK).                                           *)
(***************************************************************************)
EXTENDS IndexStream, SequenceTheorems, TLAPS

Phase == {"Start", "Dsl", "Gather", "Tokenize", "Embed", "BuildIndex", "Finish"}
Terminal == {"ok", "err", "other"}

\* what a run says, and what is written to the connection
Told == [phase : Phase, current : Nat, total : Nat]
Frame == [phase : Phase \cup Terminal, current : Nat, total : Nat]

-----------------------------------------------------------------------------
(* Sequences that frames move along. *)

LEMMA AppendRight ==
  ASSUME NEW T, NEW a \in Seq(T), NEW b \in Seq(T), NEW x \in T
  PROVE  a \o Append(b, x) = Append(a \o b, x)
<1>1. a \o Append(b, x) \in Seq(T) /\ Append(a \o b, x) \in Seq(T)
  BY SMT
<1>2. Len(a \o Append(b, x)) = Len(Append(a \o b, x))
  BY SMT
<1>3. ASSUME NEW i \in 1..Len(a \o Append(b, x))
      PROVE  (a \o Append(b, x))[i] = Append(a \o b, x)[i]
  BY <1>3, SMT
<1> QED BY <1>1, <1>2, <1>3, SeqEqual

LEMMA MoveHead ==
  ASSUME NEW T, NEW a \in Seq(T), NEW b \in Seq(T), b # <<>>
  PROVE  /\ Append(a, Head(b)) \o Tail(b) = a \o b
         /\ Append(a, Head(b)) \in Seq(T) /\ Tail(b) \in Seq(T) /\ Head(b) \in T
<1>1. /\ Head(b) \in T /\ Head(b) = b[1] /\ Tail(b) \in Seq(T) /\ Len(Tail(b)) = Len(b) - 1
      /\ \A i \in 1..Len(Tail(b)) : Tail(b)[i] = b[i + 1]
      /\ Len(b) \in Nat \ {0}
  BY HeadTailProperties, EmptySeq, SMT
<1>2. Append(a, Head(b)) \in Seq(T) /\ Len(Append(a, Head(b))) = Len(a) + 1 /\ Len(a) \in Nat
  BY <1>1, SMT
<1>3. /\ Append(a, Head(b)) \o Tail(b) \in Seq(T) /\ a \o b \in Seq(T)
      /\ Len(Append(a, Head(b)) \o Tail(b)) = Len(a \o b)
  BY <1>1, <1>2, ConcatProperties, SMT
<1>4. ASSUME NEW i \in 1..Len(a \o b)
      PROVE  (Append(a, Head(b)) \o Tail(b))[i] = (a \o b)[i]
  <2>1. i \in 1..(Len(a) + Len(b))
    BY ConcatProperties, SMT
  <2>2. (a \o b)[i] = IF i <= Len(a) THEN a[i] ELSE b[i - Len(a)]
    BY <2>1, ConcatProperties
  <2>3. (Append(a, Head(b)) \o Tail(b))[i] =
          IF i <= Len(a) + 1 THEN Append(a, Head(b))[i] ELSE Tail(b)[i - (Len(a) + 1)]
    BY <1>1, <1>2, <2>1, ConcatProperties, SMT
  <2>4. i <= Len(a) => Append(a, Head(b))[i] = a[i]
    BY <2>1, <1>1, SMT
  <2>5. i = Len(a) + 1 => Append(a, Head(b))[i] = b[1]
    BY <1>1, SMT
  <2>6. i > Len(a) + 1 => Tail(b)[i - (Len(a) + 1)] = b[i - Len(a)]
    BY <1>1, <1>2, <2>1, SMT
  <2> QED BY <1>1, <1>2, <2>1, <2>2, <2>3, <2>4, <2>5, <2>6, SMT
<1> QED BY <1>1, <1>2, <1>3, <1>4, SeqEqual, SMT

-----------------------------------------------------------------------------
(* The invariant. *)

Streaming == serving \in {"streaming", "joining", "draining"}

\* only the last frame on the wire may be an answer
Behind == \A i \in 1..(Len(wire) - 1) : wire[i] \in Told
LastTold == wire # <<>> => wire[Len(wire)] \in Told
Terminated == wire # <<>> /\ wire[Len(wire)].phase \in Terminal

Finished == sent # <<>> /\ sent[Len(sent)].phase = "Finish"

\* where the run is in its own work
LocalOK ==
    /\ size \in Sizes /\ count \in Nat /\ meter \in [current : Nat, total : Nat]
    /\ run = "chunking" => count = 0
    /\ run = "tokenizing" => count \in 0..2

FramesOK ==
    /\ channel \in Seq(Told) /\ sent \in Seq(Told) /\ got \in Seq(Told)
    /\ wire \in Seq(Frame)

\* A run belongs to a handler that streams, and one that ended well has said so.
RunOK ==
    /\ run # "none" => Streaming
    /\ serving = "draining" => run \in Ended
    /\ run = "ok" => Finished

\* A client that does not wait has read everything.
IdleOK ==
    client = "idle" =>
        /\ wire = <<>> /\ inbox = "none" /\ serving \in {"reading", "closed"}
        /\ answer \in {"none"} \cup Terminal
        /\ answer = "ok" => got = sent /\ Finished

\* Before its request is read, nothing is under way.
AskedOK ==
    client = "waiting" /\ inbox # "none" =>
        /\ inbox = asked /\ asked \in {"index", "other"}
        /\ wire = <<>> /\ got = <<>> /\ serving \in {"reading", "closed"}

\* Afterwards the wire holds progress, of an index request, and an answer at most, last.
WireOK ==
    client = "waiting" /\ inbox = "none" =>
        /\ asked \in {"index", "other"}
        /\ Behind /\ (LastTold \/ Terminated)
        /\ serving = "reading" => Terminated
        /\ serving \notin {"reading", "closed"} => wire \in Seq(Told)
        /\ asked = "other" =>
             /\ serving \in {"reading", "closed", "answering other"}
             /\ wire = <<>> \/ (Len(wire) = 1 /\ Terminated)
        /\ asked = "index" => serving # "answering other"

\* What the client has, what is under way and what it will get: all the run said, which
\* the handler is passing on, has written, or has ended with a good answer.
Passing == got \o wire \o channel = sent
Written == got \o wire = sent /\ Finished
Good == wire # <<>> /\ wire[Len(wire)].phase = "ok"
Closing == got \o wire = Append(sent, wire[Len(wire)]) /\ Finished
StreamOK ==
    client = "waiting" /\ inbox = "none" =>
        /\ Streaming => Passing
        /\ serving = "answering ok" => Written
        /\ Good => Closing

IInv == LocalOK /\ FramesOK /\ RunOK /\ IdleOK /\ AskedOK /\ WireOK /\ StreamOK

-----------------------------------------------------------------------------
(* Steps of the run. *)

LEMMA Phases ==
  DOMAIN Order = Phase
  BY DEF Order, Phase

LEMMA MinOfTwo ==
  ASSUME NEW a \in Nat, NEW b \in Nat
  PROVE  Min({a, b}) \in Nat
<1>1. \E x \in {a, b} : \A y \in {a, b} : x <= y
  BY SMT
<1>2. Min({a, b}) \in {a, b}
  BY <1>1, Zenon DEF Min
<1> QED BY <1>2

\* A report of a phase of the run, with counts, is what a run says.
LEMMA ReportTyped ==
  ASSUME NEW p \in Phase, NEW c \in Nat, NEW n \in Nat
  PROVE  Report(p, c, n) \in Told /\ Report(p, c, n).phase = p
  BY SMT DEF Report, Told

LEMMA AppendTyped ==
  ASSUME NEW T, NEW s \in Seq(T), NEW x \in T
  PROVE  /\ Append(s, x) \in Seq(T) /\ Append(s, x) # <<>>
         /\ Len(Append(s, x)) = Len(s) + 1 /\ Append(s, x)[Len(s) + 1] = x
         /\ Append(s, x)[Len(Append(s, x))] = x
         /\ \A i \in 1..Len(s) : Append(s, x)[i] = s[i]
  BY SMT

LEMMA ToldAreFrames == Told \subseteq Frame /\ Seq(Told) \subseteq Seq(Frame)
<1>1. Told \subseteq Frame
  BY SMT DEF Told, Frame
<1> QED BY <1>1, SeqMonotonic

\* The run goes on without a report, or with one more.
Quiet == run' # "ok" /\ UNCHANGED <<channel, sent>>
Says ==
    \E rep \in Told :
        /\ (run' = "ok" => rep.phase = "Finish")
        /\ channel' = Append(channel, rep) /\ sent' = Append(sent, rep)

LEMMA SaysReport ==
  ASSUME NEW p \in Phase, NEW c \in Nat, NEW n \in Nat,
         Say(Report(p, c, n)), run' = "ok" => p = "Finish"
  PROVE  Says
  BY ReportTyped DEF Says, Say

LEMMA RunEffect ==
  ASSUME StreamAssumption, LocalOK, RunStep
  PROVE  /\ run \notin Ended \cup {"none"} /\ run' # "none"
         /\ LocalOK'
         /\ Quiet \/ Says
<1> USE DEF Phase, Ended
<1>0. /\ size.files \in Nat /\ size.chunks \in Nat /\ meter.current \in Nat /\ meter.total \in Nat
      /\ count \in Nat
  BY SMT DEF LocalOK, Sizes, StreamAssumption
<1>1. CASE NothingToDo
  <2>1. Says
    BY <1>0, <1>1, SaysReport, SMT DEF NothingToDo
  <2> QED BY <1>1, <2>1, SMT DEF NothingToDo, LocalOK
<1>2. ASSUME NEW s \in Sizes, Plan(s)
      PROVE  run = "planning" /\ run' = "parsing" /\ LocalOK' /\ Says
  <2>1. s.files \in Nat
    BY SMT DEF Sizes, StreamAssumption
  <2>2. Says
    BY <1>2, <2>1, SaysReport, SMT DEF Plan
  <2> QED BY <1>2, <2>2, SMT DEF Plan, LocalOK
<1>3. CASE Parse
  <2>1. Says
    <3>1. CASE count < size.files
      BY <1>0, <1>3, <3>1, SaysReport, SMT DEF Parse
    <3>2. CASE ~(count < size.files)
      <4>1. PICK parsed \in 0..size.files : Say(Report("Gather", parsed, parsed))
        BY <1>3, <3>2 DEF Parse
      <4>2. parsed \in Nat
        BY <1>0, SMT
      <4> QED BY <1>3, <3>2, <4>1, <4>2, SaysReport, SMT DEF Parse
    <3> QED BY <3>1, <3>2
  <2> QED BY <1>3, <2>1, SMT DEF Parse, LocalOK
<1>4. CASE StartBar
  <2>1. Says
    BY <1>0, <1>4, SaysReport, SMT DEF StartBar
  <2> QED BY <1>0, <1>4, <2>1, SMT DEF StartBar, LocalOK
<1>5. CASE Announce
  <2> DEFINE frames == << Report("Tokenize", 0, size.chunks),
                          Report("Tokenize", size.chunks, size.chunks),
                          Report("Embed", 0, size.chunks) >>
  <2>1. count \in 0..2 /\ run = "tokenizing"
    BY <1>5 DEF Announce, LocalOK
  <2>2. \A i \in 1..3 : frames[i] \in Told
    BY <1>0, ReportTyped, SMT
  <2>3. Say(frames[count + 1]) /\ run' # "ok"
    BY <1>5, SMT DEF Announce
  <2>4. Says
    <3>1. count + 1 \in 1..3
      BY <2>1, SMT
    <3> HIDE DEF frames
    <3> QED BY <2>2, <2>3, <3>1 DEF Says, Say
  <2>5. /\ UNCHANGED <<size, meter>>
        /\ \/ count + 1 = 3 /\ count' = 0 /\ run' = "embedding"
           \/ count + 1 # 3 /\ count' = count + 1 /\ run' = run
    BY <1>5, SMT DEF Announce
  <2> QED BY <2>1, <2>4, <2>5, SMT DEF LocalOK
<1>6. CASE EmbedBatch
  <2> DEFINE n == Min({BatchSize, size.chunks - count})
  <2>1. n \in Nat
    BY <1>0, <1>6, MinOfTwo, SMT DEF EmbedBatch, StreamAssumption
  <2>2. run = "embedding" /\ Inc(n) /\ count' = count + n /\ UNCHANGED <<run, size>>
    BY <1>6 DEF EmbedBatch
  <2> HIDE DEF n
  <2>3. Says
    <3>1. Say(Report("Embed", meter.current + n, meter.total)) /\ meter.current + n \in Nat
      BY <1>0, <2>1, <2>2, SMT DEF Inc
    <3> QED BY <1>0, <2>2, <3>1, SaysReport, SMT
  <2>4. meter' \in [current : Nat, total : Nat]
    <3>1. meter' = [meter EXCEPT !.current = meter.current + n] /\ meter.current + n \in Nat
      BY <1>0, <2>1, <2>2, SMT DEF Inc
    <3>2. meter \in [current : Nat, total : Nat]
      BY DEF LocalOK
    <3> QED BY ONLY <3>1, <3>2, SMT
  <2> QED BY <1>0, <2>1, <2>2, <2>3, <2>4, SMT DEF LocalOK
<1>7. ASSUME NEW paused \in BOOLEAN, StopEmbedding(paused)
      PROVE  run = "embedding" /\ run' = "storing" /\ LocalOK' /\ Quiet
  BY <1>7, SMT DEF StopEmbedding, Quiet, LocalOK
<1>8. CASE BuildIndex
  <2>1. Says
    BY <1>8, SaysReport, SMT DEF BuildIndex
  <2> QED BY <1>8, <2>1, SMT DEF BuildIndex, LocalOK
<1>9. CASE Finish
  <2>1. Says
    BY <1>0, <1>9, SaysReport, SMT DEF Finish
  <2> QED BY <1>9, <2>1, SMT DEF Finish, LocalOK
<1>10. ASSUME NEW how \in {"err", "panicked"}, RunFails(how)
       PROVE  run \notin Ended \cup {"none"} /\ run' = how /\ LocalOK' /\ Quiet
  BY <1>10, SMT DEF RunFails, Quiet, LocalOK
<1> QED
  BY <1>1, <1>2, <1>3, <1>4, <1>5, <1>6, <1>7, <1>8, <1>9, <1>10 DEF RunStep


-----------------------------------------------------------------------------
(* Each step keeps the invariant. *)

\* What a run says is no answer.
LEMMA ToldNotGood ==
  ASSUME NEW w \in Seq(Told)
  PROVE  w # <<>> => w[Len(w)] \in Told /\ w[Len(w)].phase \notin Terminal
<1>1. w # <<>> => w[Len(w)] \in Told
  BY EmptySeq, SMT
<1>2. \A f \in Told : f.phase \notin Terminal
  BY SMT DEF Told, Phase, Terminal
<1> QED BY <1>1, <1>2

\* A step of the run alone moves nothing at either end of the connection.
LEMMA Elsewhere ==
  ASSUME IInv, Streaming, UNCHANGED <<serving, inbox, wire, client, asked, got, answer>>
  PROVE  IdleOK' /\ AskedOK' /\ WireOK'
<1>1. client # "idle"
  BY SMT DEF IInv, IdleOK, Streaming
<1>2. IdleOK'
  BY <1>1 DEF IdleOK
<1>3. AskedOK'
  BY DEF IInv, AskedOK
<1>4. WireOK'
  BY DEF IInv, WireOK, Behind, LastTold, Terminated
<1> QED BY <1>2, <1>3, <1>4

\* What the run says is taken up by the channel.
LEMMA RunKeeps ==
  ASSUME StreamAssumption, IInv, RunStep
  PROVE  IInv'
<1>1. UNCHANGED <<serving, inbox, wire, client, asked, got, answer>>
  BY DEF RunStep, user
<1>2. run \notin Ended \cup {"none"} /\ run' # "none" /\ LocalOK' /\ (Quiet \/ Says)
  BY RunEffect DEF IInv
<1>3. serving \in {"streaming", "joining"} /\ Streaming
  BY <1>2, SMT DEF IInv, RunOK, Streaming
<1>4. IdleOK' /\ AskedOK' /\ WireOK'
  BY <1>1, <1>3, Elsewhere
<1>5. CASE Quiet
  <2>1. FramesOK'
    BY <1>1, <1>5 DEF Quiet, IInv, FramesOK
  <2>2. RunOK'
    BY <1>1, <1>3, <1>5, SMT DEF Quiet, RunOK, Streaming
  <2>3. StreamOK'
    BY <1>1, <1>5 DEF Quiet, IInv, StreamOK, Streaming, Finished, Passing, Written, Good, Closing
  <2> QED BY <1>2, <1>4, <2>1, <2>2, <2>3 DEF IInv
<1>6. CASE Says
  <2>1. PICK rep \in Told :
           /\ run' = "ok" => rep.phase = "Finish"
           /\ channel' = Append(channel, rep) /\ sent' = Append(sent, rep)
    BY <1>6 DEF Says
  <2>2. FramesOK'
    BY <1>1, <2>1, AppendTyped DEF IInv, FramesOK
  <2>3. RunOK'
    <3>1. sent' # <<>> /\ sent'[Len(sent')] = rep
      BY <2>1, AppendTyped DEF IInv, FramesOK
    <3> QED BY <1>1, <1>3, <2>1, <3>1, SMTT(60) DEF RunOK, Streaming, Finished
  <2>4. StreamOK'
    <3>1. ASSUME client = "waiting", inbox = "none"
          PROVE  Passing'
      <4>1. /\ got \in Seq(Told) /\ channel \in Seq(Told) /\ wire \in Seq(Told)
            /\ Passing
        BY <1>3, <3>1 DEF IInv, FramesOK, WireOK, StreamOK
      <4>2. got \o wire \in Seq(Told)
        BY <4>1, ConcatProperties
      <4>3. got \o wire \o Append(channel, rep) = Append(got \o wire \o channel, rep)
        BY <4>1, <4>2, AppendRight
      <4> QED BY <1>1, <2>1, <4>1, <4>3 DEF Passing
    <3>2. ASSUME client = "waiting", inbox = "none"
          PROVE  ~Good'
      <4>1. wire \in Seq(Told)
        BY <1>3, <3>2 DEF IInv, WireOK
      <4> QED BY <1>1, <4>1, ToldNotGood DEF Good, Terminal
    <3> QED BY <1>1, <1>3, <3>1, <3>2 DEF StreamOK
  <2> QED BY <1>2, <1>4, <2>2, <2>3, <2>4 DEF IInv
<1> QED BY <1>2, <1>5, <1>6

LEMMA ReadEndsKeeps ==
  ASSUME IInv, ReadEnds
  PROVE  IInv'
<1>1. /\ serving = "reading" /\ serving' = "closed" /\ client = "gone"
      /\ UNCHANGED <<inbox, run, size, count, meter, sent, channel, wire, client, asked, got, answer>>
  BY DEF ReadEnds, Attached, task, user
<1>2. LocalOK' /\ FramesOK'
  BY <1>1 DEF IInv, LocalOK, FramesOK
<1>3. RunOK'
  BY <1>1, SMT DEF IInv, RunOK, Streaming, Finished
<1>4. IdleOK' /\ AskedOK' /\ WireOK' /\ StreamOK'
  BY <1>1 DEF IdleOK, AskedOK, WireOK, StreamOK
<1> QED BY <1>2, <1>3, <1>4 DEF IInv

LEMMA ReadRequestKeeps ==
  ASSUME StreamAssumption, IInv, ReadRequest
  PROVE  IInv'
<1> DEFINE Refused == /\ serving' \in {"answering other", "answering err"}
                      /\ inbox = "other" => serving' = "answering other"
                      /\ inbox # "other" => serving' = "answering err"
                      /\ run' = run /\ size' = size /\ count' = count
                      /\ meter' = meter /\ sent' = sent
           Started == /\ inbox # "other" /\ serving' = "streaming"
                      /\ run' = "planning" /\ size' = NoSize /\ count' = 0
                      /\ meter' = [current |-> 0, total |-> 0] /\ sent' = <<>>
<1>1. /\ serving = "reading" /\ inbox # "none" /\ inbox' = "none" /\ channel' = <<>>
      /\ wire' = wire /\ client' = client /\ asked' = asked /\ got' = got /\ answer' = answer
  BY DEF ReadRequest, user
<1>2. Refused \/ Started
  <2>1. CASE inbox = "other"
    BY <2>1 DEF ReadRequest, task
  <2>2. CASE inbox # "other"
    BY <2>2 DEF ReadRequest, task
  <2> QED BY <2>1, <2>2
<1>3. LocalOK'
  <2>1. CASE Refused
    BY <2>1 DEF IInv, LocalOK
  <2>2. CASE Started
    <3>1. NoSize \in Sizes
      BY SMT DEF NoSize, Sizes, StreamAssumption
    <3>2. meter' \in [current : Nat, total : Nat]
      BY <2>2, SMT
    <3> QED BY <2>2, <3>1, <3>2 DEF LocalOK
  <2> QED BY <1>2, <2>1, <2>2
<1>4. <<>> \in Seq(Told)
  BY EmptySeq
<1>5. FramesOK'
  <2>1. sent' \in Seq(Told)
    BY <1>2, <1>4 DEF IInv, FramesOK
  <2> QED BY <1>1, <1>4, <2>1 DEF IInv, FramesOK
<1>6. RunOK'
  <2>1. run = "none"
    BY <1>1 DEF IInv, RunOK, Streaming
  <2>2. CASE Refused
    BY <2>1, <2>2 DEF RunOK
  <2>3. CASE Started
    BY <2>3 DEF RunOK, Streaming
  <2> QED BY <1>2, <2>2, <2>3
<1>7. client # "idle"
  BY <1>1 DEF IInv, IdleOK
<1>8. IdleOK' /\ AskedOK'
  BY <1>1, <1>7 DEF IdleOK, AskedOK
<1>9. client = "waiting" =>
        inbox = asked /\ asked \in {"index", "other"} /\ wire = <<>> /\ got = <<>>
  BY <1>1 DEF IInv, AskedOK
<1>10. WireOK'
  <2>1. client = "waiting" => Behind' /\ LastTold' /\ wire' \in Seq(Told)
    <3>1. client = "waiting" => wire' = <<>>
      BY <1>1, <1>9
    <3>2. wire' = <<>> => Behind'
      BY EmptySeq, SMT DEF Behind
    <3>3. wire' = <<>> => LastTold'
      BY DEF LastTold
    <3> QED BY <1>4, <3>1, <3>2, <3>3
  <2>2. /\ serving' # "reading" /\ serving' # "closed"
        /\ inbox = "other" => serving' = "answering other"
        /\ inbox # "other" => serving' # "answering other"
    BY <1>2
  <2>3. client' = "waiting" =>
          /\ asked' \in {"index", "other"} /\ wire' = <<>>
          /\ asked' = "other" => serving' = "answering other"
          /\ asked' = "index" => serving' # "answering other"
    BY <1>1, <1>9, <2>2
  <2>4. client' = "waiting" =>
          (asked' = "other" => serving' = "answering other" /\ wire' = <<>>)
    BY <2>3
  <2> QED BY ONLY <1>1, <2>1, <2>2, <2>3, <2>4 DEF WireOK
<1>11. StreamOK'
  <2>1. client = "waiting" /\ Streaming' => Passing'
    <3>1. Streaming' => sent' = <<>>
      BY <1>2 DEF Streaming
    <3>2. <<>> \o <<>> \o <<>> = <<>>
      BY SMT
    <3> QED BY <1>1, <1>9, <3>1, <3>2 DEF Passing
  <2>2. client = "waiting" => ~Good'
    BY <1>1, <1>9 DEF Good
  <2>3. serving' # "answering ok"
    BY <1>2
  <2> QED BY <1>1, <2>1, <2>2, <2>3 DEF StreamOK
<1> QED BY <1>3, <1>5, <1>6, <1>8, <1>10, <1>11 DEF IInv

\* A report moves from the channel to the wire.
LEMMA Moved ==
  ASSUME IInv, Streaming, channel # <<>>, client = "waiting",
         channel' = Tail(channel), wire' = Append(wire, Head(channel)),
         got' = got, sent' = sent
  PROVE  /\ channel' \in Seq(Told) /\ wire' \in Seq(Told)
         /\ Passing'
<1>1. client = "waiting" /\ inbox = "none"
  BY DEF IInv, AskedOK, Streaming
<1>2. /\ wire \in Seq(Told) /\ channel \in Seq(Told) /\ got \in Seq(Told)
      /\ Passing
  BY <1>1 DEF IInv, FramesOK, WireOK, StreamOK, Streaming
<1>3. /\ channel' \in Seq(Told) /\ wire' \in Seq(Told) /\ Head(channel) \in Told
  BY <1>2, MoveHead
<1>4. got \o wire \in Seq(Told)
  BY <1>2, ConcatProperties
<1>5. got \o Append(wire, Head(channel)) = Append(got \o wire, Head(channel))
  BY <1>2, <1>3, AppendRight
<1>6. Append(got \o wire, Head(channel)) \o Tail(channel) = got \o wire \o channel
  <2> DEFINE a == got \o wire
  <2>1. a \in Seq(Told) /\ channel \in Seq(Told)
    BY <1>2, <1>4
  <2> HIDE DEF a
  <2>2. Append(a, Head(channel)) \o Tail(channel) = a \o channel
    BY <2>1, MoveHead, Zenon
  <2> QED BY <2>2 DEF a
<1> QED BY <1>2, <1>3, <1>5, <1>6 DEF Passing

\* Frames that are told are all behind, and not one of them is an answer.
LEMMA ToldWire ==
  ASSUME wire \in Seq(Told)
  PROVE  Behind /\ LastTold /\ ~Terminated /\ ~Good
<1>1. LastTold /\ ~Terminated /\ ~Good
  BY ToldNotGood DEF LastTold, Terminated, Good, Terminal
<1>2. Behind
  BY SMT DEF Behind
<1> QED BY <1>1, <1>2

\* The handler passes a report on, while it streams or drains.
LEMMA PassingKeeps ==
  ASSUME IInv, Streaming, channel # <<>>, client # "gone",
         channel' = Tail(channel), wire' = Append(wire, Head(channel)),
         UNCHANGED <<serving, inbox, run, size, count, meter, sent, client, asked, got, answer>>
  PROVE  IInv'
<1>1. client # "idle"
  BY DEF IInv, IdleOK, Streaming
<1>2. /\ serving' = serving /\ inbox' = inbox /\ run' = run /\ sent' = sent
      /\ client' = client /\ asked' = asked /\ got' = got
  OBVIOUS
<1>3. LocalOK' /\ RunOK'
  BY DEF IInv, LocalOK, RunOK, Streaming, Finished
<1>4. Head(channel) \in Frame /\ wire' \in Seq(Frame) /\ channel' \in Seq(Told)
  <2>1. channel \in Seq(Told) /\ wire \in Seq(Frame) /\ channel \in Seq(Frame)
    BY ToldAreFrames DEF IInv, FramesOK
  <2> QED BY <2>1, MoveHead
<1>5. FramesOK'
  BY <1>2, <1>4 DEF IInv, FramesOK
<1>6. IdleOK' /\ AskedOK'
  BY <1>1, <1>2 DEF IInv, IdleOK, AskedOK, Streaming
<1>7. client = "waiting" => wire' \in Seq(Told) /\ Passing'
  BY <1>2, Moved
<1>8. ASSUME wire' \in Seq(Told)
      PROVE  Behind' /\ LastTold' /\ ~Good'
  <2>1. LastTold' /\ ~Good'
    BY <1>8, ToldNotGood DEF LastTold, Good, Terminal
  <2>2. Behind'
    BY <1>8, SMT DEF Behind
  <2> QED BY <2>1, <2>2
<1>9. WireOK'
  <2>1. client = "waiting" /\ inbox = "none" =>
          /\ asked \in {"index", "other"} /\ serving \notin {"reading", "closed"}
          /\ asked # "other" /\ (asked = "index" => serving # "answering other")
    BY DEF IInv, WireOK, Streaming
  <2> QED BY <1>2, <1>7, <1>8, <2>1 DEF WireOK
<1>10. StreamOK'
  BY <1>2, <1>7, <1>8 DEF StreamOK, Streaming
<1> QED BY <1>3, <1>5, <1>6, <1>9, <1>10 DEF IInv

\* Nothing holds at the ends of a connection whose client is gone.
LEMMA GoneKeeps ==
  ASSUME IInv, client' = "gone", LocalOK', FramesOK', RunOK'
  PROVE  IInv'
<1>1. IdleOK' /\ AskedOK' /\ WireOK' /\ StreamOK'
  BY DEF IdleOK, AskedOK, WireOK, StreamOK
<1> QED BY <1>1 DEF IInv

LEMMA TailTyped ==
  ASSUME NEW T, NEW s \in Seq(T), s # <<>>
  PROVE  Tail(s) \in Seq(T)
  BY HeadTailProperties

LEMMA ForwardKeeps ==
  ASSUME IInv, ForwardReport \/ Drain
  PROVE  IInv'
<1>1. /\ Streaming /\ channel # <<>> /\ channel' = Tail(channel)
      /\ UNCHANGED <<inbox, size, count, meter, sent, client, asked, got, answer>>
  BY DEF ForwardReport, Drain, Streaming, task, user
<1>2. CASE client # "gone"
  <2>1. wire' = Append(wire, Head(channel)) /\ UNCHANGED <<serving, run>>
    BY <1>2 DEF ForwardReport, Drain, Attached, task
  <2> QED BY <1>1, <1>2, <2>1, PassingKeeps
<1>3. CASE client = "gone"
  <2>1. /\ wire' = wire
        /\ \/ serving' = "closed" /\ run' = "none"
           \/ serving' = serving /\ run' = run
    BY <1>3 DEF ForwardReport, Drain, Attached, task
  <2>2. LocalOK'
    BY <1>1, <2>1 DEF IInv, LocalOK
  <2>3. FramesOK'
    BY <1>1, <2>1, TailTyped DEF IInv, FramesOK
  <2>4. RunOK'
    BY <1>1, <2>1 DEF IInv, RunOK, Streaming, Finished
  <2> QED BY <1>1, <1>3, <2>2, <2>3, <2>4, GoneKeeps
<1> QED BY <1>2, <1>3

LEMMA PollKeeps ==
  ASSUME IInv, PollRun \/ JoinRun
  PROVE  IInv'
<1>1. /\ serving \in {"streaming", "joining"} /\ serving' \in {"streaming", "joining", "draining"}
      /\ serving' = "draining" => run \in Ended
      /\ UNCHANGED <<inbox, run, size, count, meter, sent, channel, wire, client, asked, got, answer>>
  BY DEF PollRun, JoinRun, task, user
<1>2. Streaming /\ Streaming'
  BY <1>1 DEF Streaming
<1>3. LocalOK' /\ FramesOK'
  BY <1>1 DEF IInv, LocalOK, FramesOK
<1>4. RunOK'
  BY <1>1, <1>2 DEF IInv, RunOK, Finished
<1>5. client # "idle"
  BY <1>2 DEF IInv, IdleOK, Streaming
<1>6. IdleOK' /\ AskedOK'
  BY <1>1, <1>2, <1>5 DEF IInv, IdleOK, AskedOK, Streaming
<1>7. WireOK'
  BY <1>1 DEF IInv, WireOK, Behind, LastTold, Terminated
<1>8. StreamOK'
  BY <1>1, <1>2 DEF IInv, StreamOK, Passing, Written, Good, Closing, Finished
<1> QED BY <1>3, <1>4, <1>6, <1>7, <1>8 DEF IInv

LEMMA DrainedKeeps ==
  ASSUME IInv, Drained
  PROVE  IInv'
<1>1. /\ serving = "draining" /\ channel = <<>> /\ run' = "none"
      /\ serving' = IF run = "ok" THEN "answering ok" ELSE "answering err"
      /\ UNCHANGED <<inbox, size, count, meter, sent, channel, wire, client, asked, got, answer>>
  BY DEF Drained, user
<1>2. LocalOK' /\ FramesOK'
  BY <1>1 DEF IInv, LocalOK, FramesOK
<1>3. RunOK'
  BY <1>1 DEF RunOK
<1>4. client # "idle"
  BY <1>1 DEF IInv, IdleOK
<1>5. IdleOK' /\ AskedOK'
  BY <1>1, <1>4 DEF IInv, IdleOK, AskedOK
<1>6. client = "waiting" /\ inbox = "none" =>
        /\ asked = "index" /\ wire \in Seq(Told) /\ got \in Seq(Told) /\ Behind /\ LastTold
        /\ Passing
  BY <1>1, ToldWire DEF IInv, WireOK, FramesOK, StreamOK, Streaming
<1>7. WireOK'
  <2>1. Behind = Behind' /\ LastTold = LastTold'
    BY <1>1 DEF Behind, LastTold
  <2>2. serving' \notin {"reading", "closed", "answering other"}
    BY <1>1
  <2> QED BY <1>1, <1>6, <2>1, <2>2 DEF WireOK
<1>8. StreamOK'
  <2>1. client = "waiting" /\ inbox = "none" => got \o wire = sent
    <3>1. ASSUME client = "waiting", inbox = "none"
          PROVE  got \o wire = sent
      <4>1. got \o wire \in Seq(Told) /\ got \o wire \o <<>> = sent
        BY <1>1, <1>6, <3>1, ConcatProperties DEF Passing
      <4> QED BY <4>1, ConcatEmptySeq
    <3> QED BY <3>1
  <2>2. run = "ok" => Finished'
    BY <1>1 DEF IInv, RunOK, Finished
  <2>3. serving' = "answering ok" => run = "ok"
    BY <1>1
  <2>4. client = "waiting" /\ inbox = "none" => ~Good'
    BY <1>1, <1>6, ToldNotGood DEF Good, Terminal
  <2>5. ~Streaming'
    BY <1>1 DEF Streaming
  <2>6. client' = "waiting" /\ inbox' = "none" /\ serving' = "answering ok" => Written'
    BY <1>1, <2>1, <2>2, <2>3 DEF Written
  <2> QED BY <1>1, <2>4, <2>5, <2>6 DEF StreamOK
<1> QED BY <1>2, <1>3, <1>5, <1>7, <1>8 DEF IInv

LEMMA WriteKeeps ==
  ASSUME IInv, WriteAnswer
  PROVE  IInv'
<1>1. /\ serving \in {"answering ok", "answering err", "answering other"}
      /\ UNCHANGED <<inbox, run, size, count, meter, sent, channel, client, asked, got, answer>>
  BY DEF WriteAnswer, Answers, task, user
<1>2. LocalOK'
  BY <1>1 DEF IInv, LocalOK
<1>3. run = "none" /\ RunOK' = (serving' # "draining" \/ run' \in Ended)
  BY <1>1 DEF IInv, RunOK, Streaming
<1>4. CASE client = "gone"
  <2>1. serving' = "closed" /\ wire' = wire
    BY <1>4 DEF WriteAnswer, Attached
  <2>2. FramesOK' /\ RunOK'
    BY <1>1, <1>3, <2>1 DEF IInv, FramesOK
  <2> QED BY <1>1, <1>2, <1>4, <2>2, GoneKeeps
<1>5. CASE client # "gone"
  <2>1. wire' = Append(wire, Answers[serving]) /\ serving' = "reading"
    BY <1>5 DEF WriteAnswer, Attached
  <2>2. PICK a :
           /\ a \in Frame
           /\ wire' = Append(wire, a) /\ a.phase \in Terminal
           /\ a.phase = "ok" => serving = "answering ok"
    <3>1. CASE serving = "answering ok"
      <4>1. Answers[serving] = Report("ok", 0, 0)
        BY <3>1 DEF Answers, Report
      <4>2. Report("ok", 0, 0) \in Frame /\ Report("ok", 0, 0).phase = "ok"
        BY SMT DEF Report, Frame, Terminal
      <4> QED BY <2>1, <3>1, <4>1, <4>2 DEF Terminal
    <3>2. CASE serving = "answering err"
      <4>1. Answers[serving] = Report("err", 0, 0)
        BY <3>2 DEF Answers, Report
      <4>2. Report("err", 0, 0) \in Frame /\ Report("err", 0, 0).phase = "err"
        BY SMT DEF Report, Frame, Terminal
      <4> QED BY <2>1, <4>1, <4>2 DEF Terminal
    <3>3. CASE serving = "answering other"
      <4>1. Answers[serving] = Report("other", 0, 0)
        BY <3>3 DEF Answers, Report
      <4>2. Report("other", 0, 0) \in Frame /\ Report("other", 0, 0).phase = "other"
        BY SMT DEF Report, Frame, Terminal
      <4> QED BY <2>1, <4>1, <4>2 DEF Terminal
    <3> QED BY <1>1, <3>1, <3>2, <3>3
  <2>3. wire \in Seq(Frame)
    BY DEF IInv, FramesOK
  <2>11. a \in Frame /\ wire' = Append(wire, a)
    BY <2>2
  <2>4. /\ wire' \in Seq(Frame) /\ wire' # <<>> /\ Len(wire') = Len(wire) + 1
        /\ wire'[Len(wire')] = a
        /\ \A i \in 1..Len(wire) : wire'[i] = wire[i]
    BY <2>3, <2>11, AppendTyped
  <2>5. FramesOK' /\ RunOK'
    BY <1>1, <1>3, <2>1, <2>4 DEF IInv, FramesOK
  <2>6. client # "idle" /\ (client = "waiting" => inbox = "none")
    BY <1>1 DEF IInv, IdleOK, AskedOK
  <2>7. IdleOK' /\ AskedOK'
    BY <1>1, <2>6 DEF IdleOK, AskedOK
  <2>8. client = "waiting" =>
          /\ asked \in {"index", "other"} /\ wire \in Seq(Told)
          /\ asked = "other" => wire = <<>>
    BY <1>1, <2>6, ToldWire DEF IInv, WireOK
  <2>9. WireOK'
    <3>1. Terminated'
      BY <2>2, <2>4 DEF Terminated
    <3>2. client = "waiting" => Behind'
      <4>1. ASSUME client = "waiting", NEW i \in 1..(Len(wire') - 1)
            PROVE  wire'[i] \in Told
        <5>1. i \in 1..Len(wire) /\ wire \in Seq(Told)
          BY <2>3, <2>4, <2>8, <4>1, SMT
        <5> QED BY <2>4, <5>1, ElementOfSeq
      <4> QED BY <4>1 DEF Behind
    <3>3. wire = <<>> => Len(wire') = 1
      BY <2>4, SMT
    <3> QED BY <1>1, <2>1, <2>8, <3>1, <3>2, <3>3 DEF WireOK
  <2>10. StreamOK'
    <3>1. ASSUME client = "waiting", a.phase = "ok"
          PROVE  Closing'
      <4>1. Written
        BY <2>2, <2>6, <3>1 DEF IInv, StreamOK
      <4>2. got \in Seq(Frame)
        BY ToldAreFrames DEF IInv, FramesOK
      <4>3. got \o Append(wire, a) = Append(got \o wire, a)
        BY <2>3, <2>11, <4>2, AppendRight
      <4> QED BY <1>1, <2>2, <2>4, <4>1, <4>3 DEF Written, Closing, Finished
    <3>2. Good' => a.phase = "ok"
      BY <2>4 DEF Good
    <3>3. ~Streaming' /\ serving' # "answering ok"
      BY <2>1 DEF Streaming
    <3> QED BY <1>1, <3>1, <3>2, <3>3 DEF StreamOK
  <2> QED BY <1>2, <2>5, <2>7, <2>9, <2>10 DEF IInv
<1> QED BY <1>4, <1>5

LEMMA ExitKeeps ==
  ASSUME IInv, Exit
  PROVE  IInv'
<1>1. /\ serving' = "closed" /\ run' = "none" /\ channel' = <<>>
      /\ UNCHANGED <<inbox, size, count, meter, sent, wire, client, asked, got, answer>>
  BY DEF Exit, user
<1>2. LocalOK' /\ RunOK'
  BY <1>1 DEF IInv, LocalOK, RunOK
<1>3. FramesOK'
  BY <1>1, EmptySeq DEF IInv, FramesOK
<1>4. IdleOK' /\ AskedOK'
  BY <1>1 DEF IInv, IdleOK, AskedOK, Finished
<1>5. WireOK'
  BY <1>1 DEF IInv, WireOK, Behind, LastTold, Terminated
<1>6. StreamOK'
  <2>1. ~Streaming'
    BY <1>1 DEF Streaming
  <2> QED BY <1>1, <2>1 DEF IInv, StreamOK, Good, Closing, Finished
<1> QED BY <1>2, <1>3, <1>4, <1>5, <1>6 DEF IInv

LEMMA AskKeeps ==
  ASSUME IInv, NEW what \in {"index", "other"}, Ask(what)
  PROVE  IInv'
<1>1. /\ client = "idle" /\ client' = "waiting" /\ asked' = what /\ inbox' = what /\ got' = <<>>
      /\ UNCHANGED <<serving, run, size, count, meter, sent, channel, wire>>
  BY DEF Ask, task
<1>2. LocalOK' /\ RunOK'
  BY <1>1 DEF IInv, LocalOK, RunOK, Streaming, Finished
<1>3. FramesOK'
  BY <1>1, EmptySeq DEF IInv, FramesOK
<1>4. IdleOK' /\ AskedOK' /\ WireOK' /\ StreamOK'
  BY <1>1 DEF IInv, IdleOK, AskedOK, WireOK, StreamOK
<1> QED BY <1>2, <1>3, <1>4 DEF IInv

LEMMA LeaveKeeps ==
  ASSUME IInv, Leave \/ ReceiveFails
  PROVE  IInv'
<1>1. /\ client' = "gone" /\ (wire' = wire \/ wire' = <<>>)
      /\ UNCHANGED <<serving, run, size, count, meter, sent, channel, got>>
  BY DEF Leave, ReceiveFails, task
<1>2. LocalOK' /\ RunOK'
  BY <1>1 DEF IInv, LocalOK, RunOK, Streaming, Finished
<1>3. FramesOK'
  BY <1>1, EmptySeq DEF IInv, FramesOK
<1> QED BY <1>1, <1>2, <1>3, GoneKeeps

\* The parts of a sequence that its head is taken from.
LEMMA HeadTail ==
  ASSUME NEW T, NEW s \in Seq(T), s # <<>>
  PROVE  /\ Head(s) = s[1] /\ Head(s) \in T /\ Tail(s) \in Seq(T)
         /\ Len(s) \in Nat \ {0} /\ Len(Tail(s)) = Len(s) - 1
         /\ \A i \in 1..(Len(s) - 1) : Tail(s)[i] = s[i + 1]
         /\ Tail(s) = <<>> <=> Len(s) = 1
         /\ Tail(s) # <<>> => Tail(s)[Len(Tail(s))] = s[Len(s)]
<1>1. /\ Head(s) \in T /\ Head(s) = s[1] /\ Tail(s) \in Seq(T) /\ Len(Tail(s)) = Len(s) - 1
      /\ \A i \in 1..Len(Tail(s)) : Tail(s)[i] = s[i + 1]
      /\ Len(s) \in Nat \ {0}
  BY HeadTailProperties, EmptySeq, SMT
<1>2. Tail(s) = <<>> <=> Len(s) = 1
  BY <1>1, EmptySeq, SMT
<1>3. Tail(s) # <<>> => Tail(s)[Len(Tail(s))] = s[Len(s)]
  BY <1>1, <1>2, SMT
<1> QED BY <1>1, <1>2, <1>3, SMT

\* A frame is progress exactly if it is of those a run says.
LEMMA ProgressIsTold ==
  ASSUME NEW f \in Frame
  PROVE  IsProgress(f) <=> f \in Told
<1>1. IsProgress(f) <=> f.phase \in Phase
  BY Phases DEF IsProgress
<1>2. f.phase \in Phase <=> f \in Told
  BY SMT DEF Frame, Told
<1> QED BY <1>1, <1>2

\* The last frame a client reads of a request is the only one left.
LEMMA AnswerIsLast ==
  ASSUME IInv, client = "waiting", wire # <<>>, asked = "index" => ~IsProgress(Head(wire))
  PROVE  /\ Len(wire) = 1 /\ Terminated /\ Tail(wire) = <<>> /\ inbox = "none"
         /\ serving \in {"reading", "closed"}
<1>1. inbox = "none"
  BY DEF IInv, AskedOK
<1>2. wire \in Seq(Frame)
  BY DEF IInv, FramesOK
<1>3. asked \in {"index", "other"} /\ Behind /\ (LastTold \/ Terminated)
  BY <1>1 DEF IInv, WireOK
<1>4. /\ Head(wire) = wire[1] /\ Head(wire) \in Frame /\ Len(wire) \in Nat \ {0}
      /\ Tail(wire) = <<>> <=> Len(wire) = 1
  BY <1>2, HeadTail
<1>5. CASE asked = "other"
  BY <1>1, <1>4, <1>5, ToldWire DEF IInv, WireOK
<1>6. CASE asked = "index"
  <2>1. wire[1] \notin Told
    BY <1>4, <1>6, ProgressIsTold
  <2>2. Len(wire) = 1
    BY <1>3, <1>4, <2>1, SMT DEF Behind
  <2>3. Terminated
    BY <1>3, <2>1, <2>2 DEF LastTold
  <2>4. serving \in {"reading", "closed"}
    BY <1>1, <2>3, ToldWire DEF IInv, WireOK
  <2> QED BY <1>1, <1>4, <2>2, <2>3, <2>4
<1> QED BY <1>3, <1>5, <1>6

LEMMA ReceiveKeeps ==
  ASSUME IInv, Receive
  PROVE  IInv'
<1>1. /\ client = "waiting" /\ wire # <<>> /\ wire' = Tail(wire)
      /\ UNCHANGED <<serving, inbox, run, size, count, meter, sent, channel, asked>>
  BY DEF Receive, task
<1>2. LocalOK' /\ RunOK'
  BY <1>1 DEF IInv, LocalOK, RunOK, Streaming, Finished
<1>3. wire \in Seq(Frame) /\ got \in Seq(Told) /\ channel \in Seq(Told) /\ sent \in Seq(Told)
  BY DEF IInv, FramesOK
<1>4. /\ Head(wire) = wire[1] /\ Head(wire) \in Frame /\ Tail(wire) \in Seq(Frame)
      /\ Len(wire) \in Nat \ {0} /\ Len(Tail(wire)) = Len(wire) - 1
      /\ \A i \in 1..(Len(wire) - 1) : Tail(wire)[i] = wire[i + 1]
      /\ Tail(wire) = <<>> <=> Len(wire) = 1
      /\ Tail(wire) # <<>> => Tail(wire)[Len(Tail(wire))] = wire[Len(wire)]
  BY <1>1, <1>3, HeadTail
<1>5. inbox = "none"
  BY <1>1 DEF IInv, AskedOK
<1>6. CASE asked = "index" /\ IsProgress(Head(wire))
  <2>1. /\ got' = Append(got, Head(wire)) /\ client' = "waiting"
    BY <1>1, <1>6 DEF Receive
  <2>2. Head(wire) \in Told /\ got' \in Seq(Told)
    BY <1>3, <1>4, <1>6, <2>1, ProgressIsTold, AppendTyped
  <2>3. FramesOK'
    BY <1>1, <1>3, <1>4, <2>2 DEF FramesOK
  <2>4. IdleOK' /\ AskedOK'
    BY <1>1, <1>5, <2>1 DEF IdleOK, AskedOK
  <2>5. Behind /\ (LastTold \/ Terminated)
    BY <1>1, <1>5 DEF IInv, WireOK
  <2>6. Behind'
    <3>1. ASSUME NEW i \in 1..(Len(wire') - 1)
          PROVE  wire'[i] \in Told
      <4>1. i \in 1..(Len(wire) - 1) /\ i + 1 \in 1..(Len(wire) - 1)
        BY <1>1, <1>4, <3>1, SMT
      <4>2. wire'[i] = wire[i + 1]
        BY <1>1, <1>4, <4>1
      <4> QED BY <2>5, <4>1, <4>2 DEF Behind
    <3> QED BY <3>1 DEF Behind
  <2>7. LastTold => LastTold'
    BY <1>1, <1>4 DEF LastTold
  <2>8. Terminated => wire' # <<>> /\ wire'[Len(wire')] = wire[Len(wire)] /\ Terminated'
    <3>1. ASSUME Terminated
          PROVE  Len(wire) # 1
      <4>1. Len(wire) = 1 => Head(wire).phase \in Terminal
        BY <1>4, <3>1 DEF Terminated
      <4>2. Head(wire).phase \notin Terminal
        BY <2>2, SMT DEF Told, Phase, Terminal
      <4> QED BY <4>1, <4>2
    <3> QED BY <1>1, <1>4, <3>1 DEF Terminated
  <2>9. wire \in Seq(Told) => wire' \in Seq(Told)
    BY <1>1, HeadTail
  <2>10. WireOK'
    BY <1>1, <1>5, <1>6, <2>5, <2>6, <2>7, <2>8, <2>9 DEF IInv, WireOK
  <2>11. got' \o wire' = got \o wire
    <3>1. got \in Seq(Frame)
      BY <1>3, ToldAreFrames
    <3> QED BY <1>1, <1>3, <2>1, <3>1, MoveHead
  <2>12. Good' => Good /\ wire'[Len(wire')] = wire[Len(wire)]
    BY <1>1, <1>4 DEF Good
  <2>13. StreamOK'
    <3>1. Passing => Passing'
      BY <1>1, <2>11 DEF Passing
    <3>2. Written => Written'
      BY <1>1, <2>11 DEF Written, Finished
    <3>3. Good' /\ Closing => Closing'
      BY <1>1, <2>11, <2>12 DEF Closing, Finished
    <3>4. /\ Streaming' => Streaming
          /\ serving' = serving
      BY <1>1 DEF Streaming
    <3>5. /\ Streaming => Passing
          /\ serving = "answering ok" => Written
          /\ Good => Closing
      BY <1>1, <1>5 DEF IInv, StreamOK
    <3> QED BY <2>12, <3>1, <3>2, <3>3, <3>4, <3>5 DEF StreamOK
  <2> QED BY <1>2, <2>3, <2>4, <2>10, <2>13 DEF IInv
<1>7. CASE ~(asked = "index" /\ IsProgress(Head(wire)))
  <2>1. client' = "idle" /\ answer' = Head(wire).phase /\ got' = got
    BY <1>7 DEF Receive
  <2>2. /\ Len(wire) = 1 /\ Terminated /\ wire' = <<>>
        /\ serving' \in {"reading", "closed"} /\ inbox' = "none"
    BY <1>1, <1>7, AnswerIsLast
  <2>3. FramesOK'
    BY <1>1, <1>3, <1>4, <2>1 DEF FramesOK
  <2>4. AskedOK' /\ WireOK' /\ StreamOK'
    BY <2>1 DEF AskedOK, WireOK, StreamOK
  <2>5. answer' \in Terminal
    BY <1>4, <2>1, <2>2 DEF Terminated
  <2>6. ASSUME answer' = "ok"
        PROVE  got = sent /\ Finished
    <3>1. Good
      BY <1>1, <1>4, <2>1, <2>2, <2>6 DEF Good
    <3>2. got \o wire = Append(sent, wire[Len(wire)]) /\ Finished
      BY <1>1, <1>5, <3>1 DEF IInv, StreamOK, Closing
    <3>3. got \in Seq(Frame) /\ sent \in Seq(Frame) /\ wire[1] \in Frame
      BY <1>3, <1>4, ToldAreFrames
    <3>4. wire = <<wire[1]>>
      BY <1>3, <2>2, SMT
    <3>5. got \o <<wire[1]>> = Append(got, wire[1])
      BY <3>3, AppendIsConcat
    <3>6. Append(got, wire[1]) = Append(sent, wire[1])
      BY <2>2, <3>2, <3>4, <3>5
    <3> QED BY <3>2, <3>3, <3>6, AppendInjective
  <2>7. IdleOK'
    BY <1>1, <2>1, <2>2, <2>5, <2>6 DEF IdleOK, Finished
  <2> QED BY <1>2, <2>3, <2>4, <2>7 DEF IInv
<1> QED BY <1>6, <1>7

-----------------------------------------------------------------------------
(* The theorem. *)

LEMMA InitHolds ==
  ASSUME StreamAssumption, Init
  PROVE  IInv
<1>1. NoSize \in Sizes
  BY SMT DEF NoSize, Sizes, StreamAssumption
<1>2. LocalOK
  <2>1. meter \in [current : Nat, total : Nat]
    BY SMT DEF Init
  <2> QED BY <1>1, <2>1 DEF Init, LocalOK
<1>3. FramesOK
  BY EmptySeq DEF Init, FramesOK
<1>4. RunOK /\ IdleOK /\ AskedOK /\ WireOK /\ StreamOK
  BY DEF Init, RunOK, IdleOK, AskedOK, WireOK, StreamOK
<1> QED BY <1>2, <1>3, <1>4 DEF IInv

LEMMA StepKeeps ==
  ASSUME StreamAssumption, IInv, [Next]_vars
  PROVE  IInv'
<1>1. CASE RunStep
  BY <1>1, RunKeeps
<1>2. CASE HandlerStep
  BY <1>2, ReadRequestKeeps, ReadEndsKeeps, ForwardKeeps, PollKeeps, DrainedKeeps, WriteKeeps
     DEF HandlerStep
<1>3. CASE ClientStep \/ Leave
  BY <1>3, ReceiveKeeps, LeaveKeeps DEF ClientStep
<1>4. ASSUME NEW what \in {"index", "other"}, Ask(what)
      PROVE  IInv'
  BY <1>4, AskKeeps
<1>5. CASE Exit
  BY <1>5, ExitKeeps
<1>6. CASE UNCHANGED vars
  <2>1. LocalOK' /\ FramesOK' /\ RunOK'
    BY <1>6 DEF vars, task, user, IInv, LocalOK, FramesOK, RunOK, Streaming, Finished
  <2>2. IdleOK' /\ AskedOK'
    BY <1>6 DEF vars, task, user, IInv, IdleOK, AskedOK, Streaming, Finished
  <2>3. WireOK'
    BY <1>6 DEF vars, task, user, IInv, WireOK, Streaming, Behind, LastTold, Terminated,
       Written, Good, Closing
  <2>4. StreamOK'
    BY <1>6 DEF vars, task, user, IInv, StreamOK, Streaming, Finished, Passing, Written,
       Good, Closing
  <2> QED BY <2>1, <2>2, <2>3, <2>4 DEF IInv
<1> QED BY <1>1, <1>2, <1>3, <1>4, <1>5, <1>6 DEF Next

LEMMA InvariantImplies ==
  ASSUME IInv
  PROVE  OneTerminalFrame
<1>1. client = "idle" => wire = <<>> /\ answer \in {"none", "ok", "err", "other"}
  BY DEF IInv, IdleOK, Terminal
<1>2. client = "waiting" /\ serving \in {"streaming", "joining", "draining"} =>
        got \o wire \o channel = sent
  BY DEF IInv, AskedOK, StreamOK, Streaming, Passing
<1>3. client = "idle" /\ answer = "ok" => got = sent /\ Last(got).phase = "Finish"
  BY DEF IInv, IdleOK, Finished, Last
<1> QED BY <1>1, <1>2, <1>3 DEF OneTerminalFrame

\* A client that has its answer has nothing left to read; while its index request is
\* served, what it has, what is on the wire and what is in the channel is what the run
\* said, in order; and "ok" comes after all of it, the last of which is Finish
\* (handle_streaming in handlers/index.rs, request_streaming in client.rs).
THEOREM StreamEndsOnce == ASSUME StreamAssumption PROVE Spec => []OneTerminalFrame
<1>1. Init => IInv
  BY InitHolds
<1>2. IInv /\ [Next]_vars => IInv'
  BY StepKeeps
<1>3. IInv => OneTerminalFrame
  BY InvariantImplies
<1> QED BY <1>1, <1>2, <1>3, PTL DEF Spec

-----------------------------------------------------------------------------
(* What a run says, in order.  A client draws frames one by one, so what two     *)
(* reports in a row may be is enough for the bar; what is on its way compares     *)
(* with every report the client has.                                             *)

Drawing == {"Start", "Tokenize", "Embed"}

Opens(f) == f.phase = "Dsl" \/ (f.phase = "Finish" /\ f.current = 0)

Sequel(a, b) ==
    /\ a.phase # "Finish"
    /\ a.phase \in {"Dsl", "Gather"} => b.phase \in {"Dsl", "Gather", "Start"}
    /\ a.phase \in Drawing =>
         /\ b.phase \in {"Tokenize", "Embed", "BuildIndex", "Finish"}
         /\ b.phase \in Drawing => b.total = a.total
         /\ b.phase = "Finish" => b.current = a.current
    /\ a.phase = "BuildIndex" => b.phase = "Finish"

\* a bar's frames fit it, and it starts empty
Fitting(f) ==
    /\ f.phase \in Drawing => f.current <= f.total
    /\ f.phase = "Start" => f.current = 0

\* Earlier and later reports: chunks count up, phases do not come back.
Counts(a, b) ==
    a.phase = "Embed" /\ b.phase = "Embed" => a.current < b.current /\ a.total = b.total
Ordered(a, b) == b.phase = "Start" \/ Order[a.phase] <= Order[b.phase]

SaidOK ==
    /\ sent # <<>> => Opens(sent[1])
    /\ \A i \in 1..Len(sent) : Fitting(sent[i])
    /\ \A i \in 1..(Len(sent) - 1) : Sequel(sent[i], sent[i + 1])
    /\ \A i \in 1..Len(sent) :
         sent[i].phase = "BuildIndex" => i > 1 /\ sent[i - 1].phase = "Embed"
    /\ \A i \in 1..(Len(sent) - 1) :
         sent[i].phase = "BuildIndex" => sent[i + 1].current = sent[i - 1].current
    /\ \A j \in 1..Len(sent) : \A i \in 1..(j - 1) :
         Counts(sent[i], sent[j]) /\ Ordered(sent[i], sent[j])

\* where the run is, what it has said last and which phases it has been in
End == sent[Len(sent)]
Embedded(f) == f.phase = "Embed" /\ f.current = meter.current /\ f.total = meter.total
Spoken(phases) == \A i \in 1..Len(sent) : sent[i].phase \in phases
SpokenOK ==
    /\ run = "planning" => sent = <<>> /\ meter.current = 0
    /\ run \in {"parsing", "chunking", "tokenizing", "embedding", "storing", "finishing"} =>
         sent # <<>>
    /\ run = "parsing" => Spoken({"Dsl"})
    /\ run = "chunking" => Spoken({"Dsl", "Gather"})
    /\ run = "tokenizing" =>
         /\ Spoken({"Dsl", "Gather", "Start", "Tokenize"})
         /\ End.phase \in Drawing /\ End.total = size.chunks
         /\ meter.current = 0 /\ meter.total = size.chunks
    /\ run \in {"embedding", "storing"} =>
         /\ Spoken({"Dsl", "Gather", "Start", "Tokenize", "Embed"})
         /\ Embedded(End) /\ meter.current = count
         /\ meter.total = size.chunks /\ count <= size.chunks
    /\ run = "finishing" =>
         /\ Spoken({"Dsl", "Gather", "Start", "Tokenize", "Embed", "BuildIndex"})
         /\ End.phase = "BuildIndex" /\ Embedded(sent[Len(sent) - 1])

\* Where in it the frames are that the client has, those on the wire and in the channel.
PlacedOK ==
    /\ Len(got) + Len(channel) <= Len(sent)
    /\ \A i \in 1..Len(got) : got[i] = sent[i]
    /\ \A i \in 1..Len(wire) :
         wire[i] \in Told => Len(got) + i <= Len(sent) /\ wire[i] = sent[Len(got) + i]
    /\ \A i \in 1..Len(channel) : channel[i] = sent[Len(sent) - Len(channel) + i]
    /\ client = "gone" => wire = <<>>
    /\ inbox # "none" => got = <<>> /\ wire = <<>>
    /\ client # "gone" /\ ~Streaming => channel = <<>>

\* phases that move a bar which is there
Moving == {"Dsl", "Gather", "Tokenize", "Embed"}

Shown(open, length, position) ==
    [open |-> open, length |-> length, position |-> position]

\* The bar after the frames the client has.
BarOK ==
    /\ bar = Shown(bar.open, bar.length, bar.position)
    /\ bar.length \in Nat /\ bar.position \in Nat /\ bar.position <= bar.length
    /\ got = <<>> => bar = NoBar
    /\ got # <<>> =>
         LET last == got[Len(got)]
         IN /\ last.phase \in {"Dsl", "Gather"} => bar = NoBar
            /\ last.phase \in Drawing =>
                 bar.open = TRUE /\ bar.length = last.total /\ bar.position = last.current
            /\ last.phase = "BuildIndex" =>
                 bar.open = TRUE /\ bar.position = got[Len(got) - 1].current
            /\ last.phase = "Finish" => bar.open = FALSE /\ bar.position = last.current

DInv == SaidOK /\ SpokenOK /\ PlacedOK /\ BarOK

LEMMA LeastOfTwo ==
  ASSUME NEW a \in Nat \ {0}, NEW b \in Nat \ {0}
  PROVE  Min({a, b}) \in Nat \ {0} /\ Min({a, b}) <= b
<1>1. \E x \in {a, b} : \A y \in {a, b} : x <= y
  BY SMT
<1>2. Min({a, b}) \in {a, b} /\ \A y \in {a, b} : Min({a, b}) <= y
  BY <1>1, Zenon DEF Min
<1> QED BY <1>2

LEMMA AnswersTyped ==
  /\ DOMAIN Answers = {"answering ok", "answering err", "answering other"}
  /\ \A s \in DOMAIN Answers : Answers[s] \in Frame /\ Answers[s].phase \in Terminal
<1>1. Answers["answering ok"] = Report("ok", 0, 0)
  BY DEF Answers, Report
<1>2. Answers["answering err"] = Report("err", 0, 0)
  BY DEF Answers, Report
<1>3. Answers["answering other"] = Report("other", 0, 0)
  BY DEF Answers, Report
<1>4. \A p \in Terminal : Report(p, 0, 0).phase \in Terminal /\ Report(p, 0, 0) \in Frame
  BY SMT DEF Report, Frame, Terminal
<1>5. DOMAIN Answers = {"answering ok", "answering err", "answering other"}
  BY DEF Answers
<1> QED BY <1>1, <1>2, <1>3, <1>4, <1>5 DEF Terminal

LEMMA ToldFields ==
  ASSUME NEW f \in Told
  PROVE  f.phase \in Phase /\ f.current \in Nat /\ f.total \in Nat
  BY SMT DEF Told

\* Phases in their order (response.rs).
LEMMA PhaseOrder ==
  /\ Order["Start"] = 0 /\ Order["Dsl"] = 1 /\ Order["Gather"] = 2 /\ Order["Tokenize"] = 3
  /\ Order["Embed"] = 4 /\ Order["BuildIndex"] = 5 /\ Order["Finish"] = 6
  BY SMT DEF Order

LEMMA SayExtends ==
  ASSUME sent \in Seq(Told), NEW rep \in Told, sent' = Append(sent, rep)
  PROVE  /\ sent' \in Seq(Told) /\ sent' # <<>> /\ Len(sent') = Len(sent) + 1
         /\ sent'[Len(sent')] = rep /\ Len(sent) \in Nat
         /\ \A i \in 1..Len(sent) : sent'[i] = sent[i] /\ sent[i] \in Told
         /\ sent # <<>> <=> Len(sent) > 0
  BY AppendTyped, SMT

\* A report that fits what was said before it.
LEMMA SaidExtends ==
  ASSUME SaidOK, sent \in Seq(Told), NEW rep \in Told, sent' = Append(sent, rep),
         Fitting(rep),
         sent = <<>> => Opens(rep) /\ rep.phase # "BuildIndex",
         sent # <<>> =>
           /\ Sequel(End, rep)
           /\ rep.phase = "BuildIndex" => End.phase = "Embed"
           /\ End.phase = "BuildIndex" => rep.current = sent[Len(sent) - 1].current,
         \A i \in 1..Len(sent) : Counts(sent[i], rep) /\ Ordered(sent[i], rep)
  PROVE  SaidOK'
<1>1. /\ Len(sent) \in Nat /\ Len(sent') = Len(sent) + 1 /\ sent'[Len(sent) + 1] = rep
      /\ \A i \in 1..Len(sent) : sent'[i] = sent[i]
      /\ sent # <<>> <=> Len(sent) > 0
  BY SayExtends
<1>2. sent' # <<>> => Opens(sent'[1])
  <2>1. CASE sent = <<>>
    BY <1>1, <2>1
  <2>2. CASE sent # <<>>
    <3>1. 1 \in 1..Len(sent)
      BY <1>1, <2>2, SMT
    <3> QED BY <1>1, <2>2, <3>1 DEF SaidOK
  <2> QED BY <2>1, <2>2
<1>3. ASSUME NEW i \in 1..Len(sent')
      PROVE  /\ Fitting(sent'[i])
             /\ sent'[i].phase = "BuildIndex" => i > 1 /\ sent'[i - 1].phase = "Embed"
  <2>1. CASE i \in 1..Len(sent)
    <3>1. sent'[i] = sent[i] /\ (i > 1 => i - 1 \in 1..Len(sent))
      BY <1>1, <2>1, SMT
    <3> QED BY <1>1, <2>1, <3>1 DEF SaidOK
  <2>2. CASE i = Len(sent) + 1
    <3>1. rep.phase = "BuildIndex" => sent # <<>> /\ End.phase = "Embed"
      OBVIOUS
    <3>2. sent # <<>> => i > 1 /\ i - 1 = Len(sent) /\ Len(sent) \in 1..Len(sent)
      BY <1>1, <2>2, SMT
    <3> QED BY <1>1, <2>2, <3>1, <3>2 DEF End
  <2> QED BY <1>1, <2>1, <2>2, SMT
<1>4. ASSUME NEW i \in 1..(Len(sent') - 1)
      PROVE  /\ Sequel(sent'[i], sent'[i + 1])
             /\ sent'[i].phase = "BuildIndex" => sent'[i + 1].current = sent'[i - 1].current
  <2>1. i \in 1..Len(sent) /\ sent'[i] = sent[i]
    BY <1>1, SMT
  <2>2. CASE i \in 1..(Len(sent) - 1)
    <3>1. i + 1 \in 1..Len(sent)
      BY <1>1, <2>2, SMT
    <3>2. sent[i].phase = "BuildIndex" => i - 1 \in 1..Len(sent)
      BY <1>1, <2>1, SMT DEF SaidOK
    <3> QED BY <1>1, <2>1, <2>2, <3>1, <3>2 DEF SaidOK
  <2>3. CASE i = Len(sent)
    <3>1. sent # <<>> /\ sent'[i + 1] = rep /\ sent'[i] = End
      BY <1>1, <2>1, <2>3, SMT DEF End
    <3>2. End.phase = "BuildIndex" => sent'[i - 1] = sent[Len(sent) - 1]
      <4>1. End.phase = "BuildIndex" => i - 1 \in 1..Len(sent)
        BY <1>1, <2>1, <2>3, SMT DEF SaidOK, End
      <4> QED BY <1>1, <2>3, <4>1
    <3> QED BY <3>1, <3>2
  <2>4. i \in 1..(Len(sent) - 1) \/ i = Len(sent)
    BY <1>1, <2>1, SMT
  <2> QED BY <2>2, <2>3, <2>4
<1>5. ASSUME NEW j \in 1..Len(sent'), NEW i \in 1..(j - 1)
      PROVE  Counts(sent'[i], sent'[j]) /\ Ordered(sent'[i], sent'[j])
  <2>1. i \in 1..Len(sent) /\ sent'[i] = sent[i]
    BY <1>1, SMT
  <2>2. CASE j \in 1..Len(sent)
    BY <1>1, <2>1, <2>2 DEF SaidOK
  <2>3. CASE j = Len(sent) + 1
    BY <1>1, <2>1, <2>3
  <2> QED BY <1>1, <2>2, <2>3, SMT
<1> QED BY <1>2, <1>3, <1>4, <1>5 DEF SaidOK

\* The phases the run has been in, and one more.
LEMMA SpokenExtends ==
  ASSUME sent \in Seq(Told), NEW rep \in Told, sent' = Append(sent, rep),
         NEW P, NEW Q, Spoken(P), P \subseteq Q, rep.phase \in Q
  PROVE  Spoken(Q)'
<1>1. /\ Len(sent) \in Nat /\ Len(sent') = Len(sent) + 1 /\ sent'[Len(sent) + 1] = rep
      /\ \A i \in 1..Len(sent) : sent'[i] = sent[i]
  BY SayExtends
<1>2. ASSUME NEW i \in 1..Len(sent')
      PROVE  sent'[i].phase \in Q
  <2>1. CASE i \in 1..Len(sent)
    BY <1>1, <2>1 DEF Spoken
  <2>2. CASE i = Len(sent) + 1
    BY <1>1, <2>2
  <2> QED BY <1>1, <2>1, <2>2, SMT
<1> QED BY <1>2 DEF Spoken

\* What each phase may be said after.
LEMMA OrderedAfter ==
  ASSUME NEW P, Spoken(P), P \subseteq Phase, sent \in Seq(Told),
         NEW rep \in Told,
         rep.phase = "Start" \/ \A p \in P : Order[p] <= Order[rep.phase]
  PROVE  \A i \in 1..Len(sent) : Ordered(sent[i], rep)
  BY DEF Spoken, Ordered

LEMMA CountsAfter ==
  ASSUME NEW rep, rep.phase # "Embed"
  PROVE  \A i \in 1..Len(sent) : Counts(sent[i], rep)
  BY DEF Counts

LEMMA NothingToDoSays ==
  ASSUME LocalOK, FramesOK, SaidOK, SpokenOK, NothingToDo
  PROVE  SaidOK' /\ SpokenOK'
<1> DEFINE rep == Report("Finish", meter.current, meter.total)
<1>1. rep \in Told /\ rep.phase = "Finish" /\ rep.current = 0 /\ sent = <<>> /\ sent' = Append(sent, rep)
  BY ReportTyped, SMT DEF LocalOK, SpokenOK, NothingToDo, Say, Report, Phase
<1>2. run' = "ok"
  BY DEF NothingToDo
<1> HIDE DEF rep
<1>3. SaidOK'
  <2>1. sent \in Seq(Told) /\ Len(sent) = 0
    BY <1>1, SMT DEF FramesOK
  <2>2. Fitting(rep) /\ Opens(rep)
    BY <1>1 DEF Fitting, Opens, Drawing
  <2>3. \A i \in 1..Len(sent) : Counts(sent[i], rep) /\ Ordered(sent[i], rep)
    BY <2>1, SMT
  <2> QED BY <1>1, <2>1, <2>2, <2>3, SaidExtends
<1>4. SpokenOK'
  BY <1>2 DEF SpokenOK
<1> QED BY <1>3, <1>4

LEMMA PlanSays ==
  ASSUME StreamAssumption, LocalOK, FramesOK, SaidOK, SpokenOK, NEW s \in Sizes, Plan(s)
  PROVE  SaidOK' /\ SpokenOK'
<1> DEFINE rep == Report("Dsl", 0, s.files)
<1>1. s.files \in Nat
  BY SMT DEF Sizes, StreamAssumption
<1>2. /\ rep \in Told /\ rep.phase = "Dsl" /\ sent = <<>> /\ sent' = Append(sent, rep)
      /\ run' = "parsing"
  BY <1>1, ReportTyped, SMT DEF SpokenOK, Plan, Say, Phase
<1> HIDE DEF rep
<1>3. sent \in Seq(Told) /\ Len(sent) = 0
  BY <1>2, SMT DEF FramesOK
<1>4. SaidOK'
  <2>1. Fitting(rep) /\ Opens(rep)
    BY <1>2 DEF Fitting, Opens, Drawing
  <2>2. \A i \in 1..Len(sent) : Counts(sent[i], rep) /\ Ordered(sent[i], rep)
    BY <1>3, SMT
  <2> QED BY <1>2, <1>3, <2>1, <2>2, SaidExtends
<1>5. Spoken({"Dsl"})'
  <2>1. Spoken({})
    BY <1>3, SMT DEF Spoken
  <2> QED BY <1>2, <1>3, <2>1, SpokenExtends
<1>6. SpokenOK'
  BY <1>2, <1>3, <1>5, SayExtends DEF SpokenOK
<1> QED BY <1>4, <1>6

LEMMA ParseSays ==
  ASSUME LocalOK, FramesOK, SaidOK, SpokenOK, Parse, StreamAssumption
  PROVE  SaidOK' /\ SpokenOK'
<1>1. PICK rep \in Told :
         /\ rep.phase \in {"Dsl", "Gather"} /\ sent' = Append(sent, rep)
         /\ run' = IF rep.phase = "Dsl" THEN "parsing" ELSE "chunking"
  <2>1. size.files \in Nat /\ count \in Nat /\ run = "parsing"
    BY SMT DEF LocalOK, Sizes, StreamAssumption, Parse
  <2>2. CASE count < size.files
    <3>1. Say(Report("Dsl", count + 1, size.files)) /\ run' = run /\ count + 1 \in Nat
      BY <2>1, <2>2, SMT DEF Parse
    <3>2. "Dsl" \in Phase
      BY DEF Phase
    <3>3. /\ Report("Dsl", count + 1, size.files) \in Told
          /\ Report("Dsl", count + 1, size.files).phase = "Dsl"
      BY <2>1, <3>1, <3>2, ReportTyped
    <3>4. sent' = Append(sent, Report("Dsl", count + 1, size.files))
      BY <3>1 DEF Say
    <3> QED BY <2>1, <3>1, <3>3, <3>4
  <2>3. CASE ~(count < size.files)
    <3>1. run' = "chunking" /\ \E parsed \in 0..size.files : Say(Report("Gather", parsed, parsed))
      BY <2>3 DEF Parse
    <3>2. PICK parsed \in 0..size.files : Say(Report("Gather", parsed, parsed))
      BY <3>1
    <3>3. parsed \in Nat
      BY <2>1, SMT
    <3>4. "Gather" \in Phase
      BY DEF Phase
    <3>5. /\ Report("Gather", parsed, parsed) \in Told
          /\ Report("Gather", parsed, parsed).phase = "Gather"
      BY <3>3, <3>4, ReportTyped
    <3>6. sent' = Append(sent, Report("Gather", parsed, parsed))
      BY <3>2 DEF Say
    <3> QED BY <3>1, <3>5, <3>6
  <2> QED BY <2>2, <2>3
<1>2. sent # <<>> /\ Spoken({"Dsl"}) /\ sent \in Seq(Told)
  BY DEF Parse, SpokenOK, FramesOK
<1>3. Len(sent) \in 1..Len(sent) /\ End.phase = "Dsl"
  <2>1. Len(sent) \in 1..Len(sent)
    BY <1>2, SMT
  <2> QED BY <1>2, <2>1 DEF Spoken, End
<1>4. SaidOK'
  <2>1. Fitting(rep) /\ Sequel(End, rep)
    BY <1>1, <1>3 DEF Fitting, Sequel, Drawing
  <2>2. \A i \in 1..Len(sent) : Ordered(sent[i], rep)
    <3>1. \A p \in {"Dsl"} : Order[p] <= Order[rep.phase]
      BY <1>1, PhaseOrder, SMT
    <3> QED BY <1>2, <3>1, OrderedAfter DEF Phase
  <2>3. \A i \in 1..Len(sent) : Counts(sent[i], rep)
    BY <1>1, CountsAfter
  <2> QED BY <1>1, <1>2, <1>3, <2>1, <2>2, <2>3, SaidExtends
<1>5. Spoken({"Dsl", "Gather"})' /\ (rep.phase = "Dsl" => Spoken({"Dsl"})')
  BY <1>1, <1>2, SpokenExtends
<1>6. SpokenOK'
  BY <1>1, <1>2, <1>5, SayExtends DEF SpokenOK
<1> QED BY <1>4, <1>6

\* The last report is one of them.
LEMMA EndTold ==
  ASSUME sent \in Seq(Told), sent # <<>>
  PROVE  Len(sent) \in 1..Len(sent) /\ End \in Told
  BY SMT DEF End

LEMMA StartBarSays ==
  ASSUME StreamAssumption, LocalOK, FramesOK, SaidOK, SpokenOK, StartBar
  PROVE  SaidOK' /\ SpokenOK'
<1> DEFINE rep == Report("Start", 0, size.chunks)
<1>1. size.chunks \in Nat
  BY SMT DEF LocalOK, Sizes, StreamAssumption
<1>2. /\ rep \in Told /\ rep.phase = "Start" /\ rep.current = 0 /\ rep.total = size.chunks
      /\ sent' = Append(sent, rep) /\ run = "chunking" /\ run' = "tokenizing"
      /\ size' = size /\ meter' = [current |-> 0, total |-> size.chunks]
  BY <1>1, ReportTyped, SMT DEF StartBar, Say, Phase, Report
<1> HIDE DEF rep
<1>3. sent # <<>> /\ Spoken({"Dsl", "Gather"}) /\ sent \in Seq(Told)
  BY <1>2 DEF SpokenOK, FramesOK
<1>4. End.phase \in {"Dsl", "Gather"}
  BY <1>3, EndTold DEF Spoken, End
<1>5. SaidOK'
  <2>1. Fitting(rep) /\ Sequel(End, rep)
    BY <1>1, <1>2, <1>4, SMT DEF Fitting, Sequel, Drawing
  <2>2. \A i \in 1..Len(sent) : Counts(sent[i], rep) /\ Ordered(sent[i], rep)
    BY <1>2 DEF Counts, Ordered
  <2> QED BY <1>2, <1>3, <1>4, <2>1, <2>2, SaidExtends
<1>6. Spoken({"Dsl", "Gather", "Start", "Tokenize"})'
  BY <1>2, <1>3, SpokenExtends
<1>7. sent' # <<>> /\ End' = rep
  BY <1>2, <1>3, SayExtends DEF End
<1>8. meter'.current = 0 /\ meter'.total = size.chunks
  BY <1>2
<1>9. SpokenOK'
  BY <1>2, <1>6, <1>7, <1>8 DEF SpokenOK, Drawing
<1> QED BY <1>5, <1>9

LEMMA AnnounceSays ==
  ASSUME StreamAssumption, LocalOK, FramesOK, SaidOK, SpokenOK, Announce
  PROVE  SaidOK' /\ SpokenOK'
<1> DEFINE frames == << Report("Tokenize", 0, size.chunks),
                        Report("Tokenize", size.chunks, size.chunks),
                        Report("Embed", 0, size.chunks) >>
           before == {"Dsl", "Gather", "Start", "Tokenize"}
<1>1. size.chunks \in Nat /\ count \in 0..2 /\ run = "tokenizing"
  BY SMT DEF LocalOK, Sizes, StreamAssumption, Announce
<1>2. Say(frames[count + 1]) /\ UNCHANGED <<size, meter>>
  BY DEF Announce
<1>3. \/ count + 1 = 3 /\ count' = 0 /\ run' = "embedding"
      \/ count + 1 # 3 /\ run' = run
  BY SMT DEF Announce
<1>4. PICK rep \in Told :
        /\ sent' = Append(sent, rep) /\ rep.total = size.chunks /\ rep.current <= size.chunks
        /\ \/ rep.phase = "Tokenize" /\ run' = "tokenizing"
           \/ rep.phase = "Embed" /\ rep.current = 0 /\ run' = "embedding" /\ count' = 0
  <2>1. CASE count = 0
    <3>1. frames[count + 1] = Report("Tokenize", 0, size.chunks)
      BY <2>1, SMT
    <3>2. Say(Report("Tokenize", 0, size.chunks)) /\ run' = "tokenizing"
      BY <1>1, <1>2, <1>3, <2>1, <3>1, SMT
    <3>3. /\ Report("Tokenize", 0, size.chunks) \in Told
          /\ Report("Tokenize", 0, size.chunks).phase = "Tokenize"
          /\ Report("Tokenize", 0, size.chunks).total = size.chunks
          /\ Report("Tokenize", 0, size.chunks).current <= size.chunks
      BY <1>1, SMT DEF Report, Told, Phase
    <3> QED BY <3>2, <3>3, Zenon DEF Say
  <2>2. CASE count = 1
    <3>1. frames[count + 1] = Report("Tokenize", size.chunks, size.chunks)
      BY <2>2, SMT
    <3>2. Say(Report("Tokenize", size.chunks, size.chunks)) /\ run' = "tokenizing"
      BY <1>1, <1>2, <1>3, <2>2, <3>1, SMT
    <3>3. /\ Report("Tokenize", size.chunks, size.chunks) \in Told
          /\ Report("Tokenize", size.chunks, size.chunks).phase = "Tokenize"
          /\ Report("Tokenize", size.chunks, size.chunks).total = size.chunks
          /\ Report("Tokenize", size.chunks, size.chunks).current <= size.chunks
      BY <1>1, SMT DEF Report, Told, Phase
    <3> QED BY <3>2, <3>3, Zenon DEF Say
  <2>3. CASE count = 2
    <3>1. frames[count + 1] = Report("Embed", 0, size.chunks)
      BY <2>3, SMT
    <3>2. Say(Report("Embed", 0, size.chunks)) /\ run' = "embedding" /\ count' = 0
      BY <1>1, <1>2, <1>3, <2>3, <3>1, SMT
    <3>3. /\ Report("Embed", 0, size.chunks) \in Told
          /\ Report("Embed", 0, size.chunks).phase = "Embed"
          /\ Report("Embed", 0, size.chunks).total = size.chunks
          /\ Report("Embed", 0, size.chunks).current = 0
          /\ Report("Embed", 0, size.chunks).current <= size.chunks
      BY <1>1, SMT DEF Report, Told, Phase
    <3> QED BY <3>2, <3>3, Zenon DEF Say
  <2> QED BY <1>1, <2>1, <2>2, <2>3, SMT
<1>5. /\ sent # <<>> /\ Spoken(before) /\ sent \in Seq(Told)
      /\ End.phase \in Drawing /\ End.total = size.chunks
      /\ meter.current = 0 /\ meter.total = size.chunks
  BY <1>1 DEF SpokenOK, FramesOK
<1>6. End.phase \in before
  BY <1>5, EndTold DEF Spoken, End
<1> HIDE DEF before, frames
<1>7. SaidOK'
  <2>1. Fitting(rep) /\ Sequel(End, rep) /\ rep.phase # "BuildIndex" /\ End.phase # "BuildIndex"
    BY <1>4, <1>5, <1>6 DEF Fitting, Sequel, Drawing, before
  <2>2. \A i \in 1..Len(sent) : Ordered(sent[i], rep)
    <3>1. \A p \in before : Order[p] <= Order[rep.phase]
      BY <1>4, PhaseOrder, SMT DEF before
    <3>2. before \subseteq Phase
      BY DEF before, Phase
    <3> QED BY <1>5, <3>1, <3>2, OrderedAfter
  <2>3. \A i \in 1..Len(sent) : Counts(sent[i], rep)
    BY <1>5 DEF Counts, Spoken, before
  <2> QED BY <1>4, <1>5, <2>1, <2>2, <2>3, SaidExtends
<1>8. sent' # <<>> /\ End' = rep
  BY <1>4, <1>5, SayExtends DEF End
<1>9. /\ Spoken({"Dsl", "Gather", "Start", "Tokenize", "Embed"})'
      /\ rep.phase = "Tokenize" => Spoken({"Dsl", "Gather", "Start", "Tokenize"})'
  BY <1>4, <1>5, SpokenExtends DEF before
<1>10. CASE rep.phase = "Tokenize"
  <2>1. SpokenOK'
    BY <1>2, <1>4, <1>5, <1>8, <1>9, <1>10 DEF SpokenOK, Drawing
  <2> QED BY <1>7, <2>1
<1>11. CASE rep.phase = "Embed"
  <2>1. run' = "embedding" /\ count' = 0 /\ rep.current = 0 /\ rep.total = size.chunks
    BY <1>4, <1>11
  <2>2. Embedded(End)' /\ meter'.current = count' /\ meter'.total = size'.chunks /\ count' <= size'.chunks
    BY <1>1, <1>2, <1>5, <1>8, <1>11, <2>1, SMT DEF Embedded
  <2>3. SpokenOK'
    BY <1>8, <1>9, <2>1, <2>2 DEF SpokenOK
  <2> QED BY <1>7, <2>3
<1> QED BY <1>4, <1>10, <1>11

LEMMA BatchSays ==
  ASSUME StreamAssumption, LocalOK, FramesOK, SaidOK, SpokenOK, EmbedBatch
  PROVE  SaidOK' /\ SpokenOK'
<1> DEFINE n == Min({BatchSize, size.chunks - count})
           rep == Report("Embed", meter.current + n, meter.total)
           phases == {"Dsl", "Gather", "Start", "Tokenize", "Embed"}
<1>1. /\ size.chunks \in Nat /\ count \in Nat /\ count < size.chunks /\ run = "embedding"
      /\ meter \in [current : Nat, total : Nat]
  BY SMT DEF LocalOK, Sizes, StreamAssumption, EmbedBatch
<1>2. n \in Nat \ {0} /\ n <= size.chunks - count
  <2>1. BatchSize \in Nat \ {0} /\ size.chunks - count \in Nat \ {0}
    BY <1>1, SMT DEF StreamAssumption
  <2> QED BY <2>1, LeastOfTwo
<1>3. /\ sent # <<>> /\ Spoken(phases) /\ sent \in Seq(Told) /\ Embedded(End)
      /\ meter.current = count /\ meter.total = size.chunks
  BY <1>1 DEF SpokenOK, FramesOK
<1>4. /\ rep \in Told /\ sent' = Append(sent, rep) /\ rep.phase = "Embed"
      /\ rep.current = count + n /\ rep.total = size.chunks
  <2>1. meter.current + n \in Nat
    BY <1>1, <1>2, <1>3, SMT
  <2> QED BY <1>1, <1>3, <2>1, SMT DEF EmbedBatch, Inc, Say, Report, Told, Phase
<1>5. /\ run' = "embedding" /\ size' = size /\ count' = count + n
      /\ meter'.current = count + n /\ meter'.total = size.chunks
  <2>1. meter' = [meter EXCEPT !.current = meter.current + n] /\ meter.current + n \in Nat
    BY <1>1, <1>2, <1>3, SMT DEF EmbedBatch, Inc
  <2> HIDE DEF n
  <2>2. meter'.current = meter.current + n /\ meter'.total = meter.total
    BY ONLY <1>1, <2>1, SMT
  <2>3. run' = run /\ size' = size /\ count' = count + n
    BY DEF EmbedBatch, n
  <2> QED BY <1>1, <1>3, <2>2, <2>3
<1> HIDE DEF n, rep, phases
<1>6. End.phase = "Embed" /\ End.current = count /\ End.total = size.chunks
  BY <1>3 DEF Embedded
<1>7. \A i \in 1..Len(sent) : sent[i].phase = "Embed" =>
        sent[i].current <= count /\ sent[i].total = size.chunks
  <2>1. ASSUME NEW i \in 1..Len(sent), sent[i].phase = "Embed"
        PROVE  sent[i].current <= count /\ sent[i].total = size.chunks
    <3>1. i = Len(sent) \/ i \in 1..(Len(sent) - 1)
      BY <1>3, SMT
    <3>2. CASE i = Len(sent)
      BY <1>1, <1>6, <3>2, SMT DEF End
    <3>3. CASE i \in 1..(Len(sent) - 1)
      <4>1. Counts(sent[i], End)
        BY <1>3, <3>3, EndTold DEF SaidOK, End
      <4>2. sent[i].current \in Nat
        <5>1. sent[i] \in Told
          BY <1>3, SMT
        <5> QED BY <5>1, SMT DEF Told
      <4> QED BY <1>1, <1>6, <2>1, <4>1, <4>2, SMT DEF Counts
    <3> QED BY <3>1, <3>2, <3>3
  <2> QED BY <2>1
<1>8. SaidOK'
  <2>1. rep.current <= rep.total
    BY <1>1, <1>2, <1>4, SMT
  <2>2. Fitting(rep) /\ Sequel(End, rep) /\ rep.phase # "BuildIndex" /\ End.phase # "BuildIndex"
    BY <1>4, <1>6, <2>1 DEF Fitting, Sequel, Drawing
  <2>3. \A i \in 1..Len(sent) : Ordered(sent[i], rep)
    <3>1. \A p \in phases : Order[p] <= Order[rep.phase]
      BY <1>4, PhaseOrder, SMT DEF phases
    <3>2. phases \subseteq Phase
      BY DEF phases, Phase
    <3> QED BY <1>3, <1>4, <3>1, <3>2, OrderedAfter
  <2>4. \A i \in 1..Len(sent) : Counts(sent[i], rep)
    <3>1. ASSUME NEW i \in 1..Len(sent)
          PROVE  Counts(sent[i], rep)
      <4>1. sent[i].current \in Nat
        <5>1. sent[i] \in Told
          BY <1>3, SMT
        <5> QED BY <5>1, SMT DEF Told
      <4>2. sent[i].phase = "Embed" => sent[i].current < rep.current
        BY <1>1, <1>2, <1>4, <1>7, <4>1, SMT
      <4> QED BY <1>4, <1>7, <4>2 DEF Counts
    <3> QED BY <3>1
  <2> QED BY <1>3, <1>4, <2>2, <2>3, <2>4, SaidExtends
<1>9. sent' # <<>> /\ End' = rep
  BY <1>3, <1>4, SayExtends DEF End
<1>10. Spoken({"Dsl", "Gather", "Start", "Tokenize", "Embed"})'
  BY <1>3, <1>4, SpokenExtends DEF phases
<1>11. Embedded(End)'
  BY <1>4, <1>5, <1>9 DEF Embedded
<1>12. count' <= size'.chunks
  BY <1>1, <1>2, <1>5, SMT
<1>13. SpokenOK'
  BY <1>5, <1>9, <1>10, <1>11, <1>12 DEF SpokenOK
<1> QED BY <1>8, <1>13

LEMMA BuildIndexSays ==
  ASSUME LocalOK, FramesOK, SaidOK, SpokenOK, BuildIndex
  PROVE  SaidOK' /\ SpokenOK'
<1> DEFINE rep == Report("BuildIndex", 0, 0)
           before == {"Dsl", "Gather", "Start", "Tokenize", "Embed"}
<1>1. /\ rep \in Told /\ rep.phase = "BuildIndex" /\ sent' = Append(sent, rep)
      /\ run = "storing" /\ run' = "finishing" /\ meter' = meter
  BY ReportTyped, SMT DEF BuildIndex, Say, Phase
<1> HIDE DEF rep
<1>2. sent # <<>> /\ Spoken(before) /\ sent \in Seq(Told) /\ Embedded(End)
  BY <1>1 DEF SpokenOK, FramesOK
<1>3. SaidOK'
  <2>1. Fitting(rep) /\ Sequel(End, rep) /\ End.phase = "Embed"
    BY <1>1, <1>2 DEF Fitting, Sequel, Drawing, Embedded
  <2>2. \A i \in 1..Len(sent) : Ordered(sent[i], rep)
    <3>1. \A p \in before : Order[p] <= Order[rep.phase]
      BY <1>1, PhaseOrder, SMT
    <3>2. before \subseteq Phase
      BY DEF Phase
    <3> QED BY <1>1, <1>2, <3>1, <3>2, OrderedAfter
  <2>3. \A i \in 1..Len(sent) : Counts(sent[i], rep)
    BY <1>1, CountsAfter
  <2> QED BY <1>1, <1>2, <2>1, <2>2, <2>3, SaidExtends
<1>4. Spoken({"Dsl", "Gather", "Start", "Tokenize", "Embed", "BuildIndex"})'
  BY <1>1, <1>2, SpokenExtends
<1>5. /\ sent' # <<>> /\ End' = rep /\ Len(sent) \in 1..Len(sent)
      /\ Len(sent') - 1 = Len(sent) /\ sent'[Len(sent') - 1] = End
  <2>1. Len(sent') = Len(sent) + 1 /\ Len(sent) \in 1..Len(sent) /\ sent'[Len(sent)] = sent[Len(sent)]
    BY <1>1, <1>2, SayExtends, EndTold
  <2>2. Len(sent') - 1 = Len(sent)
    BY <2>1, SMT
  <2> QED BY <1>1, <1>2, <2>1, <2>2, SayExtends DEF End
<1>6. Embedded(sent[Len(sent) - 1])'
  BY <1>1, <1>2, <1>5 DEF Embedded
<1>7. SpokenOK'
  BY <1>1, <1>4, <1>5, <1>6 DEF SpokenOK
<1> QED BY <1>3, <1>7

LEMMA FinishSays ==
  ASSUME LocalOK, FramesOK, SaidOK, SpokenOK, Finish
  PROVE  SaidOK' /\ SpokenOK'
<1> DEFINE rep == Report("Finish", meter.current, meter.total)
           before == {"Dsl", "Gather", "Start", "Tokenize", "Embed", "BuildIndex"}
<1>1. /\ rep \in Told /\ rep.phase = "Finish" /\ rep.current = meter.current
      /\ sent' = Append(sent, rep) /\ run \in {"storing", "finishing"} /\ run' = "ok"
  BY ReportTyped, SMT DEF LocalOK, Finish, Say, Report, Phase
<1> HIDE DEF rep
<1>2. sent # <<>> /\ sent \in Seq(Told) /\ Spoken(before)
  BY <1>1 DEF SpokenOK, FramesOK, Spoken
<1>3. \/ Embedded(End)
      \/ End.phase = "BuildIndex" /\ Embedded(sent[Len(sent) - 1])
  BY <1>1 DEF SpokenOK
<1>4. SaidOK'
  <2>1. Fitting(rep) /\ Sequel(End, rep)
    BY <1>1, <1>3 DEF Fitting, Sequel, Drawing, Embedded
  <2>2. End.phase = "BuildIndex" => rep.current = sent[Len(sent) - 1].current
    BY <1>1, <1>3 DEF Embedded
  <2>3. \A i \in 1..Len(sent) : Ordered(sent[i], rep)
    <3>1. \A p \in before : Order[p] <= Order[rep.phase]
      BY <1>1, PhaseOrder, SMT
    <3>2. before \subseteq Phase
      BY DEF Phase
    <3> QED BY <1>1, <1>2, <3>1, <3>2, OrderedAfter
  <2>4. \A i \in 1..Len(sent) : Counts(sent[i], rep)
    BY <1>1, CountsAfter
  <2> QED BY <1>1, <1>2, <2>1, <2>2, <2>3, <2>4, SaidExtends
<1>5. SpokenOK'
  BY <1>1 DEF SpokenOK
<1> QED BY <1>4, <1>5

\* The run says what fits what it has said.
LEMMA RunSays ==
  ASSUME StreamAssumption, LocalOK, FramesOK, SaidOK, SpokenOK, RunStep
  PROVE  SaidOK' /\ SpokenOK'
<1>1. ASSUME NEW paused \in BOOLEAN, StopEmbedding(paused)
      PROVE  SaidOK' /\ SpokenOK'
  <2>1. /\ run = "embedding" /\ run' = "storing"
        /\ size' = size /\ count' = count /\ meter' = meter /\ sent' = sent
    BY <1>1 DEF StopEmbedding
  <2>2. SaidOK'
    BY <2>1 DEF SaidOK
  <2>3. SpokenOK'
    BY <2>1 DEF SpokenOK, Spoken, Embedded, End
  <2> QED BY <2>2, <2>3
<1>2. ASSUME NEW how \in {"err", "panicked"}, RunFails(how)
      PROVE  SaidOK' /\ SpokenOK'
  <2>1. run' \in {"err", "panicked"} /\ sent' = sent
    BY <1>2 DEF RunFails
  <2> QED BY <2>1 DEF SaidOK, SpokenOK
<1> QED
  BY <1>1, <1>2, NothingToDoSays, PlanSays, ParseSays, StartBarSays, AnnounceSays, BatchSays,
     BuildIndexSays, FinishSays DEF RunStep

\* No other step adds to it, but a new run begins with nothing said.
LEMMA SaidKept ==
  ASSUME SaidOK, SpokenOK, FramesOK, HandlerStep \/ ClientStep \/ Leave \/ Exit
                           \/ (\E what \in {"index", "other"} : Ask(what)) \/ UNCHANGED vars
  PROVE  SaidOK' /\ SpokenOK'
<1>1. \/ run' = run /\ UNCHANGED <<size, count, meter, sent>>
      \/ run' = "none" /\ sent' = sent
      \/ run' = "planning" /\ sent' = <<>> /\ meter'.current = 0
  <2>1. CASE HandlerStep
    <3>1. CASE ReadRequest
      <4>1. inbox = "other" => UNCHANGED task
        BY <3>1 DEF ReadRequest
      <4>2. inbox # "other" =>
              \/ UNCHANGED task
              \/ run' = "planning" /\ sent' = <<>> /\ meter' = [current |-> 0, total |-> 0]
        BY <3>1 DEF ReadRequest
      <4> QED BY <4>1, <4>2 DEF task
    <3>2. CASE ForwardReport
      BY <3>2 DEF ForwardReport
    <3>3. CASE Drained
      BY <3>3 DEF Drained
    <3>4. CASE ReadEnds \/ PollRun \/ JoinRun \/ Drain \/ WriteAnswer
      BY <3>4 DEF ReadEnds, PollRun, JoinRun, Drain, WriteAnswer, task
    <3> QED BY <2>1, <3>1, <3>2, <3>3, <3>4 DEF HandlerStep
  <2>2. CASE ClientStep \/ Leave \/ (\E what \in {"index", "other"} : Ask(what))
    BY <2>2 DEF ClientStep, Receive, ReceiveFails, Leave, Ask, task
  <2>3. CASE Exit
    BY <2>3 DEF Exit
  <2>4. CASE UNCHANGED vars
    BY <2>4 DEF vars, task
  <2> QED BY <2>1, <2>2, <2>3, <2>4
<1>2. CASE run' = run /\ UNCHANGED <<size, count, meter, sent>>
  BY <1>2 DEF SaidOK, SpokenOK, Spoken, Embedded, End
<1>3. CASE run' = "none" /\ sent' = sent
  BY <1>3 DEF SaidOK, SpokenOK
<1>4. CASE run' = "planning" /\ sent' = <<>> /\ meter'.current = 0
  <2>1. Len(sent') = 0
    BY <1>4, SMT
  <2>2. SaidOK'
    BY <1>4, <2>1, SMT DEF SaidOK
  <2> QED BY <1>4, <2>2 DEF SpokenOK
<1> QED BY <1>1, <1>2, <1>3, <1>4

LEMMA RunPlaces ==
  ASSUME StreamAssumption, IInv, PlacedOK, RunStep
  PROVE  PlacedOK'
<1>1. UNCHANGED <<serving, inbox, wire, client, got>>
  BY DEF RunStep, user
<1>2. Streaming /\ Streaming' /\ (Quiet \/ Says)
  BY <1>1, RunEffect DEF IInv, RunOK, Streaming
<1>3. CASE Quiet
  BY <1>1, <1>2, <1>3 DEF Quiet, PlacedOK
<1>4. CASE Says
  <2>1. PICK rep \in Told : channel' = Append(channel, rep) /\ sent' = Append(sent, rep)
    BY <1>4 DEF Says
  <2>2. /\ sent \in Seq(Told) /\ channel \in Seq(Told) /\ got \in Seq(Told) /\ wire \in Seq(Frame)
    BY DEF IInv, FramesOK
  <2>3. /\ Len(sent) \in Nat /\ Len(sent') = Len(sent) + 1 /\ sent'[Len(sent) + 1] = rep
        /\ \A i \in 1..Len(sent) : sent'[i] = sent[i]
    BY <2>1, <2>2, SayExtends
  <2>4. /\ Len(channel) \in Nat /\ Len(channel') = Len(channel) + 1
        /\ channel'[Len(channel) + 1] = rep
        /\ \A i \in 1..Len(channel) : channel'[i] = channel[i]
    BY <2>1, <2>2, SMT
  <2>5. Len(got) \in Nat /\ Len(wire) \in Nat /\ Len(got) + Len(channel) <= Len(sent)
    BY <2>2, SMT DEF PlacedOK
  <2>6. Len(got') + Len(channel') <= Len(sent')
    BY <1>1, <2>3, <2>4, <2>5, SMT
  <2>7. ASSUME NEW i \in 1..Len(got')
        PROVE  got'[i] = sent'[i]
    <3>1. i \in 1..Len(got) /\ i \in 1..Len(sent)
      BY <1>1, <2>3, <2>4, <2>5, <2>7, SMT
    <3> QED BY <1>1, <2>3, <3>1 DEF PlacedOK
  <2>8. ASSUME NEW i \in 1..Len(wire'), wire'[i] \in Told
        PROVE  Len(got') + i <= Len(sent') /\ wire'[i] = sent'[Len(got') + i]
    <3>1. Len(got) + i <= Len(sent) /\ wire[i] = sent[Len(got) + i]
      BY <1>1, <2>8 DEF PlacedOK
    <3>2. Len(got) + i \in 1..Len(sent) /\ Len(got) + i <= Len(sent')
      BY <1>1, <2>3, <2>5, <3>1, SMT
    <3> QED BY <1>1, <2>3, <3>1, <3>2
  <2>9. ASSUME NEW i \in 1..Len(channel')
        PROVE  channel'[i] = sent'[Len(sent') - Len(channel') + i]
    <3>1. Len(sent') - Len(channel') + i = Len(sent) - Len(channel) + i
      BY <2>3, <2>4, SMT
    <3>2. CASE i \in 1..Len(channel)
      <4>1. Len(sent) - Len(channel) + i \in 1..Len(sent)
        BY <2>3, <2>4, <2>5, <3>2, SMT
      <4> QED BY <2>3, <2>4, <3>1, <3>2, <4>1 DEF PlacedOK
    <3>3. CASE i = Len(channel) + 1
      <4>1. Len(sent) - Len(channel) + i = Len(sent) + 1
        BY <2>3, <2>4, <3>3, SMT
      <4> QED BY <2>3, <2>4, <3>1, <3>3, <4>1
    <3>4. i \in 1..Len(channel) \/ i = Len(channel) + 1
      BY <2>4, SMT
    <3> QED BY <3>2, <3>3, <3>4
  <2> QED BY <1>1, <1>2, <2>6, <2>7, <2>8, <2>9 DEF PlacedOK
<1> QED BY <1>2, <1>3, <1>4

\* Frames that are dropped from the channel's head, or stay, are where they were.
LEMMA ChannelShrinks ==
  ASSUME FramesOK, PlacedOK, got' = got, sent' = sent,
         channel' = channel \/ channel' = <<>> \/ (channel # <<>> /\ channel' = Tail(channel))
  PROVE  /\ Len(got') + Len(channel') <= Len(sent')
         /\ \A i \in 1..Len(channel') : channel'[i] = sent'[Len(sent') - Len(channel') + i]
<1>1. Len(got) \in Nat /\ Len(sent) \in Nat /\ Len(channel) \in Nat /\ channel \in Seq(Told)
  BY SMT DEF FramesOK
<1>2. Len(got) + Len(channel) <= Len(sent)
  BY DEF PlacedOK
<1>3. CASE channel' = channel
  BY <1>2, <1>3 DEF PlacedOK
<1>4. CASE channel' = <<>>
  <2>1. Len(channel') = 0
    BY <1>4, SMT
  <2> QED BY <1>1, <1>2, <2>1, SMT
<1>5. CASE channel # <<>> /\ channel' = Tail(channel)
  <2>1. /\ Len(channel') = Len(channel) - 1
        /\ \A i \in 1..(Len(channel) - 1) : channel'[i] = channel[i + 1]
    BY <1>1, <1>5, HeadTail
  <2>2. ASSUME NEW i \in 1..Len(channel')
        PROVE  channel'[i] = sent'[Len(sent') - Len(channel') + i]
    <3>1. /\ i \in 1..(Len(channel) - 1) /\ i + 1 \in 1..Len(channel)
          /\ Len(sent) - Len(channel) + (i + 1) = Len(sent) - Len(channel') + i
      BY <1>1, <2>1, SMT
    <3>2. channel[i + 1] = sent[Len(sent) - Len(channel) + (i + 1)]
      BY <3>1 DEF PlacedOK
    <3> QED BY <2>1, <3>1, <3>2
  <2>3. Len(got) + Len(channel') <= Len(sent)
    BY <1>1, <1>2, <2>1, SMT
  <2> QED BY <2>2, <2>3
<1> QED BY <1>3, <1>4, <1>5

LEMMA ForwardPlaces ==
  ASSUME IInv, TypeOK, PlacedOK, ForwardReport \/ Drain
  PROVE  PlacedOK'
<1>1. /\ Streaming /\ channel # <<>> /\ channel' = Tail(channel)
      /\ UNCHANGED <<inbox, sent, client, got>>
  BY DEF ForwardReport, Drain, Streaming, task, user
<1>2. /\ Len(got') + Len(channel') <= Len(sent')
      /\ \A i \in 1..Len(channel') : channel'[i] = sent'[Len(sent') - Len(channel') + i]
  BY <1>1, ChannelShrinks DEF IInv
<1>3. \A i \in 1..Len(got') : got'[i] = sent'[i]
  BY <1>1 DEF PlacedOK
<1>4. CASE client = "gone"
  <2>1. wire' = wire
    BY <1>4 DEF ForwardReport, Drain, Attached, task
  <2> QED BY <1>1, <1>2, <1>3, <1>4, <2>1 DEF PlacedOK
<1>5. CASE client # "gone"
  <2>1. wire' = Append(wire, Head(channel)) /\ serving' = serving
    BY <1>5 DEF ForwardReport, Drain, Attached, task
  <2>2. client = "waiting" /\ inbox = "none"
    <3>1. client \in {"idle", "waiting", "gone"}
      BY DEF TypeOK
    <3> QED BY <1>1, <1>5, <3>1 DEF IInv, IdleOK, AskedOK, Streaming
  <2>3. /\ channel \in Seq(Told) /\ got \in Seq(Told) /\ wire \in Seq(Told) /\ sent \in Seq(Told)
        /\ Passing
    BY <1>1, <2>2 DEF IInv, FramesOK, WireOK, StreamOK, Streaming
  <2>4. /\ Len(channel) \in Nat \ {0} /\ Len(got) \in Nat /\ Len(wire) \in Nat
        /\ Head(channel) = channel[1]
    BY <1>1, <2>3, HeadTail, SMT
  <2>5. Len(sent) = Len(got) + Len(wire) + Len(channel)
    BY <2>3, SMT DEF Passing
  <2>6. Head(channel) = sent[Len(got) + (Len(wire) + 1)]
    <3>1. 1 \in 1..Len(channel) /\ Len(sent) - Len(channel) + 1 = Len(got) + (Len(wire) + 1)
      BY <2>4, <2>5, SMT
    <3> QED BY <2>4, <3>1 DEF PlacedOK
  <2>7. /\ Len(wire') = Len(wire) + 1 /\ wire'[Len(wire) + 1] = Head(channel)
        /\ \A i \in 1..Len(wire) : wire'[i] = wire[i]
    <3>1. Head(channel) \in Told
      BY <1>1, <2>3, HeadTail
    <3> QED BY <2>1, <2>3, <3>1, AppendTyped
  <2>8. ASSUME NEW i \in 1..Len(wire'), wire'[i] \in Told
        PROVE  Len(got') + i <= Len(sent') /\ wire'[i] = sent'[Len(got') + i]
    <3>1. CASE i \in 1..Len(wire)
      BY <1>1, <2>7, <2>8, <3>1 DEF PlacedOK
    <3>2. CASE i = Len(wire) + 1
      <4>1. Len(got) + i <= Len(sent)
        BY <2>4, <2>5, <3>2, SMT
      <4> QED BY <1>1, <2>6, <2>7, <3>2, <4>1
    <3>3. i \in 1..Len(wire) \/ i = Len(wire) + 1
      BY <2>4, <2>7, SMT
    <3> QED BY <3>1, <3>2, <3>3
  <2> QED BY <1>1, <1>2, <1>3, <2>1, <2>2, <2>8 DEF PlacedOK, Streaming
<1> QED BY <1>4, <1>5

\* The other steps of the handler, and the end of the process.
LEMMA HandlerPlaces ==
  ASSUME IInv, PlacedOK, ReadEnds \/ PollRun \/ JoinRun \/ Drained \/ Exit
  PROVE  PlacedOK'
<1>1. /\ UNCHANGED <<inbox, sent, wire, client, got>>
      /\ channel' = channel \/ channel' = <<>>
  BY DEF ReadEnds, PollRun, JoinRun, Drained, Exit, task, user
<1>2. /\ Len(got') + Len(channel') <= Len(sent')
      /\ \A i \in 1..Len(channel') : channel'[i] = sent'[Len(sent') - Len(channel') + i]
  BY <1>1, ChannelShrinks DEF IInv
<1>3. client # "gone" /\ ~Streaming' => channel' = <<>>
  <2>1. CASE ReadEnds \/ PollRun \/ JoinRun
    BY <2>1 DEF ReadEnds, PollRun, JoinRun, Attached, Streaming
  <2>2. CASE Drained \/ Exit
    BY <2>2 DEF Drained, Exit
  <2> QED BY <2>1, <2>2
<1> QED BY <1>1, <1>2, <1>3 DEF PlacedOK

LEMMA ReadRequestPlaces ==
  ASSUME IInv, PlacedOK, ReadRequest
  PROVE  PlacedOK'
<1>1. /\ inbox # "none" /\ inbox' = "none" /\ channel' = <<>>
      /\ wire' = wire /\ client' = client /\ got' = got
  BY DEF ReadRequest, user
<1>2. got = <<>> /\ wire = <<>>
  BY <1>1 DEF PlacedOK
<1>3. /\ Len(got') = 0 /\ Len(wire') = 0 /\ Len(channel') = 0 /\ Len(sent') \in Nat
  <2>1. sent' = sent \/ sent' = <<>>
    BY DEF ReadRequest, task
  <2> QED BY <1>1, <1>2, <2>1, SMT DEF IInv, FramesOK
<1>4. \A i \in 1..0 : FALSE
  BY SMT
<1> QED BY <1>1, <1>2, <1>3, <1>4, SMT DEF PlacedOK

\* An answer is no progress.
LEMMA WritePlaces ==
  ASSUME IInv, TypeOK, PlacedOK, WriteAnswer
  PROVE  PlacedOK'
<1>1. /\ serving \in {"answering ok", "answering err", "answering other"}
      /\ serving' \in {"reading", "closed"}
      /\ UNCHANGED <<inbox, sent, channel, client, got>>
  BY DEF WriteAnswer, Answers, task, user
<1>2. /\ Len(got') + Len(channel') <= Len(sent') /\ \A i \in 1..Len(got') : got'[i] = sent'[i]
      /\ \A i \in 1..Len(channel') : channel'[i] = sent'[Len(sent') - Len(channel') + i]
      /\ client' # "gone" => channel' = <<>>
  BY <1>1 DEF PlacedOK, Streaming
<1>3. CASE client = "gone"
  <2>1. wire' = wire
    BY <1>3 DEF WriteAnswer, Attached
  <2> QED BY <1>1, <1>2, <1>3, <2>1 DEF PlacedOK
<1>4. CASE client # "gone"
  <2>1. PICK a : wire' = Append(wire, a) /\ a \in Frame /\ a \notin Told
    <3>1. Answers[serving].phase \in Terminal /\ Answers[serving] \in Frame
      BY <1>1, AnswersTyped
    <3>2. \A f \in Told : f.phase \notin Terminal
      BY SMT DEF Told, Phase, Terminal
    <3> QED BY <1>4, <3>1, <3>2 DEF WriteAnswer, Attached
  <2>2. wire \in Seq(Frame)
    BY DEF IInv, FramesOK
  <2>3. /\ Len(wire') = Len(wire) + 1 /\ wire'[Len(wire) + 1] = a /\ Len(wire) \in Nat
        /\ \A i \in 1..Len(wire) : wire'[i] = wire[i]
    BY <2>1, <2>2, AppendTyped, SMT
  <2>4. ASSUME NEW i \in 1..Len(wire'), wire'[i] \in Told
        PROVE  Len(got') + i <= Len(sent') /\ wire'[i] = sent'[Len(got') + i]
    <3>1. i \in 1..Len(wire) \/ i = Len(wire) + 1
      BY <2>3, SMT
    <3>2. i \in 1..Len(wire)
      BY <2>1, <2>3, <2>4, <3>1
    <3> QED BY <1>1, <2>3, <2>4, <3>2 DEF PlacedOK
  <2>5. client = "waiting" /\ inbox = "none"
    <3>1. client \in {"idle", "waiting", "gone"}
      BY DEF TypeOK
    <3> QED BY <1>1, <1>4, <3>1 DEF IInv, IdleOK, AskedOK
  <2> QED BY <1>1, <1>2, <2>4, <2>5 DEF PlacedOK
<1> QED BY <1>3, <1>4

\* The client takes the frame at the wire's head.
LEMMA ReceivePlaces ==
  ASSUME IInv, PlacedOK, Receive
  PROVE  PlacedOK'
<1>1. /\ client = "waiting" /\ wire # <<>> /\ wire' = Tail(wire)
      /\ client' \in {"waiting", "idle"}
      /\ UNCHANGED <<serving, inbox, sent, channel>>
  BY DEF Receive, task
<1>2. inbox = "none"
  BY <1>1 DEF IInv, AskedOK
<1>3. wire \in Seq(Frame) /\ got \in Seq(Told) /\ channel \in Seq(Told) /\ sent \in Seq(Told)
  BY DEF IInv, FramesOK
<1>4. /\ Head(wire) = wire[1] /\ Head(wire) \in Frame /\ Len(wire) \in Nat \ {0}
      /\ Len(wire') = Len(wire) - 1
      /\ \A i \in 1..(Len(wire) - 1) : wire'[i] = wire[i + 1]
  BY <1>1, <1>3, HeadTail
<1>5. Len(got) \in Nat /\ Len(sent) \in Nat /\ Len(channel) \in Nat
  BY <1>3, SMT
<1>6. ~Streaming' => channel' = <<>>
  BY <1>1 DEF PlacedOK, Streaming
<1>7. CASE asked = "index" /\ IsProgress(Head(wire))
  <2>1. got' = Append(got, Head(wire)) /\ Head(wire) \in Told
    BY <1>4, <1>7, ProgressIsTold DEF Receive
  <2>2. /\ Len(got') = Len(got) + 1 /\ got'[Len(got) + 1] = wire[1]
        /\ \A i \in 1..Len(got) : got'[i] = got[i]
    BY <1>3, <1>4, <2>1, AppendTyped
  <2>3. Len(got) + 1 <= Len(sent) /\ wire[1] = sent[Len(got) + 1]
    <3>1. 1 \in 1..Len(wire)
      BY <1>4, SMT
    <3> QED BY <1>4, <2>1, <3>1 DEF PlacedOK
  <2>4. Len(got') + Len(channel') <= Len(sent')
    <3>1. CASE Streaming
      <4>1. Passing /\ wire \in Seq(Told)
        BY <1>1, <1>2, <3>1 DEF IInv, StreamOK, WireOK, Streaming
      <4>2. Len(sent) = Len(got) + Len(wire) + Len(channel)
        BY <1>3, <4>1, SMT DEF Passing
      <4> QED BY <1>1, <1>4, <1>5, <2>2, <4>2, SMT
    <3>2. CASE ~Streaming
      <4>1. Len(channel') = 0
        BY <1>1, <3>2, SMT DEF PlacedOK
      <4> QED BY <1>1, <1>5, <2>2, <2>3, <4>1, SMT
    <3> QED BY <3>1, <3>2
  <2>5. ASSUME NEW i \in 1..Len(got')
        PROVE  got'[i] = sent'[i]
    <3>1. i \in 1..Len(got) \/ i = Len(got) + 1
      BY <1>5, <2>2, SMT
    <3> QED BY <1>1, <2>2, <2>3, <3>1 DEF PlacedOK
  <2>6. ASSUME NEW i \in 1..Len(wire'), wire'[i] \in Told
        PROVE  Len(got') + i <= Len(sent') /\ wire'[i] = sent'[Len(got') + i]
    <3>1. /\ i \in 1..(Len(wire) - 1) /\ i + 1 \in 1..Len(wire)
          /\ Len(got') + i = Len(got) + (i + 1)
      BY <1>4, <1>5, <2>2, SMT
    <3>2. wire'[i] = wire[i + 1]
      BY <1>4, <3>1
    <3> QED BY <1>1, <2>6, <3>1, <3>2 DEF PlacedOK
  <2>7. \A i \in 1..Len(channel') : channel'[i] = sent'[Len(sent') - Len(channel') + i]
    BY <1>1 DEF PlacedOK
  <2> QED BY <1>1, <1>2, <1>6, <2>4, <2>5, <2>6, <2>7 DEF PlacedOK
<1>8. CASE ~(asked = "index" /\ IsProgress(Head(wire)))
  <2>1. got' = got
    BY <1>8 DEF Receive
  <2>2. wire' = <<>>
    BY <1>1, <1>8, AnswerIsLast
  <2>3. Len(wire') = 0
    BY <2>2, SMT
  <2>4. \A i \in 1..Len(wire') : FALSE
    BY <2>3, SMT
  <2>5. /\ Len(got') + Len(channel') <= Len(sent') /\ \A i \in 1..Len(got') : got'[i] = sent'[i]
        /\ \A i \in 1..Len(channel') : channel'[i] = sent'[Len(sent') - Len(channel') + i]
    BY <1>1, <2>1 DEF PlacedOK
  <2> QED BY <1>1, <1>2, <1>6, <2>2, <2>4, <2>5 DEF PlacedOK
<1> QED BY <1>7, <1>8

LEMMA ClientPlaces ==
  ASSUME IInv, PlacedOK, ReceiveFails \/ Leave \/ (\E what \in {"index", "other"} : Ask(what))
  PROVE  PlacedOK'
<1>1. /\ UNCHANGED <<serving, sent, channel>>
      /\ \/ client' = "gone" /\ wire' = <<>> /\ got' = got /\ inbox' = inbox
         \/ client = "idle" /\ client' = "waiting" /\ wire' = wire /\ got' = <<>>
  BY DEF ReceiveFails, Leave, Ask, task
<1>2. wire' = <<>> /\ (client = "idle" => wire = <<>>)
  BY <1>1 DEF IInv, IdleOK
<1>3. \A i \in 1..Len(wire') : FALSE
  <2>1. Len(wire') = 0
    BY <1>2, SMT
  <2> QED BY <2>1, SMT
<1>4. Len(got') + Len(channel') <= Len(sent') /\ \A i \in 1..Len(got') : got'[i] = sent'[i]
  <2>1. CASE got' = got
    BY <1>1, <2>1 DEF PlacedOK
  <2>2. CASE got' = <<>>
    <3>1. /\ Len(got') = 0 /\ Len(got) \in Nat /\ Len(sent) \in Nat /\ Len(channel) \in Nat
          /\ Len(got) + Len(channel) <= Len(sent)
      BY <2>2, SMT DEF IInv, FramesOK, PlacedOK
    <3> QED BY <1>1, <3>1, SMT
  <2> QED BY <1>1, <2>1, <2>2
<1>5. \A i \in 1..Len(channel') : channel'[i] = sent'[Len(sent') - Len(channel') + i]
  BY <1>1 DEF PlacedOK
<1>6. inbox' # "none" => got' = <<>>
  BY <1>1 DEF PlacedOK
<1>7. client' # "gone" /\ ~Streaming' => channel' = <<>>
  BY <1>1 DEF PlacedOK, Streaming
<1> QED BY <1>2, <1>3, <1>4, <1>5, <1>6, <1>7 DEF PlacedOK

LEMMA StepPlaces ==
  ASSUME StreamAssumption, IInv, TypeOK, PlacedOK, [Next]_vars
  PROVE  PlacedOK'
<1>1. CASE UNCHANGED vars
  BY <1>1 DEF vars, task, user, PlacedOK, Streaming
<1>2. CASE Next
  BY <1>2, RunPlaces, ForwardPlaces, HandlerPlaces, ReadRequestPlaces, WritePlaces,
     ReceivePlaces, ClientPlaces DEF Next, HandlerStep, ClientStep
<1> QED BY <1>1, <1>2

-----------------------------------------------------------------------------
(* The bar. *)

LEMMA BarFields ==
  \A o, l, p : /\ Shown(o, l, p).open = o /\ Shown(o, l, p).length = l
               /\ Shown(o, l, p).position = p
  BY SMT DEF Shown

\* What a frame makes of a bar.
LEMMA DrawnStart ==
  ASSUME NEW b, NEW f, f.phase = "Start"
  PROVE  Drawn(b, f) = Shown(TRUE, f.total, 0)
  BY DEF Drawn, Shown

LEMMA DrawnFinish ==
  ASSUME NEW o, NEW l, NEW p, NEW f, f.phase = "Finish"
  PROVE  Drawn(Shown(o, l, p), f) = Shown(FALSE, l, p)
<1>1. ASSUME NEW v
      PROVE  [Shown(o, l, p) EXCEPT !.open = v] = Shown(v, l, p)
  BY SMT DEF Shown
<1>2. [Shown(o, l, p) EXCEPT !.open = FALSE] = Shown(FALSE, l, p)
  BY <1>1
<1> QED BY <1>2 DEF Drawn

LEMMA DrawnSame ==
  ASSUME NEW b, NEW f, f.phase = "BuildIndex"
  PROVE  Drawn(b, f) = b
  BY DEF Drawn

LEMMA DrawnOn ==
  ASSUME NEW l, NEW p, NEW f, f.phase \in Moving
  PROVE  Drawn(Shown(TRUE, l, p), f) = Shown(TRUE, l, f.current)
<1>1. ASSUME NEW v, NEW w
      PROVE  [Shown(v, l, p) EXCEPT !.position = w] = Shown(v, l, w)
  BY SMT DEF Shown
<1>2. Shown(TRUE, l, p).open = TRUE
  BY BarFields
<1>3. [Shown(TRUE, l, p) EXCEPT !.position = f.current] = Shown(TRUE, l, f.current)
  BY <1>1
<1> QED BY <1>2, <1>3 DEF Drawn, Moving

LEMMA DrawnOff ==
  ASSUME NEW l, NEW p, NEW f, f.phase \in Moving
  PROVE  Drawn(Shown(FALSE, l, p), f) = Shown(FALSE, l, p)
<1>1. Shown(FALSE, l, p).open = FALSE
  BY BarFields
<1> QED BY <1>1 DEF Drawn, Moving

LEMMA BarKept ==
  ASSUME BarOK, bar' = bar, got' = got
  PROVE  BarOK'
  BY DEF BarOK

\* The bar and the frames that a client has follow what the run said.
LEMMA ReceiveDraws ==
  ASSUME IInv, SaidOK, PlacedOK, BarOK, Receive
  PROVE  BarOK'
<1>1. client = "waiting" /\ wire # <<>>
  BY DEF Receive
<1>2. CASE ~(asked = "index" /\ IsProgress(Head(wire)))
  BY <1>2, BarKept DEF Receive
<1>3. CASE asked = "index" /\ IsProgress(Head(wire))
  <2> DEFINE f == Head(wire)
  <2>1. got' = Append(got, f) /\ bar' = Drawn(bar, f)
    BY <1>3 DEF Receive
  <2>2. wire \in Seq(Frame) /\ got \in Seq(Told) /\ sent \in Seq(Told)
    BY DEF IInv, FramesOK
  <2>3. f = wire[1] /\ f \in Told /\ 1 \in 1..Len(wire)
    <3>1. f = wire[1] /\ f \in Frame /\ Len(wire) \in Nat \ {0}
      BY <1>1, <2>2, HeadTail
    <3> QED BY <1>3, <3>1, ProgressIsTold, SMT
  <2>4. Len(got) + 1 <= Len(sent) /\ f = sent[Len(got) + 1]
    BY <2>3 DEF PlacedOK
  <2> HIDE DEF f
  <2>5. /\ Len(got) \in Nat /\ Len(got') = Len(got) + 1 /\ got' # <<>> /\ got'[Len(got')] = f
        /\ \A i \in 1..Len(got) : got'[i] = got[i]
        /\ Len(got') - 1 = Len(got)
    BY <2>1, <2>2, <2>3, AppendTyped, SMT
  <2>6. PICK o, l, p : /\ bar = Shown(o, l, p)
                       /\ bar.open = o /\ bar.length = l /\ bar.position = p
                       /\ l \in Nat /\ p \in Nat /\ p <= l
    BY DEF BarOK
  <2>7. /\ f.current \in Nat /\ f.total \in Nat /\ f.phase \in Phase /\ Fitting(f)
    <3>1. Len(got) + 1 \in 1..Len(sent)
      BY <2>2, <2>4, <2>5, SMT
    <3> QED BY <2>3, <2>4, <3>1, SMT DEF SaidOK, Told
  <2>10. /\ f.phase = "Start" => bar' = Shown(TRUE, f.total, 0)
         /\ f.phase = "Finish" => bar' = Shown(FALSE, l, p)
         /\ f.phase = "BuildIndex" => bar' = bar
         /\ f.phase \in Moving /\ o = TRUE =>
              bar' = Shown(o, l, f.current)
         /\ f.phase \in Moving /\ o = FALSE => bar' = bar
    <3>1. bar = Shown(o, l, p) /\ bar' = Drawn(Shown(o, l, p), f)
      BY <2>1, <2>6
    <3>2. CASE f.phase = "Start"
      <4>1. Drawn(Shown(o, l, p), f) = Shown(TRUE, f.total, 0)
        BY <3>2, DrawnStart, Zenon
      <4> QED BY <3>1, <3>2, <4>1 DEF Moving
    <3>3. CASE f.phase = "Finish"
      <4>1. Drawn(Shown(o, l, p), f) = Shown(FALSE, l, p)
        BY <3>3, DrawnFinish, Zenon
      <4> QED BY <3>1, <3>3, <4>1 DEF Moving
    <3>4. CASE f.phase = "BuildIndex"
      <4>1. Drawn(Shown(o, l, p), f) = Shown(o, l, p)
        BY <3>4, DrawnSame, Zenon
      <4> QED BY <3>1, <3>4, <4>1 DEF Moving
    <3>5. CASE f.phase \in Moving
      <4>1. Drawn(Shown(TRUE, l, p), f) = Shown(TRUE, l, f.current)
        BY <3>5, DrawnOn, Zenon
      <4>2. Drawn(Shown(FALSE, l, p), f) = Shown(FALSE, l, p)
        BY <3>5, DrawnOff, Zenon
      <4> QED BY <3>1, <3>5, <4>1, <4>2 DEF Moving
    <3> QED BY <3>2, <3>3, <3>4, <3>5 DEF Moving
  <2>8. PICK q, m, r :
          /\ bar' = Shown(q, m, r)
          /\ m \in Nat /\ r \in Nat /\ r <= m
          /\ f.phase \in {"Dsl", "Gather"} => bar' = NoBar
          /\ f.phase \in Drawing => q = TRUE /\ m = f.total /\ r = f.current
          /\ f.phase = "BuildIndex" => q = TRUE /\ r = got[Len(got)].current
          /\ f.phase = "Finish" => q = FALSE /\ r = f.current
    <3>1. CASE got = <<>>
      <4>1. bar = Shown(FALSE, 0, 0) /\ bar = NoBar
        BY <3>1 DEF BarOK, NoBar, Shown
      <4>2. Len(got) = 0
        BY <3>1, SMT
      <4>3. sent # <<>> /\ sent[1] = f
        BY <2>2, <2>4, <4>2, SMT
      <4>4. Opens(f)
        BY <4>3 DEF SaidOK
      <4>5. bar' = NoBar
        <5>1. Shown(FALSE, 0, 0).open = FALSE
          BY BarFields
        <5>2. o = FALSE
          BY <2>6, <4>1, <5>1
        <5>3. Shown(FALSE, 0, 0) = NoBar
          BY DEF Shown, NoBar
        <5>4. Shown(FALSE, l, p) = bar
          BY <2>6, <5>2
        <5> QED BY <2>10, <4>1, <4>4, <5>2, <5>3, <5>4 DEF Opens, Moving
      <4>6. f.phase \notin Drawing \cup {"BuildIndex"}
        BY <4>4 DEF Opens, Drawing
      <4>7. f.phase = "Finish" => f.current = 0
        BY <4>4 DEF Opens
      <4> QED BY <4>5, <4>6, <4>7 DEF NoBar, Shown
    <3>2. CASE got # <<>>
      <4> DEFINE a == got[Len(got)]
      <4>1. Len(got) \in 1..Len(got) /\ Len(got) \in 1..(Len(sent) - 1) /\ Len(got) \in 1..Len(sent)
        BY <2>2, <2>4, <2>5, <3>2, SMT
      <4>2. a = sent[Len(got)] /\ a \in Told /\ a.phase \in Phase /\ a.current \in Nat
        <5>1. got[Len(got)] \in Told /\ got[Len(got)] = sent[Len(got)]
          BY <2>2, <4>1, SMT DEF PlacedOK
        <5> HIDE DEF a
        <5>2. a \in Told
          BY <5>1 DEF a
        <5> QED BY <5>1, <5>2, SMT DEF Told, a
      <4>3. Sequel(a, f)
        BY <2>4, <4>1, <4>2 DEF SaidOK
      <4>4. /\ a.phase \in {"Dsl", "Gather"} => bar = NoBar
            /\ a.phase \in Drawing => o = TRUE /\ l = a.total /\ p = a.current
            /\ a.phase = "BuildIndex" => o = TRUE /\ p = got[Len(got) - 1].current
        BY <2>6, <3>2 DEF BarOK
      <4>5. a.phase = "BuildIndex" => f.current = p
        <5>1. ASSUME a.phase = "BuildIndex"
              PROVE  f.current = p
          <6>1. Len(got) > 1 /\ sent[Len(got) + 1].current = sent[Len(got) - 1].current
            BY <4>1, <4>2, <5>1 DEF SaidOK
          <6>2. Len(got) - 1 \in 1..Len(got)
            BY <2>5, <6>1, SMT
          <6>3. got[Len(got) - 1] = sent[Len(got) - 1]
            BY <6>2 DEF PlacedOK
          <6> QED BY <2>4, <4>4, <5>1, <6>1, <6>3
        <5> QED BY <5>1
      <4> HIDE DEF a
      <4>6. CASE a.phase \in {"Dsl", "Gather"}
        <5>1. bar = Shown(FALSE, 0, 0)
          BY <4>4, <4>6 DEF NoBar, Shown
        <5>2. CASE f.phase \in {"Dsl", "Gather"}
          <6>1. o = FALSE
            <7>1. Shown(FALSE, 0, 0).open = FALSE
              BY BarFields
            <7> QED BY <2>6, <5>1, <7>1
          <6>2. bar' = Shown(FALSE, 0, 0)
            BY <2>10, <5>1, <5>2, <6>1 DEF Moving
          <6> QED BY <5>2, <6>2 DEF NoBar, Drawing, Shown
        <5>3. CASE f.phase = "Start"
          <6>1. bar' = Shown(TRUE, f.total, 0)
            BY <2>10, <5>3 DEF Moving
          <6>2. f.current = 0 /\ 0 <= f.total
            BY <2>7, <5>3, SMT DEF Fitting
          <6> QED BY <2>7, <5>3, <6>1, <6>2 DEF Drawing
        <5> QED BY <4>3, <4>6, <5>2, <5>3 DEF Sequel
      <4>7. CASE a.phase \in Drawing
        <5>1. o = TRUE /\ l = a.total /\ p = a.current
          BY <4>4, <4>7
        <5>2. CASE f.phase \in {"Tokenize", "Embed"}
          <6>1. bar' = Shown(TRUE, l, f.current)
            BY <2>10, <5>1, <5>2 DEF Moving
          <6>2. f.total = l /\ f.current <= l
            BY <2>7, <4>3, <4>7, <5>1, <5>2 DEF Sequel, Drawing, Fitting
          <6> QED BY <2>6, <2>7, <5>2, <6>1, <6>2
        <5>3. CASE f.phase = "BuildIndex"
          <6>1. bar' = bar
            BY <2>10, <5>3 DEF Moving
          <6> QED BY <2>6, <5>1, <5>3, <6>1 DEF Drawing, a
        <5>4. CASE f.phase = "Finish"
          <6>1. bar' = Shown(FALSE, l, p)
            BY <2>10, <5>4 DEF Moving
          <6>2. f.current = p
            BY <4>3, <4>7, <5>1, <5>4 DEF Sequel
          <6> QED BY <2>6, <5>4, <6>1, <6>2 DEF Drawing
        <5> QED BY <4>3, <4>7, <5>2, <5>3, <5>4 DEF Sequel
      <4>8. CASE a.phase = "BuildIndex"
        <5>1. f.phase = "Finish"
          BY <4>3, <4>8 DEF Sequel
        <5>2. bar' = Shown(FALSE, l, p)
          BY <2>10, <5>1 DEF Moving
        <5> QED BY <2>6, <4>5, <4>8, <5>1, <5>2 DEF Drawing
      <4> QED BY <4>2, <4>3, <4>6, <4>7, <4>8 DEF Phase, Drawing, Sequel
    <3> QED BY <3>1, <3>2
  <2>9. bar'.open = q /\ bar'.length = m /\ bar'.position = r
    <3>1. bar' = Shown(q, m, r)
      BY <2>8
    <3>2. Shown(q, m, r).open = q /\ Shown(q, m, r).length = m /\ Shown(q, m, r).position = r
      BY BarFields
    <3> QED BY <3>1, <3>2
  <2>11. bar' = Shown(bar'.open, bar'.length, bar'.position)
    BY <2>8, <2>9
  <2>12. /\ bar'.length \in Nat /\ bar'.position \in Nat /\ bar'.position <= bar'.length
         /\ f.phase \in {"Dsl", "Gather"} => bar' = NoBar
         /\ f.phase \in Drawing =>
              bar'.open = TRUE /\ bar'.length = f.total /\ bar'.position = f.current
         /\ f.phase = "BuildIndex" =>
              bar'.open = TRUE /\ bar'.position = got'[Len(got') - 1].current
         /\ f.phase = "Finish" => bar'.open = FALSE /\ bar'.position = f.current
    <3>1. f.phase = "BuildIndex" => got'[Len(got') - 1].current = got[Len(got)].current
      <4>1. CASE got = <<>>
        <5>1. f.phase # "BuildIndex"
          <6>1. sent # <<>> /\ sent[1] = f
            BY <2>2, <2>4, <4>1, SMT
          <6> QED BY <6>1 DEF SaidOK, Opens
        <5> QED BY <5>1
      <4>2. CASE got # <<>>
        <5>1. Len(got) \in 1..Len(got)
          BY <2>2, <4>2, SMT
        <5> QED BY <2>5, <5>1
      <4> QED BY <4>1, <4>2
    <3> QED BY <2>8, <2>9, <3>1
  <2> QED BY <2>5, <2>11, <2>12 DEF BarOK
<1> QED BY <1>2, <1>3

LEMMA StepDraws ==
  ASSUME StreamAssumption, IInv, SaidOK, PlacedOK, BarOK, [Next]_vars
  PROVE  BarOK'
<1>1. CASE RunStep \/ HandlerStep \/ Exit \/ ReceiveFails \/ Leave \/ UNCHANGED vars
  <2>1. bar' = bar /\ got' = got
    BY <1>1 DEF RunStep, HandlerStep, ReadRequest, ReadEnds, ForwardReport, PollRun, JoinRun,
       Drain, Drained, WriteAnswer, Exit, ReceiveFails, Leave, vars, user
  <2> QED BY <2>1, BarKept
<1>2. CASE Receive
  BY <1>2, ReceiveDraws
<1>3. ASSUME NEW what \in {"index", "other"}, Ask(what)
      PROVE  BarOK'
  <2>1. bar' = NoBar /\ got' = <<>>
    BY <1>3 DEF Ask
  <2>2. NoBar = Shown(FALSE, 0, 0)
    BY DEF NoBar, Shown
  <2>3. bar'.open = FALSE /\ bar'.length = 0 /\ bar'.position = 0
    <3>1. Shown(FALSE, 0, 0).open = FALSE
      BY BarFields
    <3>2. Shown(FALSE, 0, 0).length = 0
      BY SMT DEF Shown
    <3>3. Shown(FALSE, 0, 0).position = 0
      BY SMT DEF Shown
    <3> QED BY <2>1, <2>2, <3>1, <3>2, <3>3
  <2>4. bar' = Shown(bar'.open, bar'.length, bar'.position)
    BY <2>1, <2>2, <2>3
  <2> QED BY <2>1, <2>3, <2>4, SMT DEF BarOK
<1> QED BY <1>1, <1>2, <1>3 DEF Next, ClientStep

-----------------------------------------------------------------------------
(* Types. *)

LEMMA RunTypes ==
  ASSUME StreamAssumption, IInv, TypeOK, RunStep
  PROVE  TypeOK'
<1>1. UNCHANGED <<serving, inbox, wire, client, asked, asks, exits>>
  BY DEF RunStep, user
<1>2. LocalOK'
  BY RunEffect DEF IInv
<1>3. run' \in {"none", "planning", "parsing", "chunking", "tokenizing", "embedding",
                "storing", "finishing"} \cup Ended
  <2>1. CASE \E s \in Sizes : Plan(s)
    BY <2>1 DEF Plan
  <2>2. CASE NothingToDo \/ StartBar \/ BuildIndex \/ Finish
    BY <2>2 DEF NothingToDo, StartBar, BuildIndex, Finish, Ended
  <2>3. CASE Parse \/ Announce \/ EmbedBatch
    BY <2>3 DEF Parse, Announce, EmbedBatch, TypeOK
  <2>4. CASE \E paused \in BOOLEAN : StopEmbedding(paused)
    BY <2>4 DEF StopEmbedding
  <2>5. CASE \E how \in {"err", "panicked"} : RunFails(how)
    BY <2>5 DEF RunFails, Ended
  <2> QED BY <2>1, <2>2, <2>3, <2>4, <2>5 DEF RunStep
<1> QED BY <1>1, <1>2, <1>3 DEF TypeOK, LocalOK

LEMMA HandlerTypes ==
  ASSUME StreamAssumption, IInv, TypeOK, HandlerStep
  PROVE  TypeOK'
<1> DEFINE Servings == {"reading", "streaming", "joining", "draining", "closed",
                        "answering ok", "answering err", "answering other"}
<1>1. Servings = {"reading", "streaming", "joining", "draining", "closed"} \cup DOMAIN Answers
  BY DEF Answers
<1>2. UNCHANGED <<client, asked, asks, exits>>
  BY DEF HandlerStep, ReadRequest, ReadEnds, ForwardReport, PollRun, JoinRun, Drain, Drained,
     WriteAnswer, user
<1>3. inbox' \in {"none", "index", "other"}
  BY DEF HandlerStep, ReadRequest, ReadEnds, ForwardReport, PollRun, JoinRun, Drain, Drained,
     WriteAnswer, TypeOK
<1>4. serving' \in Servings /\ run' \in {run, "none", "planning"}
  <2>1. CASE ReadRequest
    BY <2>1 DEF ReadRequest, task
  <2>2. CASE ForwardReport
    BY <1>1, <2>2 DEF ForwardReport, TypeOK
  <2>3. CASE Drained
    BY <2>3 DEF Drained
  <2>4. CASE ReadEnds \/ PollRun \/ JoinRun \/ Drain \/ WriteAnswer
    BY <1>1, <2>4 DEF ReadEnds, PollRun, JoinRun, Drain, WriteAnswer, TypeOK, task
  <2> QED BY <2>1, <2>2, <2>3, <2>4 DEF HandlerStep
<1>5. LocalOK'
  <2>1. IInv'
    BY ReadRequestKeeps, ReadEndsKeeps, ForwardKeeps, PollKeeps, DrainedKeeps, WriteKeeps
       DEF HandlerStep
  <2> QED BY <2>1 DEF IInv
<1>6. Len(wire') <= Room
  <2>1. wire \in Seq(Frame) /\ Len(wire) <= Room /\ Room \in Nat
    BY DEF IInv, FramesOK, TypeOK, StreamAssumption
  <2>2. CASE wire' = wire
    BY <2>1, <2>2
  <2>3. CASE Len(wire) < Room /\ \E f \in Frame : wire' = Append(wire, f)
    <3>1. PICK f \in Frame : wire' = Append(wire, f)
      BY <2>3
    <3>2. Len(wire') = Len(wire) + 1
      BY <2>1, <3>1, AppendTyped
    <3> QED BY <2>1, <2>3, <3>2, SMT
  <2>4. CASE ForwardReport \/ Drain
    <3>1. wire' = wire \/ (Fits /\ wire' = Append(wire, Head(channel)))
      BY <2>4 DEF ForwardReport, Drain
    <3>2. Head(channel) \in Frame
      <4>1. channel # <<>> /\ channel \in Seq(Told) /\ channel \in Seq(Frame)
        BY <2>4, ToldAreFrames DEF ForwardReport, Drain, IInv, FramesOK
      <4> QED BY <4>1, HeadTail
    <3> QED BY <2>2, <2>3, <3>1, <3>2 DEF Fits
  <2>5. CASE WriteAnswer
    <3>1. wire' = wire \/ (Fits /\ wire' = Append(wire, Answers[serving]))
      BY <2>5 DEF WriteAnswer
    <3>2. serving \in DOMAIN Answers => Answers[serving] \in Frame
      BY AnswersTyped
    <3> QED BY <2>2, <2>3, <2>5, <3>1, <3>2 DEF Fits, WriteAnswer
  <2>6. CASE ReadRequest \/ ReadEnds \/ PollRun \/ JoinRun \/ Drained
    BY <2>1, <2>6 DEF ReadRequest, ReadEnds, PollRun, JoinRun, Drained
  <2> QED BY <2>4, <2>5, <2>6 DEF HandlerStep
<1> HIDE DEF Servings
<1>7. run' \in {"none", "planning", "parsing", "chunking", "tokenizing", "embedding",
                "storing", "finishing"} \cup Ended
  BY <1>4 DEF TypeOK
<1> QED BY <1>1, <1>2, <1>3, <1>4, <1>5, <1>6, <1>7 DEF TypeOK, LocalOK

LEMMA OthersTypes ==
  ASSUME StreamAssumption, IInv, TypeOK,
         ClientStep \/ Leave \/ Exit \/ UNCHANGED vars
         \/ (\E what \in {"index", "other"} : Ask(what))
  PROVE  TypeOK'
<1>1. /\ UNCHANGED <<size, meter>>
      /\ serving' \in {serving, "closed"} /\ run' \in {run, "none"}
      /\ inbox' \in {inbox, "index", "other"} /\ asked' \in {asked, "index", "other"}
      /\ client' \in {client, "waiting", "idle", "gone"}
  <2>1. CASE Receive
    BY <2>1 DEF Receive, task
  <2>2. CASE ReceiveFails \/ Leave \/ Exit \/ UNCHANGED vars
    BY <2>2 DEF ReceiveFails, Leave, Exit, vars, task, user
  <2>3. CASE \E what \in {"index", "other"} : Ask(what)
    BY <2>3 DEF Ask, task
  <2> QED BY <2>1, <2>2, <2>3 DEF ClientStep
<1>2. asks' \in 0..MaxAsks /\ exits' \in 0..MaxExits
  <2>1. CASE ClientStep \/ Leave \/ UNCHANGED vars
    BY <2>1 DEF ClientStep, Receive, ReceiveFails, Leave, vars, user, TypeOK
  <2>2. CASE Exit
    <3>1. exits < MaxExits /\ exits' = exits + 1 /\ asks' = asks
      BY <2>2 DEF Exit, user
    <3> QED BY <3>1, SMT DEF TypeOK, StreamAssumption
  <2>3. CASE \E what \in {"index", "other"} : Ask(what)
    <3>1. asks < MaxAsks /\ asks' = asks + 1 /\ exits' = exits
      BY <2>3 DEF Ask
    <3> QED BY <3>1, SMT DEF TypeOK, StreamAssumption
  <2> QED BY <2>1, <2>2, <2>3
<1>3. Len(wire') <= Room
  <2>1. wire \in Seq(Frame) /\ Len(wire) <= Room /\ Room \in Nat
    BY DEF IInv, FramesOK, TypeOK, StreamAssumption
  <2>2. wire' = wire \/ wire' = <<>> \/ (wire # <<>> /\ wire' = Tail(wire))
    BY DEF ClientStep, Receive, ReceiveFails, Leave, Exit, Ask, vars
  <2>3. CASE wire # <<>> /\ wire' = Tail(wire)
    <3>1. Len(wire') = Len(wire) - 1 /\ Len(wire) \in Nat
      BY <2>1, <2>3, HeadTail
    <3> QED BY <2>1, <3>1, SMT
  <2>4. CASE wire' = <<>>
    <3>1. Len(wire') = 0
      BY <2>4, SMT
    <3> QED BY <2>1, <3>1, SMT
  <2> QED BY <2>1, <2>2, <2>3, <2>4
<1> QED BY <1>1, <1>2, <1>3 DEF TypeOK

-----------------------------------------------------------------------------
(* What a client draws fits. *)

\* Progress that a client is still to get stands behind what it has.
LEMMA InFlightBehind ==
  ASSUME FramesOK, PlacedOK, NEW f \in InFlight
  PROVE  \E j \in 1..Len(sent) : j > Len(got) /\ f = sent[j]
<1>1. /\ Len(got) \in Nat /\ Len(sent) \in Nat /\ Len(channel) \in Nat /\ Len(wire) \in Nat
      /\ DOMAIN wire = 1..Len(wire) /\ DOMAIN channel = 1..Len(channel)
      /\ Len(got) + Len(channel) <= Len(sent)
  BY SMT DEF FramesOK, PlacedOK
<1>2. IsProgress(f) /\ (f \in Range(wire) \/ f \in Range(channel))
  BY DEF InFlight
<1>3. CASE f \in Range(wire)
  <2>1. PICK i \in 1..Len(wire) : f = wire[i]
    BY <1>1, <1>3 DEF Range
  <2>2. f \in Told
    <3>1. f \in Frame
      BY <2>1, ElementOfSeq DEF FramesOK
    <3> QED BY <1>2, <3>1, ProgressIsTold
  <2>3. Len(got) + i <= Len(sent) /\ f = sent[Len(got) + i]
    BY <2>1, <2>2 DEF PlacedOK
  <2>4. Len(got) + i \in 1..Len(sent) /\ Len(got) + i > Len(got)
    BY <1>1, <2>1, <2>3, SMT
  <2> QED BY <2>3, <2>4
<1>4. CASE f \in Range(channel)
  <2>1. PICK i \in 1..Len(channel) : f = channel[i]
    BY <1>1, <1>4 DEF Range
  <2>2. f = sent[Len(sent) - Len(channel) + i]
    BY <2>1 DEF PlacedOK
  <2>3. /\ Len(sent) - Len(channel) + i \in 1..Len(sent)
        /\ Len(sent) - Len(channel) + i > Len(got)
    BY <1>1, <2>1, SMT
  <2> QED BY <2>2, <2>3
<1> QED BY <1>2, <1>3, <1>4

LEMMA BarFitsHolds ==
  ASSUME IInv, SaidOK, PlacedOK, BarOK
  PROVE  BarFits
<1>1. /\ got \in Seq(Told) /\ sent \in Seq(Told) /\ FramesOK
      /\ Len(got) \in Nat /\ Len(sent) \in Nat /\ DOMAIN got = 1..Len(got)
      /\ Len(got) <= Len(sent)
  BY SMT DEF IInv, FramesOK, PlacedOK
<1>2. bar.position <= bar.length
  BY DEF BarOK
<1>3. client = "idle" /\ answer = "ok" => ~bar.open /\ bar.position = Last(got).current
  <2>1. ASSUME client = "idle", answer = "ok"
        PROVE  bar.open = FALSE /\ bar.position = Last(got).current
    <3>1. got # <<>> /\ got[Len(got)].phase = "Finish"
      BY <2>1 DEF IInv, IdleOK, Finished
    <3> QED BY <3>1 DEF BarOK, Last
  <2> QED BY <2>1
<1>4. ASSUME got # <<>>
      PROVE  /\ Len(got) \in 1..Len(got) /\ Len(got) \in 1..Len(sent)
             /\ Last(got) = sent[Len(got)] /\ Last(got) \in Told
  <2>1. Len(got) \in 1..Len(got) /\ Len(got) \in 1..Len(sent)
    BY <1>1, <1>4, SMT
  <2>2. Last(got) = got[Len(got)]
    BY DEF Last
  <2> QED BY <1>1, <2>1, <2>2, ElementOfSeq DEF PlacedOK
<1>5. ASSUME got # <<>>, NEW f \in InFlight
      PROVE  Counts(Last(got), f) /\ Ordered(Last(got), f) /\ Fitting(f) /\ f \in Told
  <2>1. PICK j \in 1..Len(sent) : j > Len(got) /\ f = sent[j]
    BY <1>1, <1>5, InFlightBehind
  <2>2. Len(got) \in 1..(j - 1)
    BY <1>1, <1>4, <1>5, <2>1, SMT
  <2>3. f \in Told
    BY <1>1, <2>1, ElementOfSeq
  <2> QED BY <1>4, <1>5, <2>1, <2>2, <2>3 DEF SaidOK
<1>6. ASSUME got # <<>>, Last(got).phase = "Embed", NEW f \in Range(got), f.phase = "Embed"
      PROVE  f.current <= Last(got).current
  <2>1. PICK i \in 1..Len(got) : f = got[i]
    BY <1>1, <1>6 DEF Range
  <2>2. f \in Told /\ Last(got) \in Told /\ Last(got) = sent[Len(got)] /\ f = sent[i]
    BY <1>1, <1>4, <1>6, <2>1, ElementOfSeq DEF PlacedOK
  <2>3. i \in 1..(Len(got) - 1) => Counts(sent[i], sent[Len(got)])
    <3>1. Len(got) \in 1..Len(sent)
      BY <1>4, <1>6
    <3>2. \A j \in 1..Len(sent) : \A k \in 1..(j - 1) : Counts(sent[k], sent[j])
      BY DEF SaidOK
    <3> QED BY <3>1, <3>2
  <2>4. i = Len(got) \/ i \in 1..(Len(got) - 1)
    <3>1. Len(got) \in Nat
      BY <1>1
    <3> QED BY <3>1, SMT
  <2>5. f.current \in Nat /\ Last(got).current \in Nat
    BY <2>2, ToldFields
  <2>6. f.current = Last(got).current \/ f.current < Last(got).current
    BY <1>6, <2>2, <2>3, <2>4 DEF Counts
  <2> QED BY <2>5, <2>6, SMT
<1>7. ASSUME got # <<>>, Last(got).phase = "Embed", Last(got).current = Last(got).total,
             NEW f \in InFlight
      PROVE  f.phase # "Embed"
  <2>1. ASSUME f.phase = "Embed"
        PROVE  FALSE
    <3>1. Last(got).current < f.current /\ Last(got).total = f.total
      BY <1>5, <1>7, <2>1 DEF Counts
    <3>2. f.current <= f.total
      BY <1>5, <1>7, <2>1 DEF Fitting, Drawing
    <3>3. Last(got).current \in Nat /\ f.current \in Nat
      BY <1>4, <1>5, <1>7, ToldFields
    <3> QED BY <1>7, <3>1, <3>2, <3>3, SMT
  <2> QED BY <2>1
<1>8. ASSUME got # <<>>, NEW f \in InFlight
      PROVE  Row(f.phase, Last(got).phase) # "done" \/ f.phase = "Start"
  <2>1. f.phase = "Start" \/ Order[Last(got).phase] <= Order[f.phase]
    BY <1>5, <1>8 DEF Ordered
  <2>2. f.phase \in Phase /\ Last(got).phase \in Phase
    BY <1>4, <1>5, <1>8, ToldFields
  <2>3. Order[f.phase] \in Nat /\ Order[Last(got).phase] \in Nat
    BY <2>2, PhaseOrder DEF Phase
  <2>4. Order[Last(got).phase] <= Order[f.phase] => ~(Order[f.phase] < Order[Last(got).phase])
    BY <2>3, SMT
  <2> QED BY <2>1, <2>4 DEF Row
<1> QED BY <1>2, <1>3, <1>6, <1>7, <1>8 DEF BarFits

LEMMA InitDraws ==
  ASSUME StreamAssumption, Init
  PROVE  TypeOK /\ DInv
<1>1. NoSize \in Sizes
  BY SMT DEF NoSize, Sizes, StreamAssumption
<1>2. meter \in [current : Nat, total : Nat]
  BY SMT DEF Init
<1>3. Len(wire) = 0 /\ Len(got) = 0 /\ Len(channel) = 0 /\ Len(sent) = 0
  BY SMT DEF Init
<1>4. TypeOK
  BY <1>1, <1>2, <1>3, SMT DEF Init, TypeOK, StreamAssumption
<1>5. SaidOK
  BY <1>3, SMT DEF Init, SaidOK
<1>6. SpokenOK
  BY DEF Init, SpokenOK
<1>7. PlacedOK
  <2>1. \A i \in 1..0 : FALSE
    BY SMT
  <2> QED BY <1>3, <2>1, SMT DEF Init, PlacedOK
<1>8. BarOK
  <2>1. NoBar = Shown(FALSE, 0, 0)
    BY DEF NoBar, Shown
  <2>2. Shown(FALSE, 0, 0).open = FALSE
    BY BarFields
  <2>3. Shown(FALSE, 0, 0).length = 0
    BY SMT DEF Shown
  <2>4. Shown(FALSE, 0, 0).position = 0
    BY SMT DEF Shown
  <2>5. bar = NoBar /\ got = <<>>
    BY DEF Init
  <2>6. bar = Shown(bar.open, bar.length, bar.position)
    BY <2>1, <2>2, <2>3, <2>4, <2>5
  <2>7. bar.length = 0 /\ bar.position = 0
    BY <2>1, <2>3, <2>4, <2>5
  <2> QED BY <2>5, <2>6, <2>7, SMT DEF BarOK
<1> QED BY <1>4, <1>5, <1>6, <1>7, <1>8 DEF DInv

LEMMA StepDrawn ==
  ASSUME StreamAssumption, IInv, TypeOK, DInv, [Next]_vars
  PROVE  TypeOK' /\ DInv'
<1>1. TypeOK'
  BY RunTypes, HandlerTypes, OthersTypes DEF Next
<1>2. SaidOK' /\ SpokenOK'
  BY RunSays, SaidKept DEF IInv, DInv, Next
<1>3. PlacedOK' /\ BarOK'
  BY StepPlaces, StepDraws DEF DInv
<1> QED BY <1>1, <1>2, <1>3 DEF DInv

\* The connection's buffers, counters and the run's cursor hold values of their kind: a
\* write waits while Room frames are unread.
THEOREM TypeCorrect == ASSUME StreamAssumption PROVE Spec => []TypeOK
<1>1. Init => IInv /\ TypeOK /\ DInv
  BY InitHolds, InitDraws
<1>2. IInv /\ TypeOK /\ DInv /\ [Next]_vars => (IInv /\ TypeOK /\ DInv)'
  BY StepKeeps, StepDrawn
<1> QED BY <1>1, <1>2, PTL DEF Spec

\* The bar of the CLI never passes its end, counts up while chunks are embedded and is
\* taken down where the run says it stopped; a phase that the TUI ticks off is reported
\* no more, but for Start (cli.rs, phase_row in modals.rs, the order of the reports in
\* index_project).
THEOREM BarFollowsRun == ASSUME StreamAssumption PROVE Spec => []BarFits
<1>1. Init => IInv /\ TypeOK /\ DInv
  BY InitHolds, InitDraws
<1>2. IInv /\ TypeOK /\ DInv /\ [Next]_vars => (IInv /\ TypeOK /\ DInv)'
  BY StepKeeps, StepDrawn
<1>3. IInv /\ DInv => BarFits
  BY BarFitsHolds DEF DInv
<1> QED BY <1>1, <1>2, <1>3, PTL DEF Spec

=============================================================================
