-------------------------- MODULE EmbeddingProofs ---------------------------
(***************************************************************************)
(* Theorems about Embedding for any number of batches, queries, panics and *)
(* faults, any window and any size of a sub-batch: the two threads and     *)
(* their channels implement EmbedService, and the rows the loop stores for *)
(* a batch are those of the batch's own texts.                             *)
(***************************************************************************)
EXTENDS Embedding, SequenceTheorems, TLAPS

-----------------------------------------------------------------------------
(* Sequences *)

Distinct(s) == \A i, k \in DOMAIN s : s[i] = s[k] => i = k

\* Two sequences, one behind the other.
LEMMA Two ==
  ASSUME NEW S, NEW a \in Seq(S), NEW b \in Seq(S)
  PROVE  /\ a \o b \in Seq(S) /\ Len(a \o b) = Len(a) + Len(b)
         /\ DOMAIN (a \o b) = 1..(Len(a) + Len(b))
         /\ \A i \in 1..Len(a) : (a \o b)[i] = a[i]
         /\ \A i \in 1..Len(b) : (a \o b)[i + Len(a)] = b[i]
<1> DEFINE m == Len(a)
           n == Len(b)
           s == a \o b
<1>1. /\ s \in Seq(S) /\ Len(s) = m + n /\ m \in Nat /\ n \in Nat
      /\ \A i \in 1..(m + n) : s[i] = IF i <= m THEN a[i] ELSE b[i - m]
  BY ConcatProperties, LenProperties
<1>2. DOMAIN s = 1..(m + n)
  BY <1>1, LenProperties
<1> HIDE DEF m, n, s
<1>3. ASSUME NEW i \in 1..m PROVE s[i] = a[i]
  BY <1>1, <1>3, SMT
<1>4. ASSUME NEW i \in 1..n PROVE s[i + m] = b[i]
  <2>1. i + m \in 1..(m + n) /\ ~(i + m <= m) /\ (i + m) - m = i
    BY <1>1, <1>4, SMT
  <2>2. s[i + m] = b[(i + m) - m]
    BY <1>1, <2>1
  <2> QED BY <2>1, <2>2
<1> QED BY <1>1, <1>2, <1>3, <1>4 DEF m, n, s

LEMMA Three ==
  ASSUME NEW S, NEW a \in Seq(S), NEW b \in Seq(S), NEW c \in Seq(S), NEW s, s = (a \o b) \o c
  PROVE  /\ s \in Seq(S) /\ Len(s) = Len(a) + Len(b) + Len(c)
         /\ DOMAIN s = 1..(Len(a) + Len(b) + Len(c))
         /\ \A i \in 1..Len(a) : s[i] = a[i]
         /\ \A i \in 1..Len(b) : s[i + Len(a)] = b[i]
         /\ \A i \in 1..Len(c) : s[i + (Len(a) + Len(b))] = c[i]
<1> DEFINE m == Len(a)
           n == Len(b)
           k == Len(c)
           p == a \o b
<1>1. m \in Nat /\ n \in Nat /\ k \in Nat
  BY LenProperties
<1>2. /\ p \in Seq(S) /\ Len(p) = m + n
      /\ \A i \in 1..m : p[i] = a[i]
      /\ \A i \in 1..n : p[i + m] = b[i]
  BY Two
<1>3. /\ s \in Seq(S) /\ Len(s) = Len(p) + k /\ DOMAIN s = 1..(Len(p) + k)
      /\ \A i \in 1..Len(p) : s[i] = p[i]
      /\ \A i \in 1..k : s[i + Len(p)] = c[i]
  BY <1>2, Two
<1> HIDE DEF m, n, k, p
<1>4. ASSUME NEW i \in 1..m PROVE s[i] = a[i]
  <2>1. i \in 1..Len(p)
    BY <1>1, <1>2, <1>4, SMT
  <2> QED BY <1>2, <1>3, <2>1
<1>5. ASSUME NEW i \in 1..n PROVE s[i + m] = b[i]
  <2>1. i + m \in 1..Len(p)
    BY <1>1, <1>2, <1>5, SMT
  <2> QED BY <1>2, <1>3, <2>1
<1> QED BY <1>2, <1>3, <1>4, <1>5 DEF m, n, k, p

\* What a sequence is without a stretch of it.
LEMMA CutOut ==
  ASSUME NEW S, NEW a \in Seq(S), NEW b \in Seq(S), NEW c \in Seq(S)
  PROVE  LET s == (a \o b) \o c
         IN  /\ SubSeq(s, 1, Len(a)) \o SubSeq(s, Len(a) + Len(b) + 1, Len(s)) = a \o c
             /\ \A x : (\E i \in (Len(a) + 1)..(Len(a) + Len(b)) : s[i] = x) <=> x \in InSeq(b)
<1> DEFINE m == Len(a)
           n == Len(b)
           k == Len(c)
           s == (a \o b) \o c
<1>1. /\ s \in Seq(S) /\ Len(s) = m + n + k
      /\ \A i \in 1..m : s[i] = a[i]
      /\ \A i \in 1..n : s[i + m] = b[i]
      /\ \A i \in 1..k : s[i + (m + n)] = c[i]
      /\ m \in Nat /\ n \in Nat /\ k \in Nat
  BY Three, LenProperties
<1>2. DOMAIN b = 1..n /\ \A i \in 1..(m + n + k) : s[i] \in S
  BY <1>1, LenProperties, ElementOfSeq
<1> HIDE DEF m, n, k, s
<1>3. SubSeq(s, 1, m) = a
  <2> DEFINE t == SubSeq(s, 1, m)
  <2>1. \A i \in 1..m : s[i] \in S
    BY <1>1, <1>2, SMT
  <2>2. /\ t \in Seq(S)
        /\ Len(t) = IF 1 <= m THEN m - 1 + 1 ELSE 0
        /\ \A i \in 1..(m - 1 + 1) : t[i] = s[1 + i - 1]
    BY <1>1, <2>1, SubSeqProperties
  <2> HIDE DEF t
  <2>3. Len(t) = m
    BY <1>1, <2>2, SMT
  <2>4. ASSUME NEW i \in 1..m PROVE t[i] = a[i]
    <3>1. 1 + i - 1 = i /\ i \in 1..(m - 1 + 1)
      BY <1>1, <2>4, SMT
    <3> QED BY <1>1, <2>2, <3>1
  <2> QED BY <2>2, <2>3, <2>4, SeqEqual DEF t, m
<1>4. SubSeq(s, m + n + 1, Len(s)) = c
  <2> DEFINE t == SubSeq(s, m + n + 1, Len(s))
  <2>1. \A i \in (m + n + 1)..Len(s) : s[i] \in S
    BY <1>1, <1>2, SMT
  <2>2. /\ t \in Seq(S)
        /\ Len(t) = IF m + n + 1 <= Len(s) THEN Len(s) - (m + n + 1) + 1 ELSE 0
        /\ \A i \in 1..(Len(s) - (m + n + 1) + 1) : t[i] = s[m + n + 1 + i - 1]
    BY <1>1, <2>1, SubSeqProperties
  <2> HIDE DEF t
  <2>3. Len(t) = k
    BY <1>1, <2>2, SMT
  <2>4. ASSUME NEW i \in 1..k PROVE t[i] = c[i]
    <3>1. m + n + 1 + i - 1 = i + (m + n) /\ Len(s) - (m + n + 1) + 1 = k
      BY <1>1, <2>4, SMT
    <3> QED BY <1>1, <2>2, <3>1
  <2> QED BY <2>2, <2>3, <2>4, SeqEqual DEF t, k
<1>5. ASSUME NEW x PROVE (\E i \in (m + 1)..(m + n) : s[i] = x) <=> x \in InSeq(b)
  <2>1. ASSUME NEW i \in (m + 1)..(m + n) PROVE s[i] \in InSeq(b)
    <3>1. i - m \in 1..n /\ (i - m) + m = i
      BY <1>1, <2>1, SMT
    <3>2. s[(i - m) + m] = b[i - m]
      BY <1>1, <3>1
    <3> QED BY <1>2, <3>1, <3>2 DEF InSeq
  <2>2. ASSUME NEW i \in 1..n PROVE i + m \in (m + 1)..(m + n) /\ s[i + m] = b[i]
    <3>1. i + m \in (m + 1)..(m + n)
      BY <1>1, <2>2, SMT
    <3> QED BY <1>1, <3>1
  <2> QED BY <1>2, <2>1, <2>2 DEF InSeq
<1> QED BY <1>3, <1>4, <1>5, Zenon DEF m, n, s

\* What is left of it is a part of the whole, and still without a repetition.
LEMMA CutKeeps ==
  ASSUME NEW S, NEW a \in Seq(S), NEW b \in Seq(S), NEW c \in Seq(S),
         Distinct((a \o b) \o c)
  PROVE  /\ a \o c \in Seq(S) /\ Distinct(a \o c)
         /\ InSeq(a \o c) \subseteq InSeq((a \o b) \o c)
         /\ \A x \in InSeq(a \o c) : x \notin InSeq(b)
<1> DEFINE m == Len(a)
           n == Len(b)
           k == Len(c)
           s == (a \o b) \o c
           t == a \o c
           at(i) == IF i <= m THEN i ELSE i + n
<1>1. /\ DOMAIN s = 1..(m + n + k) /\ DOMAIN b = 1..n
      /\ \A i \in 1..m : s[i] = a[i]
      /\ \A i \in 1..n : s[i + m] = b[i]
      /\ \A i \in 1..k : s[i + (m + n)] = c[i]
      /\ m \in Nat /\ n \in Nat /\ k \in Nat
  BY Three, LenProperties
<1>2. /\ t \in Seq(S) /\ DOMAIN t = 1..(m + k)
      /\ \A i \in 1..m : t[i] = a[i]
      /\ \A i \in 1..k : t[i + m] = c[i]
  BY Two
<1>3. \A i, j \in DOMAIN s : s[i] = s[j] => i = j
  BY DEF Distinct
<1> HIDE DEF m, n, k, s, t
<1>4. ASSUME NEW i \in DOMAIN t
      PROVE  at(i) \in DOMAIN s /\ t[i] = s[at(i)] /\ at(i) \notin (m + 1)..(m + n)
  <2>1. CASE i <= m
    BY <1>1, <1>2, <1>4, <2>1, SMT
  <2>2. CASE ~(i <= m)
    <3>1. /\ i - m \in 1..k /\ (i - m) + m = i /\ (i - m) + (m + n) = i + n
          /\ i + n \in 1..(m + n + k) /\ i + n \notin (m + 1)..(m + n)
      BY <1>1, <1>2, <1>4, <2>2, SMT
    <3>2. t[(i - m) + m] = c[i - m] /\ s[(i - m) + (m + n)] = c[i - m]
      BY <1>1, <1>2, <3>1
    <3> QED BY <1>1, <2>2, <3>1, <3>2
  <2> QED BY <2>1, <2>2
<1>5. \A i, j \in DOMAIN t : at(i) = at(j) => i = j
  <2> SUFFICES ASSUME NEW i \in DOMAIN t, NEW j \in DOMAIN t, at(i) = at(j) PROVE i = j
    OBVIOUS
  <2>1. i \in Int /\ j \in Int
    BY <1>1, <1>2, SMT
  <2>2. CASE i <= m /\ j <= m
    BY <2>2
  <2>3. CASE ~(i <= m) /\ ~(j <= m)
    <3>1. i + n = j + n
      BY <2>3
    <3> QED BY <1>1, <2>1, <3>1, SMT
  <2>4. CASE i <= m /\ ~(j <= m)
    <3>1. i = j + n
      BY <2>4
    <3> QED BY <1>1, <2>1, <2>4, <3>1, SMT
  <2>5. CASE ~(i <= m) /\ j <= m
    <3>1. i + n = j
      BY <2>5
    <3> QED BY <1>1, <2>1, <2>5, <3>1, SMT
  <2> HIDE DEF at
  <2> QED BY <2>2, <2>3, <2>4, <2>5, Zenon
<1>6. \A i \in 1..n : i + m \in DOMAIN s /\ s[i + m] = b[i] /\ i + m \in (m + 1)..(m + n)
  <2> TAKE i \in 1..n
  <2>1. i + m \in 1..(m + n + k) /\ i + m \in (m + 1)..(m + n)
    BY <1>1, SMT
  <2> QED BY <1>1, <2>1
<1> HIDE DEF at
<1>7. Distinct(t)
  BY <1>3, <1>4, <1>5 DEF Distinct
<1>8. InSeq(t) \subseteq InSeq(s)
  BY <1>4 DEF InSeq
<1>9. ASSUME NEW i \in DOMAIN t, NEW j \in DOMAIN b, t[i] = b[j] PROVE FALSE
  <2>1. /\ at(i) \in DOMAIN s /\ t[i] = s[at(i)] /\ at(i) \notin (m + 1)..(m + n)
    BY <1>4
  <2>2. j + m \in DOMAIN s /\ s[j + m] = b[j] /\ j + m \in (m + 1)..(m + n)
    BY <1>1, <1>6
  <2>3. s[at(i)] = s[j + m]
    BY <1>9, <2>1, <2>2
  <2>4. at(i) = j + m
    BY <1>3, <2>1, <2>2, <2>3, Zenon
  <2> QED BY <2>1, <2>2, <2>4, Zenon
<1>10. \A x \in InSeq(t) : x \notin InSeq(b)
  BY <1>9 DEF InSeq
<1> QED BY <1>2, <1>7, <1>8, <1>10 DEF s, t

LEMMA InSeqOf ==
  ASSUME NEW S, NEW a \in Seq(S), NEW b \in Seq(S)
  PROVE  InSeq(a \o b) = InSeq(a) \cup InSeq(b)
<1> DEFINE m == Len(a)
           n == Len(b)
           s == a \o b
<1>1. /\ DOMAIN s = 1..(m + n) /\ DOMAIN a = 1..m /\ DOMAIN b = 1..n
      /\ \A i \in 1..m : s[i] = a[i]
      /\ \A i \in 1..n : s[i + m] = b[i]
      /\ m \in Nat /\ n \in Nat
  BY Two, LenProperties
<1> HIDE DEF m, n, s
<1>2. ASSUME NEW i \in DOMAIN s PROVE s[i] \in InSeq(a) \cup InSeq(b)
  <2>1. CASE i <= m
    <3>1. i \in 1..m
      BY <1>1, <1>2, <2>1, SMT
    <3> QED BY <1>1, <3>1 DEF InSeq
  <2>2. CASE ~(i <= m)
    <3>1. i - m \in 1..n /\ (i - m) + m = i
      BY <1>1, <1>2, <2>2, SMT
    <3>2. s[(i - m) + m] = b[i - m]
      BY <1>1, <3>1
    <3> QED BY <1>1, <3>1, <3>2 DEF InSeq
  <2> QED BY <2>1, <2>2
<1>3. ASSUME NEW i \in DOMAIN a PROVE a[i] \in InSeq(s)
  <2>1. i \in 1..(m + n)
    BY <1>1, <1>3, SMT
  <2> QED BY <1>1, <1>3, <2>1 DEF InSeq
<1>4. ASSUME NEW i \in DOMAIN b PROVE b[i] \in InSeq(s)
  <2>1. i + m \in 1..(m + n)
    BY <1>1, <1>4, SMT
  <2> QED BY <1>1, <1>4, <2>1 DEF InSeq
<1>5. InSeq(s) \subseteq InSeq(a) \cup InSeq(b)
  BY <1>2 DEF InSeq
<1>6. InSeq(a) \subseteq InSeq(s) /\ InSeq(b) \subseteq InSeq(s)
  BY <1>3, <1>4 DEF InSeq
<1> QED BY <1>5, <1>6 DEF s

\* One more at the end.
LEMMA AddKeeps ==
  ASSUME NEW S, NEW s \in Seq(S), NEW x \in S, Distinct(s), x \notin InSeq(s)
  PROVE  Distinct(Append(s, x)) /\ InSeq(Append(s, x)) = InSeq(s) \cup {x}
<1> DEFINE n == Len(s)
           t == Append(s, x)
<1>1. /\ DOMAIN s = 1..n /\ DOMAIN t = 1..(n + 1) /\ n \in Nat
      /\ \A i \in 1..n : t[i] = s[i]
      /\ t[n + 1] = x
  BY AppendProperties, LenProperties
<1>2. /\ \A i, k \in DOMAIN s : s[i] = s[k] => i = k
      /\ \A i \in DOMAIN s : s[i] # x
  BY DEF Distinct, InSeq
<1> HIDE DEF n, t
<1>3. \A i \in DOMAIN t : i \in DOMAIN s \/ i = n + 1
  BY <1>1, SMT
<1>4. \A i \in DOMAIN s : i \in DOMAIN t /\ t[i] = s[i]
  BY <1>1, SMT
<1>5. n + 1 \in DOMAIN t
  BY <1>1, SMT
<1>6. Distinct(t)
  BY <1>1, <1>2, <1>3, <1>4, Zenon DEF Distinct
<1>7. InSeq(t) = InSeq(s) \cup {x}
  BY <1>1, <1>3, <1>4, <1>5, Zenon DEF InSeq
<1> QED BY <1>6, <1>7 DEF t

-----------------------------------------------------------------------------
(* The line of jobs *)

LineTyped ==
    /\ jobs \in Seq(Jobs) /\ encoded \in Seq(Jobs)
    /\ encoding \in Jobs \cup {NoJob} /\ running \in Jobs \cup {NoJob}
    /\ reply \in [Jobs -> Replies]

\* A job stands in the line once, and its caller waits.
LineOK ==
    /\ LineTyped
    /\ Distinct(Line)
    /\ \A j \in InSeq(Line) : reply[j] = "waiting"

LEMMA HandTyped ==
  ASSUME EmbedWorkerAssumption, NEW j \in Jobs \cup {NoJob}
  PROVE  /\ InHand(j) \in Seq(Jobs) /\ InSeq(InHand(j)) = {j} \ {NoJob}
         /\ InHand(NoJob) = <<>>
<1>1. NoJob \notin Jobs
  BY DEF EmbedWorkerAssumption
<1>2. CASE j = NoJob
  BY <1>2 DEF InHand, InSeq
<1>3. CASE j \in Jobs
  <2>1. InHand(j) = <<j>> /\ <<j>> \in Seq(Jobs)
    BY <1>1, <1>3 DEF InHand
  <2>2. DOMAIN <<j>> = {1} /\ <<j>>[1] = j
    BY SMT
  <2> QED BY <1>1, <1>3, <2>1, <2>2 DEF InSeq, InHand
<1> QED BY <1>2, <1>3

\* Nobody notices: the line and the replies are the same.
LEMMA LineQuiet ==
  ASSUME LineOK, LineTyped', Line' = Line, reply' = reply
  PROVE  LineOK' /\ UNCHANGED <<Line, [j \in Jobs |-> Answer(reply[j])]>>
<1>1. LineOK'
  BY Zenon DEF LineOK, Distinct, InSeq
<1>2. [j \in Jobs |-> Answer(reply[j])]' = [j \in Jobs |-> Answer(reply[j])]
  BY Zenon DEF Answer
<1> QED BY <1>1, <1>2

\* A stretch of the line is told of a failure.
LEMMA LineFails ==
  ASSUME LineOK, LineTyped',
         NEW a \in Seq(Jobs), NEW b \in Seq(Jobs), NEW c \in Seq(Jobs), b # <<>>,
         Line = (a \o b) \o c, Line' = a \o c, NEW bad \in {"error", "gone"},
         reply' = [j \in Jobs |-> IF j \in InSeq(b) THEN bad ELSE reply[j]]
  PROVE  LineOK' /\ Service!Next
<1>1. LineOK'
  <2>1. /\ Distinct(a \o c) /\ InSeq(a \o c) \subseteq InSeq(Line) /\ a \o c \in Seq(Jobs)
        /\ \A x \in InSeq(a \o c) : x \notin InSeq(b)
    BY CutKeeps DEF LineOK
  <2>2. InSeq(a \o c) \subseteq Jobs
    BY <2>1, LenProperties, ElementOfSeq DEF InSeq
  <2>3. \A j \in InSeq(a \o c) : reply'[j] = "waiting"
    BY <2>1, <2>2 DEF LineOK
  <2>4. InSeq(Line)' = InSeq(a \o c) /\ Distinct(Line)' = Distinct(a \o c)
    BY Zenon DEF InSeq, Distinct
  <2> QED BY <2>1, <2>3, <2>4 DEF LineOK
<1> DEFINE first == Len(a) + 1
           last == Len(a) + Len(b)
<1>2. /\ Len(a) \in Nat /\ Len(b) \in Nat /\ Len(c) \in Nat /\ Len(b) # 0
      /\ Len(Line) = Len(a) + Len(b) + Len(c) /\ DOMAIN Line = 1..Len(Line)
  BY Three, LenProperties, EmptySeq
<1>3. first \in DOMAIN Line /\ last \in first..Len(Line) /\ first - 1 = Len(a)
  BY <1>2, SMT
<1>c. LET s == (a \o b) \o c
      IN  /\ SubSeq(s, 1, Len(a)) \o SubSeq(s, last + 1, Len(s)) = a \o c
          /\ \A x : (\E i \in first..last : s[i] = x) <=> x \in InSeq(b)
  BY CutOut, Zenon
<1> HIDE DEF first, last
<1>4. Line' = SubSeq(Line, 1, first - 1) \o SubSeq(Line, last + 1, Len(Line))
  BY <1>3, <1>c
<1>5. \A x : (\E i \in first..last : Line[i] = x) <=> x \in InSeq(b)
  BY <1>c, Zenon
<1>6. ASSUME NEW j \in Jobs
      PROVE  Answer(reply[j])' = IF \E i \in first..last : Line[i] = j THEN "failure"
                                 ELSE [k \in Jobs |-> Answer(reply[k])][j]
  <2>1. reply'[j] = IF j \in InSeq(b) THEN bad ELSE reply[j]
    OBVIOUS
  <2>2. [k \in Jobs |-> Answer(reply[k])][j] = Answer(reply[j])
    OBVIOUS
  <2>3. Answer(bad) = "failure"
    BY DEF Answer
  <2>4. Answer(reply[j])' = IF j \in InSeq(b) THEN Answer(bad) ELSE Answer(reply[j])
    BY <2>1, Zenon DEF Answer
  <2> QED BY <1>5, <2>2, <2>3, <2>4, Zenon
<1>7. [j \in Jobs |-> Answer(reply[j])]'
        = [j \in Jobs |-> IF \E i \in first..last : Line[i] = j THEN "failure"
                          ELSE [k \in Jobs |-> Answer(reply[k])][j]]
  BY <1>6, Zenon
<1>8. Service!Fail(first, last)
  BY <1>4, <1>7 DEF Service!Fail
<1> QED BY <1>1, <1>3, <1>8 DEF Service!Next

\* The first of the line has its rows.
LEMMA LineServes ==
  ASSUME LineOK, LineTyped',
         NEW j \in Jobs, NEW c \in Seq(Jobs), Line = <<j>> \o c, Line' = c,
         reply' = [reply EXCEPT ![j] = "rows"]
  PROVE  LineOK' /\ Service!Next
<1>1. <<j>> \in Seq(Jobs) /\ Len(<<j>>) = 1 /\ <<j>>[1] = j /\ DOMAIN <<j>> = {1}
  BY SMT
<1>2. <<>> \in Seq(Jobs) /\ <<>> \o <<j>> = <<j>> /\ <<>> \o c = c
  BY <1>1, ConcatEmptySeq, EmptySeq
<1>3. LineOK'
  <2>1. Distinct((<<>> \o <<j>>) \o c)
    BY <1>2, Zenon DEF LineOK
  <2>2. /\ Distinct(c) /\ InSeq(c) \subseteq InSeq(Line)
        /\ \A x \in InSeq(c) : x \notin InSeq(<<j>>)
    <3>1. /\ Distinct(<<>> \o c) /\ InSeq(<<>> \o c) \subseteq InSeq((<<>> \o <<j>>) \o c)
          /\ \A x \in InSeq(<<>> \o c) : x \notin InSeq(<<j>>)
      BY <1>1, <1>2, <2>1, CutKeeps
    <3> QED BY <1>2, <3>1, Zenon
  <2>3. j \in InSeq(<<j>>)
    BY <1>1 DEF InSeq
  <2>4. InSeq(c) \subseteq Jobs
    BY LenProperties, ElementOfSeq DEF InSeq
  <2>5. ASSUME NEW x \in InSeq(c) PROVE reply'[x] = "waiting"
    <3>1. x \in Jobs /\ x # j /\ x \in InSeq(Line)
      BY <2>2, <2>3, <2>4
    <3>2. reply'[x] = reply[x] /\ reply[x] = "waiting"
      BY <3>1 DEF LineOK, LineTyped
    <3> QED BY <3>2
  <2>6. InSeq(Line)' = InSeq(c) /\ Distinct(Line)' = Distinct(c)
    BY Zenon DEF InSeq, Distinct
  <2> QED BY <2>2, <2>5, <2>6 DEF LineOK
<1>4. Line # <<>> /\ Head(Line) = j /\ Tail(Line) = c
  <2>1. /\ Len(Line) = 1 + Len(c) /\ Line \in Seq(Jobs) /\ Len(c) \in Nat
        /\ \A i \in 1..1 : Line[i] = <<j>>[i]
        /\ \A i \in 1..Len(c) : Line[i + 1] = c[i]
    BY <1>1, Two, LenProperties
  <2>2. Line # <<>>
    BY <2>1, EmptySeq, SMT
  <2>3. /\ Tail(Line) \in Seq(Jobs) /\ Len(Tail(Line)) = Len(Line) - 1
        /\ \A i \in 1..Len(Tail(Line)) : Tail(Line)[i] = Line[i + 1]
    BY <2>1, <2>2, HeadTailProperties
  <2>4. Len(Tail(Line)) = Len(c)
    BY <2>1, <2>3, SMT
  <2>5. Tail(Line) = c
    BY <2>1, <2>3, <2>4, SeqEqual
  <2>6. Head(Line) = Line[1] /\ Line[1] = j
    BY <1>1, <2>1, SMT
  <2> QED BY <2>2, <2>5, <2>6
<1>5. [k \in Jobs |-> Answer(reply[k])]' = [[k \in Jobs |-> Answer(reply[k])] EXCEPT ![j] = "rows"]
  <2>1. ASSUME NEW k \in Jobs
        PROVE  Answer(reply[k])' = IF k = j THEN "rows" ELSE Answer(reply[k])
    <3>1. reply'[k] = IF k = j THEN "rows" ELSE reply[k]
      BY DEF LineOK, LineTyped
    <3> QED BY <3>1, Zenon DEF Answer
  <2> QED BY <2>1, Zenon
<1> QED BY <1>3, <1>4, <1>5 DEF Service!Next, Service!GiveRows

\* A new job goes to the end of the line, or is told at once.
LEMMA LineAccepts ==
  ASSUME LineOK, LineTyped', Line \in Seq(Jobs), NEW j \in Jobs, reply[j] = "none",
         \/ Line' = Append(Line, j) /\ reply' = [reply EXCEPT ![j] = "waiting"]
         \/ Line' = Line /\ reply' = [reply EXCEPT ![j] = "gone"]
  PROVE  LineOK' /\ Service!Next
<1>1. j \notin InSeq(Line)
  BY DEF LineOK
<1>2. ~Service!Waiting(j)
  BY <1>1 DEF Service!Waiting, InSeq
<1>3. [k \in Jobs |-> Answer(reply[k])][j] = "none"
  BY DEF Answer
<1>4. InSeq(Line) \subseteq Jobs
  BY LenProperties, ElementOfSeq DEF InSeq
<1>5. CASE Line' = Append(Line, j) /\ reply' = [reply EXCEPT ![j] = "waiting"]
  <2>1. Distinct(Append(Line, j)) /\ InSeq(Append(Line, j)) = InSeq(Line) \cup {j}
    BY <1>1, AddKeeps DEF LineOK
  <2>2. \A x \in InSeq(Append(Line, j)) : reply'[x] = "waiting"
    BY <1>4, <1>5, <2>1, SMT DEF LineOK, LineTyped
  <2>3. InSeq(Line)' = InSeq(Append(Line, j)) /\ Distinct(Line)' = Distinct(Append(Line, j))
    BY <1>5, Zenon DEF InSeq, Distinct
  <2>4. LineOK'
    BY <2>1, <2>2, <2>3 DEF LineOK
  <2>5. ASSUME NEW k \in Jobs PROVE Answer(reply[k])' = Answer(reply[k])
    <3>1. reply'[k] = IF k = j THEN "waiting" ELSE reply[k]
      BY <1>5 DEF LineOK, LineTyped
    <3> QED BY <3>1, Zenon DEF Answer
  <2>6. [k \in Jobs |-> Answer(reply[k])]' = [k \in Jobs |-> Answer(reply[k])]
    BY <2>5, Zenon
  <2> QED BY <1>2, <1>3, <1>5, <2>4, <2>6 DEF Service!Next, Service!Accept
<1>6. CASE Line' = Line /\ reply' = [reply EXCEPT ![j] = "gone"]
  <2>1. InSeq(Line)' = InSeq(Line) /\ Distinct(Line)' = Distinct(Line)
    BY <1>6, Zenon DEF InSeq, Distinct
  <2>2. \A x \in InSeq(Line) : reply'[x] = "waiting"
    BY <1>1, <1>4, <1>6, SMT DEF LineOK, LineTyped
  <2>3. LineOK'
    BY <2>1, <2>2 DEF LineOK
  <2>4. ASSUME NEW k \in Jobs
        PROVE  Answer(reply[k])' = IF k = j THEN "failure" ELSE Answer(reply[k])
    <3>1. reply'[k] = IF k = j THEN "gone" ELSE reply[k]
      BY <1>6 DEF LineOK, LineTyped
    <3> QED BY <3>1, Zenon DEF Answer
  <2>5. [k \in Jobs |-> Answer(reply[k])]'
          = [[k \in Jobs |-> Answer(reply[k])] EXCEPT ![j] = "failure"]
    BY <2>4, Zenon
  <2> QED BY <1>2, <1>3, <1>6, <2>3, <2>5 DEF Service!Next, Service!Refuse
<1> QED BY <1>5, <1>6

-----------------------------------------------------------------------------
(* The threads implement the service *)

LEMMA HeadConsTail ==
  ASSUME NEW S, NEW s \in Seq(S), s # <<>>
  PROVE  s = <<Head(s)>> \o Tail(s)
<1>1. Head(s) = s[1] /\ Len(s) \in Nat /\ Len(s) # 0
  BY EmptySeq, LenProperties, SMT
<1>2. 1 \in 1..Len(s) /\ Len(s) \in 1..Len(s)
  BY <1>1
<1>3. SubSeq(s, 1, Len(s)) = <<s[1]>> \o SubSeq(s, 1 + 1, Len(s))
  BY <1>2, SubSeqRecursiveFirst
<1>4. SubSeq(s, 1, Len(s)) = s
  BY SubSeqFull
<1>5. Tail(s) = SubSeq(s, 2, Len(s))
  BY TailIsSubSeq
<1> QED BY <1>1, <1>3, <1>4, <1>5

WorkerNext ==
    \/ \E j \in Jobs : Submit(j)
    \/ TokStep \/ TokPanics \/ GpuStep \/ GpuPanics
    \/ UNCHANGED <<jobs, encoding, encoded, running, reply>>

LEMMA GoneTyped ==
  ASSUME LineTyped, NEW lost
  PROVE  Gone(lost) \in [Jobs -> Replies]
BY DEF Gone, LineTyped, Replies

LEMMA LineStays ==
  ASSUME EmbedWorkerAssumption, LineTyped, WorkerNext
  PROVE  LineTyped'
<1> USE DEF LineTyped
<1> "gone" \in Replies /\ "rows" \in Replies /\ "error" \in Replies /\ "waiting" \in Replies
  BY DEF Replies
<1>0. NoJob \notin Jobs
  BY DEF EmbedWorkerAssumption
<1>1. CASE \E j \in Jobs : Submit(j)
  <2>1. PICK j \in Jobs : Submit(j)
    BY <1>1
  <2>2. Append(jobs, j) \in Seq(Jobs)
    BY AppendProperties
  <2>3. jobs' \in Seq(Jobs) /\ UNCHANGED <<encoding, encoded, running>>
    BY <2>1, <2>2 DEF Submit
  <2>4. reply' \in [Jobs -> Replies]
    BY <2>1 DEF Submit
  <2> QED BY <2>3, <2>4
<1>2. CASE TokReceive
  <2>1. jobs # <<>>
    BY <1>2 DEF TokReceive
  <2>2. Head(jobs) \in Jobs /\ Tail(jobs) \in Seq(Jobs)
    BY <2>1, HeadTailProperties
  <2> QED BY <1>2, <2>2 DEF TokReceive
<1>3. CASE TokHandsOn
  <2>1. encoding \in Jobs
    BY <1>3 DEF TokHandsOn
  <2> QED BY <1>3, <2>1, AppendProperties DEF TokHandsOn
<1>4. CASE TokFails
  BY <1>4 DEF TokFails
<1>5. ASSUME TokStops PROVE LineTyped'
  BY <1>5, GoneTyped, EmptySeq DEF TokStops
<1>6. CASE GpuReceive
  <2>1. encoded # <<>>
    BY <1>6 DEF GpuReceive
  <2>2. Head(encoded) \in Jobs /\ Tail(encoded) \in Seq(Jobs)
    BY <2>1, HeadTailProperties
  <2> QED BY <1>6, <2>2 DEF GpuReceive
<1>7. CASE Forward("rows") \/ Forward("error")
  BY <1>7 DEF Forward
<1>8. ASSUME GpuStops PROVE LineTyped'
  BY <1>8, GoneTyped, EmptySeq DEF GpuStops
<1>9. CASE UNCHANGED <<jobs, encoding, encoded, running, reply>>
  BY <1>9
<1> QED
  BY <1>1, <1>2, <1>3, <1>4, <1>5, <1>6, <1>7, <1>8, <1>9
  DEF WorkerNext, TokStep, GpuStep, TokBreaks, TokEnds, TokPanics, GpuEnds, GpuPanics

LEMMA LineStep ==
  ASSUME EmbedWorkerAssumption, LineOK, WorkerNext
  PROVE  LineOK' /\ [Service!Next]_<<Line, [j \in Jobs |-> Answer(reply[j])]>>
<1> DEFINE R == InHand(running)
           E == InHand(encoding)
           C == encoded
           J == jobs
           ans == [j \in Jobs |-> Answer(reply[j])]
           Goal == LineOK' /\ [Service!Next]_<<Line, ans>>
<1>t. LineTyped /\ LineTyped' /\ NoJob \notin Jobs /\ InHand(NoJob) = <<>>
  BY LineStays, HandTyped DEF LineOK, EmbedWorkerAssumption
<1>h. /\ R \in Seq(Jobs) /\ E \in Seq(Jobs) /\ C \in Seq(Jobs) /\ J \in Seq(Jobs)
      /\ InSeq(R) = {running} \ {NoJob} /\ InSeq(E) = {encoding} \ {NoJob}
  BY <1>t, HandTyped DEF LineTyped
<1>e. <<>> \in Seq(Jobs)
  BY EmptySeq
<1>0. /\ Line = ((R \o C) \o E) \o J /\ Line = (R \o C) \o (E \o J)
      /\ Line = R \o ((C \o E) \o J)
      /\ R \o C \in Seq(Jobs) /\ E \o J \in Seq(Jobs) /\ (C \o E) \o J \in Seq(Jobs)
      /\ Line \in Seq(Jobs)
  <2>1. Line = ((R \o C) \o E) \o J
    BY DEF Line
  <2> HIDE DEF R, C, E, J
  <2>2. R \o C \in Seq(Jobs) /\ C \o E \in Seq(Jobs) /\ E \o J \in Seq(Jobs)
    BY <1>h, ConcatProperties
  <2>3. (C \o E) \o J \in Seq(Jobs) /\ (R \o C) \o E \in Seq(Jobs)
    BY <1>h, <2>2, ConcatProperties
  <2>4. Line \in Seq(Jobs)
    BY <1>h, <2>1, <2>3, ConcatProperties
  <2>5. ((R \o C) \o E) \o J = (R \o C) \o (E \o J)
    BY <1>h, <2>2, ConcatAssociative
  <2>6. (R \o C) \o E = R \o (C \o E)
    BY <1>h, ConcatAssociative
  <2>7. (R \o (C \o E)) \o J = R \o ((C \o E) \o J)
    BY <1>h, <2>2, ConcatAssociative
  <2>8. Line = R \o ((C \o E) \o J)
    BY <2>1, <2>6, <2>7, Zenon
  <2> QED BY <2>1, <2>2, <2>3, <2>4, <2>5, <2>8
<1>l. Line' = ((InHand(running') \o encoded') \o InHand(encoding')) \o jobs'
  BY DEF Line, InHand
<1>q. ASSUME Line' = Line, reply' = reply PROVE Goal
  BY <1>q, <1>t, LineQuiet
<1>1. CASE \E j \in Jobs : Submit(j)
  <2>1. PICK j \in Jobs : Submit(j)
    BY <1>1
  <2>2. /\ reply[j] = "none" /\ encoding' = encoding /\ encoded' = encoded /\ running' = running
        /\ \/ jobs' = Append(jobs, j) /\ reply' = [reply EXCEPT ![j] = "waiting"]
           \/ jobs' = jobs /\ reply' = [reply EXCEPT ![j] = "gone"]
    BY <2>1 DEF Submit
  <2>3. CASE jobs' = Append(jobs, j)
    <3>1. ((R \o C) \o E) \o Append(J, j) = Append(Line, j)
      <4> DEFINE P == (R \o C) \o E
      <4> HIDE DEF R, C, E, J
      <4>1. P \in Seq(Jobs) /\ <<j>> \in Seq(Jobs)
        BY <1>0, <1>h, ConcatProperties
      <4> HIDE DEF P
      <4>2. (P \o J) \o <<j>> = P \o (J \o <<j>>)
        BY <1>h, <4>1, ConcatAssociative
      <4>3. Append(J, j) = J \o <<j>> /\ Append(Line, j) = Line \o <<j>>
        BY <1>0, <1>h, AppendIsConcat
      <4> QED BY <1>0, <4>2, <4>3, Zenon DEF P
    <3>2. Line' = Append(Line, j)
      BY <1>l, <2>2, <2>3, <3>1, Zenon
    <3>3. jobs' # jobs
      BY <2>3, <1>h, AppendProperties
    <3> QED BY <1>0, <1>t, <2>2, <3>2, <3>3, LineAccepts
  <2>4. CASE jobs' = jobs /\ reply' = [reply EXCEPT ![j] = "gone"]
    <3>1. Line' = Line
      BY <1>l, <2>2, <2>4, Zenon DEF Line
    <3> QED BY <1>0, <1>t, <2>2, <2>4, <3>1, LineAccepts
  <2> QED BY <2>2, <2>3, <2>4
<1>2. CASE TokReceive
  <2>1. /\ encoding = NoJob /\ J # <<>> /\ encoding' = Head(J) /\ jobs' = Tail(J)
        /\ encoded' = encoded /\ running' = running /\ reply' = reply
    BY <1>2 DEF TokReceive
  <2>2. Head(J) \in Jobs /\ Tail(J) \in Seq(Jobs)
    BY <1>h, <2>1, HeadTailProperties
  <2>3. J = InHand(Head(J)) \o Tail(J)
    BY <1>h, <1>t, <2>1, <2>2, HeadConsTail DEF InHand
  <2>4. E \o J = J
    BY <1>h, <1>t, <2>1, ConcatEmptySeq
  <2>5. Line' = (R \o C) \o (InHand(Head(J)) \o Tail(J))
    <3>1. InHand(Head(J)) \in Seq(Jobs)
      BY <2>2, HandTyped
    <3>2. ASSUME NEW a \in Seq(Jobs), NEW b \in Seq(Jobs), NEW c \in Seq(Jobs)
          PROVE  (a \o b) \o c = a \o (b \o c)
      BY ConcatAssociative
    <3>3. ((R \o C) \o InHand(Head(J))) \o Tail(J) = (R \o C) \o (InHand(Head(J)) \o Tail(J))
      BY <1>0, <2>2, <3>1, <3>2, Zenon
    <3> QED BY <1>l, <2>1, <3>3, Zenon
  <2>6. Line' = Line
    BY <1>0, <2>3, <2>4, <2>5, Zenon
  <2> QED BY <1>q, <2>1, <2>6
<1>3. CASE TokHandsOn
  <2>1. /\ encoding # NoJob /\ encoded' = Append(C, encoding) /\ encoding' = NoJob
        /\ jobs' = jobs /\ running' = running /\ reply' = reply
    BY <1>3 DEF TokHandsOn
  <2>2. encoding \in Jobs /\ E = <<encoding>>
    BY <1>t, <2>1 DEF LineTyped, InHand
  <2>3. Append(C, encoding) = C \o E
    BY <1>h, <2>2, AppendIsConcat
  <2>4. ((R \o (C \o E)) \o <<>>) \o J = Line
    <3>1. C \o E \in Seq(Jobs) /\ R \o (C \o E) \in Seq(Jobs)
      BY <1>h, ConcatProperties
    <3>2. (R \o (C \o E)) \o <<>> = R \o (C \o E)
      BY <3>1, ConcatEmptySeq
    <3>3. R \o (C \o E) = (R \o C) \o E
      BY <1>h, ConcatAssociative
    <3> QED BY <1>0, <3>2, <3>3, Zenon
  <2>5. Line' = Line
    BY <1>l, <1>t, <2>1, <2>3, <2>4, Zenon
  <2> QED BY <1>q, <2>1, <2>5
<1>4. CASE TokFails
  <2>1. /\ encoding # NoJob /\ encoding' = NoJob
        /\ jobs' = jobs /\ running' = running /\ encoded' = encoded
        /\ reply' = [reply EXCEPT ![encoding] = "error"]
    BY <1>4 DEF TokFails
  <2>2. Line' = (R \o C) \o J
    <3>1. (R \o C) \o <<>> = R \o C
      BY <1>0, ConcatEmptySeq
    <3> QED BY <1>l, <1>t, <2>1, <3>1, Zenon
  <2>3. InSeq(E) = {encoding} /\ E # <<>>
    BY <1>h, <2>1 DEF InHand
  <2>4. reply' = [j \in Jobs |-> IF j \in InSeq(E) THEN "error" ELSE reply[j]]
    BY <1>t, <2>1, <2>3 DEF LineTyped
  <2> QED BY <1>0, <1>h, <1>t, <2>2, <2>3, <2>4, LineFails
<1>5. ASSUME TokStops, encoding # NoJob \/ J = <<>> PROVE Goal
  <2>1. /\ jobs' = <<>> /\ encoding' = NoJob /\ running' = running /\ encoded' = encoded
        /\ reply' = Gone(InSeq(J) \cup ({encoding} \ {NoJob}))
    BY <1>5 DEF TokStops
  <2>2. InSeq(E \o J) = InSeq(J) \cup ({encoding} \ {NoJob})
    BY <1>h, InSeqOf
  <2>3. (R \o C) \o <<>> = R \o C /\ (E \o J) \o <<>> = E \o J
    BY <1>0, ConcatEmptySeq
  <2>4. Line' = (R \o C) \o <<>>
    BY <1>l, <1>t, <2>1, <2>3, Zenon
  <2>5. Line = ((R \o C) \o (E \o J)) \o <<>>
    BY <1>0, ConcatEmptySeq
  <2>6. reply' = [j \in Jobs |-> IF j \in InSeq(E \o J) THEN "gone" ELSE reply[j]]
    BY <2>1, <2>2 DEF Gone
  <2>7. CASE E \o J # <<>>
    BY <1>0, <1>e, <1>t, <2>4, <2>5, <2>6, <2>7, LineFails
  <2>8. CASE E \o J = <<>>
    <3>1. Line = R \o C
      BY <1>0, <2>8, <2>3, Zenon
    <3>2. InSeq(E \o J) = {}
      BY <2>8 DEF InSeq
    <3>3. reply' = reply
      BY <1>t, <2>6, <3>2 DEF LineTyped
    <3> QED BY <1>q, <2>3, <2>4, <3>1, <3>3
  <2> QED BY <2>7, <2>8
<1>6. CASE GpuReceive
  <2>1. /\ running = NoJob /\ C # <<>> /\ running' = Head(C) /\ encoded' = Tail(C)
        /\ encoding' = encoding /\ jobs' = jobs /\ reply' = reply
    BY <1>6 DEF GpuReceive
  <2>2. Head(C) \in Jobs /\ Tail(C) \in Seq(Jobs)
    BY <1>h, <2>1, HeadTailProperties
  <2>3. C = InHand(Head(C)) \o Tail(C)
    BY <1>h, <1>t, <2>1, <2>2, HeadConsTail DEF InHand
  <2>4. R \o C = C
    BY <1>h, <1>t, <2>1, ConcatEmptySeq
  <2>5. Line' = Line
    BY <1>0, <1>l, <2>1, <2>3, <2>4, Zenon
  <2> QED BY <1>q, <2>1, <2>5
<1>7. ASSUME NEW outcome \in {"rows", "error"}, Forward(outcome) PROVE Goal
  <2>1. /\ running # NoJob /\ running' = NoJob
        /\ jobs' = jobs /\ encoding' = encoding /\ encoded' = encoded
        /\ reply' = [reply EXCEPT ![running] = outcome]
    BY <1>7 DEF Forward
  <2>2. running \in Jobs /\ R = <<running>> /\ R # <<>> /\ InSeq(R) = {running}
    BY <1>h, <1>t, <2>1 DEF LineTyped, InHand
  <2>3. Line' = (C \o E) \o J
    <3>1. <<>> \o C = C
      BY <1>h, ConcatEmptySeq
    <3> QED BY <1>l, <1>t, <2>1, <3>1, Zenon
  <2>4. CASE outcome = "rows"
    BY <1>0, <1>t, <2>1, <2>2, <2>3, <2>4, LineServes
  <2>5. CASE outcome = "error"
    <3>1. <<>> \o R = R /\ <<>> \o ((C \o E) \o J) = (C \o E) \o J
      BY <1>0, <1>h, ConcatEmptySeq
    <3>2. Line = (<<>> \o R) \o ((C \o E) \o J) /\ Line' = <<>> \o ((C \o E) \o J)
      BY <1>0, <2>3, <3>1, Zenon
    <3>3. reply' = [j \in Jobs |-> IF j \in InSeq(R) THEN "error" ELSE reply[j]]
      BY <1>t, <2>1, <2>2, <2>5 DEF LineTyped
    <3> QED BY <1>0, <1>e, <1>h, <1>t, <2>2, <3>2, <3>3, LineFails
  <2> QED BY <2>4, <2>5
<1>8. ASSUME GpuStops PROVE Goal
  <2>1. /\ encoded' = <<>> /\ running' = NoJob /\ encoding' = encoding /\ jobs' = jobs
        /\ reply' = Gone(InSeq(C) \cup ({running} \ {NoJob}))
    BY <1>8 DEF GpuStops
  <2>2. InSeq(R \o C) = InSeq(C) \cup ({running} \ {NoJob})
    BY <1>h, InSeqOf
  <2>3. /\ <<>> \o <<>> = <<>> /\ <<>> \o E = E
        /\ <<>> \o (R \o C) = R \o C /\ <<>> \o (E \o J) = E \o J
    BY <1>0, <1>e, <1>h, ConcatEmptySeq
  <2>4. Line' = <<>> \o (E \o J)
    BY <1>l, <1>t, <2>1, <2>3, Zenon
  <2>5. Line = (<<>> \o (R \o C)) \o (E \o J)
    BY <1>0, <2>3, Zenon
  <2>6. reply' = [j \in Jobs |-> IF j \in InSeq(R \o C) THEN "gone" ELSE reply[j]]
    BY <2>1, <2>2 DEF Gone
  <2>7. CASE R \o C # <<>>
    BY <1>0, <1>e, <1>t, <2>4, <2>5, <2>6, <2>7, LineFails
  <2>8. CASE R \o C = <<>>
    <3>1. Line = E \o J /\ Line' = E \o J
      BY <2>3, <2>4, <2>5, <2>8, Zenon
    <3>2. InSeq(R \o C) = {}
      BY <2>8 DEF InSeq
    <3>3. reply' = reply
      BY <1>t, <2>6, <3>2 DEF LineTyped
    <3> QED BY <1>q, <3>1, <3>3
  <2> QED BY <2>7, <2>8
<1>9. CASE UNCHANGED <<jobs, encoding, encoded, running, reply>>
  BY <1>9, <1>q DEF Line, InHand
<1> QED
  BY <1>1, <1>2, <1>3, <1>4, <1>5, <1>6, <1>7, <1>8, <1>9
  DEF WorkerNext, TokStep, GpuStep, TokBreaks, TokEnds, TokPanics, GpuEnds, GpuPanics

-----------------------------------------------------------------------------
(* The calls of the remote engine *)

\* The vector that belongs to text k of a call.
VectorOf(k) == <<((k - 1) \div SubRows) + 1, ((k - 1) % SubRows) + 1>>

Future == [sub : Nat, attempt : 0..MaxRetries,
           state : {"sent", "backoff", "done", "failed"}, n : Nat]

RemoteTyped ==
    /\ result \in [Calls -> {"none", "running", "rows", "error"}]
    /\ next \in [Calls -> Nat]
    /\ window \in [Calls -> Seq(Future)]
    /\ rows \in [Calls -> Seq(Nat \X Nat)]

\* Sub-batches whose rows are collected.
Collected(c) == next[c] - 1 - Len(window[c])

\* Rows of the first t sub-batches, in turn: without a surplus in an answer they are too
\* few, or they are the vectors of the texts, in order.
RowsOK(r, t) ==
    /\ InTurn(r)
    /\ \A k \in DOMAIN r : r[k][1] <= t
    /\ \/ Surplus(r)
       \/ /\ Len(r) <= t * SubRows
          /\ Len(r) = t * SubRows => \A k \in DOMAIN r : r[k] = VectorOf(k)

\* The window holds the sub-batches that follow those collected.
CallOK(c) ==
    /\ next[c] <= SubBatches(c) + 1
    /\ Len(window[c]) <= MaxConcurrency
    /\ \A i \in DOMAIN window[c] :
          window[c][i].state = "backoff" => window[c][i].attempt < MaxRetries
    /\ result[c] = "rows" => window[c] = <<>> /\ next[c] = SubBatches(c) + 1
    /\ result[c] # "error" =>
          /\ Collected(c) >= 0
          /\ \A i \in DOMAIN window[c] : window[c][i].sub = Collected(c) + i
          /\ RowsOK(rows[c], Collected(c))

RemoteOK == RemoteTyped /\ \A c \in Calls : CallOK(c)

\* Text i of the sub-batch that follows t sub-batches of n texts.
LEMMA TextOf ==
  ASSUME NEW n \in Nat \ {0}, NEW t \in Nat, NEW i \in 1..n
  PROVE  (t * n + i - 1) \div n = t /\ (t * n + i - 1) % n = i - 1
<1> DEFINE x == t * n + i - 1
           q == x \div n
           r == x % n
<1>1. t * n \in Nat /\ x \in Nat
  BY SMT
<1>2. q \in Int /\ r \in 0..(n - 1) /\ x = n * q + r
  BY <1>1, SMT
<1>3. x = n * t + (i - 1)
  BY SMT
<1> HIDE DEF x, q, r
<1>4. n * (q - t) = i - 1 - r
  BY <1>2, <1>3, SMT
<1>5. q - t = 0
  <2>1. CASE q - t >= 1
    <3>1. n * (q - t) >= n
      BY <1>2, <2>1, SMT
    <3> QED BY <1>2, <1>4, <3>1, SMT
  <2>2. CASE q - t <= -1
    <3>1. n * (q - t) <= -n
      BY <1>2, <2>2, SMT
    <3> QED BY <1>2, <1>4, <3>1, SMT
  <2> QED BY <1>2, <2>1, <2>2, SMT
<1>6. q = t
  BY <1>2, <1>5, SMT
<1>7. r = i - 1
  BY <1>2, <1>3, <1>6, SMT
<1> QED BY <1>6, <1>7 DEF x, q, r

\* What a call that is over has, if it has as many rows as texts: the vectors of the texts,
\* unless an answer had a surplus.
LEMMA CallRows ==
  ASSUME RemoteEmbedAssumption, RemoteOK, NEW c \in Calls, result[c] = "rows",
         Len(rows[c]) = Len(Expected(c))
  PROVE  rows[c] = Expected(c) \/ (Surplus(rows[c]) /\ InTurn(rows[c]))
<1> SUFFICES ASSUME ~Surplus(rows[c]) \/ ~InTurn(rows[c]) PROVE rows[c] = Expected(c)
  OBVIOUS
<1> DEFINE len == SubBatches(c) * SubRows
<1>1. SubBatches(c) \in Nat /\ SubRows \in Nat /\ len \in Nat
  BY SMT DEF RemoteEmbedAssumption
<1>2. Expected(c) = [k \in 1..len |-> VectorOf(k)]
  BY DEF Expected, VectorOf
<1> HIDE DEF len
<1>3. Len(Expected(c)) = len
  BY <1>1, <1>2
<1>4. rows[c] \in Seq(Nat \X Nat) /\ DOMAIN rows[c] = 1..len
  BY <1>3, LenProperties DEF RemoteOK, RemoteTyped
<1>5. Collected(c) = SubBatches(c)
  <2>1. window[c] = <<>> /\ next[c] = SubBatches(c) + 1 /\ Len(window[c]) = 0
    BY EmptySeq DEF RemoteOK, CallOK
  <2> QED BY <1>1, <2>1, SMT DEF Collected
<1>6. \A k \in DOMAIN rows[c] : rows[c][k] = VectorOf(k)
  BY <1>3, <1>5 DEF RemoteOK, CallOK, RowsOK, len
<1>7. rows[c] = [k \in 1..len |-> rows[c][k]]
  BY <1>4, LenProperties
<1> QED BY <1>2, <1>4, <1>6, <1>7

\* A step for one call leaves the others as they are.
LEMMA OneCall ==
  ASSUME RemoteOK, RemoteTyped', NEW c \in Calls, CallOK(c)',
         \A d \in Calls \ {c} : /\ result'[d] = result[d] /\ next'[d] = next[d]
                                /\ window'[d] = window[d] /\ rows'[d] = rows[d]
  PROVE  RemoteOK'
<1> SUFFICES ASSUME NEW d \in Calls PROVE CallOK(d)'
  BY DEF RemoteOK
<1>1. CASE d = c
  BY <1>1
<1>2. CASE d # c
  <2>1. /\ result'[d] = result[d] /\ next'[d] = next[d]
        /\ window'[d] = window[d] /\ rows'[d] = rows[d]
    BY <1>2
  <2>2. CallOK(d)
    BY DEF RemoteOK
  <2> QED BY <2>1, <2>2, Zenon DEF CallOK, Collected
<1> QED BY <1>1, <1>2

\* One future of a call changes, and stays that of its sub-batch.
LEMMA OneFuture ==
  ASSUME RemoteOK, NEW c \in Calls, NEW i \in DOMAIN window[c], NEW e \in Future,
         e.sub = window[c][i].sub, e.state = "backoff" => e.attempt < MaxRetries,
         UNCHANGED <<result, next, rows>>,
         window' = [window EXCEPT ![c] = [window[c] EXCEPT ![i] = e]]
  PROVE  RemoteOK'
<1> DEFINE w == [window[c] EXCEPT ![i] = e]
<1>1. window[c] \in Seq(Future) /\ i \in 1..Len(window[c]) /\ DOMAIN window[c] = 1..Len(window[c])
  BY LenProperties DEF RemoteOK, RemoteTyped
<1>2. /\ w \in Seq(Future) /\ Len(w) = Len(window[c]) /\ DOMAIN w = DOMAIN window[c]
      /\ \A j \in DOMAIN window[c] : w[j] = IF j = i THEN e ELSE window[c][j]
  BY <1>1, ExceptSeq
<1> HIDE DEF w
<1>3. window' = [window EXCEPT ![c] = w]
  BY DEF w
<1>4. RemoteTyped'
  BY <1>2, <1>3 DEF RemoteOK, RemoteTyped
<1>5. window'[c] = w /\ \A d \in Calls \ {c} : window'[d] = window[d]
  BY <1>3 DEF RemoteOK, RemoteTyped
<1>6. CallOK(c)'
  <2>1. CallOK(c)
    BY DEF RemoteOK
  <2>2. Collected(c)' = Collected(c)
    BY <1>2, <1>5 DEF Collected
  <2>3. \A j \in DOMAIN w : w[j].sub = window[c][j].sub
    BY <1>2
  <2>4. \A j \in DOMAIN w : w[j].state = "backoff" => w[j].attempt < MaxRetries
    BY <1>2, <2>1 DEF CallOK
  <2>5. window[c] # <<>>
    BY <1>1, EmptySeq
  <2> QED BY <1>2, <1>5, <2>1, <2>2, <2>3, <2>4, <2>5, Zenon DEF CallOK
<1> QED BY <1>4, <1>5, <1>6, OneCall

RemoteNext ==
    \/ ClientStep \/ ProviderStep
    \/ \E c \in Calls : StartCall(c) \/ DropCall(c)
    \/ UNCHANGED <<result, next, window, rows>>

\* The sub-batch next in turn is sent, behind those in the window.
LEMMA RequestStep ==
  ASSUME RemoteEmbedAssumption, RemoteOK, NEW c \in Calls, Request(c)
  PROVE  RemoteOK'
<1> DEFINE e == [sub |-> next[c], attempt |-> 0, state |-> "sent", n |-> 0]
           w == Append(window[c], e)
           m == Len(window[c])
<1>0. /\ SubBatches(c) \in Nat /\ SubRows \in Nat /\ MaxConcurrency \in Nat /\ MaxRetries \in Nat
  BY DEF RemoteEmbedAssumption
<1>1. /\ result[c] = "running" /\ next[c] <= SubBatches(c) /\ m < MaxConcurrency
      /\ window' = [window EXCEPT ![c] = w] /\ next' = [next EXCEPT ![c] = @ + 1]
      /\ result' = result /\ rows' = rows
  BY DEF Request
<1>2. next[c] \in Nat /\ window[c] \in Seq(Future) /\ DOMAIN window[c] = 1..m /\ m \in Nat
  BY LenProperties DEF RemoteOK, RemoteTyped
<1>3. e \in Future
  BY <1>0, <1>2 DEF Future
<1> HIDE DEF e
<1>4. /\ w \in Seq(Future) /\ Len(w) = m + 1 /\ DOMAIN w = 1..(m + 1) /\ w # <<>>
      /\ \A i \in 1..m : w[i] = window[c][i]
      /\ w[m + 1] = e
  <2>1. /\ w \in Seq(Future) /\ Len(w) = m + 1 /\ w # <<>>
        /\ \A i \in 1..m : w[i] = window[c][i]
        /\ w[m + 1] = e
    BY <1>2, <1>3, AppendProperties
  <2> QED BY <2>1, LenProperties
<1> HIDE DEF w
<1>5. /\ window'[c] = w /\ next'[c] = next[c] + 1
      /\ \A d \in Calls \ {c} : window'[d] = window[d] /\ next'[d] = next[d]
  BY <1>1 DEF RemoteOK, RemoteTyped
<1>6. RemoteTyped'
  <2>1. next' \in [Calls -> Nat]
    BY <1>1, <1>2 DEF RemoteOK, RemoteTyped
  <2>2. window' \in [Calls -> Seq(Future)]
    BY <1>1, <1>4 DEF RemoteOK, RemoteTyped
  <2> QED BY <1>1, <2>1, <2>2 DEF RemoteOK, RemoteTyped
<1>7. Collected(c)' = Collected(c)
  <2>1. Collected(c)' = (next[c] + 1) - 1 - (m + 1) /\ Collected(c) = next[c] - 1 - m
    BY <1>4, <1>5 DEF Collected
  <2> HIDE DEF m
  <2> QED BY <1>2, <2>1, SMT
<1>8. CallOK(c)'
  <2> DEFINE t == Collected(c)
  <2>1. CallOK(c)
    BY DEF RemoteOK
  <2>2. /\ t >= 0 /\ \A i \in 1..m : window[c][i].sub = t + i
        /\ RowsOK(rows[c], t)
        /\ \A i \in 1..m : window[c][i].state = "backoff" => window[c][i].attempt < MaxRetries
    BY <1>1, <1>2, <2>1 DEF CallOK
  <2>3. t = next[c] - 1 - m
    BY DEF Collected
  <2>4. e.sub = next[c] /\ e.state = "sent"
    BY DEF e
  <2> HIDE DEF t, m
  <2>5. ASSUME NEW i \in 1..(m + 1)
        PROVE  w[i].sub = t + i /\ (w[i].state = "backoff" => w[i].attempt < MaxRetries)
    <3>1. CASE i \in 1..m
      BY <1>4, <2>2, <3>1
    <3>2. CASE i = m + 1
      <4>1. t + i = next[c]
        BY <1>2, <2>3, <3>2, SMT
      <4> QED BY <1>4, <2>4, <3>2, <4>1
    <3> QED BY <1>2, <3>1, <3>2, SMT
  <2>6. next'[c] <= SubBatches(c) + 1 /\ Len(w) <= MaxConcurrency
    BY <1>0, <1>1, <1>2, <1>4, <1>5, SMT
  <2>7. \A i \in DOMAIN w : w[i].sub = t + i
    BY <1>4, <2>5
  <2>8. \A i \in DOMAIN w : w[i].state = "backoff" => w[i].attempt < MaxRetries
    BY <1>4, <2>5
  <2>9. result'[c] = "running" /\ rows'[c] = rows[c]
    BY <1>1
  <2> QED BY <1>5, <1>7, <2>2, <2>6, <2>7, <2>8, <2>9, Zenon DEF CallOK, t
<1> QED BY <1>1, <1>5, <1>6, <1>8, OneCall

\* The rows of the oldest sub-batch follow those collected.
LEMMA TakeRowsStep ==
  ASSUME RemoteEmbedAssumption, RemoteOK, NEW c \in Calls, TakeRows(c)
  PROVE  RemoteOK'
<1> DEFINE e == Head(window[c])
           w == Tail(window[c])
           m == Len(window[c])
           more == RowsOf(e.sub, e.n)
           all == rows[c] \o more
           have == Len(rows[c])
<1>0. SubRows \in Nat \ {0} /\ MaxConcurrency \in Nat
  BY DEF RemoteEmbedAssumption
<1>1. /\ result[c] = "running" /\ window[c] # <<>>
      /\ window' = [window EXCEPT ![c] = w] /\ rows' = [rows EXCEPT ![c] = all]
      /\ result' = result /\ next' = next
  BY DEF TakeRows
<1>2. /\ next[c] \in Nat /\ window[c] \in Seq(Future) /\ DOMAIN window[c] = 1..m /\ m \in Nat
      /\ m # 0 /\ rows[c] \in Seq(Nat \X Nat) /\ have \in Nat /\ DOMAIN rows[c] = 1..have
  BY <1>1, LenProperties, EmptySeq DEF RemoteOK, RemoteTyped
<1>3. /\ w \in Seq(Future) /\ Len(w) = m - 1 /\ DOMAIN w = 1..(m - 1)
      /\ \A i \in 1..(m - 1) : w[i] = window[c][i + 1]
      /\ e = window[c][1] /\ e \in Future
  <2>1. /\ e \in Future /\ w \in Seq(Future) /\ Len(w) = m - 1
        /\ \A i \in 1..Len(w) : w[i] = window[c][i + 1]
    BY <1>1, <1>2, HeadTailProperties
  <2>2. e = window[c][1]
    BY <1>2, SMT
  <2> QED BY <2>1, <2>2, LenProperties
<1>4. e.sub \in Nat /\ e.n \in Nat
  BY <1>3 DEF Future
<1>5. more \in Seq(Nat \X Nat) /\ Len(more) = e.n /\ \A i \in 1..e.n : more[i] = <<e.sub, i>>
  <2>1. more = [i \in 1..e.n |-> <<e.sub, i>>]
    BY DEF RowsOf
  <2> HIDE DEF e, more
  <2> QED BY <1>4, <2>1
<1> HIDE DEF more
<1>6. /\ all \in Seq(Nat \X Nat) /\ Len(all) = have + e.n /\ DOMAIN all = 1..(have + e.n)
      /\ \A i \in 1..have : all[i] = rows[c][i]
      /\ \A i \in 1..e.n : all[i + have] = more[i]
  <2>1. /\ rows[c] \o more \in Seq(Nat \X Nat) /\ Len(rows[c] \o more) = have + Len(more)
        /\ DOMAIN (rows[c] \o more) = 1..(have + Len(more))
        /\ \A i \in 1..have : (rows[c] \o more)[i] = rows[c][i]
        /\ \A i \in 1..Len(more) : (rows[c] \o more)[i + have] = more[i]
    <3>1. ASSUME NEW V, rows[c] \in Seq(V), more \in Seq(V)
          PROVE  /\ rows[c] \o more \in Seq(V) /\ Len(rows[c] \o more) = have + Len(more)
                 /\ DOMAIN (rows[c] \o more) = 1..(have + Len(more))
                 /\ \A i \in 1..have : (rows[c] \o more)[i] = rows[c][i]
                 /\ \A i \in 1..Len(more) : (rows[c] \o more)[i + have] = more[i]
      BY <3>1, Two
    <3> QED BY <1>2, <1>5, <3>1, Zenon
  <2> HIDE DEF e, have
  <2> QED BY <1>5, <2>1, Zenon
<1> HIDE DEF e, w, m, all, have
<1>7. /\ window'[c] = w /\ rows'[c] = all
      /\ \A d \in Calls \ {c} : window'[d] = window[d] /\ rows'[d] = rows[d]
  BY <1>1 DEF RemoteOK, RemoteTyped
<1>8. RemoteTyped'
  <2>1. rows' \in [Calls -> Seq(Nat \X Nat)]
    BY <1>1, <1>6 DEF RemoteOK, RemoteTyped
  <2>2. window' \in [Calls -> Seq(Future)]
    BY <1>1, <1>3 DEF RemoteOK, RemoteTyped
  <2> QED BY <1>1, <2>1, <2>2 DEF RemoteOK, RemoteTyped
<1> DEFINE t == Collected(c)
<1>9. CallOK(c)
  BY DEF RemoteOK
<1>10. /\ t = next[c] - 1 - m /\ Collected(c)' = next[c] - 1 - (m - 1)
  BY <1>1, <1>3, <1>7 DEF Collected, m
<1>11. /\ t >= 0 /\ \A i \in 1..m : window[c][i].sub = t + i
       /\ RowsOK(rows[c], t)
       /\ \A i \in 1..m : window[c][i].state = "backoff" => window[c][i].attempt < MaxRetries
       /\ next[c] <= SubBatches(c) + 1 /\ m <= MaxConcurrency
  BY <1>1, <1>2, <1>9 DEF CallOK, m, have
<1> HIDE DEF t
<1>12. t \in Nat /\ Collected(c)' = t + 1
  BY <1>2, <1>10, <1>11, SMT
<1>13. t * SubRows \in Nat /\ (t + 1) * SubRows = t * SubRows + SubRows
  BY <1>0, <1>12, SMT
<1>14. e.sub = t + 1
  BY <1>2, <1>3, <1>11, SMT
<1>i. \A k \in 1..(have + e.n) : \/ k \in 1..have
                                 \/ k - have \in 1..e.n /\ k = (k - have) + have
  BY <1>2, <1>4, SMT
<1>j. ASSUME NEW k \in 1..e.n PROVE k + have \in DOMAIN all /\ all[k + have] = <<e.sub, k>>
  <2>1. k + have \in 1..(have + e.n)
    BY <1>2, <1>4, SMT
  <2> QED BY <1>5, <1>6, <2>1
<1>k. \A k \in 1..have : k \in DOMAIN all /\ all[k] = rows[c][k]
  <2>1. \A k \in 1..have : k \in 1..(have + e.n)
    BY <1>2, <1>4, SMT
  <2> QED BY <1>6, <2>1
<1>l. \A k \in 1..have : rows[c][k] \in Nat \X Nat /\ rows[c][k][1] <= t
  <2>1. \A k \in DOMAIN rows[c] : rows[c][k][1] <= t
    BY <1>11 DEF RowsOK
  <2>2. ASSUME NEW V, rows[c] \in Seq(V) PROVE \A k \in 1..have : rows[c][k] \in V
    BY <1>2, <2>2
  <2> QED BY <1>2, <2>1, <2>2
<1>o. \A k \in DOMAIN all : all[k][1] <= t + 1
  <2> SUFFICES ASSUME NEW k \in 1..(have + e.n) PROVE all[k][1] <= t + 1
    BY <1>6
  <2>1. CASE k \in 1..have
    <3>1. all[k] \in Nat \X Nat /\ all[k][1] <= t
      BY <1>k, <1>l, <2>1
    <3>2. all[k][1] \in Nat
      BY <3>1
    <3> QED BY <1>12, <3>1, <3>2, SMT
  <2>2. CASE k - have \in 1..e.n /\ k = (k - have) + have
    <3>1. all[k] = <<t + 1, k - have>>
      BY <1>14, <1>j, <2>2
    <3> QED BY <1>12, <3>1, SMT
  <2> QED BY <1>i, <2>1, <2>2
<1>p. InTurn(all)
  <2> SUFFICES ASSUME NEW i \in 1..(have + e.n), NEW k \in 1..(have + e.n), i < k
               PROVE  Before(all[i], all[k])
    BY <1>6 DEF InTurn
  <2>1. CASE k \in 1..have
    <3>1. i \in 1..have
      BY <1>2, <2>1, SMT
    <3>2. Before(rows[c][i], rows[c][k])
      BY <1>2, <1>11, <2>1, <3>1 DEF RowsOK, InTurn
    <3> QED BY <1>k, <2>1, <3>1, <3>2
  <2>2. CASE k - have \in 1..e.n /\ k = (k - have) + have
    <3>1. all[k] = <<t + 1, k - have>>
      BY <1>14, <1>j, <2>2
    <3>2. CASE i \in 1..have
      <4>1. all[i] = rows[c][i] /\ all[i][1] <= t /\ all[i] \in Nat \X Nat
        BY <1>k, <1>l, <3>2
      <4>2. all[i][1] \in Nat
        BY <4>1
      <4>3. all[i][1] < t + 1
        BY <1>12, <4>1, <4>2, SMT
      <4>4. all[k][1] = t + 1
        BY <3>1
      <4> QED BY <4>3, <4>4 DEF Before
    <3>3. CASE i - have \in 1..e.n /\ i = (i - have) + have
      <4>1. all[i] = <<t + 1, i - have>>
        BY <1>14, <1>j, <3>3
      <4>2. i - have < k - have
        BY <1>2, <1>4, SMT
      <4>3. all[i][1] = all[k][1] /\ all[i][2] = i - have /\ all[k][2] = k - have
        BY <3>1, <4>1
      <4> QED BY <4>2, <4>3 DEF Before
    <3> QED BY <1>i, <3>2, <3>3
  <2> QED BY <1>i, <2>1, <2>2
<1>s. ASSUME Surplus(rows[c]) PROVE RowsOK(all, t + 1)
  <2>1. PICK i \in 1..have : rows[c][i][2] > SubRows
    BY <1>2, <1>s DEF Surplus
  <2> QED BY <1>k, <1>o, <1>p, <2>1 DEF Surplus, RowsOK
<1>u. ASSUME e.n > SubRows PROVE RowsOK(all, t + 1)
  <2>1. e.n \in 1..e.n
    BY <1>0, <1>4, <1>u, SMT
  <2>2. e.n + have \in DOMAIN all /\ all[e.n + have] = <<e.sub, e.n>>
    BY <1>j, <2>1
  <2>3. all[e.n + have][2] > SubRows
    BY <1>u, <2>2
  <2> QED BY <1>o, <1>p, <2>2, <2>3 DEF Surplus, RowsOK
<1>v. ASSUME ~Surplus(rows[c]), e.n <= SubRows PROVE RowsOK(all, t + 1)
  <2>a. have <= t * SubRows /\ (have = t * SubRows => \A k \in 1..have : rows[c][k] = VectorOf(k))
    BY <1>2, <1>11, <1>v DEF RowsOK, have
  <2>b. have + e.n <= (t + 1) * SubRows
    BY <1>0, <1>2, <1>4, <1>13, <1>v, <2>a, SMT
  <2>c. ASSUME have + e.n = (t + 1) * SubRows, NEW k \in DOMAIN all PROVE all[k] = VectorOf(k)
    <3>1. have = t * SubRows /\ e.n = SubRows
      BY <1>0, <1>2, <1>4, <1>13, <1>v, <2>a, <2>c, SMT
    <3>2. CASE k \in 1..have
      BY <1>6, <2>a, <3>1, <3>2
    <3>3. CASE k \notin 1..have
      <4> DEFINE i == k - have
      <4>1. i \in 1..SubRows /\ i + have = k
        BY <1>0, <1>2, <1>6, <2>c, <3>1, <3>3, SMT
      <4>2. k - 1 = t * SubRows + i - 1
        BY <1>0, <1>2, <1>12, <1>13, <3>1, <4>1, SMT
      <4> HIDE DEF i
      <4>3. (k - 1) \div SubRows = t /\ (k - 1) % SubRows = i - 1
        BY <1>0, <1>12, <4>1, <4>2, TextOf
      <4>4. VectorOf(k) = <<t + 1, i - 1 + 1>>
        BY <4>3, Zenon DEF VectorOf
      <4>5. i - 1 + 1 = i
        BY <4>1, <1>0, SMT
      <4>6. all[i + have] = <<e.sub, i>>
        BY <1>5, <1>6, <3>1, <4>1
      <4> QED BY <1>14, <4>1, <4>4, <4>5, <4>6, Zenon
    <3> QED BY <3>2, <3>3
  <2> QED BY <1>6, <1>o, <1>p, <2>b, <2>c DEF RowsOK
<1>15. RowsOK(all, t + 1)
  BY <1>0, <1>4, <1>s, <1>u, <1>v, SMT
<1>17. ASSUME NEW i \in 1..(m - 1)
       PROVE  w[i].sub = t + 1 + i /\ (w[i].state = "backoff" => w[i].attempt < MaxRetries)
  <2>1. i + 1 \in 1..m
    BY <1>2, SMT
  <2>2. t + (i + 1) = t + 1 + i
    BY <1>12, SMT
  <2> QED BY <1>3, <1>11, <2>1, <2>2
<1>18. CallOK(c)'
  <2>1. Len(w) <= MaxConcurrency /\ t + 1 >= 0
    BY <1>0, <1>2, <1>3, <1>11, <1>12, SMT
  <2>2. \A i \in DOMAIN w : w[i].sub = t + 1 + i
    BY <1>3, <1>17
  <2>3. \A i \in DOMAIN w : w[i].state = "backoff" => w[i].attempt < MaxRetries
    BY <1>3, <1>17
  <2>4. result'[c] = "running" /\ next'[c] = next[c]
    BY <1>1
  <2> QED BY <1>7, <1>11, <1>12, <1>15, <2>1, <2>2, <2>3, <2>4, Zenon DEF CallOK
<1> QED BY <1>1, <1>7, <1>8, <1>18, OneCall

\* A call begins, ends, or is dropped.
LEMMA ResultStep ==
  ASSUME RemoteEmbedAssumption, RemoteOK, NEW c \in Calls,
         StartCall(c) \/ TakeError(c) \/ EndCall(c) \/ DropCall(c)
  PROVE  RemoteOK'
<1>1. RemoteTyped' /\ next' = next /\ rows' = rows
      /\ \A d \in Calls \ {c} : window'[d] = window[d] /\ result'[d] = result[d]
  <2>1. next' = next /\ rows' = rows /\ <<>> \in Seq(Future)
    BY EmptySeq DEF StartCall, TakeError, EndCall, DropCall
  <2>2. window' \in [Calls -> Seq(Future)] /\ \A d \in Calls \ {c} : window'[d] = window[d]
    BY <2>1 DEF StartCall, TakeError, EndCall, DropCall, RemoteOK, RemoteTyped
  <2>3. /\ result' \in [Calls -> {"none", "running", "rows", "error"}]
        /\ \A d \in Calls \ {c} : result'[d] = result[d]
    BY DEF StartCall, TakeError, EndCall, DropCall, RemoteOK, RemoteTyped
  <2> QED BY <2>1, <2>2, <2>3 DEF RemoteOK, RemoteTyped
<1>2. CallOK(c)
  BY DEF RemoteOK
<1>3. next[c] \in Nat /\ SubBatches(c) \in Nat /\ MaxConcurrency \in Nat
  BY DEF RemoteOK, RemoteTyped, RemoteEmbedAssumption
<1>4. CASE StartCall(c)
  <2>1. window' = window /\ result[c] = "none" /\ result'[c] = "running"
    BY <1>4 DEF StartCall, RemoteOK, RemoteTyped
  <2>2. CallOK(c)'
    BY <1>1, <1>2, <2>1, Zenon DEF CallOK, Collected
  <2> QED BY <1>1, <2>2, OneCall
<1>5. CASE TakeError(c) \/ DropCall(c)
  <2>1. window'[c] = <<>> /\ result'[c] = "error"
    BY <1>5 DEF TakeError, DropCall, RemoteOK, RemoteTyped
  <2>2. Len(<<>>) = 0 /\ DOMAIN <<>> = {} /\ 0 <= MaxConcurrency
    BY <1>3, EmptySeq, SMT
  <2>3. CallOK(c)'
    BY <1>1, <1>2, <2>1, <2>2, Zenon DEF CallOK
  <2> QED BY <1>1, <2>3, OneCall
<1>6. CASE EndCall(c)
  <2>1. /\ window' = window /\ window[c] = <<>> /\ next[c] > SubBatches(c)
        /\ result[c] = "running" /\ result'[c] = "rows"
    BY <1>6 DEF EndCall, RemoteOK, RemoteTyped
  <2>2. next[c] = SubBatches(c) + 1
    BY <1>2, <1>3, <2>1, SMT DEF CallOK
  <2>3. CallOK(c)'
    BY <1>1, <1>2, <2>1, <2>2, Zenon DEF CallOK, Collected
  <2> QED BY <1>1, <2>3, OneCall
<1> QED BY <1>4, <1>5, <1>6

\* The provider answers or fails, or a request is sent once more.
LEMMA FutureStep ==
  ASSUME RemoteEmbedAssumption, RemoteOK, NEW c \in Calls, NEW i \in DOMAIN window[c],
         \/ \E n \in AnswerRows : Respond(c, i, n)
         \/ FailPassing(c, i) \/ FailForGood(c, i) \/ Retry(c, i)
  PROVE  RemoteOK'
<1> DEFINE f == window[c][i]
           a == f.attempt
<1>1. MaxRetries \in Nat /\ AnswerRows \subseteq Nat
  BY DEF RemoteEmbedAssumption
<1>2. /\ f \in Future /\ f.sub \in Nat /\ a \in 0..MaxRetries /\ f.n \in Nat
      /\ f = [sub |-> f.sub, attempt |-> a, state |-> f.state, n |-> f.n]
  <2>1. f \in Future
    BY LenProperties, ElementOfSeq DEF RemoteOK, RemoteTyped
  <2> HIDE DEF f
  <2> QED BY <2>1 DEF Future
<1>3. f.state = "backoff" => a < MaxRetries
  BY DEF RemoteOK, CallOK
<1> HIDE DEF f
<1>4. ASSUME NEW attempt \in 0..MaxRetries, NEW state \in {"sent", "backoff", "done", "failed"},
             NEW n \in Nat, state = "backoff" => attempt < MaxRetries,
             UNCHANGED <<result, next, rows>>,
             window' = [window EXCEPT ![c][i] =
                          [sub |-> f.sub, attempt |-> attempt, state |-> state, n |-> n]]
      PROVE  RemoteOK'
  <2> DEFINE e == [sub |-> f.sub, attempt |-> attempt, state |-> state, n |-> n]
  <2>1. e \in Future /\ e.sub = f.sub /\ e.state = state /\ e.attempt = attempt
    BY <1>2 DEF Future
  <2> HIDE DEF e
  <2>2. window' = [window EXCEPT ![c][i] = e]
    BY <1>4, Zenon DEF e
  <2>3. window' = [window EXCEPT ![c] = [window[c] EXCEPT ![i] = e]]
    BY <2>2, Zenon
  <2>4. e.sub = window[c][i].sub /\ (e.state = "backoff" => e.attempt < MaxRetries)
    BY <1>4, <2>1, Zenon DEF f
  <2>5. UNCHANGED <<result, next, rows>> /\ e \in Future
    BY <1>4, <2>1
  <2> QED BY <2>3, <2>4, <2>5, OneFuture, Zenon
<1>5. ASSUME NEW state \in {"backoff", "done", "failed"}, NEW n \in Nat,
             state = "backoff" => a < MaxRetries,
             UNCHANGED <<result, next, rows>>, Finish(c, i, state, n)
      PROVE  RemoteOK'
  <2>1. [f EXCEPT !.state = state, !.n = n]
          = [sub |-> f.sub, attempt |-> a, state |-> state, n |-> n]
    <3>1. [f EXCEPT !.state = state, !.n = n] = [[f EXCEPT !.state = state] EXCEPT !.n = n]
      OBVIOUS
    <3>2. ASSUME NEW s, NEW t, NEW u, NEW v, f = [sub |-> s, attempt |-> t, state |-> u, n |-> v]
          PROVE  [f EXCEPT !.state = state] = [sub |-> s, attempt |-> t, state |-> state, n |-> v]
      BY <3>2, SMT
    <3>3. ASSUME NEW s, NEW t, NEW v, NEW g, g = [sub |-> s, attempt |-> t, state |-> state, n |-> v]
          PROVE  [g EXCEPT !.n = n] = [sub |-> s, attempt |-> t, state |-> state, n |-> n]
      BY <3>3, SMT
    <3> DEFINE g == [f EXCEPT !.state = state]
    <3>4. g = [sub |-> f.sub, attempt |-> a, state |-> state, n |-> f.n]
      BY <1>2, <3>2
    <3>5. [f EXCEPT !.state = state, !.n = n] = [g EXCEPT !.n = n]
      BY <3>1
    <3> HIDE DEF g
    <3>6. [g EXCEPT !.n = n] = [sub |-> f.sub, attempt |-> a, state |-> state, n |-> n]
      BY <3>3, <3>4
    <3> QED BY <3>5, <3>6, Zenon
  <2>2. window' = [window EXCEPT ![c][i] = [f EXCEPT !.state = state, !.n = n]]
    BY <1>5, Zenon DEF Finish, f
  <2>3. window' = [window EXCEPT ![c][i] =
                     [sub |-> f.sub, attempt |-> a, state |-> state, n |-> n]]
    BY <2>1, <2>2, Zenon
  <2> QED BY <1>2, <1>4, <1>5, <2>3
<1>6. CASE \E n \in AnswerRows : Respond(c, i, n)
  BY <1>1, <1>5, <1>6 DEF Respond
<1>7. CASE FailPassing(c, i)
  BY <1>5, <1>7 DEF FailPassing, f
<1>8. CASE FailForGood(c, i)
  BY <1>5, <1>8 DEF FailForGood
<1>9. CASE Retry(c, i)
  <2>1. /\ f.state = "backoff" /\ UNCHANGED <<result, next, rows>>
        /\ window' = [window EXCEPT ![c][i] = [f EXCEPT !.state = "sent", !.attempt = a + 1]]
    <3>1. window' = [window EXCEPT ![c][i] = [f EXCEPT !.state = "sent", !.attempt = f.attempt + 1]]
      BY <1>9, Zenon DEF Retry, f
    <3> QED BY <1>9, <3>1 DEF Retry, f
  <2>2. [f EXCEPT !.state = "sent", !.attempt = a + 1]
          = [sub |-> f.sub, attempt |-> a + 1, state |-> "sent", n |-> f.n]
    <3>1. [f EXCEPT !.state = "sent", !.attempt = a + 1]
            = [[f EXCEPT !.state = "sent"] EXCEPT !.attempt = a + 1]
      OBVIOUS
    <3>2. ASSUME NEW s, NEW t, NEW u, NEW v, f = [sub |-> s, attempt |-> t, state |-> u, n |-> v]
          PROVE  [f EXCEPT !.state = "sent"] = [sub |-> s, attempt |-> t, state |-> "sent", n |-> v]
      BY <3>2, SMT
    <3>3. ASSUME NEW s, NEW t, NEW v, NEW x, NEW g,
                 g = [sub |-> s, attempt |-> t, state |-> "sent", n |-> v]
          PROVE  [g EXCEPT !.attempt = x] = [sub |-> s, attempt |-> x, state |-> "sent", n |-> v]
      BY <3>3, SMT
    <3> DEFINE g == [f EXCEPT !.state = "sent"]
    <3>4. g = [sub |-> f.sub, attempt |-> a, state |-> "sent", n |-> f.n]
      BY <1>2, <3>2
    <3>5. [f EXCEPT !.state = "sent", !.attempt = a + 1] = [g EXCEPT !.attempt = a + 1]
      BY <3>1
    <3> HIDE DEF g
    <3>6. [g EXCEPT !.attempt = a + 1] = [sub |-> f.sub, attempt |-> a + 1, state |-> "sent", n |-> f.n]
      BY <3>3, <3>4
    <3> QED BY <3>5, <3>6, Zenon
  <2>3. a + 1 \in 0..MaxRetries
    BY <1>1, <1>2, <1>3, <2>1, SMT
  <2>4. window' = [window EXCEPT ![c][i] =
                     [sub |-> f.sub, attempt |-> a + 1, state |-> "sent", n |-> f.n]]
    BY <2>1, <2>2, Zenon
  <2> QED BY <1>2, <1>4, <2>1, <2>3, <2>4
<1> QED BY <1>6, <1>7, <1>8, <1>9

LEMMA RemoteStays ==
  ASSUME RemoteEmbedAssumption, RemoteOK, RemoteNext
  PROVE  RemoteOK'
<1>1. CASE ClientStep
  BY <1>1, RequestStep, TakeRowsStep, ResultStep, FutureStep DEF ClientStep
<1>2. CASE ProviderStep
  BY <1>2, FutureStep DEF ProviderStep
<1>3. CASE \E c \in Calls : StartCall(c) \/ DropCall(c)
  BY <1>3, ResultStep
<1>4. CASE UNCHANGED <<result, next, window, rows>>
  BY <1>4, Zenon DEF RemoteOK, RemoteTyped, CallOK, Collected
<1> QED BY <1>1, <1>2, <1>3, <1>4 DEF RemoteNext

LEMMA RemoteBegins ==
  ASSUME RemoteEmbedAssumption, RemoteInit
  PROVE  RemoteOK
<1>1. <<>> \in Seq(Future) /\ <<>> \in Seq(Nat \X Nat) /\ Len(<<>>) = 0 /\ DOMAIN <<>> = {}
  BY EmptySeq, SMT
<1>2. RemoteTyped
  BY <1>1 DEF RemoteInit, RemoteTyped
<1>3. ASSUME NEW c \in Calls PROVE CallOK(c)
  <2>1. result[c] = "none" /\ next[c] = 1 /\ window[c] = <<>> /\ rows[c] = <<>>
    BY DEF RemoteInit
  <2>2. SubBatches(c) \in Nat /\ SubRows \in Nat /\ MaxConcurrency \in Nat
    BY DEF RemoteEmbedAssumption
  <2>3. Collected(c) = 0 /\ 0 * SubRows = 0
    <3>1. Collected(c) = 1 - 1 - 0
      BY <1>1, <2>1, Zenon DEF Collected
    <3> QED BY <2>2, <3>1, SMT
  <2>4. 1 <= SubBatches(c) + 1 /\ 0 <= MaxConcurrency
    BY <2>2, SMT
  <2>5. RowsOK(rows[c], 0)
    BY <1>1, <2>1, <2>3, SMT DEF RowsOK, InTurn
  <2> QED BY <1>1, <2>1, <2>3, <2>4, <2>5, SMT DEF CallOK
<1> QED BY <1>2, <1>3 DEF RemoteOK

-----------------------------------------------------------------------------
(* The embed loop *)

Batch == [batch : BatchIds, of : BatchIds, rows : {Expected(k) : k \in BatchIds} \cup Seq(Nat \X Nat)]

LoopTyped ==
    /\ kind \in {"local", "remote"}
    /\ pc \in [Callers -> {"idle", "top", "next", "await"} \cup Ends]
    /\ cursor \in 1..(Batches + 1)
    /\ {pending, ahead} \subseteq Jobs \cup {NoJob}
    /\ taken \in Seq(Batch)

\* What the loop awaits is the batch it is at, and what is submitted ahead of it the next.
LoopOK ==
    /\ LoopTyped
    /\ pc["indexer"] \in {"next", "await"} => cursor <= Batches
    /\ pc["indexer"] = "next" => kind = "local"
    /\ Len(taken) = cursor - 1
    /\ kind = "local" =>
          /\ pending \in {NoJob, cursor}
          /\ pc["indexer"] \in {"next", "await"} => pending = cursor
          /\ pc["indexer"] = "await" => ahead \in {NoJob, cursor + 1}
    /\ RowsAligned

Assumptions == EmbeddingAssumption /\ EmbedWorkerAssumption /\ RemoteEmbedAssumption

\* A step of the program is at most one of the threads' and at most one of the calls'.
LEMMA Parts ==
  ASSUME Assumptions, LoopOK, [Next]_vars
  PROVE  WorkerNext /\ RemoteNext
<1> USE DEF worker, remote
<1> DEFINE quiet == UNCHANGED <<jobs, encoding, encoded, running, reply>>
           still == UNCHANGED <<result, next, window, rows>>
<1>0. /\ Batches \in Nat /\ Jobs = BatchIds \cup Queries /\ Calls = Jobs /\ BatchIds = 1..Batches
      /\ cursor \in 1..(Batches + 1)
  BY DEF Assumptions, EmbeddingAssumption, BatchIds, LoopOK, LoopTyped
<1>1. cursor <= Batches => cursor \in Jobs
  BY <1>0, SMT
<1>2. cursor < Batches => cursor + 1 \in Jobs
  BY <1>0, SMT
<1>w. quiet => WorkerNext
  BY DEF WorkerNext
<1>r. still => RemoteNext
  BY DEF RemoteNext
<1>3. CASE Begin \/ LoopEnds \/ Pause \/ TakeBatch \/ BatchFails
  <2>1. quiet /\ still
    BY <1>3 DEF Begin, LoopEnds, Pause, TakeBatch, BatchFails
  <2> QED BY <1>r, <1>w, <2>1
<1>4. CASE SubmitCurrent
  BY <1>1, <1>4, <1>r, <1>w DEF SubmitCurrent, WorkerNext
<1>5. CASE SubmitAhead
  BY <1>2, <1>5, <1>r, <1>w DEF SubmitAhead, WorkerNext
<1>6. CASE CallRemote
  BY <1>0, <1>1, <1>6, <1>w DEF CallRemote, RemoteNext
<1>7. CASE Abort
  <2>1. quiet
    BY <1>7 DEF Abort
  <2>2. CASE kind = "remote"
    <3>1. DropCall(cursor) /\ result[cursor] = "running"
      BY <1>7, <2>2 DEF Abort, DropCall
    <3>2. cursor \in Calls
      BY <1>0, <1>1, <1>7 DEF Abort, LoopOK
    <3> QED BY <1>w, <2>1, <3>1, <3>2 DEF RemoteNext
  <2>3. CASE kind # "remote"
    BY <1>7, <1>r, <1>w, <2>1, <2>3 DEF Abort
  <2> QED BY <2>2, <2>3
<1>8. ASSUME NEW q \in Queries, AskQuery(q) PROVE WorkerNext /\ RemoteNext
  <2>1. q \in Jobs /\ q \in Calls
    BY <1>0
  <2> QED BY <1>8, <1>r, <1>w, <2>1 DEF AskQuery, WorkerNext, RemoteNext
<1>9. ASSUME NEW q \in Queries, AnswerQuery(q) PROVE WorkerNext /\ RemoteNext
  BY <1>9, <1>r, <1>w DEF AnswerQuery
<1>10. CASE Panic \/ TokTurn \/ GpuTurn
  BY <1>10, <1>r DEF Panic, TokTurn, GpuTurn, WorkerNext
<1>11. CASE ClientTurn \/ ProviderTurn
  BY <1>11, <1>w DEF ClientTurn, ProviderTurn, RemoteNext
<1>12. CASE Shutdown
  BY <1>12, <1>r, <1>w DEF Shutdown, DropEngine
<1>13. CASE UNCHANGED vars
  BY <1>13, <1>r, <1>w DEF vars
<1> QED
  BY <1>3, <1>4, <1>5, <1>6, <1>7, <1>8, <1>9, <1>10, <1>11, <1>12, <1>13 DEF Next, CallerStep

LEMMA BatchTaken ==
  ASSUME Assumptions, LoopOK, RemoteOK, TakeBatch
  PROVE  LoopOK'
<1> DEFINE j == IF kind = "local" THEN pending ELSE cursor
           e == [batch |-> cursor, of |-> j, rows |-> RowsFor(j)]
<1>1. /\ pc["indexer"] = "await" /\ taken' = Append(taken, e)
      /\ (IF kind = "local" THEN reply[j] ELSE result[j]) = "rows"
      /\ Len(RowsFor(j)) = Len(Expected(cursor))
      /\ pending' = ahead /\ ahead' = NoJob /\ cursor' = cursor + 1 /\ kind' = kind
      /\ pc' = [pc EXCEPT !["indexer"] = "top"]
  BY DEF TakeBatch, Step
<1>2. /\ Batches \in Nat /\ BatchIds = 1..Batches /\ Calls = Jobs /\ BatchIds \subseteq Jobs
      /\ cursor \in 1..(Batches + 1) /\ cursor <= Batches /\ cursor \in BatchIds
      /\ "indexer" \in Callers
  BY <1>1, SMT DEF Assumptions, EmbeddingAssumption, BatchIds, LoopOK, LoopTyped, Callers
<1>3. j = cursor
  BY <1>1 DEF LoopOK, LoopTyped
<1>4. /\ RowsFor(j) = Expected(cursor) \/ RowsFor(j) \in Seq(Nat \X Nat)
      /\ \/ RowsFor(j) = Expected(cursor)
         \/ kind = "remote" /\ Surplus(RowsFor(j)) /\ InTurn(RowsFor(j))
  <2>1. CASE kind = "local"
    BY <1>3, <2>1 DEF RowsFor
  <2>2. CASE kind = "remote"
    <3>1. RowsFor(j) = rows[cursor] /\ result[cursor] = "rows"
      BY <1>1, <1>3, <2>2 DEF RowsFor
    <3>2. Len(rows[cursor]) = Len(Expected(cursor)) /\ cursor \in Calls
      BY <1>1, <1>2, <3>1
    <3>3. rows[cursor] \in Seq(Nat \X Nat)
      BY <3>2 DEF RemoteOK, RemoteTyped
    <3> QED BY <2>2, <3>1, <3>2, <3>3, CallRows DEF Assumptions
  <2> QED BY <2>1, <2>2 DEF LoopOK, LoopTyped
<1>5. e = [batch |-> cursor, of |-> cursor, rows |-> RowsFor(j)]
  BY <1>3, Zenon
<1> DEFINE Sound(r) == /\ Len(r) = Len(Expected(cursor))
                       /\ \/ r = Expected(cursor)
                          \/ kind = "remote" /\ Surplus(r) /\ InTurn(r)
<1>6. e \in Batch /\ e.batch = cursor /\ e.of = cursor /\ Sound(e.rows)
  <2>1. e.batch = cursor /\ e.of = cursor /\ e.rows = RowsFor(j)
    BY <1>5
  <2>2. Sound(RowsFor(j))
    BY <1>1, <1>4
  <2>3. RowsFor(j) \in {Expected(k) : k \in BatchIds} \cup Seq(Nat \X Nat)
    BY <1>2, <1>4
  <2>4. e \in Batch
    BY <1>2, <1>5, <2>3 DEF Batch
  <2> HIDE DEF Sound, e, j
  <2> QED BY <2>1, <2>2, <2>4
<1> HIDE DEF e, j
<1>7. taken \in Seq(Batch) /\ Len(taken) = cursor - 1
  BY DEF LoopOK, LoopTyped
<1>8. /\ taken' \in Seq(Batch) /\ Len(taken') = cursor /\ DOMAIN taken' = 1..cursor
      /\ \A k \in 1..(cursor - 1) : taken'[k] = taken[k]
      /\ taken'[cursor] = e
  <2>1. /\ taken' \in Seq(Batch) /\ Len(taken') = cursor - 1 + 1
        /\ \A k \in 1..(cursor - 1) : taken'[k] = taken[k]
        /\ taken'[cursor - 1 + 1] = e
    BY <1>1, <1>6, <1>7, AppendProperties
  <2>2. cursor - 1 + 1 = cursor
    BY <1>2, SMT
  <2> QED BY <2>1, <2>2, LenProperties
<1>9. RowsAligned'
  <2> SUFFICES ASSUME NEW k \in 1..cursor
               PROVE  /\ taken'[k].batch = k /\ taken'[k].of = k
                      /\ Len(taken'[k].rows) = Len(Expected(k))
                      /\ \/ taken'[k].rows = Expected(k)
                         \/ kind = "remote" /\ Surplus(taken'[k].rows) /\ InTurn(taken'[k].rows)
    BY <1>1, <1>8 DEF RowsAligned
  <2>1. CASE k = cursor
    BY <1>6, <1>8, <2>1, Zenon
  <2>2. CASE k # cursor
    <3>1. k \in 1..(cursor - 1)
      BY <1>2, <2>2, SMT
    <3>2. DOMAIN taken = 1..(cursor - 1)
      BY <1>7, LenProperties
    <3> QED BY <1>8, <3>1, <3>2 DEF LoopOK, RowsAligned
  <2> QED BY <2>1, <2>2
<1>10. LoopTyped'
  <2>1. cursor' \in 1..(Batches + 1)
    BY <1>1, <1>2, SMT
  <2>2. pc' \in [Callers -> {"idle", "top", "next", "await"} \cup Ends]
    BY <1>1 DEF LoopOK, LoopTyped
  <2> QED BY <1>1, <1>8, <2>1, <2>2 DEF LoopOK, LoopTyped
<1>11. pc'["indexer"] = "top"
  BY <1>1, <1>2 DEF LoopOK, LoopTyped
<1>12. cursor = cursor' - 1
  BY <1>1, <1>2, SMT
<1>13. kind' = "local" => pending' \in {NoJob, cursor'}
  BY <1>1 DEF LoopOK
<1> QED BY <1>8, <1>9, <1>10, <1>11, <1>12, <1>13 DEF LoopOK

LEMMA LoopStays ==
  ASSUME Assumptions, LoopOK, RemoteOK, [Next]_vars
  PROVE  LoopOK'
<1>0. /\ Batches \in Nat /\ BatchIds = 1..Batches /\ Jobs = BatchIds \cup Queries
      /\ cursor \in 1..(Batches + 1) /\ "indexer" \in Callers /\ "indexer" \notin Queries
      /\ Queries \subseteq Callers
      /\ NoJob \notin Jobs /\ DOMAIN pc = Callers
  BY DEF Assumptions, EmbeddingAssumption, EmbedWorkerAssumption, BatchIds, LoopOK, LoopTyped, Callers
<1>1. cursor <= Batches => cursor \in Jobs /\ cursor # NoJob
  BY <1>0, SMT
<1>2. cursor < Batches => cursor + 1 \in Jobs
  BY <1>0, SMT
\* The batches taken and the kind of engine stay.
<1>3. ASSUME UNCHANGED <<kind, cursor, taken>>,
             pc' \in [Callers -> {"idle", "top", "next", "await"} \cup Ends],
             {pending', ahead'} \subseteq Jobs \cup {NoJob},
             pc'["indexer"] \in {"next", "await"} => cursor <= Batches,
             pc'["indexer"] = "next" => kind = "local",
             kind = "local" =>
                /\ pending' \in {NoJob, cursor}
                /\ pc'["indexer"] \in {"next", "await"} => pending' = cursor
                /\ pc'["indexer"] = "await" => ahead' \in {NoJob, cursor + 1}
      PROVE  LoopOK'
  <2>1. RowsAligned'
    BY <1>3 DEF LoopOK, RowsAligned
  <2>2. LoopTyped'
    BY <1>3 DEF LoopOK, LoopTyped
  <2> QED BY <1>3, <2>1, <2>2 DEF LoopOK
\* A caller goes on, and nothing else of the loop changes.
<1>4. ASSUME UNCHANGED <<kind, loop>>, NEW c \in Callers,
             NEW to \in {"idle", "top", "next", "await"} \cup Ends, Step(c, to),
             c = "indexer" => \/ to \in {"top"} \cup Ends
                              \/ to = "await" /\ kind = "remote" /\ cursor <= Batches
      PROVE  LoopOK'
  <2>1. UNCHANGED <<cursor, pending, ahead, taken>>
    BY <1>4 DEF loop
  <2>2. pc' \in [Callers -> {"idle", "top", "next", "await"} \cup Ends]
    BY <1>4 DEF LoopOK, LoopTyped, Step
  <2>3. pc'["indexer"] = IF c = "indexer" THEN to ELSE pc["indexer"]
    BY <1>0, <1>4 DEF Step
  <2> QED BY <1>3, <1>4, <2>1, <2>2, <2>3 DEF LoopOK, LoopTyped, Ends
<1>5. CASE Begin \/ LoopEnds \/ Pause \/ BatchFails \/ Abort
  <2>1. UNCHANGED <<kind, loop>> /\ \E to \in {"top"} \cup Ends : Step("indexer", to)
    BY <1>5, Zenon DEF Begin, LoopEnds, Pause, BatchFails, Abort, Ends
  <2> QED BY <1>0, <1>4, <2>1
<1>6. CASE SubmitCurrent
  <2>1. /\ kind = "local" /\ cursor <= Batches /\ UNCHANGED <<kind, cursor, ahead, taken>>
        /\ pending' = cursor /\ \E to \in {"next", "failed"} : Step("indexer", to)
    BY <1>6 DEF SubmitCurrent, LoopOK
  <2>2. PICK to \in {"next", "failed"} : pc' = [pc EXCEPT !["indexer"] = to]
    BY <2>1 DEF Step
  <2>3. /\ pc' \in [Callers -> {"idle", "top", "next", "await"} \cup Ends]
        /\ pc'["indexer"] = to
    BY <1>0, <2>2 DEF LoopOK, LoopTyped, Ends
  <2> QED BY <1>1, <1>3, <2>1, <2>3 DEF LoopOK, LoopTyped
<1>7. CASE SubmitAhead
  <2>1. /\ kind = "local" /\ cursor <= Batches /\ UNCHANGED <<kind, cursor, pending, taken>>
        /\ pending = cursor
        /\ \/ ahead' = NoJob
           \/ cursor < Batches /\ ahead' = cursor + 1
        /\ \E to \in {"await", "failed"} : Step("indexer", to)
    BY <1>7 DEF SubmitAhead, LoopOK
  <2>2. PICK to \in {"await", "failed"} : pc' = [pc EXCEPT !["indexer"] = to]
    BY <2>1 DEF Step
  <2>3. /\ pc' \in [Callers -> {"idle", "top", "next", "await"} \cup Ends]
        /\ pc'["indexer"] = to
    BY <1>0, <2>2 DEF LoopOK, LoopTyped, Ends
  <2> QED BY <1>1, <1>2, <1>3, <2>1, <2>3 DEF LoopOK, LoopTyped
<1>8. CASE CallRemote
  <2>1. /\ UNCHANGED <<kind, loop>> /\ Step("indexer", "await") /\ kind = "remote"
        /\ cursor <= Batches
    BY <1>8 DEF CallRemote
  <2> QED BY <1>0, <1>4, <2>1
<1>9. CASE TakeBatch
  BY <1>9, BatchTaken
<1>10. ASSUME NEW q \in Queries, AskQuery(q) \/ AnswerQuery(q) PROVE LoopOK'
  <2>1. /\ UNCHANGED <<kind, loop>>
        /\ \E to \in {"await"} \cup Ends : Step(q, to)
    BY <1>10 DEF AskQuery, AnswerQuery, Ends
  <2> QED BY <1>0, <1>4, <2>1
<1>11. CASE UNCHANGED <<kind, pc, loop>>
  BY <1>3, <1>11 DEF loop, LoopOK, LoopTyped
<1> QED
  BY <1>5, <1>6, <1>7, <1>8, <1>9, <1>10, <1>11
  DEF Next, CallerStep, Panic, TokTurn, GpuTurn, ClientTurn, ProviderTurn, Shutdown, vars

-----------------------------------------------------------------------------
(* Theorems *)

IInv == LineOK /\ RemoteOK /\ LoopOK

LEMMA Begins ==
  ASSUME Assumptions, Init
  PROVE  IInv /\ Service!Init
<1>1. /\ jobs = <<>> /\ encoded = <<>> /\ encoding = NoJob /\ running = NoJob
      /\ reply = [j \in Jobs |-> "none"] /\ <<>> \in Seq(Jobs)
  BY EmptySeq DEF Init, WorkerInit
<1>2. Line = <<>>
  BY <1>1, ConcatEmptySeq DEF Line, InHand
<1>3. LineOK
  <2>1. Distinct(Line) /\ InSeq(Line) = {}
    BY <1>2 DEF Distinct, InSeq
  <2> QED BY <1>1, <2>1 DEF LineOK, LineTyped, Replies
<1>4. RemoteOK
  BY RemoteBegins DEF Assumptions, Init
<1>5. LoopOK
  <2>1. /\ kind \in {"local", "remote"} /\ pc = [c \in Callers |-> "idle"] /\ cursor = 1
        /\ pending = NoJob /\ ahead = NoJob /\ taken = <<>>
    BY DEF Init
  <2>2. 1 \in 1..(Batches + 1) /\ <<>> \in Seq(Batch) /\ Len(<<>>) = 1 - 1 /\ DOMAIN <<>> = {}
    BY EmptySeq, SMT DEF Assumptions, EmbeddingAssumption
  <2>3. pc["indexer"] = "idle"
    BY <2>1 DEF Callers
  <2> QED BY <2>1, <2>2, <2>3, Zenon DEF LoopOK, LoopTyped, RowsAligned
<1>6. [j \in Jobs |-> Answer(reply[j])] = [j \in Jobs |-> "none"]
  BY <1>1, Zenon DEF Answer
<1> QED BY <1>2, <1>3, <1>4, <1>5, <1>6 DEF IInv, Service!Init

LEMMA Goes ==
  ASSUME Assumptions, IInv, [Next]_vars
  PROVE  IInv' /\ [Service!Next]_<<Line, [j \in Jobs |-> Answer(reply[j])]>>
<1>1. WorkerNext /\ RemoteNext
  BY Parts DEF IInv
<1>2. LoopOK'
  BY LoopStays DEF IInv
<1>3. RemoteOK'
  BY <1>1, RemoteStays DEF IInv, Assumptions
<1>4. LineOK' /\ [Service!Next]_<<Line, [j \in Jobs |-> Answer(reply[j])]>>
  BY <1>1, LineStep DEF IInv, Assumptions
<1> QED BY <1>2, <1>3, <1>4 DEF IInv

\* The variables of Embedding are of their types; the window of a call is never wider than
\* the provider allows, and no request is tried more often than MAX_RETRIES allows.
THEOREM TypeCorrect == ASSUME Assumptions PROVE Spec => []TypeOK
<1>1. ASSUME IInv PROVE TypeOK
  <2>1. \A c \in Calls : \A i \in DOMAIN window[c] : window[c][i].attempt <= MaxRetries
    <3> SUFFICES ASSUME NEW c \in Calls, NEW i \in DOMAIN window[c]
                 PROVE  window[c][i].attempt <= MaxRetries
      OBVIOUS
    <3>1. window[c][i] \in Future
      BY <1>1, LenProperties, ElementOfSeq DEF IInv, RemoteOK, RemoteTyped
    <3>2. window[c][i].attempt \in 0..MaxRetries
      BY <3>1 DEF Future
    <3> QED BY <3>2, SMT DEF Assumptions, RemoteEmbedAssumption
  <2>2. \A c \in Calls : Len(window[c]) <= MaxConcurrency
    BY <1>1 DEF IInv, RemoteOK, CallOK
  <2> QED BY <1>1, <2>1, <2>2 DEF IInv, LineOK, LineTyped, RemoteOK, RemoteTyped,
            LoopOK, LoopTyped, TypeOK
<1> QED BY <1>1, Begins, Goes, PTL DEF Spec

\* What the loop stores for a batch are as many rows as it has texts, those of that batch's
\* texts, in their order, for a local engine with its batch ahead and for a remote one whose
\* answers come in any order, late, twice asked for, or short of rows; where the provider
\* answered with rows too many, the rows of the batch's sub-batches in their order.
THEOREM RowsInPlace == ASSUME Assumptions PROVE Spec => []RowsAligned
<1>1. IInv => RowsAligned
  BY DEF IInv, LoopOK
<1> QED BY <1>1, Begins, Goes, PTL DEF Spec

\* The two threads, their channels and the reply senders implement EmbedService: whatever
\* fails, jobs are answered once at most and served in the order they were submitted in.
THEOREM EngineServes == ASSUME Assumptions PROVE Spec => ServesInOrder
<1> QED BY Begins, Goes, PTL DEF Spec, ServesInOrder, Service!Spec

=============================================================================
