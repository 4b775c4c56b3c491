----------------------------- MODULE TextProofs -----------------------------
(***************************************************************************)
(* Proofs about the text pipeline: the scopes and the calls of a walk, the *)
(* names of a symbol index, the page of a search and its vector leg, the   *)
(* files that count and the chunks of their symbols.                       *)
(*                                                                         *)
(* Recursive functions are unfolded by Recursion and followed by NatSet,   *)
(* which stand in for the induction theorems of the library.               *)
(***************************************************************************)
EXTENDS Text, FiniteSetTheorems, SequenceTheorems, TLAPS

LEMMA Least ==
    ASSUME NEW Y \in SUBSET Nat, Y # {}
    PROVE  \E x \in Y : \A y \in Y : x <= y
<1> SUFFICES ASSUME \A x \in Y : \E y \in Y : y < x PROVE FALSE
  OBVIOUS
<1> DEFINE L == {y \in Nat : \A t \in Y : y < t}
           up == [y \in L |-> y + 1]
<1>1. PICK x \in Y : TRUE
  OBVIOUS
<1>2. IsFiniteSet(L)
  <2>1. L \in SUBSET Nat /\ \A y \in L : y <= x
    OBVIOUS
  <2> HIDE DEF L
  <2> QED BY <1>1, <2>1, FS_BoundedSetOfNaturals
<1>3. 0 \in L
  OBVIOUS
<1>4. \A y \in L : y + 1 \in L \ {0}
  <2> SUFFICES ASSUME NEW y \in L PROVE \A t \in Y : y + 1 < t
    OBVIOUS
  <2> QED OBVIOUS
<1>5. up \in Injection(L, L \ {0})
  <2>1. up \in [L -> L \ {0}]
    BY <1>4
  <2>2. \A a, b \in L : up[a] = up[b] => a = b
    OBVIOUS
  <2> HIDE DEF up, L
  <2> QED BY <2>1, <2>2 DEF Injection, IsInjective
<1> HIDE DEF up, L
<1>6. Cardinality(L \ {0}) = Cardinality(L) - 1 /\ IsFiniteSet(L \ {0})
  BY <1>2, <1>3, FS_RemoveElement
<1>7. Cardinality(L) <= Cardinality(L \ {0})
  BY <1>2, <1>5, <1>6, FS_Injection
<1> QED BY <1>2, <1>6, <1>7, FS_CardinalityType

\* Induction: a set with 0 and with each successor has every number.
LEMMA NatSet ==
    ASSUME NEW Y \in SUBSET Nat, 0 \in Y, \A n \in Y : n + 1 \in Y
    PROVE  Y = Nat
<1> SUFFICES ASSUME Nat \ Y # {} PROVE FALSE
  OBVIOUS
<1>1. PICK x \in Nat \ Y : \A y \in Nat \ Y : x <= y
  BY Least
<1>2. x - 1 \in Nat /\ x - 1 \notin Nat \ Y
  BY <1>1
<1> QED BY <1>1, <1>2

\* Course-of-values induction, for nodes that are numbered after their parents.
LEMMA CourseOfValues ==
    ASSUME NEW N \in Nat, NEW Y, \A n \in 0..N : (\A m \in 0..N : m < n => m \in Y) => n \in Y
    PROVE  0..N \subseteq Y
<1> DEFINE U == {n \in 0..N : n \notin Y}
<1> SUFFICES ASSUME U # {} PROVE FALSE
  OBVIOUS
<1>1. PICK x \in U : \A y \in U : x <= y
  <2>1. U \in SUBSET Nat
    OBVIOUS
  <2> HIDE DEF U
  <2> QED BY <2>1, Least
<1> QED BY <1>1

-----------------------------------------------------------------------------
(* The walk of a tree and its scopes (Walker).                            *)

\* The shape of a tree
Tree ==
    /\ \E k \in Nat : W!Nodes = 1..(k + 1) /\ above \in [1..(k + 1) -> 0..k]
    /\ above[1] = 0
    /\ \A n \in W!Nodes \ {1} : above[n] \in 1..(n - 1)
    /\ \A n \in W!Nodes \ {1} : above[n] \in {n - 1} \cup W!ToSet(W!Ancestors(n - 1))

\* The recursion of Path is along "above", which leads to a smaller number.
LEMMA PathIs ==
    ASSUME Tree, NEW Z
    PROVE  W!Path(Z) = [n \in {0} \cup W!Nodes |->
              IF n = 0 THEN <<>>
              ELSE IF n \in Z THEN Append(W!Path(Z)[above[n]], n) ELSE W!Path(Z)[above[n]]]
<1> DEFINE Step(f, n) == IF n = 0 THEN <<>>
                         ELSE IF n \in Z THEN Append(f[above[n]], n) ELSE f[above[n]]
           Upto(k) == k \in 0..Len(above) => \E f : f = [n \in 0..k |-> Step(f, n)]
           Y == {k \in Nat : Upto(k)}
<1>1. PICK k0 \in Nat : /\ W!Nodes = 1..(k0 + 1) /\ above \in [1..(k0 + 1) -> 0..k0]
                        /\ above[1] = 0 /\ \A n \in W!Nodes \ {1} : above[n] \in 1..(n - 1)
  BY DEF Tree
<1>2. /\ Len(above) = k0 + 1 /\ {0} \cup W!Nodes = 0..(k0 + 1)
      /\ \A n \in 1..(k0 + 1) : above[n] \in 0..(n - 1)
  BY <1>1
<1>3. Upto(0)
  <2> DEFINE f0 == [n \in 0..0 |-> <<>>]
  <2>1. f0 = [n \in 0..0 |-> Step(f0, n)]
    OBVIOUS
  <2> QED BY <2>1
<1>4. ASSUME NEW k \in Nat, Upto(k) PROVE Upto(k + 1)
  <2> SUFFICES ASSUME k + 1 \in 0..Len(above)
               PROVE  \E f : f = [n \in 0..(k + 1) |-> Step(f, n)]
    OBVIOUS
  <2>1. PICK f : f = [n \in 0..k |-> Step(f, n)]
    <3>1. k \in 0..Len(above)
      BY <1>2
    <3> HIDE DEF Step
    <3> QED BY <1>4, <3>1
  <2> DEFINE g == [n \in 0..(k + 1) |-> IF n = k + 1 THEN Step(f, n) ELSE f[n]]
  <2>2. ASSUME NEW n \in 0..(k + 1) PROVE g[n] = Step(g, n)
    <3>1. n # 0 => above[n] \in 0..k /\ above[n] # k + 1 /\ above[n] \in 0..(k + 1)
      BY <1>2
    <3>2. n # 0 => g[above[n]] = f[above[n]]
      BY <3>1
    <3>3. Step(g, n) = Step(f, n)
      BY <3>2
    <3>4. n # k + 1 => f[n] = Step(f, n)
      <4>1. ASSUME n # k + 1 PROVE n \in 0..k
        BY <4>1
      <4> HIDE DEF Step
      <4> QED BY <2>1, <4>1
    <3> HIDE DEF Step
    <3> QED BY <3>3, <3>4
  <2>3. g = [n \in 0..(k + 1) |-> Step(g, n)]
    <3>1. g = [n \in 0..(k + 1) |-> g[n]]
      OBVIOUS
    <3> HIDE DEF Step, g
    <3> QED BY <2>2, <3>1
  <2> HIDE DEF g, Step
  <2> QED BY <2>3
<1>5. Y = Nat
  <2> HIDE DEF Upto
  <2>1. 0 \in Y /\ \A n \in Y : n + 1 \in Y
    BY <1>3, <1>4
  <2> HIDE DEF Y
  <2> QED BY <2>1, NatSet DEF Y
<1>6. \E f : f = [n \in {0} \cup W!Nodes |-> Step(f, n)]
  <2> HIDE DEF Step
  <2>1. k0 + 1 \in Nat
    OBVIOUS
  <2>2. Upto(k0 + 1)
    BY <1>5, <2>1
  <2>3. k0 + 1 \in 0..Len(above)
    BY <1>2
  <2> QED BY <1>2, <2>2, <2>3
<1> QED BY <1>6 DEF W!Path

LEMMA TreeIs ==
    ASSUME Tree
    PROVE  /\ Len(above) \in Nat \ {0} /\ W!Nodes = 1..Len(above)
           /\ {0} \cup W!Nodes = 0..Len(above)
           /\ above[1] = 0
           /\ \A n \in W!Nodes : above[n] \in 0..(n - 1) /\ (n # 1 => above[n] # 0)
  BY DEF Tree

LEMMA PathStep ==
    ASSUME Tree, NEW Z
    PROVE  /\ W!Path(Z)[0] = <<>>
           /\ \A n \in W!Nodes : n \in Z => W!Path(Z)[n] = Append(W!Path(Z)[above[n]], n)
           /\ \A n \in W!Nodes : n \notin Z => W!Path(Z)[n] = W!Path(Z)[above[n]]
<1>1. 0 \notin W!Nodes
  BY TreeIs
<1> DEFINE Q == W!Path(Z)
<1>2. Q = [n \in {0} \cup W!Nodes |-> IF n = 0 THEN <<>> ELSE IF n \in Z THEN Append(Q[above[n]], n) ELSE Q[above[n]]]
  BY PathIs
<1> HIDE DEF Q
<1>3. /\ Q[0] = <<>>
      /\ \A n \in W!Nodes : n \in Z => Q[n] = Append(Q[above[n]], n)
      /\ \A n \in W!Nodes : n \notin Z => Q[n] = Q[above[n]]
  BY <1>1, <1>2
<1> QED BY <1>3 DEF Q

LEMMA SetOfAppended ==
    ASSUME NEW A, NEW s \in Seq(A), NEW a \in A
    PROVE  Append(s, a) \in Seq(A) /\ W!ToSet(Append(s, a)) = {a} \cup W!ToSet(s)
<1>1. /\ Append(s, a) \in Seq(A)
      /\ Len(Append(s, a)) = Len(s) + 1 /\ DOMAIN Append(s, a) = 1..(Len(s) + 1)
      /\ DOMAIN s = 1..Len(s) /\ Len(s) \in Nat
      /\ \A i \in 1..Len(s) : Append(s, a)[i] = s[i]
      /\ Append(s, a)[Len(s) + 1] = a
  OBVIOUS
<1>2. 1..(Len(s) + 1) = {Len(s) + 1} \cup 1..Len(s)
  BY <1>1
<1> QED BY <1>1, <1>2 DEF W!ToSet

\* What lies on a path is a sequence of nodes.
LEMMA PathType ==
    ASSUME Tree, NEW Z
    PROVE  \A n \in {0} \cup W!Nodes : W!Path(Z)[n] \in Seq(W!Nodes)
<1> DEFINE Y == {n \in 0..Len(above) : W!Path(Z)[n] \in Seq(W!Nodes)}
<1>1. ASSUME NEW n \in 0..Len(above), \A m \in 0..Len(above) : m < n => m \in Y PROVE n \in Y
  <2>1. CASE n = 0
    <3>1. W!Path(Z)[n] = <<>> /\ <<>> \in Seq(W!Nodes)
      BY <2>1, PathStep
    <3> QED BY <3>1
  <2>2. CASE n # 0
    <3>1. above[n] \in 0..Len(above) /\ above[n] < n /\ n \in W!Nodes
      BY <2>2, TreeIs
    <3>2. W!Path(Z)[above[n]] \in Seq(W!Nodes)
      BY <1>1, <3>1
    <3>3. Append(W!Path(Z)[above[n]], n) \in Seq(W!Nodes)
      BY <3>1, <3>2, SetOfAppended
    <3> QED BY <3>1, <3>2, <3>3, PathStep
  <2> QED BY <2>1, <2>2
<1> HIDE DEF Y
<1>2. 0..Len(above) \subseteq Y
  BY <1>1, TreeIs, CourseOfValues
<1> QED BY <1>2, TreeIs DEF Y

\* A node and its ancestors.
Chain(n) == W!ToSet(W!Path(W!Nodes)[n])

LEMMA ChainStep ==
    ASSUME Tree
    PROVE  /\ Chain(0) = {}
           /\ \A n \in W!Nodes : Chain(n) = {n} \cup Chain(above[n])
<1>1. Chain(0) = {}
  BY PathStep DEF Chain, W!ToSet
<1>2. ASSUME NEW n \in W!Nodes PROVE Chain(n) = {n} \cup Chain(above[n])
  <2>1. above[n] \in {0} \cup W!Nodes
    BY TreeIs
  <2>2. W!Path(W!Nodes)[above[n]] \in Seq(W!Nodes)
    BY <2>1, PathType
  <2>3. W!Path(W!Nodes)[n] = Append(W!Path(W!Nodes)[above[n]], n)
    BY PathStep
  <2> QED BY <2>2, <2>3, SetOfAppended DEF Chain
<1> QED BY <1>1, <1>2

LEMMA ChainUp ==
    ASSUME Tree
    PROVE  \A n \in 0..Len(above) : Chain(n) \subseteq 1..n
<1> DEFINE Y == {n \in 0..Len(above) : Chain(n) \subseteq 1..n}
<1>1. ASSUME NEW n \in 0..Len(above), \A m \in 0..Len(above) : m < n => m \in Y PROVE n \in Y
  <2>1. CASE n = 0
    BY <2>1, ChainStep
  <2>2. CASE n # 0
    <3>1. above[n] \in 0..Len(above) /\ above[n] < n /\ n \in W!Nodes
      BY <2>2, TreeIs
    <3>2. Chain(above[n]) \subseteq 1..above[n]
      BY <1>1, <3>1
    <3>3. 1..above[n] \subseteq 1..n /\ n \in 1..n
      BY <2>2, <3>1, TreeIs
    <3> QED BY <3>1, <3>2, <3>3, ChainStep
  <2> QED BY <2>1, <2>2
<1> HIDE DEF Y
<1>2. 0..Len(above) \subseteq Y
  BY <1>1, TreeIs, CourseOfValues
<1> QED BY <1>2 DEF Y

\* An ancestor's ancestor is one.
LEMMA ChainOfChain ==
    ASSUME Tree, NEW k \in 0..Len(above), NEW m \in Chain(k)
    PROVE  Chain(m) \subseteq Chain(k) /\ m \in W!Nodes /\ m <= k
<1> DEFINE Y == {n \in 0..Len(above) : \A i \in Chain(n) : Chain(i) \subseteq Chain(n)}
<1>1. ASSUME NEW n \in 0..Len(above), \A i \in 0..Len(above) : i < n => i \in Y PROVE n \in Y
  <2>1. CASE n = 0
    BY <2>1, ChainStep
  <2>2. CASE n # 0
    <3>1. above[n] \in 0..Len(above) /\ above[n] < n /\ n \in W!Nodes
      BY <2>2, TreeIs
    <3>2. \A i \in Chain(above[n]) : Chain(i) \subseteq Chain(above[n])
      BY <1>1, <3>1
    <3> QED BY <3>1, <3>2, ChainStep
  <2> QED BY <2>1, <2>2
<1> HIDE DEF Y
<1>2. 0..Len(above) \subseteq Y
  BY <1>1, TreeIs, CourseOfValues
<1>3. m \in 1..k
  BY ChainUp
<1> QED BY <1>2, <1>3, TreeIs DEF Y

\* A subtree is numbered without a gap: whatever lies between a node and one below it
\* is below it too.
LEMMA Contiguous ==
    ASSUME Tree, NEW k \in 0..Len(above), NEW n \in Chain(k), NEW m \in n..k
    PROVE  n \in Chain(m)
<1> DEFINE Y == {j \in 0..Len(above) : \A i \in Chain(j) : \A l \in i..j : i \in Chain(l)}
<1>1. ASSUME NEW j \in 0..Len(above), \A i \in 0..Len(above) : i < j => i \in Y PROVE j \in Y
  <2>1. CASE j = 0
    BY <2>1, ChainStep
  <2>2. CASE j # 0
    <3> SUFFICES ASSUME NEW i \in Chain(j), NEW l \in i..j, l # j PROVE i \in Chain(l)
      OBVIOUS
    <3>1. above[j] \in 0..Len(above) /\ above[j] < j /\ j \in W!Nodes /\ j - 1 \in 0..Len(above)
      BY <2>2, TreeIs
    <3>2. i \in 1..j
      BY ChainUp
    <3>3. i # j /\ l \in i..(j - 1) /\ j # 1
      BY <3>2
    <3>4. i \in Chain(above[j])
      BY <3>1, <3>3, ChainStep
    <3>5. above[j] \in {j - 1} \cup W!ToSet(W!Ancestors(j - 1))
      BY <3>1, <3>3 DEF Tree
    <3>6. j - 1 \in W!Nodes
      BY <3>1, <3>3, TreeIs
    <3>7. Chain(j - 1) = {j - 1} \cup W!ToSet(W!Ancestors(j - 1))
      BY <3>6, ChainStep DEF Chain, W!Ancestors
    <3>8. i \in Chain(j - 1)
      BY <3>1, <3>4, <3>5, <3>7, ChainOfChain
    <3>9. j - 1 \in Y
      BY <1>1, <3>1
    <3> QED BY <3>3, <3>8, <3>9
  <2> QED BY <2>1, <2>2
<1> HIDE DEF Y
<1>2. 0..Len(above) \subseteq Y
  BY <1>1, TreeIs, CourseOfValues
<1> QED BY <1>2 DEF Y

\* A path has the nodes of its set among a node and its ancestors.
LEMMA PathSet ==
    ASSUME Tree, NEW Z
    PROVE  \A n \in {0} \cup W!Nodes : W!ToSet(W!Path(Z)[n]) = Z \cap Chain(n)
<1> DEFINE Y == {n \in 0..Len(above) : W!ToSet(W!Path(Z)[n]) = Z \cap Chain(n)}
<1>1. ASSUME NEW n \in 0..Len(above), \A m \in 0..Len(above) : m < n => m \in Y PROVE n \in Y
  <2>1. CASE n = 0
    BY <2>1, PathStep, ChainStep DEF W!ToSet
  <2>2. CASE n # 0
    <3>1. above[n] \in 0..Len(above) /\ above[n] < n /\ n \in W!Nodes
      BY <2>2, TreeIs
    <3>2. W!ToSet(W!Path(Z)[above[n]]) = Z \cap Chain(above[n])
      BY <1>1, <3>1
    <3>3. W!Path(Z)[above[n]] \in Seq(W!Nodes)
      BY <3>1, TreeIs, PathType
    <3>5. Chain(n) = {n} \cup Chain(above[n])
      BY <3>1, ChainStep
    <3>6. CASE n \in Z
      <4>1. W!Path(Z)[n] = Append(W!Path(Z)[above[n]], n)
        BY <3>1, <3>6, PathStep
      <4>2. W!ToSet(W!Path(Z)[n]) = {n} \cup W!ToSet(W!Path(Z)[above[n]])
        BY <3>1, <3>3, <4>1, SetOfAppended
      <4> QED BY <3>2, <3>5, <3>6, <4>2
    <3>7. CASE n \notin Z
      BY <3>1, <3>2, <3>5, <3>7, PathStep
    <3> QED BY <3>6, <3>7
  <2> QED BY <2>1, <2>2
<1> HIDE DEF Y
<1>2. 0..Len(above) \subseteq Y
  BY <1>1, TreeIs, CourseOfValues
<1> QED BY <1>2, TreeIs DEF Y

\* Sets that agree on a node and its ancestors have the same path to it.
LEMMA PathSame ==
    ASSUME Tree, NEW Z, NEW Z2, NEW k \in {0} \cup W!Nodes,
           \A a \in Chain(k) : a \in Z <=> a \in Z2
    PROVE  W!Path(Z)[k] = W!Path(Z2)[k]
<1> DEFINE Agree(n) == \A a \in Chain(n) : a \in Z <=> a \in Z2
           Y == {n \in 0..Len(above) : Agree(n) => W!Path(Z)[n] = W!Path(Z2)[n]}
<1>1. ASSUME NEW n \in 0..Len(above), \A m \in 0..Len(above) : m < n => m \in Y PROVE n \in Y
  <2>1. CASE n = 0
    BY <2>1, PathStep
  <2>2. CASE n # 0
    <3> SUFFICES ASSUME Agree(n) PROVE W!Path(Z)[n] = W!Path(Z2)[n]
      OBVIOUS
    <3>1. above[n] \in 0..Len(above) /\ above[n] < n /\ n \in W!Nodes
      BY <2>2, TreeIs
    <3>2. Chain(n) = {n} \cup Chain(above[n])
      BY <3>1, ChainStep
    <3>3. Agree(above[n]) /\ (n \in Z <=> n \in Z2)
      BY <3>2
    <3>4. W!Path(Z)[above[n]] = W!Path(Z2)[above[n]]
      BY <1>1, <3>1, <3>3
    <3>5. CASE n \in Z
      <4>1. W!Path(Z)[n] = Append(W!Path(Z)[above[n]], n)
        BY <3>1, <3>5, PathStep
      <4>2. W!Path(Z2)[n] = Append(W!Path(Z2)[above[n]], n)
        BY <3>1, <3>3, <3>5, PathStep
      <4> QED BY <3>4, <4>1, <4>2
    <3>6. CASE n \notin Z
      BY <3>1, <3>3, <3>4, <3>6, PathStep
    <3> QED BY <3>5, <3>6
  <2> QED BY <2>1, <2>2
<1> HIDE DEF Y
<1>2. 0..Len(above) \subseteq Y
  BY <1>1, TreeIs, CourseOfValues
<1> QED BY <1>2, TreeIs DEF Y

\* The first child is the next node.
LEMMA FirstChild ==
    ASSUME Tree, NEW n \in W!Nodes, W!Children(n) # {}
    PROVE  n + 1 \in W!Nodes /\ above[n + 1] = n
<1>1. PICK m \in W!Nodes : above[m] = n
  BY DEF W!Children
<1>2. m \in 1..Len(above) /\ n \in 1..(m - 1) /\ n + 1 \in W!Nodes /\ n + 1 \in n..m
  BY <1>1, TreeIs
<1>3. n \in Chain(m)
  BY <1>1, ChainStep
<1>4. n \in Chain(n + 1)
  BY <1>2, <1>3, Contiguous
<1>5. n \in Chain(above[n + 1])
  BY <1>2, <1>4, ChainStep, TreeIs
<1>6. above[n + 1] \in 0..n
  BY <1>2, TreeIs
<1>7. Chain(above[n + 1]) \subseteq 1..above[n + 1]
  <2>1. Len(above) \in Nat /\ n + 1 \in 1..Len(above) /\ n \in Nat
    BY <1>2, TreeIs
  <2>2. above[n + 1] \in 0..Len(above)
    BY <1>6, <2>1
  <2> QED BY Zenon, <2>2, ChainUp
<1> QED BY <1>2, <1>5, <1>6, <1>7, TreeIs

-----------------------------------------------------------------------------
(* Depths, calls and names (Walker).                                      *)

\* How many of a sequence are in K.
Depth(s, K) == Cardinality({i \in 1..Len(s) : s[i] \in K})

LEMMA DepthFinite ==
    ASSUME NEW A, NEW s \in Seq(A), NEW K
    PROVE  Depth(s, K) \in Nat /\ IsFiniteSet({i \in 1..Len(s) : s[i] \in K})
<1> DEFINE at0 == {i \in 1..Len(s) : s[i] \in K}
<1>1. at0 \in SUBSET (1..Len(s)) /\ IsFiniteSet(1..Len(s))
  BY FS_Interval
<1> HIDE DEF at0
<1>2. IsFiniteSet(at0) /\ Cardinality(at0) \in Nat
  BY <1>1, FS_Subset, FS_CardinalityType
<1> QED BY <1>2 DEF at0, Depth

LEMMA Deeper ==
    ASSUME NEW A, NEW s \in Seq(A), NEW a \in A, NEW K
    PROVE  Depth(Append(s, a), K) = Depth(s, K) + (IF a \in K THEN 1 ELSE 0)
<1> DEFINE D1 == {i \in 1..Len(s) : s[i] \in K}
           D2 == {i \in 1..Len(Append(s, a)) : Append(s, a)[i] \in K}
<1>1. IsFiniteSet(D1) /\ Depth(s, K) \in Nat
  BY DepthFinite
<1>2. /\ Len(Append(s, a)) = Len(s) + 1 /\ Len(s) \in Nat
      /\ \A i \in 1..Len(s) : Append(s, a)[i] = s[i]
      /\ Append(s, a)[Len(s) + 1] = a
  OBVIOUS
<1>3. CASE a \in K
  <2>1. D2 = D1 \cup {Len(s) + 1} /\ Len(s) + 1 \notin D1
    BY <1>2, <1>3
  <2> HIDE DEF D1, D2
  <2>2. Cardinality(D2) = Cardinality(D1) + 1
    BY <1>1, <2>1, FS_AddElement
  <2> QED BY <1>3, <2>2 DEF Depth, D1, D2
<1>4. CASE a \notin K
  <2>1. D2 = D1
    BY <1>2, <1>4
  <2>2. Depth(Append(s, a), K) = Depth(s, K)
    BY <2>1 DEF Depth
  <2> QED BY <1>1, <1>4, <2>2
<1> QED BY <1>3, <1>4

AllKinds == {tree[n].kind : n \in W!Nodes} \cup {"Function", "Method", "Impl"}
Symbols == [id : Nat, node : W!Nodes, kind : AllKinds, qualified : Seq(W!Nodes), parent : SUBSET Nat]

WalkTypesOK ==
    /\ Tree
    /\ at \in {0} \cup W!Nodes /\ entered \in BOOLEAN
    /\ symbols \in Seq(Symbols)
    /\ scope \in Seq(Nat) /\ kinds \in Seq(AllKinds) /\ qual \in Seq(W!Nodes)
    /\ fnDepth \in Nat /\ containerDepth \in Nat

\* Each symbol is of a node that has a kind, and they come in the tree's order.
InOrder ==
    /\ \A i \in 1..Len(symbols) : W!KindFor(symbols[i].node)
    /\ \A i, j \in 1..Len(symbols) : i < j => symbols[i].node < symbols[j].node

\* The walk has emitted nothing that it has yet to come to.
Visited ==
    \A n \in W!EmittedNodes : at # 0 => IF entered THEN n <= at \/ at \in Chain(n) ELSE n < at

\* The stacks stand for the open symbols.
Stacked ==
    /\ Len(scope) = Len(qual) /\ Len(kinds) = Len(qual)
    /\ \A i \in 1..Len(qual), j \in 1..Len(symbols) :
          symbols[j].node = qual[i] => scope[i] = symbols[j].id /\ kinds[i] = symbols[j].kind
    /\ fnDepth = Depth(kinds, W!FnKinds)
    /\ containerDepth = Depth(kinds, W!ContainerKinds)

WalkInv == WalkTypesOK /\ InOrder /\ Visited /\ qual = W!Around /\ Stacked

LEMMA WalkBegins == ASSUME W!WalkerAssumption, W!Init PROVE WalkInv
<1>1. PICK k \in 1..Size, l \in W!Languages :
        /\ above \in [1..(k + 1) -> 0..k] /\ above[1] = 0
        /\ \A n \in 2..(k + 1) : above[n] \in 1..(n - 1)
        /\ \A n \in 2..(k + 1) : above[n] \in {n - 1} \cup W!ToSet(W!Ancestors(n - 1))
  BY DEF W!Init
<1>2. Tree
  <2>1. k \in Nat /\ W!Nodes = 1..(k + 1) /\ W!Nodes \ {1} = 2..(k + 1)
    BY <1>1 DEF W!WalkerAssumption, W!Nodes
  <2> QED BY <1>1, <2>1 DEF Tree
<1>3. WalkTypesOK
  <2>1. 1 \in W!Nodes
    BY <1>2, TreeIs
  <2>2. /\ at = 1 /\ entered = FALSE /\ symbols = <<>> /\ scope = <<>> /\ kinds = <<>>
        /\ qual = <<>> /\ fnDepth = 0 /\ containerDepth = 0
    BY DEF W!Init
  <2>3. \A A : <<>> \in Seq(A)
    OBVIOUS
  <2> QED BY <1>2, <2>1, <2>2, <2>3 DEF WalkTypesOK
<1>4. InOrder /\ Visited /\ W!EmittedNodes = {}
  BY DEF W!Init, InOrder, Visited, W!EmittedNodes
<1>5. qual = W!Around
  <2>1. above[1] = 0 /\ at = 1 /\ entered = FALSE /\ qual = <<>>
    BY <1>1 DEF W!Init
  <2> QED BY <1>2, <2>1, PathStep DEF W!Around
<1>6. Stacked
  <2>1. \A K : Depth(<<>>, K) = 0
    <3> SUFFICES ASSUME NEW K PROVE Depth(<<>>, K) = 0
      OBVIOUS
    <3>1. {i \in 1..Len(<<>>) : <<>>[i] \in K} = {}
      OBVIOUS
    <3> QED BY <3>1, FS_EmptySet DEF Depth
  <2>2. scope = <<>> /\ kinds = <<>> /\ qual = <<>> /\ fnDepth = 0 /\ containerDepth = 0
    BY DEF W!Init
  <2> QED BY <2>1, <2>2 DEF Stacked
<1> QED BY <1>3, <1>4, <1>5, <1>6 DEF WalkInv

LEMMA ShapeStays ==
    ASSUME Tree, UNCHANGED W!shape
    PROVE  /\ Tree' /\ W!Nodes' = W!Nodes /\ above' = above /\ AllKinds' = AllKinds
           /\ Symbols' = Symbols
           /\ \A n : Chain(n)' = Chain(n)
           /\ \A n : W!KindFor(n)' <=> W!KindFor(n)
<1>1. above' = above /\ tree' = tree
  BY DEF W!shape
<1>2. W!Nodes' = W!Nodes
  BY <1>1 DEF W!Nodes
<1>3. \A Y, n : W!Path(Y)'[n] = W!Path(Y)[n]
  BY <1>1, <1>2 DEF W!Path
<1>4. \A n : W!Ancestors(n)' = W!Ancestors(n)
  BY <1>1, <1>2 DEF W!Ancestors, W!Path
<1>5. \A n : Chain(n)' = Chain(n)
  BY <1>1, <1>2 DEF Chain, W!Path
<1>6. Tree'
  BY <1>1, <1>2, <1>4 DEF Tree
<1>7. AllKinds' = AllKinds
  BY <1>1, <1>2 DEF AllKinds
<1>8. Symbols' = Symbols
  BY <1>2, <1>7 DEF Symbols
<1>9. \A n : W!KindFor(n)' <=> W!KindFor(n)
  BY <1>1 DEF W!KindFor
<1> QED BY <1>1, <1>2, <1>5, <1>6, <1>7, <1>8, <1>9

LEMMA AroundNext ==
    ASSUME Tree, UNCHANGED W!shape, NEW E2, W!EmittedNodes' = E2,
           NEW x2, x2 = IF entered' THEN at' ELSE above[at']
    PROVE  W!Around' = W!Path(E2)[x2]
<1>1. above' = above
  BY DEF W!shape
<1> QED BY <1>1 DEF W!Around, W!Path, W!Nodes

LEMMA SymbolsAre ==
    ASSUME symbols \in Seq(Symbols)
    PROVE  \A i \in 1..Len(symbols) : symbols[i].node \in W!Nodes /\ symbols[i].node \in W!EmittedNodes
<1>1. \A i \in 1..Len(symbols) : symbols[i] \in Symbols
  OBVIOUS
<1>2. \A y \in Symbols : y.node \in W!Nodes
  BY DEF Symbols
<1> QED BY <1>1, <1>2 DEF W!EmittedNodes

\* Going down: the node to enter, or the same one left.
LEMMA Descends ==
    ASSUME Tree, at \in W!Nodes, W!Descend(at)
    PROVE  \/ entered' = TRUE /\ at' = at
           \/ entered' = FALSE /\ at' = at + 1 /\ at + 1 \in W!Nodes /\ above[at + 1] = at
<1>1. CASE W!Children(at) = {}
  BY <1>1 DEF W!Descend
<1>2. CASE W!Children(at) # {}
  BY <1>2, FirstChild DEF W!Descend
<1> QED BY <1>1, <1>2

\* A node without a symbol: nothing but the place changes.
LEMMA QuietStep ==
    ASSUME WalkInv, at \in W!Nodes, ~entered, UNCHANGED <<W!shape, symbols, W!scopes>>,
           W!Descend(at) \/ (entered' = TRUE /\ at' = at)
    PROVE  WalkInv'
<1>1. /\ UNCHANGED W!shape
      /\ UNCHANGED <<symbols, scope, kinds, qual, fnDepth, containerDepth>>
  BY DEF W!scopes
<1>2. /\ Tree' /\ W!Nodes' = W!Nodes /\ above' = above /\ AllKinds' = AllKinds /\ Symbols' = Symbols
      /\ \A n : Chain(n)' = Chain(n)
      /\ \A n : W!KindFor(n)' <=> W!KindFor(n)
  BY <1>1, ShapeStays DEF WalkInv, WalkTypesOK
<1>3. \/ entered' = TRUE /\ at' = at
      \/ entered' = FALSE /\ at' = at + 1 /\ at + 1 \in W!Nodes /\ above[at + 1] = at
  BY Descends DEF WalkInv, WalkTypesOK
<1>4. W!EmittedNodes' = W!EmittedNodes /\ W!EmittedNodes \subseteq W!Nodes
  <2>1. \A i \in 1..Len(symbols) : symbols[i].node \in W!Nodes
    BY SymbolsAre DEF WalkInv, WalkTypesOK
  <2> QED BY <1>1, <2>1 DEF W!EmittedNodes
<1>5. WalkTypesOK'
  BY <1>1, <1>2, <1>3 DEF WalkInv, WalkTypesOK
<1>6. InOrder'
  BY <1>1, <1>2 DEF WalkInv, InOrder
<1>7. \A n \in W!EmittedNodes : n < at
  <2>1. at # 0
    BY TreeIs DEF WalkInv, WalkTypesOK
  <2> QED BY <2>1 DEF WalkInv, Visited
<1>8. Visited'
  <2>1. at \in Int /\ \A n \in W!EmittedNodes : n \in Int
    BY <1>4, TreeIs DEF WalkInv, WalkTypesOK
  <2> QED BY <1>3, <1>4, <1>7, <2>1 DEF Visited
<1>9. qual' = W!Around'
  <2>1. W!Around' = W!Path(W!EmittedNodes)[at]
    <3>1. at = IF entered' THEN at' ELSE above[at']
      BY <1>3
    <3> QED BY <1>1, <1>4, <3>1, AroundNext DEF WalkInv, WalkTypesOK
  <2>2. at \notin W!EmittedNodes
    BY <1>7, TreeIs DEF WalkInv, WalkTypesOK
  <2>3. W!Path(W!EmittedNodes)[at] = W!Path(W!EmittedNodes)[above[at]]
    BY <2>2, PathStep DEF WalkInv, WalkTypesOK
  <2> QED BY <1>1, <2>1, <2>3 DEF WalkInv, W!Around
<1>10. Stacked'
  <2>1. /\ Depth(kinds, W!FnKinds)' = Depth(kinds, W!FnKinds)
        /\ Depth(kinds, W!ContainerKinds)' = Depth(kinds, W!ContainerKinds)
    BY <1>1 DEF Depth, W!FnKinds, W!ContainerKinds
  <2> QED BY <1>1, <2>1 DEF WalkInv, Stacked
<1> QED BY <1>5, <1>6, <1>8, <1>9, <1>10 DEF WalkInv

\* A symbol: it is the innermost open one, whether or not the node has children.
LEMMA EmitStep ==
    ASSUME WalkInv, W!WalkerAssumption, at \in W!Nodes, ~entered, W!KindFor(at),
           NEW K \in AllKinds, W!EmitAs(K)
    PROVE  WalkInv'
<1> DEFINE id0 == IdStart + Len(symbols)
           new == [id |-> id0, node |-> at, kind |-> K, qualified |-> Append(qual, at),
                   parent |-> IF scope = <<>> THEN {} ELSE {W!Last(scope)}]
<1>0. Tree /\ symbols \in Seq(Symbols) /\ qual \in Seq(W!Nodes) /\ kinds \in Seq(AllKinds)
      /\ scope \in Seq(Nat) /\ at \in Nat \ {0} /\ Len(symbols) \in Nat
  BY TreeIs DEF WalkInv, WalkTypesOK
<1>1. /\ UNCHANGED W!shape /\ symbols' = Append(symbols, new)
      /\ scope' = Append(scope, id0) /\ kinds' = Append(kinds, K) /\ qual' = Append(qual, at)
      /\ containerDepth' = containerDepth + (IF K \in W!ContainerKinds THEN 1 ELSE 0)
      /\ fnDepth' = fnDepth + (IF K \in W!FnKinds THEN 1 ELSE 0)
      /\ W!Descend(at)
  BY DEF W!EmitAs, W!PushScope
<1>2. new.node = at /\ new.id = id0 /\ new.kind = K /\ new \in Symbols /\ id0 \in Nat
  <2>1. id0 \in Nat
    BY <1>0 DEF W!WalkerAssumption
  <2>2. Append(qual, at) \in Seq(W!Nodes)
    BY <1>0
  <2>3. (IF scope = <<>> THEN {} ELSE {W!Last(scope)}) \in SUBSET Nat
    <3>1. scope # <<>> => Len(scope) \in 1..Len(scope)
      BY <1>0
    <3> QED BY <1>0, <3>1 DEF W!Last
  <2> QED BY <2>1, <2>2, <2>3 DEF Symbols
<1> HIDE DEF id0, new
<1>3. /\ Tree' /\ W!Nodes' = W!Nodes /\ above' = above /\ AllKinds' = AllKinds /\ Symbols' = Symbols
      /\ \A n : Chain(n)' = Chain(n)
      /\ \A n : W!KindFor(n)' <=> W!KindFor(n)
  BY <1>0, <1>1, ShapeStays
<1>4. \/ entered' = TRUE /\ at' = at
      \/ entered' = FALSE /\ at' = at + 1 /\ at + 1 \in W!Nodes /\ above[at + 1] = at
  BY <1>0, <1>1, Descends
<1>5. /\ symbols' \in Seq(Symbols) /\ Len(symbols') = Len(symbols) + 1
      /\ \A i \in 1..Len(symbols) : symbols'[i] = symbols[i]
      /\ symbols'[Len(symbols) + 1] = new
  BY <1>0, <1>1, <1>2
<1>6. /\ qual' \in Seq(W!Nodes) /\ Len(qual') = Len(qual) + 1
      /\ \A i \in 1..Len(qual) : qual'[i] = qual[i]
      /\ qual'[Len(qual) + 1] = at
      /\ scope' \in Seq(Nat) /\ Len(scope') = Len(scope) + 1
      /\ \A i \in 1..Len(scope) : scope'[i] = scope[i]
      /\ scope'[Len(scope) + 1] = id0
      /\ kinds' \in Seq(AllKinds) /\ Len(kinds') = Len(kinds) + 1
      /\ \A i \in 1..Len(kinds) : kinds'[i] = kinds[i]
      /\ kinds'[Len(kinds) + 1] = K
  BY <1>0, <1>1, <1>2
<1>7. W!EmittedNodes' = W!EmittedNodes \cup {at} /\ W!EmittedNodes \subseteq W!Nodes
  <2>1. \A i \in 1..Len(symbols) : symbols[i].node \in W!Nodes
    BY <1>0, SymbolsAre
  <2>2. 1..Len(symbols') = 1..Len(symbols) \cup {Len(symbols) + 1}
    BY <1>0, <1>5
  <2> QED BY <1>2, <1>5, <2>1, <2>2 DEF W!EmittedNodes
<1>8. \A n \in W!EmittedNodes : n < at
  BY <1>0 DEF WalkInv, Visited
<1>9. WalkTypesOK'
  <2>1. fnDepth' \in Nat /\ containerDepth' \in Nat
    BY <1>1 DEF WalkInv, WalkTypesOK
  <2> QED BY <1>3, <1>4, <1>5, <1>6, <2>1 DEF WalkTypesOK
<1>10. InOrder'
  <2>1. \A i \in 1..Len(symbols) : symbols[i].node \in W!EmittedNodes
    BY DEF W!EmittedNodes
  <2>2. \A i \in 1..Len(symbols') : i \in 1..Len(symbols) \/ i = Len(symbols) + 1
    BY <1>0, <1>5
  <2>3. \A i \in 1..Len(symbols') : W!KindFor(symbols[i].node)'
    <3>1. tree' = tree
      BY <1>1 DEF W!shape
    <3>2. \A i \in 1..Len(symbols) : W!KindFor(symbols[i].node)
      BY DEF WalkInv, InOrder
    <3>3. \A i \in 1..Len(symbols) : W!KindFor(symbols'[i].node)
      BY <1>5, <3>2
    <3>4. \A i \in 1..Len(symbols') : W!KindFor(symbols'[i].node)
      BY <1>2, <1>5, <2>2, <3>3
    <3> QED BY <3>1, <3>4 DEF W!KindFor
  <2>4. ASSUME NEW i \in 1..Len(symbols'), NEW j \in 1..Len(symbols'), i < j
        PROVE  symbols'[i].node < symbols'[j].node
    <3>1. i \in 1..Len(symbols)
      BY <1>0, <1>5, <2>4
    <3>2. CASE j \in 1..Len(symbols)
      <4>1. symbols[i].node < symbols[j].node
        BY <2>4, <3>1, <3>2 DEF WalkInv, InOrder
      <4> QED BY <1>5, <3>1, <3>2, <4>1
    <3>3. CASE j = Len(symbols) + 1
      <4>1. symbols[i].node < at
        BY <1>8, <2>1, <3>1
      <4> QED BY <1>2, <1>5, <3>1, <3>3, <4>1
    <3> QED BY <2>2, <3>2, <3>3
  <2> QED BY <2>3, <2>4 DEF InOrder
<1>11. Visited'
  <2>1. \A n \in W!EmittedNodes : n \in Int
    BY <1>7, TreeIs, <1>0
  <2> QED BY <1>0, <1>4, <1>7, <1>8, <2>1 DEF Visited
<1>12. qual' = W!Around'
  <2>1. W!Around' = W!Path(W!EmittedNodes \cup {at})[at]
    <3>1. at = IF entered' THEN at' ELSE above[at']
      BY <1>4
    <3> QED BY <1>0, <1>1, <1>7, <3>1, AroundNext
  <2>2. W!Path(W!EmittedNodes \cup {at})[at] = Append(W!Path(W!EmittedNodes \cup {at})[above[at]], at)
    BY <1>0, PathStep
  <2>3. above[at] \in {0} \cup W!Nodes /\ at \notin Chain(above[at])
    <3>1. above[at] \in 0..(at - 1) /\ above[at] \in 0..Len(above)
      BY <1>0, TreeIs
    <3>2. Chain(above[at]) \subseteq 1..above[at]
      BY <1>0, <3>1, ChainUp
    <3> QED BY <1>0, <3>1, <3>2, TreeIs
  <2>4. W!Path(W!EmittedNodes \cup {at})[above[at]] = W!Path(W!EmittedNodes)[above[at]]
    <3> DEFINE E2 == W!EmittedNodes \cup {at}
    <3>1. \A a \in Chain(above[at]) : a \in E2 <=> a \in W!EmittedNodes
      BY <2>3
    <3> HIDE DEF E2
    <3>2. Tree /\ above[at] \in {0} \cup W!Nodes
      BY <1>0, <2>3
    <3>3. W!Path(E2)[above[at]] = W!Path(W!EmittedNodes)[above[at]]
      BY ONLY <3>1, <3>2, PathSame
    <3> QED BY <3>3 DEF E2
  <2> QED BY <1>1, <2>1, <2>2, <2>4 DEF WalkInv, W!Around
<1>13. Stacked'
  <2>1. Len(scope) = Len(qual) /\ Len(kinds) = Len(qual) /\ Len(qual) \in Nat
    BY <1>0 DEF WalkInv, Stacked
  <2>2. W!ToSet(qual) = W!EmittedNodes \cap Chain(above[at])
    <3>1. above[at] \in {0} \cup W!Nodes /\ qual = W!Path(W!EmittedNodes)[above[at]]
      BY <1>0, TreeIs DEF WalkInv, W!Around
    <3> QED BY <1>0, <3>1, PathSet
  <2>3. \A i \in 1..Len(qual) : qual[i] \in W!EmittedNodes
    BY <1>0, <2>2 DEF W!ToSet
  <2>4. \A j \in 1..Len(symbols) : symbols[j].node \in W!EmittedNodes
    BY DEF W!EmittedNodes
  <2>5. \A n \in W!EmittedNodes : n # at
    BY <1>0, <1>8
  <2>6. ASSUME NEW i \in 1..Len(qual'), NEW j \in 1..Len(symbols'), symbols'[j].node = qual'[i]
        PROVE  scope'[i] = symbols'[j].id /\ kinds'[i] = symbols'[j].kind
    <3>1. i \in 1..Len(qual) \/ i = Len(qual) + 1
      BY <1>6, <2>1
    <3>2. j \in 1..Len(symbols) \/ j = Len(symbols) + 1
      BY <1>0, <1>5
    <3>3. CASE i \in 1..Len(qual) /\ j \in 1..Len(symbols)
      <4>1. symbols[j].node = qual[i]
        BY <1>5, <1>6, <2>6, <3>3
      <4>2. scope[i] = symbols[j].id /\ kinds[i] = symbols[j].kind
        BY <3>3, <4>1 DEF WalkInv, Stacked
      <4> QED BY <1>5, <1>6, <2>1, <3>3, <4>2
    <3>4. CASE i = Len(qual) + 1 /\ j = Len(symbols) + 1
      BY <1>2, <1>5, <1>6, <2>1, <3>4
    <3>5. i \in 1..Len(qual) => qual'[i] # at
      BY <1>6, <2>3, <2>5
    <3>6. j \in 1..Len(symbols) => symbols'[j].node # at
      BY <1>5, <2>4, <2>5
    <3> QED BY <1>2, <1>5, <1>6, <2>6, <3>1, <3>2, <3>3, <3>4, <3>5, <3>6
  <2>7. /\ fnDepth' = Depth(kinds', W!FnKinds)
        /\ containerDepth' = Depth(kinds', W!ContainerKinds)
    BY <1>0, <1>1, Deeper DEF WalkInv, Stacked
  <2>8. Len(scope') = Len(qual') /\ Len(kinds') = Len(qual')
    BY <1>6, <2>1
  <2>9. /\ Depth(kinds, W!FnKinds)' = Depth(kinds', W!FnKinds)
        /\ Depth(kinds, W!ContainerKinds)' = Depth(kinds', W!ContainerKinds)
    BY DEF Depth, W!FnKinds, W!ContainerKinds
  <2> QED BY <2>6, <2>7, <2>8, <2>9 DEF Stacked
<1> QED BY <1>9, <1>10, <1>11, <1>12, <1>13 DEF WalkInv

LEMMA FrontIs ==
    ASSUME NEW A, NEW s \in Seq(A), Len(s) # 0
    PROVE  /\ W!Front(s) \in Seq(A) /\ Len(W!Front(s)) = Len(s) - 1
           /\ \A i \in 1..(Len(s) - 1) : W!Front(s)[i] = s[i]
           /\ s[Len(s)] \in A /\ s = Append(W!Front(s), s[Len(s)])
<1>1. /\ W!Front(s) \in Seq(A) /\ Len(W!Front(s)) = Len(s) - 1
      /\ \A i \in 1..(Len(s) - 1) : W!Front(s)[i] = s[i]
  <2>1. Len(s) \in Nat \ {0} /\ \A i \in 1..(Len(s) - 1) : i \in 1..Len(s)
    OBVIOUS
  <2>2. /\ SubSeq(s, 1, Len(s) - 1) \in Seq(A)
        /\ Len(SubSeq(s, 1, Len(s) - 1)) = Len(s) - 1
        /\ \A i \in 1..(Len(s) - 1) : SubSeq(s, 1, Len(s) - 1)[i] = s[i]
    <3> DEFINE n == Len(s) - 1
    <3>1. n \in Int /\ 1 \in Int /\ \A i \in 1..n : s[i] \in A
      BY <2>1
    <3>2. n = Len(s) - 1 /\ n >= 0
      BY <2>1
    <3> HIDE DEF n
    <3>3. /\ SubSeq(s, 1, n) \in Seq(A)
          /\ Len(SubSeq(s, 1, n)) = IF 1 <= n THEN n - 1 + 1 ELSE 0
          /\ \A i \in 1..(n - 1 + 1) : SubSeq(s, 1, n)[i] = s[1 + i - 1]
      BY <3>1, SubSeqProperties
    <3>4. Len(SubSeq(s, 1, n)) = n /\ \A i \in 1..n : SubSeq(s, 1, n)[i] = s[i]
      BY <3>1, <3>2, <3>3
    <3> QED BY <3>3, <3>4 DEF n
  <2> QED BY <2>2 DEF W!Front
<1>2. s[Len(s)] \in A
  OBVIOUS
<1>3. s = Append(W!Front(s), s[Len(s)])
  <2> DEFINE f == W!Front(s)
             e == s[Len(s)]
  <2>1. f \in Seq(A) /\ Len(f) = Len(s) - 1 /\ \A i \in 1..(Len(s) - 1) : f[i] = s[i]
    BY <1>1
  <2>2. e \in A /\ e = s[Len(s)]
    BY <1>2
  <2> HIDE DEF f, e
  <2>3. /\ Append(f, e) \in Seq(A) /\ Len(Append(f, e)) = Len(s)
        /\ \A i \in 1..Len(s) : Append(f, e)[i] = s[i]
    BY <2>1, <2>2
  <2>4. Append(f, e) = s
    BY <2>3, SeqEqual
  <2> QED BY <2>4 DEF f, e
<1> QED BY <1>1, <1>2, <1>3

\* Where the walk goes from a node that it leaves: to a later sibling, or up.
LEMMA LeaveGoes ==
    ASSUME WalkInv, W!Leave
    PROVE  /\ at \in W!Nodes /\ entered
           /\ \/ /\ entered' = FALSE /\ at' \in W!Nodes /\ at' > at /\ above[at'] = above[at]
              \/ entered' = TRUE /\ at' = above[at]
<1> DEFINE sibs == {m \in W!Nodes : m > at /\ above[m] = above[at]}
<1>1. at \in W!Nodes /\ entered
  BY DEF W!Leave, WalkInv, WalkTypesOK
<1>2. CASE sibs = {}
  BY <1>1, <1>2 DEF W!Leave
<1>3. CASE sibs # {}
  <2>1. sibs \in SUBSET Nat
    BY TreeIs DEF WalkInv, WalkTypesOK
  <2>2. \E m \in sibs : \A k \in sibs : m <= k
    <3> HIDE DEF sibs
    <3> QED BY <1>3, <2>1, Least
  <2>3. at' = (CHOOSE m \in sibs : \A k \in sibs : m <= k) /\ entered' = FALSE
    BY <1>3 DEF W!Leave
  <2>4. at' \in sibs
    <3> HIDE DEF sibs
    <3> QED BY <2>2, <2>3
  <2> QED BY <1>1, <2>3, <2>4
<1> QED BY <1>2, <1>3

\* The symbol of the node, if it has one, is the innermost open one.
LEMMA LeavePops ==
    ASSUME WalkInv, W!Leave
    PROVE  /\ UNCHANGED <<W!shape, symbols>>
           /\ qual' = W!Path(W!EmittedNodes)[above[at]]
           /\ qual' \in Seq(W!Nodes) /\ scope' \in Seq(Nat) /\ kinds' \in Seq(AllKinds)
           /\ Len(scope') = Len(qual') /\ Len(kinds') = Len(qual')
           /\ Len(qual') <= Len(qual)
           /\ \A i \in 1..Len(qual') : /\ qual'[i] = qual[i]
                                       /\ scope'[i] = scope[i] /\ kinds'[i] = kinds[i]
           /\ fnDepth' = Depth(kinds', W!FnKinds)
           /\ containerDepth' = Depth(kinds', W!ContainerKinds)
<1> DEFINE own == {i \in 1..Len(symbols) : symbols[i].node = at}
<1>1. UNCHANGED <<W!shape, symbols>>
  BY DEF W!Leave
<1>2. /\ Tree /\ at \in W!Nodes /\ entered /\ qual = W!Path(W!EmittedNodes)[at]
      /\ qual \in Seq(W!Nodes) /\ scope \in Seq(Nat) /\ kinds \in Seq(AllKinds)
      /\ Len(scope) = Len(qual) /\ Len(kinds) = Len(qual)
      /\ fnDepth = Depth(kinds, W!FnKinds) /\ containerDepth = Depth(kinds, W!ContainerKinds)
  BY LeaveGoes DEF WalkInv, WalkTypesOK, W!Around, Stacked
<1>3. CASE own = {}
  <2>1. /\ scope' = scope /\ kinds' = kinds /\ qual' = qual
        /\ fnDepth' = fnDepth /\ containerDepth' = containerDepth
    BY <1>3 DEF W!Leave, W!scopes
  <2>2. at \notin W!EmittedNodes
    BY <1>3 DEF W!EmittedNodes
  <2>3. W!Path(W!EmittedNodes)[at] = W!Path(W!EmittedNodes)[above[at]]
    BY <1>2, <2>2, PathStep
  <2>4. Len(qual) \in Nat
    BY <1>2
  <2> QED BY <1>1, <1>2, <2>1, <2>3, <2>4
<1>4. CASE own # {}
  <2>1. PICK i \in 1..Len(symbols) : symbols[i].node = at /\ W!PopScope(symbols[i].kind)
    BY <1>4 DEF W!Leave
  <2>2. at \in W!EmittedNodes
    BY <2>1 DEF W!EmittedNodes
  <2> DEFINE q == W!Path(W!EmittedNodes)[above[at]]
             k == symbols[i].kind
  <2>3. q \in Seq(W!Nodes) /\ qual = Append(q, at)
    <3>1. above[at] \in {0} \cup W!Nodes
      BY <1>2, TreeIs
    <3> QED BY <1>2, <2>2, <3>1, PathStep, PathType
  <2> HIDE DEF q, k
  <2>4. Len(qual) = Len(q) + 1 /\ Len(q) \in Nat /\ qual[Len(qual)] = at
        /\ \A j \in 1..Len(q) : qual[j] = q[j]
    BY <1>2, <2>3
  <2>5. kinds[Len(kinds)] = k
    <3>1. Len(qual) \in 1..Len(qual)
      BY <2>4
    <3> QED BY <1>2, <2>1, <2>4, <3>1 DEF k, WalkInv, Stacked
  <2>6. /\ scope' = W!Front(scope) /\ kinds' = W!Front(kinds) /\ qual' = W!Front(qual)
        /\ fnDepth' = fnDepth - (IF k \in W!FnKinds THEN 1 ELSE 0)
        /\ containerDepth' = containerDepth - (IF k \in W!ContainerKinds THEN 1 ELSE 0)
    BY <2>1 DEF W!PopScope, k
  <2>7. W!Front(qual) = q
    <3>1. /\ W!Front(qual) \in Seq(W!Nodes) /\ Len(W!Front(qual)) = Len(q)
          /\ \A j \in 1..Len(q) : W!Front(qual)[j] = q[j]
      <4>1. Len(qual) # 0 /\ Len(qual) - 1 = Len(q)
        BY <2>4
      <4>2. /\ W!Front(qual) \in Seq(W!Nodes) /\ Len(W!Front(qual)) = Len(q)
            /\ \A j \in 1..Len(q) : W!Front(qual)[j] = qual[j]
        BY <1>2, <4>1, FrontIs
      <4> QED BY <2>4, <4>2
    <3> QED BY <2>3, <3>1, SeqEqual
  <2>8. /\ W!Front(scope) \in Seq(Nat) /\ Len(W!Front(scope)) = Len(q)
        /\ \A j \in 1..Len(q) : W!Front(scope)[j] = scope[j]
    <3>1. Len(scope) # 0 /\ Len(scope) - 1 = Len(q)
      BY <1>2, <2>4
    <3> QED BY <1>2, <3>1, FrontIs
  <2>9. /\ W!Front(kinds) \in Seq(AllKinds) /\ Len(W!Front(kinds)) = Len(q)
        /\ \A j \in 1..Len(q) : W!Front(kinds)[j] = kinds[j]
        /\ k \in AllKinds /\ kinds = Append(W!Front(kinds), k)
    <3>1. Len(kinds) # 0 /\ Len(kinds) - 1 = Len(q)
      BY <1>2, <2>4
    <3> QED BY <1>2, <2>5, <3>1, FrontIs
  <2>10. \A K : /\ Depth(kinds, K) = Depth(W!Front(kinds), K) + (IF k \in K THEN 1 ELSE 0)
                /\ Depth(W!Front(kinds), K) \in Nat
    <3> DEFINE f == W!Front(kinds)
    <3>1. f \in Seq(AllKinds) /\ k \in AllKinds /\ kinds = Append(f, k)
      BY <2>9
    <3> HIDE DEF f
    <3>2. \A K : Depth(f, K) \in Nat /\ Depth(kinds, K) = Depth(f, K) + (IF k \in K THEN 1 ELSE 0)
      BY <3>1, Deeper, DepthFinite
    <3> QED BY <3>2 DEF f
  <2>11. fnDepth' = Depth(W!Front(kinds), W!FnKinds)
    BY <1>2, <2>6, <2>10
  <2>12. containerDepth' = Depth(W!Front(kinds), W!ContainerKinds)
    BY <1>2, <2>6, <2>10
  <2> QED BY <1>1, <2>3, <2>4, <2>6, <2>7, <2>8, <2>9, <2>11, <2>12 DEF q
<1> QED BY <1>3, <1>4

LEMMA LeaveStep == ASSUME WalkInv, W!Leave PROVE WalkInv'
<1>0. Tree /\ at \in W!Nodes /\ at \in Nat \ {0} /\ entered
  <2>1. Tree /\ at \in W!Nodes /\ entered
    BY LeaveGoes DEF WalkInv, WalkTypesOK
  <2> QED BY <2>1, TreeIs
<1>1. UNCHANGED W!shape /\ symbols' = symbols
  BY LeavePops
<1>2. /\ Tree' /\ W!Nodes' = W!Nodes /\ above' = above /\ AllKinds' = AllKinds /\ Symbols' = Symbols
      /\ \A n : Chain(n)' = Chain(n)
      /\ \A n : W!KindFor(n)' <=> W!KindFor(n)
  BY <1>0, <1>1, ShapeStays
<1>3. \/ /\ entered' = FALSE /\ at' \in W!Nodes /\ at' > at /\ above[at'] = above[at]
      \/ entered' = TRUE /\ at' = above[at]
  BY LeaveGoes
<1>4. W!EmittedNodes' = W!EmittedNodes /\ W!EmittedNodes \subseteq W!Nodes
  <2>1. \A i \in 1..Len(symbols) : symbols[i].node \in W!Nodes
    BY SymbolsAre DEF WalkInv, WalkTypesOK
  <2> QED BY <1>1, <2>1 DEF W!EmittedNodes
<1>5. above[at] \in {0} \cup W!Nodes /\ above[at] \in 0..(at - 1) /\ above[at] \in 0..Len(above)
      /\ at \in 0..Len(above)
  BY <1>0, TreeIs
<1>6. WalkTypesOK'
  <2>1. fnDepth' \in Nat /\ containerDepth' \in Nat
    BY LeavePops, DepthFinite, <1>2
  <2>2. at' \in {0} \cup W!Nodes /\ entered' \in BOOLEAN
    BY <1>3, <1>5
  <2>3. symbols' \in Seq(Symbols)
    BY <1>1 DEF WalkInv, WalkTypesOK
  <2> QED BY <1>2, <2>1, <2>2, <2>3, LeavePops DEF WalkTypesOK
<1>7. InOrder'
  <2>1. tree' = tree
    BY <1>1 DEF W!shape
  <2> QED BY <1>1, <2>1 DEF WalkInv, InOrder, W!KindFor
<1>8. Visited'
  <2> SUFFICES ASSUME NEW n \in W!EmittedNodes, at' # 0
               PROVE  IF entered' THEN n <= at' \/ at' \in Chain(n) ELSE n < at'
    BY <1>2, <1>4 DEF Visited
  <2>1. n \in Nat \ {0} /\ n \in 0..Len(above) /\ (n <= at \/ at \in Chain(n))
    BY <1>0, <1>4, TreeIs DEF WalkInv, Visited
  <2>2. CASE entered' = FALSE /\ at' \in W!Nodes /\ at' > at /\ above[at'] = above[at]
    <3>1. at' \in Nat
      BY <1>0, <2>2, TreeIs
    <3>2. ASSUME at \in Chain(n), n >= at' PROVE FALSE
      <4>1. at' \in at..n
        BY <1>0, <2>1, <2>2, <3>1, <3>2
      <4>2. at \in Chain(at')
        BY <1>0, <2>1, <3>2, <4>1, Contiguous
      <4>3. at \in Chain(above[at])
        BY <1>0, <2>2, <3>1, <4>2, ChainStep
      <4>4. Chain(above[at]) \subseteq 1..above[at]
        BY <1>0, <1>5, ChainUp
      <4> QED BY <1>0, <1>5, <4>3, <4>4
    <3> QED BY <1>0, <2>1, <2>2, <3>1, <3>2
  <2>3. CASE entered' = TRUE /\ at' = above[at]
    <3>1. at' \in W!Nodes /\ at' \in 1..(at - 1)
      BY <1>0, <1>5, <2>3
    <3>2. at' \in Chain(at)
      BY <1>0, <2>3, <3>1, ChainStep
    <3>3. CASE at \in Chain(n)
      <4>1. Chain(at) \subseteq Chain(n)
        BY <1>0, <2>1, <3>3, ChainOfChain
      <4> QED BY <2>3, <3>2, <4>1
    <3>4. CASE n <= at /\ n > at'
      <4>1. n \in at'..at
        BY <2>1, <3>1, <3>4, <1>0
      <4>2. at' \in Chain(n)
        BY <1>0, <1>5, <3>2, <4>1, Contiguous
      <4> QED BY <2>3, <4>2
    <3>5. CASE n <= at'
      BY <2>3, <3>5
    <3> QED BY <2>1, <3>1, <3>3, <3>4, <3>5
  <2> QED BY <1>3, <2>2, <2>3
<1>9. qual' = W!Around'
  <2>1. above[at] = IF entered' THEN at' ELSE above[at']
    BY <1>3
  <2>2. W!Around' = W!Path(W!EmittedNodes)[above[at]]
    BY <1>0, <1>1, <1>4, <2>1, AroundNext
  <2> QED BY <2>2, LeavePops
<1>10. Stacked'
  <2>1. Len(qual) \in Nat /\ Len(qual') \in Nat /\ Len(qual') <= Len(qual)
    BY LeavePops DEF WalkInv, WalkTypesOK
  <2>2. \A i \in 1..Len(qual') : i \in 1..Len(qual)
    BY <2>1
  <2>3. \A i \in 1..Len(qual'), j \in 1..Len(symbols') :
          symbols'[j].node = qual'[i] => scope'[i] = symbols'[j].id /\ kinds'[i] = symbols'[j].kind
    BY <1>1, <2>2, LeavePops DEF WalkInv, Stacked
  <2>4. /\ Depth(kinds, W!FnKinds)' = Depth(kinds', W!FnKinds)
        /\ Depth(kinds, W!ContainerKinds)' = Depth(kinds', W!ContainerKinds)
    BY DEF Depth, W!FnKinds, W!ContainerKinds
  <2> QED BY <2>3, <2>4, LeavePops DEF Stacked
<1> QED BY <1>6, <1>7, <1>8, <1>9, <1>10 DEF WalkInv

LEMMA WalkGoes == ASSUME W!WalkerAssumption, WalkInv, [W!Next]_(W!vars) PROVE WalkInv'
<1>0. at # 0 => at \in W!Nodes
  BY DEF WalkInv, WalkTypesOK
<1>1. CASE W!Pass
  BY <1>0, <1>1, QuietStep DEF W!Pass
<1>2. CASE W!Skip
  BY <1>0, <1>2, QuietStep DEF W!Skip
<1>3. CASE W!EmitImpl
  <2>1. W!KindFor(at) /\ "Impl" \in AllKinds
    BY <1>3 DEF W!EmitImpl, W!KindFor, AllKinds
  <2> QED BY <1>0, <1>3, <2>1, EmitStep DEF W!EmitImpl
<1>4. CASE W!Emit
  <2>1. at \in W!Nodes /\ ~entered /\ W!KindFor(at) /\ W!EmitAs(W!EmittedKind(at))
    BY <1>0, <1>4 DEF W!Emit
  <2>2. W!EmittedKind(at) \in AllKinds
    BY <2>1 DEF W!EmittedKind, AllKinds
  <2> QED BY <2>1, <2>2, EmitStep
<1>5. CASE W!Leave
  BY <1>5, LeaveStep
<1>6. CASE UNCHANGED W!vars
  <2>1. /\ UNCHANGED W!shape /\ tree' = tree
        /\ UNCHANGED <<at, entered, symbols, scope, kinds, qual, fnDepth, containerDepth>>
    BY <1>6 DEF W!vars, W!shape
  <2>2. /\ Tree' /\ W!Nodes' = W!Nodes /\ above' = above /\ AllKinds' = AllKinds /\ Symbols' = Symbols
        /\ \A n : Chain(n)' = Chain(n)
    BY <2>1, ShapeStays DEF WalkInv, WalkTypesOK
  <2>3. W!EmittedNodes' = W!EmittedNodes
    BY <2>1 DEF W!EmittedNodes
  <2>4. W!Around' = W!Around
    <3>1. (IF entered THEN at ELSE above[at]) = IF entered' THEN at' ELSE above[at']
      BY <2>1
    <3> QED BY <2>1, <2>3, <3>1, AroundNext DEF WalkInv, WalkTypesOK, W!Around
  <2>5. /\ Depth(kinds, W!FnKinds)' = Depth(kinds, W!FnKinds)
        /\ Depth(kinds, W!ContainerKinds)' = Depth(kinds, W!ContainerKinds)
    BY <2>1 DEF Depth, W!FnKinds, W!ContainerKinds
  <2>6. WalkTypesOK'
    BY <2>1, <2>2 DEF WalkInv, WalkTypesOK
  <2>7. InOrder'
    BY <2>1 DEF WalkInv, InOrder, W!KindFor
  <2>8. Visited'
    BY <2>1, <2>2, <2>3 DEF WalkInv, Visited
  <2>9. Stacked'
    BY <2>1, <2>5 DEF WalkInv, Stacked
  <2> QED BY <2>1, <2>4, <2>6, <2>7, <2>8, <2>9 DEF WalkInv
<1> QED BY <1>1, <1>2, <1>3, <1>4, <1>5, <1>6 DEF W!Next

LEMMA SameCount == ASSUME NEW Z PROVE W!Cardinality(Z) = Cardinality(Z)
  BY DEF W!Cardinality, Cardinality, W!IsFiniteSet, IsFiniteSet

LEMMA ScopesHold == WalkInv => W!ScopesFollowTree
<1> SUFFICES ASSUME WalkInv, at # 0 PROVE W!ScopesFollowTree
  BY DEF W!ScopesFollowTree
<1> DEFINE symbolOf(n) == CHOOSE i \in 1..Len(symbols) : symbols[i].node = n
<1>1. /\ qual = W!Around /\ scope \in Seq(Nat) /\ kinds \in Seq(AllKinds) /\ qual \in Seq(W!Nodes)
      /\ Len(scope) = Len(qual) /\ Len(kinds) = Len(qual)
  BY DEF WalkInv, WalkTypesOK, Stacked
<1>2. ASSUME NEW i \in 1..Len(qual)
      PROVE  scope[i] = symbols[symbolOf(qual[i])].id /\ kinds[i] = symbols[symbolOf(qual[i])].kind
  <2>1. (IF entered THEN at ELSE above[at]) \in {0} \cup W!Nodes /\ Tree
    <3>1. Tree /\ at \in W!Nodes
      BY DEF WalkInv, WalkTypesOK
    <3>2. above[at] \in 0..Len(above)
      BY <3>1, TreeIs
    <3> QED BY <3>1, <3>2, TreeIs
  <2>2. W!ToSet(qual) \subseteq W!EmittedNodes
    BY <1>1, <2>1, PathSet DEF W!Around
  <2>3. qual[i] \in W!EmittedNodes
    BY <1>1, <2>2 DEF W!ToSet
  <2>4. symbolOf(qual[i]) \in 1..Len(symbols) /\ symbols[symbolOf(qual[i])].node = qual[i]
    BY <2>3 DEF W!EmittedNodes
  <2> HIDE DEF symbolOf
  <2> QED BY <2>4 DEF WalkInv, Stacked
<1>3. /\ scope = [i \in 1..Len(qual) |-> scope[i]]
      /\ kinds = [i \in 1..Len(qual) |-> kinds[i]]
  BY <1>1
<1>4. /\ scope = [i \in 1..Len(qual) |-> symbols[symbolOf(qual[i])].id]
      /\ kinds = [i \in 1..Len(qual) |-> symbols[symbolOf(qual[i])].kind]
  <2> HIDE DEF symbolOf
  <2> QED BY <1>2, <1>3
<1>5. /\ fnDepth = Cardinality({i \in 1..Len(kinds) : kinds[i] \in W!FnKinds})
      /\ containerDepth = Cardinality({i \in 1..Len(kinds) : kinds[i] \in W!ContainerKinds})
  BY DEF WalkInv, Stacked, Depth
<1>6. /\ scope = [i \in 1..Len(W!Around) |-> symbols[symbolOf(W!Around[i])].id]
      /\ kinds = [i \in 1..Len(W!Around) |-> symbols[symbolOf(W!Around[i])].kind]
  <2> HIDE DEF symbolOf
  <2> QED BY <1>1, <1>4
<1>7. /\ fnDepth = W!Cardinality({i \in 1..Len(kinds) : kinds[i] \in W!FnKinds})
      /\ containerDepth = W!Cardinality({i \in 1..Len(kinds) : kinds[i] \in W!ContainerKinds})
  BY <1>5, SameCount
<1> QED BY <1>1, <1>6, <1>7 DEF W!ScopesFollowTree

\* Of two symbols around a call one is around the other, and the walk for the outer
\* one's calls stops there.
LEMMA CallsHold == WalkInv => W!CallsCountedOnce
<1> SUFFICES ASSUME WalkInv, NEW e \in W!CollectEdges, NEW f \in W!CollectEdges, e[2] = f[2]
             PROVE  e = f
  BY DEF W!CallsCountedOnce
<1>1. /\ Tree /\ symbols \in Seq(Symbols)
      /\ \A i \in 1..Len(symbols) : W!KindFor(symbols[i].node)
  BY DEF WalkInv, WalkTypesOK, InOrder
<1>2. ASSUME NEW g \in W!CollectEdges
      PROVE  /\ g = <<g[1], g[2]>> /\ g[1] \in W!Nodes /\ g[2] \in W!Nodes
             /\ W!KindFor(g[1]) /\ W!Reaches(g[1], g[2])
  <2>1. PICK i \in 1..Len(symbols), m \in W!Nodes : g = <<symbols[i].node, m>>
    BY DEF W!CollectEdges, W!Edges
  <2>2. symbols[i].node \in W!Nodes
    BY <1>1, SymbolsAre
  <2> QED BY <1>1, <2>1, <2>2 DEF W!CollectEdges
<1>3. ASSUME NEW n \in W!Nodes, NEW m \in W!Nodes
      PROVE  n \in W!ToSet(W!Ancestors(m)) <=> n \in Chain(above[m])
  BY DEF W!Ancestors, Chain
<1>4. ASSUME NEW a \in W!Nodes, NEW b \in W!Nodes, NEW m \in W!Nodes, a < b, W!KindFor(b),
             W!Reaches(a, m), W!Reaches(b, m)
      PROVE  FALSE
  <2>1. a \in Chain(above[m]) /\ b \in Chain(above[m])
    BY <1>3, <1>4 DEF W!Reaches, W!Below
  <2>2. above[m] \in 0..Len(above) /\ m \in 0..Len(above)
    BY <1>1, TreeIs
  <2>3. b \in 1..above[m] /\ a \in 1..above[m]
    BY <1>1, <2>1, <2>2, ChainUp
  <2>4. a \in Chain(b)
    <3>1. b \in a..above[m]
      BY <1>4, <2>3
    <3> QED BY <1>1, <2>1, <2>2, <3>1, Contiguous
  <2>5. a \in Chain(above[b])
    BY <1>1, <1>4, <2>3, <2>4, ChainStep
  <2>6. b \in W!Below(a)
    BY <1>3, <2>5 DEF W!Below
  <2>7. b \in W!ToSet(W!Ancestors(m))
    BY <1>3, <2>1
  <2> QED BY <1>4, <2>6, <2>7 DEF W!Reaches
<1>5. e[1] \in Nat /\ f[1] \in Nat
  BY <1>1, <1>2, TreeIs
<1>6. e[1] = f[1]
  <2>1. ~(e[1] < f[1])
    BY <1>2, <1>4
  <2>2. ~(f[1] < e[1])
    BY <1>2, <1>4
  <2> QED BY <1>5, <2>1, <2>2
<1> QED BY <1>2, <1>6

\* The walks of a behaviour of the pipeline are Walker's.
LEMMA WalkStays ==
    ASSUME part = "walker" => WalkInv, [Next]_vars PROVE (part = "walker" => WalkInv)'
<1> SUFFICES ASSUME part' = "walker" PROVE WalkInv'
  OBVIOUS
<1>1. CASE WalkerStep
  BY <1>1, Bounds, WalkGoes DEF WalkerStep
<1>2. CASE part = "walker" /\ UNCHANGED vars
  <2>1. UNCHANGED W!vars
    BY <1>2 DEF vars, walk, W!vars
  <2> QED BY <1>2, <2>1, Bounds, WalkGoes
<1>3. part = part'
  BY DEF Next, WalkerStep, IndexStep, RankStep, TurboStep, SymbolsStep,
         FilesStep, vars
<1>4. ~IndexStep /\ ~RankStep /\ ~TurboStep /\ ~SymbolsStep /\ ~FilesStep
  BY <1>3 DEF IndexStep, RankStep, TurboStep, SymbolsStep, FilesStep
<1> QED BY <1>1, <1>2, <1>3, <1>4 DEF Next

LEMMA WalkAlways == Spec => [](part = "walker" => WalkInv)
<1>1. Init => (part = "walker" => WalkInv)
  BY Bounds, WalkBegins DEF Init, WalkerInit, IndexInit, RankInit, TurboInit,
     SymbolsInit, FilesInit
<1>2. (part = "walker" => WalkInv) /\ [Next]_vars => (part = "walker" => WalkInv)'
  BY WalkStays
<1> QED BY <1>1, <1>2, PTL DEF Spec

\* Whatever the walk of a file's tree passed over, skipped or emitted before, the open
\* scopes are the emitted symbols around the current node (walk_node, push_scope and
\* pop_scope in walker.rs).
THEOREM ScopesFollow == Spec => []ScopesFollowTree
<1>1. (part = "walker" => WalkInv) => ScopesFollowTree
  BY ScopesHold DEF ScopesFollowTree
<1> QED BY <1>1, WalkAlways, PTL

\* No call is attributed to two symbols, however deeply one is nested in another
\* (collect_edges_recursive in walker.rs).
THEOREM CallsOnce == Spec => []CallsCountedOnce
<1>1. (part = "walker" => WalkInv) => CallsCountedOnce
  BY CallsHold DEF CallsCountedOnce
<1> QED BY <1>1, WalkAlways, PTL

-----------------------------------------------------------------------------
(* Recursion over numbers.                                                *)

\* A recursion over the numbers up to n has a solution, in the set that it stays in.
Steps(n, A) == [1..n -> [A -> A]]
Solves(f, n, base, step) == f[0] = base /\ \A i \in 1..n : f[i] = step[i][f[i - 1]]

LEMMA Recursion ==
    ASSUME NEW N \in Nat, NEW A, NEW base \in A, NEW step \in Steps(N, A)
    PROVE  \E f \in [0..N -> A] : Solves(f, N, base, step)
<1> DEFINE Upto(k) == k <= N => \E f \in [0..k -> A] : Solves(f, k, base, step)
           Y == {k \in Nat : Upto(k)}
<1>1. Upto(0)
  <2> DEFINE f == [i \in 0..0 |-> base]
  <2>1. f \in [0..0 -> A] /\ f[0] = base /\ 1..0 = {}
    OBVIOUS
  <2> HIDE DEF f
  <2> QED BY <2>1 DEF Solves
<1>2. ASSUME NEW k \in Nat, Upto(k) PROVE Upto(k + 1)
  <2> SUFFICES ASSUME k + 1 <= N
               PROVE  \E f \in [0..(k + 1) -> A] : Solves(f, k + 1, base, step)
    OBVIOUS
  <2>1. PICK f \in [0..k -> A] : f[0] = base /\ \A i \in 1..k : f[i] = step[i][f[i - 1]]
    BY <1>2 DEF Solves
  <2> DEFINE g == [i \in 0..(k + 1) |-> IF i = k + 1 THEN step[k + 1][f[k]] ELSE f[i]]
  <2>2. f[k] \in A /\ k + 1 \in 1..N /\ step[k + 1][f[k]] \in A
    BY <2>1 DEF Steps
  <2>3. g \in [0..(k + 1) -> A]
    BY <2>1, <2>2
  <2>4. g[0] = base
    BY <2>1
  <2>5. ASSUME NEW i \in 1..(k + 1) PROVE g[i] = step[i][g[i - 1]]
    <3>1. g[i - 1] = f[i - 1]
      OBVIOUS
    <3>2. CASE i = k + 1
      BY <3>1, <3>2
    <3>3. CASE i \in 1..k
      BY <2>1, <3>1, <3>3
    <3> QED BY <3>2, <3>3
  <2> HIDE DEF g
  <2> QED BY <2>3, <2>4, <2>5 DEF Solves
<1>3. Y = Nat
  <2> HIDE DEF Upto
  <2>1. 0 \in Y /\ \A n \in Y : n + 1 \in Y
    BY <1>1, <1>2
  <2> HIDE DEF Y
  <2> QED BY <2>1, NatSet DEF Y
<1>4. Upto(N)
  BY <1>3
<1> QED BY <1>4

-----------------------------------------------------------------------------
(* The symbol index and its calls (DslIndex).                             *)

LEMMA SameCountD == ASSUME NEW Z PROVE D!Cardinality(Z) = Cardinality(Z)
  BY DEF D!Cardinality, Cardinality, D!IsFiniteSet, IsFiniteSet

LEMMA MinIs ==
    ASSUME NEW Z \in SUBSET Int, NEW x \in Z, \A y \in Z : x <= y
    PROVE  D!Min(Z) = x
<1>1. \A y \in Z : (\A z \in Z : y <= z) => y = x
  OBVIOUS
<1> QED BY <1>1 DEF D!Min

\* Leaving out the directories that only hold sources leaves names.
LEMMA OwnDirsType ==
    ASSUME NEW dirs \in Seq(STRING)
    PROVE  D!OwnDirs(dirs) \in Seq(STRING)
<1> DEFINE N == Len(dirs)
           A == Seq(STRING)
           base == <<>>
           Step(f, i) == IF i = 0 THEN <<>>
                         ELSE IF dirs[i] \in D!SrcRoot THEN f[i - 1] ELSE Append(f[i - 1], dirs[i])
           step == [i \in 1..N |-> [a \in A |->
                      IF dirs[i] \in D!SrcRoot THEN a ELSE Append(a, dirs[i])]]
<1>1. N \in Nat /\ base \in A /\ step \in Steps(N, A)
  <2>1. \A i \in 1..N, a \in A : dirs[i] \in STRING /\ Append(a, dirs[i]) \in A
    OBVIOUS
  <2>2. \A i \in 1..N : [a \in A |-> IF dirs[i] \in D!SrcRoot THEN a ELSE Append(a, dirs[i])]
                          \in [A -> A]
    BY <2>1
  <2>3. <<>> \in A /\ N \in Nat
    OBVIOUS
  <2> HIDE DEF A, N
  <2> QED BY <2>2, <2>3 DEF Steps
<1>2. PICK f \in [0..N -> A] : Solves(f, N, base, step)
  <2> HIDE DEF N, A, base, step
  <2> QED BY <1>1, Recursion
<1>3. f = [i \in 0..N |-> Step(f, i)]
  <2>1. ASSUME NEW i \in 0..N PROVE f[i] = Step(f, i)
    <3>1. CASE i = 0
      BY <1>2, <3>1 DEF Solves
    <3>2. CASE i # 0
      <4>1. i \in 1..N /\ f[i - 1] \in A
        BY <3>2, <1>2
      <4> QED BY <1>2, <3>2, <4>1 DEF Solves
    <3> QED BY <3>1, <3>2
  <2> HIDE DEF Step
  <2> QED BY <1>2, <2>1
<1> DEFINE g == CHOOSE h : h = [i \in 0..N |-> Step(h, i)]
<1>4. g = [i \in 0..N |-> Step(g, i)]
  <2> HIDE DEF Step
  <2> QED BY <1>3
<1>5. D!OwnDirs(dirs) = g[N]
  BY DEF D!OwnDirs
<1> HIDE DEF g
<1>6. \A i \in 0..N : g[i] = Step(g, i)
  <2> HIDE DEF Step
  <2> QED BY <1>4
<1>7. \A k \in Nat : k <= N => g[k] \in A
  <2> DEFINE Y == {k \in Nat : k <= N => g[k] \in A}
  <2>1. 0 \in Y
    <3>1. g[0] = <<>>
      BY <1>6
    <3>2. g[0] \in A
      BY <3>1
    <3> QED BY <3>2
  <2>2. ASSUME NEW k \in Y PROVE k + 1 \in Y
    <3> SUFFICES ASSUME k + 1 <= N PROVE g[k + 1] \in A
      OBVIOUS
    <3>1. k + 1 \in 1..N /\ k + 1 # 0 /\ (k + 1) - 1 = k /\ g[k] \in A
      OBVIOUS
    <3>2. g[k + 1] = IF dirs[k + 1] \in D!SrcRoot THEN g[k] ELSE Append(g[k], dirs[k + 1])
      BY <1>6, <3>1
    <3>3. dirs[k + 1] \in STRING
      BY <3>1
    <3>4. \A a \in A : Append(a, dirs[k + 1]) \in A
      BY <3>3
    <3> HIDE DEF A
    <3> QED BY <3>1, <3>2, <3>4
  <2> HIDE DEF Y
  <2>3. Y \in SUBSET Nat
    BY DEF Y
  <2>4. Y = Nat
    BY <2>1, <2>2, <2>3, NatSet
  <2> QED BY <2>4 DEF Y
<1> QED BY <1>5, <1>7

LEMMA Greatest ==
    ASSUME NEW N \in Nat, NEW Z \in SUBSET (0..N), Z # {}
    PROVE  \E x \in Z : \A y \in Z : y <= x
<1> DEFINE Y == {N - x : x \in Z}
<1>1. Y \in SUBSET Nat /\ Y # {}
  <2>1. \A x \in Z : N - x \in Nat
    OBVIOUS
  <2> QED BY <2>1
<1>2. PICK d \in Y : \A y \in Y : d <= y
  <2> HIDE DEF Y
  <2> QED BY <1>1, Least
<1>3. PICK x \in Z : d = N - x
  BY <1>2
<1>4. ASSUME NEW y \in Z PROVE y <= x
  <2>1. N - y \in Y /\ y \in Int /\ x \in Int
    OBVIOUS
  <2>2. N - x <= N - y
    BY <1>2, <1>3, <2>1
  <2> QED BY <2>1, <2>2
<1> QED BY <1>4

LEMMA MaxIs ==
    ASSUME NEW Z \in SUBSET Int, NEW x \in Z, \A y \in Z : y <= x
    PROVE  D!Max(Z) = x
<1>1. \A y \in Z : (\A z \in Z : z <= y) => y = x
  OBVIOUS
<1> QED BY <1>1 DEF D!Max

\* What two sequences are together.
LEMMA Joined ==
    ASSUME NEW A, NEW s \in Seq(A), NEW t \in Seq(A)
    PROVE  /\ s \o t \in Seq(A) /\ Len(s) \in Nat /\ Len(t) \in Nat
           /\ Len(s \o t) = Len(s) + Len(t)
           /\ \A i \in 1..Len(s) : (s \o t)[i] = s[i]
           /\ \A i \in 1..Len(t) : (s \o t)[Len(s) + i] = t[i]
           /\ \A i \in 1..Len(s \o t) : i \in 1..Len(s) \/ i - Len(s) \in 1..Len(t)
  OBVIOUS

SymbolRecords ==
    [id : Nat, name : STRING, qualified : D!Paths, file : Nat, source : Nat, parent : SUBSET Nat]
LayoutRecords ==
    [crate : STRING, mods : D!Paths, stem : STRING, dirs : D!Paths, rust : BOOLEAN]
FileRecords == [layout : LayoutRecords, imports : D!Paths]

IndexTypesOK ==
    /\ next \in Nat \ {0} /\ resolved \in BOOLEAN
    /\ files \in Seq(FileRecords) /\ symbols \in Seq(SymbolRecords)

\* A symbol's id is its place; it is of a file that was parsed; it has its name, alone or
\* under the type.
Placed ==
    \A i \in 1..Len(symbols) :
        /\ symbols[i].id = i - 1 /\ symbols[i].file < Len(files)
        /\ symbols[i].qualified \in {<<symbols[i].name>>, <<Type, symbols[i].name>>}

IndexInv ==
    /\ IndexTypesOK /\ Placed
    /\ ~resolved => edges \in SUBSET [from : 0..(Len(symbols) - 1), to : D!Paths]
    /\ resolved => next > Len(Layout)
    /\ D!PlainNamesResolve

LEMMA IndexBegins == ASSUME D!Init PROVE IndexInv
<1>1. /\ next = 1 /\ files = <<>> /\ symbols = <<>> /\ edges = {} /\ resolved = FALSE
  BY DEF D!Init
<1>2. \A A : <<>> \in Seq(A)
  OBVIOUS
<1>3. IndexTypesOK
  <2>1. <<>> \in Seq(FileRecords)
    BY <1>2
  <2>2. <<>> \in Seq(SymbolRecords)
    BY <1>2
  <2>3. 1 \in Nat \ {0} /\ FALSE \in BOOLEAN
    OBVIOUS
  <2> QED BY <1>1, <2>1, <2>2, <2>3 DEF IndexTypesOK
<1>4. Len(<<>>) = 0
  OBVIOUS
<1> QED BY <1>1, <1>3, <1>4 DEF IndexInv, Placed, D!PlainNamesResolve

\* A number that wraps becomes none larger.
LEMMA WrapsBelow ==
    ASSUME NEW n \in Nat, NEW w \in Nat \ {0}
    PROVE  n % w \in Nat /\ n % w <= n
<1>1. n % w \in 0..(w - 1)
  OBVIOUS
<1>2. CASE n < w
  <2>1. n % w = n
    BY <1>2
  <2> QED BY <2>1
<1>3. CASE w <= n
  BY <1>1, <1>3
<1> QED BY <1>2, <1>3

LEMMA ParseKeeps == ASSUME D!IndexAssumption, IndexInv, D!ParseFile PROVE IndexInv'
<1>1. /\ files \in Seq(FileRecords) /\ symbols \in Seq(SymbolRecords) /\ next \in Nat \ {0}
      /\ Len(symbols) \in Nat /\ Len(files) \in Nat
  BY DEF IndexInv, IndexTypesOK
<1>2. Layout \in Seq(LayoutRecords) /\ Layout # <<>>
  BY DEF D!IndexAssumption, LayoutRecords
<1>3. /\ next <= Len(Layout) /\ next' = next + 1 /\ resolved' = resolved
  BY DEF D!ParseFile
<1>4. /\ Len(Layout) \in Nat
      /\ Layout[next] \in LayoutRecords /\ Layout[1] \in LayoutRecords
  BY <1>1, <1>2, <1>3
<1>5. ~resolved
  BY <1>1, <1>3, <1>4 DEF IndexInv
<1>6. PICK k \in 0..(MaxSymbols - Len(symbols)) :
      \E shape \in [1..k -> D!Shapes], calls \in [1..k -> Lookups \cup {<<>>}],
         imports \in {<<>>} \cup {<<n, Layout[1].stem>> : n \in Names} :
         /\ \A i \in 1..k : Len(shape[i]) = 2 => D!TypesBefore(shape, i) # {}
         /\ imports # <<>> => k > 0 /\ next > 1
         /\ files' = Append(files, [layout |-> Layout[next], imports |-> imports])
         /\ symbols' = symbols \o D!SymbolsOf(shape)
         /\ edges' = edges \cup D!EdgesOf(calls)
  BY DEF D!ParseFile
<1>7. PICK shape \in [1..k -> D!Shapes], calls \in [1..k -> Lookups \cup {<<>>}],
         imports \in {<<>>} \cup {<<n, Layout[1].stem>> : n \in Names} :
         /\ \A i \in 1..k : Len(shape[i]) = 2 => D!TypesBefore(shape, i) # {}
         /\ files' = Append(files, [layout |-> Layout[next], imports |-> imports])
         /\ symbols' = symbols \o D!SymbolsOf(shape)
         /\ edges' = edges \cup D!EdgesOf(calls)
  BY <1>6
<1> DEFINE new == D!SymbolsOf(shape)
<1>8. k \in Nat
  BY <1>1, <1>6 DEF D!IndexAssumption
<1>8a. D!FileIndex \in Nat /\ D!FileIndex <= Len(files)
  <2>1. Len(files) \in Nat /\ FileIds \in Nat \ {0}
    BY <1>1 DEF D!IndexAssumption
  <2> QED BY <2>1, WrapsBelow DEF D!FileIndex
<1>9. ASSUME NEW i \in 1..k
      PROVE  /\ new[i] \in SymbolRecords
             /\ new[i].id = Len(symbols) + i - 1 /\ new[i].file \in Nat /\ new[i].file <= Len(files)
             /\ new[i].qualified \in {<<new[i].name>>, <<Type, new[i].name>>}
  <2>1. PICK n \in Names \cup {Type} : shape[i] = <<n>> \/ (shape[i] = <<Type, n>> /\ n \in Names)
    BY <1>7 DEF D!Shapes
  <2>2. n \in STRING /\ Type \in STRING
    BY DEF D!IndexAssumption
  <2>3. D!Last(shape[i]) = n
    <3>1. D!Last(<<n>>) = n /\ D!Last(<<Type, n>>) = n
      BY DEF D!Last
    <3> QED BY <2>1, <3>1
  <2>4. shape[i] \in D!Paths
    <3>1. <<n>> \in Seq(STRING) /\ <<Type, n>> \in Seq(STRING)
      BY <2>2
    <3> QED BY <2>1, <3>1 DEF D!Paths
  <2> DEFINE up == IF Len(shape[i]) = 1 THEN {}
                   ELSE {Len(symbols) + D!Max(D!TypesBefore(shape, i)) - 1}
  <2>5. up \in SUBSET Nat
    <3>1. CASE shape[i] = <<n>>
      <4>1. Len(shape[i]) = 1
        BY <3>1
      <4> QED BY <4>1
    <3>2. CASE shape[i] = <<Type, n>>
      <4>1. Len(shape[i]) = 2
        BY <3>2
      <4>2. D!TypesBefore(shape, i) # {} /\ D!TypesBefore(shape, i) \in SUBSET (0..k)
        <5>1. D!TypesBefore(shape, i) # {}
          BY <1>7, <4>1
        <5>2. \A j \in 1..(i - 1) : j \in 0..k
          BY <1>8
        <5> QED BY <5>1, <5>2 DEF D!TypesBefore
      <4>3. PICK m \in D!TypesBefore(shape, i) : \A y \in D!TypesBefore(shape, i) : y <= m
        BY <1>8, <4>2, Greatest
      <4>4. D!Max(D!TypesBefore(shape, i)) = m
        BY <1>8, <4>2, <4>3, MaxIs
      <4>5. m \in 1..(i - 1)
        BY <4>3 DEF D!TypesBefore
      <4>6. Len(symbols) + m - 1 \in Nat
        BY <1>1, <4>5
      <4> QED BY <4>1, <4>4, <4>6
    <3> QED BY <2>1, <3>1, <3>2
  <2> HIDE DEF up
  <2>6. new[i] = [id |-> Len(symbols) + i - 1, name |-> n, qualified |-> shape[i],
                  file |-> D!FileIndex, source |-> next, parent |-> up]
    BY <1>7, <2>3 DEF D!SymbolsOf, up
  <2>7. Len(symbols) + i - 1 \in Nat
    BY <1>1
  <2> HIDE DEF new
  <2>8. new[i] \in SymbolRecords
    <3> DEFINE pid == Len(symbols) + i - 1
               pfile == D!FileIndex
    <3>2. /\ pid \in Nat /\ pfile \in Nat /\ next \in Nat
          /\ shape[i] \in D!Paths /\ n \in STRING
      BY <1>1, <1>8a, <2>2, <2>4, <2>7
    <3>3. new[i] = [id |-> pid, name |-> n, qualified |-> shape[i], file |-> pfile,
                    source |-> next, parent |-> up]
      BY <2>6
    <3> HIDE DEF pid, pfile
    <3> QED BY <2>5, <3>2, <3>3 DEF SymbolRecords
  <2>9. /\ new[i].name = n /\ new[i].qualified = shape[i]
        /\ new[i].id = Len(symbols) + i - 1
        /\ new[i].file \in Nat /\ new[i].file <= Len(files)
    BY <1>8a, <2>6
  <2>10. new[i].qualified \in {<<new[i].name>>, <<Type, new[i].name>>}
    BY <2>1, <2>9
  <2> QED BY <2>8, <2>9, <2>10
<1>10. new \in Seq(SymbolRecords) /\ Len(new) = k
  <2>1. DOMAIN new = 1..k /\ new = [i \in 1..k |-> new[i]]
    BY <1>7 DEF D!SymbolsOf
  <2> HIDE DEF new
  <2> QED BY <1>8, <1>9, <2>1
<1> HIDE DEF new
<1>11. /\ symbols' \in Seq(SymbolRecords) /\ Len(symbols') = Len(symbols) + k
       /\ \A i \in 1..Len(symbols) : symbols'[i] = symbols[i]
       /\ \A i \in 1..k : symbols'[Len(symbols) + i] = new[i]
       /\ \A i \in 1..Len(symbols') : i \in 1..Len(symbols) \/ i - Len(symbols) \in 1..k
  <2>1. symbols' = symbols \o new
    BY <1>7 DEF new
  <2>2. symbols \in Seq(SymbolRecords) /\ new \in Seq(SymbolRecords)
    BY <1>1, <1>10
  <2>3. /\ symbols \o new \in Seq(SymbolRecords)
        /\ Len(symbols \o new) = Len(symbols) + Len(new)
        /\ \A i \in 1..Len(symbols) : (symbols \o new)[i] = symbols[i]
        /\ \A i \in 1..Len(new) : (symbols \o new)[Len(symbols) + i] = new[i]
        /\ \A i \in 1..Len(symbols \o new) :
             i \in 1..Len(symbols) \/ i - Len(symbols) \in 1..Len(new)
    BY <2>2, Joined
  <2>4. Len(new) = k
    BY <1>10
  <2> QED BY <2>1, <2>3, <2>4
<1>12. files' \in Seq(FileRecords) /\ Len(files') = Len(files) + 1
  <2>1. imports \in D!Paths
    <3>1. Layout[1].stem \in STRING
      BY <1>4 DEF LayoutRecords
    <3>2. \A n \in Names : n \in STRING
      BY DEF D!IndexAssumption
    <3>3. <<>> \in Seq(STRING)
      OBVIOUS
    <3>4. \A n \in Names : <<n, Layout[1].stem>> \in Seq(STRING)
      BY <3>1, <3>2
    <3> QED BY <1>7, <3>3, <3>4 DEF D!Paths
  <2>2. [layout |-> Layout[next], imports |-> imports] \in FileRecords
    BY <1>4, <2>1 DEF FileRecords
  <2> QED BY <1>1, <1>7, <2>2
<1>13. IndexTypesOK'
  BY <1>1, <1>3, <1>11, <1>12 DEF IndexInv, IndexTypesOK
<1>14. Placed'
  <2> SUFFICES ASSUME NEW i \in 1..Len(symbols')
               PROVE  /\ symbols'[i].id = i - 1 /\ symbols'[i].file < Len(files')
                      /\ symbols'[i].qualified \in {<<symbols'[i].name>>, <<Type, symbols'[i].name>>}
    BY DEF Placed
  <2>1. CASE i \in 1..Len(symbols)
    <3>1. symbols[i].file \in Nat
      <4>1. symbols[i] \in SymbolRecords
        BY <1>1, <2>1
      <4> QED BY <4>1 DEF SymbolRecords
    <3> QED BY <1>1, <1>11, <1>12, <2>1, <3>1 DEF IndexInv, Placed
  <2>2. CASE i - Len(symbols) \in 1..k
    <3> DEFINE j == i - Len(symbols)
    <3>1. i = Len(symbols) + j /\ j \in 1..k
      BY <1>1, <2>2
    <3> HIDE DEF j
    <3>2. symbols'[i] = new[j]
      BY <1>11, <3>1
    <3> QED BY <1>1, <1>9, <1>12, <3>1, <3>2
  <2> QED BY <1>11, <2>1, <2>2
<1>15. edges' \in SUBSET [from : 0..(Len(symbols') - 1), to : D!Paths]
  <2>1. \A e \in edges : e \in [from : 0..(Len(symbols') - 1), to : D!Paths]
    BY <1>1, <1>5, <1>8, <1>11 DEF IndexInv
  <2>2. ASSUME NEW e \in D!EdgesOf(calls) PROVE e \in [from : 0..(Len(symbols') - 1), to : D!Paths]
    <3>1. PICK i \in 1..k : e = [from |-> Len(symbols) + i - 1, to |-> calls[i]] /\ calls[i] # <<>>
      BY <1>7 DEF D!EdgesOf
    <3>2. calls[i] \in D!Paths
      BY <1>7, <3>1 DEF D!IndexAssumption
    <3>3. Len(symbols) + i - 1 \in 0..(Len(symbols') - 1)
      BY <1>1, <1>8, <1>11
    <3> QED BY <3>1, <3>2, <3>3
  <2>3. \A e \in edges' : e \in [from : 0..(Len(symbols') - 1), to : D!Paths]
    BY <1>7, <2>1, <2>2
  <2> QED BY <2>3
<1> QED BY <1>3, <1>5, <1>13, <1>14, <1>15 DEF IndexInv, D!PlainNamesResolve

\* The indexes of the symbols of a name, and their ids.
Places(path) == {i \in 1..Len(symbols) : <<symbols[i].name>> = path}
Named(path) == {s \in D!Ids : <<symbols[s + 1].name>> = path}
Local(path, file) == {s \in Named(path) : symbols[s + 1].file = file}

\* What a call by a plain name comes to.
PlainTarget(path, file) ==
    IF D!Cardinality(Named(path)) = 1 THEN Named(path)
    ELSE IF Local(path, file) = {} THEN {} ELSE {D!Min(Local(path, file))}

LEMMA One ==
    ASSUME NEW N \in Nat, NEW Z \in SUBSET (0..N)
    PROVE  D!Cardinality(Z) = 1 <=> \E x : Z = {x}
<1>1. IsFiniteSet(0..N)
  BY FS_Interval
<1>2. IsFiniteSet(Z)
  BY <1>1, FS_Subset
<1>3. D!Cardinality(Z) = Cardinality(Z)
  BY SameCountD
<1> QED BY <1>2, <1>3, FS_Singleton

LEMMA SymbolsTyped ==
    ASSUME IndexInv, NEW i \in 1..Len(symbols)
    PROVE  /\ Len(symbols) \in Nat /\ symbols[i].id = i - 1
           /\ symbols[i].name \in STRING /\ symbols[i].file \in Nat
           /\ symbols[i].qualified \in D!Paths
           /\ symbols[i].qualified \in {<<symbols[i].name>>, <<Type, symbols[i].name>>}
           /\ D!FileOf(symbols[i]) \in FileRecords
<1>1. symbols \in Seq(SymbolRecords) /\ files \in Seq(FileRecords)
  BY DEF IndexInv, IndexTypesOK
<1>2. symbols[i] \in SymbolRecords /\ Len(symbols) \in Nat
  BY <1>1
<1>3. symbols[i].name \in STRING /\ symbols[i].file \in Nat /\ symbols[i].qualified \in D!Paths
  BY <1>2 DEF SymbolRecords
<1>4. symbols[i].id = i - 1 /\ symbols[i].file < Len(files)
      /\ symbols[i].qualified \in {<<symbols[i].name>>, <<Type, symbols[i].name>>}
  BY DEF IndexInv, Placed
<1>5. symbols[i].file + 1 \in 1..Len(files)
  BY <1>1, <1>3, <1>4
<1>6. files[symbols[i].file + 1] \in FileRecords
  BY <1>1, <1>5
<1> QED BY <1>2, <1>3, <1>4, <1>6 DEF D!FileOf

LEMMA IdsAre ==
    ASSUME IndexInv
    PROVE  Len(symbols) \in Nat /\ D!Ids = 0..(Len(symbols) - 1)
<1>1. Len(symbols) \in Nat
  BY DEF IndexInv, IndexTypesOK
<1>2. \A i \in 1..Len(symbols) : symbols[i].id = i - 1
  BY DEF IndexInv, Placed
<1>3. \A x : x \in D!Ids <=> \E i \in 1..Len(symbols) : x = i - 1
  BY <1>2 DEF D!Ids
<1>4. \A x \in 0..(Len(symbols) - 1) : x + 1 \in 1..Len(symbols) /\ x = (x + 1) - 1
  BY <1>1
<1>5. \A i \in 1..Len(symbols) : i - 1 \in 0..(Len(symbols) - 1)
  BY <1>1
<1>6. \A x \in 0..(Len(symbols) - 1) : x \in D!Ids
  BY <1>3, <1>4
<1>7. \A x \in D!Ids : x \in 0..(Len(symbols) - 1)
  BY <1>3, <1>5
<1> QED BY <1>1, <1>6, <1>7

\* The places of a name are the ids of it, one further.
LEMMA PlacesNamed ==
    ASSUME IndexInv, NEW path
    PROVE  /\ Places(path) \in SUBSET (0..Len(symbols))
           /\ Named(path) \in SUBSET (0..Len(symbols))
           /\ \A i \in Places(path) : i \in Nat /\ i - 1 \in Named(path)
           /\ \A s \in Named(path) : s \in Nat /\ s + 1 \in Places(path)
           /\ D!Cardinality(Places(path)) = 1 <=> D!Cardinality(Named(path)) = 1
<1>1. Len(symbols) \in Nat /\ D!Ids = 0..(Len(symbols) - 1)
  BY IdsAre
<1>2. /\ Places(path) \in SUBSET (0..Len(symbols))
      /\ Named(path) \in SUBSET (0..Len(symbols))
  BY <1>1 DEF Places, Named
<1>3. \A i \in Places(path) : i \in Nat /\ i - 1 \in Named(path)
  BY <1>1 DEF Places, Named
<1>4. \A s \in Named(path) : s \in Nat /\ s + 1 \in Places(path)
  BY <1>1 DEF Places, Named
<1>5. (\E x : Places(path) = {x}) => \E x : Named(path) = {x}
  <2> SUFFICES ASSUME NEW x, Places(path) = {x} PROVE Named(path) = {x - 1}
    OBVIOUS
  <2> QED BY <1>3, <1>4
<1>6. (\E x : Named(path) = {x}) => \E x : Places(path) = {x}
  <2> SUFFICES ASSUME NEW x, Named(path) = {x} PROVE Places(path) = {x + 1}
    OBVIOUS
  <2> QED BY <1>3, <1>4
<1>7. D!Cardinality(Places(path)) = 1 <=> D!Cardinality(Named(path)) = 1
  BY <1>1, <1>2, <1>5, <1>6, One
<1> QED BY <1>2, <1>3, <1>4, <1>7

LEMMA Longer ==
    ASSUME NEW n, NEW a \in Seq(STRING), NEW b \in Seq(STRING), Len(a) > 0, Len(b) > 0
    PROVE  a \o b \in Seq(STRING) /\ Len(a \o b) > 1 /\ <<n>> # a \o b
  OBVIOUS

\* A plain name is no alias: aliases have two names or more.
LEMMA NoAlias ==
    ASSUME D!IndexAssumption, IndexInv, NEW i \in 1..Len(symbols), NEW n
    PROVE  <<n>> \notin D!SymbolLookupAliases(symbols[i])
<1> DEFINE s == symbols[i]
           f == D!FileOf(s).layout
           dirs == D!OwnDirs(f.dirs)
<1>1. /\ s.name \in STRING /\ s.qualified \in Seq(STRING) /\ Type \in STRING
      /\ s.qualified \in {<<s.name>>, <<Type, s.name>>}
      /\ D!FileOf(s) \in FileRecords
  BY SymbolsTyped DEF D!Paths, D!IndexAssumption
<1>2. f \in LayoutRecords
  BY <1>1 DEF FileRecords
<1>3. f.crate \in STRING /\ f.stem \in STRING /\ f.mods \in Seq(STRING) /\ f.dirs \in Seq(STRING)
  BY <1>2 DEF LayoutRecords, D!Paths
<1>4. dirs \in Seq(STRING)
  BY <1>3, OwnDirsType
<1>5. Len(s.qualified) > 0
  <2>1. \A q : Len(<<q>>) > 0 /\ Len(<<Type, q>>) > 0
    OBVIOUS
  <2>2. CASE s.qualified = <<s.name>>
    BY <2>1, <2>2
  <2>3. CASE s.qualified = <<Type, s.name>>
    BY <2>1, <2>3
  <2> QED BY <1>1, <2>2, <2>3
<1> HIDE DEF f, dirs
<1>6. <<n>> # <<f.stem, s.name>>
  OBVIOUS
<1>7. dirs # <<>> => <<n>> # dirs \o s.qualified
  <2>1. dirs # <<>> => Len(dirs) > 0
    BY <1>4
  <2> QED BY <1>1, <1>4, <1>5, <2>1, Longer
<1>8. dirs # <<>> => <<n>> # dirs \o <<f.stem>> \o s.qualified
  <2>1. <<f.stem>> \in Seq(STRING) /\ Len(<<f.stem>>) > 0
    BY <1>3
  <2>2. dirs # <<>> => Len(dirs) > 0
    BY <1>4
  <2>3. dirs # <<>> => dirs \o <<f.stem>> \in Seq(STRING) /\ Len(dirs \o <<f.stem>>) > 1
    BY <1>4, <2>1, <2>2, Longer
  <2>4. dirs # <<>> => Len(dirs \o <<f.stem>>) > 0
    BY <2>3
  <2> QED BY <1>1, <1>5, <2>3, <2>4, Longer
<1>9. <<n>> # <<f.crate>> \o f.mods \o s.qualified
  <2>1. <<f.crate>> \in Seq(STRING) /\ Len(<<f.crate>>) = 1
    BY <1>3
  <2>2. <<f.crate>> \o f.mods \in Seq(STRING) /\ Len(<<f.crate>> \o f.mods) > 0
    BY <1>3, <2>1
  <2> QED BY <1>1, <1>5, <2>2, Longer
<1> QED BY <1>6, <1>7, <1>8, <1>9 DEF D!SymbolLookupAliases, f, dirs

\* A plain name is a key of the symbol that alone has it.
LEMMA PlainKey ==
    ASSUME D!IndexAssumption, IndexInv, NEW i \in 1..Len(symbols), NEW n
    PROVE  <<n>> \in D!KeysOf(symbols[i]) <=>
             i \in Places(<<n>>) /\ D!Cardinality(Places(<<n>>)) = 1
<1>1. <<n>> \notin D!SymbolLookupAliases(symbols[i])
  BY NoAlias
<1>2. symbols[i].qualified \in {<<symbols[i].name>>, <<Type, symbols[i].name>>}
  BY SymbolsTyped
<1>3. <<n>> = <<symbols[i].name>> <=> n = symbols[i].name
  OBVIOUS
<1>4. <<n>> # <<Type, symbols[i].name>>
  OBVIOUS
<1>5. <<n>> \in D!KeysOf(symbols[i]) <=> n = symbols[i].name /\ D!IsUnique(symbols[i])
  <2>1. <<n>> = symbols[i].qualified => symbols[i].qualified = <<symbols[i].name>>
    BY <1>2, <1>4
  <2> QED BY <1>1, <1>3, <2>1 DEF D!KeysOf
<1>6. ASSUME n = symbols[i].name
      PROVE  D!IsUnique(symbols[i]) <=> D!Cardinality(Places(<<n>>)) = 1
  <2>1. {j \in 1..Len(symbols) : symbols[j].name = symbols[i].name} = Places(<<n>>)
    BY <1>6 DEF Places
  <2> QED BY <2>1 DEF D!IsUnique
<1>7. i \in Places(<<n>>) <=> n = symbols[i].name
  BY <1>3 DEF Places
<1> QED BY <1>5, <1>6, <1>7

\* qualified_map has a plain name if one symbol bears it.
LEMMA PlainMap ==
    ASSUME D!IndexAssumption, IndexInv, NEW n
    PROVE  D!QualifiedMap(<<n>>) =
             IF D!Cardinality(Named(<<n>>)) = 1 THEN Named(<<n>>) ELSE {}
<1> DEFINE offering == {i \in 1..Len(symbols) : <<n>> \in D!KeysOf(symbols[i])}
<1>1. offering = {i \in Places(<<n>>) : D!Cardinality(Places(<<n>>)) = 1}
  <2>1. Places(<<n>>) \in SUBSET (1..Len(symbols))
    BY DEF Places
  <2> QED BY <2>1, PlainKey
<1>2. D!QualifiedMap(<<n>>) = IF offering = {} THEN {} ELSE {D!Min(offering) - 1}
  BY DEF D!QualifiedMap
<1> HIDE DEF offering
<1>3. CASE D!Cardinality(Named(<<n>>)) = 1
  <2>1. D!Cardinality(Places(<<n>>)) = 1
    BY <1>3, PlacesNamed
  <2>2. Len(symbols) \in Nat /\ Places(<<n>>) \in SUBSET (0..Len(symbols))
    BY IdsAre, PlacesNamed
  <2>3. PICK x : Places(<<n>>) = {x}
    BY <2>1, <2>2, One
  <2>4. offering = {x} /\ x \in Int
    BY <1>1, <2>1, <2>2, <2>3
  <2>5. D!Min(offering) = x
    BY <2>4, MinIs
  <2>6. Named(<<n>>) = {x - 1}
    BY <2>2, <2>3, PlacesNamed
  <2> QED BY <1>2, <1>3, <2>4, <2>5, <2>6
<1>4. CASE D!Cardinality(Named(<<n>>)) # 1
  <2>1. offering = {}
    BY <1>1, <1>4, PlacesNamed
  <2> QED BY <1>2, <1>4, <2>1
<1> QED BY <1>3, <1>4

\* The caller's own file: the first symbol of that name in it.
LEMMA OwnFile ==
    ASSUME IndexInv, NEW path, NEW from
    PROVE  D!ResolveInSameFile(path, from) =
             IF Local(path, from.file) = {} THEN {} ELSE {D!Min(Local(path, from.file))}
<1> DEFINE own == {i \in 1..Len(symbols) : symbols[i].file = from.file /\ <<symbols[i].name>> = path}
           L == Local(path, from.file)
<1>1. D!ResolveInSameFile(path, from) = IF own = {} THEN {} ELSE {D!Min(own) - 1}
  BY DEF D!ResolveInSameFile
<1>2. own = {i \in Places(path) : symbols[i].file = from.file}
  BY DEF Places
<1>3. /\ \A i \in own : i \in Nat /\ i - 1 \in L
      /\ \A s \in L : s \in Nat /\ s + 1 \in own
  <2>1. \A i \in Places(path) : i \in Nat /\ i - 1 \in Named(path) /\ (i - 1) + 1 = i
    BY PlacesNamed
  <2>2. \A s \in Named(path) : s \in Nat /\ s + 1 \in Places(path)
    BY PlacesNamed
  <2> QED BY <1>2, <2>1, <2>2 DEF Local
<1> HIDE DEF own, L
<1>4. CASE L = {}
  <2>1. own = {}
    BY <1>3, <1>4
  <2> QED BY <1>1, <1>4, <2>1 DEF L
<1>5. CASE L # {}
  <2>1. L \in SUBSET Nat
    BY <1>3
  <2>2. PICK d \in L : \A y \in L : d <= y
    BY <1>5, <2>1, Least
  <2>3. D!Min(L) = d
    BY <2>1, <2>2, MinIs
  <2>4. d + 1 \in own /\ own \in SUBSET Int /\ d \in Nat
    BY <1>3
  <2>5. \A y \in own : d + 1 <= y
    <3>1. \A y \in own : y \in Nat /\ d <= y - 1
      BY <1>3, <2>2
    <3> QED BY <2>4, <3>1
  <2>6. D!Min(own) = d + 1
    BY <2>4, <2>5, MinIs
  <2>7. D!Min(own) - 1 = d /\ own # {}
    BY <2>4, <2>6
  <2> QED BY <1>1, <1>5, <2>3, <2>7 DEF L
<1> QED BY <1>4, <1>5

LEMMA FirstOfThese ==
    ASSUME NEW a, NEW b
    PROVE  D!FirstOf(<<a, {}, b, {}>>) = IF a # {} THEN a ELSE b
<1> DEFINE answers == <<a, {}, b, {}>>
           some == {i \in 1..Len(answers) : answers[i] # {}}
<1>1. /\ Len(answers) = 4 /\ answers[1] = a /\ answers[2] = {} /\ answers[3] = b
      /\ answers[4] = {}
  OBVIOUS
<1>2. D!FirstOf(answers) = IF some = {} THEN {} ELSE answers[D!Min(some)]
  BY DEF D!FirstOf
<1> HIDE DEF answers
<1>3. some \in SUBSET {1, 3} /\ (1 \in some <=> a # {}) /\ (3 \in some <=> b # {})
  BY <1>1
<1> HIDE DEF some
<1>4. CASE a # {}
  <2>1. D!Min(some) = 1
    <3>1. \A y \in some : 1 <= y
      BY <1>3
    <3> QED BY <1>3, <1>4, <3>1, MinIs
  <2> QED BY <1>1, <1>2, <1>3, <1>4, <2>1 DEF answers
<1>5. CASE a = {} /\ b # {}
  <2>1. D!Min(some) = 3
    <3>1. \A y \in some : 3 <= y
      BY <1>3, <1>5
    <3> QED BY <1>3, <1>5, <3>1, MinIs
  <2> QED BY <1>1, <1>2, <1>3, <1>5, <2>1 DEF answers
<1>6. CASE a = {} /\ b = {}
  <2>1. some = {}
    BY <1>3, <1>6
  <2> QED BY <1>2, <1>6, <2>1 DEF answers
<1> QED BY <1>4, <1>5, <1>6

\* A call by a plain name from a file without imports.
LEMMA PlainCall ==
    ASSUME D!IndexAssumption, IndexInv, NEW e, e.from \in 0..(Len(symbols) - 1),
           e.to \in D!Paths, Len(e.to) = 1, D!FileOf(symbols[e.from + 1]).imports = <<>>
    PROVE  D!Target(e) = PlainTarget(e.to, symbols[e.from + 1].file)
<1> DEFINE from == symbols[e.from + 1]
           path == D!RewriteRelativePath(e.to, D!FileOf(from).layout)
           n == e.to[1]
<1>1. e.to = <<n>>
  BY DEF D!Paths
<1>2. path = e.to
  <2>1. Len(e.to) < 2
    OBVIOUS
  <2> QED BY <2>1, Zenon DEF D!RewriteRelativePath
<1>3. D!Target(e) = D!FirstOf(<<D!QualifiedMap(path), D!ResolveViaImports(path, D!FileOf(from)),
                                D!ResolveInSameFile(path, from), D!ResolveByLeaf(path)>>)
  BY DEF D!Target
<1>4. D!ResolveViaImports(path, D!FileOf(from)) = {}
  <2>1. D!FileOf(from).imports = <<>>
    OBVIOUS
  <2> HIDE DEF from, path
  <2> QED BY <2>1 DEF D!ResolveViaImports
<1>5. D!ResolveByLeaf(path) = {}
  <2> HIDE DEF path
  <2>1. Len(path) = 1
    BY <1>2, Zenon
  <2>2. ~(Len(path) > 1)
    BY <2>1
  <2> QED BY <2>2, Zenon DEF D!ResolveByLeaf
<1> HIDE DEF path, n, from
<1>6. D!Target(e) = D!FirstOf(<<D!QualifiedMap(<<n>>), {}, D!ResolveInSameFile(<<n>>, from), {}>>)
  BY <1>1, <1>2, <1>3, <1>4, <1>5
<1>7. D!Target(e) = IF D!QualifiedMap(<<n>>) # {} THEN D!QualifiedMap(<<n>>)
                    ELSE D!ResolveInSameFile(<<n>>, from)
  BY <1>6, FirstOfThese
<1>8. D!ResolveInSameFile(<<n>>, from) =
        IF Local(<<n>>, from.file) = {} THEN {} ELSE {D!Min(Local(<<n>>, from.file))}
  BY OwnFile
<1>9. D!QualifiedMap(<<n>>) = IF D!Cardinality(Named(<<n>>)) = 1 THEN Named(<<n>>) ELSE {}
  BY PlainMap
<1>10. D!Cardinality(Named(<<n>>)) = 1 => Named(<<n>>) # {}
  <2>1. Len(symbols) \in Nat /\ Named(<<n>>) \in SUBSET (0..Len(symbols))
    BY IdsAre, PlacesNamed
  <2> QED BY <2>1, One
<1>11. D!Target(e) = PlainTarget(<<n>>, from.file)
  BY <1>7, <1>8, <1>9, <1>10 DEF PlainTarget
<1> QED BY <1>1, <1>11 DEF from

\* A lookup of a plain name.
LEMMA PlainLookup ==
    ASSUME D!IndexAssumption, IndexInv, NEW n
    PROVE  D!ResolveName(<<n>>) = {i \in D!Ids : symbols[i + 1].name = n}
<1>1. D!QualifiedMap(<<n>>) = IF D!Cardinality(Named(<<n>>)) = 1 THEN Named(<<n>>) ELSE {}
  BY PlainMap
<1>2. Named(<<n>>) = {i \in D!Ids : symbols[i + 1].name = n}
  <2>1. \A i : <<symbols[i + 1].name>> = <<n>> <=> symbols[i + 1].name = n
    OBVIOUS
  <2> QED BY <2>1 DEF Named
<1>3. {i \in D!Ids : <<symbols[i + 1].name>> = <<n>> \/ symbols[i + 1].qualified = <<n>>}
        = Named(<<n>>)
  <2>1. \A i \in D!Ids : i + 1 \in 1..Len(symbols)
    BY IdsAre
  <2>2. \A i \in D!Ids : symbols[i + 1].qualified \in {<<symbols[i + 1].name>>, <<Type, symbols[i + 1].name>>}
    BY <2>1, SymbolsTyped
  <2>3. \A i : <<n>> # <<Type, symbols[i + 1].name>>
    OBVIOUS
  <2>4. \A i \in D!Ids : symbols[i + 1].qualified = <<n>> => <<symbols[i + 1].name>> = <<n>>
    BY <2>2, <2>3
  <2> QED BY <2>4 DEF Named
<1> QED BY <1>1, <1>2, <1>3 DEF D!ResolveName

\* Every call by a plain name leads where it should.
CallsLead ==
    \A e \in edges :
      Len(e.called) = 1 /\ D!FileOf(symbols[e.from + 1]).imports = <<>> =>
        e.to = PlainTarget(e.called, symbols[e.from + 1].file)

LEMMA PlainForm == D!PlainNamesResolve <=> (resolved => CallsLead)
  BY Zenon DEF D!PlainNamesResolve, CallsLead, PlainTarget, Named, Local

\* Names lead to the same symbols as long as there are the same.
LEMMA SameNames ==
    ASSUME symbols' = symbols, NEW e
    PROVE  PlainTarget(e.called, symbols[e.from + 1].file)'
             = PlainTarget(e.called, symbols[e.from + 1].file)
<1>1. D!Ids' = D!Ids
  BY DEF D!Ids
<1>2. Named(e.called)' = Named(e.called)
  BY <1>1 DEF Named
<1>3. Local(e.called, symbols[e.from + 1].file)' = Local(e.called, symbols[e.from + 1].file)
  BY <1>2 DEF Local
<1> QED BY <1>2, <1>3, Zenon DEF PlainTarget

LEMMA FailKeeps == ASSUME D!IndexAssumption, IndexInv, D!ParseFails PROVE IndexInv'
<1>1. /\ next' = next + 1 /\ files' = files /\ symbols' = symbols /\ edges' = edges
      /\ resolved' = resolved /\ next <= Len(Layout)
  BY DEF D!ParseFails
<1>2. Layout \in Seq(LayoutRecords) /\ next \in Nat \ {0}
  BY DEF D!IndexAssumption, LayoutRecords, IndexInv, IndexTypesOK
<1>3. ~resolved
  BY <1>1, <1>2 DEF IndexInv
<1>4. IndexTypesOK'
  BY <1>1, <1>2 DEF IndexInv, IndexTypesOK
<1> QED BY <1>1, <1>3, <1>4 DEF IndexInv, Placed, D!PlainNamesResolve

LEMMA ResolveKeeps == ASSUME D!IndexAssumption, IndexInv, D!ResolveEdges PROVE IndexInv'
<1>1. /\ next' = next /\ files' = files /\ symbols' = symbols /\ resolved' = TRUE
      /\ edges' = {[from |-> e.from, called |-> e.to, to |-> D!Target(e)] : e \in edges}
      /\ next > Len(Layout) /\ ~resolved
  BY DEF D!ResolveEdges
<1>2. IndexTypesOK' /\ Placed'
  BY <1>1 DEF IndexInv, IndexTypesOK, Placed
<1>3. CallsLead'
  <2> SUFFICES ASSUME NEW e \in edges', Len(e.called) = 1,
                      D!FileOf(symbols[e.from + 1]).imports = <<>>
               PROVE  e.to = PlainTarget(e.called, symbols[e.from + 1].file)
    <3>1. ASSUME NEW e \in edges',
                 (Len(e.called) = 1 /\ D!FileOf(symbols[e.from + 1]).imports = <<>>)'
          PROVE  (e.to = PlainTarget(e.called, symbols[e.from + 1].file))'
      <4>1. Len(e.called) = 1 /\ D!FileOf(symbols[e.from + 1]).imports = <<>>
        BY <1>1, <3>1 DEF D!FileOf
      <4>2. e.to = PlainTarget(e.called, symbols[e.from + 1].file)
        BY <4>1
      <4> QED BY <1>1, <4>2, SameNames
    <3> QED BY <3>1 DEF CallsLead
  <2>1. PICK c \in edges : e = [from |-> c.from, called |-> c.to, to |-> D!Target(c)]
    BY <1>1
  <2>2. e.from = c.from /\ e.called = c.to /\ e.to = D!Target(c)
    BY <2>1
  <2>3. c.from \in 0..(Len(symbols) - 1) /\ c.to \in D!Paths
    BY <1>1 DEF IndexInv
  <2> QED BY <2>2, <2>3, PlainCall
<1>4. D!PlainNamesResolve'
  BY <1>3, PlainForm, PTL
<1> QED BY <1>1, <1>2, <1>4 DEF IndexInv

LEMMA IndexGoes ==
    ASSUME D!IndexAssumption, IndexInv, [D!Next]_(D!vars) PROVE IndexInv'
<1>1. CASE UNCHANGED D!vars
  <2>1. /\ next' = next /\ files' = files /\ symbols' = symbols /\ resolved' = resolved
        /\ edges' = edges
    BY <1>1 DEF D!vars
  <2>2. IndexTypesOK' /\ Placed'
    BY <2>1 DEF IndexInv, IndexTypesOK, Placed
  <2>3. ASSUME resolved PROVE CallsLead'
    <3>1. CallsLead
      BY <2>3, PlainForm DEF IndexInv
    <3> SUFFICES ASSUME NEW e \in edges,
                        (Len(e.called) = 1 /\ D!FileOf(symbols[e.from + 1]).imports = <<>>)'
                 PROVE  (e.to = PlainTarget(e.called, symbols[e.from + 1].file))'
      BY <2>1 DEF CallsLead
    <3>2. Len(e.called) = 1 /\ D!FileOf(symbols[e.from + 1]).imports = <<>>
      BY <2>1 DEF D!FileOf
    <3>3. e.to = PlainTarget(e.called, symbols[e.from + 1].file)
      BY <3>1, <3>2 DEF CallsLead
    <3> QED BY <2>1, <3>3, SameNames
  <2>4. resolved' => CallsLead'
    BY <2>1, <2>3
  <2>5. D!PlainNamesResolve'
    BY <2>4, PlainForm, PTL
  <2> QED BY <2>1, <2>2, <2>5 DEF IndexInv
<1> QED BY <1>1, ParseKeeps, FailKeeps, ResolveKeeps DEF D!Next

LEMMA IndexStays ==
    ASSUME part = "index" => IndexInv, [Next]_vars PROVE (part = "index" => IndexInv)'
<1> SUFFICES ASSUME part' = "index" PROVE IndexInv'
  OBVIOUS
<1>1. CASE IndexStep
  BY <1>1, Bounds, IndexGoes DEF IndexStep
<1>2. CASE part = "index" /\ UNCHANGED vars
  <2>1. UNCHANGED D!vars
    BY <1>2 DEF vars, index, D!vars
  <2> QED BY <1>2, <2>1, Bounds, IndexGoes
<1>3. part = part'
  BY DEF Next, WalkerStep, IndexStep, RankStep, TurboStep, SymbolsStep,
         FilesStep, vars
<1>4. ~WalkerStep /\ ~RankStep /\ ~TurboStep /\ ~SymbolsStep /\ ~FilesStep
  BY <1>3 DEF WalkerStep, RankStep, TurboStep, SymbolsStep, FilesStep
<1> QED BY <1>1, <1>2, <1>3, <1>4 DEF Next

LEMMA IndexAlways == Spec => [](part = "index" => IndexInv)
<1>1. Init => (part = "index" => IndexInv)
  BY Bounds, IndexBegins DEF Init, WalkerInit, IndexInit, RankInit, TurboInit,
     SymbolsInit, FilesInit
<1>2. (part = "index" => IndexInv) /\ [Next]_vars => (part = "index" => IndexInv)'
  BY IndexStays
<1> QED BY <1>1, <1>2, PTL DEF Spec

\* Whatever failed to parse and however many symbols share a name: a call by a plain name
\* that no import explains leads to the only symbol of that name, else to the first one of
\* its own file, else nowhere; and a lookup of a plain name finds all that bear it
\* (qualified_map, resolve_edges and resolve_name in index.rs).
THEOREM PlainNames == Spec => []PlainNamesResolve
<1>1. (part = "index" => IndexInv) => PlainNamesResolve
  <2> SUFFICES ASSUME part = "index", IndexInv
               PROVE  D!PlainNamesResolve /\ D!NamesFound
    BY DEF PlainNamesResolve
  <2>1. D!NamesFound
    BY Bounds, PlainLookup DEF D!NamesFound
  <2> QED BY <2>1 DEF IndexInv
<1> QED BY <1>1, IndexAlways, PTL

-----------------------------------------------------------------------------
(* Keeping and sorting.                                                   *)

Ord == INSTANCE Ordering

\* A sequence of the elements of another at some places, each once, in their order.
Picks(r, s, places) ==
    /\ Len(r) \in Nat /\ r = [k \in 1..Len(r) |-> r[k]]
    /\ \E at0 \in Bijection(1..Len(r), places) :
          /\ \A k \in 1..Len(r) : r[k] = s[at0[k]]
          /\ \A a, b \in 1..Len(r) : a < b => at0[a] < at0[b]

\* One more of the elements, from further on.
LEMMA PickMore ==
    ASSUME NEW r, NEW s, NEW places \in SUBSET Int, Picks(r, s, places),
           NEW i \in Int, \A p \in places : p < i
    PROVE  Picks(Append(r, s[i]), s, places \cup {i})
<1> DEFINE n == Len(r)
           q == Append(r, s[i])
<1>0. i \notin places
  OBVIOUS
<1>1. PICK f \in Bijection(1..n, places) : /\ \A k \in 1..n : r[k] = s[f[k]]
                                           /\ \A a, b \in 1..n : a < b => f[a] < f[b]
  BY DEF Picks
<1>2. n \in Nat /\ r = [k \in 1..n |-> r[k]]
  BY DEF Picks
<1>3. r \in Seq({r[k] : k \in 1..n} \cup {s[i]})
  <2> DEFINE Z == {r[k] : k \in 1..n} \cup {s[i]}
  <2>1. \A k \in 1..n : r[k] \in Z
    OBVIOUS
  <2> HIDE DEF Z, n
  <2> QED BY <1>2, <2>1
<1>4. /\ Len(q) = n + 1 /\ q = [k \in 1..(n + 1) |-> q[k]]
      /\ \A k \in 1..n : q[k] = r[k]
      /\ q[n + 1] = s[i]
  <2> DEFINE Z == {r[k] : k \in 1..n} \cup {s[i]}
  <2>1. s[i] \in Z /\ r \in Seq(Z)
    BY <1>3
  <2> HIDE DEF Z
  <2>2. q \in Seq(Z)
    BY <2>1
  <2> QED BY <1>2, <2>1, <2>2
<1> DEFINE g == [k \in 1..(n + 1) |-> IF k = n + 1 THEN i ELSE f[k]]
<1>5. f \in [1..n -> places] /\ (\A a, b \in 1..n : f[a] = f[b] => a = b)
      /\ \A x \in places : \E k \in 1..n : f[k] = x
  BY <1>1 DEF Bijection, Injection, Surjection, IsInjective
<1> HIDE DEF n, q
<1>6. g \in [1..(n + 1) -> places \cup {i}]
  BY <1>2, <1>5
<1>7. \A a, b \in 1..(n + 1) : g[a] = g[b] => a = b
  BY <1>0, <1>2, <1>5
<1>8. \A x \in places \cup {i} : \E k \in 1..(n + 1) : g[k] = x
  <2>1. g[n + 1] = i /\ n + 1 \in 1..(n + 1)
    BY <1>2
  <2>2. \A k \in 1..n : g[k] = f[k] /\ k \in 1..(n + 1)
    BY <1>2
  <2> QED BY <1>5, <2>1, <2>2
<1>9. \A k \in 1..(n + 1) : q[k] = s[g[k]]
  <2>1. \A k \in 1..n : r[k] = s[f[k]] /\ g[k] = f[k]
    BY <1>1, <1>2
  <2>2. g[n + 1] = i
    BY <1>2
  <2> HIDE DEF g
  <2> QED BY <1>2, <1>4, <2>1, <2>2
<1>11. \A a, b \in 1..(n + 1) : a < b => g[a] < g[b]
  <2> SUFFICES ASSUME NEW a \in 1..(n + 1), NEW b \in 1..(n + 1), a < b PROVE g[a] < g[b]
    OBVIOUS
  <2>1. a \in 1..n /\ g[a] = f[a] /\ f[a] \in places
    BY <1>2, <1>5
  <2>2. CASE b = n + 1
    BY <2>1, <2>2
  <2>3. CASE b \in 1..n
    BY <1>1, <1>2, <2>1, <2>3
  <2> QED BY <1>2, <2>2, <2>3
<1> HIDE DEF g
<1>10. g \in Bijection(1..(n + 1), places \cup {i})
  BY <1>6, <1>7, <1>8 DEF Bijection, Injection, Surjection, IsInjective
<1> QED BY <1>2, <1>4, <1>9, <1>10, <1>11 DEF Picks, q

LEMMA PickNone ==
    ASSUME NEW s PROVE Picks(<<>>, s, {})
<1> DEFINE f == [k \in {} |-> k]
<1>1. 1..0 = {} /\ Len(<<>>) = 0
  OBVIOUS
<1>2. f \in Bijection(1..0, {})
  BY <1>1 DEF Bijection, Injection, Surjection, IsInjective
<1>3. <<>> = [k \in 1..0 |-> <<>>[k]]
  BY <1>1
<1> QED BY <1>1, <1>2, <1>3 DEF Picks

LEMMA SameCountL == ASSUME NEW Z PROVE Ord!Cardinality(Z) = Cardinality(Z)
  BY DEF Ord!Cardinality, Cardinality, Ord!IsFiniteSet, IsFiniteSet

\* What retain leaves of a list: its elements at the places kept, each once, in order.
LEMMA KeptPicks ==
    ASSUME NEW A, NEW s \in Seq(A), NEW places \in SUBSET (1..Len(s))
    PROVE  Ord!Kept(s, places) \in Seq(A) /\ Picks(Ord!Kept(s, places), s, places)
<1> DEFINE N == Len(s)
           B == Seq(A)
           base == <<>>
           Step(f, i) == IF i = 0 THEN <<>>
                         ELSE IF i \in places THEN Append(f[i - 1], s[i]) ELSE f[i - 1]
           step == [i \in 1..N |-> [a \in B |-> IF i \in places THEN Append(a, s[i]) ELSE a]]
<1>1. N \in Nat /\ base \in B /\ step \in Steps(N, B)
  <2>1. \A i \in 1..N, a \in B : s[i] \in A /\ Append(a, s[i]) \in B
    OBVIOUS
  <2>2. \A i \in 1..N : [a \in B |-> IF i \in places THEN Append(a, s[i]) ELSE a] \in [B -> B]
    BY <2>1
  <2>3. <<>> \in B /\ N \in Nat
    OBVIOUS
  <2> HIDE DEF B, N
  <2> QED BY <2>2, <2>3 DEF Steps
<1>2. PICK f \in [0..N -> B] : Solves(f, N, base, step)
  <2> HIDE DEF N, B, base, step
  <2> QED BY <1>1, Recursion
<1>3. f = [i \in 0..N |-> Step(f, i)]
  <2>1. ASSUME NEW i \in 0..N PROVE f[i] = Step(f, i)
    <3>1. CASE i = 0
      BY <1>2, <3>1 DEF Solves
    <3>2. CASE i # 0
      <4>1. i \in 1..N /\ f[i - 1] \in B
        <5> HIDE DEF N, B, base, step
        <5>1. i \in 1..N /\ i - 1 \in 0..N
          BY <1>1, <3>2
        <5> QED BY <1>2, <5>1
      <4> QED BY <1>2, <3>2, <4>1 DEF Solves
    <3> QED BY <3>1, <3>2
  <2> HIDE DEF Step
  <2> QED BY <1>2, <2>1
<1> DEFINE g == CHOOSE h : h = [i \in 0..N |-> Step(h, i)]
<1>4. g = [i \in 0..N |-> Step(g, i)]
  <2> HIDE DEF Step
  <2> QED BY <1>3
<1>5. Ord!Kept(s, places) = g[N]
  BY DEF Ord!Kept
<1> HIDE DEF g
<1>6. \A i \in 0..N : g[i] = Step(g, i)
  <2> HIDE DEF Step
  <2> QED BY <1>4
<1> DEFINE Good(k) == k <= N => g[k] \in B /\ Picks(g[k], s, places \cap (1..k))
           Y == {k \in Nat : Good(k)}
<1>7. Y = Nat
  <2>1. Good(0)
    <3>1. g[0] = <<>> /\ 1..0 = {}
      BY <1>6
    <3>2. <<>> \in B
      OBVIOUS
    <3>3. places \cap (1..0) = {}
      BY <3>1
    <3> HIDE DEF B
    <3> QED BY <3>1, <3>2, <3>3, PickNone
  <2>2. ASSUME NEW k \in Nat, Good(k) PROVE Good(k + 1)
    <3> SUFFICES ASSUME k + 1 <= N
                 PROVE  g[k + 1] \in B /\ Picks(g[k + 1], s, places \cap (1..(k + 1)))
      OBVIOUS
    <3>1. k + 1 \in 1..N /\ k + 1 # 0 /\ (k + 1) - 1 = k
      OBVIOUS
    <3>2. g[k + 1] = IF k + 1 \in places THEN Append(g[k], s[k + 1]) ELSE g[k]
      BY <1>6, <3>1
    <3>3. g[k] \in B /\ Picks(g[k], s, places \cap (1..k))
      BY <2>2
    <3>4. CASE k + 1 \in places
      <4>1. Append(g[k], s[k + 1]) \in B
        BY <3>1, <3>3
      <4>2. places \cap (1..(k + 1)) = (places \cap (1..k)) \cup {k + 1}
        BY <3>4
      <4>3. k + 1 \in Int /\ places \cap (1..k) \in SUBSET Int /\ \A p \in places \cap (1..k) : p < k + 1
        OBVIOUS
      <4>4. Picks(Append(g[k], s[k + 1]), s, (places \cap (1..k)) \cup {k + 1})
        BY <3>3, <4>3, PickMore
      <4> HIDE DEF B
      <4> QED BY <3>2, <3>4, <4>1, <4>2, <4>4
    <3>5. CASE k + 1 \notin places
      <4>1. places \cap (1..(k + 1)) = places \cap (1..k)
        BY <3>5
      <4> HIDE DEF B
      <4> QED BY <3>2, <3>3, <3>5, <4>1
    <3> QED BY <3>4, <3>5
  <2> HIDE DEF Good
  <2>3. 0 \in Y /\ \A k \in Y : k + 1 \in Y
    BY <2>1, <2>2
  <2> HIDE DEF Y
  <2> QED BY <2>3, NatSet DEF Y
<1>8. g[N] \in B /\ Picks(g[N], s, places \cap (1..N))
  <2>1. N \in Y
    BY <1>1, <1>7
  <2> QED BY <1>1, <2>1
<1>9. places \cap (1..N) = places
  OBVIOUS
<1> QED BY <1>5, <1>8, <1>9

\* The sum of a sequence of numbers is a number.
LEMMA TotalIs ==
    ASSUME NEW s \in Seq(Int) PROVE Ord!Total(s) \in Int
<1> DEFINE N == Len(s)
           B == Int
           base == 0
           Step(f, i) == IF i = 0 THEN 0 ELSE f[i - 1] + s[i]
           step == [i \in 1..N |-> [a \in B |-> a + s[i]]]
<1>1. N \in Nat /\ base \in B /\ step \in Steps(N, B)
  <2>1. \A i \in 1..N : s[i] \in Int
    OBVIOUS
  <2>2. \A i \in 1..N, a \in B : a + s[i] \in B
    BY <2>1
  <2>3. \A i \in 1..N : [a \in B |-> a + s[i]] \in [B -> B]
    <3> HIDE DEF B, N
    <3> QED BY <2>2
  <2>4. 0 \in B /\ N \in Nat
    OBVIOUS
  <2> HIDE DEF B, N
  <2> QED BY <2>3, <2>4 DEF Steps
<1>2. PICK f \in [0..N -> B] : Solves(f, N, base, step)
  <2> HIDE DEF N, B, base, step
  <2> QED BY <1>1, Recursion
<1>3. f = [i \in 0..N |-> Step(f, i)]
  <2>1. ASSUME NEW i \in 0..N PROVE f[i] = Step(f, i)
    <3>1. CASE i = 0
      BY <1>2, <3>1 DEF Solves
    <3>2. CASE i # 0
      <4>1. i \in 1..N /\ f[i - 1] \in B
        <5>1. i \in 1..N /\ i - 1 \in 0..N
          BY <3>2
        <5> HIDE DEF B, N
        <5> QED BY <5>1, <1>2
      <4>2. f[i] = step[i][f[i - 1]]
        BY <1>2, <3>2, <4>1 DEF Solves
      <4>3. step[i][f[i - 1]] = f[i - 1] + s[i]
        <5> HIDE DEF B, N
        <5> QED BY <4>1
      <4> QED BY <3>2, <4>2, <4>3
    <3> QED BY <3>1, <3>2
  <2> HIDE DEF Step
  <2> QED BY <1>2, <2>1
<1> DEFINE g == CHOOSE h : h = [i \in 0..N |-> Step(h, i)]
<1>4. g = [i \in 0..N |-> Step(g, i)]
  <2> HIDE DEF Step
  <2> QED BY <1>3
<1>5. Ord!Total(s) = g[N]
  BY DEF Ord!Total
<1> HIDE DEF g
<1>6. \A i \in 0..N : g[i] = Step(g, i)
  <2> HIDE DEF Step
  <2> QED BY <1>4
<1> DEFINE Good(k) == k <= N => g[k] \in Int
           Y == {k \in Nat : Good(k)}
<1>7. Y = Nat
  <2>1. Good(0)
    <3>1. g[0] = 0
      BY <1>6
    <3> QED BY <3>1
  <2>2. ASSUME NEW k \in Nat, Good(k) PROVE Good(k + 1)
    <3> SUFFICES ASSUME k + 1 <= N PROVE g[k + 1] \in Int
      OBVIOUS
    <3>1. k + 1 \in 0..N /\ k + 1 # 0 /\ (k + 1) - 1 = k /\ k + 1 \in 1..N
      OBVIOUS
    <3>2. g[k + 1] = g[k] + s[k + 1]
      BY <1>6, <3>1
    <3>3. s[k + 1] \in Int /\ g[k] \in Int
      BY <2>2, <3>1
    <3> QED BY <3>2, <3>3
  <2> HIDE DEF Good
  <2>3. 0 \in Y /\ \A k \in Y : k + 1 \in Y
    BY <2>1, <2>2
  <2> HIDE DEF Y
  <2> QED BY <2>3, NatSet DEF Y
<1>8. g[N] \in Int
  <2>1. N \in Y
    BY <1>1, <1>7
  <2> QED BY <1>1, <2>1
<1> QED BY <1>5, <1>8

\* A set of the first numbers, given by its size.
LEMMA Initial ==
    ASSUME NEW n \in Nat, NEW Z \in SUBSET (1..n),
           \A x \in Z : \A y \in 1..x : y \in Z
    PROVE  Cardinality(Z) \in 0..n /\ Z = 1..Cardinality(Z)
<1>1. CASE Z = {}
  <2>1. Cardinality(Z) = 0 /\ 1..0 = {}
    BY <1>1, FS_EmptySet
  <2> QED BY <1>1, <2>1
<1>2. CASE Z # {}
  <2>1. Z \in SUBSET (0..n)
    OBVIOUS
  <2>2. PICK m \in Z : \A y \in Z : y <= m
    BY <1>2, <2>1, Greatest
  <2>3. Z = 1..m
    <3>1. \A y \in Z : y \in 1..m
      BY <2>2
    <3>2. \A y \in 1..m : y \in Z
      BY <2>2
    <3> QED BY <3>1, <3>2
  <2>4. Cardinality(1..m) = m
    BY <2>2, FS_Interval
  <2> QED BY <2>3, <2>4
<1> QED BY <1>1, <1>2

\* An order of the first n places by decreasing key.
Ordered(q, n, keys) ==
    /\ q \in Seq(Nat) /\ Len(q) = n
    /\ \A k \in 1..n : q[k] \in 1..n
    /\ \A a, b \in 1..n : q[a] = q[b] => a = b
    /\ \A x \in 1..n : \E k \in 1..n : q[k] = x
    /\ \A a, b \in 1..n : a <= b => keys[q[a]] >= keys[q[b]]

\* A sequence with an element put at a place, and those behind it moved by one.
PutAt(q, p, x) == SubSeq(q, 1, p - 1) \o <<x>> \o SubSeq(q, p, Len(q))

LEMMA InsertedAt ==
    ASSUME NEW q \in Seq(Nat), NEW p \in 1..(Len(q) + 1), NEW x \in Nat
    PROVE  /\ PutAt(q, p, x) \in Seq(Nat) /\ Len(PutAt(q, p, x)) = Len(q) + 1
           /\ \A k \in 1..(p - 1) : PutAt(q, p, x)[k] = q[k]
           /\ PutAt(q, p, x)[p] = x
           /\ \A k \in (p + 1)..(Len(q) + 1) : PutAt(q, p, x)[k] = q[k - 1]
<1> DEFINE n == Len(q)
           u == SubSeq(q, 1, p - 1)
           v == SubSeq(q, p, n)
<1>1. n \in Nat
  OBVIOUS
<1>2. u \in Seq(Nat) /\ Len(u) = p - 1 /\ \A k \in 1..(p - 1) : u[k] = q[k]
  OBVIOUS
<1>3. v \in Seq(Nat) /\ Len(v) = n + 1 - p /\ \A k \in 1..(n + 1 - p) : v[k] = q[p + k - 1]
  OBVIOUS
<1> DEFINE w == u \o <<x>>
<1> HIDE DEF u, v
<1>4. w \in Seq(Nat) /\ Len(w) = p /\ (\A k \in 1..(p - 1) : w[k] = u[k]) /\ w[p] = x
  <2> DEFINE z == <<x>>
  <2>1. z \in Seq(Nat) /\ Len(z) = 1 /\ z[1] = x /\ 1 \in 1..1
    OBVIOUS
  <2>2. u \in Seq(Nat) /\ Len(u) = p - 1 /\ (p - 1) + 1 = p
    BY <1>2
  <2> HIDE DEF z
  <2>3. /\ u \o z \in Seq(Nat) /\ Len(u \o z) = Len(u) + Len(z)
        /\ \A k \in 1..Len(u) : (u \o z)[k] = u[k]
        /\ \A k \in 1..Len(z) : (u \o z)[Len(u) + k] = z[k]
    <3>1. u \in Seq(Nat) /\ z \in Seq(Nat)
      BY <2>1, <2>2
    <3> QED BY <3>1, Joined
  <2>4. w = u \o z
    BY DEF z
  <2> HIDE DEF w
  <2> QED BY <2>1, <2>2, <2>3, <2>4
<1> HIDE DEF w
<1> DEFINE r == w \o v
<1>5. /\ r \in Seq(Nat) /\ Len(r) = n + 1
      /\ \A k \in 1..p : r[k] = w[k]
      /\ \A k \in 1..(n + 1 - p) : r[p + k] = v[k]
  <2>1. /\ w \o v \in Seq(Nat)
        /\ Len(w \o v) = Len(w) + Len(v)
        /\ \A i \in 1..Len(w) : (w \o v)[i] = w[i]
        /\ \A i \in 1..Len(v) : (w \o v)[Len(w) + i] = v[i]
    <3>1. w \in Seq(Nat) /\ v \in Seq(Nat)
      BY <1>3, <1>4
    <3> QED BY <3>1, Joined
  <2>2. Len(w) = p /\ Len(v) = n + 1 - p /\ p + (n + 1 - p) = n + 1
    BY <1>1, <1>3, <1>4
  <2> HIDE DEF n
  <2> QED BY <2>1, <2>2
<1>6. PutAt(q, p, x) = r
  BY DEF PutAt, u, v, w
<1> HIDE DEF r
<1>7. \A k \in 1..(p - 1) : r[k] = q[k]
  BY <1>1, <1>2, <1>4, <1>5
<1>8. r[p] = x
  BY <1>4, <1>5
<1>9. ASSUME NEW k \in (p + 1)..(n + 1) PROVE r[k] = q[k - 1]
  <2>1. k - p \in 1..(n + 1 - p) /\ p + (k - p) = k /\ p + (k - p) - 1 = k - 1
    BY <1>1
  <2>2. r[p + (k - p)] = v[k - p] /\ v[k - p] = q[p + (k - p) - 1]
    BY <1>3, <1>5, <2>1
  <2> QED BY <2>1, <2>2
<1> QED BY <1>5, <1>6, <1>7, <1>8, <1>9

\* An insertion keeps the order: the places whose keys are no smaller come first in it.
LEMMA InsertOrders ==
    ASSUME NEW n \in Nat, NEW keys, \A i \in 1..(n + 1) : keys[i] \in Int,
           NEW q, Ordered(q, n, keys)
    PROVE  Ordered(Ord!Inserted(q, keys, n + 1), n + 1, keys)
<1>1. /\ q \in Seq(Nat) /\ Len(q) = n /\ DOMAIN q = 1..n
      /\ \A k \in 1..n : q[k] \in 1..n /\ keys[q[k]] \in Int
      /\ \A a, b \in 1..n : q[a] = q[b] => a = b
      /\ \A x \in 1..n : \E k \in 1..n : q[k] = x
      /\ \A a, b \in 1..n : a <= b => keys[q[a]] >= keys[q[b]]
  BY DEF Ordered
<1> DEFINE Z == {k \in DOMAIN q : keys[q[k]] >= keys[n + 1]}
           c == Cardinality(Z)
           r == PutAt(q, c + 1, n + 1)
<1>2. Z \in SUBSET (1..n) /\ \A x \in Z : \A y \in 1..x : y \in Z
  <2>1. n + 1 \in 1..(n + 1)
    OBVIOUS
  <2>2. keys[n + 1] \in Int
    BY <2>1
  <2>3. ASSUME NEW a \in Z, NEW b \in 1..a PROVE b \in Z
    <3>1. a \in 1..n /\ b \in 1..n /\ b <= a /\ keys[q[a]] >= keys[n + 1]
      BY <1>1
    <3>2. keys[q[b]] >= keys[q[a]] /\ keys[q[a]] \in Int /\ keys[q[b]] \in Int
      BY <1>1, <3>1
    <3>3. keys[q[b]] >= keys[n + 1]
      BY <2>2, <3>1, <3>2
    <3> QED BY <1>1, <3>1, <3>3
  <2>4. Z \in SUBSET (1..n)
    BY <1>1
  <2> HIDE DEF Z
  <2> QED BY <2>3, <2>4
<1>3. c \in 0..n /\ Z = 1..c
  <2> HIDE DEF Z
  <2> QED BY <1>2, Initial
<1>4. Ord!Inserted(q, keys, n + 1) = r
  <2>1. Ord!Cardinality(Z) = c
    BY SameCountL
  <2>2. Ord!Inserted(q, keys, n + 1)
          = SubSeq(q, 1, Ord!Cardinality(Z)) \o <<n + 1>> \o SubSeq(q, Ord!Cardinality(Z) + 1, Len(q))
    BY DEF Ord!Inserted
  <2>3. (c + 1) - 1 = c
    BY <1>3
  <2> HIDE DEF Z, c
  <2> QED BY <2>1, <2>2, <2>3 DEF PutAt
<1>5. \A k \in 1..n : k <= c <=> keys[q[k]] >= keys[n + 1]
  <2>1. \A k \in 1..n : k \in Z <=> keys[q[k]] >= keys[n + 1]
    BY <1>1
  <2> HIDE DEF Z, c
  <2> QED BY <1>3, <2>1
<1> HIDE DEF Z, c
<1>6. /\ r \in Seq(Nat) /\ Len(r) = n + 1
      /\ \A k \in 1..c : r[k] = q[k]
      /\ r[c + 1] = n + 1
      /\ \A k \in (c + 2)..(n + 1) : r[k] = q[k - 1]
  <2>1. c + 1 \in 1..(Len(q) + 1) /\ n + 1 \in Nat /\ (c + 1) - 1 = c /\ (c + 1) + 1 = c + 2
    BY <1>1, <1>3
  <2>2. q \in Seq(Nat)
    BY <1>1
  <2> DEFINE d == c + 1
             y == n + 1
  <2>3. d \in 1..(Len(q) + 1) /\ y \in Nat
    BY <2>1
  <2> HIDE DEF d, y
  <2>4. /\ PutAt(q, d, y) \in Seq(Nat) /\ Len(PutAt(q, d, y)) = Len(q) + 1
        /\ \A k \in 1..(d - 1) : PutAt(q, d, y)[k] = q[k]
        /\ PutAt(q, d, y)[d] = y
        /\ \A k \in (d + 1)..(Len(q) + 1) : PutAt(q, d, y)[k] = q[k - 1]
    BY <2>2, <2>3, InsertedAt
  <2>5. d = c + 1 /\ y = n + 1 /\ r = PutAt(q, d, y) /\ d - 1 = c /\ d + 1 = c + 2
    BY <2>1 DEF d, y
  <2> HIDE DEF r
  <2> QED BY <1>1, <2>4, <2>5
<1> HIDE DEF r
\* where each element comes from
<1>7. /\ \A k \in 1..c : k \in 1..n /\ r[k] = q[k] /\ r[k] \in 1..n
      /\ \A k \in (c + 2)..(n + 1) : k - 1 \in 1..n /\ r[k] = q[k - 1] /\ r[k] \in 1..n
      /\ \A k \in 1..(n + 1) : k = c + 1 \/ k \in 1..c \/ k \in (c + 2)..(n + 1)
      /\ n + 1 \notin 1..n /\ n + 1 \in 1..(n + 1)
  <2>1. \A k \in 1..c : k \in 1..n
    BY <1>3
  <2>2. \A k \in (c + 2)..(n + 1) : k - 1 \in 1..n
    BY <1>3
  <2>3. \A k \in 1..(n + 1) : k = c + 1 \/ k \in 1..c \/ k \in (c + 2)..(n + 1)
    BY <1>3
  <2> QED BY <1>1, <1>6, <2>1, <2>2, <2>3
<1>8. \A k \in 1..(n + 1) : r[k] \in 1..(n + 1)
  BY <1>6, <1>7
<1>9. ASSUME NEW a \in 1..(n + 1), NEW b \in 1..(n + 1), r[a] = r[b] PROVE a = b
  <2>1. CASE a = c + 1 \/ b = c + 1
    BY <1>6, <1>7, <1>9, <2>1
  <2>2. CASE a \in 1..c /\ b \in 1..c
    BY <1>1, <1>7, <1>9, <2>2
  <2>3. CASE a \in 1..c /\ b \in (c + 2)..(n + 1)
    <3>1. a = b - 1
      BY <1>1, <1>7, <1>9, <2>3
    <3> QED BY <1>3, <2>3, <3>1
  <2>4. CASE a \in (c + 2)..(n + 1) /\ b \in 1..c
    <3>1. a - 1 = b
      BY <1>1, <1>7, <1>9, <2>4
    <3> QED BY <1>3, <2>4, <3>1
  <2>5. CASE a \in (c + 2)..(n + 1) /\ b \in (c + 2)..(n + 1)
    <3>1. a - 1 = b - 1
      BY <1>1, <1>7, <1>9, <2>5
    <3> QED BY <1>3, <2>5, <3>1
  <2> QED BY <1>7, <2>1, <2>2, <2>3, <2>4, <2>5
<1>10. ASSUME NEW x \in 1..(n + 1) PROVE \E k \in 1..(n + 1) : r[k] = x
  <2>1. CASE x = n + 1
    <3>1. c + 1 \in 1..(n + 1)
      BY <1>3
    <3> QED BY <1>6, <2>1, <3>1
  <2>2. CASE x \in 1..n
    <3>1. PICK k \in 1..n : q[k] = x
      BY <1>1, <2>2
    <3>2. CASE k <= c
      <4>1. k \in 1..c /\ k \in 1..(n + 1)
        BY <1>3, <3>2
      <4> QED BY <1>6, <3>1, <4>1
    <3>3. CASE ~(k <= c)
      <4>1. k + 1 \in (c + 2)..(n + 1) /\ (k + 1) - 1 = k /\ k + 1 \in 1..(n + 1)
        BY <1>3, <3>3
      <4> QED BY <1>6, <3>1, <4>1
    <3> QED BY <3>2, <3>3
  <2> QED BY <2>1, <2>2
<1>11. ASSUME NEW a \in 1..(n + 1), NEW b \in 1..(n + 1), a <= b
       PROVE  keys[r[a]] >= keys[r[b]]
  <2>1. keys[n + 1] \in Int /\ \A k \in 1..n : keys[q[k]] \in Int
    BY <1>1, <1>7
  <2>2. CASE a \in 1..c /\ b \in 1..c
    <3>1. a \in 1..n /\ b \in 1..n /\ r[a] = q[a] /\ r[b] = q[b]
      BY <1>7, <2>2
    <3>2. keys[q[a]] >= keys[q[b]]
      BY <1>1, <1>11, <3>1
    <3> QED BY <3>1, <3>2
  <2>3. CASE a \in 1..c /\ b = c + 1
    BY <1>5, <1>6, <1>7, <2>3
  <2>4. CASE a \in 1..c /\ b \in (c + 2)..(n + 1)
    <3>1. a <= b - 1
      BY <1>3, <2>4
    <3>2. a \in 1..n /\ b - 1 \in 1..n /\ r[a] = q[a] /\ r[b] = q[b - 1]
      BY <1>7, <2>4
    <3>3. keys[q[a]] >= keys[q[b - 1]]
      BY <1>1, <3>1, <3>2
    <3> QED BY <3>2, <3>3
  <2>5. CASE a = c + 1 /\ b = c + 1
    BY <1>6, <2>1, <2>5
  <2>6. CASE a = c + 1 /\ b \in (c + 2)..(n + 1)
    <3>1. b - 1 \in 1..n /\ ~(b - 1 <= c) /\ r[b] = q[b - 1] /\ r[a] = n + 1
      BY <1>3, <1>6, <1>7, <2>6
    <3>2. keys[q[b - 1]] \in Int /\ ~(keys[q[b - 1]] >= keys[n + 1])
      BY <1>5, <2>1, <3>1
    <3>3. keys[n + 1] >= keys[q[b - 1]]
      BY <2>1, <3>2
    <3> QED BY <3>1, <3>3
  <2>7. CASE a \in (c + 2)..(n + 1) /\ b \in (c + 2)..(n + 1)
    <3>1. a - 1 <= b - 1
      BY <1>11
    <3>2. a - 1 \in 1..n /\ b - 1 \in 1..n /\ r[a] = q[a - 1] /\ r[b] = q[b - 1]
      BY <1>7, <2>7
    <3>3. keys[q[a - 1]] >= keys[q[b - 1]]
      BY <1>1, <3>1, <3>2
    <3> QED BY <3>2, <3>3
  <2>8. ~(a = c + 1 /\ b \in 1..c) /\ ~(a \in (c + 2)..(n + 1) /\ b = c + 1)
        /\ ~(a \in (c + 2)..(n + 1) /\ b \in 1..c)
    BY <1>3, <1>11
  <2> QED BY <1>7, <2>2, <2>3, <2>4, <2>5, <2>6, <2>7, <2>8
<1>12. Ordered(r, n + 1, keys)
  BY <1>6, <1>8, <1>9, <1>10, <1>11 DEF Ordered
<1> QED BY <1>4, <1>12

LEMMA InsertedIn ==
    ASSUME NEW q \in Seq(Nat), NEW keys, NEW i \in Nat
    PROVE  Ord!Inserted(q, keys, i) \in Seq(Nat)
<1> DEFINE Z == {k \in DOMAIN q : keys[q[k]] >= keys[i]}
           n == Len(q)
           d == 1 + Cardinality(Z)
<1>1. n \in Nat /\ Z \in SUBSET (1..n)
  <2>1. n \in Nat /\ DOMAIN q = 1..n
    OBVIOUS
  <2> HIDE DEF n
  <2> QED BY <2>1
<1>2. IsFiniteSet(1..n) /\ Cardinality(1..n) = n
  BY <1>1, FS_Interval
<1>3. Cardinality(Z) \in Nat /\ Cardinality(Z) <= n
  <2> HIDE DEF Z, n
  <2> QED BY <1>1, <1>2, FS_Subset, FS_CardinalityType
<1>4. d \in 1..(n + 1)
  BY <1>1, <1>3
<1>5. Ord!Inserted(q, keys, i) = PutAt(q, d, i)
  <2>1. Ord!Cardinality(Z) = Cardinality(Z)
    BY SameCountL
  <2>2. d - 1 = Cardinality(Z) /\ d = Cardinality(Z) + 1
    BY <1>3
  <2> HIDE DEF d
  <2> QED BY <2>1, <2>2 DEF Ord!Inserted, PutAt
<1> HIDE DEF d
<1>6. PutAt(q, d, i) \in Seq(Nat)
  BY <1>4, InsertedAt
<1> QED BY <1>5, <1>6

\* The order of a sequence of keys.
LEMMA OrderIs ==
    ASSUME NEW keys \in Seq(Int)
    PROVE  Ordered(Ord!OrderOf(keys), Len(keys), keys)
<1> DEFINE N == Len(keys)
           B == Seq(Nat)
           base == <<>>
           Step(f, i) == IF i = 0 THEN <<>> ELSE Ord!Inserted(f[i - 1], keys, i)
           step == [i \in 1..N |-> [a \in B |-> Ord!Inserted(a, keys, i)]]
<1>1. N \in Nat /\ base \in B /\ step \in Steps(N, B)
  <2>1. \A i \in 1..N, a \in B : Ord!Inserted(a, keys, i) \in B
    <3>1. \A i \in 1..N : i \in Nat
      OBVIOUS
    <3> QED BY <3>1, InsertedIn
  <2>2. \A i \in 1..N : [a \in B |-> Ord!Inserted(a, keys, i)] \in [B -> B]
    BY <2>1
  <2>3. <<>> \in B /\ N \in Nat
    OBVIOUS
  <2> HIDE DEF B, N
  <2> QED BY <2>2, <2>3 DEF Steps
<1>2. PICK f \in [0..N -> B] : Solves(f, N, base, step)
  <2> HIDE DEF N, B, base, step
  <2> QED BY <1>1, Recursion
<1>3. f = [i \in 0..N |-> Step(f, i)]
  <2>1. ASSUME NEW i \in 0..N PROVE f[i] = Step(f, i)
    <3>1. CASE i = 0
      BY <1>2, <3>1 DEF Solves
    <3>2. CASE i # 0
      <4>1. i \in 1..N /\ f[i - 1] \in B
        <5> HIDE DEF N, B, base, step
        <5>1. i \in 1..N /\ i - 1 \in 0..N
          BY <1>1, <3>2
        <5> QED BY <1>2, <5>1
      <4> QED BY <1>2, <3>2, <4>1 DEF Solves
    <3> QED BY <3>1, <3>2
  <2> HIDE DEF Step
  <2> QED BY <1>2, <2>1
<1> DEFINE g == CHOOSE h : h = [i \in 0..N |-> Step(h, i)]
<1>4. g = [i \in 0..N |-> Step(g, i)]
  <2> HIDE DEF Step
  <2> QED BY <1>3
<1>5. Ord!OrderOf(keys) = g[N]
  BY DEF Ord!OrderOf
<1> HIDE DEF g
<1>6. \A i \in 0..N : g[i] = Step(g, i)
  <2> HIDE DEF Step
  <2> QED BY <1>4
<1> DEFINE Good(k) == k <= N => Ordered(g[k], k, keys)
           Y == {k \in Nat : Good(k)}
<1>7. Y = Nat
  <2>1. Good(0)
    <3>1. g[0] = <<>> /\ 1..0 = {}
      BY <1>6
    <3>2. <<>> \in Seq(Nat) /\ Len(<<>>) = 0
      OBVIOUS
    <3>3. Ordered(<<>>, 0, keys)
      BY <3>1, <3>2 DEF Ordered
    <3> QED BY <3>1, <3>3
  <2>2. ASSUME NEW k \in Nat, Good(k) PROVE Good(k + 1)
    <3> SUFFICES ASSUME k + 1 <= N PROVE Ordered(g[k + 1], k + 1, keys)
      OBVIOUS
    <3>1. k + 1 \in 0..N /\ k + 1 # 0 /\ (k + 1) - 1 = k
      OBVIOUS
    <3>2. g[k + 1] = Ord!Inserted(g[k], keys, k + 1)
      BY <1>6, <3>1
    <3>3. Ordered(g[k], k, keys)
      BY <2>2
    <3>4. \A i \in 1..(k + 1) : keys[i] \in Int
      OBVIOUS
    <3>5. Ordered(Ord!Inserted(g[k], keys, k + 1), k + 1, keys)
      BY <3>3, <3>4, InsertOrders
    <3> QED BY <3>2, <3>5
  <2> HIDE DEF Good
  <2>3. 0 \in Y /\ \A k \in Y : k + 1 \in Y
    BY <2>1, <2>2
  <2> HIDE DEF Y
  <2> QED BY <2>3, NatSet DEF Y
<1>8. Ordered(g[N], N, keys)
  <2>1. N \in Y
    BY <1>1, <1>7
  <2> QED BY <1>1, <2>1
<1> QED BY <1>5, <1>8

\* What sort_by returns: the elements at the places of the order.
LEMMA SortedIs ==
    ASSUME NEW A, NEW s \in Seq(A), NEW keys \in Seq(Int), Len(keys) = Len(s)
    PROVE  /\ Ord!SortedBy(s, keys) \in Seq(A) /\ Len(Ord!SortedBy(s, keys)) = Len(s)
           /\ \E q : /\ Ordered(q, Len(s), keys)
                     /\ \A k \in 1..Len(s) : Ord!SortedBy(s, keys)[k] = s[q[k]]
<1> DEFINE q == Ord!OrderOf(keys)
<1>1. Ordered(q, Len(s), keys)
  BY OrderIs
<1>2. Ord!SortedBy(s, keys) = [k \in DOMAIN s |-> s[q[k]]]
  <2>1. keys \o <<>> = keys
    OBVIOUS
  <2> QED BY <2>1 DEF Ord!SortedBy
<1> HIDE DEF q
<1>3. DOMAIN s = 1..Len(s) /\ Len(s) \in Nat
  OBVIOUS
<1>4. \A k \in 1..Len(s) : s[q[k]] \in A
  <2>1. \A k \in 1..Len(s) : q[k] \in 1..Len(s)
    BY <1>1 DEF Ordered
  <2>2. \A k \in 1..Len(s) : s[k] \in A
    OBVIOUS
  <2> QED BY <2>1, <2>2
<1> DEFINE r == [k \in 1..Len(s) |-> s[q[k]]]
           n == Len(s)
<1>5. r \in Seq(A) /\ Len(r) = n
  <2>1. n \in Nat /\ \A k \in 1..n : s[q[k]] \in A
    BY <1>3, <1>4
  <2>2. r = [k \in 1..n |-> s[q[k]]]
    OBVIOUS
  <2> HIDE DEF n, r
  <2>3. r \in Seq(A)
    BY <2>1, <2>2
  <2>4. DOMAIN r = 1..n
    BY <2>2
  <2> QED BY <2>1, <2>3, <2>4
<1> QED BY <1>1, <1>2, <1>3, <1>5

-----------------------------------------------------------------------------
(* The page of a search (Ranking).                                        *)

LEMMA SameKeptR == ASSUME NEW s, NEW k PROVE R!Kept(s, k) = Ord!Kept(s, k)
  BY DEF R!Kept, Ord!Kept

LEMMA SameSortedR == ASSUME NEW s, NEW k PROVE R!SortedBy(s, k) = Ord!SortedBy(s, k)
  BY DEF R!SortedBy, Ord!SortedBy, R!OrderOf, Ord!OrderOf, R!Inserted, Ord!Inserted,
         R!Cardinality, Ord!Cardinality, R!IsFiniteSet, Ord!IsFiniteSet

LEMMA SameTotalR == ASSUME NEW s PROVE R!Total(s) = Ord!Total(s)
  BY DEF R!Total, Ord!Total

LEMMA SameCountR == ASSUME NEW Z PROVE R!Cardinality(Z) = Cardinality(Z)
  BY DEF R!Cardinality, Cardinality, R!IsFiniteSet, IsFiniteSet

LEMMA MinOfTwo ==
    ASSUME NEW a \in Int, NEW b \in Int
    PROVE  R!Min({a, b}) = IF a <= b THEN a ELSE b
<1> DEFINE m == IF a <= b THEN a ELSE b
<1>1. m \in {a, b} /\ \A y \in {a, b} : m <= y
  OBVIOUS
<1>2. \A y \in {a, b} : (\A z \in {a, b} : y <= z) => y = m
  OBVIOUS
<1> HIDE DEF m
<1>3. R!Min({a, b}) = m
  BY <1>1, <1>2 DEF R!Min
<1> QED BY <1>3 DEF m

\* The candidates whose rows are of Z.
Cand(Z) == [row : Z, score : Int, boost : Int]

\* What sort_by leaves of a list: the same elements, each in a place of its own.
Shuffled(r, s) ==
    /\ Len(r) = Len(s)
    /\ \E q : /\ \A k \in 1..Len(s) : q[k] \in 1..Len(s) /\ r[k] = s[q[k]]
              /\ \A a, b \in 1..Len(s) : q[a] = q[b] => a = b
              /\ \A x \in 1..Len(s) : \E k \in 1..Len(s) : q[k] = x

\* The sorts of the ranking only change the order.
LEMMA SortShuffles ==
    ASSUME NEW A, NEW s \in Seq(A), NEW keys \in Seq(Int), Len(keys) = Len(s)
    PROVE  R!SortedBy(s, keys) \in Seq(A) /\ Shuffled(R!SortedBy(s, keys), s)
<1>1. /\ Ord!SortedBy(s, keys) \in Seq(A) /\ Len(Ord!SortedBy(s, keys)) = Len(s)
      /\ \E q : /\ Ordered(q, Len(s), keys)
                /\ \A k \in 1..Len(s) : Ord!SortedBy(s, keys)[k] = s[q[k]]
  BY SortedIs
<1>2. R!SortedBy(s, keys) = Ord!SortedBy(s, keys)
  BY SameSortedR
<1> DEFINE r == R!SortedBy(s, keys)
<1>3. /\ r \in Seq(A) /\ Len(r) = Len(s)
      /\ \E q : /\ Ordered(q, Len(s), keys)
                /\ \A k \in 1..Len(s) : r[k] = s[q[k]]
  BY <1>1, <1>2
<1> HIDE DEF r
<1>4. PICK q : Ordered(q, Len(s), keys) /\ \A k \in 1..Len(s) : r[k] = s[q[k]]
  BY <1>3
<1>5. Shuffled(r, s)
  <2>1. /\ \A k \in 1..Len(s) : q[k] \in 1..Len(s)
        /\ \A a, b \in 1..Len(s) : q[a] = q[b] => a = b
        /\ \A x \in 1..Len(s) : \E k \in 1..Len(s) : q[k] = x
    BY <1>4 DEF Ordered
  <2>2. \A k \in 1..Len(s) : q[k] \in 1..Len(s) /\ r[k] = s[q[k]]
    BY Zenon, <1>4, <2>1
  <2>3. Len(r) = Len(s)
    BY <1>3
  <2> QED BY Zenon, <2>1, <2>2, <2>3 DEF Shuffled
<1> QED BY <1>3, <1>5 DEF r

LEMMA RerankKeeps ==
    ASSUME NEW Z, NEW s \in Seq(Cand(Z))
    PROVE  R!Rerank(s) \in Seq(Cand(Z)) /\ Shuffled(R!Rerank(s), s)
<1> DEFINE keys == [i \in DOMAIN s |-> R!Value(s[i])]
<1>1. R!Rerank(s) = R!SortedBy(s, keys)
  BY DEF R!Rerank, R!StableBy
<1>2. keys \in Seq(Int) /\ Len(keys) = Len(s)
  <2>1. \A c \in Cand(Z) : R!Value(c) \in Int
    BY DEF Cand, R!Value
  <2>2. \A i \in DOMAIN s : s[i] \in Cand(Z)
    OBVIOUS
  <2>3. \A i \in DOMAIN s : R!Value(s[i]) \in Int
    BY <2>1, <2>2
  <2> QED BY <2>3
<1> HIDE DEF keys
<1> QED BY <1>1, <1>2, SortShuffles

LEMMA TypeRanks ==
    ASSUME NEW c PROVE R!TypeRank(c) \in {0, 1, 2, 3}
  BY Zenon DEF R!TypeRank

\* The sort by kind of file only changes the order.
LEMMA TypeOrder ==
    ASSUME NEW Z, NEW s \in Seq(Cand(Z))
    PROVE  /\ R!StableBy(s, LAMBDA c : -R!TypeRank(c)) \in Seq(Cand(Z))
           /\ Shuffled(R!StableBy(s, LAMBDA c : -R!TypeRank(c)), s)
<1> DEFINE keys == [i \in DOMAIN s |-> -R!TypeRank(s[i])]
<1>1. R!StableBy(s, LAMBDA c : -R!TypeRank(c)) = R!SortedBy(s, keys)
  BY DEF R!StableBy
<1>2. keys \in Seq(Int) /\ Len(keys) = Len(s)
  <2>1. \A i \in DOMAIN s : R!TypeRank(s[i]) \in {0, 1, 2, 3}
    BY TypeRanks
  <2>2. \A i \in DOMAIN s : -R!TypeRank(s[i]) \in Int
    BY <2>1
  <2> QED BY <2>2
<1>3. R!SortedBy(s, keys) \in Seq(Cand(Z)) /\ Shuffled(R!SortedBy(s, keys), s)
  <2> HIDE DEF keys
  <2> QED BY <1>2, SortShuffles
<1> HIDE DEF keys
<1> QED BY <1>1, <1>3

\* The sort by score and boost only changes the order.
LEMMA ValueOrder ==
    ASSUME NEW Z, NEW s \in Seq(Cand(Z))
    PROVE  /\ R!StableBy(s, R!Value) \in Seq(Cand(Z))
           /\ Shuffled(R!StableBy(s, R!Value), s)
  BY RerankKeeps DEF R!Rerank

\* Each element of a list is one of another list's rows, of a place of its own.
DrawnFrom(r, s) ==
    /\ Len(r) \in Nat
    /\ \E h : /\ \A k \in 1..Len(r) : h[k] \in 1..Len(s) /\ r[k].row = s[h[k]].row
              /\ \A a, b \in 1..Len(r) : h[a] = h[b] => a = b

LEMMA ShuffledDrawn ==
    ASSUME NEW A, NEW r \in Seq(A), NEW s, Shuffled(r, s) PROVE DrawnFrom(r, s)
<1>1. Len(r) \in Nat
  OBVIOUS
<1>2. PICK q : /\ \A k \in 1..Len(s) : q[k] \in 1..Len(s) /\ r[k] = s[q[k]]
               /\ \A a, b \in 1..Len(s) : q[a] = q[b] => a = b
  BY DEF Shuffled
<1>3. Len(r) = Len(s)
  BY DEF Shuffled
<1>4. /\ \A k \in 1..Len(r) : q[k] \in 1..Len(s) /\ r[k].row = s[q[k]].row
      /\ \A a, b \in 1..Len(r) : q[a] = q[b] => a = b
  BY <1>2, <1>3
<1> QED BY <1>1, <1>4 DEF DrawnFrom

LEMMA DrawnAgain ==
    ASSUME NEW r, NEW s, NEW t, DrawnFrom(r, s), DrawnFrom(s, t) PROVE DrawnFrom(r, t)
<1>1. PICK h : /\ \A k \in 1..Len(r) : h[k] \in 1..Len(s) /\ r[k].row = s[h[k]].row
               /\ \A a, b \in 1..Len(r) : h[a] = h[b] => a = b
  BY DEF DrawnFrom
<1>2. PICK g : /\ \A k \in 1..Len(s) : g[k] \in 1..Len(t) /\ s[k].row = t[g[k]].row
               /\ \A a, b \in 1..Len(s) : g[a] = g[b] => a = b
  BY DEF DrawnFrom
<1> DEFINE f == [k \in 1..Len(r) |-> g[h[k]]]
<1>3. \A k \in 1..Len(r) : f[k] = g[h[k]]
  OBVIOUS
<1> HIDE DEF f
<1>4. /\ \A k \in 1..Len(r) : f[k] \in 1..Len(t) /\ r[k].row = t[f[k]].row
      /\ \A a, b \in 1..Len(r) : f[a] = f[b] => a = b
  <2>1. ASSUME NEW k \in 1..Len(r) PROVE f[k] \in 1..Len(t) /\ r[k].row = t[f[k]].row
    <3>1. h[k] \in 1..Len(s) /\ r[k].row = s[h[k]].row /\ f[k] = g[h[k]]
      BY <1>1, <1>3
    <3>2. g[h[k]] \in 1..Len(t) /\ s[h[k]].row = t[g[h[k]]].row
      BY <1>2, <3>1
    <3> QED BY <3>1, <3>2
  <2>2. ASSUME NEW a \in 1..Len(r), NEW b \in 1..Len(r), f[a] = f[b] PROVE a = b
    <3>1. h[a] \in 1..Len(s) /\ h[b] \in 1..Len(s) /\ f[a] = g[h[a]] /\ f[b] = g[h[b]]
      BY <1>1, <1>3
    <3>2. h[a] = h[b]
      BY <1>2, <2>2, <3>1
    <3> QED BY <1>1, <3>2
  <2> QED BY <2>1, <2>2
<1>5. Len(r) \in Nat
  BY DEF DrawnFrom
<1> QED BY <1>4, <1>5 DEF DrawnFrom

\* truncate leaves limit elements or all.
LEMMA PageCuts ==
    ASSUME NEW A, NEW s \in Seq(A), req.limit \in Nat
    PROVE  /\ R!Page(s) \in Seq(A) /\ DrawnFrom(R!Page(s), s)
           /\ Len(R!Page(s)) = IF req.limit <= Len(s) THEN req.limit ELSE Len(s)
<1> DEFINE m == R!Min({req.limit, Len(s)})
<1>1. m = IF req.limit <= Len(s) THEN req.limit ELSE Len(s)
  BY MinOfTwo
<1>2. R!Page(s) = SubSeq(s, 1, m)
  BY DEF R!Page
<1>3. m \in Nat /\ m <= Len(s)
  BY <1>1
<1> DEFINE r == SubSeq(s, 1, m)
<1> HIDE DEF m
<1>4. r \in Seq(A) /\ Len(r) = m /\ \A k \in 1..m : r[k] = s[k] /\ k \in 1..Len(s)
  BY <1>3
<1> DEFINE h == [k \in 1..m |-> k]
<1> HIDE DEF r
<1>5. DrawnFrom(r, s)
  <2>1. \A k \in 1..m : h[k] = k
    OBVIOUS
  <2> HIDE DEF h
  <2>2. /\ \A k \in 1..m : h[k] \in 1..Len(s) /\ r[k].row = s[h[k]].row
        /\ \A a, b \in 1..m : h[a] = h[b] => a = b
    BY <1>4, <2>1
  <2> QED BY <1>3, <1>4, <2>2 DEF DrawnFrom
<1> QED BY <1>1, <1>2, <1>4, <1>5 DEF r

\* Diversification changes scores and order, and leaves limit candidates or all.
LEMMA SpreadKeeps ==
    ASSUME NEW Z, NEW s \in Seq(Cand(Z)), req.limit \in Nat
    PROVE  /\ R!Diversify(s) \in Seq(Cand(Z)) /\ DrawnFrom(R!Diversify(s), s)
           /\ Len(R!Diversify(s)) = IF req.limit <= Len(s) THEN req.limit ELSE Len(s)
<1> DEFINE parent(i) == s[i].row.parent
           siblings(i) == R!Cardinality({j \in 1..(i - 1) : parent(i) # -1 /\ parent(j) = parent(i)})
           spread == [i \in DOMAIN s |-> [row |-> s[i].row, boost |-> s[i].boost,
                                          score |-> s[i].score - siblings(i) * R!Penalty]]
           one == R!StableBy(spread, R!Value)
           two == R!StableBy(one, LAMBDA c : -R!TypeRank(c))
<1>1. R!Diversify(s) = R!Page(two)
  BY DEF R!Diversify
<1>2. \A i \in DOMAIN s : siblings(i) \in Nat
  <2> SUFFICES ASSUME NEW i \in DOMAIN s PROVE siblings(i) \in Nat
    OBVIOUS
  <2> DEFINE Y == {j \in 1..(i - 1) : parent(i) # -1 /\ parent(j) = parent(i)}
  <2>1. IsFiniteSet(1..(i - 1))
    <3>1. 1 \in Int /\ i - 1 \in Int
      OBVIOUS
    <3> QED BY <3>1, FS_Interval
  <2>2. Y \in SUBSET (1..(i - 1))
    OBVIOUS
  <2>3. siblings(i) = Cardinality(Y)
    BY SameCountR
  <2> HIDE DEF Y, siblings
  <2>4. IsFiniteSet(Y)
    BY <2>1, <2>2, FS_Subset
  <2> QED BY <2>3, <2>4, FS_CardinalityType
<1>3. R!Penalty \in Int
  BY DEF R!Penalty, R!Unit
<1> HIDE DEF siblings
<1>4. /\ spread \in Seq(Cand(Z)) /\ Len(spread) = Len(s)
      /\ \A i \in DOMAIN s : spread[i].row = s[i].row
  <2>1. ASSUME NEW i \in DOMAIN s
        PROVE  [row |-> s[i].row, boost |-> s[i].boost,
                score |-> s[i].score - siblings(i) * R!Penalty] \in Cand(Z)
    <3>1. s[i] \in Cand(Z)
      OBVIOUS
    <3>2. s[i].row \in Z /\ s[i].boost \in Int /\ s[i].score \in Int
      BY <3>1 DEF Cand
    <3>3. siblings(i) * R!Penalty \in Int
      BY <1>2, <1>3
    <3>4. s[i].score - siblings(i) * R!Penalty \in Int
      BY <3>2, <3>3
    <3> QED BY <3>2, <3>4 DEF Cand
  <2>2. DOMAIN s = 1..Len(s) /\ Len(s) \in Nat
    OBVIOUS
  <2>3. spread \in Seq(Cand(Z))
    BY <2>1, <2>2
  <2>4. \A i \in DOMAIN s : spread[i].row = s[i].row
    OBVIOUS
  <2>5. DOMAIN spread = 1..Len(s)
    BY <2>2
  <2> HIDE DEF spread
  <2> QED BY <2>2, <2>3, <2>4, <2>5
<1>5. DrawnFrom(spread, s)
  <2> DEFINE h == [k \in 1..Len(s) |-> k]
  <2>1. \A k \in 1..Len(s) : h[k] = k
    OBVIOUS
  <2>2. Len(s) \in Nat /\ DOMAIN s = 1..Len(s)
    OBVIOUS
  <2> HIDE DEF h, spread
  <2>3. /\ \A k \in 1..Len(spread) : h[k] \in 1..Len(s) /\ spread[k].row = s[h[k]].row
        /\ \A a, b \in 1..Len(spread) : h[a] = h[b] => a = b
    BY <1>4, <2>1, <2>2
  <2> QED BY <1>4, <2>2, <2>3 DEF DrawnFrom
<1> HIDE DEF spread
<1>6. one \in Seq(Cand(Z)) /\ Shuffled(one, spread)
  BY <1>4, ValueOrder
<1>7. DrawnFrom(one, spread)
  <2> HIDE DEF one
  <2> QED BY <1>6, ShuffledDrawn
<1>8. two \in Seq(Cand(Z)) /\ Shuffled(two, one)
  <2> HIDE DEF one
  <2> QED BY <1>6, TypeOrder
<1> HIDE DEF one, two
<1>9. DrawnFrom(two, one) /\ Len(two) = Len(s)
  <2>1. DrawnFrom(two, one)
    BY <1>8, ShuffledDrawn
  <2> QED BY <1>4, <1>6, <1>8, <2>1 DEF Shuffled
<1>10. /\ R!Page(two) \in Seq(Cand(Z)) /\ DrawnFrom(R!Page(two), two)
       /\ Len(R!Page(two)) = IF req.limit <= Len(two) THEN req.limit ELSE Len(two)
  BY <1>8, PageCuts
<1>11. DrawnFrom(R!Page(two), s)
  BY <1>5, <1>7, <1>9, <1>10, DrawnAgain
<1> QED BY <1>1, <1>9, <1>10, <1>11

\* The rows of a list, the symbols they are of, those of no symbol.
RowsIn(t) == {t[i].row : i \in DOMAIN t}
SymsOf(t) == {r.sym : r \in {c \in RowsIn(t) : c.sym # -1}}
LooseOf(t) == {c \in RowsIn(t) : c.sym = -1}
\* No two places of a list are of one symbol.
SymsApart(d) == \A a, b \in 1..Len(d) : d[a].row.sym # -1 /\ d[a].row.sym = d[b].row.sym => a = b

LEMMA CountOnto ==
    ASSUME NEW A, IsFiniteSet(A), NEW B, NEW f \in [A -> B], \A y \in B : \E x \in A : f[x] = y
    PROVE  IsFiniteSet(B) /\ Cardinality(B) <= Cardinality(A)
<1>1. f \in Surjection(A, B)
  BY DEF Surjection
<1> QED BY <1>1, FS_Surjection

LEMMA PickedCount ==
    ASSUME NEW r, NEW s, NEW places, Picks(r, s, places)
    PROVE  IsFiniteSet(places) /\ Cardinality(places) = Len(r)
<1>1. PICK f \in Bijection(1..Len(r), places) : TRUE
  BY DEF Picks
<1>2. Len(r) \in Nat
  BY DEF Picks
<1>3. IsFiniteSet(1..Len(r)) /\ Cardinality(1..Len(r)) = Len(r)
  BY <1>2, FS_Interval
<1>4. ExistsBijection(1..Len(r), places)
  BY <1>1 DEF ExistsBijection
<1> QED BY <1>3, <1>4, FS_Bijection

\* Dropping the repeats leaves one candidate of each symbol and every passage.
LEMMA DedupCounts ==
    ASSUME NEW Z, NEW t \in Seq(Cand(Z))
    PROVE  /\ R!DedupBySymbol(t) \in Seq(Cand(Z)) /\ SymsApart(R!DedupBySymbol(t))
           /\ RowsIn(R!DedupBySymbol(t)) \subseteq RowsIn(t)
           /\ IsFiniteSet(SymsOf(t)) /\ IsFiniteSet(LooseOf(t))
           /\ Len(R!DedupBySymbol(t)) >= Cardinality(SymsOf(t)) + Cardinality(LooseOf(t))
<1> DEFINE I == {i \in DOMAIN t : t[i].row.sym = -1 \/ \A j \in 1..(i - 1) : t[j].row.sym # t[i].row.sym}
           d == R!DedupBySymbol(t)
<1>1. I \in SUBSET (1..Len(t)) /\ DOMAIN t = 1..Len(t) /\ Len(t) \in Nat
  OBVIOUS
<1>2. d = Ord!Kept(t, I)
  BY SameKeptR DEF R!DedupBySymbol
<1>3. d \in Seq(Cand(Z)) /\ Picks(d, t, I)
  <2> HIDE DEF I, d
  <2> QED BY <1>1, <1>2, KeptPicks
<1>4. PICK f \in Bijection(1..Len(d), I) : \A k \in 1..Len(d) : d[k] = t[f[k]]
  BY <1>3 DEF Picks
<1>5. /\ \A k \in 1..Len(d) : f[k] \in I
      /\ \A a, b \in 1..Len(d) : f[a] = f[b] => a = b
  BY <1>4 DEF Bijection, Injection, IsInjective
<1> HIDE DEF d
<1>14. RowsIn(d) \subseteq RowsIn(t)
  <2>1. DOMAIN d = 1..Len(d)
    BY <1>3
  <2>2. \A k \in 1..Len(d) : f[k] \in DOMAIN t /\ d[k] = t[f[k]]
    BY <1>1, <1>4, <1>5
  <2> QED BY <2>1, <2>2 DEF RowsIn
<1>6. SymsApart(d)
  <2> SUFFICES ASSUME NEW a \in 1..Len(d), NEW b \in 1..Len(d),
                      d[a].row.sym # -1, d[a].row.sym = d[b].row.sym
               PROVE  a = b
    BY DEF SymsApart
  <2>1. /\ f[a] \in 1..Len(t) /\ f[b] \in 1..Len(t)
        /\ t[f[a]].row.sym # -1 /\ t[f[a]].row.sym = t[f[b]].row.sym
    BY <1>1, <1>4, <1>5
  <2>2. /\ \A j \in 1..(f[a] - 1) : t[j].row.sym # t[f[a]].row.sym
        /\ \A j \in 1..(f[b] - 1) : t[j].row.sym # t[f[b]].row.sym
    BY <1>5, <2>1
  <2>3. ~(f[b] < f[a]) /\ ~(f[a] < f[b])
    <3> DEFINE x == f[a]
               y == f[b]
    <3>1. x \in Int /\ y \in Int /\ x >= 1 /\ y >= 1
      BY <2>1
    <3>2. ~(y \in 1..(x - 1)) /\ ~(x \in 1..(y - 1))
      BY <2>1, <2>2
    <3> HIDE DEF x, y
    <3>3. ~(y < x) /\ ~(x < y)
      BY <3>1, <3>2
    <3> QED BY <3>3 DEF x, y
  <2>4. f[a] = f[b]
    BY <2>1, <2>3
  <2> QED BY <1>5, <2>4
<1> DEFINE first == {i \in I : t[i].row.sym # -1}
           loose == {i \in I : t[i].row.sym = -1}
<1>7. IsFiniteSet(I) /\ Cardinality(I) = Len(d)
  <2> HIDE DEF I
  <2> QED BY <1>3, PickedCount
<1>8. IsFiniteSet(first) /\ IsFiniteSet(loose)
  <2>1. first \in SUBSET I /\ loose \in SUBSET I
    OBVIOUS
  <2> HIDE DEF I, first, loose
  <2> QED BY <1>7, <2>1, FS_Subset
<1>9. IsFiniteSet(SymsOf(t)) /\ Cardinality(SymsOf(t)) <= Cardinality(first)
  <2> DEFINE g == [i \in first |-> t[i].row.sym]
  <2>1. g \in [first -> SymsOf(t)]
    <3>1. \A i \in first : t[i].row \in RowsIn(t) /\ t[i].row.sym # -1
      BY DEF RowsIn
    <3>2. \A i \in first : t[i].row.sym \in SymsOf(t)
      BY <3>1 DEF SymsOf
    <3> HIDE DEF first
    <3> QED BY <3>2
  <2>2. ASSUME NEW y \in SymsOf(t) PROVE \E i \in first : g[i] = y
    <3>1. PICK c \in RowsIn(t) : c.sym # -1 /\ y = c.sym
      BY DEF SymsOf
    <3>2. PICK k \in DOMAIN t : c = t[k].row
      BY DEF RowsIn
    <3> DEFINE Y == {i \in 1..Len(t) : t[i].row.sym = y}
    <3>3. Y \in SUBSET Nat /\ k \in Y
      BY <1>1, <3>1, <3>2
    <3>4. PICK m \in Y : \A n \in Y : m <= n
      <4>1. Y # {}
        BY <3>3
      <4> HIDE DEF Y
      <4> QED BY <3>3, <4>1, Least
    <3>5. m \in 1..Len(t) /\ t[m].row.sym = y /\ y # -1
      BY <3>1, <3>4
    <3>6. \A j \in 1..(m - 1) : t[j].row.sym # y
      <4> SUFFICES ASSUME NEW j \in 1..(m - 1), t[j].row.sym = y PROVE FALSE
        OBVIOUS
      <4>1. j \in 1..Len(t) /\ ~(m <= j)
        BY <1>1, <3>5
      <4> QED BY <3>4, <4>1
    <3>7. m \in I
      BY <1>1, <3>5, <3>6
    <3>8. m \in first
      BY <3>5, <3>7
    <3> HIDE DEF first, I
    <3> QED BY <3>5, <3>8
  <2> HIDE DEF first, g
  <2> QED BY <1>8, <2>1, <2>2, CountOnto
<1>10. IsFiniteSet(LooseOf(t)) /\ Cardinality(LooseOf(t)) <= Cardinality(loose)
  <2> DEFINE g == [i \in loose |-> t[i].row]
  <2>1. g \in [loose -> LooseOf(t)]
    <3>1. \A i \in loose : t[i].row \in RowsIn(t) /\ t[i].row.sym = -1
      BY DEF RowsIn
    <3>2. \A i \in loose : t[i].row \in LooseOf(t)
      BY <3>1 DEF LooseOf
    <3> HIDE DEF loose
    <3> QED BY <3>2
  <2>2. ASSUME NEW y \in LooseOf(t) PROVE \E i \in loose : g[i] = y
    <3>1. y \in RowsIn(t) /\ y.sym = -1
      BY DEF LooseOf
    <3>2. PICK k \in DOMAIN t : y = t[k].row
      BY <3>1 DEF RowsIn
    <3>3. k \in loose
      BY <1>1, <3>1, <3>2
    <3> HIDE DEF loose, I
    <3> QED BY <3>2, <3>3
  <2> HIDE DEF loose, g
  <2> QED BY <1>8, <2>1, <2>2, CountOnto
<1>11. Cardinality(first) + Cardinality(loose) = Cardinality(I)
  <2>1. first \cap loose = {} /\ first \cup loose = I
    OBVIOUS
  <2> HIDE DEF first, loose, I
  <2>2. Cardinality(first \cup loose) = Cardinality(first) + Cardinality(loose) - Cardinality(first \cap loose)
    BY <1>8, FS_Union
  <2>3. Cardinality(first \cap loose) = 0
    BY <2>1, FS_EmptySet
  <2>4. Cardinality(first) \in Nat /\ Cardinality(loose) \in Nat
    BY <1>8, FS_CardinalityType
  <2>5. Cardinality(first \cup loose) = Cardinality(I)
    BY <2>1
  <2> QED BY <2>2, <2>3, <2>4, <2>5
<1> HIDE DEF first, loose, I
<1>12. /\ Cardinality(first) \in Nat /\ Cardinality(loose) \in Nat
       /\ Cardinality(SymsOf(t)) \in Nat /\ Cardinality(LooseOf(t)) \in Nat
  BY <1>8, <1>9, <1>10, FS_CardinalityType
<1>13. Len(d) >= Cardinality(SymsOf(t)) + Cardinality(LooseOf(t))
  BY <1>7, <1>9, <1>10, <1>11, <1>12
<1> QED BY <1>3, <1>6, <1>9, <1>10, <1>13, <1>14 DEF d

\* The rows of one file that one run wrote under one name are of one symbol.
Coherent(Z) == \A a, b \in Z : a.file = b.file /\ a.name = b.name /\ a.run = b.run => a.sym = b.sym

\* Of rows, the symbols that some others show only in rows of another run.
OutOf(C, S) ==
    {c.sym : c \in {d \in C : \E h \in S : R!Repeats(d, h) /\ d.run # h.run}} \ {h.sym : h \in S}

\* A change of order leaves the rows as they are.
LEMMA ShuffledRows ==
    ASSUME NEW A, NEW r \in Seq(A), NEW s \in Seq(A), Shuffled(r, s) PROVE RowsIn(r) = RowsIn(s)
<1>1. DOMAIN r = 1..Len(r) /\ DOMAIN s = 1..Len(s) /\ Len(r) = Len(s)
  BY DEF Shuffled
<1>2. PICK q : /\ \A k \in 1..Len(s) : q[k] \in 1..Len(s) /\ r[k] = s[q[k]]
               /\ \A x \in 1..Len(s) : \E k \in 1..Len(s) : q[k] = x
  BY DEF Shuffled
<1>3. ASSUME NEW y \in RowsIn(r) PROVE y \in RowsIn(s)
  <2>1. PICK k \in 1..Len(s) : y = r[k].row
    BY <1>1 DEF RowsIn
  <2>2. q[k] \in 1..Len(s) /\ y = s[q[k]].row
    BY <1>2, <2>1
  <2> QED BY <1>1, <2>2 DEF RowsIn
<1>4. ASSUME NEW y \in RowsIn(s) PROVE y \in RowsIn(r)
  <2>1. PICK x \in 1..Len(s) : y = s[x].row
    BY <1>1 DEF RowsIn
  <2>2. PICK k \in 1..Len(s) : q[k] = x
    BY <1>2
  <2>3. k \in 1..Len(r) /\ y = r[k].row
    BY <1>1, <1>2, <2>1, <2>2
  <2> QED BY <1>1, <2>3 DEF RowsIn
<1> QED BY <1>3, <1>4

\* What a page loses to overlaps are symbols of rows that another run wrote.
LEMMA OverlapsLost ==
    ASSUME NEW Z, NEW u \in Seq(Cand(Z)), Coherent(Z), SymsApart(u), NEW k \in R!Unrepeated(u),
           NEW h, h = [i \in DOMAIN R!Kept(u, k) |-> R!Kept(u, k)[i].row],
           NEW C, RowsIn(u) \subseteq C, IsFiniteSet(OutOf(C, R!ToSet(h)))
    PROVE  Len(h) \in Nat /\ Len(h) + Cardinality(OutOf(C, R!ToSet(h))) >= Len(u)
<1> DEFINE d == R!Kept(u, k)
           lost == (1..Len(u)) \ k
           S == R!ToSet(h)
           O == OutOf(C, S)
<1>1. DOMAIN u = 1..Len(u) /\ Len(u) \in Nat
  OBVIOUS
<1>2. /\ k \in SUBSET (1..Len(u))
      /\ \A i \in 1..Len(u) : i \in k <=> \A j \in k : j < i => ~R!Repeats(u[i].row, u[j].row)
  BY <1>1 DEF R!Unrepeated
<1>3. d \in Seq(Cand(Z)) /\ Picks(d, u, k)
  BY <1>2, SameKeptR, KeptPicks
<1>4. h = [i \in 1..Len(d) |-> d[i].row] /\ Len(d) \in Nat
  BY <1>3
<1> HIDE DEF d
<1>5. DOMAIN h = 1..Len(d) /\ Len(h) = Len(d) /\ \A i \in 1..Len(d) : h[i] = d[i].row
  <2>1. \A i \in 1..Len(d) : d[i].row \in Z
    <3>1. \A i \in 1..Len(d) : d[i] \in Cand(Z)
      BY <1>3
    <3> QED BY <3>1 DEF Cand
  <2>2. h \in [1..Len(d) -> Z]
    BY <1>4, <2>1
  <2> QED BY <1>4, <2>2
<1>6. PICK f \in Bijection(1..Len(d), k) : \A i \in 1..Len(d) : d[i] = u[f[i]]
  BY <1>3 DEF Picks
<1>7. /\ \A i \in 1..Len(d) : f[i] \in k
      /\ \A x \in k : \E i \in 1..Len(d) : f[i] = x
  BY <1>6 DEF Bijection, Injection, Surjection
<1>8. S = {u[j].row : j \in k}
  <2>1. S = {h[i] : i \in 1..Len(d)}
    BY <1>5 DEF R!ToSet
  <2>2. ASSUME NEW y \in S PROVE \E j \in k : y = u[j].row
    <3>1. PICK i \in 1..Len(d) : y = h[i]
      BY <2>1
    <3>2. f[i] \in k /\ h[i] = u[f[i]].row
      BY <1>5, <1>6, <1>7
    <3> QED BY <3>1, <3>2
  <2>3. ASSUME NEW j \in k PROVE u[j].row \in S
    <3>1. PICK i \in 1..Len(d) : f[i] = j
      BY <1>7
    <3>2. h[i] = u[j].row
      BY <1>5, <1>6, <3>1
    <3> QED BY <2>1, <3>2
  <2> HIDE DEF S
  <2> QED BY <2>2, <2>3
<1> HIDE DEF S
<1>9. ASSUME NEW i \in lost PROVE u[i].row.sym \in O /\ u[i].row.sym # -1
  <2>1. i \in 1..Len(u) /\ i \notin k
    OBVIOUS
  <2>2. PICK j \in k : j < i /\ R!Repeats(u[i].row, u[j].row)
    BY <1>2, <2>1
  <2>3. j \in 1..Len(u) /\ j # i
    BY <1>2, <2>1
  <2>4. /\ u[i].row.sym # -1
        /\ u[i].row.file = u[j].row.file /\ u[i].row.name = u[j].row.name
    BY <2>2 DEF R!Repeats
  <2>5. u[i].row.sym # u[j].row.sym
    BY <2>1, <2>3, <2>4 DEF SymsApart
  <2>6. u[i].row \in Z /\ u[j].row \in Z
    <3>1. u[i] \in Cand(Z) /\ u[j] \in Cand(Z)
      BY <2>1, <2>3
    <3> QED BY <3>1 DEF Cand
  <2>7. u[i].row.run # u[j].row.run
    BY <2>4, <2>5, <2>6 DEF Coherent
  <2>8. u[j].row \in S /\ u[i].row \in C
    BY <1>1, <1>8, <2>1 DEF RowsIn
  <2>9. u[i].row.sym \notin {g.sym : g \in S}
    <3> SUFFICES ASSUME NEW m \in k, u[m].row.sym = u[i].row.sym PROVE FALSE
      BY <1>8
    <3>1. m \in 1..Len(u)
      BY <1>2
    <3>2. m = i
      BY <2>1, <2>4, <3>1 DEF SymsApart
    <3> QED BY <2>1, <3>2
  <2> QED BY <2>2, <2>4, <2>7, <2>8, <2>9 DEF OutOf
<1> DEFINE g == [i \in lost |-> u[i].row.sym]
<1>10. g \in Injection(lost, O)
  <2>1. g \in [lost -> O]
    <3> HIDE DEF lost, O
    <3> QED BY <1>9
  <2>2. ASSUME NEW a \in lost, NEW b \in lost, g[a] = g[b] PROVE a = b
    <3>1. a \in 1..Len(u) /\ b \in 1..Len(u) /\ u[a].row.sym = u[b].row.sym
      BY <2>2
    <3>2. u[a].row.sym # -1
      BY <1>9
    <3> QED BY <3>1, <3>2 DEF SymsApart
  <2> HIDE DEF g, lost, O
  <2> QED BY <2>1, <2>2 DEF Injection, IsInjective
<1>11. IsFiniteSet(lost) /\ Cardinality(lost) <= Cardinality(O)
  <2>1. IsFiniteSet(O)
    BY DEF S
  <2> HIDE DEF g, lost, O
  <2> QED BY <1>10, <2>1, FS_Injection
<1>12. IsFiniteSet(k) /\ Cardinality(k) = Len(d)
  BY <1>3, PickedCount
<1>13. Cardinality(1..Len(u)) = Cardinality(k) + Cardinality(lost)
  <2>1. k \cup lost = 1..Len(u) /\ k \cap lost = {}
    BY <1>2
  <2> HIDE DEF lost
  <2>2. Cardinality(k \cup lost) = Cardinality(k) + Cardinality(lost) - Cardinality(k \cap lost)
    BY <1>11, <1>12, FS_Union
  <2>3. Cardinality(k \cap lost) = 0
    BY <2>1, FS_EmptySet
  <2>4. Cardinality(k) \in Nat /\ Cardinality(lost) \in Nat
    BY <1>11, <1>12, FS_CardinalityType
  <2>5. Cardinality(k \cup lost) = Cardinality(1..Len(u))
    BY <2>1
  <2> QED BY <2>2, <2>3, <2>4, <2>5
<1>14. Cardinality(1..Len(u)) = Len(u)
  <2> DEFINE n == Len(u)
  <2>1. n \in Nat
    BY <1>1
  <2> HIDE DEF n
  <2>2. Cardinality(1..n) = n
    BY <2>1, FS_Interval
  <2> QED BY <2>2 DEF n
<1>15. Cardinality(lost) \in Nat /\ Cardinality(O) \in Nat
  <2>1. IsFiniteSet(O)
    BY DEF S
  <2> HIDE DEF O, lost
  <2> QED BY <1>11, <2>1, FS_CardinalityType
<1> HIDE DEF O, lost
<1>16. Len(h) + Cardinality(O) >= Len(u)
  BY <1>1, <1>4, <1>5, <1>11, <1>12, <1>13, <1>14, <1>15
<1> QED BY <1>4, <1>5, <1>16 DEF O, S

\* The page of a search has room for every symbol and passage found, or is full.
LEMMA PageHolds ==
    ASSUME NEW Z, NEW s \in Seq(Cand(Z)), req.limit \in Nat
    PROVE  /\ R!Order(s) \in Seq(Cand(Z)) /\ SymsApart(R!Order(s))
           /\ RowsIn(R!Order(s)) \subseteq RowsIn(s)
           /\ IsFiniteSet(SymsOf(s)) /\ IsFiniteSet(LooseOf(s))
           /\ \/ Len(R!Order(s)) >= req.limit
              \/ Len(R!Order(s)) >= Cardinality(SymsOf(s)) + Cardinality(LooseOf(s))
<1> DEFINE t == R!Rerank(s)
           d == R!DedupBySymbol(t)
           u == R!Diversify(d)
<1>1. R!Order(s) = u
  BY DEF R!Order
<1>2. t \in Seq(Cand(Z)) /\ Shuffled(t, s)
  BY RerankKeeps
<1>10. RowsIn(t) = RowsIn(s)
  <2> HIDE DEF t
  <2> QED BY <1>2, ShuffledRows
<1>3. SymsOf(t) = SymsOf(s) /\ LooseOf(t) = LooseOf(s)
  <2> HIDE DEF t
  <2> QED BY <1>10 DEF SymsOf, LooseOf
<1>4. /\ d \in Seq(Cand(Z)) /\ SymsApart(d) /\ RowsIn(d) \subseteq RowsIn(t)
      /\ IsFiniteSet(SymsOf(t)) /\ IsFiniteSet(LooseOf(t))
      /\ Len(d) >= Cardinality(SymsOf(t)) + Cardinality(LooseOf(t))
  <2> HIDE DEF t
  <2> QED BY <1>2, DedupCounts
<1>5. /\ u \in Seq(Cand(Z)) /\ DrawnFrom(u, d)
      /\ Len(u) = IF req.limit <= Len(d) THEN req.limit ELSE Len(d)
  <2> HIDE DEF d
  <2> QED BY <1>4, SpreadKeeps
<1> HIDE DEF d, u, t
<1>6. SymsApart(u) /\ RowsIn(u) \subseteq RowsIn(d)
  <2>1. PICK h : /\ \A k \in 1..Len(u) : h[k] \in 1..Len(d) /\ u[k].row = d[h[k]].row
                 /\ \A a, b \in 1..Len(u) : h[a] = h[b] => a = b
    BY <1>5 DEF DrawnFrom
  <2>2. SymsApart(u)
    <3> SUFFICES ASSUME NEW a \in 1..Len(u), NEW b \in 1..Len(u),
                        u[a].row.sym # -1, u[a].row.sym = u[b].row.sym
                 PROVE  a = b
      BY DEF SymsApart
    <3>1. h[a] \in 1..Len(d) /\ h[b] \in 1..Len(d) /\ u[a].row = d[h[a]].row /\ u[b].row = d[h[b]].row
      BY <2>1
    <3>2. h[a] = h[b]
      BY <1>4, <3>1 DEF SymsApart
    <3> QED BY <2>1, <3>2
  <2>3. DOMAIN u = 1..Len(u) /\ DOMAIN d = 1..Len(d)
    BY <1>4, <1>5
  <2>4. RowsIn(u) \subseteq RowsIn(d)
    BY <2>1, <2>3 DEF RowsIn
  <2> QED BY <2>2, <2>4
<1>8. Len(d) \in Nat
  BY <1>4
<1>9. Len(u) >= req.limit \/ Len(u) >= Cardinality(SymsOf(s)) + Cardinality(LooseOf(s))
  <2>1. CASE req.limit <= Len(d)
    BY <1>5, <2>1
  <2>2. CASE ~(req.limit <= Len(d))
    BY <1>3, <1>4, <1>5, <2>2
  <2> QED BY <2>1, <2>2
<1> QED BY <1>1, <1>3, <1>4, <1>5, <1>6, <1>9, <1>10

\* A ranking of the best of some rows is a list of them.
LEMMA RankingOf ==
    ASSUME NEW Z, IsFiniteSet(Z), NEW k, NEW x \in R!TopOf(Z, k)
    PROVE  x \in Seq(Z)
<1>1. PICK t \in SUBSET Z : x \in R!Rankings(t)
  BY DEF R!TopOf
<1>2. R!Cardinality(t) = Cardinality(t)
  BY SameCountR
<1>3. x \in [1..R!Cardinality(t) -> t]
  BY <1>1 DEF R!Rankings, R!SetToSeqs
<1>4. x \in [1..Cardinality(t) -> t]
  BY <1>2, <1>3
<1>5. IsFiniteSet(t)
  BY FS_Subset
<1>6. Cardinality(t) \in Nat
  BY <1>5, FS_CardinalityType
<1> DEFINE n == Cardinality(t)
<1> HIDE DEF n
<1>7. n \in Nat /\ x \in [1..n -> t]
  BY <1>4, <1>6 DEF n
<1>8. x \in [1..n -> Z]
  BY <1>7
<1> QED BY <1>7, <1>8

\* A list in any order of a set of rows.
LEMMA RankingsOf ==
    ASSUME NEW Z, IsFiniteSet(Z), NEW t \in SUBSET Z, NEW x \in R!Rankings(t) PROVE x \in Seq(Z)
<1>1. R!Cardinality(t) = Cardinality(t)
  BY SameCountR
<1>2. x \in [1..R!Cardinality(t) -> t]
  BY DEF R!Rankings, R!SetToSeqs
<1>3. x \in [1..Cardinality(t) -> t]
  BY <1>1, <1>2
<1>4. IsFiniteSet(t)
  BY FS_Subset
<1>5. Cardinality(t) \in Nat
  BY <1>4, FS_CardinalityType
<1> DEFINE n == Cardinality(t)
<1> HIDE DEF n
<1>6. n \in Nat /\ x \in [1..n -> t]
  BY <1>3, <1>5 DEF n
<1>7. x \in [1..n -> Z]
  BY <1>6
<1> QED BY <1>6, <1>7

\* The legs of a search are lists of rows.
LEMMA LegsOf ==
    ASSUME IsFiniteSet(rows), NEW k
    PROVE  /\ \A x \in R!VectorLegs(k) : x \in Seq(rows)
           /\ \A x \in R!LexicalLegs(k) : x \in Seq(rows)
<1>1. R!Visible \in SUBSET rows
  BY DEF R!Visible
<1>2. IsFiniteSet(R!Visible)
  BY <1>1, FS_Subset
<1>5. \A u : R!Copies(u) \in SUBSET R!Visible
  BY DEF R!Copies
<1>3. ASSUME NEW x \in R!VectorLegs(k) PROVE x \in Seq(rows)
  <2>1. CASE method \in {"usearch", "turbo"} /\ ~req'.exhaustive
    <3>1. \E u : x \in R!Rankings(R!Copies(u))
      BY <1>3, <2>1 DEF R!VectorLegs
    <3>2. PICK t \in SUBSET R!Visible : x \in R!Rankings(t)
      BY <1>5, <3>1
    <3>3. x \in Seq(R!Visible)
      BY <1>2, <3>2, RankingsOf
    <3> QED BY <1>1, <3>3
  <2>2. CASE ~(method \in {"usearch", "turbo"} /\ ~req'.exhaustive)
    <3>1. x \in R!TopOf(R!Visible, k)
      BY <1>3, <2>2 DEF R!VectorLegs
    <3>2. x \in Seq(R!Visible)
      BY <1>2, <3>1, RankingOf
    <3> QED BY <1>1, <3>2
  <2> QED BY <2>1, <2>2
<1>4. ASSUME NEW x \in R!LexicalLegs(k) PROVE x \in Seq(rows)
  <2>1. CASE x = <<>>
    BY <2>1
  <2>2. CASE x # <<>>
    <3>1. \E u : x \in R!TopOf(R!Copies(u), k)
      BY <1>4, <2>2 DEF R!LexicalLegs
    <3>2. PICK t \in SUBSET R!Visible : x \in R!TopOf(t, k)
      BY <1>5, <3>1
    <3>3. IsFiniteSet(t)
      BY <1>2, FS_Subset
    <3>4. x \in Seq(t)
      BY <3>2, <3>3, RankingOf
    <3> QED BY <1>1, <3>2, <3>4
  <2> QED BY <2>1, <2>2
<1> QED BY <1>3, <1>4

\* What a leg adds to the score of an id is a number.
LEMMA Contributes ==
    ASSUME NEW Z, NEW list \in Seq(Z), NEW id PROVE R!Contribution(list, id) \in Int
<1> DEFINE w == [i \in DOMAIN list |-> IF R!Id(list[i]) = id THEN R!Unit \div (59 + i) ELSE 0]
<1>1. DOMAIN list = 1..Len(list) /\ Len(list) \in Nat
  OBVIOUS
<1>2. ASSUME NEW i \in 1..Len(list)
      PROVE  (IF R!Id(list[i]) = id THEN R!Unit \div (59 + i) ELSE 0) \in Int
  <2>1. i \in Int /\ i >= 1
    OBVIOUS
  <2>2. 59 + i \in Int /\ 59 + i > 0
    BY <2>1
  <2>3. R!Unit \in Int
    BY DEF R!Unit
  <2>4. R!Unit \div (59 + i) \in Int
    BY <2>2, <2>3
  <2> QED BY <2>4
<1>3. w \in [1..Len(list) -> Int]
  <2> HIDE DEF R!Id, R!Unit
  <2> QED BY <1>1, <1>2
<1>4. w \in Seq(Int)
  <2> HIDE DEF w
  <2> QED BY <1>1, <1>3
<1>5. R!Contribution(list, id) = Ord!Total(w)
  BY SameTotalR DEF R!Contribution
<1> HIDE DEF w
<1> QED BY <1>4, <1>5, TotalIs

Scored(Z) == [row : Z, score : Int]

LEMMA KeptIn ==
    ASSUME NEW A, NEW s \in Seq(A), NEW places, places \in SUBSET (DOMAIN s)
    PROVE  R!Kept(s, places) \in Seq(A)
<1>1. DOMAIN s = 1..Len(s)
  OBVIOUS
<1>2. R!Kept(s, places) = Ord!Kept(s, places)
  BY SameKeptR
<1> QED BY <1>1, <1>2, KeptPicks

\* The fusion lists rows of the two legs.
LEMMA Fuses ==
    ASSUME NEW Z, NEW vec \in Seq(Z), NEW lex \in Seq(Z), NEW k \in Nat, NEW lexFirst \in BOOLEAN
    PROVE  R!Rrf(vec, lex, k, lexFirst) \in Seq(Scored(Z))
<1> DEFINE both == vec \o lex
           Y == {i \in DOMAIN both : \A j \in 1..(i - 1) : R!Id(both[j]) # R!Id(both[i])}
           ids == R!Kept(both, Y)
           inLex(r) == \E i \in DOMAIN lex : R!Id(lex[i]) = R!Id(r)
           first == [i \in DOMAIN ids |-> IF inLex(ids[i]) = lexFirst THEN 1 ELSE 0]
           all == R!SortedBy(ids, first)
           scored == [i \in DOMAIN all |->
                        [row |-> all[i], score |-> R!Contribution(vec, R!Id(all[i])) + R!Contribution(lex, R!Id(all[i]))]]
           keys == [i \in DOMAIN scored |-> scored[i].score]
           sorted == R!SortedBy(scored, keys)
           m == R!Min({k, Len(all)})
<1>1. R!Rrf(vec, lex, k, lexFirst) = SubSeq(sorted, 1, m)
  BY DEF R!Rrf, R!StableBy
<1>2. both \in Seq(Z)
  OBVIOUS
<1>3. ids \in Seq(Z)
  <2>1. Y \in SUBSET (DOMAIN both)
    OBVIOUS
  <2> HIDE DEF both, Y
  <2> QED BY <1>2, <2>1, KeptIn
<1> HIDE DEF ids, inLex
<1>4. first \in Seq(Int) /\ Len(first) = Len(ids)
  BY <1>3
<1> HIDE DEF first
<1>5. all \in Seq(Z)
  BY <1>3, <1>4, SortShuffles
<1> HIDE DEF all
<1>6. scored \in Seq(Scored(Z))
  <2>1. ASSUME NEW i \in DOMAIN all
        PROVE  [row |-> all[i], score |-> R!Contribution(vec, R!Id(all[i])) + R!Contribution(lex, R!Id(all[i]))]
                 \in Scored(Z)
    <3>1. R!Contribution(vec, R!Id(all[i])) \in Int /\ R!Contribution(lex, R!Id(all[i])) \in Int
      BY Contributes
    <3>2. all[i] \in Z
      BY <1>5
    <3> QED BY <3>1, <3>2 DEF Scored
  <2>2. DOMAIN all = 1..Len(all) /\ Len(all) \in Nat
    BY <1>5
  <2> QED BY <2>1, <2>2
<1> HIDE DEF scored
<1>7. keys \in Seq(Int) /\ Len(keys) = Len(scored)
  <2>1. \A i \in DOMAIN scored : scored[i].score \in Int
    <3>1. \A i \in DOMAIN scored : scored[i] \in Scored(Z)
      BY <1>6
    <3>2. \A c \in Scored(Z) : c.score \in Int
      BY DEF Scored
    <3> QED BY <3>1, <3>2
  <2> QED BY <1>6, <2>1
<1> HIDE DEF keys
<1>8. sorted \in Seq(Scored(Z)) /\ Len(sorted) = Len(scored)
  BY <1>6, <1>7, SortShuffles DEF Shuffled
<1>9. m \in Nat /\ m <= Len(scored)
  <2>1. Len(all) \in Nat
    BY <1>5
  <2>2. m = IF k <= Len(all) THEN k ELSE Len(all)
    BY <2>1, MinOfTwo
  <2>3. Len(scored) = Len(all)
    BY <1>5 DEF scored
  <2> HIDE DEF m
  <2> QED BY <2>1, <2>2, <2>3
<1> HIDE DEF sorted, m
<1> QED BY <1>1, <1>8, <1>9

\* The inductive invariant of the ranking: what one run cut is coherent, the candidates
\* are of such rows, and a ranked page is full.
RankInv ==
    /\ DOMAIN content = Files /\ \A f \in Files : content[f] \in TextsOf(f)
    /\ IsFiniteSet(rows) /\ Coherent(rows)
    /\ runs \in Nat /\ \A r \in rows : r.run \in 1..runs
    /\ req.limit \in Nat
    /\ pc = "fetched" => \E Z : Coherent(Z) /\ fused \in Seq(Cand(Z))
    /\ R!PageFull

LEMMA RankBegins == ASSUME R!RankingAssumption, R!Init PROVE RankInv
<1>1. DOMAIN content = Files /\ \A f \in Files : content[f] \in TextsOf(f)
  BY DEF R!Init
<1>2. rows = {} /\ runs = 0 /\ pc = "idle" /\ req = [limit |-> 1, tests |-> FALSE, exhaustive |-> FALSE]
  BY DEF R!Init
<1>3. IsFiniteSet(rows) /\ Coherent(rows)
  BY <1>2, FS_EmptySet DEF Coherent
<1>4. req.limit \in Nat
  BY <1>2
<1>5. pc # "fetched" /\ R!PageFull
  BY <1>2 DEF R!PageFull
<1>6. runs \in Nat /\ \A r \in rows : r.run \in 1..runs
  BY <1>2
<1> QED BY <1>1, <1>3, <1>4, <1>5, <1>6 DEF RankInv

\* The rows of one indexing run are coherent.
LEMMA RowsFrom ==
    ASSUME NEW f, NEW id, NEW changed, NEW A, content[f] \in Seq(A)
    PROVE  /\ IsFiniteSet(R!RowsOf(f, id, changed)) /\ Coherent(R!RowsOf(f, id, changed))
           /\ \A r \in R!RowsOf(f, id, changed) : r.file = f /\ r.run = runs + 1
<1> DEFINE t == content[f]
           calls(p) == {q \in R!Declared : q[1] \in changed /\ \E c \in R!ToSet(content[p[1]]) :
                                                              c.sym = p[2] /\ q[2] \in c.calls}
           callees(p) == (calls(p) \cup UNION {calls(q) : q \in calls(p)}) \ {p}
           known(s) == IF s = "none" THEN -1 ELSE id[<<f, s>>]
           called(i) == IF t[i].sym = "none" THEN {} ELSE {id[p] : p \in callees(<<f, t[i].sym>>)}
           row(i) == [file |-> f, name |-> t[i].sym, body |-> t[i].body, run |-> runs + 1,
                      sub |-> R!Cardinality({j \in 1..(i - 1) : t[j].sym = t[i].sym}),
                      first |-> t[i].first, last |-> t[i].last,
                      sym |-> known(t[i].sym), parent |-> known(t[i].parent), callees |-> called(i)]
           Y == {row(i) : i \in DOMAIN t}
<1>1. R!RowsOf(f, id, changed) = Y
  BY DEF R!RowsOf
<1> HIDE DEF called
<1>2. \A i \in DOMAIN t : /\ row(i).file = f /\ row(i).run = runs + 1
                          /\ row(i).name = t[i].sym /\ row(i).sym = known(t[i].sym)
  OBVIOUS
<1> HIDE DEF row
<1>3. DOMAIN t = 1..Len(t) /\ Len(t) \in Nat
  OBVIOUS
<1> HIDE DEF t
<1>4. IsFiniteSet(Y)
  <2>1. IsFiniteSet(DOMAIN t)
    BY <1>3, FS_Interval
  <2> DEFINE g == [i \in DOMAIN t |-> row(i)]
  <2>2. g \in [DOMAIN t -> Y] /\ \A y \in Y : \E i \in DOMAIN t : g[i] = y
    OBVIOUS
  <2> HIDE DEF g, Y
  <2> QED BY <2>1, <2>2, CountOnto
<1>5. ASSUME NEW a \in Y, NEW b \in Y, a.name = b.name PROVE a.sym = b.sym
  <2>1. PICK i \in DOMAIN t : a = row(i)
    OBVIOUS
  <2>2. PICK j \in DOMAIN t : b = row(j)
    OBVIOUS
  <2>3. a.name = t[i].sym /\ b.name = t[j].sym /\ a.sym = known(t[i].sym) /\ b.sym = known(t[j].sym)
    BY <1>2, <2>1, <2>2
  <2>4. t[i].sym = t[j].sym
    BY <1>5, <2>3
  <2> HIDE DEF known
  <2> QED BY <2>3, <2>4
<1>6. Coherent(Y)
  BY <1>5 DEF Coherent
<1>7. \A r \in Y : r.file = f /\ r.run = runs + 1
  BY <1>2
<1> HIDE DEF Y
<1> QED BY <1>1, <1>4, <1>6, <1>7

LEMMA PageStays ==
    ASSUME R!PageFull, UNCHANGED <<pc, req, fused, hits>> PROVE R!PageFull'
  BY DEF R!PageFull, R!Groups, R!Loose, R!Candidates, R!Outdated, R!Shown

LEMMA EditKeeps == ASSUME R!RankingAssumption, RankInv, NEW f \in Files, R!Edit(f) PROVE RankInv'
<1>1. PICK t \in TextsOf(f) : content' = [content EXCEPT ![f] = t]
  BY DEF R!Edit
<1>2. UNCHANGED <<rows, runs, pc, req, fused, hits>>
  BY DEF R!Edit, R!query
<1>3. (DOMAIN content = Files /\ \A g \in Files : content[g] \in TextsOf(g))'
  BY <1>1 DEF RankInv
<1>4. (IsFiniteSet(rows) /\ Coherent(rows) /\ req.limit \in Nat)'
  BY <1>2 DEF RankInv
<1>5. (pc = "fetched" => \E Z : Coherent(Z) /\ fused \in Seq(Cand(Z)))'
  BY <1>2 DEF RankInv
<1>6. R!PageFull'
  BY <1>2, PageStays DEF RankInv
<1>7. (runs \in Nat /\ \A r \in rows : r.run \in 1..runs)'
  BY <1>2 DEF RankInv
<1> QED BY <1>3, <1>4, <1>5, <1>6, <1>7 DEF RankInv

LEMMA IndexKeeps == ASSUME R!RankingAssumption, RankInv, R!Index PROVE RankInv'
<1> DEFINE changed == {f \in Files : indexed[f] # content[f]}
<1>1. UNCHANGED <<content, pc, req, fused, hits>>
  BY DEF R!Index, R!query
<1>2. PICK id \in R!Numberings :
         rows' = rows \cup UNION {R!RowsOf(f, id, changed) : f \in changed}
  BY DEF R!Index
<1>11. runs' = runs + 1 /\ runs \in Nat /\ \A r \in rows : r.run \in 1..runs
  BY DEF R!Index, RankInv
<1> HIDE DEF changed
<1> DEFINE Y == {R!RowsOf(f, id, changed) : f \in changed}
<1>3. \A f \in changed : /\ IsFiniteSet(R!RowsOf(f, id, changed)) /\ Coherent(R!RowsOf(f, id, changed))
                         /\ \A r \in R!RowsOf(f, id, changed) : r.file = f /\ r.run = runs + 1
  <2> SUFFICES ASSUME NEW f \in changed
               PROVE  /\ IsFiniteSet(R!RowsOf(f, id, changed)) /\ Coherent(R!RowsOf(f, id, changed))
                      /\ \A r \in R!RowsOf(f, id, changed) : r.file = f /\ r.run = runs + 1
    OBVIOUS
  <2> DEFINE A == [sym : STRING, parent : STRING, calls : SUBSET STRING,
                   body : STRING, first : Nat, last : Nat]
  <2>1. f \in Files
    BY DEF changed
  <2>2. content[f] \in TextsOf(f) /\ TextsOf(f) \subseteq Seq(A)
    BY <2>1 DEF RankInv, R!RankingAssumption
  <2>3. content[f] \in Seq(A)
    BY <2>2
  <2> HIDE DEF A
  <2> QED BY <2>3, RowsFrom
<1>4. IsFiniteSet(rows')
  <2>1. IsFiniteSet(changed)
    <3>1. IsFiniteSet(Files)
      BY DEF R!RankingAssumption, R!IsFiniteSet, IsFiniteSet
    <3>2. changed \in SUBSET Files
      BY DEF changed
    <3> QED BY <3>1, <3>2, FS_Subset
  <2>2. IsFiniteSet(Y)
    <3> DEFINE g == [f \in changed |-> R!RowsOf(f, id, changed)]
    <3>1. g \in [changed -> Y] /\ \A y \in Y : \E f \in changed : g[f] = y
      OBVIOUS
    <3> HIDE DEF g, Y
    <3> QED BY <2>1, <3>1, CountOnto
  <2>3. \A y \in Y : IsFiniteSet(y)
    BY <1>3
  <2>4. IsFiniteSet(UNION Y)
    <3> HIDE DEF Y
    <3> QED BY <2>2, <2>3, FS_UNION
  <2>5. IsFiniteSet(rows)
    BY DEF RankInv
  <2>6. rows' = rows \cup UNION Y
    BY <1>2
  <2> HIDE DEF Y
  <2> QED BY <2>4, <2>5, <2>6, FS_Union
<1>12. \A r \in rows' : r.run \in 1..runs'
  <2> SUFFICES ASSUME NEW r \in rows' PROVE r.run \in 1..(runs + 1)
    BY <1>11
  <2>1. r \in rows \/ \E f \in changed : r \in R!RowsOf(f, id, changed)
    BY <1>2
  <2>2. r.run \in 1..runs \/ r.run = runs + 1
    BY <1>3, <1>11, <2>1
  <2> QED BY <1>11, <2>2
<1>5. Coherent(rows')
  <2> SUFFICES ASSUME NEW a \in rows', NEW b \in rows', a.file = b.file, a.name = b.name, a.run = b.run
               PROVE  a.sym = b.sym
    BY DEF Coherent
  <2>1. a \in rows \/ \E f \in changed : a \in R!RowsOf(f, id, changed)
    BY <1>2
  <2>2. b \in rows \/ \E f \in changed : b \in R!RowsOf(f, id, changed)
    BY <1>2
  <2>5. runs + 1 \notin 1..runs
    BY <1>11
  <2>3. CASE a \in rows
    <3>1. a.run \in 1..runs
      BY <1>11, <2>3
    <3>2. b \in rows
      BY <1>3, <2>2, <2>5, <3>1
    <3> QED BY <2>3, <3>2 DEF RankInv, Coherent
  <2>4. CASE a \notin rows
    <3>1. PICK f \in changed : a \in R!RowsOf(f, id, changed)
      BY <2>1, <2>4
    <3>2. a.file = f /\ a.run = runs + 1
      BY <1>3, <3>1
    <3>3. b \notin rows
      BY <1>11, <2>5, <3>2
    <3>4. PICK g \in changed : b \in R!RowsOf(g, id, changed)
      BY <2>2, <3>3
    <3>5. g = f
      BY <1>3, <3>2, <3>4
    <3> QED BY <1>3, <3>1, <3>4, <3>5 DEF Coherent
  <2> QED BY <2>3, <2>4
<1>6. (DOMAIN content = Files /\ \A g \in Files : content[g] \in TextsOf(g))'
  BY <1>1 DEF RankInv
<1>7. (pc = "fetched" => \E Z : Coherent(Z) /\ fused \in Seq(Cand(Z)))'
  BY <1>1 DEF RankInv
<1>8. R!PageFull'
  BY <1>1, PageStays DEF RankInv
<1>9. (IsFiniteSet(rows) /\ Coherent(rows))'
  BY <1>4, <1>5 DEF Coherent, IsFiniteSet
<1>10. (req.limit \in Nat)'
  BY <1>1 DEF RankInv
<1>13. runs' \in Nat
  BY <1>11
<1> QED BY <1>6, <1>7, <1>8, <1>9, <1>10, <1>12, <1>13 DEF RankInv

LEMMA QueryKeeps == ASSUME R!RankingAssumption, RankInv, R!Query PROVE RankInv'
<1> DEFINE k == req'.limit * Overfetch
<1>1. UNCHANGED <<content, rows, runs>> /\ pc' = "fetched"
  BY DEF R!Query, R!project
<1>2. req'.limit \in Nat
  <2>1. req' \in [limit : Limits, tests : BOOLEAN, exhaustive : BOOLEAN]
    BY DEF R!Query
  <2>2. Limits \subseteq Nat
    BY DEF R!RankingAssumption
  <2> QED BY <2>1, <2>2
<1>3. PICK vec \in R!VectorLegs(k), lex \in R!LexicalLegs(k), lexFirst \in BOOLEAN :
        \E close \in 0..Len(R!Rrf(vec, lex, k, lexFirst)) :
           fused' = [i \in DOMAIN R!Rrf(vec, lex, k, lexFirst) |->
                       [row |-> R!Rrf(vec, lex, k, lexFirst)[i].row,
                        score |-> R!Rrf(vec, lex, k, lexFirst)[i].score,
                        boost |-> IF i = close THEN R!Unit \div 2 ELSE 0]]
  BY DEF R!Query
<1>4. k \in Nat
  <2>1. Overfetch \in Nat
    BY DEF R!RankingAssumption
  <2> QED BY <1>2, <2>1
<1>5. vec \in Seq(rows) /\ lex \in Seq(rows)
  <2>1. IsFiniteSet(rows)
    BY DEF RankInv
  <2> HIDE DEF k
  <2> QED BY <1>3, <2>1, LegsOf
<1> DEFINE c == R!Rrf(vec, lex, k, lexFirst)
<1>6. c \in Seq(Scored(rows))
  <2> HIDE DEF k
  <2> QED BY <1>4, <1>5, Fuses
<1>7. PICK close \in 0..Len(c) :
        fused' = [i \in DOMAIN c |-> [row |-> c[i].row, score |-> c[i].score,
                                      boost |-> IF i = close THEN R!Unit \div 2 ELSE 0]]
  BY <1>3
<1> HIDE DEF c, k
<1>8. fused' \in Seq(Cand(rows))
  <2>1. ASSUME NEW i \in DOMAIN c
        PROVE  [row |-> c[i].row, score |-> c[i].score,
                boost |-> IF i = close THEN R!Unit \div 2 ELSE 0] \in Cand(rows)
    <3>1. c[i] \in Scored(rows)
      BY <1>6
    <3>2. c[i].row \in rows /\ c[i].score \in Int
      BY <3>1 DEF Scored
    <3>3. R!Unit \div 2 \in Int
      BY DEF R!Unit
    <3> QED BY <3>2, <3>3 DEF Cand
  <2>2. DOMAIN c = 1..Len(c) /\ Len(c) \in Nat
    BY <1>6
  <2>3. fused' \in [1..Len(c) -> Cand(rows)]
    BY <1>7, <2>1, <2>2
  <2> QED BY <2>2, <2>3
<1>9. (pc = "fetched" => \E Z : Coherent(Z) /\ fused \in Seq(Cand(Z)))'
  <2>1. Coherent(rows)
    BY DEF RankInv
  <2>2. \E Z : Coherent(Z) /\ fused' \in Seq(Cand(Z))
    BY <1>8, <2>1
  <2> QED BY <2>2
<1>10. R!PageFull'
  BY <1>1 DEF R!PageFull
<1>11. (DOMAIN content = Files /\ \A g \in Files : content[g] \in TextsOf(g))'
  BY <1>1 DEF RankInv
<1>12. (IsFiniteSet(rows) /\ Coherent(rows) /\ req.limit \in Nat)'
  BY <1>1, <1>2 DEF RankInv
<1>13. (runs \in Nat /\ \A r \in rows : r.run \in 1..runs)'
  BY <1>1 DEF RankInv
<1> QED BY <1>9, <1>10, <1>11, <1>12, <1>13 DEF RankInv

LEMMA GroupsAre ==
    R!Groups = SymsOf(fused) /\ R!Loose = LooseOf(fused)
  BY DEF R!Groups, R!Loose, R!Candidates, SymsOf, LooseOf, RowsIn

LEMMA RankKeeps == ASSUME R!RankingAssumption, RankInv, R!Rank PROVE RankInv'
<1> DEFINE u == R!Order(fused)
           O == OutOf(RowsIn(fused), R!ToSet(hits'))
<1>1. UNCHANGED <<content, rows, runs, req, fused>> /\ pc = "fetched" /\ pc' = "ranked"
  BY DEF R!Rank, R!project
<1>2. PICK Z : Coherent(Z) /\ fused \in Seq(Cand(Z))
  BY <1>1 DEF RankInv
<1>3. req.limit \in Nat
  BY DEF RankInv
<1>4. /\ u \in Seq(Cand(Z)) /\ SymsApart(u) /\ RowsIn(u) \subseteq RowsIn(fused)
      /\ IsFiniteSet(R!Groups) /\ IsFiniteSet(R!Loose)
      /\ \/ Len(u) >= req.limit
         \/ Len(u) >= Cardinality(R!Groups) + Cardinality(R!Loose)
  BY <1>2, <1>3, PageHolds, GroupsAre
<1> HIDE DEF u
<1>5. IsFiniteSet(O) /\ Cardinality(O) \in Nat
  <2>1. \A d, h : R!Repeats(d, h) => d.sym # -1
    BY DEF R!Repeats
  <2>2. \A d \in RowsIn(fused) : d.sym # -1 => d.sym \in R!Groups
    BY GroupsAre DEF SymsOf
  <2>3. O \in SUBSET R!Groups
    BY <2>1, <2>2 DEF OutOf
  <2> HIDE DEF O
  <2> QED BY <1>4, <2>3, FS_Subset, FS_CardinalityType
<1>6. ~req.exhaustive => Len(hits') \in Nat /\ Len(hits') + Cardinality(O) >= Len(u)
  <2> SUFFICES ASSUME ~req.exhaustive
               PROVE  Len(hits') \in Nat /\ Len(hits') + Cardinality(O) >= Len(u)
    OBVIOUS
  <2>1. PICK k \in R!Unrepeated(u) : hits' = [i \in DOMAIN R!Kept(u, k) |-> R!Kept(u, k)[i].row]
    BY DEF R!Rank, u
  <2> QED BY <1>2, <1>4, <1>5, <2>1, OverlapsLost
<1>7. R!PageFull'
  <2> DEFINE n == R!Cardinality(R!Groups) + R!Cardinality(R!Loose)
             o == Cardinality(O)
             l == Len(hits')
  <2>1. R!Cardinality(R!Groups) = Cardinality(R!Groups) /\ R!Cardinality(R!Loose) = Cardinality(R!Loose)
    BY SameCountR
  <2>2. n \in Nat
    BY <1>4, <2>1, FS_CardinalityType
  <2>3. Len(u) >= req.limit \/ Len(u) >= n
    BY <1>4, <2>1
  <2>4. Len(u) \in Nat
    BY <1>4
  <2>5. o \in Nat /\ (~req.exhaustive => l \in Nat /\ l + o >= Len(u))
    BY <1>5, <1>6
  <2>6. R!Outdated' = O /\ R!Cardinality(R!Outdated') = o
    <3>1. R!Outdated' = O
      BY <1>1 DEF R!Outdated, R!Candidates, R!Shown, OutOf, RowsIn, R!Repeats
    <3> HIDE DEF O
    <3> QED BY <3>1, SameCountR
  <2> HIDE DEF n, o, l
  <2>7. R!Min({req.limit, n}) = IF req.limit <= n THEN req.limit ELSE n
    BY <1>3, <2>2, MinOfTwo
  <2>8. ~req.exhaustive => l + o >= R!Min({req.limit, n})
    BY <1>3, <2>2, <2>3, <2>4, <2>5, <2>7
  <2>9. UNCHANGED <<R!Groups, R!Loose>>
    BY <1>1 DEF R!Groups, R!Loose, R!Candidates
  <2> HIDE DEF O
  <2> QED BY <1>1, <2>6, <2>8, <2>9 DEF R!PageFull, n, l
<1>8. (DOMAIN content = Files /\ \A g \in Files : content[g] \in TextsOf(g))'
  BY <1>1 DEF RankInv
<1>9. (IsFiniteSet(rows) /\ Coherent(rows) /\ req.limit \in Nat)'
  BY <1>1 DEF RankInv
<1>10. (runs \in Nat /\ \A r \in rows : r.run \in 1..runs)'
  BY <1>1 DEF RankInv
<1> QED BY <1>1, <1>7, <1>8, <1>9, <1>10 DEF RankInv

LEMMA AppendKeeps == ASSUME RankInv, R!AppendCallees PROVE RankInv'
<1>1. UNCHANGED <<content, rows, runs, req>> /\ pc' = "answered"
  BY DEF R!AppendCallees, R!project
<1>2. R!PageFull'
  BY <1>1 DEF R!PageFull
<1> QED BY <1>1, <1>2 DEF RankInv

\* The four steps of the ranking, and none.
LEMMA RankGoes == ASSUME R!RankingAssumption, RankInv, [R!Next]_(R!vars) PROVE RankInv'
<1>1. CASE UNCHANGED R!vars
  <2>1. UNCHANGED <<content, rows, runs, req, pc, fused, hits>>
    BY <1>1 DEF R!vars, R!project, R!query
  <2>2. R!PageFull'
    BY <2>1, PageStays DEF RankInv
  <2> QED BY <2>1, <2>2 DEF RankInv
<1> QED BY <1>1, EditKeeps, IndexKeeps, QueryKeeps, RankKeeps, AppendKeeps DEF R!Next

-----------------------------------------------------------------------------
(* The vector leg by turbo codes (TurboLeg).                              *)

LEMMA SameKeptT == ASSUME NEW s, NEW k PROVE T!Kept(s, k) = Ord!Kept(s, k)
  BY DEF T!Kept, Ord!Kept

LEMMA SameSortedT == ASSUME NEW s, NEW k PROVE T!SortedBy(s, k) = Ord!SortedBy(s, k)
  BY DEF T!SortedBy, Ord!SortedBy, T!OrderOf, Ord!OrderOf, T!Inserted, Ord!Inserted,
         T!Cardinality, Ord!Cardinality, T!IsFiniteSet, Ord!IsFiniteSet

LEMMA SameTotalT == ASSUME NEW s PROVE T!Total(s) = Ord!Total(s)
  BY DEF T!Total, Ord!Total

LEMMA SameCountT == ASSUME NEW Z PROVE T!Cardinality(Z) = Cardinality(Z)
  BY DEF T!Cardinality, Cardinality, T!IsFiniteSet, IsFiniteSet

LEMMA LeastOfTwo ==
    ASSUME NEW a \in Int, NEW b \in Int
    PROVE  T!Min({a, b}) = IF a <= b THEN a ELSE b
  BY MinOfTwo DEF R!Min, T!Min

\* Sequences with the same elements are the same.
LEMMA SameSequence ==
    ASSUME NEW A, NEW a \in Seq(A), NEW B, NEW b \in Seq(B), Len(a) = Len(b),
           \A i \in 1..Len(a) : a[i] = b[i]
    PROVE  a = b
<1>1. a = [i \in 1..Len(a) |-> a[i]] /\ b = [i \in 1..Len(b) |-> b[i]]
  OBVIOUS
<1> QED BY <1>1

LEMMA PartOf ==
    ASSUME NEW A, NEW s \in Seq(A), NEW m \in Nat, NEW n \in Nat, m >= 1, m <= n + 1, n <= Len(s)
    PROVE  /\ SubSeq(s, m, n) \in Seq(A) /\ Len(SubSeq(s, m, n)) = n + 1 - m
           /\ \A i \in 1..(n + 1 - m) : SubSeq(s, m, n)[i] = s[m + i - 1]
  OBVIOUS

\* The same of integers, as one fact of a part.
IsPart(u, s, m, n) ==
    /\ u = SubSeq(s, m, n) /\ u \in Seq(Int) /\ Len(u) = n + 1 - m
    /\ \A i \in 1..(n + 1 - m) : u[i] = s[m + i - 1]

LEMMA PartIs ==
    ASSUME NEW s \in Seq(Int), NEW m \in Nat, NEW n \in Nat, m >= 1, m <= n + 1, n <= Len(s)
    PROVE  IsPart(SubSeq(s, m, n), s, m, n)
  BY PartOf DEF IsPart

\* The cells of a column that belong to one code.
Block(c, i, w) == SubSeq(c, (i - 1) * w + 1, T!Min({i * w, Len(c)}))

LEMMA Widths ==
    ASSUME NEW n \in Nat, NEW w \in Nat, NEW k \in 1..n
    PROVE  /\ (k - 1) * w \in Nat /\ k * w \in Nat /\ n * w \in Nat
           /\ k * w = (k - 1) * w + w /\ k * w <= n * w /\ (n + 1) * w = n * w + w
<1>1. k \in Nat /\ k - 1 \in Nat /\ n - k \in Nat
  OBVIOUS
<1>2. (k - 1) * w \in Nat /\ k * w \in Nat /\ n * w \in Nat /\ (n - k) * w \in Nat
  BY <1>1
<1>3. k * w = (k - 1) * w + w /\ (n + 1) * w = n * w + w
  BY <1>1
<1>4. n * w = k * w + (n - k) * w
  BY <1>1
<1> QED BY <1>2, <1>3, <1>4

\* A block of a column of blocks of one width.
LEMMA BlockIs ==
    ASSUME NEW c \in Seq(Int), NEW n \in Nat, NEW w \in Nat, Len(c) = n * w, NEW k \in 1..n
    PROVE  /\ Block(c, k, w) \in Seq(Int) /\ Len(Block(c, k, w)) = w
           /\ \A i \in 1..w : Block(c, k, w)[i] = c[(k - 1) * w + i]
<1> DEFINE a == (k - 1) * w
           b == k * w
<1>1. a \in Nat /\ b \in Nat /\ b = a + w /\ b <= Len(c)
  BY Widths
<1>2. Block(c, k, w) = SubSeq(c, a + 1, T!Min({b, Len(c)}))
  BY DEF Block
<1> HIDE DEF a, b
<1>3. T!Min({b, Len(c)}) = b
  <2>1. Len(c) \in Int /\ b \in Int
    BY <1>1
  <2> QED BY <1>1, <2>1, LeastOfTwo
<1>4. Block(c, k, w) = SubSeq(c, a + 1, b)
  BY <1>2, <1>3
<1>5. a + 1 \in Nat /\ a + 1 >= 1 /\ a + 1 <= b + 1 /\ b + 1 - (a + 1) = w
  BY <1>1
<1> DEFINE x == a + 1
           y == SubSeq(c, x, b)
<1>6. x \in Nat /\ x >= 1 /\ x <= b + 1 /\ b + 1 - x = w
  BY <1>5
<1> HIDE DEF x
<1>7. y \in Seq(Int) /\ Len(y) = w /\ \A i \in 1..w : y[i] = c[x + i - 1]
  <2>1. /\ y \in Seq(Int) /\ Len(y) = b + 1 - x
        /\ \A i \in 1..(b + 1 - x) : y[i] = c[x + i - 1]
    BY <1>1, <1>6, PartOf
  <2> QED BY <1>6, <2>1
<1>8. \A i \in 1..w : x + i - 1 = a + i
  BY <1>1 DEF x
<1> HIDE DEF y
<1>9. Block(c, k, w) = y
  BY <1>4 DEF x, y
<1> QED BY <1>7, <1>8, <1>9 DEF a

LEMMA JoinedInts ==
    ASSUME NEW c \in Seq(Int), NEW d \in Seq(Int)
    PROVE  /\ c \o d \in Seq(Int)
           /\ Len(c \o d) = Len(c) + Len(d)
           /\ \A i \in 1..Len(c) : (c \o d)[i] = c[i]
           /\ \A i \in 1..Len(d) : (c \o d)[Len(c) + i] = d[i]
  BY Joined

\* A column of blocks of one width, and what its blocks are.
Column(col, n, w) == col \in Seq(Int) /\ Len(col) = n * w
Blocks(c, n, w) ==
    \A k \in 1..n : /\ Block(c, k, w) \in Seq(Int) /\ Len(Block(c, k, w)) = w
                    /\ \A i \in 1..w : Block(c, k, w)[i] = c[(k - 1) * w + i]

LEMMA BlocksAre ==
    ASSUME NEW c, NEW n \in Nat, NEW w \in Nat, Column(c, n, w) PROVE Blocks(c, n, w)
  BY BlockIs DEF Column, Blocks

\* A column grown by one block keeps its blocks and has that one last.
OneMore(c, d, n, w) ==
    /\ Column(c \o d, n + 1, w)
    /\ \A k \in 1..n : Block(c \o d, k, w) = Block(c, k, w)
    /\ Block(c \o d, n + 1, w) = d

LEMMA AppendBlock ==
    ASSUME NEW c, NEW n \in Nat, NEW w \in Nat, Column(c, n, w), NEW d \in Seq(Int), Len(d) = w
    PROVE  OneMore(c, d, n, w)
<1> DEFINE e == c \o d
           m == n + 1
<1>1. m * w = n * w + w /\ n * w \in Nat /\ (m - 1) * w = n * w
  OBVIOUS
<1>2. c \in Seq(Int) /\ Len(c) = n * w
  BY DEF Column
<1>3. /\ e \in Seq(Int) /\ Len(e) = Len(c) + Len(d)
      /\ \A i \in 1..Len(c) : e[i] = c[i]
      /\ \A i \in 1..Len(d) : e[Len(c) + i] = d[i]
  <2>1. /\ c \o d \in Seq(Int)
        /\ Len(c \o d) = Len(c) + Len(d)
        /\ \A i \in 1..Len(c) : (c \o d)[i] = c[i]
        /\ \A i \in 1..Len(d) : (c \o d)[Len(c) + i] = d[i]
    BY <1>2, JoinedInts
  <2> QED BY <2>1
<1>4. m \in Nat /\ m \in 1..m /\ \A k \in 1..n : k \in 1..m
  OBVIOUS
<1> HIDE DEF e, m
<1>5. Column(e, m, w)
  <2>1. Len(e) = m * w
    BY <1>1, <1>2, <1>3
  <2> QED BY <1>3, <2>1 DEF Column
<1>6. Blocks(e, m, w) /\ Blocks(c, n, w)
  BY <1>4, <1>5, BlocksAre
<1>7. ASSUME NEW k \in 1..n PROVE Block(e, k, w) = Block(c, k, w)
  <2>1. k \in 1..m
    BY <1>4
  <2>2. /\ Block(e, k, w) \in Seq(Int) /\ Len(Block(e, k, w)) = w
        /\ \A i \in 1..w : Block(e, k, w)[i] = e[(k - 1) * w + i]
    BY Zenon, <1>6, <2>1 DEF Blocks
  <2>3. /\ Block(c, k, w) \in Seq(Int) /\ Len(Block(c, k, w)) = w
        /\ \A i \in 1..w : Block(c, k, w)[i] = c[(k - 1) * w + i]
    BY Zenon, <1>6 DEF Blocks
  <2>4. \A i \in 1..w : (k - 1) * w + i \in 1..Len(c)
    <3> DEFINE a == (k - 1) * w
    <3>1. a \in Nat /\ a + w <= Len(c) /\ Len(c) \in Nat
      BY <1>2, Widths
    <3> HIDE DEF a
    <3>2. \A i \in 1..w : a + i \in 1..Len(c)
      BY <3>1
    <3> QED BY <3>2 DEF a
  <2>5. \A i \in 1..w : e[(k - 1) * w + i] = c[(k - 1) * w + i]
    BY Zenon, <1>3, <2>4
  <2>6. \A i \in 1..w : Block(e, k, w)[i] = Block(c, k, w)[i]
    BY Zenon, <2>2, <2>3, <2>5
  <2> QED BY <2>2, <2>3, <2>6, SameSequence
<1>8. Block(e, m, w) = d
  <2>1. /\ Block(e, m, w) \in Seq(Int) /\ Len(Block(e, m, w)) = w
        /\ \A i \in 1..w : Block(e, m, w)[i] = e[(m - 1) * w + i]
    BY Zenon, <1>4, <1>6 DEF Blocks
  <2>2. (m - 1) * w = Len(c)
    BY <1>1, <1>2
  <2>3. \A i \in 1..w : e[Len(c) + i] = d[i]
    BY Zenon, <1>3
  <2>4. \A i \in 1..w : Block(e, m, w)[i] = d[i]
    BY Zenon, <2>1, <2>2, <2>3
  <2> QED BY <2>1, <2>4, SameSequence
<1> QED BY <1>5, <1>7, <1>8 DEF OneMore, e, m

\* The fields of a code.
Rad(c) == SubSeq(T!Polar(c), 4, 3 + T!Pairs)
Ang(c) == SubSeq(T!Polar(c), 4 + T!Pairs, 3 + 2 * T!Pairs)
Norm(c) == T!Qjl(c)[3]
Sgn(c) == SubSeq(T!Qjl(c), 4, 3 + T!Stride)

\* The widths that TurboAssumption gives.
LEMMA TurboSizes ==
    ASSUME T!TurboAssumption
    PROVE  /\ T!Pairs \in Nat /\ T!Stride \in Nat /\ Rotated \in Seq(Int) /\ Projected \in Seq(Int)
           /\ Len(Rotated) = 2 * T!Pairs /\ Len(Projected) = Projections
           /\ Projections \in Nat /\ Width \in Nat /\ Width > 0
<1>1. /\ Rotated \in Seq(Int) /\ Projected \in Seq(Int)
      /\ Len(Rotated) = 2 * T!Pairs /\ Len(Projected) = Projections
      /\ Projections \in Nat \ {0} /\ Width \in Nat \ {0}
  BY DEF T!TurboAssumption
<1>2. T!Pairs \in Nat
  <2>1. Len(Rotated) \in Nat
    BY <1>1
  <2> QED BY <2>1 DEF T!Pairs
<1>3. T!Stride \in Nat
  <2>1. Projections + Width - 1 \in Nat
    BY <1>1
  <2>2. (Projections + Width - 1) \div Width \in Nat
    BY <1>1, <2>1
  <2> QED BY <2>2 DEF T!Stride
<1> QED BY <1>1, <1>2, <1>3

\* What one encoder's code holds.
LEMMA CodeHas ==
    ASSUME T!TurboAssumption, NEW c \in Codes, c # Null, T!Parses(c)
    PROVE  /\ Rad(c) \in Seq(Int) /\ Len(Rad(c)) = T!Pairs
           /\ Ang(c) \in Seq(Int) /\ Len(Ang(c)) = T!Pairs
           /\ \A j \in 1..T!Pairs : Ang(c)[j] \in 0..3
           /\ Sgn(c) \in Seq(Int) /\ Len(Sgn(c)) = T!Stride
           /\ Norm(c) \in Int
           /\ T!Polar(c)[3] = T!Pairs /\ Len(T!Qjl(c)) = 3 + T!Stride
           /\ SubSeq(c, 6, 5 + T!Pairs) = Rad(c)
           /\ SubSeq(c, 6 + T!Pairs, 5 + 2 * T!Pairs) = Ang(c)
<1> DEFINE p == T!Polar(c)
           q == T!Qjl(c)
           e == T!PolarEnd(c)
           w == T!Pairs
           z == T!Stride
<1>1. c \in Seq(Int) /\ T!Fits(c)
  BY DEF T!TurboAssumption
<1>2. /\ c[2] >= 0 /\ p[3] = w /\ Len(q) = 3 + z
      /\ \A j \in 1..w : p[3 + w + j] \in 0..3
  BY <1>1 DEF T!Fits
<1>3. /\ Len(c) >= 2 /\ Len(c) >= e /\ Len(p) >= 3 + 2 * p[3]
  BY DEF T!Parses
<1>4. w \in Nat /\ z \in Nat
  BY TurboSizes
<1>5. e = 2 + c[2] /\ e \in Nat /\ e >= 2 /\ Len(c) \in Nat
  <2>1. c[2] \in Int /\ Len(c) \in Nat
    BY <1>1, <1>3
  <2>2. e = 2 + c[2] /\ c[2] >= 0
    BY <1>2 DEF T!PolarEnd
  <2> HIDE DEF e
  <2> QED BY <2>1, <2>2
<1>6. /\ p \in Seq(Int) /\ Len(p) = e + 1 - 3
      /\ \A i \in 1..(e + 1 - 3) : p[i] = c[3 + i - 1]
  <2>1. p = SubSeq(c, 3, e)
    BY DEF T!Polar
  <2> HIDE DEF p, e
  <2>2. 3 \in Nat /\ e \in Nat /\ 3 >= 1 /\ 3 <= e + 1 /\ e <= Len(c)
    BY <1>3, <1>5
  <2>3. c \in Seq(Int)
    BY <1>1
  <2>4. IsPart(SubSeq(c, 3, e), c, 3, e)
    BY <2>2, <2>3, PartIs
  <2> QED BY Zenon, <2>1, <2>4 DEF IsPart
<1>7. q \in Seq(Int)
  <2>1. q = SubSeq(c, e + 1, Len(c))
    BY DEF T!Qjl
  <2> DEFINE x == e + 1
             y == Len(c)
  <2>2. x \in Nat /\ x >= 1 /\ x <= y + 1 /\ y \in Nat /\ y <= Len(c)
    BY <1>3, <1>5
  <2>3. q = SubSeq(c, x, y)
    BY <2>1
  <2> HIDE DEF q, x, y
  <2> QED BY <1>1, <2>2, <2>3, PartOf
<1> HIDE DEF p, q, e, w, z
<1>8. Len(p) \in Nat /\ Len(p) >= 3 + 2 * w
  BY <1>2, <1>3, <1>6
<1>9. /\ SubSeq(p, 4, 3 + w) \in Seq(Int) /\ Len(SubSeq(p, 4, 3 + w)) = w
      /\ \A i \in 1..w : SubSeq(p, 4, 3 + w)[i] = c[5 + i]
  <2>1. 3 + w \in Nat /\ 4 >= 1 /\ 4 <= (3 + w) + 1 /\ 3 + w <= Len(p) /\ (3 + w) + 1 - 4 = w
    BY <1>4, <1>8
  <2> DEFINE y == 3 + w
             u == SubSeq(p, 4, y)
  <2>2. y \in Nat /\ 4 <= y + 1 /\ y <= Len(p) /\ y + 1 - 4 = w
    BY <2>1
  <2> HIDE DEF y
  <2>3. u \in Seq(Int) /\ Len(u) = y + 1 - 4 /\ \A i \in 1..(y + 1 - 4) : u[i] = p[4 + i - 1]
    BY <1>6, <2>2, PartOf
  <2> HIDE DEF u
  <2>4. ASSUME NEW i \in 1..w PROVE u[i] = c[5 + i]
    <3>0. i \in 1..(y + 1 - 4) /\ i \in Nat
      BY <1>4, <2>2
    <3>1. 4 + i - 1 = 3 + i
      BY <3>0
    <3>2. u[i] = p[3 + i]
      BY <2>3, <3>0, <3>1
    <3>3. i <= w
      BY <1>4
    <3>4. 3 + i \in 1..(e + 1 - 3)
      BY <1>4, <1>6, <1>8, <3>0, <3>3
    <3>5. p[3 + i] = c[3 + (3 + i) - 1] /\ 3 + (3 + i) - 1 = 5 + i
      BY <1>6, <3>0, <3>4
    <3> QED BY <3>2, <3>5
  <2>5. u \in Seq(Int) /\ Len(u) = w
    BY <2>2, <2>3
  <2> QED BY <2>4, <2>5 DEF u, y
<1>10. /\ SubSeq(p, 4 + w, 3 + 2 * w) \in Seq(Int) /\ Len(SubSeq(p, 4 + w, 3 + 2 * w)) = w
       /\ \A i \in 1..w : /\ SubSeq(p, 4 + w, 3 + 2 * w)[i] = c[5 + w + i]
                          /\ SubSeq(p, 4 + w, 3 + 2 * w)[i] \in 0..3
  <2> DEFINE x == 4 + w
             y == 3 + 2 * w
             u == SubSeq(p, x, y)
  <2>1. x \in Nat /\ y \in Nat /\ x >= 1 /\ x <= y + 1 /\ y <= Len(p) /\ y + 1 - x = w
    BY <1>4, <1>8
  <2>2. \A i \in 1..w : x + i - 1 = 3 + w + i
    BY <1>4
  <2> HIDE DEF x, y
  <2>3. u \in Seq(Int) /\ Len(u) = y + 1 - x /\ \A i \in 1..(y + 1 - x) : u[i] = p[x + i - 1]
    BY <1>6, <2>1, PartOf
  <2> HIDE DEF u
  <2>4. ASSUME NEW i \in 1..w PROVE u[i] = c[5 + w + i] /\ u[i] \in 0..3
    <3>0. i \in 1..(y + 1 - x) /\ i \in Nat
      BY <2>1
    <3>1. u[i] = p[3 + w + i]
      BY <2>2, <2>3, <3>0
    <3>3. 3 + w + i \in 1..(e + 1 - 3)
      BY <1>4, <1>6, <1>8, <3>0
    <3>2. p[3 + w + i] = c[3 + (3 + w + i) - 1] /\ 3 + (3 + w + i) - 1 = 5 + w + i
      BY <1>4, <1>6, <3>3
    <3> QED BY <1>2, <3>1, <3>2
  <2>5. u \in Seq(Int) /\ Len(u) = w
    BY <2>1, <2>3
  <2> QED BY <2>4, <2>5 DEF u, x, y
<1>11. /\ SubSeq(q, 4, 3 + z) \in Seq(Int) /\ Len(SubSeq(q, 4, 3 + z)) = z
       /\ q[3] \in Int
  <2> DEFINE y == 3 + z
             u == SubSeq(q, 4, y)
  <2>1. y \in Nat /\ 4 <= y + 1 /\ y <= Len(q) /\ y + 1 - 4 = z /\ 3 \in 1..Len(q)
    BY <1>2, <1>4
  <2> HIDE DEF y
  <2>2. u \in Seq(Int) /\ Len(u) = y + 1 - 4
    BY <1>7, <2>1, PartOf
  <2>3. q[3] \in Int
    BY <1>7, <2>1
  <2> HIDE DEF u
  <2>4. u \in Seq(Int) /\ Len(u) = z
    BY <2>1, <2>2
  <2> QED BY <2>3, <2>4 DEF u, y
<1>12. SubSeq(c, 6, 5 + w) = SubSeq(p, 4, 3 + w)
  <2> DEFINE y == 5 + w
             u == SubSeq(c, 6, y)
             v == SubSeq(p, 4, 3 + w)
  <2>1. y \in Nat /\ 6 <= y + 1 /\ y <= Len(c) /\ y + 1 - 6 = w
    BY <1>3, <1>4, <1>5, <1>6, <1>8
  <2> HIDE DEF y
  <2>2. u \in Seq(Int) /\ Len(u) = y + 1 - 6 /\ \A i \in 1..(y + 1 - 6) : u[i] = c[6 + i - 1]
    BY <1>1, <2>1, PartOf
  <2> HIDE DEF u
  <2>3. \A i \in 1..w : 6 + i - 1 = 5 + i
    BY <1>4
  <2>4. Len(u) = w /\ \A i \in 1..w : u[i] = v[i]
    BY <1>9, <2>1, <2>2, <2>3
  <2>5. v \in Seq(Int) /\ Len(v) = w
    BY <1>9
  <2> HIDE DEF v
  <2>6. u = v
    BY <2>2, <2>4, <2>5, SameSequence
  <2> QED BY <2>6 DEF u, v, y
<1>13. SubSeq(c, 6 + w, 5 + 2 * w) = SubSeq(p, 4 + w, 3 + 2 * w)
  <2> DEFINE x == 6 + w
             y == 5 + 2 * w
             u == SubSeq(c, x, y)
             v == SubSeq(p, 4 + w, 3 + 2 * w)
  <2>1. x \in Nat /\ y \in Nat /\ x >= 1 /\ x <= y + 1 /\ y <= Len(c) /\ y + 1 - x = w
    BY <1>3, <1>4, <1>5, <1>6, <1>8
  <2>2. \A i \in 1..w : x + i - 1 = 5 + w + i
    BY <1>4
  <2> HIDE DEF x, y
  <2>3. u \in Seq(Int) /\ Len(u) = y + 1 - x /\ \A i \in 1..(y + 1 - x) : u[i] = c[x + i - 1]
    <3>1. c \in Seq(Int)
      BY <1>1
    <3>2. IsPart(SubSeq(c, x, y), c, x, y)
      BY <2>1, <3>1, PartIs
    <3> QED BY Zenon, <3>2 DEF IsPart
  <2> HIDE DEF u
  <2>4. Len(u) = w
    BY <2>1, <2>3
  <2>5. v \in Seq(Int) /\ Len(v) = w /\ \A i \in 1..w : v[i] = c[5 + w + i]
    BY <1>10
  <2> HIDE DEF v
  <2>6. ASSUME NEW i \in 1..w PROVE u[i] = v[i]
    <3>1. u[i] = c[x + i - 1] /\ x + i - 1 = 5 + w + i
      BY <2>1, <2>2, <2>3
    <3> QED BY <2>5, <3>1
  <2>7. u = v
    BY <2>3, <2>4, <2>5, <2>6, SameSequence
  <2> QED BY <2>7 DEF u, v, x, y
<1> QED BY <1>2, <1>9, <1>10, <1>11, <1>12, <1>13 DEF Rad, Ang, Norm, Sgn, p, q, w, z

\* The product of two sequences of numbers is a number.
LEMMA DotIs ==
    ASSUME NEW s \in Seq(Int), NEW t \in Seq(Int), Len(s) = Len(t)
    PROVE  T!Dot(s, t) \in Int
<1> DEFINE w == [i \in DOMAIN s |-> s[i] * t[i]]
<1>1. w \in Seq(Int)
  <2>1. \A i \in DOMAIN s : s[i] \in Int /\ t[i] \in Int
    OBVIOUS
  <2>2. \A i \in DOMAIN s : s[i] * t[i] \in Int
    BY <2>1
  <2>3. DOMAIN s = 1..Len(s) /\ Len(s) \in Nat
    OBVIOUS
  <2> DEFINE n == Len(s)
  <2>4. n \in Nat /\ w \in [1..n -> Int]
    BY <2>2, <2>3
  <2> HIDE DEF w, n
  <2> QED BY <2>4
<1>2. T!Dot(s, t) = Ord!Total(w)
  BY SameTotalT DEF T!Dot
<1> HIDE DEF w
<1> QED BY <1>1, <1>2, TotalIs

\* The decoded pairs are two numbers each.
LEMMA DecodedIs ==
    ASSUME NEW w \in Nat, NEW rad \in Seq(Int), NEW ang \in Seq(Int), Len(rad) = w, Len(ang) = w,
           \A j \in 1..w : ang[j] \in 0..3
    PROVE  T!Decoded(rad, ang) \in Seq(Int) /\ Len(T!Decoded(rad, ang)) = 2 * w
<1>1. \A a \in 0..3 : T!Cos[a + 1] \in Int /\ T!Sin[a + 1] \in Int
  <2>1. /\ T!Cos[1] = 1 /\ T!Cos[2] = 0 /\ T!Cos[3] = -1 /\ T!Cos[4] = 0
        /\ T!Sin[1] = 0 /\ T!Sin[2] = 1 /\ T!Sin[3] = 0 /\ T!Sin[4] = -1
    BY DEF T!Cos, T!Sin
  <2>2. \A a \in 0..3 : a + 1 \in {1, 2, 3, 4}
    OBVIOUS
  <2> QED BY <2>1, <2>2
<1> DEFINE cell(k) == LET j == (k + 1) \div 2
                      IN rad[j] * (IF k % 2 = 1 THEN T!Cos[ang[j] + 1] ELSE T!Sin[ang[j] + 1])
           m == 2 * w
<1>2. T!Decoded(rad, ang) = [k \in 1..m |-> cell(k)]
  BY DEF T!Decoded
<1>3. ASSUME NEW k \in 1..m PROVE cell(k) \in Int
  <2> DEFINE j == (k + 1) \div 2
             turn == IF k % 2 = 1 THEN T!Cos[ang[j] + 1] ELSE T!Sin[ang[j] + 1]
  <2>1. j \in 1..w
    OBVIOUS
  <2> HIDE DEF j
  <2>2. rad[j] \in Int /\ ang[j] \in 0..3
    BY <2>1
  <2>3. turn \in Int
    BY <1>1, <2>2
  <2> HIDE DEF turn
  <2>4. rad[j] * turn \in Int
    BY <2>2, <2>3
  <2> QED BY <2>4 DEF turn, j
<1>4. m \in Nat
  OBVIOUS
<1> HIDE DEF cell, m
<1> DEFINE d == [k \in 1..m |-> cell(k)]
<1>5. d \in Seq(Int) /\ Len(d) = m
  BY <1>3, <1>4
<1> QED BY <1>2, <1>5 DEF m

\* The expanded signs are one number per projection.
LEMMA ExpandedIs ==
    ASSUME T!TurboAssumption, NEW sgn
    PROVE  T!Expanded(sgn) \in Seq(Int) /\ Len(T!Expanded(sgn)) = Projections
<1>1. Projections \in Nat /\ Width \in Nat /\ Width > 0
  BY TurboSizes
<1>2. \A b : \A i \in 1..Width : T!SignsOf(b)[i] \in Int
  BY DEF T!SignsOf
<1> DEFINE cell(k) == T!SignsOf(sgn[((k - 1) \div Width) + 1])[((k - 1) % Width) + 1]
           one == [k \in 1..Projections |-> 0]
           two == [k \in 1..Projections |-> cell(k)]
<1>3. T!Expanded(sgn) = IF Len(sgn) < T!Stride THEN one ELSE two
  BY DEF T!Expanded
<1>4. \A k \in 1..Projections : cell(k) \in Int
  <2> SUFFICES ASSUME NEW k \in 1..Projections PROVE cell(k) \in Int
    OBVIOUS
  <2>1. (k - 1) % Width \in 0..(Width - 1)
    <3>1. k - 1 \in Int
      BY <1>1
    <3> QED BY <1>1, <3>1
  <2>2. ((k - 1) % Width) + 1 \in 1..Width
    BY <1>1, <2>1
  <2> QED BY <1>2, <2>2
<1> HIDE DEF cell
<1>5. one \in Seq(Int) /\ Len(one) = Projections
  BY <1>1
<1>6. two \in Seq(Int) /\ Len(two) = Projections
  BY <1>1, <1>4
<1> HIDE DEF one, two
<1> QED BY <1>3, <1>5, <1>6

\* The estimate of the fields of a code.
ScoreOf(rad, ang, norm, sgn) ==
    T!Dot(T!Decoded(rad, ang), Rotated) + norm * T!Dot(T!Expanded(sgn), Projected)
Est(c) == ScoreOf(Rad(c), Ang(c), Norm(c), Sgn(c))

\* The estimate of a code is the one the reference computes, a number.
LEMMA EstIs ==
    ASSUME T!TurboAssumption, NEW c \in Codes, c # Null, T!Parses(c)
    PROVE  Est(c) \in Int /\ T!Estimate(c) = Est(c)
<1>1. /\ Rad(c) \in Seq(Int) /\ Len(Rad(c)) = T!Pairs
      /\ Ang(c) \in Seq(Int) /\ Len(Ang(c)) = T!Pairs
      /\ \A j \in 1..T!Pairs : Ang(c)[j] \in 0..3
      /\ Norm(c) \in Int
      /\ SubSeq(c, 6, 5 + T!Pairs) = Rad(c)
      /\ SubSeq(c, 6 + T!Pairs, 5 + 2 * T!Pairs) = Ang(c)
  BY CodeHas
<1>2. /\ T!Pairs \in Nat /\ Rotated \in Seq(Int) /\ Projected \in Seq(Int)
      /\ Len(Rotated) = 2 * T!Pairs /\ Len(Projected) = Projections
  BY TurboSizes
<1>3. T!Estimate(c) = Est(c)
  <2>1. T!Estimate(c) = T!Dot(T!Decoded(SubSeq(c, 6, 5 + T!Pairs),
                                         SubSeq(c, 6 + T!Pairs, 5 + 2 * T!Pairs)), Rotated)
                        + Norm(c) * T!Dot(T!Expanded(Sgn(c)), Projected)
    BY DEF T!Estimate, Norm, Sgn
  <2> QED BY <1>1, <2>1 DEF Est, ScoreOf
<1>4. T!Dot(T!Decoded(Rad(c), Ang(c)), Rotated) \in Int
  <2>1. T!Decoded(Rad(c), Ang(c)) \in Seq(Int) /\ Len(T!Decoded(Rad(c), Ang(c))) = 2 * T!Pairs
    BY <1>1, <1>2, DecodedIs
  <2> QED BY <1>2, <2>1, DotIs
<1>5. T!Dot(T!Expanded(Sgn(c)), Projected) \in Int
  <2>1. T!Expanded(Sgn(c)) \in Seq(Int) /\ Len(T!Expanded(Sgn(c))) = Projections
    BY ExpandedIs
  <2> QED BY <1>2, <2>1, DotIs
<1>6. Est(c) \in Int
  <2>1. Norm(c) * T!Dot(T!Expanded(Sgn(c)), Projected) \in Int
    BY <1>1, <1>5
  <2> QED BY <1>4, <2>1 DEF Est, ScoreOf
<1> QED BY <1>3, <1>6

\* The rows the leg is about, and what scoring is to say of them.
Readable == {i \in DOMAIN rows : T!Streamed(rows[i]) /\ T!Parses(rows[i].code)}
Entry(i) == [id |-> i, score |-> Est(rows[i].code)]
EntriesOf(Z) == {Entry(i) : i \in Z}
IdsOf(b) == {b.ids[k] : k \in 1..Len(b.ids)}


\* The rows of a batch are rows that can be read, each once, and the columns hold their fields.
BatchOk(b) ==
    /\ b.ids \in Seq(Nat)
    /\ \A j, k \in 1..Len(b.ids) : b.ids[j] = b.ids[k] => j = k
    /\ Column(b.radii, Len(b.ids), T!Pairs) /\ Column(b.angles, Len(b.ids), T!Pairs)
    /\ Column(b.signs, Len(b.ids), T!Stride)
    /\ b.norms \in Seq(Int) /\ Len(b.norms) = Len(b.ids)
    /\ \A k \in 1..Len(b.ids) :
         /\ b.ids[k] \in Readable
         /\ Block(b.radii, k, T!Pairs) = Rad(rows[b.ids[k]].code)
         /\ Block(b.angles, k, T!Pairs) = Ang(rows[b.ids[k]].code)
         /\ Block(b.signs, k, T!Stride) = Sgn(rows[b.ids[k]].code)
         /\ b.norms[k] = Norm(rows[b.ids[k]].code)

\* Scoring a batch gives each of its rows the score its code has by itself.
LEMMA ScoresOf ==
    ASSUME NEW b, BatchOk(b) PROVE T!ScoreBatch(b) = EntriesOf(IdsOf(b))
<1> DEFINE score(i) == ScoreOf(Block(b.radii, i, T!Pairs), Block(b.angles, i, T!Pairs), b.norms[i],
                               Block(b.signs, i, T!Stride))
           Y == {[id |-> b.ids[i], score |-> score(i)] : i \in DOMAIN b.ids}
<1>1. T!ScoreBatch(b) = Y
  BY DEF T!ScoreBatch, Block, ScoreOf
<1>2. DOMAIN b.ids = 1..Len(b.ids)
  BY DEF BatchOk
<1>3. ASSUME NEW i \in 1..Len(b.ids) PROVE [id |-> b.ids[i], score |-> score(i)] = Entry(b.ids[i])
  <2>1. score(i) = Est(rows[b.ids[i]].code)
    BY DEF BatchOk, Est
  <2> HIDE DEF score
  <2> QED BY <2>1 DEF Entry
<1> DEFINE cell(i) == [id |-> b.ids[i], score |-> score(i)]
<1>4. \A i \in 1..Len(b.ids) : cell(i) = Entry(b.ids[i])
  BY <1>3
<1>5. Y = {cell(i) : i \in 1..Len(b.ids)}
  BY <1>2
<1> HIDE DEF cell, Y
<1>6. EntriesOf(IdsOf(b)) = {Entry(b.ids[i]) : i \in 1..Len(b.ids)}
  BY DEF EntriesOf, IdsOf
<1>7. {cell(i) : i \in 1..Len(b.ids)} = {Entry(b.ids[i]) : i \in 1..Len(b.ids)}
  BY <1>4
<1> QED BY <1>1, <1>5, <1>6, <1>7

\* An emptied batch.
LEMMA ClearedOk == ASSUME T!TurboAssumption PROVE BatchOk(T!Cleared) /\ IdsOf(T!Cleared) = {}
<1>1. /\ T!Cleared.ids = <<>> /\ T!Cleared.radii = <<>> /\ T!Cleared.angles = <<>>
      /\ T!Cleared.norms = <<>> /\ T!Cleared.signs = <<>>
  BY DEF T!Cleared
<1>2. <<>> \in Seq(Nat) /\ <<>> \in Seq(Int) /\ Len(<<>>) = 0 /\ 1..0 = {}
  OBVIOUS
<1>3. 0 * T!Pairs = 0 /\ 0 * T!Stride = 0
  BY TurboSizes
<1>4. Column(<<>>, 0, T!Pairs) /\ Column(<<>>, 0, T!Stride)
  BY <1>2, <1>3 DEF Column
<1>5. IdsOf(T!Cleared) = {}
  BY <1>1, <1>2 DEF IdsOf
<1> HIDE DEF T!Cleared
<1>6. BatchOk(T!Cleared)
  BY <1>1, <1>2, <1>4 DEF BatchOk
<1> QED BY <1>5, <1>6

LEMMA AppendedIs ==
    ASSUME NEW A, NEW s \in Seq(A), NEW x \in A
    PROVE  /\ Append(s, x) \in Seq(A) /\ Len(Append(s, x)) = Len(s) + 1
           /\ \A k \in 1..Len(s) : Append(s, x)[k] = s[k]
           /\ Append(s, x)[Len(s) + 1] = x
  OBVIOUS

LEMMA AppendedInts ==
    ASSUME NEW s \in Seq(Int), NEW x \in Int
    PROVE  /\ Append(s, x) \in Seq(Int) /\ Len(Append(s, x)) = Len(s) + 1
           /\ \A k \in 1..Len(s) : Append(s, x)[k] = s[k]
           /\ Append(s, x)[Len(s) + 1] = x
  OBVIOUS

\* A batch with one more code.
LEMMA ParsedOk ==
    ASSUME T!TurboAssumption, NEW b, BatchOk(b), NEW i \in Readable, i \notin IdsOf(b), i \in Nat,
           rows[i].code \in Codes, rows[i].code # Null, T!Parses(rows[i].code)
    PROVE  /\ BatchOk(T!Parsed(b, i, rows[i].code))
           /\ IdsOf(T!Parsed(b, i, rows[i].code)) = IdsOf(b) \cup {i}
<1> DEFINE c == rows[i].code
           g == T!Parsed(b, i, c)
           n == Len(b.ids)
<1>1. /\ Rad(c) \in Seq(Int) /\ Len(Rad(c)) = T!Pairs
      /\ Ang(c) \in Seq(Int) /\ Len(Ang(c)) = T!Pairs
      /\ Sgn(c) \in Seq(Int) /\ Len(Sgn(c)) = T!Stride
      /\ Norm(c) \in Int
      /\ T!Polar(c)[3] = T!Pairs /\ Len(T!Qjl(c)) = 3 + T!Stride
  BY CodeHas
<1>2. /\ g.ids = Append(b.ids, i)
      /\ g.radii = b.radii \o Rad(c)
      /\ g.angles = b.angles \o Ang(c)
      /\ g.norms = Append(b.norms, Norm(c))
      /\ g.signs = b.signs \o Sgn(c)
  <2> DEFINE p == T!Polar(c)
             q == T!Qjl(c)
             r == [ids |-> Append(b.ids, i),
                   radii |-> b.radii \o SubSeq(p, 4, 3 + p[3]),
                   angles |-> b.angles \o SubSeq(p, 4 + p[3], 3 + 2 * p[3]),
                   norms |-> Append(b.norms, q[3]),
                   signs |-> b.signs \o SubSeq(q, 4, Len(q))]
  <2>1. g = r
    BY DEF T!Parsed
  <2> HIDE DEF g
  <2>2. /\ g.ids = Append(b.ids, i)
        /\ g.radii = b.radii \o SubSeq(p, 4, 3 + p[3])
        /\ g.angles = b.angles \o SubSeq(p, 4 + p[3], 3 + 2 * p[3])
        /\ g.norms = Append(b.norms, q[3])
        /\ g.signs = b.signs \o SubSeq(q, 4, Len(q))
    BY <2>1
  <2>3. p[3] = T!Pairs /\ Len(q) = 3 + T!Stride
    BY <1>1
  <2> HIDE DEF p, q
  <2>4. Rad(c) = SubSeq(p, 4, 3 + T!Pairs) /\ Ang(c) = SubSeq(p, 4 + T!Pairs, 3 + 2 * T!Pairs)
        /\ Norm(c) = q[3] /\ Sgn(c) = SubSeq(q, 4, 3 + T!Stride)
    BY DEF Rad, Ang, Norm, Sgn, p, q
  <2> QED BY <2>2, <2>3, <2>4
<1> HIDE DEF g
<1>3. T!Pairs \in Nat /\ T!Stride \in Nat
  BY TurboSizes
<1>4. b.ids \in Seq(Nat) /\ n \in Nat /\ b.norms \in Seq(Int) /\ Len(b.norms) = n
  BY DEF BatchOk
<1> HIDE DEF n
<1>5. /\ g.ids \in Seq(Nat) /\ Len(g.ids) = n + 1
      /\ \A k \in 1..n : g.ids[k] = b.ids[k]
      /\ g.ids[n + 1] = i
  BY <1>2, <1>4, AppendedIs DEF n
<1>6. /\ g.norms \in Seq(Int) /\ Len(g.norms) = n + 1
      /\ \A k \in 1..n : g.norms[k] = b.norms[k]
      /\ g.norms[n + 1] = Norm(c)
  <2> DEFINE x == Norm(c)
             y == b.norms
  <2>1. x \in Int /\ y \in Seq(Int) /\ Len(y) = n /\ g.norms = Append(y, x)
    BY <1>1, <1>2, <1>4
  <2> HIDE DEF x, y
  <2>2. /\ Append(y, x) \in Seq(Int) /\ Len(Append(y, x)) = Len(y) + 1
        /\ \A k \in 1..Len(y) : Append(y, x)[k] = y[k]
        /\ Append(y, x)[Len(y) + 1] = x
    BY <2>1, AppendedInts
  <2>3. /\ g.norms \in Seq(Int) /\ Len(g.norms) = n + 1
        /\ \A k \in 1..n : g.norms[k] = y[k]
        /\ g.norms[n + 1] = x
    BY <2>1, <2>2
  <2> QED BY <2>3 DEF x, y
<1>7. /\ Column(g.radii, n + 1, T!Pairs)
      /\ \A k \in 1..n : Block(g.radii, k, T!Pairs) = Block(b.radii, k, T!Pairs)
      /\ Block(g.radii, n + 1, T!Pairs) = Rad(c)
  <2> DEFINE before == b.radii
             field == Rad(c)
             width == T!Pairs
  <2>1. Column(before, n, width)
    BY DEF BatchOk, n
  <2>2. field \in Seq(Int) /\ Len(field) = width
    BY <1>1
  <2>3. n \in Nat /\ width \in Nat
    BY <1>3, <1>4
  <2>4. g.radii = before \o field
    BY <1>2
  <2> HIDE DEF before, field, width
  <2>5. OneMore(before, field, n, width)
    BY <2>1, <2>2, <2>3, AppendBlock
  <2>6. /\ Column(g.radii, n + 1, width)
        /\ \A k \in 1..n : Block(g.radii, k, width) = Block(before, k, width)
        /\ Block(g.radii, n + 1, width) = field
    BY Zenon, <2>4, <2>5 DEF OneMore
  <2> QED BY <2>6 DEF before, field, width
<1>8. /\ Column(g.angles, n + 1, T!Pairs)
      /\ \A k \in 1..n : Block(g.angles, k, T!Pairs) = Block(b.angles, k, T!Pairs)
      /\ Block(g.angles, n + 1, T!Pairs) = Ang(c)
  <2> DEFINE before == b.angles
             field == Ang(c)
             width == T!Pairs
  <2>1. Column(before, n, width)
    BY DEF BatchOk, n
  <2>2. field \in Seq(Int) /\ Len(field) = width
    BY <1>1
  <2>3. n \in Nat /\ width \in Nat
    BY <1>3, <1>4
  <2>4. g.angles = before \o field
    BY <1>2
  <2> HIDE DEF before, field, width
  <2>5. OneMore(before, field, n, width)
    BY <2>1, <2>2, <2>3, AppendBlock
  <2>6. /\ Column(g.angles, n + 1, width)
        /\ \A k \in 1..n : Block(g.angles, k, width) = Block(before, k, width)
        /\ Block(g.angles, n + 1, width) = field
    BY Zenon, <2>4, <2>5 DEF OneMore
  <2> QED BY <2>6 DEF before, field, width
<1>9. /\ Column(g.signs, n + 1, T!Stride)
      /\ \A k \in 1..n : Block(g.signs, k, T!Stride) = Block(b.signs, k, T!Stride)
      /\ Block(g.signs, n + 1, T!Stride) = Sgn(c)
  <2> DEFINE before == b.signs
             field == Sgn(c)
             width == T!Stride
  <2>1. Column(before, n, width)
    BY DEF BatchOk, n
  <2>2. field \in Seq(Int) /\ Len(field) = width
    BY <1>1
  <2>3. n \in Nat /\ width \in Nat
    BY <1>3, <1>4
  <2>4. g.signs = before \o field
    BY <1>2
  <2> HIDE DEF before, field, width
  <2>5. OneMore(before, field, n, width)
    BY <2>1, <2>2, <2>3, AppendBlock
  <2>6. /\ Column(g.signs, n + 1, width)
        /\ \A k \in 1..n : Block(g.signs, k, width) = Block(before, k, width)
        /\ Block(g.signs, n + 1, width) = field
    BY Zenon, <2>4, <2>5 DEF OneMore
  <2> QED BY <2>6 DEF before, field, width
<1>10. IdsOf(g) = IdsOf(b) \cup {i}
  <2>1. \A k \in 1..(n + 1) : k \in 1..n \/ k = n + 1
    BY <1>4
  <2>2. \A k \in 1..n : k \in 1..(n + 1)
    BY <1>4
  <2>3. n + 1 \in 1..(n + 1)
    BY <1>4
  <2>4. IdsOf(b) = {b.ids[k] : k \in 1..n}
    BY DEF IdsOf, n
  <2>5. IdsOf(g) = {g.ids[k] : k \in 1..(n + 1)}
    BY <1>5 DEF IdsOf
  <2> QED BY <1>5, <2>1, <2>2, <2>3, <2>4, <2>5
<1>11. \A j, k \in 1..(n + 1) : g.ids[j] = g.ids[k] => j = k
  <2>1. \A k \in 1..(n + 1) : k \in 1..n \/ k = n + 1
    BY <1>4
  <2>2. \A k \in 1..n : b.ids[k] # i
    BY DEF IdsOf, n
  <2>3. \A j, k \in 1..n : b.ids[j] = b.ids[k] => j = k
    BY DEF BatchOk, n
  <2> QED BY <1>5, <2>1, <2>2, <2>3
<1>12. ASSUME NEW k \in 1..(n + 1)
       PROVE  /\ g.ids[k] \in Readable
              /\ Block(g.radii, k, T!Pairs) = Rad(rows[g.ids[k]].code)
              /\ Block(g.angles, k, T!Pairs) = Ang(rows[g.ids[k]].code)
              /\ Block(g.signs, k, T!Stride) = Sgn(rows[g.ids[k]].code)
              /\ g.norms[k] = Norm(rows[g.ids[k]].code)
  <2>1. CASE k = n + 1
    BY <1>5, <1>6, <1>7, <1>8, <1>9, <2>1
  <2>2. CASE k \in 1..n
    <3>1. /\ b.ids[k] \in Readable
          /\ Block(b.radii, k, T!Pairs) = Rad(rows[b.ids[k]].code)
          /\ Block(b.angles, k, T!Pairs) = Ang(rows[b.ids[k]].code)
          /\ Block(b.signs, k, T!Stride) = Sgn(rows[b.ids[k]].code)
          /\ b.norms[k] = Norm(rows[b.ids[k]].code)
      BY <2>2 DEF BatchOk, n
    <3>2. g.ids[k] = b.ids[k]
      BY <1>5, <2>2
    <3> HIDE DEF c
    <3> QED BY <1>6, <1>7, <1>8, <1>9, <2>2, <3>1, <3>2
  <2>3. k \in 1..n \/ k = n + 1
    BY <1>4
  <2> QED BY <2>1, <2>2, <2>3
<1>13. BatchOk(g)
  BY <1>5, <1>6, <1>7, <1>8, <1>9, <1>11, <1>12 DEF BatchOk
<1> QED BY <1>10, <1>13 DEF g, c

\* There is one entry per row.
LEMMA EntriesCount ==
    ASSUME NEW Z, IsFiniteSet(Z)
    PROVE  IsFiniteSet(EntriesOf(Z)) /\ Cardinality(EntriesOf(Z)) = Cardinality(Z)
<1> DEFINE f == [i \in Z |-> Entry(i)]
<1>1. \A i \in Z : f[i] = Entry(i) /\ f[i].id = i
  BY DEF Entry
<1>2. f \in [Z -> EntriesOf(Z)]
  BY DEF EntriesOf
<1> HIDE DEF f
<1>3. \A a, b \in Z : f[a] = f[b] => a = b
  BY <1>1
<1>4. \A e \in EntriesOf(Z) : \E i \in Z : f[i] = e
  BY <1>1 DEF EntriesOf
<1>5. f \in Bijection(Z, EntriesOf(Z))
  BY <1>2, <1>3, <1>4 DEF Bijection, Injection, Surjection, IsInjective
<1>6. ExistsBijection(Z, EntriesOf(Z))
  BY <1>5 DEF ExistsBijection
<1> QED BY <1>6, FS_Bijection

Lesser(a, b) == IF a <= b THEN a ELSE b

\* The heap holds the best entries of some rows, and has room for no more.
HeapOk(h, Z) ==
    /\ h \subseteq EntriesOf(Z)
    /\ Cardinality(h) = Lesser(req.rawK, Cardinality(Z))
    /\ \A e \in h, i \in Z : Entry(i) \notin h => Est(rows[i].code) <= e.score

LEMMA EntryIs == ASSUME NEW i PROVE Entry(i).id = i /\ Entry(i).score = Est(rows[i].code)
  BY DEF Entry

\* What push_scored keeps of the heap and more rows is the best of all of them.
LEMMA PushedOk ==
    ASSUME req.rawK \in Nat, NEW Z, NEW Y, IsFiniteSet(Z), IsFiniteSet(Y),
           \A i \in Z \cup Y : Est(rows[i].code) \in Int,
           HeapOk(heap, Z), NEW h \in T!Pushed(EntriesOf(Y))
    PROVE  HeapOk(h, Z \cup Y)
<1> DEFINE k == req.rawK
           more == EntriesOf(Y)
           all == heap \cup more
           U == Z \cup Y
<1>1. /\ h \in SUBSET all /\ T!Cardinality(h) = T!Min({k, T!Cardinality(all)})
      /\ \A e \in h, f \in all \ h : e.score >= f.score
  BY DEF T!Pushed
<1>2. /\ heap \subseteq EntriesOf(Z)
      /\ Cardinality(heap) = Lesser(k, Cardinality(Z))
      /\ \A e \in heap, i \in Z : Entry(i) \notin heap => Est(rows[i].code) <= e.score
  BY DEF HeapOk
<1>3. /\ IsFiniteSet(U) /\ IsFiniteSet(EntriesOf(U)) /\ Cardinality(EntriesOf(U)) = Cardinality(U)
      /\ IsFiniteSet(EntriesOf(Z)) /\ Cardinality(EntriesOf(Z)) = Cardinality(Z)
  <2>1. IsFiniteSet(U)
    BY FS_Union
  <2> HIDE DEF U
  <2> QED BY <2>1, EntriesCount
<1>4. EntriesOf(U) = EntriesOf(Z) \cup more
  BY DEF EntriesOf
<1>5. all \in SUBSET EntriesOf(U)
  BY <1>2, <1>4
<1> HIDE DEF all, U, more
<1>6. IsFiniteSet(all) /\ Cardinality(all) <= Cardinality(EntriesOf(U))
  BY <1>3, <1>5, FS_Subset
<1>7. /\ IsFiniteSet(heap) /\ IsFiniteSet(h) /\ Cardinality(heap) <= Cardinality(all)
      /\ Cardinality(h) <= Cardinality(all)
  <2>1. heap \in SUBSET all
    BY DEF all
  <2> QED BY <1>1, <1>6, <2>1, FS_Subset
<1>8. /\ Cardinality(all) \in Nat /\ Cardinality(heap) \in Nat /\ Cardinality(h) \in Nat
      /\ Cardinality(U) \in Nat /\ Cardinality(Z) \in Nat /\ k \in Nat
  BY <1>3, <1>6, <1>7, FS_CardinalityType
<1>9. Cardinality(h) = Lesser(k, Cardinality(all))
  <2>1. T!Cardinality(h) = Cardinality(h) /\ T!Cardinality(all) = Cardinality(all)
    BY SameCountT
  <2>2. T!Min({k, Cardinality(all)}) = Lesser(k, Cardinality(all))
    BY <1>8, LeastOfTwo DEF Lesser
  <2> QED BY <1>1, <2>1, <2>2
<1> HIDE DEF k
<1>10. Cardinality(h) = Lesser(k, Cardinality(U))
  <2>1. CASE Cardinality(Z) <= k
    <3>1. Cardinality(heap) = Cardinality(EntriesOf(Z))
      BY <1>2, <1>3, <1>8, <2>1 DEF Lesser
    <3>2. heap = EntriesOf(Z)
      BY <1>2, <1>3, <3>1, FS_Subset
    <3>3. all = EntriesOf(U)
      BY <1>4, <3>2 DEF all
    <3> QED BY <1>3, <1>9, <3>3
  <2>2. CASE ~(Cardinality(Z) <= k)
    <3>1. Cardinality(heap) = k
      BY <1>2, <1>8, <2>2 DEF Lesser
    <3>2. k <= Cardinality(all) /\ k <= Cardinality(U)
      BY <1>3, <1>6, <1>7, <1>8, <3>1
    <3> QED BY <1>8, <1>9, <3>2 DEF Lesser
  <2> QED BY <2>1, <2>2
<1>11. ASSUME NEW e \in h, NEW i \in U, Entry(i) \notin h
       PROVE  Est(rows[i].code) <= e.score
  <2>1. Entry(i).score = Est(rows[i].code) /\ Est(rows[i].code) \in Int
    BY EntryIs DEF U
  <2>2. \A x \in all : x.score \in Int
    <3>1. \A x \in EntriesOf(U) : x.score \in Int
      <4> SUFFICES ASSUME NEW x \in EntriesOf(U) PROVE x.score \in Int
        OBVIOUS
      <4>1. PICK j \in U : x = Entry(j)
        BY DEF EntriesOf
      <4> QED BY <4>1, EntryIs DEF U
    <3> QED BY <1>5, <3>1
  <2>3. CASE Entry(i) \in all
    <3>1. e.score >= Entry(i).score
      BY <1>1, <1>11, <2>3 DEF all, more, k
    <3>2. e.score \in Int
      BY <1>1, <2>2 DEF all, more
    <3> QED BY <2>1, <3>1, <3>2
  <2>4. CASE Entry(i) \notin all
    <3>1. Entry(i) \notin more /\ Entry(i) \notin heap
      BY <2>4 DEF all
    <3>2. i \in Z
      BY <3>1 DEF U, more, EntriesOf
    <3>3. Cardinality(heap) # Cardinality(EntriesOf(Z))
      <4> SUFFICES ASSUME Cardinality(heap) = Cardinality(EntriesOf(Z)) PROVE FALSE
        OBVIOUS
      <4>1. heap = EntriesOf(Z)
        BY <1>2, <1>3, FS_Subset
      <4> QED BY <3>1, <3>2, <4>1 DEF EntriesOf
    <3>4. Cardinality(heap) = k /\ Cardinality(h) = k
      <4>1. ~(Cardinality(Z) <= k)
        BY <1>2, <1>3, <1>8, <3>3 DEF Lesser
      <4>2. Cardinality(heap) = k
        BY <1>2, <1>8, <4>1 DEF Lesser
      <4>3. k <= Cardinality(all)
        BY <1>7, <1>8, <4>2
      <4> QED BY <1>8, <1>9, <4>2, <4>3 DEF Lesser
    <3>5. CASE e \in heap
      BY <1>2, <3>1, <3>2, <3>5
    <3>6. CASE e \notin heap
      <4>1. \E x \in heap : x \notin h
        <5> SUFFICES ASSUME heap \in SUBSET h PROVE FALSE
          OBVIOUS
        <5>1. heap = h
          BY <1>7, <3>4, FS_Subset
        <5> QED BY <3>6, <5>1
      <4>2. PICK x \in heap : x \notin h
        BY <4>1
      <4>3. x \in all /\ e \in all
        BY <1>1 DEF all, more
      <4>4. e.score >= x.score
        BY <1>1, <4>2, <4>3 DEF all, more
      <4>5. Est(rows[i].code) <= x.score
        BY <1>2, <3>1, <3>2
      <4>6. e.score \in Int /\ x.score \in Int
        BY <2>2, <4>3
      <4> QED BY <2>1, <4>4, <4>5, <4>6
    <3> QED BY <3>5, <3>6
  <2> QED BY <2>3, <2>4
<1>12. h \subseteq EntriesOf(U)
  BY <1>1, <1>5 DEF all, more
<1> QED BY <1>10, <1>11, <1>12 DEF HeapOk, U, k

\* The rows the stream has sent.
Below == {i \in Readable : i < next}

\* The rows the request may see, and the ids of rows.
Vis == {i \in DOMAIN rows : req.tests \/ ~rows[i].test}
IdsFound(Z) == {rows[i].chunk_id : i \in Z}

\* The leg as BestRows has it.
Best(h) ==
    /\ {h[k].id : k \in DOMAIN h} \subseteq Vis
    /\ \A i \in Vis, j \in {h[k].id : k \in DOMAIN h} :
         rows[i].chunk_id = rows[j].chunk_id => i \in {h[k].id : k \in DOMAIN h}
    /\ Len(h) = Cardinality({h[k].id : k \in DOMAIN h})
    /\ Cardinality(IdsFound({h[k].id : k \in DOMAIN h})) <= req.rawK
    /\ Len(h) >= Lesser(req.rawK, Cardinality(Readable))
    /\ \A k \in DOMAIN h : \E i \in Readable :
         rows[i].chunk_id = rows[h[k].id].chunk_id /\ h[k].score = Est(rows[i].code)
    /\ \A k \in 1..(Len(h) - 1) : h[k].score >= h[k + 1].score
    /\ \A i \in Readable \ {h[j].id : j \in DOMAIN h}, k \in DOMAIN h : Est(rows[i].code) <= h[k].score

\* The inductive invariant of the vector leg: the columns of the batch are blocks, one per
\* row of the batch, and the heap is the best of the rows sent and scored.
TurboInv ==
    /\ \E n \in Nat : rows \in [1..n -> [chunk_id : ChunkIds, test : BOOLEAN, code : Codes]]
    /\ req.rawK \in Nat /\ next \in Nat /\ next >= 1
    /\ pc = "stream" => /\ BatchOk(batch) /\ \A i \in IdsOf(batch) : i < next
                        /\ HeapOk(heap, Below \ IdsOf(batch))
    /\ pc = "fetch" => HeapOk(heap, Readable)
    /\ pc = "done" => Best(hits)

\* What TurboInv says of the table.
LEMMA RowsTyped ==
    ASSUME TurboInv
    PROVE  /\ Len(rows) \in Nat /\ DOMAIN rows = 1..Len(rows)
           /\ IsFiniteSet(Readable) /\ Readable \subseteq 1..Len(rows)
           /\ \A i \in DOMAIN rows : rows[i].code \in Codes
           /\ \A i \in Readable : /\ rows[i].code \in Codes /\ rows[i].code # Null
                                  /\ T!Parses(rows[i].code)
<1>1. PICK n \in Nat : rows \in [1..n -> [chunk_id : ChunkIds, test : BOOLEAN, code : Codes]]
  BY DEF TurboInv
<1>2. Len(rows) = n /\ DOMAIN rows = 1..n
  BY <1>1
<1>3. \A i \in DOMAIN rows : rows[i].code \in Codes
  BY <1>1, <1>2
<1>4. \A i \in Readable : /\ i \in DOMAIN rows /\ rows[i].code # Null /\ T!Parses(rows[i].code)
  BY DEF Readable, T!Streamed
<1>5. Readable \in SUBSET (1..n)
  BY <1>2, <1>4
<1>6. IsFiniteSet(1..n)
  BY <1>1, FS_Interval
<1>7. IsFiniteSet(Readable)
  BY <1>5, <1>6, FS_Subset
<1> QED BY <1>1, <1>2, <1>3, <1>4, <1>5, <1>7

LEMMA TurboBegins == ASSUME T!TurboAssumption, T!Init PROVE TurboInv
<1>1. \E n \in Nat : rows \in [1..n -> [chunk_id : ChunkIds, test : BOOLEAN, code : Codes]]
  <2>1. PICK n \in 1..MaxRows : rows \in [1..n -> [chunk_id : ChunkIds, test : BOOLEAN, code : Codes]]
    BY DEF T!Init
  <2>2. MaxRows \in Nat
    BY DEF T!TurboAssumption
  <2> QED BY <2>1, <2>2
<1>2. req.rawK \in Nat
  BY DEF T!Init, T!TurboAssumption
<1>3. next = 1 /\ batch = T!Cleared /\ heap = {} /\ pc = "stream"
  BY DEF T!Init
<1>4. BatchOk(batch) /\ IdsOf(batch) = {}
  BY <1>3, ClearedOk
<1>5. Below = {}
  <2>1. Readable \subseteq DOMAIN rows
    BY DEF Readable
  <2>2. \A i \in DOMAIN rows : i >= 1 /\ i \in Nat
    BY <1>1
  <2> QED BY <1>3, <2>1, <2>2 DEF Below
<1>6. HeapOk(heap, Below \ IdsOf(batch))
  <2>1. Below \ IdsOf(batch) = {} /\ Cardinality({}) = 0
    BY <1>5, FS_EmptySet
  <2>2. HeapOk({}, {})
    BY <1>2, <2>1 DEF HeapOk, Lesser
  <2> QED BY <1>3, <2>1, <2>2
<1>7. pc # "done"
  BY <1>3
<1> QED BY <1>1, <1>2, <1>3, <1>4, <1>6, <1>7 DEF TurboInv

\* The heap of one state is the heap of the next if the table and the request stay.
LEMMA HeapStays ==
    ASSUME UNCHANGED <<rows, req>>, HeapOk(heap', Below' \ IdsOf(batch'))
    PROVE  HeapOk(heap, Below \ IdsOf(batch))'
<1> DEFINE Z == Below' \ IdsOf(batch')
<1>1. /\ heap' \subseteq EntriesOf(Z)
      /\ Cardinality(heap') = Lesser(req.rawK, Cardinality(Z))
      /\ \A e \in heap', i \in Z : Entry(i) \notin heap' => Est(rows[i].code) <= e.score
  BY DEF HeapOk
<1>2. Z = (Below \ IdsOf(batch))'
  OBVIOUS
<1>3. EntriesOf(Z) = EntriesOf(Below \ IdsOf(batch))'
  BY <1>2 DEF EntriesOf, Entry
<1>4. \A i : Entry(i)' = Entry(i)
  BY DEF Entry
<1> QED BY <1>1, <1>2, <1>3, <1>4 DEF HeapOk

LEMMA Grown ==
    ASSUME NEW A, NEW B \in SUBSET A, NEW Z, Z \cap A = {}
    PROVE  A \cup Z = (A \ B) \cup (B \cup Z) /\ A \ B = (A \cup Z) \ (B \cup Z)
  OBVIOUS

LEMMA ReadableStays == ASSUME UNCHANGED <<rows, req>> PROVE Readable' = Readable
  BY DEF Readable, T!Streamed

LEMMA BatchStays ==
    ASSUME UNCHANGED <<rows, req>>, BatchOk(batch') PROVE BatchOk(batch)'
<1>1. Readable' = Readable
  BY ReadableStays
<1> QED BY <1>1 DEF BatchOk

\* The row the stream sends next joins the batch if it can be read.
LEMMA RowJoins ==
    ASSUME T!TurboAssumption, TurboInv, pc = "stream", next <= Len(rows)
    PROVE  LET grown == IF T!Streamed(rows[next]) THEN T!Parsed(batch, next, rows[next].code) ELSE batch
           IN /\ BatchOk(grown)
              /\ IdsOf(grown) = IdsOf(batch) \cup (Readable \cap {next})
<1>1. BatchOk(batch) /\ (\A i \in IdsOf(batch) : i < next) /\ next \in Nat /\ next >= 1
  BY DEF TurboInv
<1>2. next \in DOMAIN rows /\ next \notin IdsOf(batch)
  BY <1>1, RowsTyped
<1>3. CASE T!Streamed(rows[next]) /\ T!Parses(rows[next].code)
  <2>1. next \in Readable
    BY <1>2, <1>3 DEF Readable
  <2>2. rows[next].code \in Codes /\ rows[next].code # Null /\ T!Parses(rows[next].code)
    BY <2>1, RowsTyped
  <2>3. /\ BatchOk(T!Parsed(batch, next, rows[next].code))
        /\ IdsOf(T!Parsed(batch, next, rows[next].code)) = IdsOf(batch) \cup {next}
    BY <1>1, <1>2, <2>1, <2>2, ParsedOk
  <2>4. Readable \cap {next} = {next}
    BY <2>1
  <2> QED BY <1>3, <2>3, <2>4
<1>4. CASE ~(T!Streamed(rows[next]) /\ T!Parses(rows[next].code))
  <2>1. Readable \cap {next} = {}
    BY <1>4 DEF Readable
  <2>2. ~T!Parses(rows[next].code) => T!Parsed(batch, next, rows[next].code) = batch
    BY DEF T!Parsed
  <2> QED BY <1>1, <1>4, <2>1, <2>2
<1> QED BY <1>3, <1>4

LEMMA BelowGrows ==
    ASSUME next \in Nat, UNCHANGED <<rows, req>>, next' = next + 1, Readable \subseteq Nat
    PROVE  Below' = Below \cup (Readable \cap {next})
<1>1. Readable' = Readable
  BY ReadableStays
<1>2. \A i \in Readable : i < next + 1 <=> i < next \/ i = next
  OBVIOUS
<1> QED BY <1>1, <1>2 DEF Below

\* A row: parsed into the batch, which may be scored and emptied.
LEMMA RowKeeps == ASSUME T!TurboAssumption, TurboInv, T!Row PROVE TurboInv'
<1> DEFINE grown == IF T!Streamed(rows[next]) THEN T!Parsed(batch, next, rows[next].code) ELSE batch
           before == Below \ IdsOf(batch)
<1>1. pc = "stream" /\ next <= Len(rows) /\ next' = next + 1 /\ UNCHANGED <<rows, req, pc, hits>>
  BY DEF T!Row
<1>2. IF Len(grown.ids) >= BatchSize
      THEN heap' \in T!Pushed(T!ScoreBatch(grown)) /\ batch' = T!Emptied(grown)
      ELSE batch' = grown /\ UNCHANGED heap
  BY DEF T!Row
<1>3. /\ BatchOk(grown)
      /\ IdsOf(grown) = IdsOf(batch) \cup (Readable \cap {next})
  BY <1>1, RowJoins
<1> HIDE DEF grown
<1>4. /\ next \in Nat /\ next >= 1 /\ BatchOk(batch) /\ \A i \in IdsOf(batch) : i < next
      /\ HeapOk(heap, before) /\ req.rawK \in Nat
  BY <1>1 DEF TurboInv
<1>5. Readable \subseteq Nat /\ IsFiniteSet(Readable)
  BY RowsTyped
<1>6. Below' = Below \cup (Readable \cap {next}) /\ next \notin Below
  <2>1. next \notin Below
    BY <1>4 DEF Below
  <2> QED BY <1>1, <1>4, <1>5, <2>1, BelowGrows
<1>7. IdsOf(batch) \subseteq Below
  BY <1>4 DEF BatchOk, IdsOf, Below
<1>8. Below' = before \cup IdsOf(grown) /\ before = Below' \ IdsOf(grown)
  <2> DEFINE new == Readable \cap {next}
             old == IdsOf(batch)
             A == Below
  <2>1. new \cap A = {} /\ old \in SUBSET A
    BY <1>6, <1>7
  <2>2. Below' = A \cup new /\ IdsOf(grown) = old \cup new /\ before = A \ old
    BY <1>3, <1>6
  <2> HIDE DEF new, old, A, before
  <2>3. A \cup new = (A \ old) \cup (old \cup new) /\ A \ old = (A \cup new) \ (old \cup new)
    BY <2>1, Grown
  <2> QED BY <2>2, <2>3
<1>9. \A i \in IdsOf(grown) : i < next + 1
  <2> SUFFICES ASSUME NEW i \in IdsOf(grown) PROVE i < next + 1
    OBVIOUS
  <2>1. i \in IdsOf(batch) \/ i = next
    BY <1>3
  <2>2. CASE i \in IdsOf(batch)
    <3>1. i \in Nat /\ i < next
      BY <1>4, <1>5, <1>7, <2>2 DEF Below
    <3> QED BY <1>4, <3>1
  <2> QED BY <1>4, <2>1, <2>2
<1>10. (BatchOk(batch) /\ (\A i \in IdsOf(batch) : i < next) /\ HeapOk(heap, Below \ IdsOf(batch)))'
  <2>1. CASE Len(grown.ids) >= BatchSize
    <3>1. heap' \in T!Pushed(EntriesOf(IdsOf(grown)))
      BY <1>2, <1>3, <2>1, ScoresOf
    <3>2. batch' = T!Cleared
      BY <1>2, <2>1 DEF T!Emptied
    <3>3. HeapOk(heap', before \cup IdsOf(grown))
      <4>1. before \in SUBSET Readable /\ IdsOf(grown) \in SUBSET Readable
        BY <1>3, <1>7 DEF Below
      <4>2. IsFiniteSet(before) /\ IsFiniteSet(IdsOf(grown))
        BY <1>5, <4>1, FS_Subset
      <4>3. \A i \in Readable : Est(rows[i].code) \in Int
        BY RowsTyped, EstIs
      <4>4. \A i \in before \cup IdsOf(grown) : Est(rows[i].code) \in Int
        BY <4>1, <4>3
      <4> HIDE DEF before
      <4> QED BY <1>4, <3>1, <4>2, <4>4, PushedOk
    <3>4. BatchOk(batch') /\ IdsOf(batch') = {}
      BY <3>2, ClearedOk
    <3>5. HeapOk(heap', Below' \ IdsOf(batch'))
      <4>1. Below' \ IdsOf(batch') = before \cup IdsOf(grown)
        BY <1>8, <3>4
      <4> QED BY <3>3, <4>1
    <3>6. BatchOk(batch)'
      BY <1>1, <3>4, BatchStays
    <3>7. (\A i \in IdsOf(batch) : i < next)'
      BY <3>4 DEF IdsOf
    <3>8. HeapOk(heap, Below \ IdsOf(batch))'
      BY <1>1, <3>5, HeapStays
    <3> QED BY <3>6, <3>7, <3>8
  <2>2. CASE ~(Len(grown.ids) >= BatchSize)
    <3>1. batch' = grown /\ heap' = heap
      BY <1>2, <2>2
    <3>2. BatchOk(batch)'
      BY <1>1, <1>3, <3>1, BatchStays
    <3>3. (\A i \in IdsOf(batch) : i < next)'
      BY <1>1, <1>9, <3>1 DEF IdsOf
    <3>4. HeapOk(heap', Below' \ IdsOf(batch'))
      <4>1. Below' \ IdsOf(batch') = before
        BY <1>8, <3>1
      <4> QED BY <1>4, <3>1, <4>1
    <3>5. HeapOk(heap, Below \ IdsOf(batch))'
      BY <1>1, <3>4, HeapStays
    <3> QED BY <3>2, <3>3, <3>5
  <2> QED BY <2>1, <2>2
<1>11. pc' # "done"
  BY <1>1
<1>12. (\E n \in Nat : rows \in [1..n -> [chunk_id : ChunkIds, test : BOOLEAN, code : Codes]])'
  BY <1>1 DEF TurboInv
<1>13. (req.rawK \in Nat /\ next \in Nat /\ next >= 1 /\ pc # "fetch")'
  BY <1>1, <1>4
<1> QED BY <1>10, <1>11, <1>12, <1>13 DEF TurboInv

\* The rest of the batch.
LEMMA LastBatchKeeps == ASSUME T!TurboAssumption, TurboInv, T!LastBatch PROVE TurboInv'
<1> DEFINE before == Below \ IdsOf(batch)
<1>1. /\ pc = "stream" /\ ~(next <= Len(rows)) /\ pc' = "fetch"
      /\ UNCHANGED <<rows, req, next, batch, hits>>
  BY DEF T!LastBatch, TurboInv
<1>2. heap' \in IF batch.ids = <<>> THEN {heap} ELSE T!Pushed(T!ScoreBatch(batch))
  BY DEF T!LastBatch
<1>3. /\ next \in Nat /\ next >= 1 /\ BatchOk(batch) /\ \A i \in IdsOf(batch) : i < next
      /\ HeapOk(heap, before) /\ req.rawK \in Nat
  BY <1>1 DEF TurboInv
<1>4. Readable \subseteq 1..Len(rows) /\ IsFiniteSet(Readable) /\ Len(rows) \in Nat
  BY RowsTyped
<1>5. Below = Readable
  <2>1. ASSUME NEW i \in Readable PROVE i < next
    <3>1. i \in 1..Len(rows)
      BY <1>4
    <3> QED BY <1>1, <1>3, <1>4, <3>1
  <2> QED BY <2>1 DEF Below
<1>6. IdsOf(batch) \subseteq Readable
  BY <1>3 DEF BatchOk, IdsOf
<1>7. HeapOk(heap', Readable)
  <2>1. CASE batch.ids = <<>>
    <3>1. heap' = heap
      BY <1>2, <2>1
    <3>2. IdsOf(batch) = {}
      BY <2>1 DEF IdsOf
    <3>3. before = Readable
      BY <1>5, <3>2
    <3> QED BY <1>3, <3>1, <3>3
  <2>2. CASE batch.ids # <<>>
    <3>1. heap' \in T!Pushed(EntriesOf(IdsOf(batch)))
      BY <1>2, <1>3, <2>2, ScoresOf
    <3>2. before \in SUBSET Readable /\ IdsOf(batch) \in SUBSET Readable
      BY <1>5, <1>6
    <3>3. IsFiniteSet(before) /\ IsFiniteSet(IdsOf(batch))
      BY <1>4, <3>2, FS_Subset
    <3>4. \A i \in Readable : Est(rows[i].code) \in Int
      BY RowsTyped, EstIs
    <3>5. \A i \in before \cup IdsOf(batch) : Est(rows[i].code) \in Int
      BY <3>2, <3>4
    <3>6. before \cup IdsOf(batch) = Readable
      BY <1>5, <1>6
    <3> HIDE DEF before
    <3>7. HeapOk(heap', before \cup IdsOf(batch))
      BY <1>3, <3>1, <3>3, <3>5, PushedOk
    <3> QED BY <3>6, <3>7
  <2> QED BY <2>1, <2>2
<1>8. HeapOk(heap, Readable)'
  <2>1. Readable' = Readable
    BY <1>1, ReadableStays
  <2>2. EntriesOf(Readable)' = EntriesOf(Readable)
    BY <1>1, <2>1 DEF EntriesOf, Entry
  <2>3. \A i : Entry(i)' = Entry(i)
    BY <1>1 DEF Entry
  <2> QED BY <1>1, <1>7, <2>1, <2>2, <2>3 DEF HeapOk
<1>9. pc' # "done"
  BY <1>1
<1>10. (\E n \in Nat : rows \in [1..n -> [chunk_id : ChunkIds, test : BOOLEAN, code : Codes]])'
  BY <1>1 DEF TurboInv
<1>11. (req.rawK \in Nat /\ next \in Nat /\ next >= 1 /\ pc = "fetch")'
  BY <1>1, <1>3
<1> QED BY <1>8, <1>9, <1>10, <1>11 DEF TurboInv

\* The places of the rows the heap holds.
HeapRows == {i \in Readable : Entry(i) \in heap}

\* The rows the fetch finds.
Found == {i \in DOMAIN rows : T!Copies(i) # {} /\ (req.tests \/ ~rows[i].test)}

\* The heap is of its rows.
LEMMA HeapRowsAre ==
    ASSUME heap \subseteq EntriesOf(Readable), IsFiniteSet(Readable)
    PROVE  /\ heap = EntriesOf(HeapRows)
           /\ IsFiniteSet(HeapRows) /\ Cardinality(HeapRows) = Cardinality(heap)
<1>1. \A e \in heap : \E i \in Readable : e = Entry(i)
  BY DEF EntriesOf
<1>2. heap = EntriesOf(HeapRows)
  BY <1>1 DEF EntriesOf, HeapRows
<1>3. HeapRows \in SUBSET Readable
  BY DEF HeapRows
<1>4. IsFiniteSet(HeapRows)
  BY <1>3, FS_Subset
<1> QED BY <1>2, <1>4, EntriesCount

\* The fetch finds the rows of the heap and their copies, of as many ids as the heap has
\* rows at most.
LEMMA FoundAre ==
    ASSUME TurboInv, heap \subseteq EntriesOf(Readable)
    PROVE  /\ HeapRows \subseteq Found /\ Found \subseteq Vis /\ IsFiniteSet(Found)
           /\ \A i \in Vis, j \in Found : rows[i].chunk_id = rows[j].chunk_id => i \in Found
           /\ Cardinality(HeapRows) <= Cardinality(Found)
           /\ IsFiniteSet(IdsFound(Found)) /\ Cardinality(IdsFound(Found)) <= Cardinality(heap)
           /\ \A i \in Found : \E j \in HeapRows : rows[j].chunk_id = rows[i].chunk_id
<1>1. /\ IsFiniteSet(Readable) /\ Readable \subseteq 1..Len(rows)
      /\ Len(rows) \in Nat /\ DOMAIN rows = 1..Len(rows)
  BY RowsTyped
<1>2. /\ heap = EntriesOf(HeapRows)
      /\ IsFiniteSet(HeapRows) /\ Cardinality(HeapRows) = Cardinality(heap)
  BY <1>1, HeapRowsAre
<1>3. Found \subseteq Vis
  BY DEF Found, Vis
<1>4. HeapRows \subseteq Found
  <2> SUFFICES ASSUME NEW i \in HeapRows PROVE i \in Found
    OBVIOUS
  <2>1. i \in DOMAIN rows /\ T!Streamed(rows[i]) /\ Entry(i) \in heap
    BY DEF HeapRows, Readable
  <2>2. Entry(i) \in T!Copies(i)
    BY <2>1, EntryIs DEF T!Copies
  <2> QED BY <2>1, <2>2 DEF T!Streamed, Found
<1>5. IsFiniteSet(Found)
  <2>1. Found \in SUBSET (1..Len(rows))
    BY <1>1 DEF Found
  <2>2. IsFiniteSet(1..Len(rows))
    BY <1>1, FS_Interval
  <2> QED BY <2>1, <2>2, FS_Subset
<1>6. Cardinality(HeapRows) <= Cardinality(Found)
  BY <1>4, <1>5, FS_Subset
<1>7. \A i \in Vis, j \in Found : rows[i].chunk_id = rows[j].chunk_id => i \in Found
  BY DEF Vis, Found, T!Copies
<1>8. ASSUME NEW i \in Found PROVE \E j \in HeapRows : rows[j].chunk_id = rows[i].chunk_id
  <2>1. PICK e \in heap : rows[e.id].chunk_id = rows[i].chunk_id
    BY DEF Found, T!Copies
  <2>2. PICK j \in HeapRows : e = Entry(j)
    BY <1>2 DEF EntriesOf
  <2>3. e.id = j
    BY <2>2, EntryIs
  <2> QED BY <2>1, <2>3
<1> DEFINE g == [j \in HeapRows |-> rows[j].chunk_id]
<1>9. g \in [HeapRows -> IdsFound(Found)] /\ \A y \in IdsFound(Found) : \E j \in HeapRows : g[j] = y
  BY <1>4, <1>8 DEF IdsFound
<1> HIDE DEF g
<1>10. IsFiniteSet(IdsFound(Found)) /\ Cardinality(IdsFound(Found)) <= Cardinality(heap)
  BY <1>2, <1>9, CountOnto
<1> QED BY <1>3, <1>4, <1>5, <1>6, <1>7, <1>8, <1>10

\* Of some places of a list of numbers, one has the lowest.
LEMMA LowestOf ==
    ASSUME NEW N \in Nat, NEW f \in [1..N -> Int], NEW Z \in SUBSET (1..N), Z # {}
    PROVE  \E m \in Z : \A x \in Z : f[m] <= f[x]
<1> DEFINE Good(k) == \A U \in SUBSET (1..N) :
                        U # {} /\ U \subseteq 1..k => \E m \in U : \A x \in U : f[m] <= f[x]
           Y == {k \in Nat : Good(k)}
<1>1. Good(0)
  <2>1. 1..0 = {}
    OBVIOUS
  <2>2. \A U : U \subseteq 1..0 => U = {}
    BY <2>1
  <2> QED BY <2>2
<1>2. ASSUME NEW k \in Nat, Good(k) PROVE Good(k + 1)
  <2> SUFFICES ASSUME NEW U \in SUBSET (1..N), U # {}, U \subseteq 1..(k + 1)
               PROVE  \E m \in U : \A x \in U : f[m] <= f[x]
    OBVIOUS
  <2> DEFINE V == U \ {k + 1}
  <2>1. V \in SUBSET (1..N) /\ V \subseteq 1..k
    OBVIOUS
  <2>2. CASE V = {}
    <3>1. U = {k + 1}
      BY <2>2
    <3>2. f[k + 1] \in Int
      BY <3>1
    <3> QED BY <3>1, <3>2
  <2>3. CASE V # {}
    <3>1. PICK m \in V : \A x \in V : f[m] <= f[x]
      BY <1>2, <2>1, <2>3
    <3>2. m \in U /\ \A x \in U : f[x] \in Int
      OBVIOUS
    <3>3. CASE k + 1 \notin U
      BY <3>1, <3>2, <3>3
    <3>4. CASE k + 1 \in U /\ f[m] <= f[k + 1]
      BY <3>1, <3>2, <3>4
    <3>5. CASE k + 1 \in U /\ ~(f[m] <= f[k + 1])
      <4>1. \A x \in V : f[k + 1] <= f[x]
        BY <3>1, <3>2, <3>5
      <4>2. f[k + 1] <= f[k + 1]
        BY <3>2, <3>5
      <4>3. \A x \in U : f[k + 1] <= f[x]
        BY <4>1, <4>2
      <4> QED BY <3>5, <4>3
    <3> QED BY <3>3, <3>4, <3>5
  <2> QED BY <2>2, <2>3
<1> HIDE DEF Good
<1>3. 0 \in Y /\ \A k \in Y : k + 1 \in Y
  BY <1>1, <1>2
<1>4. N \in Y
  <2> HIDE DEF Y
  <2> QED BY <1>3, NatSet DEF Y
<1>5. Good(N)
  BY <1>4
<1> QED BY <1>5 DEF Good

\* The score of an id is that of one of its rows in the heap.
LEMMA ScoreIs ==
    ASSUME T!TurboAssumption, TurboInv, heap \subseteq EntriesOf(Readable), NEW i \in Found
    PROVE  \E j \in HeapRows : /\ rows[j].chunk_id = rows[i].chunk_id
                              /\ T!ScoreById(i) = Est(rows[j].code) /\ T!ScoreById(i) \in Int
<1> DEFINE N == Len(rows)
           Z == {j \in HeapRows : rows[j].chunk_id = rows[i].chunk_id}
           f == [j \in 1..N |-> IF j \in Readable THEN Est(rows[j].code) ELSE 0]
           S == {e.score : e \in T!Copies(i)}
<1>1. /\ N \in Nat /\ DOMAIN rows = 1..N
      /\ IsFiniteSet(Readable) /\ Readable \subseteq 1..N
  BY RowsTyped
<1>2. heap = EntriesOf(HeapRows)
  BY <1>1, HeapRowsAre
<1>3. \A j \in Readable : Est(rows[j].code) \in Int
  BY RowsTyped, EstIs
<1>4. f \in [1..N -> Int]
  BY <1>3
<1>5. Z \in SUBSET (1..N) /\ Z # {} /\ Z \subseteq Readable
  BY <1>1, FoundAre DEF HeapRows
<1>6. PICK m \in Z : \A x \in Z : f[m] <= f[x]
  <2> HIDE DEF N, Z, f
  <2> QED BY <1>1, <1>4, <1>5, LowestOf
<1>7. m \in Readable /\ \A x \in Z : Est(rows[m].code) <= Est(rows[x].code)
  BY <1>1, <1>5, <1>6
<1> HIDE DEF f
<1>8. ASSUME NEW y \in S PROVE \E x \in Z : y = Est(rows[x].code)
  <2>1. PICK e \in heap : rows[e.id].chunk_id = rows[i].chunk_id /\ y = e.score
    BY DEF T!Copies
  <2>2. PICK x \in HeapRows : e = Entry(x)
    BY <1>2 DEF EntriesOf
  <2>3. e.id = x /\ e.score = Est(rows[x].code)
    BY <2>2, EntryIs
  <2> QED BY <2>1, <2>3
<1>9. Est(rows[m].code) \in S
  <2>1. m \in HeapRows /\ rows[m].chunk_id = rows[i].chunk_id
    BY <1>6
  <2>2. Entry(m) \in heap
    BY <2>1 DEF HeapRows
  <2>3. Entry(m) \in T!Copies(i)
    BY <2>1, <2>2, EntryIs DEF T!Copies
  <2> QED BY <2>3, EntryIs
<1>10. T!ScoreById(i) = Est(rows[m].code)
  <2> DEFINE v == Est(rows[m].code)
  <2>1. v \in Int /\ \A y \in S : v <= y /\ y \in Int
    BY <1>3, <1>5, <1>7, <1>8
  <2>2. v \in S
    BY <1>9
  <2>3. T!ScoreById(i) = T!Min(S)
    BY DEF T!ScoreById
  <2> HIDE DEF v, S
  <2>4. \A y \in S : (\A z \in S : y <= z) => y = v
    BY <2>1, <2>2
  <2>5. T!Min(S) = v
    BY <2>1, <2>2, <2>4 DEF T!Min
  <2> QED BY <2>3, <2>5 DEF v
<1> QED BY <1>3, <1>6, <1>7, <1>10

\* What fetch_by_chunk_ids returns: each row of the heap once.
EachOnce(ids, Z) ==
    /\ ids \in Seq(Nat) /\ Len(ids) = Cardinality(Z)
    /\ \A k \in 1..Len(ids) : ids[k] \in Z
    /\ \A a, b \in 1..Len(ids) : ids[a] = ids[b] => a = b
    /\ \A i \in Z : \E k \in 1..Len(ids) : ids[k] = i

Fetched(n, Z) == Ord!Kept([i \in 1..n |-> i], Z)

LEMMA FetchedOnce ==
    ASSUME NEW n \in Nat, NEW Z \in SUBSET (1..n), NEW ids, ids = Fetched(n, Z)
    PROVE  EachOnce(ids, Z)
<1> DEFINE s == [i \in 1..n |-> i]
<1>1. s \in Seq(Nat) /\ Len(s) = n /\ \A i \in 1..n : s[i] = i
  OBVIOUS
<1>2. ids = Ord!Kept(s, Z)
  BY DEF Fetched
<1> HIDE DEF s
<1>3. ids \in Seq(Nat) /\ Picks(ids, s, Z)
  <2>1. Z \in SUBSET (1..Len(s))
    BY <1>1
  <2> QED BY <1>1, <1>2, <2>1, KeptPicks
<1> DEFINE m == Len(ids)
<1>4. PICK f \in Bijection(1..m, Z) : \A k \in 1..m : ids[k] = s[f[k]]
  BY <1>3 DEF Picks
<1>5. /\ m \in Nat
      /\ \A k \in 1..m : f[k] \in Z
      /\ \A a, b \in 1..m : f[a] = f[b] => a = b
      /\ \A i \in Z : \E k \in 1..m : f[k] = i
  <2>1. m \in Nat
    BY <1>3 DEF Picks
  <2> HIDE DEF m
  <2> QED BY <1>4, <2>1 DEF Bijection, Injection, Surjection, IsInjective
<1>6. ASSUME NEW k \in 1..m PROVE ids[k] = f[k]
  <2> HIDE DEF m
  <2>1. f[k] \in 1..n
    BY <1>5
  <2>2. s[f[k]] = f[k] /\ ids[k] = s[f[k]]
    BY <1>1, <1>4, <2>1
  <2> QED BY <2>2
<1>7. Cardinality(Z) = m
  <2> HIDE DEF m
  <2>1. IsFiniteSet(1..m) /\ Cardinality(1..m) = m
    BY <1>5, FS_Interval
  <2>2. ExistsBijection(1..m, Z)
    BY <1>4 DEF ExistsBijection
  <2> QED BY <2>1, <2>2, FS_Bijection
<1>8. \A k \in 1..m : ids[k] \in Z
  BY <1>5, <1>6
<1>9. \A a, b \in 1..m : ids[a] = ids[b] => a = b
  BY <1>5, <1>6
<1>10. \A i \in Z : \E k \in 1..m : ids[k] = i
  <2> SUFFICES ASSUME NEW i \in Z PROVE \E k \in 1..m : ids[k] = i
    OBVIOUS
  <2>1. PICK k \in 1..m : f[k] = i
    BY <1>5
  <2> QED BY <1>6, <2>1
<1> QED BY <1>3, <1>7, <1>8, <1>9, <1>10 DEF EachOnce

\* The fetch: the rows of the heap and their copies, with the scores of their ids, by
\* decreasing score.
LEMMA FetchIsBest ==
    ASSUME T!TurboAssumption, TurboInv, T!Fetch PROVE Best(hits')
<1>1. /\ IsFiniteSet(Readable) /\ Readable \subseteq 1..Len(rows)
      /\ Len(rows) \in Nat /\ DOMAIN rows = 1..Len(rows)
  BY RowsTyped
<1>2. HeapOk(heap, Readable)
  BY DEF TurboInv, T!Fetch
<1>3. heap \subseteq EntriesOf(Readable) /\ Cardinality(heap) = Lesser(req.rawK, Cardinality(Readable))
  BY <1>2 DEF HeapOk
<1> DEFINE ids == T!Kept([i \in DOMAIN rows |-> i],
                         {i \in DOMAIN rows : T!Copies(i) # {} /\ (req.tests \/ ~rows[i].test)})
           scored == [k \in DOMAIN ids |-> [id |-> ids[k], score |-> T!ScoreById(ids[k])]]
           keys == [k \in DOMAIN scored |-> scored[k].score]
           n == Len(ids)
           A == [id : Nat, score : Int]
<1>4. hits' = T!SortedBy(scored, keys)
  BY DEF T!Fetch
<1>5. /\ ids \in Seq(Nat) /\ n = Cardinality(Found)
      /\ \A k \in 1..n : ids[k] \in Found
      /\ \A a, b \in 1..n : ids[a] = ids[b] => a = b
      /\ \A i \in Found : \E k \in 1..n : ids[k] = i
  <2>1. ids = Ord!Kept([i \in 1..Len(rows) |-> i], Found)
    BY <1>1, SameKeptT DEF Found
  <2>2. Found \in SUBSET (1..Len(rows))
    BY <1>1 DEF Found
  <2> DEFINE N == Len(rows)
  <2>3. N \in Nat /\ ids = Ord!Kept([i \in 1..N |-> i], Found) /\ Found \in SUBSET (1..N)
    BY <1>1, <2>1, <2>2
  <2> HIDE DEF ids, N
  <2> DEFINE Z == Found
  <2>4. Z \in SUBSET (1..N) /\ ids = Fetched(N, Z)
    BY <2>3 DEF Fetched
  <2> HIDE DEF Z
  <2>5. EachOnce(ids, Z)
    BY <2>3, <2>4, FetchedOnce
  <2> QED BY <2>5 DEF Z, EachOnce
<1> HIDE DEF ids
<1>6. n \in Nat /\ DOMAIN ids = 1..n
  BY <1>5
<1>7. ASSUME NEW k \in 1..n
      PROVE  /\ scored[k].id = ids[k] /\ scored[k].score = T!ScoreById(ids[k])
             /\ scored[k] \in A
  <2>1. scored[k] = [id |-> ids[k], score |-> T!ScoreById(ids[k])]
    BY <1>6
  <2>2. ids[k] \in Found
    BY <1>5
  <2>3. T!ScoreById(ids[k]) \in Int
    BY <1>3, <2>2, ScoreIs
  <2>4. ids[k] \in Nat
    BY <1>5, <1>6
  <2> QED BY <2>1, <2>3, <2>4
<1>8. scored \in Seq(A) /\ Len(scored) = n /\ DOMAIN scored = 1..n
  <2>1. scored = [k \in 1..n |-> scored[k]]
    BY <1>6
  <2> HIDE DEF scored, n, A
  <2> QED BY <1>6, <1>7, <2>1
<1> HIDE DEF scored
<1>9. ASSUME NEW k \in 1..n
      PROVE  /\ keys[k] = T!ScoreById(ids[k]) /\ keys[k] \in Int
             /\ \E j \in HeapRows : rows[j].chunk_id = rows[ids[k]].chunk_id /\ keys[k] = Est(rows[j].code)
  <2>1. keys[k] = T!ScoreById(ids[k])
    BY <1>7, <1>8
  <2>2. ids[k] \in Found
    BY <1>5
  <2> HIDE DEF keys
  <2> QED BY <1>3, <2>1, <2>2, ScoreIs
<1>10. keys \in Seq(Int) /\ Len(keys) = n
  <2>1. keys = [k \in 1..n |-> keys[k]]
    BY <1>8
  <2> HIDE DEF keys, n
  <2> QED BY <1>6, <1>9, <2>1
<1> HIDE DEF keys, n, A
<1>11. /\ hits' \in Seq(A) /\ Len(hits') = n
       /\ \E q : Ordered(q, n, keys) /\ \A k \in 1..n : hits'[k] = scored[q[k]]
  <2>1. hits' = Ord!SortedBy(scored, keys)
    BY <1>4, SameSortedT
  <2>3. scored \in Seq(A) /\ keys \in Seq(Int) /\ Len(keys) = Len(scored)
    BY <1>8, <1>10
  <2>2. /\ Ord!SortedBy(scored, keys) \in Seq(A) /\ Len(Ord!SortedBy(scored, keys)) = Len(scored)
        /\ \E q : /\ Ordered(q, Len(scored), keys)
                  /\ \A k \in 1..Len(scored) : Ord!SortedBy(scored, keys)[k] = scored[q[k]]
    BY <2>3, SortedIs, Zenon
  <2> QED BY <1>8, <2>1, <2>2
<1>12. PICK q : Ordered(q, n, keys) /\ \A k \in 1..n : hits'[k] = scored[q[k]]
  BY <1>11
<1>13. /\ \A k \in 1..n : q[k] \in 1..n
       /\ \A x \in 1..n : \E k \in 1..n : q[k] = x
       /\ \A a, b \in 1..n : a <= b => keys[q[a]] >= keys[q[b]]
  BY <1>12 DEF Ordered
<1>14. \A k \in 1..n : hits'[k].id = ids[q[k]] /\ hits'[k].score = keys[q[k]]
  <2> SUFFICES ASSUME NEW k \in 1..n PROVE hits'[k].id = ids[q[k]] /\ hits'[k].score = keys[q[k]]
    OBVIOUS
  <2>1. q[k] \in 1..n /\ hits'[k] = scored[q[k]]
    BY <1>12, <1>13
  <2> QED BY <1>7, <1>9, <2>1
<1>15. DOMAIN hits' = 1..n
  BY <1>11
<1>16. {hits'[k].id : k \in DOMAIN hits'} = Found
  <2>1. ASSUME NEW i \in Found PROVE \E k \in 1..n : hits'[k].id = i
    <3>1. PICK x \in 1..n : ids[x] = i
      BY <1>5 DEF n
    <3>2. PICK k \in 1..n : q[k] = x
      BY <1>13
    <3> QED BY <1>14, <3>1, <3>2
  <2>2. \A k \in 1..n : hits'[k].id \in Found
    BY <1>5, <1>13, <1>14 DEF n
  <2> QED BY <1>15, <2>1, <2>2
<1>17. /\ Found \subseteq Vis
       /\ \A i \in Vis, j \in Found : rows[i].chunk_id = rows[j].chunk_id => i \in Found
       /\ Len(hits') = Cardinality(Found)
       /\ Cardinality(IdsFound(Found)) <= req.rawK
       /\ Len(hits') >= Lesser(req.rawK, Cardinality(Readable))
  <2>1. /\ Found \subseteq Vis /\ IsFiniteSet(Found) /\ IsFiniteSet(IdsFound(Found))
        /\ \A i \in Vis, j \in Found : rows[i].chunk_id = rows[j].chunk_id => i \in Found
        /\ Cardinality(HeapRows) <= Cardinality(Found)
        /\ Cardinality(IdsFound(Found)) <= Cardinality(heap)
    BY <1>3, FoundAre
  <2>2. Cardinality(HeapRows) = Cardinality(heap)
    BY <1>1, <1>3, HeapRowsAre
  <2>3. Len(hits') = Cardinality(Found)
    BY <1>5, <1>11 DEF n
  <2>4. /\ req.rawK \in Nat /\ Cardinality(Readable) \in Nat
        /\ Cardinality(Found) \in Nat /\ Cardinality(IdsFound(Found)) \in Nat
    BY <1>1, <2>1, FS_CardinalityType DEF TurboInv
  <2> QED BY <1>3, <2>1, <2>2, <2>3, <2>4 DEF Lesser
<1>18. \A k \in DOMAIN hits' : \E i \in Readable :
         rows[i].chunk_id = rows[hits'[k].id].chunk_id /\ hits'[k].score = Est(rows[i].code)
  <2> SUFFICES ASSUME NEW k \in 1..n
      PROVE  \E i \in Readable :
               rows[i].chunk_id = rows[hits'[k].id].chunk_id /\ hits'[k].score = Est(rows[i].code)
    BY <1>15
  <2>1. q[k] \in 1..n /\ hits'[k].id = ids[q[k]] /\ hits'[k].score = keys[q[k]]
    BY <1>13, <1>14
  <2>2. PICK j \in HeapRows : rows[j].chunk_id = rows[ids[q[k]]].chunk_id /\ keys[q[k]] = Est(rows[j].code)
    BY <1>9, <2>1
  <2>3. j \in Readable
    BY DEF HeapRows
  <2> QED BY <2>1, <2>2, <2>3
<1>19. \A k \in 1..(Len(hits') - 1) : hits'[k].score >= hits'[k + 1].score
  <2> SUFFICES ASSUME NEW k \in 1..(Len(hits') - 1) PROVE hits'[k].score >= hits'[k + 1].score
    OBVIOUS
  <2>1. k \in 1..n /\ k + 1 \in 1..n /\ k <= k + 1
    BY <1>6, <1>11 DEF n
  <2>2. keys[q[k]] >= keys[q[k + 1]]
    BY <1>13, <2>1
  <2> QED BY <1>14, <2>1, <2>2
<1>20. \A i \in Readable \ Found, k \in DOMAIN hits' : Est(rows[i].code) <= hits'[k].score
  <2> SUFFICES ASSUME NEW i \in Readable \ Found, NEW k \in 1..n
      PROVE Est(rows[i].code) <= hits'[k].score
    BY <1>15
  <2>1. q[k] \in 1..n /\ hits'[k].score = keys[q[k]]
    BY <1>13, <1>14
  <2>2. PICK j \in HeapRows : keys[q[k]] = Est(rows[j].code)
    BY <1>9, <2>1
  <2>3. Entry(j) \in heap
    BY DEF HeapRows
  <2>4. Entry(i) \notin heap
    <3>1. HeapRows \subseteq Found
      BY <1>3, FoundAre
    <3> QED BY <3>1 DEF HeapRows
  <2>5. Est(rows[i].code) <= Entry(j).score
    BY <1>2, <2>3, <2>4 DEF HeapOk
  <2> QED BY <2>1, <2>2, <2>5, EntryIs
<1> QED BY <1>16, <1>17, <1>18, <1>19, <1>20 DEF Best

\* The invariant has BestRows.
LEMMA BestForm ==
    ASSUME T!TurboAssumption, TurboInv PROVE T!BestRows
<1> DEFINE shown == {hits[k].id : k \in DOMAIN hits}
<1>1. \A i \in Readable : T!Estimate(rows[i].code) = Est(rows[i].code)
  BY RowsTyped, EstIs
<1>2. /\ T!Cardinality(shown) = Cardinality(shown)
      /\ T!Cardinality(Readable) = Cardinality(Readable)
      /\ T!Cardinality(IdsFound(shown)) = Cardinality(IdsFound(shown))
  BY SameCountT
<1>3. T!Min({req.rawK, Cardinality(Readable)}) = Lesser(req.rawK, Cardinality(Readable))
  <2>1. req.rawK \in Int
    BY DEF TurboInv
  <2>2. Cardinality(Readable) \in Int
    BY RowsTyped, FS_CardinalityType
  <2> QED BY <2>1, <2>2, LeastOfTwo DEF Lesser
<1>4. Readable = {i \in DOMAIN rows : T!Streamed(rows[i]) /\ T!Parses(rows[i].code)}
  BY DEF Readable
<1>5. Vis = {i \in DOMAIN rows : req.tests \/ ~rows[i].test}
  BY DEF Vis
<1>6. IdsFound(shown) = {rows[i].chunk_id : i \in shown}
  BY DEF IdsFound
<1> DEFINE S1 == \A k \in DOMAIN hits : \E i \in Readable :
                   rows[i].chunk_id = rows[hits[k].id].chunk_id /\ hits[k].score = T!Estimate(rows[i].code)
           S2 == \A k \in DOMAIN hits : \E i \in Readable :
                   rows[i].chunk_id = rows[hits[k].id].chunk_id /\ hits[k].score = Est(rows[i].code)
           B1 == \A i \in Readable \ shown, k \in DOMAIN hits : T!Estimate(rows[i].code) <= hits[k].score
           B2 == \A i \in Readable \ shown, k \in DOMAIN hits : Est(rows[i].code) <= hits[k].score
<1>7. (S1 <=> S2) /\ (B1 <=> B2)
  BY <1>1
<1> DEFINE R1 == /\ shown \subseteq Vis
                 /\ \A i \in Vis, j \in shown : rows[i].chunk_id = rows[j].chunk_id => i \in shown
                 /\ \A k \in 1..(Len(hits) - 1) : hits[k].score >= hits[k + 1].score
           C1 == /\ Len(hits) = Cardinality(shown)
                 /\ Cardinality(IdsFound(shown)) <= req.rawK
                 /\ Len(hits) >= Lesser(req.rawK, Cardinality(Readable))
           C2 == /\ Len(hits) = T!Cardinality(shown)
                 /\ T!Cardinality({rows[i].chunk_id : i \in shown}) <= req.rawK
                 /\ Len(hits) >= T!Min({req.rawK, T!Cardinality(Readable)})
<1>8. C1 <=> C2
  BY <1>2, <1>3, <1>6
<1>9. Best(hits) <=> R1 /\ C1 /\ S2 /\ B2
  BY DEF Best
<1>10. T!BestRows <=> (pc = "done" => R1 /\ C2 /\ S1 /\ B1)
  BY <1>4, <1>5 DEF T!BestRows
<1> HIDE DEF R1, C1, C2, S1, S2, B1, B2
<1>11. pc = "done" => Best(hits)
  BY DEF TurboInv
<1> QED BY <1>7, <1>8, <1>9, <1>10, <1>11

\* A step that leaves the table and the request leaves what Best says of a leg.
LEMMA BestStays ==
    ASSUME UNCHANGED <<rows, req>>, Best(hits') PROVE Best(hits)'
<1>1. Readable' = Readable
  BY ReadableStays
<1>2. Vis' = Vis /\ \A Z : IdsFound(Z)' = IdsFound(Z)
  BY DEF Vis, IdsFound
<1> QED BY <1>1, <1>2 DEF Best, IdsFound

LEMMA FetchKeeps == ASSUME T!TurboAssumption, TurboInv, T!Fetch PROVE TurboInv'
<1>1. pc' = "done" /\ UNCHANGED <<rows, next, batch, heap, req>>
  BY DEF T!Fetch
<1>2. Best(hits)'
  BY <1>1, FetchIsBest, BestStays
<1>3. (\E n \in Nat : rows \in [1..n -> [chunk_id : ChunkIds, test : BOOLEAN, code : Codes]])'
  BY <1>1 DEF TurboInv
<1>4. (req.rawK \in Nat /\ next \in Nat /\ next >= 1)'
  BY <1>1 DEF TurboInv
<1> QED BY <1>1, <1>2, <1>3, <1>4 DEF TurboInv

LEMMA TurboGoes == ASSUME T!TurboAssumption, TurboInv, [T!Next]_(T!vars) PROVE TurboInv'
<1>1. CASE UNCHANGED T!vars
  <2>1. UNCHANGED <<rows, next, batch, heap, req, pc, hits>>
    BY <1>1 DEF T!vars
  <2>2. Readable' = Readable /\ Below' = Below
    BY <2>1, ReadableStays DEF Below
  <2>3. (pc = "stream" => /\ BatchOk(batch) /\ (\A i \in IdsOf(batch) : i < next)
                          /\ HeapOk(heap, Below \ IdsOf(batch)))'
    <3> SUFFICES ASSUME pc = "stream"
        PROVE (/\ BatchOk(batch) /\ (\A i \in IdsOf(batch) : i < next)
               /\ HeapOk(heap, Below \ IdsOf(batch)))'
      BY <2>1
    <3>1. BatchOk(batch) /\ (\A i \in IdsOf(batch) : i < next) /\ HeapOk(heap, Below \ IdsOf(batch))
      BY DEF TurboInv
    <3>2. BatchOk(batch)' 
      BY <2>1, <3>1, BatchStays
    <3>3. (\A i \in IdsOf(batch) : i < next)'
      BY <2>1, <3>1 DEF IdsOf
    <3>4. HeapOk(heap', Below' \ IdsOf(batch'))
      BY <2>1, <2>2, <3>1
    <3>5. HeapOk(heap, Below \ IdsOf(batch))'
      BY <2>1, <3>4, HeapStays
    <3> QED BY <3>2, <3>3, <3>5
  <2>4. (pc = "fetch" => HeapOk(heap, Readable))'
    <3>1. pc = "fetch" => HeapOk(heap, Readable)
      BY DEF TurboInv
    <3>2. EntriesOf(Readable)' = EntriesOf(Readable) /\ \A i : Entry(i)' = Entry(i)
      BY <2>1, <2>2 DEF EntriesOf, Entry
    <3> QED BY <2>1, <2>2, <3>1, <3>2 DEF HeapOk
  <2>5. (pc = "done" => Best(hits))'
    <3> SUFFICES ASSUME pc' = "done" PROVE Best(hits)'
      OBVIOUS
    <3>1. Best(hits')
      BY <2>1 DEF TurboInv
    <3> QED BY <2>1, <3>1, BestStays
  <2>6. (\E n \in Nat : rows \in [1..n -> [chunk_id : ChunkIds, test : BOOLEAN, code : Codes]])'
    BY <2>1 DEF TurboInv
  <2>7. (req.rawK \in Nat /\ next \in Nat /\ next >= 1)'
    BY <2>1 DEF TurboInv
  <2> QED BY <2>3, <2>4, <2>5, <2>6, <2>7 DEF TurboInv
<1> QED BY <1>1, RowKeeps, LastBatchKeeps, FetchKeeps DEF T!Next

LEMMA RankStays ==
    ASSUME part = "rank" => RankInv, [Next]_vars PROVE (part = "rank" => RankInv)'
<1> SUFFICES ASSUME part' = "rank" PROVE RankInv'
  OBVIOUS
<1>1. CASE RankStep
  BY <1>1, Bounds, RankGoes DEF RankStep
<1>2. CASE part = "rank" /\ UNCHANGED vars
  <2>1. UNCHANGED R!vars
    BY <1>2 DEF vars, rank, R!vars, R!project, R!query
  <2> QED BY <1>2, <2>1, Bounds, RankGoes
<1>3. part = part'
  BY DEF Next, WalkerStep, IndexStep, RankStep, TurboStep, SymbolsStep,
         FilesStep, vars
<1>4. ~WalkerStep /\ ~IndexStep /\ ~TurboStep /\ ~SymbolsStep /\ ~FilesStep
  BY <1>3 DEF WalkerStep, IndexStep, TurboStep, SymbolsStep, FilesStep
<1> QED BY <1>1, <1>2, <1>3, <1>4 DEF Next

LEMMA TurboStays ==
    ASSUME part = "turbo" => TurboInv, [Next]_vars PROVE (part = "turbo" => TurboInv)'
<1> SUFFICES ASSUME part' = "turbo" PROVE TurboInv'
  OBVIOUS
<1>1. CASE TurboStep
  BY <1>1, Bounds, TurboGoes DEF TurboStep
<1>2. CASE part = "turbo" /\ UNCHANGED vars
  <2>1. UNCHANGED T!vars
    BY <1>2 DEF vars, index, rank, T!vars
  <2> QED BY <1>2, <2>1, Bounds, TurboGoes
<1>3. part = part'
  BY DEF Next, WalkerStep, IndexStep, RankStep, TurboStep, SymbolsStep,
         FilesStep, vars
<1>4. ~WalkerStep /\ ~IndexStep /\ ~RankStep /\ ~SymbolsStep /\ ~FilesStep
  BY <1>3 DEF WalkerStep, IndexStep, RankStep, SymbolsStep, FilesStep
<1> QED BY <1>1, <1>2, <1>3, <1>4 DEF Next

LEMMA LegsAlways == Spec => []((part = "rank" => RankInv) /\ (part = "turbo" => TurboInv))
<1> DEFINE Legs == (part = "rank" => RankInv) /\ (part = "turbo" => TurboInv)
<1>1. Init => (part = "rank" => RankInv)
  BY Bounds, RankBegins DEF Init, WalkerInit, IndexInit, RankInit, TurboInit,
     SymbolsInit, FilesInit
<1>2. Init => (part = "turbo" => TurboInv)
  BY Bounds, TurboBegins DEF Init, WalkerInit, IndexInit, RankInit, TurboInit,
     SymbolsInit, FilesInit
<1>3. Legs /\ [Next]_vars => Legs'
  <2> SUFFICES ASSUME Legs, [Next]_vars PROVE Legs'
    OBVIOUS
  <2> QED BY RankStays, TurboStays
<1> HIDE DEF Legs
<1>4. Init => Legs
  BY <1>1, <1>2 DEF Legs
<1> QED BY <1>3, <1>4, PTL DEF Spec, Legs

\* The page of a search that is not exhaustive has as many rows as the limit, or one of
\* every symbol id and every passage that the two legs found, but for the ids whose rows
\* overlap, under one name, a shown row that another index run left in the table (search in
\* search.rs, dedup_overlapping_hits in handlers/search.rs); and the vector leg has the
\* raw_k best of the visible rows whose code can be read, with them the rows of the same
\* chunk ids and no other, best first, each with the score of the code of a row of its id,
\* wherever the batches were cut (run_vector_leg, score_batch in gpu.rs).
THEOREM PagesFilled == Spec => []PageFull
<1>1. (part = "rank" => RankInv) /\ (part = "turbo" => TurboInv) => PageFull
  BY Bounds, BestForm DEF RankInv, PageFull
<1> QED BY <1>1, LegsAlways, PTL

-----------------------------------------------------------------------------
(* The files that count (Sources).                                        *)

\* What is stored is what one walk found, and an edit that no run has followed yet was
\* none for the watcher.
FilesInv ==
    /\ content \in SUBSET Project /\ hits \in SUBSET Project /\ method \in BOOLEAN
    /\ \E d \in SUBSET Project : rows = G!Rows(d)
    /\ ~method => \A p \in hits : ~G!IsIndexCandidate(indexed, p)

\* The components of a path are its directories, and one more.
LEMMA ComponentsAre ==
    ASSUME NEW p, p.dirs \in Seq(STRING)
    PROVE  /\ DOMAIN G!Components(p) = 1..Len(G!Components(p))
           /\ Len(G!Components(p)) = Len(p.dirs) + 1 /\ Len(p.dirs) \in Nat
           /\ DOMAIN p.dirs = 1..Len(p.dirs)
           /\ \A i \in 1..Len(p.dirs) : G!Components(p)[i] = p.dirs[i]
<1> DEFINE last == IF Len(p.name) = 1 THEN p.name[1] ELSE "file"
           words == STRING \cup {last}
<1>1. last \in words /\ STRING \subseteq words
  OBVIOUS
<1>2. G!Components(p) = Append(p.dirs, last)
  BY DEF G!Components
<1> HIDE DEF last, words
<1>3. p.dirs \in Seq(words)
  <2>1. ASSUME NEW A, NEW B, A \subseteq B, NEW w \in Seq(A) PROVE w \in Seq(B)
    <3>1. Len(w) \in Nat /\ w = [i \in 1..Len(w) |-> w[i]] /\ \A i \in 1..Len(w) : w[i] \in B
      BY <2>1
    <3> QED BY <3>1
  <2> QED BY Zenon, <1>1, <2>1
<1> QED BY <1>1, <1>2, <1>3

\* What a walk takes the watcher takes too, but for a name that is a skipped directory's and
\* for other Foundry roots.
LEMMA WalkedIsCandidate ==
    ASSUME G!SourcesAssumption, NEW d, NEW p \in Project, p \in G!Walk(d), NEW roots,
           ~G!IsIndexCandidate(roots, p)
    PROVE  \/ G!Components(p)[Len(G!Components(p))] \in G!SkipDirs
           \/ G!IsDependencyPath(roots \ G!FoundryRoots(d), p)
<1> DEFINE c == G!Components(p)
           n == Len(p.dirs)
<1>1. p.dirs \in Seq(STRING)
  BY Zenon DEF G!SourcesAssumption
<1>2. /\ DOMAIN c = 1..Len(c) /\ Len(c) = n + 1 /\ n \in Nat /\ DOMAIN p.dirs = 1..n
      /\ \A i \in 1..n : c[i] = p.dirs[i]
  BY <1>1, ComponentsAre
<1>3. /\ ~G!Hidden(p) /\ (\A i \in DOMAIN p.dirs : p.dirs[i] \notin G!SkipDirs)
      /\ ~G!IsIgnoredBasename(p.name) /\ ~G!IsDependencyPath(G!FoundryRoots(d), p)
  BY Zenon DEF G!Walk, G!Visible
<1>4. CASE G!HasIgnoredComponent(p)
  <2>1. PICK i \in DOMAIN c : c[i] \in G!SkipDirs
    BY Zenon, <1>3, <1>4 DEF G!HasIgnoredComponent
  <2> HIDE DEF c, n
  <2>2. i \in 1..n \/ i = Len(c)
    BY <1>2
  <2>3. i \notin 1..n
    BY <1>2, <1>3, <2>1
  <2>4. c[Len(c)] \in G!SkipDirs
    BY <2>1, <2>2, <2>3
  <2> QED BY <2>4 DEF c
<1>5. CASE G!IsDependencyPath(roots, p)
  BY Zenon, <1>3, <1>5 DEF G!IsDependencyPath
<1> QED BY Zenon, <1>3, <1>4, <1>5 DEF G!IsIndexCandidate

LEMMA FilesBegin == ASSUME G!Init PROVE FilesInv
<1>1. hits = {} /\ method = FALSE /\ rows = G!Rows(content) /\ content \in SUBSET Project
  BY Zenon DEF G!Init
<1> QED BY Zenon, <1>1 DEF FilesInv

LEMMA FilesGo == ASSUME FilesInv, [G!Next]_(G!vars) PROVE FilesInv'
<1>1. CASE UNCHANGED G!vars
  <2>1. UNCHANGED <<content, hits, method, rows, indexed>>
    BY <1>1 DEF G!vars
  <2> QED BY Zenon, <2>1 DEF FilesInv
<1>2. ASSUME NEW p \in Project, G!Edit(p) PROVE FilesInv'
  <2>1. /\ hits' = hits \cup {p} /\ rows' = rows /\ indexed' = indexed
        /\ method' = (method \/ G!IsIndexCandidate(indexed, p))
    BY Zenon, <1>2 DEF G!Edit
  <2>2. hits' \in SUBSET Project /\ method' \in BOOLEAN
    BY Zenon, <1>2, <2>1 DEF FilesInv, G!IsIndexCandidate
  <2>5. content' \in SUBSET Project
    <3>1. content' = content \cup {p} \/ content' = content \ {p}
      BY Zenon, <1>2 DEF G!Edit
    <3> QED BY Zenon, <1>2, <3>1 DEF FilesInv
  <2>3. ~method' => ~method /\ ~G!IsIndexCandidate(indexed, p)
    BY Zenon, <2>1
  <2>4. ASSUME ~method' PROVE \A q \in hits' : ~G!IsIndexCandidate(indexed', q)
    BY Zenon, <2>1, <2>3, <2>4 DEF FilesInv
  <2> QED BY Zenon, <2>1, <2>2, <2>4, <2>5 DEF FilesInv
<1>3. CASE G!Reindex \/ G!RunOnRequest
  <2>1. hits' = {} /\ rows' = G!Rows(content) /\ method' \in {FALSE, method} /\ content' = content
    BY Zenon, <1>3 DEF G!Reindex, G!RunOnRequest
  <2> QED BY Zenon, <2>1 DEF FilesInv
<1>4. CASE G!BuildIndex
  <2>1. UNCHANGED <<content, hits, method, rows, indexed>>
    BY <1>4 DEF G!BuildIndex
  <2> QED BY Zenon, <2>1 DEF FilesInv
<1> QED BY Zenon, <1>1, <1>2, <1>3, <1>4 DEF G!Next

LEMMA EditsAreSeen == ASSUME G!SourcesAssumption, FilesInv PROVE G!EditsSeen
<1> SUFFICES ASSUME NEW p \in hits \cap (G!Walk(content) \cup DOMAIN rows), ~method,
                    G!Components(p)[Len(G!Components(p))] \notin G!SkipDirs
             PROVE  G!IsDependencyPath(IF p \in G!Walk(content)
                                       THEN indexed \ G!FoundryRoots(content) ELSE indexed, p)
  BY Zenon DEF G!EditsSeen
<1>1. p \in Project /\ ~G!IsIndexCandidate(indexed, p)
  BY Zenon DEF FilesInv
<1>2. CASE p \in G!Walk(content)
  <2>1. G!IsDependencyPath(indexed \ G!FoundryRoots(content), p)
    BY <1>1, <1>2, WalkedIsCandidate
  <2> QED BY Zenon, <1>2, <2>1
<1>3. CASE p \notin G!Walk(content)
  <2>1. PICK d : rows = G!Rows(d)
    BY Zenon DEF FilesInv
  <2>2. p \in G!Walk(d)
    BY Zenon, <1>3, <2>1 DEF G!Rows
  <2>3. G!IsDependencyPath(indexed \ G!FoundryRoots(d), p)
    BY <1>1, <2>2, WalkedIsCandidate
  <2>4. G!IsDependencyPath(indexed, p)
    BY Zenon, <2>3 DEF G!IsDependencyPath
  <2> QED BY Zenon, <1>3, <2>4
<1> QED BY <1>2, <1>3

LEMMA SourcesAreCode == ASSUME FilesInv, G!SourcesAssumption PROVE G!SourcesHaveSymbols
<1> SUFFICES ASSUME NEW p \in DOMAIN rows, rows[p] = "source", p \in content,
                    ~\E i \in DOMAIN G!Components(p) :
                       G!Components(p)[i] \in G!TreeSkipDirs \cup G!ExtraSkipDirs(G!Extension(p.name))
             PROVE  p \in G!Tree(content)
  BY Zenon DEF G!SourcesHaveSymbols
<1>1. PICK d \in SUBSET Project : rows = G!Rows(d)
  BY Zenon DEF FilesInv
<1>2. p \in G!Walk(d) /\ G!FileType(p) = "source"
  BY Zenon, <1>1 DEF G!Rows
<1>3. p \in Project /\ G!Visible(p) /\ p \notin Unreadable
  BY Zenon, <1>2 DEF G!Walk
<1>4. G!IsCode(p.name)
  BY <1>2 DEF G!FileType
<1>5. /\ \A i \in 1..Len(p.dirs) : G!Components(p)[i] = p.dirs[i] /\ i \in DOMAIN G!Components(p)
      /\ DOMAIN p.dirs = 1..Len(p.dirs)
  <2>1. p.dirs \in Seq(STRING)
    BY Zenon, <1>3 DEF G!SourcesAssumption
  <2> QED BY <2>1, ComponentsAre
<1>6. \A i \in DOMAIN p.dirs : p.dirs[i] \notin G!TreeSkipDirs
  BY Zenon, <1>5
<1> QED BY Zenon, <1>3, <1>4, <1>6 DEF G!Tree

-----------------------------------------------------------------------------
(* The lines and the symbols of a file (FileChunks).                      *)

LEMMA SameKeptF == ASSUME NEW s, NEW k PROVE F!Kept(s, k) = Ord!Kept(s, k)
  BY DEF F!Kept, Ord!Kept

LEMMA SameCountF == ASSUME NEW Z PROVE F!Cardinality(Z) = Cardinality(Z)
  BY DEF F!Cardinality, Cardinality, F!IsFiniteSet, IsFiniteSet

Letters == {"d", "x", " ", "n"}

\* The newlines of a text in their order, the k-th at e[k].
Breaks(t, e, m) ==
    /\ m \in Nat /\ e \in [1..m -> F!Newlines(t)]
    /\ \A a, b \in 1..m : a < b => e[a] < e[b]
    /\ \A i \in F!Newlines(t) : \E k \in 1..m : i = e[k]

\* The newlines from the a-th to the one before the b-th.
Span(Z, e, a, b) == \A i : i \in Z <=> \E k \in a..(b - 1) : i = e[k]

LEMMA BreaksBetween ==
    ASSUME NEW t, NEW e, NEW m, Breaks(t, e, m), NEW a, NEW b, a \in 1..(m + 1), b \in a..(m + 1),
           NEW Z, Span(Z, e, a, b)
    PROVE  Cardinality(Z) = b - a
<1> DEFINE I == a..(b - 1)
           f == [k \in I |-> e[k]]
<1>0. \A i : i \in Z <=> \E k \in I : i = e[k]
  BY DEF Span
<1>1. m \in Nat /\ I \subseteq 1..m /\ a \in Int /\ b - 1 \in Int
  BY DEF Breaks
<1>2. \A x, y \in 1..m : e[x] = e[y] => x = y
  <2> SUFFICES ASSUME NEW x \in 1..m, NEW y \in 1..m, e[x] = e[y], x # y PROVE FALSE
    OBVIOUS
  <2>1. e[x] \in Int /\ e[y] \in Int
    BY DEF Breaks, F!Newlines
  <2>2. e[x] < e[y] \/ e[y] < e[x]
    <3>1. x < y \/ y < x
      OBVIOUS
    <3> QED BY <3>1 DEF Breaks
  <2> QED BY <2>1, <2>2
<1>3. IsFiniteSet(I) /\ Cardinality(I) = b - a
  <2>1. b - 1 - a + 1 = b - a /\ (a > b - 1 => b - a = 0)
    BY <1>1
  <2> QED BY <1>1, <2>1, FS_Interval
<1> HIDE DEF I
<1>4. f \in Bijection(I, Z)
  <2>1. f \in [I -> Z] /\ \A z \in Z : \E k \in I : f[k] = z
    BY <1>0
  <2>2. \A x, y \in I : f[x] = f[y] => x = y
    BY <1>1, <1>2
  <2> HIDE DEF f
  <2> QED BY <2>1, <2>2 DEF Bijection, Injection, Surjection, IsInjective
<1> HIDE DEF f
<1>5. ExistsBijection(I, Z)
  BY <1>4 DEF ExistsBijection
<1> QED BY <1>3, <1>5, FS_Bijection

\* The table of line starts: 0, and what follows each newline.
LEMMA StartsAre ==
    ASSUME NEW t \in Seq(Letters)
    PROVE  \E m \in Nat : \E e :
              /\ Breaks(t, e, m)
              /\ F!LineStarts(t) \in Seq(Int) /\ Len(F!LineStarts(t)) = m + 1
              /\ F!LineStarts(t)[1] = 0
              /\ \A k \in 1..m : F!LineStarts(t)[k + 1] = e[k] + 1
<1> DEFINE n == Len(t)
           s == [i \in DOMAIN t |-> i]
           places == {i \in DOMAIN t : t[i] = "n"}
           r == Ord!Kept(s, places)
           m == Len(r)
           e == [k \in 1..m |-> r[k] - 1]
           u == F!LineStarts(t)
<1>1. n \in Nat /\ DOMAIN t = 1..n /\ s \in Seq(Int) /\ Len(s) = n /\ places \in SUBSET (1..n)
      /\ places \in SUBSET (1..Len(s))
  OBVIOUS
<1>2. r \in Seq(Int) /\ Picks(r, s, places)
  <2> HIDE DEF s, places
  <2> QED BY <1>1, KeptPicks
<1>3. u = <<0>> \o r
  BY SameKeptF DEF F!LineStarts
<1> HIDE DEF r
<1>4. m \in Nat /\ \A k \in 1..m : r[k] \in Int
  BY <1>2
<1>5. u \in Seq(Int) /\ Len(u) = m + 1 /\ u[1] = 0 /\ \A k \in 1..m : u[k + 1] = r[k]
  BY <1>2, <1>3, <1>4
<1>6. PICK g \in Bijection(1..m, places) :
         /\ \A k \in 1..m : r[k] = s[g[k]]
         /\ \A a, b \in 1..m : a < b => g[a] < g[b]
  BY <1>2 DEF Picks
<1>7. g \in [1..m -> places] /\ \A x \in places : \E k \in 1..m : g[k] = x
  BY <1>6 DEF Bijection, Injection, Surjection
<1>8. \A k \in 1..m : r[k] = g[k] /\ r[k] \in places
  BY <1>1, <1>6, <1>7
<1>9. \A i \in places : i - 1 \in F!Newlines(t)
  BY <1>1 DEF F!Newlines
<1>10. \A i \in F!Newlines(t) : i + 1 \in places /\ i \in Int
  BY <1>1 DEF F!Newlines
<1>11. Breaks(t, e, m)
  <2>1. e \in [1..m -> F!Newlines(t)]
    BY <1>8, <1>9
  <2>2. ASSUME NEW a \in 1..m, NEW b \in 1..m, a < b PROVE e[a] < e[b]
    BY <1>4, <1>6, <1>8, <2>2
  <2>3. ASSUME NEW i \in F!Newlines(t) PROVE \E k \in 1..m : i = e[k]
    <3>1. PICK k \in 1..m : g[k] = i + 1
      BY <1>7, <1>10
    <3>2. i = e[k]
      BY <1>8, <1>10, <3>1
    <3> QED BY <3>2
  <2> HIDE DEF e, m
  <2> QED BY <1>4, <2>1, <2>2, <2>3 DEF Breaks
<1>12. \A k \in 1..m : u[k + 1] = e[k] + 1
  BY <1>4, <1>5
<1> HIDE DEF e, m, u
<1> QED BY <1>4, <1>5, <1>11, <1>12 DEF u

\* The newlines up to an offset.
Seen(t, i) == F!Cardinality({j \in F!Newlines(t) : j <= i})

\* So many newlines as there are, and up to the k-th there are k.
LEMMA BreaksCount ==
    ASSUME NEW t, NEW e, NEW m, Breaks(t, e, m)
    PROVE  /\ F!LineCount(t) = m + 1
           /\ \A k \in 1..m : Seen(t, e[k]) = k
           /\ \A x, y \in 1..m : e[x] = e[y] => x = y
           /\ \A x, y \in 1..m : e[x] \in Int /\ (e[x] <= e[y] <=> x <= y)
<1>1. m \in Nat /\ 1 \in 1..(m + 1)
  BY DEF Breaks
<1>2. \A x, y \in 1..m : e[x] \in Int /\ (x < y => e[x] < e[y])
  BY DEF Breaks, F!Newlines
<1>3. \A x, y \in 1..m : e[x] <= e[y] <=> x <= y
  <2> SUFFICES ASSUME NEW x \in 1..m, NEW y \in 1..m PROVE e[x] <= e[y] <=> x <= y
    OBVIOUS
  <2>1. (x < y => e[x] < e[y]) /\ (y < x => e[y] < e[x]) /\ (x = y => e[x] = e[y])
        /\ e[x] \in Int /\ e[y] \in Int
    BY <1>2
  <2> QED BY <1>1, <2>1
<1>4. \A x, y \in 1..m : e[x] = e[y] => x = y
  BY <1>1, <1>2, <1>3
<1>5. F!LineCount(t) = m + 1
  <2>1. Span(F!Newlines(t), e, 1, m + 1)
    BY <1>1 DEF Breaks, Span
  <2>2. m + 1 \in 1..(m + 1)
    BY <1>1
  <2>3. Cardinality(F!Newlines(t)) = (m + 1) - 1
    BY <1>1, <2>1, <2>2, BreaksBetween
  <2> QED BY <1>1, <2>3, SameCountF DEF F!LineCount
<1>6. ASSUME NEW k \in 1..m PROVE Seen(t, e[k]) = k
  <2> DEFINE Z == {j \in F!Newlines(t) : j <= e[k]}
  <2>1. k + 1 \in 1..(m + 1) /\ (k + 1) - 1 = k /\ k \in Int
    BY <1>1
  <2>2. Span(Z, e, 1, k + 1)
    <3>1. ASSUME NEW x \in 1..((k + 1) - 1) PROVE e[x] \in Z
      <4>1. x \in 1..m /\ x <= k
        BY <1>1
      <4> QED BY <1>3, <4>1 DEF Breaks
    <3>2. ASSUME NEW j \in Z PROVE \E x \in 1..((k + 1) - 1) : j = e[x]
      <4>1. PICK x \in 1..m : j = e[x]
        BY DEF Breaks
      <4>2. x <= k
        BY <1>3, <3>2, <4>1
      <4> QED BY <1>1, <4>1, <4>2
    <3> HIDE DEF Z
    <3> QED BY <3>1, <3>2 DEF Span
  <2> HIDE DEF Z
  <2>3. Cardinality(Z) = (k + 1) - 1
    BY <1>1, <2>1, <2>2, BreaksBetween
  <2>4. F!Cardinality(Z) = k
    BY <2>1, <2>3, SameCountF
  <2> QED BY Zenon, <2>4 DEF Z, Seen
<1> QED BY <1>2, <1>3, <1>4, <1>5, <1>6

\* The table and the count of newlines give the same ranges.
LEMMA SameRanges ==
    ASSUME NEW t \in Seq(Letters), NEW first \in Nat, NEW last \in Nat
    PROVE  F!ByteRange(t, first, last) = F!LineByteRange(t, first, last)
<1> DEFINE u == F!LineStarts(t)
           N == F!Newlines(t)
           opens == {i + 1 : i \in {j \in N : Seen(t, j) = first - 1 /\ first - 1 < last}}
           ends == {i \in N : Seen(t, i) = last}
<1>0. PICK m \in Nat : \E e :
              /\ Breaks(t, e, m)
              /\ u \in Seq(Int) /\ Len(u) = m + 1 /\ u[1] = 0
              /\ \A k \in 1..m : u[k + 1] = e[k] + 1
  BY StartsAre
<1>1. PICK e : /\ Breaks(t, e, m)
               /\ u \in Seq(Int) /\ Len(u) = m + 1 /\ u[1] = 0
               /\ \A k \in 1..m : u[k + 1] = e[k] + 1
  BY Zenon, <1>0
<1>2. /\ \A k \in 1..m : Seen(t, e[k]) = k /\ e[k] \in Int /\ e[k] \in N
      /\ \A j \in N : \E k \in 1..m : j = e[k]
  <2>1. \A k \in 1..m : Seen(t, e[k]) = k /\ e[k] \in Int
    BY <1>1, BreaksCount
  <2>2. (\A k \in 1..m : e[k] \in N) /\ \A j \in N : \E k \in 1..m : j = e[k]
    BY <1>1 DEF Breaks
  <2> QED BY Zenon, <2>1, <2>2
<1> HIDE DEF N
<1>3. \A k \in Int : {j \in N : Seen(t, j) = k} = IF k \in 1..m THEN {e[k]} ELSE {}
  <2> SUFFICES ASSUME NEW k \in Int
               PROVE  {j \in N : Seen(t, j) = k} = IF k \in 1..m THEN {e[k]} ELSE {}
    OBVIOUS
  <2>1. ASSUME NEW j \in N, Seen(t, j) = k PROVE k \in 1..m /\ j = e[k]
    BY <1>2, <2>1
  <2> QED BY <1>2, <2>1
<1>4. CASE first = 0 \/ last < first
  BY <1>4 DEF F!ByteRange, F!LineByteRange
<1>5. CASE ~(first = 0 \/ last < first)
  <2>1. first \in Nat \ {0} /\ last >= first /\ first - 1 < last /\ first - 1 \in Int
    BY <1>5
  <2>2. opens = IF first - 1 \in 1..m THEN {e[first - 1] + 1} ELSE {}
    <3>1. opens = {i + 1 : i \in {j \in N : Seen(t, j) = first - 1}}
      BY <2>1
    <3>2. {j \in N : Seen(t, j) = first - 1} = IF first - 1 \in 1..m THEN {e[first - 1]} ELSE {}
      BY <1>3, <2>1
    <3> QED BY <3>1, <3>2
  <2>3. ends = IF last \in 1..m THEN {e[last]} ELSE {}
    BY <1>3, <2>1
  <2> HIDE DEF opens, ends
  <2> DEFINE b == IF first = 1 THEN 0 ELSE IF opens # {} THEN CHOOSE i \in opens : TRUE ELSE Len(t)
             d == IF ends # {} THEN CHOOSE i \in ends : TRUE ELSE Len(t)
  <2>4. b = IF first <= Len(u) THEN u[first] ELSE Len(t)
    <3>1. CASE first = 1
      BY <1>1, <3>1
    <3>2. CASE first # 1 /\ first <= m + 1
      <4>1. first - 1 \in 1..m /\ (first - 1) + 1 = first
        BY <2>1, <3>2
      <4>2. u[first] = e[first - 1] + 1
        BY <1>1, <4>1
      <4>3. opens = {u[first]}
        BY <2>2, <4>1, <4>2
      <4> QED BY <1>1, <3>2, <4>3
    <3>3. CASE first > m + 1
      BY <1>1, <2>2, <3>3
    <3> QED BY <3>1, <3>2, <3>3, <2>1
  <2>5. d = IF last < Len(u) THEN u[last + 1] - 1 ELSE Len(t)
    <3>1. CASE last <= m
      <4>1. last \in 1..m
        BY <2>1, <3>1
      <4>2. ends = {e[last]} /\ u[last + 1] - 1 = e[last]
        BY <1>1, <1>2, <2>3, <4>1
      <4> QED BY <1>1, <3>1, <4>2
    <3>2. CASE last > m
      BY <1>1, <2>3, <3>2
    <3> QED BY <3>1, <3>2
  <2>6. F!LineByteRange(t, first, last) = F!Clip(b, d)
    BY <1>5 DEF F!LineByteRange, opens, ends, Seen, N
  <2>7. F!ByteRange(t, first, last)
          = F!Clip(IF first <= Len(u) THEN u[first] ELSE Len(t),
                   IF last < Len(u) THEN u[last + 1] - 1 ELSE Len(t))
    BY <1>5 DEF F!ByteRange
  <2> HIDE DEF b, d, u
  <2> QED BY Zenon, <2>4, <2>5, <2>6, <2>7
<1> QED BY <1>4, <1>5

\* The walk back stops, and it stops at the first line that does not look like documentation.
LEMMA DocStartIs ==
    ASSUME NEW t, NEW line \in Nat \ {0}
    PROVE  /\ F!DocStart(t, line) \in 1..line
           /\ \A k \in F!DocStart(t, line)..(line - 1) : F!LooksLikeDoc(t, k)
<1> DEFINE Above(f) == \A k \in f..(line - 1) : F!LooksLikeDoc(t, k)
           Y == {f \in 1..line : Above(f)}
<1>1. Y \in SUBSET Nat /\ line \in Y
  OBVIOUS
<1>2. PICK x \in Y : \A y \in Y : x <= y
  <2> HIDE DEF Y
  <2> QED BY <1>1, Least
<1>3. x \in 1..line /\ Above(x)
  OBVIOUS
<1>4. x = 1 \/ ~F!LooksLikeDoc(t, x - 1)
  <2> SUFFICES ASSUME x # 1, F!LooksLikeDoc(t, x - 1) PROVE FALSE
    OBVIOUS
  <2>1. x - 1 \in 1..line
    BY <1>3
  <2>2. \A k \in (x - 1)..(line - 1) : k = x - 1 \/ k \in x..(line - 1)
    BY <1>3
  <2>3. Above(x - 1)
    BY <1>3, <2>2
  <2>4. x - 1 \in Y
    BY <2>1, <2>3
  <2> QED BY <1>2, <1>3, <2>4
<1> DEFINE Begins(f) == Above(f) /\ (f = 1 \/ ~F!LooksLikeDoc(t, f - 1))
<1>5. \E f \in 1..line : Begins(f)
  BY <1>3, <1>4
<1>6. F!DocStart(t, line) = CHOOSE f \in 1..line : Begins(f)
  BY DEF F!DocStart
<1> DEFINE c == CHOOSE f \in 1..line : Begins(f)
<1>7. c \in 1..line /\ Begins(c)
  <2> HIDE DEF Begins
  <2> QED BY Zenon, <1>5
<1>8. c \in 1..line /\ Above(c)
  BY <1>7
<1> HIDE DEF c
<1> QED BY <1>6, <1>8 DEF c

\* A chunk is cut for a symbol, from its documentation if it has any.
CutRight(c) ==
    /\ c.of \in 1..Len(symbols)
    /\ c.from = IF symbols[c.of].doc THEN F!DocStart(text, symbols[c.of].line)
                ELSE symbols[c.of].line
    /\ c.to = symbols[c.of].last
    /\ c.body = F!ByteRange(text, c.from, c.to)

\* A file's own symbols are on its lines; another file's may be past its end.
SymbolsInv ==
    /\ text \in Bodies
    /\ Len(symbols) \in Nat /\ DOMAIN symbols = 1..Len(symbols)
    /\ F!Own => \A j \in 1..Len(symbols) : symbols[j] \in F!SymbolsIn(F!LineCount(text))
    /\ next \in 0..Len(symbols)
    /\ \E Z : chunks \in Seq(Z) /\ \A c \in Z : CutRight(c)

LEMMA SymbolsBegin == ASSUME F!FileChunksAssumption, F!Init PROVE SymbolsInv
<1> DEFINE lines == IF F!Locate(files) # 0 /\ files[F!Locate(files)] # OwnPath
                    THEN F!LineCount(text) + 1 ELSE F!LineCount(text)
<1>1. /\ text \in Bodies /\ symbols \in F!BoundedSeq(F!SymbolsIn(lines), MaxOwned) /\ chunks = <<>>
      /\ next = IF F!Locate(files) = 0 THEN 0 ELSE Len(symbols)
  BY Zenon DEF F!Init
<1>2. PICK n \in 0..MaxOwned : symbols \in [1..n -> F!SymbolsIn(lines)]
  BY <1>1 DEF F!BoundedSeq, F!SeqOf
<1> HIDE DEF lines
<1>3. symbols \in Seq(F!SymbolsIn(lines)) /\ Len(symbols) \in Nat
      /\ DOMAIN symbols = 1..Len(symbols)
  BY <1>2
<1>4. F!Own => lines = F!LineCount(text)
  BY DEF F!Own, lines
<1>5. F!Own => \A j \in 1..Len(symbols) : symbols[j] \in F!SymbolsIn(F!LineCount(text))
  BY <1>3, <1>4
<1>6. next \in 0..Len(symbols)
  <2>1. next = 0 \/ next = Len(symbols)
    BY Zenon, <1>1
  <2> QED BY <1>3, <2>1
<1> DEFINE none == {}
<1>7. chunks \in Seq(none) /\ \A c \in none : CutRight(c)
  BY <1>1
<1> HIDE DEF none
<1> QED BY Zenon, <1>1, <1>3, <1>5, <1>6, <1>7 DEF SymbolsInv

LEMMA SymbolsGo == ASSUME SymbolsInv, [F!Next]_(F!vars) PROVE SymbolsInv'
<1>1. UNCHANGED <<text, files, symbols>> /\ (F!MakeChunk \/ UNCHANGED <<chunks, next>>)
  BY DEF F!Next, F!vars, F!MakeChunk
<1>2. /\ text' \in Bodies /\ Len(symbols)' \in Nat /\ (DOMAIN symbols = 1..Len(symbols))'
      /\ (F!Own => \A j \in 1..Len(symbols) : symbols[j] \in F!SymbolsIn(F!LineCount(text)))'
  BY Zenon, <1>1 DEF SymbolsInv, F!Own
<1>3. ASSUME NEW c, CutRight(c) PROVE CutRight(c)'
  BY Zenon, <1>1, <1>3 DEF CutRight
<1>4. PICK Z : chunks \in Seq(Z) /\ \A c \in Z : CutRight(c)
  BY Zenon DEF SymbolsInv
<1>5. CASE UNCHANGED <<chunks, next>>
  <2>1. next' \in 0..Len(symbols') /\ chunks' \in Seq(Z)
    BY <1>1, <1>4, <1>5 DEF SymbolsInv
  <2>2. \A c \in Z : CutRight(c)'
    BY Zenon, <1>3, <1>4
  <2> QED BY Zenon, <1>2, <2>1, <2>2 DEF SymbolsInv
<1>6. CASE F!MakeChunk
  <2> DEFINE i == Len(symbols) - next + 1
             s == symbols[i]
             first == IF s.doc THEN F!DocStart(text, s.line) ELSE s.line
             range == F!ByteRange(text, first, s.last)
             c == [of |-> i, from |-> first, to |-> s.last, body |-> range]
  <2>1. next' = next - 1 /\ next > 0 /\ (chunks' = chunks \/ chunks' = Append(chunks, c))
    BY Zenon, <1>6 DEF F!MakeChunk
  <2>2. next \in 1..Len(symbols) /\ Len(symbols) \in Nat
    BY <2>1 DEF SymbolsInv
  <2>3. next' \in 0..Len(symbols')
    BY <1>1, <2>1, <2>2
  <2>4. i \in 1..Len(symbols)
    BY <2>2
  <2>5. CutRight(c)
    <3>1. c.of = i /\ c.from = first /\ c.to = s.last /\ c.body = range
      OBVIOUS
    <3> HIDE DEF c
    <3> QED BY Zenon, <2>4, <3>1 DEF CutRight
  <2> HIDE DEF c
  <2>6. chunks' \in Seq(Z \cup {c})
    <3>1. \A x \in Z : x \in Z \cup {c}
      OBVIOUS
    <3>2. chunks \in Seq(Z \cup {c})
      <4>1. ASSUME NEW A, NEW B, A \subseteq B, NEW w \in Seq(A) PROVE w \in Seq(B)
        <5>1. Len(w) \in Nat /\ w = [k \in 1..Len(w) |-> w[k]] /\ \A k \in 1..Len(w) : w[k] \in B
          BY <4>1
        <5> QED BY <5>1
      <4> QED BY Zenon, <1>4, <3>1, <4>1
    <3> QED BY <2>1, <3>2
  <2>7. \A x \in Z \cup {c} : CutRight(x)'
    BY Zenon, <1>3, <1>4, <2>5
  <2> QED BY Zenon, <1>2, <2>3, <2>6, <2>7 DEF SymbolsInv
<1> QED BY <1>1, <1>5, <1>6

LEMMA CutIs ==
    ASSUME F!Own, SymbolsInv, NEW k \in DOMAIN chunks
    PROVE  /\ CutRight(chunks[k])
           /\ symbols[chunks[k].of].line \in Nat \ {0}
           /\ symbols[chunks[k].of].last \in 1..F!LineCount(text)
           /\ symbols[chunks[k].of].line <= symbols[chunks[k].of].last
           /\ chunks[k].from \in 1..symbols[chunks[k].of].line
           /\ \A j \in chunks[k].from..(symbols[chunks[k].of].line - 1) : F!LooksLikeDoc(text, j)
<1> DEFINE c == chunks[k]
           s == symbols[c.of]
<1>1. CutRight(c)
  <2>1. PICK Z : chunks \in Seq(Z) /\ \A x \in Z : CutRight(x)
    BY Zenon DEF SymbolsInv
  <2>2. c \in Z
    BY <2>1
  <2> QED BY Zenon, <2>1, <2>2
<1> HIDE DEF c
<1>2. s \in F!SymbolsIn(F!LineCount(text))
  BY Zenon, <1>1 DEF SymbolsInv, CutRight
<1> HIDE DEF s
<1>3. s.line \in Nat \ {0} /\ s.last \in 1..F!LineCount(text) /\ s.line <= s.last
  BY <1>2 DEF F!SymbolsIn
<1>4. c.from = IF s.doc THEN F!DocStart(text, s.line) ELSE s.line
  BY Zenon, <1>1 DEF CutRight, s
<1>5. c.from \in 1..s.line /\ \A j \in c.from..(s.line - 1) : F!LooksLikeDoc(text, j)
  <2>1. CASE s.doc
    <3>1. c.from = F!DocStart(text, s.line)
      BY Zenon, <1>4, <2>1
    <3>2. /\ F!DocStart(text, s.line) \in 1..s.line
          /\ \A j \in F!DocStart(text, s.line)..(s.line - 1) : F!LooksLikeDoc(text, j)
      BY <1>3, DocStartIs
    <3> QED BY Zenon, <3>1, <3>2
  <2>2. CASE ~s.doc
    <3>1. c.from = s.line
      BY Zenon, <1>4, <2>2
    <3> QED BY <1>3, <3>1
  <2> QED BY <2>1, <2>2
<1> QED BY Zenon, <1>1, <1>3, <1>5 DEF s, c

\* The lines from one to another hold the newlines between, and are cut at none.
LEMMA RangeOf ==
    ASSUME NEW t \in Seq(Letters), NEW last \in 1..F!LineCount(t), NEW first \in 1..last
    PROVE  LET body == F!ByteRange(t, first, last) IN
           /\ F!Cardinality({i \in F!Newlines(t) : body[1] <= i /\ i < body[2]}) = last - first
           /\ body[1] = 0 \/ body[1] - 1 \in F!Newlines(t)
           /\ body[2] = Len(t) \/ body[2] \in F!Newlines(t)
<1> DEFINE u == F!LineStarts(t)
           N == F!Newlines(t)
           body == F!ByteRange(t, first, last)
<1>0. PICK m \in Nat : \E e :
              /\ Breaks(t, e, m)
              /\ u \in Seq(Int) /\ Len(u) = m + 1 /\ u[1] = 0
              /\ \A k \in 1..m : u[k + 1] = e[k] + 1
  BY StartsAre
<1>1. PICK e : /\ Breaks(t, e, m)
               /\ u \in Seq(Int) /\ Len(u) = m + 1 /\ u[1] = 0
               /\ \A k \in 1..m : u[k + 1] = e[k] + 1
  BY Zenon, <1>0
<1>2. /\ \A k \in 1..m : e[k] \in N
      /\ \A j \in N : \E k \in 1..m : j = e[k]
      /\ \A j \in N : j \in 0..(Len(t) - 1)
  <2>1. \A j \in N : j \in 0..(Len(t) - 1)
    BY DEF F!Newlines
  <2> QED BY <1>1, <2>1 DEF Breaks
<1>3. \A x, y \in 1..m : e[x] \in Int /\ (e[x] <= e[y] <=> x <= y)
  BY <1>1, BreaksCount
<1>4. last \in 1..(m + 1) /\ first \in 1..(m + 1) /\ first <= last
  <2>1. F!LineCount(t) = m + 1
    BY <1>1, BreaksCount
  <2> QED BY <2>1
<1> HIDE DEF N
<1> DEFINE lo == u[first]
           hi == IF last < Len(u) THEN u[last + 1] - 1 ELSE Len(t)
<1>5. Len(t) \in Nat
  OBVIOUS
<1>6. /\ lo \in Int /\ \A k \in 1..m : lo <= e[k] <=> first <= k
      /\ lo = 0 \/ lo - 1 \in N
      /\ lo <= Len(t) /\ (last <= m => lo <= e[last])
  <2>1. CASE first = 1
    BY <1>1, <1>2, <1>4, <1>5, <2>1
  <2>2. CASE first # 1
    <3>1. first - 1 \in 1..m /\ (first - 1) + 1 = first
      BY <1>4, <2>2
    <3>2. lo = e[first - 1] + 1 /\ e[first - 1] \in N /\ e[first - 1] \in Int
      BY <1>1, <1>2, <1>3, <3>1
    <3>3. e[first - 1] <= Len(t) - 1
      BY <1>2, <1>5, <3>2
    <3>4. \A k \in 1..m : lo <= e[k] <=> first <= k
      <4> SUFFICES ASSUME NEW k \in 1..m PROVE lo <= e[k] <=> first <= k
        OBVIOUS
      <4>1. e[k] \in Int /\ (e[k] <= e[first - 1] <=> k <= first - 1)
        BY <1>3, <3>1
      <4> QED BY <1>4, <3>2, <4>1
    <3>5. last <= m => last \in 1..m /\ first <= last
      BY <1>4
    <3> QED BY <1>5, <3>2, <3>3, <3>4, <3>5
  <2> QED BY <2>1, <2>2
<1>7. /\ hi \in Int /\ lo <= hi /\ \A k \in 1..m : e[k] < hi <=> k < last
      /\ hi = Len(t) \/ hi \in N
  <2>1. CASE last <= m
    <3>1. last \in 1..m
      BY <1>4, <2>1
    <3>2. hi = e[last] /\ hi \in N /\ hi \in Int
      <4>1. e[last] \in N /\ e[last] \in Int
        BY <1>2, <1>3, <3>1
      <4>2. Len(u) = m + 1 /\ u[last + 1] = e[last] + 1
        BY <1>1, <3>1
      <4>3. last < Len(u) /\ (e[last] + 1) - 1 = e[last]
        BY <1>4, <2>1, <4>1, <4>2
      <4> QED BY <4>1, <4>2, <4>3
    <3>3. \A k \in 1..m : e[k] < hi <=> k < last
      <4> SUFFICES ASSUME NEW k \in 1..m PROVE e[k] < hi <=> k < last
        OBVIOUS
      <4>1. e[k] \in Int /\ (e[last] <= e[k] <=> last <= k)
        BY <1>3, <3>1
      <4> QED BY <1>4, <3>2, <4>1
    <3> QED BY <1>6, <2>1, <3>2, <3>3
  <2>2. CASE last > m
    <3>1. hi = Len(t)
      BY <1>1, <1>4, <2>2
    <3>2. \A k \in 1..m : e[k] < hi /\ k < last
      BY <1>2, <1>4, <1>5, <2>2, <3>1
    <3> QED BY <1>5, <1>6, <3>1, <3>2
  <2> QED BY <1>4, <2>1, <2>2
<1>8. body[1] = lo /\ body[2] = hi
  <2>1. body = F!Clip(IF first <= Len(u) THEN u[first] ELSE Len(t), hi)
    BY <1>4 DEF F!ByteRange
  <2>2. first <= Len(u)
    BY <1>1, <1>4
  <2>3. body = F!Clip(lo, hi)
    BY Zenon, <2>1, <2>2
  <2> HIDE DEF body, lo, hi
  <2> QED BY <1>6, <1>7, <2>3 DEF F!Clip
<1> DEFINE Z == {i \in N : lo <= i /\ i < hi}
<1>9. F!Cardinality(Z) = last - first
  <2>1. Span(Z, e, first, last)
    <3>1. ASSUME NEW i \in Z PROVE \E k \in first..(last - 1) : i = e[k]
      <4>1. PICK k \in 1..m : i = e[k]
        BY <1>2
      <4>2. first <= k /\ k < last
        BY <1>6, <1>7, <4>1
      <4> QED BY <1>4, <4>1, <4>2
    <3>2. ASSUME NEW k \in first..(last - 1) PROVE e[k] \in Z
      <4>1. k \in 1..m /\ first <= k /\ k < last
        BY <1>4
      <4> QED BY <1>2, <1>6, <1>7, <4>1
    <3> HIDE DEF Z
    <3> QED BY <3>1, <3>2 DEF Span
  <2>2. last \in first..(m + 1)
    BY <1>4
  <2> HIDE DEF Z
  <2>3. Cardinality(Z) = last - first
    <3>1. Breaks(t, e, m)
      BY <1>1
    <3>2. first \in 1..(m + 1)
      BY <1>4
    <3> QED BY <2>1, <2>2, <3>1, <3>2, BreaksBetween
  <2> QED BY <2>3, SameCountF
<1> HIDE DEF body, lo, hi
<1> QED BY Zenon, <1>6, <1>7, <1>8, <1>9 DEF body, N

LEMMA CutsAreRight == ASSUME F!FileChunksAssumption, SymbolsInv PROVE F!ChunksOfSymbols
<1>1. text \in Seq(Letters)
  BY Zenon DEF F!FileChunksAssumption, SymbolsInv, Letters
<1>2. F!RangesAgree
  <2>1. F!LineCount(text) \in Nat
    <3>1. \E m \in Nat : \E e : Breaks(text, e, m)
      BY <1>1, StartsAre
    <3>2. PICK m \in Nat : \E e : Breaks(text, e, m)
      BY Zenon, <3>1
    <3> QED BY <3>2, BreaksCount
  <2>2. \A k \in 0..(F!LineCount(text) + 1) : k \in Nat
    BY <2>1
  <2> QED BY Zenon, <1>1, <2>2, SameRanges DEF F!RangesAgree
<1>3. F!BodiesMatchLines
  <2> SUFFICES ASSUME F!Own, NEW k \in DOMAIN chunks
               PROVE  LET c == chunks[k] IN
                      /\ F!Cardinality({i \in F!Newlines(text) : c.body[1] <= i /\ i < c.body[2]})
                           = c.to - c.from
                      /\ c.from <= symbols[c.of].line
                      /\ c.body[1] = 0 \/ c.body[1] - 1 \in F!Newlines(text)
                      /\ c.body[2] = Len(text) \/ c.body[2] \in F!Newlines(text)
    BY Zenon DEF F!BodiesMatchLines
  <2> DEFINE c == chunks[k]
             s == symbols[c.of]
  <2>1. /\ CutRight(c) /\ s.line \in Nat \ {0} /\ s.last \in 1..F!LineCount(text)
        /\ s.line <= s.last /\ c.from \in 1..s.line
    BY Zenon, CutIs
  <2> HIDE DEF c
  <2>2. c.to = s.last /\ c.body = F!ByteRange(text, c.from, c.to)
    BY Zenon, <2>1 DEF CutRight
  <2> HIDE DEF s
  <2>3. c.to \in 1..F!LineCount(text) /\ c.from \in 1..c.to /\ c.from <= s.line
    BY <2>1, <2>2
  <2>4. LET body == F!ByteRange(text, c.from, c.to) IN
        /\ F!Cardinality({i \in F!Newlines(text) : body[1] <= i /\ i < body[2]}) = c.to - c.from
        /\ body[1] = 0 \/ body[1] - 1 \in F!Newlines(text)
        /\ body[2] = Len(text) \/ body[2] \in F!Newlines(text)
    BY Zenon, <1>1, <2>3, RangeOf
  <2> QED BY Zenon, <2>2, <2>3, <2>4 DEF c, s
<1>4. F!StopsAtNeighbour
  <2> SUFFICES ASSUME F!Own, NEW k \in DOMAIN chunks, NEW j \in DOMAIN symbols,
                      symbols[j].line <= chunks[k].from, chunks[k].from <= symbols[j].last
               PROVE  \/ symbols[chunks[k].of].line <= symbols[j].last
                      \/ F!LooksLikeDoc(text, symbols[j].last)
    BY Zenon DEF F!StopsAtNeighbour
  <2> DEFINE s == symbols[chunks[k].of]
             other == symbols[j]
             from == chunks[k].from
  <2>1. /\ s.line \in Nat \ {0} /\ from \in 1..s.line
        /\ \A i \in from..(s.line - 1) : F!LooksLikeDoc(text, i)
    BY Zenon, CutIs
  <2>2. other \in F!SymbolsIn(F!LineCount(text))
    BY Zenon DEF SymbolsInv
  <2>3. other.last \in Int /\ from <= other.last
    BY <2>2 DEF F!SymbolsIn
  <2> HIDE DEF s, other, from
  <2>4. CASE s.line <= other.last
    BY Zenon, <2>4 DEF s, other
  <2>5. CASE ~(s.line <= other.last)
    <3>1. other.last \in from..(s.line - 1)
      BY <2>1, <2>3, <2>5
    <3>2. F!LooksLikeDoc(text, other.last)
      BY Zenon, <2>1, <3>1
    <3> QED BY Zenon, <3>2 DEF other
  <2> QED BY <2>4, <2>5
<1> QED BY <1>2, <1>3, <1>4 DEF F!ChunksOfSymbols

LEMMA FilesStays ==
    ASSUME part = "files" => FilesInv, [Next]_vars PROVE (part = "files" => FilesInv)'
<1> SUFFICES ASSUME part' = "files" PROVE FilesInv'
  OBVIOUS
<1>1. CASE FilesStep
  BY <1>1, FilesGo DEF FilesStep
<1>2. CASE part = "files" /\ UNCHANGED vars
  <2>1. UNCHANGED G!vars
    BY <1>2 DEF vars, rank, G!vars
  <2> QED BY <1>2, <2>1, FilesGo
<1>3. part = part'
  BY DEF Next, WalkerStep, IndexStep, RankStep, TurboStep, SymbolsStep,
         FilesStep, vars
<1>4. ~WalkerStep /\ ~IndexStep /\ ~RankStep /\ ~TurboStep /\ ~SymbolsStep
  BY <1>3 DEF WalkerStep, IndexStep, RankStep, TurboStep, SymbolsStep
<1> QED BY <1>1, <1>2, <1>3, <1>4 DEF Next

LEMMA SymbolsStays ==
    ASSUME part = "symbols" => SymbolsInv, [Next]_vars PROVE (part = "symbols" => SymbolsInv)'
<1> SUFFICES ASSUME part' = "symbols" PROVE SymbolsInv'
  OBVIOUS
<1>1. CASE SymbolsStep
  BY <1>1, SymbolsGo DEF SymbolsStep
<1>2. CASE part = "symbols" /\ UNCHANGED vars
  <2>1. UNCHANGED F!vars
    BY <1>2 DEF vars, index, F!vars
  <2> QED BY <1>2, <2>1, SymbolsGo
<1>3. part = part'
  BY DEF Next, WalkerStep, IndexStep, RankStep, TurboStep, SymbolsStep,
         FilesStep, vars
<1>4. ~WalkerStep /\ ~IndexStep /\ ~RankStep /\ ~TurboStep /\ ~FilesStep
  BY <1>3 DEF WalkerStep, IndexStep, RankStep, TurboStep, FilesStep
<1> QED BY <1>1, <1>2, <1>3, <1>4 DEF Next

LEMMA FilesAlways == Spec => []((part = "files" => FilesInv) /\ (part = "symbols" => SymbolsInv))
<1> DEFINE Both == (part = "files" => FilesInv) /\ (part = "symbols" => SymbolsInv)
<1>1. Init => (part = "files" => FilesInv)
  BY FilesBegin DEF Init, WalkerInit, IndexInit, RankInit, TurboInit,
     SymbolsInit, FilesInit
<1>2. Init => (part = "symbols" => SymbolsInv)
  BY Bounds, SymbolsBegin DEF Init, WalkerInit, IndexInit, RankInit, TurboInit,
     SymbolsInit, FilesInit
<1>3. Both /\ [Next]_vars => Both'
  <2> SUFFICES ASSUME Both, [Next]_vars PROVE Both'
    OBVIOUS
  <2> QED BY FilesStays, SymbolsStays
<1> HIDE DEF Both
<1>4. Init => Both
  BY <1>1, <1>2 DEF Both
<1> QED BY <1>3, <1>4, PTL DEF Spec, Both

\* Whatever comes and goes, an edit of a file that is indexed, or that the next run would
\* index, has the run scheduled, but for the names and the Foundry roots that the watcher
\* leaves out and the walk does not (is_index_candidate and the walk of manifest.rs); a file
\* whose rows are of source is one the symbol tree parses; and the body of a symbol's chunk
\* is the lines from its documentation to its end, by the table of line starts or by the
\* count of newlines, and takes in none of a symbol above unless that one's last line looks
\* like documentation (make_chunk and find_doc_start_line in chunking.rs, LineIndex).
THEOREM FilesAreRead == Spec => []FilesRead
<1>1. (part = "files" => FilesInv) /\ (part = "symbols" => SymbolsInv) => FilesRead
  BY Bounds, EditsAreSeen, SourcesAreCode, CutsAreRight DEF FilesRead
<1> QED BY <1>1, FilesAlways, PTL


=============================================================================
