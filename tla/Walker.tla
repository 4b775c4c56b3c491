------------------------------- MODULE Walker -------------------------------
(***************************************************************************)
(* The symbol walker of zrag-ts-core: one pre-order walk of a syntax tree  *)
(* that keeps a stack of open scopes, emits a symbol for the nodes its     *)
(* language names, and collects for each symbol the calls of its own body. *)
(*                                                                         *)
(* A node is a record of what the walker asks of it; a language is the set *)
(* of nodes its kind_map and flags tell apart.  Every emitted symbol is    *)
(* named by its node; signatures, docs and base classes are left out.  No  *)
(* language has a transparent scope, so that branch has no action.         *)
(***************************************************************************)
EXTENDS Naturals, Sequences, FiniteSets, SequencesExt

CONSTANTS
    Size,           \* bound: nodes below the root
    IdStart         \* the first id handed to this file

WalkerAssumption == Size \in Nat \ {0} /\ IdStart \in Nat

\* A node of a given kind; "none" is a node that kind_for does not know.
Node(kind) == [kind |-> kind, call |-> FALSE, arrow |-> FALSE, bare |-> FALSE,
               name |-> "own", member |-> FALSE, plain |-> FALSE]
Other == Node("none")
Call == [Other EXCEPT !.call = TRUE]          \* call_nodes and ref_node
Nameless(kind) == [Node(kind) EXCEPT !.name = "none"]

\* The nodes each language tells apart.  "leaf" is any other emitted kind.
Rust == {Node("Function"), Node("Class"), Node("Module"), Node("Const"), Node("Impl"),
         Node("leaf")}
TypeScript == {Node("Function"), Nameless("Function"), Node("Method"), Node("Class"),
               Node("Const"), [Node("Const") EXCEPT !.arrow = TRUE], Node("leaf")}
Dart == {Node("Function"), Node("Method"), Node("Class"),
         [Node("Class") EXCEPT !.name = "generated"], [Node("Const") EXCEPT !.member = TRUE],
         Node("Const"), Node("leaf")}
Go == {Node("Function"), Node("Method"), Node("leaf")}
JavaScript == {Node("Function"), Node("Method"), Node("Class"), Node("Const"),
               [Node("Const") EXCEPT !.arrow = TRUE]}
Python == {Node("Function"), Node("Class"), Node("Const")}
OCaml == {Node("Function"), [Node("Function") EXCEPT !.bare = TRUE], Node("Module"),
          Node("Class"), Node("Method"), Node("leaf")}
OCamlInterface == {Node("Function"), Node("Method"), Node("Module"), Node("Class"),
                   Node("leaf")}
Solidity == {Node("Function"), [Node("Function") EXCEPT !.plain = TRUE], Node("Class"),
             Node("Module"), Node("Method"), Node("Const"), Node("leaf")}

Languages == {Rust, TypeScript, Dart, Go, JavaScript, Python, OCaml, OCamlInterface,
              Solidity}

VARIABLES
    tree,           \* nodes in pre-order; tree[1] is the root
    above,          \* above[n]: the parent of node n, 0 of the root
    at,             \* the node walk_node is in, 0 after the walk
    entered,        \* whether it has been entered (else it is about to be)
    symbols,        \* emitted: [id, node, kind, parent, qualified]
    scope,          \* scope_stack: ids of the open symbols
    kinds,          \* scope_kinds
    qual,           \* qual_buf as a sequence of names
    fnDepth, containerDepth

vars == <<tree, above, at, entered, symbols, scope, kinds, qual, fnDepth, containerDepth>>
shape == <<tree, above>>
scopes == <<scope, kinds, qual, fnDepth, containerDepth>>

Nodes == DOMAIN above
\* The nodes of S on the way from the root down to each node, outermost first.
Path(S) ==
    LET to[n \in {0} \cup Nodes] ==
            IF n = 0 THEN <<>> ELSE IF n \in S THEN Append(to[above[n]], n) ELSE to[above[n]]
    IN to
\* The proper ancestors of a node, outermost first.
Ancestors(n) == Path(Nodes)[above[n]]
Below(n) == {m \in Nodes : n \in ToSet(Ancestors(m))}
Children(n) == {m \in Nodes : above[m] = n}

KindFor(n) == tree[n].kind # "none"
ContainerKinds == {"Class", "Module", "Impl"}
FnKinds == {"Function", "Method"}
IsInsideFn == fnDepth > 0
IsInsideContainer == containerDepth > 0
IsInsideMethodContainer == ToSet(kinds) \cap {"Class", "Impl"} # {}

\* Every tree of at most Size nodes of one language below the root.
Init ==
    /\ \E k \in 1..Size, l \in Languages :
         /\ above \in [1..(k + 1) -> 0..k]
         /\ above[1] = 0
         /\ \A n \in 2..(k + 1) : above[n] \in 1..(n - 1)
         /\ \A n \in 2..(k + 1) : above[n] \in {n - 1} \cup ToSet(Ancestors(n - 1))
         /\ tree \in {<<Other>> \o t : t \in [1..k -> l \cup {Other, Call}]}
    /\ at = 1 /\ entered = FALSE
    /\ symbols = <<>> /\ scope = <<>> /\ kinds = <<>> /\ qual = <<>>
    /\ fnDepth = 0 /\ containerDepth = 0

-----------------------------------------------------------------------------

\* A symbol nested where the language wants none: only its children are walked.
PassedOver(n) ==
    \/ tree[n].kind = "Const" /\ IsInsideFn
    \/ tree[n].kind = "Function" /\ tree[n].bare /\ IsInsideFn
    \/ tree[n].kind = "Const" /\ tree[n].member /\ ~IsInsideFn /\ IsInsideContainer
    \/ tree[n].name = "none"

\* The kind a node is emitted with: an arrow in a variable, a function in a class.
EmittedKind(n) ==
    LET kind == IF tree[n].kind = "Const" /\ tree[n].arrow THEN "Function" ELSE tree[n].kind
    IN IF kind = "Function" /\ IsInsideMethodContainer /\ ~tree[n].plain THEN "Method" ELSE kind

\* goto_first_child
Descend(n) == IF Children(n) = {} THEN at' = n /\ entered' = TRUE
              ELSE at' = n + 1 /\ entered' = FALSE

PushScope(id, n, kind) ==
    /\ scope' = Append(scope, id)
    /\ kinds' = Append(kinds, kind)
    /\ qual' = Append(qual, n)
    /\ containerDepth' = containerDepth + (IF kind \in ContainerKinds THEN 1 ELSE 0)
    /\ fnDepth' = fnDepth + (IF kind \in FnKinds THEN 1 ELSE 0)

\* Slip: a method is not counted out again.
PopScopeFunctions(kind) ==
    /\ scope' = Front(scope)
    /\ kinds' = Front(kinds)
    /\ qual' = Front(qual)
    /\ containerDepth' = containerDepth - (IF kind \in ContainerKinds THEN 1 ELSE 0)
    /\ fnDepth' = fnDepth - (IF kind = "Function" THEN 1 ELSE 0)

PopScope(kind) ==
    /\ scope' = Front(scope)
    /\ kinds' = Front(kinds)
    /\ qual' = Front(qual)
    /\ containerDepth' = containerDepth - (IF kind \in ContainerKinds THEN 1 ELSE 0)
    /\ fnDepth' = fnDepth - (IF kind \in FnKinds THEN 1 ELSE 0)

Pass ==
    /\ at # 0 /\ ~entered
    /\ ~KindFor(at) \/ PassedOver(at)
    /\ Descend(at)
    /\ UNCHANGED <<shape, symbols, scopes>>

\* A generated name: the walker returns and never sees the subtree.
Skip ==
    /\ at # 0 /\ ~entered
    /\ KindFor(at) /\ ~PassedOver(at) /\ tree[at].name = "generated"
    /\ entered' = TRUE
    /\ UNCHANGED <<shape, at, symbols, scopes>>

EmitAs(kind) ==
    /\ LET id == IdStart + Len(symbols)
       IN /\ symbols' = Append(symbols,
                 [id |-> id, node |-> at, kind |-> kind, qualified |-> Append(qual, at),
                  parent |-> IF scope = <<>> THEN {} ELSE {Last(scope)}])
          /\ PushScope(id, at, kind)
    /\ Descend(at)
    /\ UNCHANGED shape

\* An impl block is a symbol wherever it stands, one without a type is none.
EmitImpl ==
    /\ at # 0 /\ ~entered
    /\ tree[at].kind = "Impl" /\ tree[at].name = "own"
    /\ EmitAs("Impl")

Emit ==
    /\ at # 0 /\ ~entered
    /\ KindFor(at) /\ tree[at].kind # "Impl"
    /\ ~PassedOver(at) /\ tree[at].name = "own"
    /\ EmitAs(EmittedKind(at))

Leave ==
    /\ at # 0 /\ entered
    /\ LET own == {i \in 1..Len(symbols) : symbols[i].node = at}
           next == {m \in Nodes : m > at /\ above[m] = above[at]}
       IN /\ IF own = {} THEN UNCHANGED scopes
             ELSE \E i \in own : PopScope(symbols[i].kind)
          /\ IF next = {} THEN at' = above[at] /\ entered' = TRUE
             ELSE at' = (CHOOSE m \in next : \A k \in next : m <= k) /\ entered' = FALSE
    /\ UNCHANGED <<shape, symbols>>

Next == Pass \/ Skip \/ EmitImpl \/ Emit \/ Leave

Spec == Init /\ [][Next]_vars

-----------------------------------------------------------------------------

\* Slip: the walk for edges goes on into nested symbols.
ReachesAll(n, m) == m \in Below(n) /\ ~KindFor(m)

\* Whether collect_edges of node n reaches m: no named kind lies in between.
Reaches(n, m) ==
    /\ m \in Below(n)
    /\ ~KindFor(m)
    /\ \A k \in ToSet(Ancestors(m)) : k \in Below(n) => ~KindFor(k)

\* The edges so far: each symbol's own calls, gathered when it is emitted.
Edges == {<<symbols[i].node, m>> : i \in 1..Len(symbols), m \in {c \in Nodes : tree[c].call}}
CollectEdges == {e \in Edges : Reaches(e[1], e[2])}

EmittedNodes == {symbols[i].node : i \in 1..Len(symbols)}
\* The open symbols around the current node, as the tree has them.
Around == Path(EmittedNodes)[IF entered THEN at ELSE above[at]]

\* Whatever the walk passed over, skipped or emitted before, the open scopes are
\* the emitted symbols around the current node, and the two depths count them.
ScopesFollowTree ==
    at # 0 =>
      LET symbolOf(n) == (CHOOSE i \in 1..Len(symbols) : symbols[i].node = n)
      IN /\ qual = Around
         /\ scope = [i \in 1..Len(Around) |-> symbols[symbolOf(Around[i])].id]
         /\ kinds = [i \in 1..Len(Around) |-> symbols[symbolOf(Around[i])].kind]
         /\ fnDepth = Cardinality({i \in 1..Len(kinds) : kinds[i] \in FnKinds})
         /\ containerDepth = Cardinality({i \in 1..Len(kinds) : kinds[i] \in ContainerKinds})

\* The comment in collect_edges: no call is attributed to two symbols.
CallsCountedOnce ==
    \A e, f \in CollectEdges : e[2] = f[2] => e = f

\* The other half of that comment: the symbol that a boundary stands for collects
\* the calls behind it, so a call inside some symbol is somebody's call.
CallsKept ==
    at = 0 =>
      \A m \in Nodes :
        tree[m].call /\ ToSet(Ancestors(m)) \cap EmittedNodes # {}
          => \E e \in CollectEdges : e[2] = m

=============================================================================
