------------------------------ MODULE Ordering ------------------------------
(***************************************************************************)
(* What the searches do with sequences: keep the elements at some places,  *)
(* as retain and filter do, sort by decreasing key, as sort_by does, which *)
(* leaves equals in their order, and add up numbers.                       *)
(***************************************************************************)
EXTENDS Integers, Sequences, FiniteSets

\* The elements of a sequence at some of its places, in their order.
Kept(s, places) ==
    LET upto[i \in 0..Len(s)] ==
            IF i = 0 THEN <<>>
            ELSE IF i \in places THEN Append(upto[i - 1], s[i]) ELSE upto[i - 1]
    IN upto[Len(s)]

\* A place goes behind those in the order whose keys are no smaller than its own.
Inserted(order, keys, i) ==
    LET key == keys[i]
        ahead == Cardinality({k \in DOMAIN order : keys[order[k]] >= key})
    IN SubSeq(order, 1, ahead) \o <<i>> \o SubSeq(order, ahead + 1, Len(order))

\* The places of keys by decreasing key, equals in their order.
OrderOf(keys) ==
    LET upto[i \in 0..Len(keys)] == IF i = 0 THEN <<>> ELSE Inserted(upto[i - 1], keys, i)
    IN upto[Len(keys)]

\* The elements of a sequence by decreasing key, keys[i] that of the element at i.  The
\* empty sequence at the end has TLC compute each key once.
SortedBy(s, keys) ==
    LET order == OrderOf(keys \o <<>>) IN [k \in DOMAIN s |-> s[order[k]]]

\* The sum of a sequence of numbers.
Total(s) ==
    LET upto[i \in 0..Len(s)] == IF i = 0 THEN 0 ELSE upto[i - 1] + s[i]
    IN upto[Len(s)]

=============================================================================
