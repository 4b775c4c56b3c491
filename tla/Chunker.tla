------------------------------ MODULE Chunker -------------------------------
(***************************************************************************)
(* How a body becomes chunks (zrag-recursive-chunk, the row packer of      *)
(* zrag-dsl, generate_sub_chunks of the indexer).  A body over the budget  *)
(* is cut into atoms along its syntax tree and then along ever finer       *)
(* separators; a dynamic program joins the atoms into chunks that may      *)
(* overlap.  A table is not cut but packed row by row.                     *)
(*                                                                         *)
(* A text is a sequence of four kinds of character: a letter, a full stop  *)
(* (which with a blank ends a sentence), a blank and a newline.  Offsets   *)
(* count from 0, as in the code.  The tree is a root with at most two      *)
(* leaves, the first of which may be a terminal kind.                      *)
(***************************************************************************)
EXTENDS Integers, Sequences, FiniteSets, SequencesExt, FiniteSetsExt, Functions

CONSTANTS
    Texts,          \* the bodies
    Configs,        \* [size, min, overlap], with min < size
    First           \* the line of the file that a body starts on

ChunkerAssumption ==
    /\ \A t \in Texts : \A i \in 1..Len(t) : t[i] \in {"x", ".", " ", "n"}
    /\ \A c \in Configs : c.min < c.size /\ c.min > 0
    /\ First \in Nat \ {0}

VARIABLES
    text, config,
    tree,           \* the leaves of the root: [from, to, terminal]
    table,          \* whether the body is a table
    atoms,          \* AtomChunk: [from, to, syntax, internal, boundary]
    plans,          \* Plan per prefix of atoms: [start, prev, cost, base]
    chunks,         \* [from, to, first, last]
    pc              \* "collect", "merge", "done"

vars == <<text, config, tree, table, atoms, plans, chunks, pc>>
input == <<text, config, tree, table>>

\* Leaves of a root that spans the text: none, or two around a gap.
Trees(t) ==
    {<<>>} \cup {<<[from |-> 0, to |-> p, terminal |-> b], [from |-> q, to |-> Len(t), terminal |-> FALSE]>> :
                   p \in 1..Len(t), q \in 1..Len(t), b \in BOOLEAN}

Init ==
    /\ text \in Texts /\ config \in Configs /\ table \in BOOLEAN
    /\ tree \in {r \in Trees(text) : r # <<>> => ~table /\ r[1].to <= r[2].from}
    /\ atoms = <<>> /\ plans = <<>> /\ chunks = <<>> /\ pc = "collect"

Blank == {" ", "n"}
At(i) == text[i + 1]                            \* the character at offset i
Range0(a, b) == {i \in a..(b - 1) : TRUE}       \* the offsets of a slice

\* line_break_level: 2 for two newlines in a row, 1 for any newline
LineBreakLevel(a, b) ==
    IF \E i \in Range0(a, b) : i + 1 < b /\ At(i) = "n" /\ At(i + 1) = "n" THEN 2
    ELSE IF \E i \in Range0(a, b) : At(i) = "n" THEN 1 ELSE 0

\* split_text and min_atom_size
Overlap == IF config.overlap < config.min THEN config.overlap ELSE config.min
MinAtom == IF Overlap > 0 THEN Overlap ELSE config.min

-----------------------------------------------------------------------------
(* Atoms.  A collector is [atoms, curr, min].                              *)

\* AtomCollector::add: trimmed, but an atom on a new line keeps its indent.
Add(c, a, b) ==
    LET solid == {i \in Range0(a, b) : At(i) \notin Blank}
    IN IF solid = {} THEN c
       ELSE LET from == Min(solid)
                to == Max(solid) + 1
                prev == IF c.atoms = <<>> THEN 0 ELSE Last(c.atoms).to
                breaks == LineBreakLevel(prev, from)
                lineStart == 1 + Max({prev - 1} \cup {i \in Range0(prev, from) : At(i) # " "})
            IN [atoms |-> Append(c.atoms,
                  [from |-> IF breaks > 0 THEN lineStart ELSE from, to |-> to, syntax |-> c.min,
                   internal |-> LineBreakLevel(from, to), boundary |-> breaks]),
                curr |-> c.curr, min |-> c.curr]

\* The regular expressions, coarse to fine; whether [a, b) matches the s-th.  The
\* fourth and fifth are for punctuation that the texts do not have.
Separators == 6
IsSeparator(s, a, b) ==
    CASE s = 1 -> b - a > 1 /\ \A i \in Range0(a, b) : At(i) = "n"
      [] s = 2 -> b - a = 1 /\ At(a) = "n"
      [] s = 3 -> b - a > 1 /\ At(a) = "." /\ \A i \in Range0(a + 1, b) : At(i) \in Blank
      [] s = 6 -> \A i \in Range0(a, b) : At(i) \in Blank
      [] OTHER -> FALSE

\* find_iter: the leftmost and then longest matches in [a, b)
Matches(s, a, b) ==
    LET from[at \in a..b] ==
            LET starts == {i \in Range0(at, b) : \E j \in (i + 1)..b : IsSeparator(s, i, j)}
            IN IF starts = {} THEN <<>>
               ELSE LET i == Min(starts)
                        j == Max({k \in (i + 1)..b : IsSeparator(s, i, k)})
                    IN <<[from |-> i, to |-> j]>> \o from[j]
    IN from[a]

\* collect_atoms: a range is an atom, or falls apart at the next separator.  What the
\* collector is asked to do: to add a range, and to return to a coarser level.
AtomSteps(a, b, level) ==
    LET steps[s \in 0..Separators, i \in a..b, j \in a..b] ==
            LET here == level + s + 1
                adds == <<[from |-> i, to |-> j, curr |-> here, back |-> FALSE]>>
                piece(from, to) == IF from < to THEN steps[s + 1, from, to] ELSE <<>>
                found == Matches(s + 1, i, j)
                start(k) == IF k = 1 THEN i ELSE found[k - 1].to
            IN IF j - i <= MinAtom \/ s >= Separators THEN adds
               ELSE FlattenSeq([k \in 1..Len(found) |-> steps[s + 1, start(k), found[k].from]])
                    \o piece(start(Len(found) + 1), j)
                    \o <<[from |-> i, to |-> j, curr |-> here, back |-> TRUE]>>
    IN steps[0, a, b]

TakeStep(c, step) ==
    IF step.back
    THEN [c EXCEPT !.min = IF step.curr < @ THEN step.curr ELSE @, !.curr = step.curr]
    ELSE Add([c EXCEPT !.curr = step.curr], step.from, step.to)

CollectAtoms(c, a, b, level) == FoldLeft(TakeStep, c, AtomSteps(a, b, level))

\* collect_atoms_ts on a leaf: short and terminal nodes stay whole
CollectLeaf(c, leaf) ==
    IF leaf.to - leaf.from <= MinAtom \/ leaf.terminal
    THEN Add([c EXCEPT !.curr = 1], leaf.from, leaf.to)
    ELSE CollectAtoms(c, leaf.from, leaf.to, 1)

\* Slip: what lies between two leaves is not collected.
CollectTreeNoGap(c) ==
    IF Len(text) <= MinAtom THEN Add([c EXCEPT !.curr = 0], 0, Len(text))
    ELSE IF tree = <<>> THEN CollectAtoms(c, 0, Len(text), 0)
    ELSE CollectLeaf(CollectLeaf(c, tree[1]), tree[2])

\* collect_atoms_ts on the root: its leaves, and the gap between them
CollectTree(c) ==
    IF Len(text) <= MinAtom THEN Add([c EXCEPT !.curr = 0], 0, Len(text))
    ELSE IF tree = <<>> THEN CollectAtoms(c, 0, Len(text), 0)
    ELSE LET left == CollectLeaf(c, tree[1])
             gap == IF tree[1].to < tree[2].from
                    THEN CollectAtoms(left, tree[1].to, tree[2].from, 0) ELSE left
         IN CollectLeaf(gap, tree[2])

Sentinel == [from |-> Len(text), to |-> Len(text), syntax |-> 0, internal |-> 0, boundary |-> 2]

Collect ==
    /\ pc = "collect" /\ ~table
    /\ atoms' = Append(CollectTree([atoms |-> <<>>, curr |-> 0, min |-> 0]).atoms, Sentinel)
    /\ plans' = <<[start |-> 0, prev |-> 0, cost |-> 0,
                   base |-> IF Overlap = 0 THEN 0 ELSE (Len(text) * 512) \div Overlap]>>
    /\ pc' = "merge"
    /\ UNCHANGED <<input, chunks>>

-----------------------------------------------------------------------------
(* Merging.  Atom and plan i of the code are atoms[i + 1] and plans[i + 1]. *)

SyntaxGap == 512
MissingOverlap == 512
PerLb == 64
TooSmall == 1048576
Huge == 1000000000                              \* usize::MAX

OverlapCostBase(offset) ==
    IF Overlap = 0 THEN 0 ELSE ((Len(text) - offset) * MissingOverlap) \div Overlap
GapCost(boundary, inner) ==
    IF boundary <= inner THEN 0
    ELSE FoldLeft(+, 0, [j \in 1..(boundary - inner) |-> SyntaxGap \div j])
LbGap(boundary, inner) == IF boundary < inner THEN inner - boundary ELSE 0

\* Whether plan j is above plan k in the heap: cheaper, or of equals the later one.
Above(j, k) ==
    LET cost(i) == plans[i + 1].cost + plans[i + 1].base
    IN cost(j) < cost(k) \/ (cost(j) = cost(k) /\ j >= k)
Peek(heap) == CHOOSE k \in heap : \A j \in heap : Above(k, j)

\* Slip: the heap keeps plans that the overlap does not reach.
DropNothing(heap, from) == heap

\* Plans whose last atom lies too far back for the overlap leave the heap,
\* as long as they are at its top.
Drop(heap, from) ==
    {k \in heap : \E j \in heap : Above(j, k) /\ atoms[j + 1].to - from <= Overlap}

\* What a chunk after plan k that starts at an offset misses in overlap.
OverlapCost(k, from) ==
    IF Overlap = 0 THEN MissingOverlap \div 2
    ELSE IF plans[k + 1].base < OverlapCostBase(from)
         THEN (MissingOverlap + plans[k + 1].base) - OverlapCostBase(from)
         ELSE MissingOverlap

\* One candidate: the last chunk of the first i + 1 atoms starts at atom si.
Candidate(acc, si, i) ==
    LET sc == atoms[si + 1]
        size == atoms[i + 1].to - sc.from
        end == atoms[i + 2]
        shape == GapCost(sc.syntax, acc.syn) + GapCost(end.syntax, acc.syn)
                 + (LbGap(sc.boundary, acc.lb) + LbGap(end.boundary, acc.lb)) * PerLb
                 + (IF size < config.min THEN TooSmall ELSE 0)
        heap == IF Overlap > 0 THEN Drop(acc.heap, sc.from) \cup {si} ELSE {}
        prev == IF Overlap > 0 THEN Peek(heap) ELSE si
        cost == shape + plans[prev + 1].cost + OverlapCost(prev, sc.from)
        better == cost < acc.cost
    IN IF acc.stop THEN acc
       ELSE IF size > config.size
       THEN [acc EXCEPT !.stop = TRUE,
                        !.cost = IF acc.cost = Huge THEN shape + plans[si + 1].cost ELSE @,
                        !.start = IF acc.cost = Huge THEN si ELSE @,
                        !.prev = IF acc.cost = Huge THEN si ELSE @]
       ELSE [acc EXCEPT !.heap = heap,
                        !.cost = IF better THEN cost ELSE @,
                        !.start = IF better THEN si ELSE @,
                        !.prev = IF better THEN prev ELSE @,
                        !.syn = IF sc.syntax < @ THEN sc.syntax ELSE @,
                        !.lb = IF sc.internal > @ THEN sc.internal ELSE @]

\* One round of the outer loop of merge_atoms.
PlanNext ==
    /\ pc = "merge" /\ Len(plans) < Len(atoms)
    /\ LET i == Len(plans) - 1
           best == FoldLeft(LAMBDA acc, si : Candidate(acc, si, i),
                     [cost |-> Huge, start |-> 0, prev |-> 0, syn |-> Huge, lb |-> 0,
                      heap |-> {}, stop |-> FALSE],
                     [k \in 1..(i + 1) |-> i + 1 - k])
       IN plans' = Append(plans, [start |-> best.start, prev |-> best.prev, cost |-> best.cost,
                                  base |-> OverlapCostBase(atoms[i + 1].to)])
    /\ UNCHANGED <<input, atoms, chunks, pc>>

\* compute_positions, and the line of the file that a line of the body is on
LineOf(offset) == First + Cardinality({i \in Range0(0, offset) : At(i) = "n"})
ChunkOf(a, b) == [from |-> a, to |-> b, first |-> LineOf(a), last |-> LineOf(b)]

\* The chunks from the last plan back to the first.
Trace ==
    LET to[p \in 0..(Len(plans) - 1)] ==
            IF p = 0 THEN <<>>
            ELSE Append(to[plans[p + 1].prev],
                        ChunkOf(atoms[plans[p + 1].start + 1].from, atoms[p].to))
    IN to[Len(plans) - 1]

Finish ==
    /\ pc = "merge" /\ Len(plans) = Len(atoms)
    /\ chunks' = Trace
    /\ pc' = "done"
    /\ UNCHANGED <<input, atoms, plans>>

-----------------------------------------------------------------------------
(* Tables.                                                                 *)

\* lines(): the rows of the text as [from, to], without their newlines
Rows ==
    LET starts == {0} \cup {i + 1 : i \in {j \in Range0(0, Len(text)) : At(j) = "n"}}
        end(a) == Min({Len(text)} \cup {i \in Range0(a, Len(text)) : At(i) = "n"})
    IN [k \in 1..Cardinality(starts) |->
          LET a == CHOOSE b \in starts : Cardinality({c \in starts : c < b}) = k - 1 IN [from |-> a, to |-> end(a), line |-> k]]

\* chunk_tabular_file: the header goes, rows join until the budget is full.
\* "used" is the length of the group's buffer.
PackRow(done, row) ==
    LET size == row.to - row.from
    IN IF done = <<>> \/ Last(done).used + 1 + size > config.size
       THEN Append(done, [used |-> size, from |-> row.from, to |-> row.to,
                          first |-> row.line, last |-> row.line])
       ELSE [done EXCEPT ![Len(done)] =
               [@ EXCEPT !.used = @ + 1 + size, !.to = row.to, !.last = row.line]]

DataRows == SelectSeq(Tail(Rows), LAMBDA r : r.to > r.from)

PackRows ==
    /\ pc = "collect" /\ table
    /\ chunks' = FoldLeft(PackRow, <<>>, DataRows)
    /\ pc' = "done"
    /\ UNCHANGED <<input, atoms, plans>>

Next == Collect \/ PlanNext \/ Finish \/ PackRows

Spec == Init /\ [][Next]_vars

-----------------------------------------------------------------------------

Covered(i) == \E k \in 1..Len(chunks) : chunks[k].from <= i /\ i < chunks[k].to

\* Whatever the separators and the dynamic program do, every letter of the body is
\* in some chunk, and so is every row of a table below its header.
LettersKept ==
    pc = "done" =>
      \A i \in Range0(0, Len(text)) :
        At(i) = "x" /\ (table => i >= Rows[1].to) => Covered(i)

\* Chunks advance through the body: each ends after the one before it, starts no
\* earlier, and repeats at most the configured overlap.
ChunksAdvance ==
    pc = "done" =>
      \A k \in 1..(Len(chunks) - 1) :
        /\ chunks[k].from <= chunks[k + 1].from
        /\ chunks[k].to < chunks[k + 1].to
        /\ chunks[k].to <= chunks[k + 1].from + Overlap

\* A chunk fits the budget unless it is a single atom or a single row.
ChunksFit ==
    pc = "done" =>
      \A k \in 1..Len(chunks) :
        \/ chunks[k].to - chunks[k].from <= config.size
        \/ table /\ (chunks[k].first = chunks[k].last \/ chunks[k].used <= config.size)
        \/ \E j \in 1..Len(atoms) : atoms[j].from = chunks[k].from /\ atoms[j].to = chunks[k].to

\* The subtraction in merge_atoms does not wrap.
NoUnderflow ==
    \A k \in 1..Len(plans) :
      LET p == plans[k]
      IN k > 1 /\ Overlap > 0 /\ p.prev > 0 =>
           OverlapCostBase(atoms[p.start + 1].from) <= MissingOverlap + plans[p.prev + 1].base

=============================================================================
