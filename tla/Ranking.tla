------------------------------ MODULE Ranking -------------------------------
(***************************************************************************)
(* From the rows of the index to the page of results (zrag-pipeline        *)
(* search, fusion; zrag-rerank; zrag-ann selector; the daemon's search     *)
(* handler).  An index run numbers the symbols of all files, in the order  *)
(* of a hash map, but writes rows of the changed files only, and their     *)
(* earlier rows stay: the delete asks for relative paths, the rows hold    *)
(* absolute ones.  A search ranks rows by two legs, fuses the ranks of     *)
(* their ids, reranks, drops repeats of a symbol, spreads parents, cuts    *)
(* the page, drops chunks that overlap, and appends callees.               *)
(*                                                                         *)
(* One search a behaviour: a search leaves nothing behind.                 *)
(* How well a row matches is any order; which rows the legs see, and what  *)
(* becomes of the order, is the code's.  Scores are in units of 1/Unit.    *)
(***************************************************************************)
EXTENDS Integers, Sequences, FiniteSets, SequencesExt, FiniteSetsExt, Ordering

CONSTANTS
    Files,
    Type(_),        \* the FileType of a file: "source", "config", "doc" or "test"
    Texts(_),       \* the texts a file may have
    Limits, Overfetch, AppendixCap,
    FlatMax, HnswMax, TurboMax,   \* the thresholds of recommend, scaled down
    Gpu, MemoryFits,              \* the Hardware
    MaxRuns, MaxEdits

\* A text is a sequence of chunks: sym is the name of the symbol or "none" of a
\* document, parent a name or "none", calls a set of names, first and last the lines.
RankingAssumption ==
    /\ IsFiniteSet(Files)
    /\ \A f \in Files : /\ Type(f) \in {"source", "config", "doc", "test"}
                         /\ Texts(f) \subseteq Seq([sym : STRING, parent : STRING, calls : SUBSET STRING,
                                                  body : STRING, first : Nat, last : Nat])
    /\ Limits \subseteq Nat \ {0} /\ Overfetch \in Nat \ {0} /\ AppendixCap \in Nat
    /\ FlatMax <= HnswMax /\ HnswMax <= TurboMax

VARIABLES
    content,        \* the text of each file
    indexed,        \* the text each file was last indexed with
    rows,           \* the chunks table
    method, counted,    \* SearchParams: method, indexed_chunks
    runs, edits,
    pc,             \* "idle", "fetched", "ranked", "answered"
    req,            \* the request: [limit, tests, exhaustive]
    fused,          \* the candidates, best first: [row, score, boost]
    hits,           \* the page: chunks, best first
    appendix        \* the appended rows

project == <<content, indexed, rows, method, counted, runs, edits>>
query == <<pc, req, fused, hits, appendix>>
vars == <<project, query>>

Init ==
    /\ content \in [Files -> UNION {Texts(f) : f \in Files}]
    /\ \A f \in Files : content[f] \in Texts(f)
    /\ indexed = [f \in Files |-> <<>>]
    /\ rows = {} /\ method = "none" /\ counted = 0 /\ runs = 0 /\ edits = 0
    /\ pc = "idle" /\ req = [limit |-> 1, tests |-> FALSE, exhaustive |-> FALSE]
    /\ fused = <<>> /\ hits = <<>> /\ appendix = {}

-----------------------------------------------------------------------------
(* The index run.                                                          *)

Edit(f) ==
    /\ edits < MaxEdits
    /\ \E t \in Texts(f) \ {content[f]} : content' = [content EXCEPT ![f] = t]
    /\ edits' = edits + 1
    /\ UNCHANGED <<indexed, rows, method, counted, runs, query>>

\* recommend
Recommend(n) ==
    IF n < FlatMax THEN "flat"
    ELSE IF Gpu /\ n < TurboMax THEN "turbo"
    ELSE IF n < HnswMax /\ MemoryFits THEN "usearch" ELSE "ivf"

\* choose_method: the previous method within 25% of the count it was chosen for
Chosen(n) ==
    LET slack == (counted * 25) \div 100
    IN IF method # "none" /\ n \in (counted - slack)..(counted + slack) THEN method
       ELSE Recommend(n)

\* the symbols of a text, each once
Symbols(t) == {t[i].sym : i \in DOMAIN t} \ {"none"}
AllSymbols == {<<f, s>> : f \in Files, s \in UNION {Symbols(content[g]) : g \in Files}}
Declared == {p \in AllSymbols : p[2] \in Symbols(content[p[1]])}

\* build_index_from_sources: the files one after the other, in any order
Numberings ==
    LET first(order, f) ==
            FoldLeft(LAMBDA a, i : a + Cardinality(Symbols(content[order[i]])), 0,
                     [i \in 1..(CHOOSE k \in DOMAIN order : order[k] = f) - 1 |-> i])
        place(t, s) ==
            LET firsts(n) == Min({j \in DOMAIN t : t[j].sym = n})
            IN Cardinality({n \in Symbols(t) : firsts(n) < firsts(s)})
    IN {[p \in Declared |-> first(o, p[1]) + place(content[p[1]], p[2])] : o \in SetToSeqs(Files)}

\* The rows of one file under a numbering, sub the place of a chunk among those of its
\* symbol, run for the time of indexing; the appendix of a symbol is what it calls,
\* and what that calls, among the symbols this run chunks.
RowsOf(f, id, changed) ==
    LET t == content[f]
        calls(p) == {q \in Declared : q[1] \in changed /\ \E c \in ToSet(content[p[1]]) :
                                                              c.sym = p[2] /\ q[2] \in c.calls}
        callees(p) == (calls(p) \cup UNION {calls(q) : q \in calls(p)}) \ {p}
        known(s) == IF s = "none" THEN -1 ELSE id[<<f, s>>]
    IN {[file |-> f, name |-> t[i].sym, body |-> t[i].body, run |-> runs + 1,
         sub |-> Cardinality({j \in 1..(i - 1) : t[j].sym = t[i].sym}),
         first |-> t[i].first, last |-> t[i].last,
         sym |-> known(t[i].sym), parent |-> known(t[i].parent),
         callees |-> IF t[i].sym = "none" THEN {} ELSE {id[p] : p \in callees(<<f, t[i].sym>>)}] :
           i \in DOMAIN t}

\* The delete of the changed files' rows matches none.
Index ==
    LET changed == {f \in Files : indexed[f] # content[f]}
    IN /\ changed # {} /\ runs < MaxRuns
       /\ \E id \in Numberings :
            rows' = rows \cup UNION {RowsOf(f, id, changed) : f \in changed}
       /\ indexed' = content
       /\ counted' = Cardinality(rows') /\ method' = Chosen(Cardinality(rows'))
       /\ runs' = runs + 1
       /\ UNCHANGED <<content, edits, query>>

-----------------------------------------------------------------------------
(* The search.                                                             *)

\* build_lang_path_filter
Visible == {r \in rows : req'.tests \/ Type(r.file) # "test"}
Rankings(s) == SetToSeqs(s)
TopOf(s, k) == UNION {Rankings(t) : t \in {u \in SUBSET s : Cardinality(u) = Min({k, Cardinality(s)})}}

\* content_chunk_id: file, name, place and body; a chunk no edit touched has the id of
\* its earlier row
Id(r) == <<r.file, r.name, r.sub, r.body>>

\* fetch_by_chunk_ids: every visible row that has one of the ids
Copies(u) == {r \in Visible : \E q \in u : Id(q) = Id(r)}

\* run_vector_leg: the graph, which knows no filter, and the turbo codes give ids, and
\* the rows are fetched; the other methods give rows
VectorLegs(k) ==
    LET scored == IF method = "usearch" THEN rows ELSE Visible
        best == {u \in SUBSET scored : Cardinality(u) = Min({k, Cardinality(scored)})}
    IN IF method \in {"usearch", "turbo"} /\ ~req'.exhaustive
       THEN UNION {Rankings(Copies(u)) : u \in best}
       ELSE TopOf(Visible, k)

\* lexical_match: the rows that have one of the words, here no row or those of one id
LexicalLegs(k) == {<<>>} \cup UNION {TopOf(Copies({r}), k) : r \in Visible}

Unit == 14295960
Penalty == Unit \div 25             \* DIVERSITY_PENALTY
\* what a list adds to an id: its rank there, of copies each
Contribution(list, id) ==
    Total([i \in DOMAIN list |-> IF Id(list[i]) = id THEN Unit \div (59 + i) ELSE 0])

\* sort_by
StableBy(s, key(_)) == SortedBy(s, [i \in DOMAIN s |-> key(s[i])])

\* rrf, materialize_fused_hits: one row of each id, the first, by score.  Equals come in
\* a hash map's order; with at most one id in the lexical leg they are that one and the
\* one of its rank, and either is first.
Rrf(vec, lex, k, lexFirst) ==
    LET both == vec \o lex
        ids == Kept(both, {i \in DOMAIN both : \A j \in 1..(i - 1) : Id(both[j]) # Id(both[i])})
        inLex(r) == \E i \in DOMAIN lex : Id(lex[i]) = Id(r)
        all == StableBy(ids, LAMBDA r : IF inLex(r) = lexFirst THEN 1 ELSE 0)
        scored == [i \in DOMAIN all |->
                     [row |-> all[i],
                      score |-> Contribution(vec, Id(all[i])) + Contribution(lex, Id(all[i]))]]
    IN SubSeq(StableBy(scored, LAMBDA c : c.score), 1, Min({k, Len(all)}))

\* The legs and the fusion; the turbo code of at most one candidate is close to the query.
Query ==
    /\ pc = "idle" /\ rows # {}
    /\ req' \in [limit : Limits, tests : BOOLEAN, exhaustive : BOOLEAN]
    /\ LET k == req'.limit * Overfetch
       IN \E vec \in VectorLegs(k), lex \in LexicalLegs(k), lexFirst \in BOOLEAN :
             LET c == Rrf(vec, lex, k, lexFirst) IN
             \E close \in 0..Len(c) :
                fused' = [i \in DOMAIN c |-> [row |-> c[i].row, score |-> c[i].score,
                                              boost |-> IF i = close THEN Unit \div 2 ELSE 0]]
    /\ pc' = "fetched"
    /\ hits' = <<>> /\ appendix' = {}
    /\ UNCHANGED project

Value(c) == c.score + c.boost

\* TurboReranker::rerank
Rerank(s) == StableBy(s, Value)

\* dedup_by_symbol_in_place: the first chunk of each symbol id
DedupBySymbol(s) ==
    Kept(s, {i \in DOMAIN s : s[i].row.sym = -1 \/ \A j \in 1..(i - 1) : s[j].row.sym # s[i].row.sym})

\* file_type_rank
TypeRank(c) ==
    CASE Type(c.row.file) = "source" -> 0 [] Type(c.row.file) = "config" -> 1
      [] Type(c.row.file) = "doc" -> 2 [] OTHER -> 3

Page(s) == SubSeq(s, 1, Min({req.limit, Len(s)}))

\* diversify_by_parent_in_place: a penalty for each earlier chunk of the same parent,
\* file types first, and the cut
Diversify(s) ==
    LET parent(i) == s[i].row.parent
        siblings(i) == Cardinality({j \in 1..(i - 1) : parent(i) # -1 /\ parent(j) = parent(i)})
        spread == [i \in DOMAIN s |-> [row |-> s[i].row, boost |-> s[i].boost,
                                       score |-> s[i].score - siblings(i) * Penalty]]
    IN Page(StableBy(StableBy(spread, Value), LAMBDA c : -TypeRank(c)))

\* dedup_overlapping_hits: chunks of one symbol, by name, with a line in common
Repeats(a, b) ==
    /\ a.sym # -1 /\ b.sym # -1
    /\ a.file = b.file /\ a.name = b.name
    /\ a.first <= b.last /\ b.first <= a.last

\* The places it keeps, those that repeat none it kept before: there is one such set.
Unrepeated(s) ==
    {k \in SUBSET DOMAIN s :
       \A i \in DOMAIN s : i \in k <=> \A j \in k : j < i => ~Repeats(s[i].row, s[j].row)}

\* Slip: the page is cut before the repeats are dropped
OrderCutFirst(s) == DedupBySymbol(Diversify(Rerank(s)))

\* search: what becomes of the candidates
Order(s) == Diversify(DedupBySymbol(Rerank(s)))

\* search_exhaustive: no rerank, no dedup by symbol
OrderExhaustive(s) == Page(StableBy(s, LAMBDA c : -TypeRank(c)))

Rank ==
    /\ pc = "fetched"
    /\ LET page == IF req.exhaustive THEN OrderExhaustive(fused) ELSE Order(fused)
       IN \E k \in Unrepeated(page) :
            LET kept == Kept(page, k) IN hits' = [i \in DOMAIN kept |-> kept[i].row]
    /\ pc' = "ranked"
    /\ UNCHANGED <<project, req, fused, appendix>>

\* The handler's appendix: the first ids the page's chunks call and the page lacks,
\* then one row of each id the table still has, whatever the filters of the request.
AppendCallees ==
    /\ pc = "ranked"
    /\ LET called(i) == hits[i].callees \ {r.sym : r \in ToSet(hits)}
           before(i) == UNION {called(j) : j \in 1..(i - 1)}
           all == before(Len(hits) + 1)
       IN \E ids \in SUBSET all :
            /\ Cardinality(ids) = Min({AppendixCap, Cardinality(all)})
            /\ \A i \in DOMAIN hits : ids \cap (called(i) \ before(i)) # {} => before(i) \subseteq ids
            /\ \E one \in SUBSET {r \in rows : r.sym \in ids} :
                 /\ {r.sym : r \in one} = {r.sym : r \in rows} \cap ids
                 /\ \A a, b \in one : a.sym = b.sym => a = b
                 /\ appendix' = one
    /\ pc' = "answered"
    /\ UNCHANGED <<project, req, fused, hits>>

Next ==
    \/ \E f \in Files : Edit(f)
    \/ Index \/ Query \/ Rank \/ AppendCallees

Spec == Init /\ [][Next]_vars

-----------------------------------------------------------------------------
(* Properties.                                                             *)

Candidates == {fused[i].row : i \in DOMAIN fused}
Groups == {r.sym : r \in {c \in Candidates : c.sym # -1}}
Loose == {c \in Candidates : c.sym = -1}
Shown == ToSet(hits)

\* The symbol ids that are not shown and have a row that overlaps, under one name, a
\* row shown that another index run wrote.
Outdated ==
    {c.sym : c \in {d \in Candidates : \E h \in Shown : Repeats(d, h) /\ d.run # h.run}}
    \ {h.sym : h \in Shown}

\* "Dedup BEFORE diversify so the overfetch pool absorbs duplicate-symbol drops"
\* (search.rs): the page of a search has as many rows as asked for, or one for each
\* symbol id and one for each passage found, but for the ids whose rows overlap, under
\* one name, a row shown that another index run left in the table.
PageFull ==
    pc = "ranked" /\ ~req.exhaustive
        => Len(hits) + Cardinality(Outdated) >= Min({req.limit, Cardinality(Groups) + Cardinality(Loose)})

\* The same page without the exception: the rows that stay after a re-indexing leave it
\* short while candidates remain.
PageFullOverOldRows ==
    pc = "ranked" /\ ~req.exhaustive
        => Len(hits) >= Min({req.limit, Cardinality(Groups) + Cardinality(Loose)})

\* "Drop repeat chunks of the same symbol" (search.rs): a page with room has every
\* symbol that was found.
SymbolsShown ==
    pc = "ranked" /\ ~req.exhaustive /\ Len(hits) < req.limit
        => \A c \in Candidates : \E h \in Shown : h.file = c.file /\ h.name = c.name

\* The same page without the cut of the exhaustive search.
ExhaustivePageFull ==
    pc = "ranked" /\ req.exhaustive
        => Len(hits) >= Min({req.limit, Cardinality({<<r.file, r.name>> : r \in Candidates})})
=============================================================================
