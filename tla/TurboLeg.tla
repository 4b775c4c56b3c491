------------------------------ MODULE TurboLeg ------------------------------
(***************************************************************************)
(* The vector leg of a search by turbo codes (zrag-pipeline search;        *)
(* zrag-rerank gpu).  The codes of the visible rows are streamed into a    *)
(* batch of columns; a full batch is scored as a matrix and its best       *)
(* scores kept in a heap; the rows of the heap's ids are fetched and       *)
(* sorted.  An id is made of what a chunk says, so the rows that an index  *)
(* run left in the table and those of the next may share one.              *)
(*                                                                         *)
(* A field of a code is one cell here, of one to four bytes there, and a   *)
(* byte of signs holds Width of them (8 in the code).                      *)
(***************************************************************************)
EXTENDS Integers, Sequences, FiniteSets, FiniteSetsExt, Ordering

CONSTANTS
    ChunkIds,
    Codes,          \* what the column turbo_code may hold: codes, or Null
    Null,
    MaxRows, BatchSize, RawKs,
    Width, Projections,
    Rotated,        \* the rotated query: two coordinates per pair
    Projected       \* the query under the projections

Version == 1
Stride == (Projections + Width - 1) \div Width      \* sign_bytes_per_code
Pairs == Len(Rotated) \div 2                          \* dim_over_2

VARIABLES
    rows,           \* the table, in its order: [chunk_id, test, code]
    next,           \* the row the stream sends next
    batch,          \* TurboCodeBatch: the columns ids, radii, angles, norms, signs; in
                    \* ids the place of the row stands for its chunk_id
    heap,           \* the best [id, score] so far, one for each row, copies or not
    req,            \* raw_k and include_tests
    pc,             \* "stream", "fetch", "done"
    hits            \* the leg: [id, score], best first, id the place of the row

vars == <<rows, next, batch, heap, req, pc, hits>>

Cleared == [ids |-> <<>>, radii |-> <<>>, angles |-> <<>>, norms |-> <<>>, signs |-> <<>>]

Init ==
    /\ \E n \in 1..MaxRows : rows \in [1..n -> [chunk_id : ChunkIds, test : BOOLEAN, code : Codes]]
    /\ \A i, j \in DOMAIN rows : rows[i].chunk_id = rows[j].chunk_id => rows[i].test = rows[j].test
    /\ next = 1 /\ batch = Cleared /\ heap = {} /\ hits = <<>> /\ pc = "stream"
    /\ req \in [rawK : RawKs, tests : BOOLEAN]

-----------------------------------------------------------------------------
(* A code: version, length of the polar part, the polar part (version,     *)
(* bits, pairs, radii, angles), the signs (version, projections, norm,     *)
(* sign bytes).                                                            *)

PolarEnd(code) == 2 + code[2]
Polar(code) == SubSeq(code, 3, PolarEnd(code))
Qjl(code) == SubSeq(code, PolarEnd(code) + 1, Len(code))

Parses(code) ==
    /\ Len(code) >= 2 /\ code[1] = Version
    /\ Len(code) >= PolarEnd(code)
    /\ Len(Polar(code)) >= 3 /\ Polar(code)[1] = Version
    /\ Len(Polar(code)) >= 3 + 2 * Polar(code)[3]
    /\ Len(Qjl(code)) >= 4 /\ Qjl(code)[1] = Version

Fits(code) ==
    Parses(code) =>
        /\ code[2] >= 0 /\ Polar(code)[3] = Pairs /\ Len(Qjl(code)) = 3 + Stride
        /\ \A j \in 1..Pairs : Polar(code)[3 + Pairs + j] \in 0..3

\* One encoder wrote the codes that parse: as many pairs and sign bytes as the query
\* has, and angles in the tables.
TurboAssumption ==
    /\ BatchSize \in Nat \ {0} /\ RawKs \subseteq Nat \ {0} /\ MaxRows \in Nat
    /\ Width \in Nat \ {0} /\ Projections \in Nat \ {0}
    /\ Rotated \in Seq(Int) /\ Len(Rotated) = 2 * Pairs
    /\ Projected \in Seq(Int) /\ Len(Projected) = Projections
    /\ \A code \in Codes \ {Null} : code \in Seq(Int) /\ Fits(code)

\* parse_turbo_code_into: all columns or none
Parsed(b, id, code) ==
    LET p == Polar(code)
        q == Qjl(code)
    IN IF ~Parses(code) THEN b
       ELSE [ids |-> Append(b.ids, id),
             radii |-> b.radii \o SubSeq(p, 4, 3 + p[3]),
             angles |-> b.angles \o SubSeq(p, 4 + p[3], 3 + 2 * p[3]),
             norms |-> Append(b.norms, q[3]),
             signs |-> b.signs \o SubSeq(q, 4, Len(q))]

Dot(s, t) == Total([i \in DOMAIN s |-> s[i] * t[i]])

\* The tables of cosines and sines, four angles to the turn.
Cos == <<1, 0, -1, 0>>
Sin == <<0, 1, 0, -1>>
Decoded(radii, angles) ==
    [k \in 1..(2 * Len(radii)) |->
        LET j == (k + 1) \div 2
        IN radii[j] * (IF k % 2 = 1 THEN Cos[angles[j] + 1] ELSE Sin[angles[j] + 1])]

\* SIGN_LOOKUP
SignsOf(byte) == [k \in 1..Width |-> IF (byte \div 2^(k - 1)) % 2 = 1 THEN 1 ELSE -1]

\* the expansion of a row's sign bytes, of the last one the bits that remain; a row
\* with too few bytes counts nothing
Expanded(bytes) ==
    IF Len(bytes) < Stride THEN [k \in 1..Projections |-> 0]
    ELSE [k \in 1..Projections |-> SignsOf(bytes[((k - 1) \div Width) + 1])[((k - 1) % Width) + 1]]

\* score_batch: row i of each column
ScoreBatch(b) ==
    LET cut(column, i, width) == SubSeq(column, (i - 1) * width + 1, Min({i * width, Len(column)}))
        score(i) == Dot(Decoded(cut(b.radii, i, Pairs), cut(b.angles, i, Pairs)), Rotated)
                    + b.norms[i] * Dot(Expanded(cut(b.signs, i, Stride)), Projected)
    IN {[id |-> b.ids[i], score |-> score(i)] : i \in DOMAIN b.ids}

\* push_scored: the heap keeps raw_k, of equals any
Pushed(scored) ==
    LET all == heap \cup scored
    IN {s \in SUBSET all : /\ Cardinality(s) = Min({req.rawK, Cardinality(all)})
                           /\ \A e \in s, f \in all \ s : e.score >= f.score}

-----------------------------------------------------------------------------
(* The stream.                                                             *)

\* the filter of iter_turbo_codes
Streamed(row) == row.code # Null /\ (req.tests \/ ~row.test)

\* Slip: a column is forgotten
EmptiedButSigns(b) == [Cleared EXCEPT !.signs = b.signs]

\* TurboCodeBatch::clear
Emptied(b) == Cleared

\* A row is parsed; a batch that is full is scored and emptied.
Row ==
    /\ pc = "stream" /\ next <= Len(rows)
    /\ LET row == rows[next]
           grown == IF Streamed(row) THEN Parsed(batch, next, row.code) ELSE batch
       IN IF Len(grown.ids) >= BatchSize
          THEN heap' \in Pushed(ScoreBatch(grown)) /\ batch' = Emptied(grown)
          ELSE batch' = grown /\ UNCHANGED heap
    /\ next' = next + 1
    /\ UNCHANGED <<rows, req, pc, hits>>

\* The stream has ended: what is left in the batch is scored.
LastBatch ==
    /\ pc = "stream" /\ next > Len(rows)
    /\ heap' \in IF batch.ids = <<>> THEN {heap} ELSE Pushed(ScoreBatch(batch))
    /\ pc' = "fetch"
    /\ UNCHANGED <<rows, next, batch, req, hits>>

\* The rows of the heap that have the id of a row.
Copies(i) == {e \in heap : rows[e.id].chunk_id = rows[i].chunk_id}

\* score_by_id: the scores go in by decreasing score, and the last of an id stays
ScoreById(i) == Min({e.score : e \in Copies(i)})

\* fetch_by_chunk_ids: every row of an id, under the same filter, in the table's order;
\* then a stable sort by score
Fetch ==
    /\ pc = "fetch"
    /\ LET found == {i \in DOMAIN rows : Copies(i) # {} /\ (req.tests \/ ~rows[i].test)}
           ids == Kept([i \in DOMAIN rows |-> i], found)
           scored == [k \in DOMAIN ids |-> [id |-> ids[k], score |-> ScoreById(ids[k])]]
       IN hits' = SortedBy(scored, [k \in DOMAIN scored |-> scored[k].score])
    /\ pc' = "done"
    /\ UNCHANGED <<rows, next, batch, heap, req>>

Next == Row \/ LastBatch \/ Fetch

Spec == Init /\ [][Next]_vars

-----------------------------------------------------------------------------
(* Properties.                                                             *)

\* TurboReranker::score: the estimate of one code by itself
Estimate(code) ==
    Dot(Decoded(SubSeq(code, 6, 5 + Pairs), SubSeq(code, 6 + Pairs, 5 + 2 * Pairs)), Rotated)
    + Qjl(code)[3] * Dot(Expanded(SubSeq(Qjl(code), 4, 3 + Stride)), Projected)

\* The leg has the raw_k best of the visible rows whose code can be read, and with them
\* the visible rows of the same ids, so as many rows or more but ids no more; best first,
\* each with the score that the code of one of its copies has by itself, wherever the
\* batches were cut.
BestRows ==
    LET visible == {i \in DOMAIN rows : req.tests \/ ~rows[i].test}
        seen == {i \in DOMAIN rows : Streamed(rows[i]) /\ Parses(rows[i].code)}
        shown == {hits[k].id : k \in DOMAIN hits}
    IN pc = "done" =>
         /\ shown \subseteq visible
         /\ \A i \in visible, j \in shown : rows[i].chunk_id = rows[j].chunk_id => i \in shown
         /\ Len(hits) = Cardinality(shown)
         /\ Cardinality({rows[i].chunk_id : i \in shown}) <= req.rawK
         /\ Len(hits) >= Min({req.rawK, Cardinality(seen)})
         /\ \A k \in DOMAIN hits : \E i \in seen :
              rows[i].chunk_id = rows[hits[k].id].chunk_id /\ hits[k].score = Estimate(rows[i].code)
         /\ \A k \in 1..(Len(hits) - 1) : hits[k].score >= hits[k + 1].score
         /\ \A i \in seen \ shown, k \in DOMAIN hits : Estimate(rows[i].code) <= hits[k].score

\* The same leg of no more rows than raw_k: copies make it longer.
NoMoreThanAsked == pc = "done" => Len(hits) <= req.rawK
=============================================================================
