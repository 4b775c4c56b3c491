----------------------------- MODULE FileChunks -----------------------------
(***************************************************************************)
(* How the symbols of a file become chunks (DslChunker and LineIndex): the *)
(* file is looked up in the index, and each symbol of a chunkable kind     *)
(* becomes the lines it spans, with the lines of documentation and         *)
(* attributes above it if it is documented.                                *)
(*                                                                         *)
(* A text is a sequence of characters: "d" opens a line that looks like    *)
(* documentation or an attribute, "x" is any other letter, and a blank and *)
(* a newline "n".  Offsets count from 0 and lines from 1, as in the code.  *)
(***************************************************************************)
EXTENDS Integers, Sequences, FiniteSets, SequencesExt, Ordering

CONSTANTS
    Sources,        \* the texts
    Path,           \* the file that is cut, as the components of its path
    Indexes,        \* the paths of the indexed files, in their order
    FileIds,        \* how many numbers a file index has (2^16 in the code)
    MaxSymbols

FileChunksAssumption ==
    /\ MaxSymbols \in Nat
    /\ \A t \in Sources : t \in Seq({"d", "x", " ", "n"})
    /\ \A files \in Indexes : IsInjective(files) /\ Len(files) <= FileIds

VARIABLES
    source,
    paths,          \* ProjectIndex.files: the ones that were parsed
    owned,          \* the chunkable symbols of the file that is found: [line, last, doc]
    cut,            \* chunks: [of, from, to, body], body a range of offsets
    left            \* how many symbols are still to be cut

vars == <<source, paths, owned, cut, left>>

-----------------------------------------------------------------------------
(* Lines.                                                                    *)

Newlines(t) == {i \in 0..(Len(t) - 1) : t[i + 1] = "n"}
LineCount(t) == Cardinality(Newlines(t)) + 1

\* line_starts: 0, and of the offsets, counted from 1, those of newlines
LineStarts(t) == <<0>> \o Kept([i \in DOMAIN t |-> i], {i \in DOMAIN t : t[i] = "n"})

Clip(start, end) == IF start > end THEN <<start, start>> ELSE <<start, end>>

\* LineIndex::byte_range: the offsets from the first line's start to the last line's end
ByteRange(t, first, last) ==
    LET starts == LineStarts(t) IN
    IF first = 0 \/ last < first THEN <<0, 0>>
    ELSE Clip(IF first <= Len(starts) THEN starts[first] ELSE Len(t),
              IF last < Len(starts) THEN starts[last + 1] - 1 ELSE Len(t))

\* line_byte_range: the same by counting newlines, with no table
LineByteRange(t, first, last) ==
    LET seen(i) == Cardinality({j \in Newlines(t) : j <= i})
        starts == {i + 1 : i \in {j \in Newlines(t) : seen(j) = first - 1 /\ first - 1 < last}}
        ends == {i \in Newlines(t) : seen(i) = last} IN
    IF first = 0 \/ last < first THEN <<0, 0>>
    ELSE Clip(IF first = 1 THEN 0 ELSE IF starts # {} THEN CHOOSE i \in starts : TRUE ELSE Len(t),
              IF ends # {} THEN CHOOSE i \in ends : TRUE ELSE Len(t))

\* trim_start and looks_like_doc_or_attr of one line
LooksLikeDoc(t, line) ==
    LET range == ByteRange(t, line, line) IN
    \E i \in range[1]..(range[2] - 1) :
        t[i + 1] = "d" /\ \A j \in range[1]..(i - 1) : t[j + 1] = " "

\* Slip: the range of the lines above takes in the symbol's own.
DocStartOnLine(t, line) ==
    CHOOSE first \in 1..line :
        /\ \A k \in (first + 1)..line : LooksLikeDoc(t, k)
        /\ first = 1 \/ ~LooksLikeDoc(t, first)

\* find_doc_start_line: back over the lines that look like documentation, to the first that does not
DocStart(t, line) ==
    CHOOSE first \in 1..line :
        /\ \A k \in first..(line - 1) : LooksLikeDoc(t, k)
        /\ first = 1 \/ ~LooksLikeDoc(t, first - 1)

-----------------------------------------------------------------------------
(* The chunker.                                                              *)

\* locate_file: the file itself, or else the first whose path ends with this one
Locate(files) ==
    LET own == {i \in DOMAIN files : files[i] = Path}
        fallback == {i \in DOMAIN files : IsSuffix(Path, files[i])}
        Lowest(s) == CHOOSE i \in s : \A j \in s : i <= j IN
    IF own # {} THEN Lowest(own) ELSE IF fallback # {} THEN Lowest(fallback) ELSE 0

\* The symbols that is_chunkable_kind keeps (no constants and no modules).
SymbolsIn(lines) ==
    {s \in [line : 1..lines, last : 1..lines, doc : BOOLEAN] : s.line <= s.last}

\* Symbols of one tree nest or follow each other.
Nested(ss) ==
    \A i, j \in DOMAIN ss : i < j =>
        \/ ss[j].line > ss[i].last
        \/ ss[i].line <= ss[j].line /\ ss[j].last <= ss[i].last

\* DslChunker::new and chunks_for_file; symbols of another file have nothing to do with this text
Init ==
    /\ source \in Sources
    /\ paths \in Indexes
    /\ LET lines == IF Locate(paths) # 0 /\ paths[Locate(paths)] # Path THEN LineCount(source) + 1
                    ELSE LineCount(source) IN
       owned \in {ss \in BoundedSeq(SymbolsIn(lines), MaxSymbols) : Nested(ss)}
    /\ cut = <<>>
    /\ left = IF Locate(paths) = 0 THEN 0 ELSE Len(owned)

\* make_chunk
MakeChunk ==
    /\ left > 0
    /\ left' = left - 1
    /\ LET i == Len(owned) - left + 1
           s == owned[i]
           first == IF s.doc THEN DocStart(source, s.line) ELSE s.line
           range == ByteRange(source, first, s.last) IN
       cut' = IF range[1] = range[2] THEN cut
              ELSE Append(cut, [of |-> i, from |-> first, to |-> s.last, body |-> range])
    /\ UNCHANGED <<source, paths, owned>>

Next == MakeChunk

Spec == Init /\ [][Next]_vars

-----------------------------------------------------------------------------
(* Properties.                                                               *)

Own == Locate(paths) # 0 /\ paths[Locate(paths)] = Path

\* The table of line starts and the count of newlines give the same range for every pair
\* of lines, in or out of the text (the test line_index_matches_line_byte_range).
RangesAgree ==
    \A first, last \in 0..(LineCount(source) + 1) :
        ByteRange(source, first, last) = LineByteRange(source, first, last)

\* A chunk of a file's own symbol holds as many lines as its numbers say, the symbol's
\* lines are among them, and no newline of its end is cut in two.
BodiesMatchLines ==
    Own => \A k \in DOMAIN cut :
        LET c == cut[k] IN
        /\ Cardinality({i \in Newlines(source) : c.body[1] <= i /\ i < c.body[2]}) = c.to - c.from
        /\ c.from <= owned[c.of].line
        /\ c.body[1] = 0 \/ c.body[1] - 1 \in Newlines(source)
        /\ c.body[2] = Len(source) \/ c.body[2] \in Newlines(source)

\* The walk back over documentation stops at the symbol above: a chunk begins inside
\* another symbol only if it lies in it or its last line looks like documentation.
StopsAtNeighbour ==
    Own => \A k \in DOMAIN cut : \A j \in DOMAIN owned :
        LET s == owned[cut[k].of] other == owned[j] IN
        other.line <= cut[k].from /\ cut[k].from <= other.last =>
            \/ s.line <= other.last
            \/ LooksLikeDoc(source, other.last)

\* A file is cut by its own symbols.  Refuted: the path of a file that was not parsed can
\* be the end of another's, and that one's symbols are laid over this text.
CutByOwnSymbols == Len(cut) > 0 => Own

ChunksOfSymbols == RangesAgree /\ BodiesMatchLines /\ StopsAtNeighbour

=============================================================================
