-------------------------------- MODULE Pdf ---------------------------------
(***************************************************************************)
(* How a PDF becomes chunks (zrag-pdf, assemble_pdf_contents of the        *)
(* manifest, pack_pdf_pages).  Each page's content stream is interpreted   *)
(* operator by operator into positioned runs of glyphs; matrices are       *)
(* rebuilt from the geometry; the rest is folded into lines; one line may  *)
(* be the page's heading.  The pages are joined with form feeds, split at  *)
(* them again, and packed into chunks labelled with page numbers.          *)
(*                                                                         *)
(* A text is a sequence of characters: "FF" is a form feed, "NL" a         *)
(* newline, "-" the minus sign a matrix recovers.  Positions and sizes are *)
(* integers, the ratios of the code are cross-multiplied.                  *)
(***************************************************************************)
EXTENDS Integers, Sequences, FiniteSets, SequencesExt, FiniteSetsExt, TLC

CONSTANTS
    Docs,           \* the documents: sequences of pages, a page a sequence of operators
    Budget,         \* the bytes of a chunk
    HeadingMax      \* HEADING_MAX_LEN

\* An operator is [op, args, text]: its numbers, and its string or the name of its font.
\* A page that cannot be read is one operator "bad".
PdfAssumption == Budget \in Nat \ {0} /\ HeadingMax \in Nat

VARIABLES
    doc,            \* the document
    at,             \* the operators of the page that were applied
    it,             \* Interp: the text state
    runs,           \* the PosRuns of the page
    pages,          \* PageText of the finished pages: [text, heading], and the runs
    segments,       \* the segments between form feeds that are still to be packed
    pack,           \* pack_pdf_pages: [num, buf, start, end, heading]
    chunks,         \* [body, first, last, heading]
    pc              \* "page", "pack", "skipped", "done"

vars == <<doc, at, it, runs, pages, segments, pack, chunks, pc>>
packing == <<segments, pack, chunks>>

Fresh == [x |-> 0, y |-> 0, size |-> 0, lead |-> 0, lineX |-> 0, lastY |-> 0,
          inText |-> FALSE, nl |-> FALSE, font |-> "none"]
EmptyPack == [num |-> 1, buf |-> <<>>, start |-> 0, end |-> 0, heading |-> <<>>]

Init ==
    /\ doc \in Docs
    /\ at = 0 /\ it = Fresh /\ runs = <<>> /\ pages = <<>> /\ pc = "page"
    /\ segments = <<>> /\ pack = EmptyPack /\ chunks = <<>>

-----------------------------------------------------------------------------
(* The characters.                                                         *)

Blank == {" ", "FF", "NL"}
Letter == {"a", "b", "A", "B", "C"}
Trim(s) ==
    LET solid == {i \in DOMAIN s : s[i] \notin Blank}
    IN IF solid = {} THEN <<>> ELSE SubSeq(s, Min(solid), Max(solid))
Flat(ss) == FoldLeft(LAMBDA a, s : a \o s, <<>>, ss)
Joined(ss, sep) == FoldLeft(LAMBDA a, s : IF a = <<>> THEN s ELSE a \o sep \o s, <<>>, ss)
Times(c, s) == Cardinality({i \in DOMAIN s : s[i] = c})

\* lopdf's encoding of a font: an obfuscated math font maps every code to itself, and
\* the code of the minus sign to nothing; a broken one misses most of its codes.
Encoded(font, s) ==
    IF font = "math" THEN SelectSeq(s, LAMBDA c : c # "NUL")
    ELSE [i \in DOMAIN s |-> "miss"]

\* push_winansi: control codes are blanks
WinAnsi(s) == [i \in DOMAIN s |-> IF s[i] \in {"FF", "NUL"} THEN " " ELSE s[i]]

\* PageDecoder::decode, is_mostly_replacement
Decode(font, s) ==
    LET known == Encoded(font, s)
    IN IF font = "none" \/ 3 * Times("miss", known) > Len(known) THEN WinAnsi(s) ELSE known

-----------------------------------------------------------------------------
(* The operators of a content stream.                                      *)

Page == doc[Len(pages) + 1]
Op == Page[at + 1].op
Args == Page[at + 1].args
String == Page[at + 1].text
\* the i-th number from the end
Arg(i) == Args[Len(Args) + 1 - i]

\* the operators that are known, with the numbers they need (a b c d of Tm left out)
Needed == "BT" :> 0 @@ "ET" :> 0 @@ "Tf" :> 1 @@ "Tm" :> 2 @@ "Td" :> 2 @@ "TD" :> 2 @@ "TL" :> 1
          @@ "T*" :> 0 @@ "Tj" :> 0 @@ "TJ" :> 0 @@ "'" :> 0 @@ "\"" :> 2
TextOnly == {"T*", "Tj", "TJ", "'", "\""}
Known == Op \in DOMAIN Needed /\ Len(Args) >= Needed[Op] /\ (Op \in TextOnly => it.inText)

Apply(names) ==
    /\ pc = "page" /\ at < Len(Page)
    /\ Op \in names /\ Known
    /\ at' = at + 1
    /\ UNCHANGED <<doc, pages, packing, pc>>

\* The line breaks when the baseline drops by more than 0.3 of the size.
Drops(dy) == it.inText /\ 10 * dy < -3 * it.size

BT ==
    /\ Apply({"BT"})
    /\ it' = [it EXCEPT !.inText = TRUE, !.y = 0, !.lastY = 0, !.x = 0, !.lineX = 0]
    /\ UNCHANGED runs

ET ==
    /\ Apply({"ET"})
    /\ it' = [it EXCEPT !.inText = FALSE, !.nl = TRUE]
    /\ UNCHANGED runs

Tf ==
    /\ Apply({"Tf"})
    /\ it' = [it EXCEPT !.font = Head(String), !.size = Arg(1)]
    /\ UNCHANGED runs

Tm ==
    /\ Apply({"Tm"})
    /\ it' = [it EXCEPT !.nl = @ \/ Drops(Arg(1) - it.lastY), !.x = Arg(2), !.lineX = Arg(2),
                        !.y = Arg(1), !.lastY = Arg(1)]
    /\ UNCHANGED runs

Td ==
    /\ Apply({"Td", "TD"})
    /\ it' = [it EXCEPT !.lead = IF Op = "TD" THEN -Arg(1) ELSE @,
                        !.nl = @ \/ Drops(Arg(1)),
                        !.lineX = @ + Arg(2), !.x = it.lineX + Arg(2),
                        !.y = @ + Arg(1), !.lastY = it.y + Arg(1)]
    /\ UNCHANGED runs

TL ==
    /\ Apply({"TL"})
    /\ it' = [it EXCEPT !.lead = Arg(1)]
    /\ UNCHANGED runs

\* One line down; T* goes back to the start of the line, ' and " stay where they are.
Down(state) == [state EXCEPT !.nl = TRUE, !.y = @ - state.lead, !.lastY = state.y - state.lead]

NextLine ==
    /\ Apply({"T*"})
    /\ it' = [Down(it) EXCEPT !.x = it.lineX]
    /\ UNCHANGED runs

\* Interp::emit.  The operand of TJ is an array whose strings the tokenizer has joined.
Emitted(state, s) ==
    Append(runs, [x |-> state.x, y |-> state.y, size |-> state.size, nl |-> state.nl,
                  text |-> Decode(state.font, s)])

Show ==
    /\ Apply({"Tj", "TJ"})
    /\ runs' = Emitted(it, String)
    /\ it' = [it EXCEPT !.nl = FALSE]

ShowOnNextLine ==
    /\ Apply({"'", "\""})
    /\ runs' = Emitted(Down(it), String)
    /\ it' = [Down(it) EXCEPT !.nl = FALSE]

\* An unknown operator, one with too few operands, or text shown outside BT .. ET.
Ignore ==
    /\ pc = "page" /\ at < Len(Page)
    /\ Op # "bad" /\ ~Known
    /\ at' = at + 1
    /\ UNCHANGED <<doc, it, runs, pages, packing, pc>>

-----------------------------------------------------------------------------
(* Matrices.  rs is a sequence of runs, y grows downwards.                 *)

Near(a, b) == a - b \in -2..2                   \* X_TOL
RowMinGap == 3

ByY(s) == SortSeq(s, LAMBDA a, b : a.y < b.y)
ByX(s) == SortSeq(s, LAMBDA a, b : a.x < b.x)

\* classify: a stack 0 B* @ is a left fence, 1 C* A a right one.
Classify(cluster) ==
    LET chars == Flat([i \in DOMAIN cluster |-> ByY(cluster)[i].text])
        stack(top, mid, low) ==
            /\ Len(chars) >= 2 /\ chars[1] = top /\ Last(chars) = low
            /\ \A i \in 2..(Len(chars) - 1) : chars[i] = mid
    IN IF stack("0", "B", "@") THEN "left" ELSE IF stack("1", "C", "A") THEN "right" ELSE "none"

\* fences: the maximal groups of consecutive runs in one column that spell a fence
Fences(rs) ==
    LET EndOf(i) == Min({Len(rs) + 1} \cup {j \in (i + 1)..Len(rs) : ~Near(rs[j].x, rs[i].x)})
        From[i \in 1..(Len(rs) + 1)] ==
            IF i > Len(rs) THEN <<>>
            ELSE LET side == Classify(SubSeq(rs, i, EndOf(i) - 1))
                 IN IF side = "none" THEN From[i + 1]
                    ELSE <<[side |-> side, lo |-> i, hi |-> EndOf(i) - 1]>> \o From[EndOf(i)]
    IN From[1]

\* cluster_rows: a new row where the gap is over half the median of the large gaps
ClusterRows(body) ==
    LET order == ByY(body)
        gap(i) == order[i].y - order[i - 1].y
        large == SortSeq(SelectSeq([i \in 1..(Len(order) - 1) |-> gap(i + 1)],
                                   LAMBDA g : g > RowMinGap), LAMBDA a, b : a < b)
        breaks(i) == large # <<>> /\ 2 * gap(i) > large[(Len(large) \div 2) + 1]
        starts == {1} \cup {i \in 2..Len(order) : breaks(i)}
        ends(i) == Min({Len(order)} \cup {j - 1 : j \in {k \in starts : k > i}})
    IN [k \in 1..Cardinality(starts) |->
           LET s == CHOOSE i \in starts : Cardinality({j \in starts : j <= i}) = k
           IN ByX(SubSeq(order, s, ends(s)))]

IsDigit(r) == Trim(r.text) # <<>>
IsSign(r) == r.text = <<>>

\* Matrix::from_body: the rows of cells, or <<>>.  A sign belongs to the first
\* digit to its right.
FromBody(body) ==
    LET rows == ClusterRows(body)
        digits(row) == SelectSeq(row, IsDigit)
        total == Len(SelectSeq(body, IsDigit))
        signs(row, c) ==
            Len(SelectSeq(row, LAMBDA r : IsSign(r) /\
                c = 1 + Cardinality({d \in DOMAIN digits(row) : digits(row)[d].x < r.x})))
    IN IF body = <<>> \/ total = 0 \/ total % Len(rows) # 0
          \/ \E k \in DOMAIN rows : Len(digits(rows[k])) * Len(rows) # total
       THEN <<>>
       ELSE [k \in DOMAIN rows |-> [c \in DOMAIN digits(rows[k]) |->
                [i \in 1..signs(rows[k], c) |-> "-"] \o digits(rows[k])[c].text]]

\* The box art and, below it, the LaTeX; frames and padding are left out.
Block(matrix) ==
    LET rendered(sep) == Joined([k \in DOMAIN matrix |-> Joined(matrix[k], sep)], <<"NL">>)
    IN rendered(<<" ">>) \o <<"NL">> \o rendered(<<"&">>)

\* detect: a left fence and the next right fence, when the runs between make a matrix
Detect(rs) ==
    LET step(a, f) ==
            IF f.side = "left" THEN [a EXCEPT !.left = <<f>>]
            ELSE IF a.left = <<>> THEN a
            ELSE LET body == SubSeq(rs, a.left[1].hi + 1, f.lo - 1)
                     m == FromBody(body)
                 IN [left |-> <<>>,
                     regions |-> IF m = <<>> THEN a.regions
                                 ELSE Append(a.regions, [lo |-> a.left[1].lo, hi |-> f.hi,
                                                         size |-> body[1].size, block |-> Block(m)])]
    IN FoldLeft(step, [left |-> <<>>, regions |-> <<>>], Fences(rs)).regions

-----------------------------------------------------------------------------
(* Lines, heading, page.                                                   *)

\* push_glyphs: control characters are blanks, blanks in a row are one
PushGlyphs(cur, s) ==
    FoldLeft(LAMBDA a, c : LET d == IF c \in Blank THEN " " ELSE c
                           IN IF d = " " /\ a # <<>> /\ Last(a) = " " THEN a ELSE Append(a, d),
             cur, s)

Flush(a) ==
    [a EXCEPT !.out = IF a.cur = <<>> THEN @ ELSE Append(@, [text |-> a.cur, size |-> a.size]),
              !.cur = <<>>]
Unbased(a) == [a EXCEPT !.baseSize = 0, !.baseY = 0, !.script = 0]

\* the mark of a run that is smaller than the base and off its line
ScriptOf(a, r) ==
    LET smaller == a.baseSize > 0 /\ 10 * r.size < 8 * a.baseSize
        dy == 100 * (r.y - a.baseY)
    IN IF smaller /\ dy < -5 * a.baseSize THEN -1
       ELSE IF smaller /\ dy > 5 * a.baseSize THEN 1 ELSE 0

AddRun(acc, r) ==
    LET a == IF r.nl THEN Unbased(Flush(acc)) ELSE acc
        kind == ScriptOf(a, r)
        mark == IF kind = 0
                THEN IF a.cur # <<>> /\ 4 * r.x > 4 * a.lastX + r.size THEN <<" ">> ELSE <<>>
                ELSE IF a.script # kind THEN <<IF kind < 0 THEN "_" ELSE "^">> ELSE <<>>
    IN [a EXCEPT !.cur = PushGlyphs(@ \o mark, r.text), !.script = kind, !.lastX = r.x,
                 !.size = r.size,
                 !.baseSize = IF kind = 0 THEN r.size ELSE @,
                 !.baseY = IF kind = 0 THEN r.y ELSE @]

\* Slip: the run after a region goes with it
CoversOneMore(g, i) == i \in g.lo..(g.hi + 1)

Covers(g, i) == i \in g.lo..g.hi

\* assemble: a region takes the place of its runs
Assemble(rs, regions) ==
    LET step(a, i) ==
            LET here == SelectSeq(regions, LAMBDA g : Covers(g, i))
            IN IF here = <<>> THEN AddRun(a, rs[i])
               ELSE IF here[1].lo # i THEN a
               ELSE LET b == Unbased(Flush(a))
                    IN [b EXCEPT !.out = Append(@, [text |-> here[1].block, size |-> here[1].size])]
        start == [out |-> <<>>, cur |-> <<>>, size |-> 0, baseSize |-> 0, baseY |-> 0,
                  script |-> 0, lastX |-> 0]
    IN Flush(FoldLeft(step, start, [i \in DOMAIN rs |-> i])).out

\* body_font_size: the most frequent size of the lines, the smallest of equals
BodyFontSize(lines) ==
    LET sizes == {lines[i].size : i \in DOMAIN lines} \ {0}
        often(s) == Cardinality({i \in DOMAIN lines : lines[i].size = s})
    IN IF sizes = {} THEN 0
       ELSE CHOOSE s \in sizes : \A o \in sizes : often(o) < often(s) \/ (often(o) = often(s) /\ s <= o)

\* pick_heading: the first short line of 1.2 times the body's size that is half letters
PickHeading(lines, body) ==
    LET fits(l) ==
            LET t == Trim(l.text)
            IN /\ 10 * l.size >= 12 * body
               /\ t # <<>> /\ Len(t) <= HeadingMax
               /\ 2 * Cardinality({i \in DOMAIN t : t[i] \in Letter}) >= Len(t)
        found == IF body = 0 THEN <<>> ELSE SelectSeq(lines, fits)
    IN IF found = <<>> THEN <<>> ELSE Trim(found[1].text)

\* extract_pages: the end of a page's stream, or a page without one
PageText(lines) ==
    [text |-> Joined([i \in DOMAIN lines |-> lines[i].text], <<"NL">>),
     heading |-> PickHeading(lines, BodyFontSize(lines)), runs |-> runs]

\* assemble_pdf_contents: no separator before the first text
Contents(ps) ==
    FoldLeft(LAMBDA a, p : (IF a = <<>> THEN <<>> ELSE a \o <<"NL", "FF", "NL">>) \o p.text, <<>>, ps)

SplitAtFeeds(s) ==
    LET feeds == {i \in DOMAIN s : s[i] = "FF"}
        starts == {1} \cup {i + 1 : i \in feeds}
        stop(i) == Min({Len(s)} \cup {j - 1 : j \in {k \in feeds : k >= i}})
    IN [k \in 1..Cardinality(starts) |->
           LET i == CHOOSE i \in starts : Cardinality({j \in starts : j <= i}) = k
           IN SubSeq(s, i, stop(i))]

\* load_pdf skips a file of which no page has text.
Finish(ps) ==
    /\ pages' = ps
    /\ at' = 0 /\ it' = Fresh /\ runs' = <<>>
    /\ IF Len(ps) < Len(doc) THEN pc' = "page" /\ UNCHANGED packing
       ELSE /\ UNCHANGED <<pack, chunks>>
            /\ pc' = IF Trim(Contents(ps)) = <<>> THEN "skipped" ELSE "pack"
            /\ segments' = IF pc' = "pack" THEN SplitAtFeeds(Contents(ps)) ELSE <<>>
    /\ UNCHANGED doc

EndPage ==
    /\ pc = "page" /\ at = Len(Page)
    /\ Finish(Append(pages, PageText(Assemble(runs, Detect(runs)))))

BadPage ==
    /\ pc = "page" /\ Page # <<>> /\ Page[1].op = "bad"
    /\ Finish(Append(pages, [text |-> <<>>, heading |-> <<>>, runs |-> <<>>]))

-----------------------------------------------------------------------------
(* pack_pdf_pages.                                                         *)

\* build_pdf_chunk, unless the buffer is empty
Built(p) ==
    IF p.buf = <<>> THEN <<>>
    ELSE <<[body |-> p.buf, first |-> p.start, last |-> p.end, heading |-> p.heading]>>

\* Slip: the next chunk starts where this one did
ClosedKeepingStart(p) == [p EXCEPT !.buf = <<>>, !.heading = <<>>]

\* what a flush leaves for the next chunk
Closed(p) == [p EXCEPT !.buf = <<>>, !.start = 0, !.heading = <<>>]

HeadingOf(num) == IF num <= Len(pages) THEN pages[num].heading ELSE <<>>

PackPage ==
    /\ pc = "pack" /\ segments # <<>>
    /\ LET body == Trim(Head(segments))
           heading == HeadingOf(pack.num)
           cut == heading # <<>> /\ pack.start # 0 /\ Len(pack.buf) >= Budget \div 2
           opened == IF cut THEN Closed(pack) ELSE pack
           grown == [opened EXCEPT
               !.start = IF @ = 0 THEN pack.num ELSE @,
               !.heading = IF opened.start = 0 THEN heading ELSE @,
               !.buf = IF @ = <<>> THEN body ELSE @ \o <<"NL", "NL">> \o body,
               !.end = pack.num]
           full == Len(grown.buf) >= Budget
       IN IF body = <<>> THEN pack' = [pack EXCEPT !.num = @ + 1] /\ UNCHANGED chunks
          ELSE /\ chunks' = chunks \o (IF cut THEN Built(pack) ELSE <<>>)
                                   \o (IF full THEN Built(grown) ELSE <<>>)
               /\ pack' = [(IF full THEN Closed(grown) ELSE grown) EXCEPT !.num = @ + 1]
    /\ segments' = Tail(segments)
    /\ UNCHANGED <<doc, at, it, runs, pages, pc>>

PackRest ==
    /\ pc = "pack" /\ segments = <<>>
    /\ chunks' = chunks \o Built(pack)
    /\ pc' = "done"
    /\ UNCHANGED <<doc, at, it, runs, pages, segments, pack>>

Next ==
    \/ BT \/ ET \/ Tf \/ Tm \/ Td \/ TL \/ NextLine \/ Show \/ ShowOnNextLine \/ Ignore
    \/ EndPage \/ BadPage \/ PackPage \/ PackRest

Spec == Init /\ [][Next]_vars

-----------------------------------------------------------------------------
(* Properties.                                                             *)

\* The glyphs of a page outside its matrix fences, which "fences" recognises.
Prose(rs) ==
    LET fs == Fences(rs)
        fence == UNION {fs[k].lo..fs[k].hi : k \in DOMAIN fs}
    IN Flat([i \in DOMAIN rs |-> IF i \in fence THEN <<>> ELSE rs[i].text])

\* Reconstruction is lossless (mathrec.rs): whatever is laid out, each glyph that a
\* page shows outside a matrix's fences is in the text of the page, and outside a
\* matrix it is there once.
GlyphsKept ==
    \A p \in DOMAIN pages :
        LET shown == Prose(pages[p].runs)
        IN \A c \in {"a", "b", "1", "2"} :
              /\ Times(c, pages[p].text) >= Times(c, shown)
              /\ Fences(pages[p].runs) = <<>> => Times(c, pages[p].text) = Times(c, shown)

\* What chunks say of pages: each chunk is the text of the pages it names, its
\* label is the heading of the first of them, and together they are the document.
ChunksNamePages ==
    LET texts(lo, hi) ==
            Joined(SelectSeq([i \in 1..(hi + 1 - lo) |-> Trim(pages[lo + i - 1].text)],
                             LAMBDA t : t # <<>>), <<"NL", "NL">>)
    IN /\ \A k \in DOMAIN chunks :
             /\ chunks[k].body = texts(chunks[k].first, chunks[k].last)
             /\ chunks[k].heading = pages[chunks[k].first].heading
       /\ Joined([k \in DOMAIN chunks |-> chunks[k].body], <<"NL", "NL">>) = texts(1, Len(pages))

\* "one entry per \u{c}-separated segment" (manifest.rs): a segment is a page
\* once the first page has text and no page's text has a form feed of its own.
PagesNumbered ==
    pc = "done" /\ pages[1].text # <<>> /\ (\A p \in DOMAIN pages : Times("FF", pages[p].text) = 0)
        => ChunksNamePages

\* The same of every document.
PageNumbersAreReal == pc = "done" => ChunksNamePages
=============================================================================
