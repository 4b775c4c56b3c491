------------------------------- MODULE MCText -------------------------------
(* Text on small instances, beside the two splitters: a behaviour is one of  *)
(* Text, the cutting of one body, or the reading and cutting of one PDF.     *)
EXTENDS Text

VARIABLES config, table, atoms, plans,
          doc, it, pages, segments, pack

cut == <<config, table, atoms, plans>>
pdf == <<doc, it, pages, segments, pack>>

NoCut == config = None /\ table = None /\ atoms = None /\ plans = None
NoPdf == doc = None /\ it = None /\ pages = None /\ segments = None /\ pack = None

-----------------------------------------------------------------------------
(* DslIndex: a crate's root and one module of it, as many files as the file  *)
(* indexes tell apart.                                                       *)

Dirs == <<"crates", "k", "src">>
RootAndModule ==
    <<[crate |-> "k", mods |-> <<>>, stem |-> "lib", dirs |-> Dirs, rust |-> TRUE],
      [crate |-> "k", mods |-> <<"m">>, stem |-> "m", dirs |-> Dirs, rust |-> TRUE]>>
PathsOfCalls == {<<"a">>, <<"b">>, <<"T", "a">>, <<"crate", "a">>, <<"super", "T", "a">>}

-----------------------------------------------------------------------------
(* Ranking: two files that call each other, one of them a test; an edit      *)
(* moves a chunk, which keeps its body, and drops or adds another.           *)

Chunk(sym, parent, calls, body, first, last) ==
    [sym |-> sym, parent |-> parent, calls |-> calls, body |-> body, first |-> first, last |-> last]
TestOrSource(f) == IF f = "t" THEN "test" ELSE "source"
TwoTexts(f) ==
    IF f = "a"
    THEN {<<Chunk("A", "none", {"B"}, "p", 1, 2), Chunk("A", "none", {}, "q", 2, 3)>>,
          <<Chunk("A", "none", {"B"}, "p", 2, 3)>>}
    ELSE {<<Chunk("B", "none", {"A"}, "s", 1, 1)>>, <<Chunk("none", "none", {}, "t", 1, 1)>>}

-----------------------------------------------------------------------------
(* TurboLeg: up to three rows of two ids, batches of two; codes of another   *)
(* version, and none.                                                        *)

Code(version, radius, angle, norm, signs) ==
    <<version, 5, 1, 2, 1, radius, angle, version, 3, norm>> \o signs

CodesOfTwoVersions ==
    {Code(1, 1, 0, 1, <<3, 0>>), Code(1, 2, 1, 0, <<1, 1>>), Code(1, 1, 2, 2, <<2, 1>>),
     Code(2, 1, 0, 1, <<3, 0>>), <<>>}
NoCode == <<>>
OnePair == <<2, 1>>
ThreeProjections == <<1, 1, 2>>

-----------------------------------------------------------------------------
(* FileChunks: texts of up to three characters and two longer ones; a file   *)
(* that may have to be found by the end of its path.                         *)

SmallFiles ==
    UNION {[1..k -> {"d", "x", " ", "n"}] : k \in 0..3} \cup
    {<<"x", "n", "d", "n", "x">>, <<"d", "n", " ", "d", "n", "x">>}

PathOfFile == <<"r", "a">>
ParsedFiles ==
    {<<>>, <<<<"r", "r", "a">>, <<"r", "a">>>>, <<<<"r", "r", "a">>>>, <<<<"r", "b">>>>}

-----------------------------------------------------------------------------
(* Sources: a Foundry project whose files come and go, one of a skipped      *)
(* name, some of a platform, a test, one generated.                          *)

At(dirs, name) == [dirs |-> dirs, name |-> name]
Rs(word) == <<word, ".", "rs">>

Scan == At(<<"src">>, <<"b", ".", "pdf">>)
FoundryProject ==
    {At(<<>>, <<"foundry", ".", "toml">>), At(<<"lib">>, <<"a", ".", "sol">>),
     At(<<"ios">>, Rs("a")), At(<<"ios">>, <<"a", "_", "test", ".", "rs">>),
     At(<<"build">>, Rs("a")), At(<<>>, <<"deps">>),
     At(<<"src">>, <<"a", ".", "gen", ".", "ts">>), Scan}
Built == {At(<<"build">>, Rs("a"))}
Scanned == {Scan}

-----------------------------------------------------------------------------
(* Chunker: short texts of every kind, and longer ones of words; with and    *)
(* without an overlap.                                                       *)

Sizes(size, min, overlap) == [size |-> size, min |-> min, overlap |-> overlap]
C == INSTANCE Chunker WITH
  Texts <- [1..4 -> {"x", ".", " ", "n"}] \cup [1..7 -> {"x", " "}],
  Configs <- {Sizes(4, 3, 2), Sizes(2, 1, 0), Sizes(3, 2, 1), Sizes(3, 2, 2)},
  First <- 3

CutInit ==
    /\ part = "cut" /\ C!Init /\ NoWalk /\ NoIndex /\ NoRank /\ NoPdf
    /\ at = None /\ symbols = None /\ runs = None
CutStep ==
    /\ part = "cut" /\ C!Next
    /\ UNCHANGED <<part, at, symbols, runs, walk, index, rank, batch, heap, pdf>>

-----------------------------------------------------------------------------
(* Pdf: a page with a matrix of four cells, signs and page breaks in them,   *)
(* and something before or after it; a page of any few operators; several    *)
(* pages, some without text, some that cannot be read.                       *)

O(name, args) == [op |-> name, args |-> args, text |-> <<>>]
S(name, string) == [op |-> name, args |-> <<>>, text |-> string]
Tf(font, size) == [op |-> "Tf", args |-> <<size>>, text |-> <<font>>]
Run(x, y, s) == <<O("Tm", <<x, y>>), S("Tj", s)>>
Start(font, size) == <<O("BT", <<>>), Tf(font, size)>>
Left == Run(0, 100, <<"0">>) \o Run(0, 110, <<"@">>)
Right(x) == Run(x, 100, <<"1">>) \o Run(x, 110, <<"A">>)

Digits == {<<"1">>, <<"2">>, <<"NUL">>, <<"1", "FF">>, <<" ">>}
Matrices ==
    {Start("math", 10) \o before \o Left \o Run(10, 100, a) \o Run(14, 100, b)
       \o Run(10, y, c) \o Run(20, y, d) \o Right(30) \o after :
         before \in {<<>>, Run(0, 90, <<"a">>)}, after \in {<<>>, Run(40, 100, <<"b">>)},
         a \in Digits, b \in Digits, c \in Digits, d \in Digits, y \in {102, 110}}

Operators ==
    {O("Td", <<10, 0>>), O("TD", <<0, -10>>), O("TL", <<10>>), O("T*", <<>>),
     S("Tj", <<"a">>), S("Tj", <<"1", "FF">>), S("Tj", <<>>), S("'", <<"b">>),
     Tf("poor", 20), Tf("math", 6), O("Tm", <<0, 20>>), O("Tm", <<1>>),
     O("ET", <<>>), O("q", <<>>)}
Prose == {Start("none", 10) \o s : s \in UNION {[1..k -> Operators] : k \in 0..3}}

WithHeading == Start("none", 10) \o <<S("Tj", <<"b">>), Tf("none", 20),
                                      O("T*", <<>>), S("Tj", <<"a", "a">>)>>
Full == Start("none", 10) \o <<S("Tj", <<"b", "b", "b">>)>>
Feed == Start("math", 10) \o Left \o Run(10, 100, <<"1", "FF">>) \o Right(30)
Books == UNION {[1..k -> {WithHeading, Full, Feed, <<O("bad", <<>>)>>, <<>>}] : k \in 1..4}

P == INSTANCE Pdf WITH
  Docs <- {<<page>> : page \in Matrices} \cup {<<page>> : page \in Prose} \cup Books, Budget <- 6, HeadingMax <- 3

PdfInit ==
    /\ part = "pdf" /\ P!Init /\ NoWalk /\ NoIndex /\ NoRank /\ NoCut
    /\ text = None /\ symbols = None /\ tree = None
PdfStep ==
    /\ part = "pdf" /\ P!Next
    /\ UNCHANGED <<part, symbols, tree, text, walk, index, rank, batch, heap, cut>>

-----------------------------------------------------------------------------

ASSUME MCBounds == C!ChunkerAssumption /\ P!PdfAssumption

MCInit == (Init /\ NoCut /\ NoPdf) \/ CutInit \/ PdfInit
MCNext == (Next /\ UNCHANGED <<cut, pdf>>) \/ CutStep \/ PdfStep

MCSpec == MCInit /\ [][MCNext]_<<vars, cut, pdf>>

\* The behaviours of the PDF alone.
PdfSpec == PdfInit /\ [][PdfStep]_<<vars, cut, pdf>>

\* Chunker: every letter of a body is in a chunk.
LettersKept == part = "cut" => C!LettersKept

\* Chunker: chunks advance, overlap as configured and fit the budget; the costs do
\* not wrap.
ChunksAdvance == part = "cut" => C!ChunksAdvance /\ C!ChunksFit /\ C!NoUnderflow

\* Pdf: no glyph of a page is lost, and chunks are labelled with the segments they hold.
PagesKept == part = "pdf" => P!GlyphsKept /\ P!PagesNumbered

\* Pdf: the page of a chunk is a page of the file.
PageNumbersAreReal == part = "pdf" => P!PageNumbersAreReal

=============================================================================
