-------------------------------- MODULE Text --------------------------------
(* The text pipeline, side by side: a behaviour is the walk of one tree, the *)
(* building of one symbol index, a few index runs and a search, the vector   *)
(* leg of a search, the cutting of one file's symbols, or the coming and     *)
(* going of files.  The variables of the other parts are None.               *)
EXTENDS Integers, Sequences, FiniteSets

CONSTANTS None, Size, IdStart,
          Layout, FileIds, Names, Type, Lookups, MaxSymbols, MaxDepth,
          Files, FileTypeOf(_), TextsOf(_), Limits, Overfetch, AppendixCap,
          FlatMax, HnswMax, TurboMax, Gpu, MemoryFits, MaxRuns, MaxEdits,
          ChunkIds, Codes, Null, MaxRows, BatchSize, RawKs, Width, Projections, Rotated, Projected,
          Bodies, OwnPath, Indexes, MaxOwned,
          Project, HiddenDirs, GitIgnored, Unreadable, MaxChanges

VARIABLES part, at, symbols, tree, chunks, runs, pc,
          above, entered, scope, kinds, qual, fnDepth, containerDepth,
          next, files, edges, resolved,
          text, content, indexed, rows, method, counted, edits, req, fused, hits, appendix,
          batch, heap

walk == <<above, entered, scope, kinds, qual, fnDepth, containerDepth>>
index == <<next, files, edges, resolved>>
rank == <<content, indexed, rows, method, counted, edits, req, fused, hits, appendix>>
vars == <<part, at, symbols, tree, chunks, runs, pc, text, walk, index, rank, batch, heap>>

NoWalk == /\ above = None /\ entered = None /\ scope = None /\ kinds = None /\ qual = None
          /\ fnDepth = None /\ containerDepth = None
NoIndex == next = None /\ files = None /\ edges = None /\ resolved = None
NoTurbo == batch = None /\ heap = None
NoRank == /\ content = None /\ indexed = None /\ rows = None /\ method = None
          /\ counted = None /\ edits = None /\ req = None /\ fused = None /\ hits = None
          /\ appendix = None /\ NoTurbo

-----------------------------------------------------------------------------
(* Walker: one tree is walked.                                               *)

W == INSTANCE Walker

WalkerInit ==
    /\ part = "walker" /\ W!Init /\ NoIndex /\ text = None /\ NoRank
    /\ chunks = None /\ runs = None /\ pc = None
WalkerStep ==
    /\ part = "walker" /\ W!Next
    /\ UNCHANGED <<part, chunks, runs, pc, index, text, rank, batch, heap>>

-----------------------------------------------------------------------------
(* DslIndex: files are parsed and their calls resolved.                      *)

D == INSTANCE DslIndex

IndexInit ==
    /\ part = "index" /\ D!Init /\ NoWalk /\ text = None /\ NoRank
    /\ at = None /\ tree = None /\ chunks = None /\ runs = None /\ pc = None
IndexStep ==
    /\ part = "index" /\ D!Next
    /\ UNCHANGED <<part, at, tree, chunks, runs, pc, walk, text, rank, batch, heap>>

-----------------------------------------------------------------------------
(* Ranking: files change and are indexed, then one search is ranked.         *)

R == INSTANCE Ranking WITH Type <- FileTypeOf, Texts <- TextsOf

RankInit ==
    /\ part = "rank" /\ R!Init /\ NoWalk /\ NoIndex /\ text = None /\ NoTurbo
    /\ at = None /\ symbols = None /\ tree = None /\ chunks = None
RankStep ==
    /\ part = "rank" /\ R!Next
    /\ UNCHANGED <<part, at, symbols, tree, chunks, walk, index, text, batch, heap>>

-----------------------------------------------------------------------------
(* TurboLeg: rows with codes are streamed, scored and fetched.               *)

T == INSTANCE TurboLeg

TurboInit ==
    /\ part = "turbo" /\ T!Init /\ NoWalk /\ text = None
    /\ files = None /\ edges = None /\ resolved = None
    /\ at = None /\ symbols = None /\ tree = None /\ chunks = None /\ runs = None
    /\ content = None /\ indexed = None /\ method = None /\ counted = None /\ edits = None
    /\ fused = None /\ appendix = None
TurboStep ==
    /\ part = "turbo" /\ T!Next
    /\ UNCHANGED <<part, at, symbols, tree, chunks, runs, walk, files, edges, resolved, text,
                   content, indexed, method, counted, edits, fused, appendix>>

-----------------------------------------------------------------------------
(* FileChunks: one file is cut by its symbols.                               *)

F == INSTANCE FileChunks WITH
  Sources <- Bodies, Path <- OwnPath, MaxSymbols <- MaxOwned,
  source <- text, paths <- files, owned <- symbols, cut <- chunks, left <- next

SymbolsInit ==
    /\ part = "symbols" /\ F!Init /\ NoWalk /\ NoRank
    /\ edges = None /\ resolved = None /\ at = None /\ tree = None
    /\ runs = None /\ pc = None
SymbolsStep ==
    /\ part = "symbols" /\ F!Next
    /\ UNCHANGED <<part, at, tree, runs, pc, walk, edges, resolved, rank, batch, heap>>

-----------------------------------------------------------------------------
(* Sources: the files of a project come and go.                              *)

G == INSTANCE Sources WITH
  Paths <- Project, MaxEdits <- MaxChanges,
  disk <- content, stored <- rows, watched <- indexed, edited <- hits, scheduled <- method

FilesInit ==
    /\ part = "files" /\ G!Init /\ NoWalk /\ NoIndex /\ text = None /\ NoTurbo
    /\ at = None /\ tree = None /\ chunks = None /\ runs = None /\ pc = None
    /\ counted = None /\ req = None /\ fused = None /\ appendix = None
FilesStep ==
    /\ part = "files" /\ G!Next
    /\ UNCHANGED <<part, at, tree, chunks, runs, pc, walk, index, text, counted, req, fused,
                   appendix, batch, heap>>

-----------------------------------------------------------------------------

ASSUME Bounds ==
    /\ W!WalkerAssumption /\ D!IndexAssumption /\ R!RankingAssumption
    /\ T!TurboAssumption /\ F!FileChunksAssumption /\ G!SourcesAssumption

Init == WalkerInit \/ IndexInit \/ RankInit \/ TurboInit \/ SymbolsInit \/ FilesInit
Next == WalkerStep \/ IndexStep \/ RankStep \/ TurboStep \/ SymbolsStep \/ FilesStep

Spec == Init /\ [][Next]_vars

\* The behaviours of the ranking alone.
RankSpec == RankInit /\ [][RankStep]_vars

\* Walker: the open scopes are the emitted symbols around the node.
ScopesFollowTree == part = "walker" => W!ScopesFollowTree

\* Walker: a call belongs to one symbol at most.
CallsCountedOnce == part = "walker" => W!CallsCountedOnce

\* DslIndex: a name that one symbol bears leads to it, from a call and from a lookup.
PlainNamesResolve == part = "index" => D!PlainNamesResolve /\ D!NamesFound

\* DslIndex: every symbol is rendered once, under its own file while the file indexes
\* tell the files apart, and the trees of calls show all that calls lead to.
EverySymbolRendered == part = "index" => D!EverySymbolRendered /\ D!TreesComplete

\* Sources, FileChunks: no edit of an indexed file is missed, what search calls source has
\* symbols, and the body of a symbol is the lines it says and no other symbol's.
FilesRead ==
    /\ part = "files" => G!EditsSeen /\ G!SourcesHaveSymbols
    /\ part = "symbols" => F!ChunksOfSymbols

\* Ranking, TurboLeg: a page is full while something is left for it, and the leg of
\* the turbo codes has the best rows.
PageFull == (part = "rank" => R!PageFull) /\ (part = "turbo" => T!BestRows)

\* Ranking: a page with room has every symbol that was found.
SymbolsShown == part = "rank" => R!SymbolsShown

=============================================================================
