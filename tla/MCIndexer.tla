----------------------------- MODULE MCIndexer -----------------------------
(* Instances of Indexer for TLC. *)
EXTENDS Indexer, TLC

\* an empty file, a file of one chunk, and one that shares this chunk and adds one
MCContents == {<<>>, <<"b1">>, <<"b1", "b2">>}

\* two versions that differ in one of their chunks
MCTwoVersions == {<<"b1">>, <<"b2", "b1">>}

MCSymmetry == Permutations(Files)
=============================================================================
