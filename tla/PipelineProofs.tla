--------------------------- MODULE PipelineProofs ---------------------------
(***************************************************************************)
(* What the proofs of Indexer, Embedding and IndexStream show of the three *)
(* side by side, for any project, any numbers of batches, queries, chunks  *)
(* and requests, and any bounds: a behaviour of the pipeline is one of     *)
(* each component, two of which rest.                                      *)
(***************************************************************************)
EXTENDS MCPipeline, TLAPS

\* Each component takes its own steps or none.
LEMMA Components == FairSpec => I!Spec /\ E!Spec /\ S!Spec
<1>1. Init => I!Init /\ E!Init /\ S!Init
  BY DEF Init
<1>2. [Next]_vars => [I!Next]_(I!vars)
  BY DEF Next, vars, indexer, I!vars, I!store, I!locals, I!environment
<1>3. [Next]_vars => [E!Next]_(E!vars)
  BY DEF Next, vars, embedding, E!vars, E!worker, E!remote, E!loop
<1>4. [Next]_vars => [S!Next]_(S!vars)
  BY DEF Next, vars, stream, S!vars, S!task, S!user
<1> QED BY <1>1, <1>2, <1>3, <1>4, PTL DEF FairSpec, I!Spec, E!Spec, S!Spec

\* The loop takes the rows of the batch it asked for, whatever fails in between, and in
\* their places but for an answer of the provider with rows too many; a client gets every
\* report of its run, in order, and one answer after them, and the bar and the rows it
\* draws fit them (index_project in indexer.rs, embed_texts and the threads of engine.rs,
\* handle_streaming, the callback in cli.rs).
THEOREM PipelineInOrder == FairSpec => []InOrder
<1>1. E!Assumptions
  BY Bounds DEF E!Assumptions
<1>2. E!Spec => []E!TypeOK
  BY <1>1, E!TypeCorrect
<1>3. E!Spec => []E!RowsAligned
  BY <1>1, E!RowsInPlace
<1>4. S!Spec => []S!TypeOK
  BY Bounds, S!TypeCorrect
<1>5. S!Spec => []S!OneTerminalFrame
  BY Bounds, S!StreamEndsOnce
<1>6. S!Spec => []S!BarFits
  BY Bounds, S!BarFollowsRun
<1> QED BY <1>2, <1>3, <1>4, <1>5, <1>6, Components, PTL DEF InOrder

\* The two threads of the engine implement the service a caller sees: submissions are
\* answered in the order they were made, each at most once (engine.rs, EmbedService).
THEOREM PipelineServes == FairSpec => ServesInOrder
<1>1. E!Spec => E!ServesInOrder
  BY Bounds, E!EngineServes DEF E!Assumptions
<1> QED BY <1>1, Components, PTL DEF ServesInOrder

\* Where dropping "files" does not fail, every run keeps the catalog's promise: what
\* "files" lists, "chunks" has (index_project, Catalog).
THEOREM PipelineKeepsCatalog ==
    ASSUME "dropFiles" \notin Faults
    PROVE  FairSpec => KeepsCatalog
<1>1. I!Spec => I!KeepsCatalog
  BY Bounds, I!ImplementsCatalog
<1> QED BY <1>1, Components, PTL DEF KeepsCatalog

=============================================================================
