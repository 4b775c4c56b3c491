--------------------------- MODULE IndexerProofs ---------------------------
(***************************************************************************)
(* Theorems about Indexer for every set of files, contents and dimensions, *)
(* every batch and flush size and every bound: its type invariant, the     *)
(* checkpoint RecordedMeansStored, that a run accounts for every file and  *)
(* publishes its snapshot, and that the tables implement Catalog.          *)
(***************************************************************************)
EXTENDS Indexer, FiniteSetTheorems, SequenceTheorems, TLAPS

-----------------------------------------------------------------------------
(* The embed order *)

\* The chunks of finitely many files are finitely many.
LEMMA PendingFinite ==
    ASSUME snap \in [Files -> Contents \cup {Absent}],
           NEW wanted \in SUBSET Files, \A f \in wanted : snap[f] # Absent
    PROVE  /\ IsFiniteSet(Pending(wanted))
           /\ Cardinality(Pending(wanted)) \in Nat
<1> DEFINE Parts(f) == {f} \X DOMAIN snap[f]
           All == {Parts(f) : f \in wanted}
           cut == [f \in wanted |-> Parts(f)]
<1>1. IsFiniteSet(wanted)
  BY FS_Subset, IndexerAssumption
<1>2. cut \in Surjection(wanted, All)
  BY DEF Surjection
<1>3. IsFiniteSet(All)
  BY <1>1, <1>2, FS_Surjection
<1>4. \A T \in All : IsFiniteSet(T)
  <2>1. SUFFICES ASSUME NEW f \in wanted
                 PROVE  IsFiniteSet(Parts(f))
    OBVIOUS
  <2>2. snap[f] \in Seq(Bodies)
    BY IndexerAssumption
  <2>3. DOMAIN snap[f] = 1..Len(snap[f]) /\ Len(snap[f]) \in Nat
    BY <2>2
  <2>4. IsFiniteSet(DOMAIN snap[f])
    BY <2>3, FS_Interval
  <2>5. IsFiniteSet({f})
    BY FS_Singleton
  <2> QED
    BY <2>4, <2>5, FS_Product
<1>5. IsFiniteSet(UNION All)
  BY <1>3, <1>4, FS_UNION
<1>6. Pending(wanted) = UNION All
  BY DEF Pending
<1> QED
  BY <1>5, <1>6, FS_CardinalityType

\* Every order the embed loop may take is a sequence of the chunks to index,
\* and none of them is left out.
LEMMA EmbedOrderCovers ==
    ASSUME snap \in [Files -> Contents \cup {Absent}],
           NEW wanted \in SUBSET Files, \A f \in wanted : snap[f] # Absent,
           NEW q \in EmbedOrders(wanted)
    PROVE  /\ q \in Seq(Files \X (Nat \ {0}))
           /\ \A k \in 1..Len(q) : /\ q[k][1] \in wanted
                                   /\ q[k][2] \in DOMAIN snap[q[k][1]]
           /\ \A f \in wanted : \A i \in DOMAIN snap[f] :
                 \E k \in 1..Len(q) : q[k] = <<f, i>>
<1> DEFINE P == Pending(wanted)
           n == Cardinality(P)
<1>1. n \in Nat
  BY PendingFinite
<1>2. q \in [1..n -> P] /\ \A p \in P : \E k \in 1..n : q[k] = p
  BY DEF EmbedOrders
<1>3. \A f \in wanted : snap[f] \in Seq(Bodies)
  BY IndexerAssumption
<1>4. \A p \in P : /\ p \in Files \X (Nat \ {0})
                   /\ p[1] \in wanted
                   /\ p[2] \in DOMAIN snap[p[1]]
  <2>1. SUFFICES ASSUME NEW f \in wanted, NEW p \in {f} \X DOMAIN snap[f]
                 PROVE  /\ p \in Files \X (Nat \ {0})
                        /\ p[1] \in wanted
                        /\ p[2] \in DOMAIN snap[p[1]]
    BY DEF Pending
  <2>2. DOMAIN snap[f] = 1..Len(snap[f]) /\ Len(snap[f]) \in Nat
    BY <1>3
  <2>3. p[1] = f /\ p[2] \in DOMAIN snap[f] /\ p = <<p[1], p[2]>>
    OBVIOUS
  <2>4. p[2] \in Nat \ {0}
    BY <2>2, <2>3
  <2> QED
    BY <2>3, <2>4
<1>5. q \in [1..n -> Files \X (Nat \ {0})]
  BY <1>2, <1>4
<1>6. q \in Seq(Files \X (Nat \ {0})) /\ Len(q) = n
  BY <1>1, <1>5
<1>7. \A f \in wanted : \A i \in DOMAIN snap[f] : <<f, i>> \in P
  BY DEF Pending
<1> QED
  BY <1>2, <1>4, <1>6, <1>7

-----------------------------------------------------------------------------
(* The inductive invariant *)

\* The steps that follow the deletion of the old rows.
Building == {"chunk", "embed", "append", "checkpoint", "finish"}
Embedding == {"embed", "append", "checkpoint", "finish"}

\* A run knows its dimension, and its cursors stand at 0 before the embed loop.
PhaseOK ==
    /\ pc # "idle" => dim \in Dims
    /\ pc \notin Embedding => cursor = 0 /\ flushed = 0 /\ counted = 0

\* The needed files are files of the snapshot from the plan on.
NeedOK ==
    pc \in {"deleteChunks", "deleteFiles"} \cup Building =>
        \A f \in need : snap[f] # Absent

\* The queue enumerates the chunks of the needed files.
QueueOK ==
    pc \in Embedding =>
        /\ \A k \in 1..Len(queue) : /\ queue[k][1] \in need
                                    /\ queue[k][2] \in DOMAIN snap[queue[k][1]]
        /\ \A f \in need : \A i \in DOMAIN snap[f] :
              \E k \in 1..Len(queue) : queue[k] = <<f, i>>

\* `remaining` counts the chunks behind the last checkpoint.
CountsOK ==
    pc \in Embedding =>
        /\ pc # "checkpoint" => counted = flushed
        /\ \A f \in Files :
              remaining[f] = Cardinality(Positions(f, counted + 1, Len(queue)))

\* What was flushed is in the table.
FlushedOK ==
    pc \in Embedding => \A k \in 1..flushed : chunks[QueueRow(k)] > 0

AllStored == \A f \in Files : files[f] # Absent => IsStored(f, files[f])

\* Where a recorded file may lack its chunks: nowhere, unless "files" could not
\* be dropped; then the chunks table is empty, the listing is the table, and
\* the run deletes every row it listed before it indexes anything.
StoredOK ==
    /\ "dropFiles" \notin Faults =>
          AllStored /\ (pc = "dropChunks" => files = NoFiles)
    /\ pc \in Building => AllStored
    /\ AllStored \/ chunks = NoChunks
    /\ "list" \notin Faults /\ pc \in {"open", "dropFiles", "dropChunks", "plan"} =>
          prev = files \/ files = NoFiles
    /\ pc = "deleteChunks" =>
          AllStored \/ \A f \in Files : files[f] # Absent => f \in dropped
    /\ pc = "deleteFiles" =>
          AllStored \/ \A f \in Files : files[f] # Absent => f \in doomed

\* What a run knows of itself, whatever fails around it.
LoopOK == PhaseOK /\ NeedOK /\ QueueOK /\ CountsOK /\ FlushedOK
RunInv == TypeOK /\ LoopOK

\* With it, what the tables hold.
IInv == RunInv /\ StoredOK

\* At most one of the two ignored failures may happen: together they would let
\* a row survive that the run neither lists nor finds the chunks of.
OneFault == ~({"list", "dropFiles"} \subseteq Faults)

-----------------------------------------------------------------------------
(* Counting *)

\* A stretch of the queue holds a natural number of chunks of a file, none only
\* if no position of it is the file's.
LEMMA PositionsCount ==
    ASSUME NEW f, NEW a \in Int, NEW b \in Int
    PROVE  /\ IsFiniteSet(Positions(f, a, b))
           /\ Cardinality(Positions(f, a, b)) \in Nat
           /\ Cardinality(Positions(f, a, b)) = 0 =>
                 \A k \in a..b : queue[k][1] # f
<1>1. IsFiniteSet(a..b)
  BY FS_Interval
<1>2. Positions(f, a, b) \in SUBSET (a..b)
  BY DEF Positions
<1>3. IsFiniteSet(Positions(f, a, b))
  BY <1>1, <1>2, FS_Subset
<1>4. Cardinality(Positions(f, a, b)) = 0 => Positions(f, a, b) = {}
  BY <1>3, FS_EmptySet
<1>5. Positions(f, a, b) = {} => \A k \in a..b : queue[k][1] # f
  BY DEF Positions
<1> QED
  BY <1>3, <1>4, <1>5, FS_CardinalityType

\* Two adjacent stretches count together what they count apart.
LEMMA PositionsSplit ==
    ASSUME NEW f, NEW a \in Nat, NEW b \in Nat, NEW c \in Nat, a <= b, b <= c
    PROVE  Cardinality(Positions(f, a + 1, c)) =
              Cardinality(Positions(f, a + 1, b)) + Cardinality(Positions(f, b + 1, c))
<1> DEFINE L == Positions(f, a + 1, b)
           R == Positions(f, b + 1, c)
<1>1. IsFiniteSet(L) /\ IsFiniteSet(R)
  BY PositionsCount
<1>2. L \cap R = {}
  BY DEF Positions
<1>3. L \cup R = Positions(f, a + 1, c)
  BY DEF Positions
<1>4. Cardinality(L \cup R) = Cardinality(L) + Cardinality(R) - Cardinality(L \cap R)
  BY <1>1, FS_Union
<1>5. Cardinality(L \cap R) = 0
  BY <1>2, FS_EmptySet
<1>6. Cardinality(L) \in Nat /\ Cardinality(R) \in Nat
  BY PositionsCount
<1> HIDE DEF L, R
<1>7. Cardinality(L \cup R) = Cardinality(L) + Cardinality(R)
  BY <1>4, <1>5, <1>6
<1> USE DEF L, R
<1> QED
  BY <1>3, <1>7

\* An append keeps every row and adds a copy of each row it is given.
LEMMA AppendedRows ==
    ASSUME chunks \in [ChunkRow -> 0..MaxCopies],
           NEW first \in Nat, NEW last \in Nat
    PROVE  /\ Appended(chunks, first, last) \in [ChunkRow -> 0..MaxCopies]
           /\ \A r \in ChunkRow : chunks[r] > 0 => Appended(chunks, first, last)[r] > 0
           /\ \A k \in first..last : QueueRow(k) \in ChunkRow =>
                 Appended(chunks, first, last)[QueueRow(k)] > 0
<1> DEFINE hits(r) == {k \in first..last : QueueRow(k) = r}
<1>1. \A r \in ChunkRow : Cardinality(hits(r)) \in Nat
  <2>1. IsFiniteSet(first..last)
    BY FS_Interval
  <2>2. \A r \in ChunkRow : hits(r) \in SUBSET (first..last)
    OBVIOUS
  <2>3. \A r \in ChunkRow : IsFiniteSet(hits(r))
    BY <2>1, <2>2, FS_Subset
  <2> HIDE DEF hits
  <2> QED
    BY <2>3, FS_CardinalityType
<1>2. \A k \in first..last : QueueRow(k) \in ChunkRow =>
         Cardinality(hits(QueueRow(k))) # 0
  <2>1. SUFFICES ASSUME NEW k \in first..last, QueueRow(k) \in ChunkRow,
                        Cardinality(hits(QueueRow(k))) = 0
                 PROVE  FALSE
    OBVIOUS
  <2>2. hits(QueueRow(k)) \in SUBSET (first..last) /\ k \in hits(QueueRow(k))
    OBVIOUS
  <2>3. IsFiniteSet(first..last)
    BY FS_Interval
  <2>4. IsFiniteSet(hits(QueueRow(k)))
    BY <2>2, <2>3, FS_Subset
  <2> HIDE DEF hits
  <2> QED
    BY <2>1, <2>2, <2>4, FS_EmptySet
<1>3. \A r \in ChunkRow : chunks[r] \in Nat /\ chunks[r] <= MaxCopies
  BY IndexerAssumption
<1>4. MaxCopies \in Nat /\ MaxCopies > 0
  BY IndexerAssumption
<1>5. Appended(chunks, first, last) =
        [r \in ChunkRow |-> IF chunks[r] + Cardinality(hits(r)) > MaxCopies
                            THEN MaxCopies ELSE chunks[r] + Cardinality(hits(r))]
  BY DEF Appended
<1> HIDE DEF hits
<1> QED
  BY <1>1, <1>2, <1>3, <1>4, <1>5

\* What the delete predicates match: relative paths, and no stored row has one.
LEMMA DeletedRowsKept ==
    ASSUME chunks \in [ChunkRow -> 0..MaxCopies], NEW batch \in SUBSET Files
    PROVE  /\ DeletedRows(chunks, {Rel(f) : f \in batch}) \in [ChunkRow -> 0..MaxCopies]
           /\ \A f \in Files, b \in Bodies :
                 DeletedRows(chunks, {Rel(g) : g \in batch})[RowOf(f, b)]
                    = chunks[RowOf(f, b)]
<1>1. 0 \in 0..MaxCopies
  BY IndexerAssumption
<1>2. \A f, g \in Files : FullPath(f) # Rel(g)
  BY DEF FullPath, Rel
<1>3. \A f \in Files, b \in Bodies : RowOf(f, b) \in ChunkRow /\ RowOf(f, b).path = FullPath(f)
  BY DEF RowOf, ChunkRow
<1> QED
  BY <1>1, <1>2, <1>3 DEF DeletedRows

\* The rows of a content of the model are rows of the table.
LEMMA RowTyped ==
    ASSUME NEW f \in Files, NEW content \in Contents, NEW i \in DOMAIN content
    PROVE  content[i] \in Bodies /\ RowOf(f, content[i]) \in ChunkRow
<1>1. content \in Seq(Bodies)
  BY IndexerAssumption
<1>2. content[i] \in Bodies
  BY <1>1
<1> QED
  BY <1>2 DEF RowOf, ChunkRow

-----------------------------------------------------------------------------
(* Initial states *)

LEMMA InitInv == Init => IInv
<1> SUFFICES ASSUME Init PROVE IInv
  OBVIOUS
<1>1. TypeOK
  <2>1. 0 \in 0..MaxCopies /\ 0 \in 0..MaxChanges /\ 0 \in 0..MaxInterrupts
          /\ 0 \in 0..MaxCancels
    BY IndexerAssumption
  <2>2. <<>> \in Seq(Files \X (Nat \ {0})) /\ Len(<<>>) = 0
    OBVIOUS
  <2>3. NoChunks \in [ChunkRow -> 0..MaxCopies]
    BY <2>1 DEF NoChunks
  <2>4. NoFiles \in [Files -> Contents \cup {Absent}]
    BY DEF NoFiles
  <2>5. /\ queue \in Seq(Files \X (Nat \ {0}))
        /\ counted \in 0..flushed /\ flushed \in 0..cursor /\ cursor \in 0..Len(queue)
    BY <2>2 DEF Init, NoRun
  <2> QED
    BY <2>1, <2>3, <2>4, <2>5 DEF Init, NoRun, TypeOK, Steps
<1>2. PhaseOK /\ NeedOK /\ QueueOK /\ CountsOK /\ FlushedOK
  BY DEF Init, NoRun, PhaseOK, NeedOK, QueueOK, CountsOK, FlushedOK, Building, Embedding
<1>3. StoredOK
  BY DEF Init, NoRun, StoredOK, AllStored, Building, NoFiles
<1> QED
  BY <1>1, <1>2, <1>3 DEF IInv, RunInv, LoopOK

-----------------------------------------------------------------------------
(* Type correctness is preserved *)

LEMMA TypeStep == RunInv /\ [Next]_vars => TypeOK'
<1> SUFFICES ASSUME RunInv, [Next]_vars PROVE TypeOK'
  OBVIOUS
<1> USE DEF TypeOK, store, locals, environment
<1>a. TypeOK
  BY DEF RunInv
<1>n. 0 \in 0..0 /\ <<>> \in Seq(Files \X (Nat \ {0})) /\ Len(<<>>) = 0
  OBVIOUS
<1>1. CASE StartRun
  BY <1>1, <1>a DEF StartRun, Begin, Steps
<1>2. ASSUME NEW f \in Files, WalkFile(f) PROVE TypeOK'
  BY <1>2, <1>a DEF WalkFile, Steps
<1>3. CASE ListFiles
  BY <1>3, <1>a DEF ListFiles, Steps, NoFiles
<1>4. CASE OpenChunks
  BY <1>4, <1>a DEF OpenChunks, Steps
<1>5. CASE DropFiles
  BY <1>5, <1>a DEF DropFiles, Steps, NoFiles
<1>6. CASE DropChunks
  <2>1. NoChunks \in [ChunkRow -> 0..MaxCopies]
    BY IndexerAssumption DEF NoChunks
  <2> QED
    BY <1>6, <1>a, <2>1 DEF DropChunks, Steps
<1>7. CASE PlanRun
  <2>1. need' \subseteq Files /\ dropped' \subseteq Files
    BY <1>7 DEF PlanRun, Changed, Removed
  <2> QED
    BY <1>7, <1>a, <2>1 DEF PlanRun, Steps
<1>8. CASE DeleteChunks
  <2>1. PICK batch \in SUBSET doomed :
           chunks' = DeletedRows(chunks, {Rel(f) : f \in batch})
    BY <1>8 DEF DeleteChunks
  <2>2. chunks' \in [ChunkRow -> 0..MaxCopies]
    BY <1>a, <2>1, DeletedRowsKept
  <2> QED
    BY <1>8, <1>a, <2>2 DEF DeleteChunks, Steps
<1>9. CASE DeleteFiles
  BY <1>9, <1>a DEF DeleteFiles, Steps, DeletedFiles
<1>10. CASE ChunkFiles
  <2>1. \A f \in need : snap[f] # Absent
    BY <1>10 DEF ChunkFiles, RunInv, LoopOK, NeedOK, Building
  <2>2. queue' \in Seq(Files \X (Nat \ {0}))
    BY <1>10, <1>a, <2>1, EmbedOrderCovers DEF ChunkFiles
  <2>3. DOMAIN queue' = 1..Len(queue') /\ Len(queue') \in Nat
    BY <2>2
  <2>4. IsFiniteSet(DOMAIN queue')
    BY <2>3, FS_Interval
  <2>5. \A f \in Files : Cardinality({k \in DOMAIN queue' : queue'[k][1] = f}) \in Nat
    BY <2>4, FS_Subset, FS_CardinalityType
  <2>6. remaining' \in [Files -> Nat]
    BY <1>10, <2>5 DEF ChunkFiles
  <2>7. files' \in [Files -> Contents \cup {Absent}]
    BY <1>10, <1>a DEF ChunkFiles, Upserted
  <2>8. counted = 0 /\ flushed = 0 /\ cursor = 0
    BY <1>10 DEF ChunkFiles, RunInv, LoopOK, PhaseOK, Embedding
  <2>9. /\ pc' \in {"finish", "embed"}
        /\ UNCHANGED <<disk, chunks, chunksDim, project, dim, refresh, walked,
                       snap, prev, need, doomed, dropped, cursor, flushed,
                       counted, paused, cancel, environment>>
    BY <1>10 DEF ChunkFiles
  <2> QED
    BY <1>a, <2>2, <2>3, <2>6, <2>7, <2>8, <2>9 DEF Steps
<1>11. CASE Pause
  BY <1>11, <1>a DEF Pause, Steps
<1>12. CASE EmbedBatch
  <2>1. Len(queue) \in Nat /\ cursor \in Nat /\ BatchSize \in Nat
    BY <1>a, IndexerAssumption
  <2> QED
    BY <1>12, <1>a, <2>1, SMTT(60) DEF EmbedBatch, Steps
<1>13. CASE AppendBatches
  <2>1. flushed + 1 \in Nat /\ cursor \in Nat /\ Len(queue) \in Nat
    BY <1>a
  <2>2. chunks' \in [ChunkRow -> 0..MaxCopies]
    BY <1>13, <1>a, <2>1, AppendedRows DEF AppendBatches
  <2> QED
    BY <1>13, <1>a, <2>1, <2>2 DEF AppendBatches, Steps
<1>14. CASE CheckpointCompleted
  <2>1. counted \in Nat /\ flushed \in Nat /\ Len(queue) \in Nat
          /\ counted <= flushed /\ flushed <= Len(queue)
    BY <1>a
  <2>2. ASSUME NEW f \in Files
        PROVE  remaining[f] - Cardinality(Positions(f, counted + 1, flushed)) \in Nat
    <3>1. remaining[f] = Cardinality(Positions(f, counted + 1, Len(queue)))
      BY <1>14 DEF RunInv, LoopOK, CountsOK, Embedding, CheckpointCompleted
    <3>2. /\ Cardinality(Positions(f, counted + 1, flushed)) \in Nat
          /\ Cardinality(Positions(f, flushed + 1, Len(queue))) \in Nat
      BY <2>1, PositionsCount
    <3>3. remaining[f] = Cardinality(Positions(f, counted + 1, flushed))
                           + Cardinality(Positions(f, flushed + 1, Len(queue)))
      BY <2>1, <3>1, PositionsSplit
    <3> QED
      BY <3>2, <3>3
  <2>3. remaining' \in [Files -> Nat]
    BY <1>14, <2>2 DEF CheckpointCompleted
  <2>4. files' \in [Files -> Contents \cup {Absent}]
    BY <1>14, <1>a DEF CheckpointCompleted, Upserted
  <2>5. /\ counted' = flushed /\ pc' \in {"finish", "embed"}
        /\ UNCHANGED <<disk, chunks, chunksDim, project, dim, refresh, walked,
                       snap, prev, need, doomed, dropped, queue, cursor, flushed,
                       paused, cancel, environment>>
    BY <1>14 DEF CheckpointCompleted
  <2> QED
    BY <1>a, <2>1, <2>3, <2>4, <2>5 DEF Steps
<1>15. ASSUME Return, UNCHANGED <<disk, files, chunks, chunksDim, cancel>>,
              project' \in Project \cup {Absent},
              changes' \in 0..MaxChanges, interrupts' \in 0..MaxInterrupts,
              cancels' \in 0..MaxCancels
       PROVE  TypeOK'
  BY <1>15, <1>a, <1>n DEF Return, Steps, NoFiles
<1>16. CASE NothingToReindex
  BY <1>15, <1>16, <1>a DEF NothingToReindex
<1>17. CASE UpsertProject
  <2>1. dim \in Dims
    BY <1>17 DEF RunInv, LoopOK, PhaseOK, UpsertProject
  <2> QED
    BY <1>15, <1>17, <1>a, <2>1 DEF UpsertProject, Project
<1>18. CASE Interrupt
  <2>1. interrupts' \in 0..MaxInterrupts
    BY <1>18, <1>a, IndexerAssumption DEF Interrupt
  <2> QED
    BY <1>15, <1>18, <1>a, <2>1 DEF Interrupt
<1>19. ASSUME NEW f \in Files, NEW c \in Contents \cup {Absent}, Edit(f, c)
       PROVE  TypeOK'
  BY <1>19, <1>a, IndexerAssumption DEF Edit
<1>20. CASE Upgrade
  BY <1>20, <1>a, IndexerAssumption, SMTT(60) DEF Upgrade, Project
<1>21. CASE CancelIndex
  BY <1>21, <1>a, IndexerAssumption DEF CancelIndex
<1>22. CASE UNCHANGED vars
  BY <1>22, <1>a DEF vars
<1> QED
  BY <1>1, <1>2, <1>3, <1>4, <1>5, <1>6, <1>7, <1>8, <1>9, <1>10, <1>11, <1>12,
     <1>13, <1>14, <1>16, <1>17, <1>18, <1>19, <1>20, <1>21, <1>22
     DEF Next, RunStep

-----------------------------------------------------------------------------
(* The queue, the counts and the flushed rows *)

\* A step that leaves the run's locals and the chunk rows alone keeps them.
LEMMA RunInvStable ==
    ASSUME PhaseOK, NeedOK, QueueOK, CountsOK, FlushedOK,
           UNCHANGED <<pc, locals, chunks>>
    PROVE  PhaseOK' /\ NeedOK' /\ QueueOK' /\ CountsOK' /\ FlushedOK'
BY DEF PhaseOK, NeedOK, QueueOK, CountsOK, FlushedOK, locals, Positions,
       QueueRow, RowOf, FullPath

\* Outside the embed loop they say only that the cursors are at 0 and the
\* needed files are in the snapshot.
LEMMA RunInvBefore ==
    ASSUME pc' \notin Embedding,
           pc' # "idle" => dim' \in Dims,
           cursor' = 0, flushed' = 0, counted' = 0, NeedOK'
    PROVE  PhaseOK' /\ NeedOK' /\ QueueOK' /\ CountsOK' /\ FlushedOK'
BY DEF PhaseOK, QueueOK, CountsOK, FlushedOK

LEMMA LoopStep == RunInv /\ [Next]_vars => LoopOK'
<1> SUFFICES ASSUME RunInv, [Next]_vars PROVE LoopOK'
  OBVIOUS
<1> USE DEF LoopOK
<1>a. TypeOK /\ PhaseOK /\ NeedOK /\ QueueOK /\ CountsOK /\ FlushedOK
  BY DEF RunInv
<1>1. CASE StartRun
  BY <1>1, <1>a, RunInvBefore
     DEF StartRun, Begin, PhaseOK, NeedOK, Embedding, Building
<1>2. ASSUME NEW f \in Files, WalkFile(f) PROVE LoopOK'
  BY <1>2, <1>a, RunInvBefore DEF WalkFile, PhaseOK, NeedOK, Embedding, Building
<1>3. CASE ListFiles
  BY <1>3, <1>a, RunInvBefore DEF ListFiles, PhaseOK, NeedOK, Embedding, Building
<1>4. CASE OpenChunks
  BY <1>4, <1>a, RunInvBefore
     DEF OpenChunks, PhaseOK, NeedOK, Embedding, Building, locals
<1>5. CASE DropFiles
  BY <1>5, <1>a, RunInvBefore
     DEF DropFiles, PhaseOK, NeedOK, Embedding, Building, locals
<1>6. CASE DropChunks
  BY <1>6, <1>a, RunInvBefore
     DEF DropChunks, PhaseOK, NeedOK, Embedding, Building, locals
<1>7. CASE PlanRun
  <2>1. \A f \in need' : snap[f] # Absent
    BY <1>7 DEF PlanRun, Changed
  <2> QED
    BY <1>7, <1>a, <2>1, RunInvBefore
       DEF PlanRun, PhaseOK, NeedOK, Embedding, Building
<1>8. CASE DeleteChunks
  BY <1>8, <1>a, RunInvBefore
     DEF DeleteChunks, PhaseOK, NeedOK, Embedding, Building
<1>9. CASE DeleteFiles
  BY <1>9, <1>a, RunInvBefore
     DEF DeleteFiles, PhaseOK, NeedOK, Embedding, Building
<1>10. CASE ChunkFiles
  <2>1. \A f \in need : snap[f] # Absent
    BY <1>10, <1>a DEF ChunkFiles, NeedOK, Building
  <2>2. /\ queue' \in Seq(Files \X (Nat \ {0}))
        /\ \A k \in 1..Len(queue') : /\ queue'[k][1] \in need
                                     /\ queue'[k][2] \in DOMAIN snap[queue'[k][1]]
        /\ \A f \in need : \A i \in DOMAIN snap[f] :
              \E k \in 1..Len(queue') : queue'[k] = <<f, i>>
    BY <1>10, <1>a, <2>1, EmbedOrderCovers DEF ChunkFiles, TypeOK
  <2>3. cursor' = 0 /\ flushed' = 0 /\ counted' = 0 /\ dim' \in Dims
    BY <1>10, <1>a DEF ChunkFiles, PhaseOK, Embedding
  <2>4. PhaseOK' /\ NeedOK'
    BY <1>10, <2>1, <2>3 DEF ChunkFiles, PhaseOK, NeedOK
  <2>5. QueueOK'
    BY <1>10, <2>2 DEF ChunkFiles, QueueOK
  <2>6. CountsOK'
    <3>1. ASSUME NEW f \in Files
          PROVE  remaining'[f] =
                    Cardinality({k \in (counted' + 1)..Len(queue') : queue'[k][1] = f})
      <4>1. DOMAIN queue' = (counted' + 1)..Len(queue')
        BY <2>2, <2>3
      <4> QED
        BY <1>10, <4>1 DEF ChunkFiles
    <3> QED
      BY <2>3, <3>1 DEF CountsOK, Positions
  <2>7. FlushedOK'
    BY <2>3 DEF FlushedOK
  <2> QED
    BY <2>4, <2>5, <2>6, <2>7
<1>11. CASE Pause
  BY <1>11, <1>a
     DEF Pause, PhaseOK, NeedOK, QueueOK, CountsOK, FlushedOK, Embedding,
         Building, Positions, QueueRow, RowOf, FullPath, store
<1>12. CASE EmbedBatch
  BY <1>12, <1>a
     DEF EmbedBatch, PhaseOK, NeedOK, QueueOK, CountsOK, FlushedOK, Embedding,
         Building, Positions, QueueRow, RowOf, FullPath, store
<1>13. CASE AppendBatches
  <2>1. PhaseOK' /\ NeedOK' /\ QueueOK' /\ CountsOK'
    BY <1>13, <1>a
       DEF AppendBatches, PhaseOK, NeedOK, QueueOK, CountsOK, Embedding,
           Building, Positions
  <2>2. \A k \in 1..Len(queue) : QueueRow(k) \in ChunkRow
    <3>1. SUFFICES ASSUME NEW k \in 1..Len(queue) PROVE QueueRow(k) \in ChunkRow
      OBVIOUS
    <3>2. queue[k][1] \in need /\ queue[k][2] \in DOMAIN snap[queue[k][1]]
      BY <1>13, <1>a DEF QueueOK, AppendBatches, Embedding
    <3>3. queue[k][1] \in Files /\ snap[queue[k][1]] \in Contents
      BY <1>13, <1>a, <3>2 DEF TypeOK, NeedOK, AppendBatches, Building
    <3> QED
      BY <3>2, <3>3, RowTyped DEF QueueRow
  <2>3. cursor \in Nat /\ flushed \in Nat /\ flushed + 1 \in Nat
          /\ flushed <= cursor /\ cursor <= Len(queue) /\ Len(queue) \in Nat
    BY <1>a DEF TypeOK
  <2>4. /\ \A r \in ChunkRow : chunks[r] > 0 => chunks'[r] > 0
        /\ \A k \in (flushed + 1)..cursor :
              QueueRow(k) \in ChunkRow => chunks'[QueueRow(k)] > 0
    BY <1>13, <1>a, <2>3, AppendedRows DEF AppendBatches, TypeOK
  <2>5. \A k \in 1..flushed : chunks[QueueRow(k)] > 0
    BY <1>13, <1>a DEF FlushedOK, AppendBatches, Embedding
  <2>6. \A k \in 1..cursor : chunks'[QueueRow(k)] > 0
    BY <2>2, <2>3, <2>4, <2>5
  <2>7. FlushedOK'
    BY <1>13, <2>6 DEF FlushedOK, AppendBatches, QueueRow, RowOf, FullPath
  <2> QED
    BY <2>1, <2>7
<1>14. CASE CheckpointCompleted
  <2>1. counted \in Nat /\ flushed \in Nat /\ Len(queue) \in Nat
          /\ counted <= flushed /\ flushed <= Len(queue)
    BY <1>a DEF TypeOK
  <2>2. /\ counted' = flushed /\ pc' \in {"finish", "embed"}
        /\ remaining' = [f \in Files |->
              remaining[f] - Cardinality(Positions(f, counted + 1, flushed))]
        /\ UNCHANGED <<dim, snap, need, queue, cursor, flushed, chunks>>
    BY <1>14 DEF CheckpointCompleted
  <2>3. PhaseOK' /\ NeedOK' /\ QueueOK' /\ FlushedOK'
    BY <1>14, <1>a, <2>2
       DEF CheckpointCompleted, PhaseOK, NeedOK, QueueOK, FlushedOK, Embedding,
           Building, QueueRow, RowOf, FullPath
  <2>4. ASSUME NEW f \in Files
        PROVE  remaining'[f] = Cardinality(Positions(f, flushed + 1, Len(queue)))
    <3>1. remaining[f] = Cardinality(Positions(f, counted + 1, Len(queue)))
      BY <1>14, <1>a DEF CountsOK, Embedding, CheckpointCompleted
    <3>2. /\ Cardinality(Positions(f, counted + 1, flushed)) \in Nat
          /\ Cardinality(Positions(f, flushed + 1, Len(queue))) \in Nat
      BY <2>1, PositionsCount
    <3>3. remaining[f] = Cardinality(Positions(f, counted + 1, flushed))
                           + Cardinality(Positions(f, flushed + 1, Len(queue)))
      BY <2>1, <3>1, PositionsSplit
    <3> QED
      BY <2>2, <3>2, <3>3
  <2>5. CountsOK'
    BY <2>2, <2>4 DEF CountsOK, Positions
  <2> QED
    BY <2>3, <2>5
<1>15. ASSUME Return PROVE LoopOK'
  BY <1>15, RunInvBefore DEF Return, NeedOK, Embedding, Building
<1>16. CASE NothingToReindex
  BY <1>15, <1>16 DEF NothingToReindex
<1>17. CASE UpsertProject
  BY <1>15, <1>17 DEF UpsertProject
<1>18. CASE Interrupt
  BY <1>15, <1>18 DEF Interrupt
<1>19. ASSUME NEW f \in Files, NEW c \in Contents \cup {Absent}, Edit(f, c)
       PROVE  LoopOK'
  BY <1>19, <1>a, RunInvStable DEF Edit, store
<1>20. CASE Upgrade
  BY <1>20, <1>a, RunInvStable DEF Upgrade
<1>21. CASE CancelIndex
  BY <1>21, <1>a, RunInvStable DEF CancelIndex, store
<1>22. CASE UNCHANGED vars
  BY <1>22, <1>a, RunInvStable DEF vars, store
<1> QED
  BY <1>1, <1>2, <1>3, <1>4, <1>5, <1>6, <1>7, <1>8, <1>9, <1>10, <1>11, <1>12,
     <1>13, <1>14, <1>16, <1>17, <1>18, <1>19, <1>20, <1>21, <1>22
     DEF Next, RunStep

-----------------------------------------------------------------------------
(* Recorded files and their chunks *)

\* Rows that only gain copies, with "files" unchanged or shortened, keep every
\* recorded file stored.
LEMMA StoredMonotone ==
    ASSUME TypeOK, AllStored,
           \A f \in Files : files'[f] # Absent => files'[f] = files[f],
           \A r \in ChunkRow : chunks[r] > 0 => chunks'[r] > 0
    PROVE  AllStored'
<1>1. SUFFICES ASSUME NEW f \in Files, files'[f] # Absent,
                      NEW i \in DOMAIN files'[f]
               PROVE  chunks'[RowOf(f, files'[f][i])] > 0
  BY DEF AllStored, IsStored, RowOf, FullPath
<1>2. files'[f] = files[f] /\ files[f] \in Contents
  BY <1>1 DEF TypeOK
<1>3. RowOf(f, files[f][i]) \in ChunkRow
  BY <1>1, <1>2, RowTyped
<1> QED
  BY <1>1, <1>2, <1>3 DEF AllStored, IsStored

\* Recording files of the snapshot whose chunks are stored keeps it, too.
LEMMA StoredUpsert ==
    ASSUME TypeOK, AllStored, NEW done \in SUBSET Files,
           \A f \in done : snap[f] # Absent => IsStored(f, snap[f]),
           files' = Upserted(files, done), chunks' = chunks
    PROVE  AllStored'
BY DEF AllStored, IsStored, Upserted, RowOf, FullPath, TypeOK

\* A needed file that no position of the queue belongs to has no chunk.
LEMMA ZeroChunkFile ==
    ASSUME RunInv, ChunkFiles, NEW f \in need, remaining'[f] = 0
    PROVE  DOMAIN snap[f] = {}
<1>1. TypeOK /\ \A g \in need : snap[g] # Absent
  BY DEF ChunkFiles, RunInv, LoopOK, NeedOK, Building
<1>2. /\ queue' \in Seq(Files \X (Nat \ {0}))
      /\ \A i \in DOMAIN snap[f] : \E k \in 1..Len(queue') : queue'[k] = <<f, i>>
  BY <1>1, EmbedOrderCovers DEF ChunkFiles, TypeOK
<1>3. DOMAIN queue' = 1..Len(queue') /\ Len(queue') \in Nat
  BY <1>2
<1> DEFINE mine == {k \in DOMAIN queue' : queue'[k][1] = f}
<1>4. mine \in SUBSET (1..Len(queue'))
  BY <1>3
<1>5. IsFiniteSet(1..Len(queue'))
  BY <1>3, FS_Interval
<1>6. IsFiniteSet(mine)
  BY <1>4, <1>5, FS_Subset
<1>7. Cardinality(mine) = 0
  BY <1>1 DEF ChunkFiles, TypeOK
<1>8. mine = {}
  BY <1>6, <1>7, FS_EmptySet
<1>9. SUFFICES ASSUME NEW i \in DOMAIN snap[f] PROVE FALSE
  OBVIOUS
<1>10. PICK k \in 1..Len(queue') : queue'[k] = <<f, i>>
  BY <1>2
<1>11. k \in mine
  BY <1>3, <1>10
<1> QED
  BY <1>8, <1>11

\* The files a checkpoint counts are needed ones.
LEMMA CountedNeeded ==
    ASSUME RunInv, pc = "checkpoint", NEW f \in Files,
           Cardinality(Positions(f, counted + 1, flushed)) > 0
    PROVE  f \in need
<1>1. counted \in Nat /\ flushed \in Nat /\ Len(queue) \in Nat
        /\ counted <= flushed /\ flushed <= Len(queue)
  BY DEF RunInv, TypeOK
<1>2. Positions(f, counted + 1, flushed) # {}
  BY FS_EmptySet
<1>3. PICK k \in (counted + 1)..flushed : queue[k][1] = f
  BY <1>2 DEF Positions
<1>4. k \in 1..Len(queue)
  BY <1>1
<1> QED
  BY <1>3, <1>4 DEF RunInv, LoopOK, QueueOK, Embedding

\* A file whose count a checkpoint brings to zero has every chunk in the table.
LEMMA CountedStored ==
    ASSUME RunInv, CheckpointCompleted, NEW f \in Files,
           Cardinality(Positions(f, counted + 1, flushed)) > 0, remaining'[f] = 0
    PROVE  IsStored(f, snap[f])
<1>1. counted \in Nat /\ flushed \in Nat /\ Len(queue) \in Nat
        /\ counted <= flushed /\ flushed <= Len(queue)
  BY DEF RunInv, TypeOK
<1>2. /\ pc = "checkpoint"
      /\ remaining' = [g \in Files |->
            remaining[g] - Cardinality(Positions(g, counted + 1, flushed))]
  BY DEF CheckpointCompleted
<1>3. remaining[f] = Cardinality(Positions(f, counted + 1, Len(queue)))
  BY <1>2 DEF RunInv, LoopOK, CountsOK, Embedding
<1>4. /\ Cardinality(Positions(f, counted + 1, flushed)) \in Nat
      /\ Cardinality(Positions(f, flushed + 1, Len(queue))) \in Nat
  BY <1>1, PositionsCount
<1>5. remaining[f] = Cardinality(Positions(f, counted + 1, flushed))
                       + Cardinality(Positions(f, flushed + 1, Len(queue)))
  BY <1>1, <1>3, PositionsSplit
<1>6. Cardinality(Positions(f, flushed + 1, Len(queue))) = 0
  BY <1>2, <1>4, <1>5
<1>7. \A k \in (flushed + 1)..Len(queue) : queue[k][1] # f
  BY <1>1, <1>6, PositionsCount
<1>8. \A k \in 1..Len(queue) : queue[k][1] = f => chunks[QueueRow(k)] > 0
  BY <1>1, <1>2, <1>7 DEF RunInv, LoopOK, FlushedOK, Embedding
<1>9. f \in need
  BY <1>2, CountedNeeded
<1>10. \A i \in DOMAIN snap[f] : \E k \in 1..Len(queue) : queue[k] = <<f, i>>
  BY <1>2, <1>9 DEF RunInv, LoopOK, QueueOK, Embedding
<1>11. ASSUME NEW i \in DOMAIN snap[f] PROVE chunks[RowOf(f, snap[f][i])] > 0
  <2>1. PICK k \in 1..Len(queue) : queue[k] = <<f, i>>
    BY <1>10
  <2>2. queue[k][1] = f /\ queue[k][2] = i
    BY <2>1
  <2>3. chunks[QueueRow(k)] > 0
    BY <1>8, <2>1, <2>2
  <2> QED
    BY <2>2, <2>3 DEF QueueRow
<1> QED
  BY <1>11 DEF IsStored

LEMMA StoredStep == OneFault /\ IInv /\ [Next]_vars => StoredOK'
<1> SUFFICES ASSUME OneFault, IInv, [Next]_vars PROVE StoredOK'
  OBVIOUS
<1>a. RunInv /\ TypeOK /\ StoredOK
  BY DEF IInv, RunInv
<1>b. AllStored /\ UNCHANGED <<files, chunks>> => AllStored'
  BY DEF AllStored, IsStored, RowOf, FullPath
<1>1. CASE StartRun
  BY <1>1, <1>a, <1>b DEF StartRun, Begin, StoredOK, Building, store
<1>2. ASSUME NEW f \in Files, WalkFile(f) PROVE StoredOK'
  BY <1>2, <1>a, <1>b DEF WalkFile, StoredOK, Building, store
<1>3. CASE ListFiles
  BY <1>3, <1>a, <1>b DEF ListFiles, StoredOK, Building, store
<1>4. CASE OpenChunks
  BY <1>4, <1>a, <1>b DEF OpenChunks, StoredOK, Building, locals
<1>5. CASE DropFiles
  <2>1. CASE files' = NoFiles
    <3>1. AllStored'
      BY <2>1 DEF AllStored, NoFiles
    <3> QED
      BY <1>5, <1>a, <2>1, <3>1 DEF DropFiles, StoredOK, Building, locals
  <2>2. CASE "dropFiles" \in Faults /\ files' = files
    BY <1>5, <1>a, <1>b, <2>2 DEF DropFiles, StoredOK, Building, locals
  <2> QED
    BY <1>5, <2>1, <2>2 DEF DropFiles
<1>6. CASE DropChunks
  <2>1. files = NoFiles => AllStored'
    BY <1>6 DEF DropChunks, AllStored, NoFiles
  <2> QED
    BY <1>6, <1>a, <2>1 DEF DropChunks, StoredOK, Building, locals
<1>7. CASE PlanRun
  <2>1. /\ UNCHANGED <<files, chunks>>
        /\ pc' \in {"chunk", "deleteChunks"} /\ (dropped' = {} => pc' = "chunk")
        /\ (dropped' # {} => pc' = "deleteChunks")
    BY <1>7 DEF PlanRun, store
  <2>2. CASE AllStored
    BY <2>1, <2>2, <1>b DEF StoredOK, Building
  <2>3. CASE ~AllStored
    <3>1. chunks = NoChunks /\ "dropFiles" \in Faults /\ "list" \notin Faults
      BY <1>a, <2>3 DEF StoredOK, OneFault
    <3>2. files # NoFiles
      BY <2>3 DEF AllStored, NoFiles
    <3>3. prev = files
      BY <1>7, <1>a, <3>1, <3>2 DEF StoredOK, PlanRun
    <3>4. ForceRebuild
      BY <3>1, <3>2, <3>3 DEF ForceRebuild
    <3>5. dropped' = {f \in Files : files[f] # Absent}
      BY <1>7, <3>3, <3>4 DEF PlanRun
    <3>6. dropped' # {}
      BY <3>2, <3>5, <1>a DEF NoFiles, TypeOK
    <3>7. pc' = "deleteChunks"
      BY <2>1, <3>6
    <3> QED
      BY <2>1, <3>1, <3>5, <3>7 DEF StoredOK, Building
  <2> QED
    BY <2>2, <2>3
<1>8. CASE DeleteChunks
  <2>1. PICK batch \in SUBSET doomed :
           chunks' = DeletedRows(chunks, {Rel(f) : f \in batch})
    BY <1>8 DEF DeleteChunks
  <2>2. \A f \in Files, b \in Bodies : chunks'[RowOf(f, b)] = chunks[RowOf(f, b)]
    BY <1>a, <2>1, DeletedRowsKept DEF TypeOK
  <2>3. files' = files
    BY <1>8 DEF DeleteChunks
  <2>4. AllStored => AllStored'
    <3>1. SUFFICES ASSUME AllStored, NEW f \in Files, files[f] # Absent,
                          NEW i \in DOMAIN files[f]
                   PROVE  chunks'[RowOf(f, files[f][i])] > 0
      BY <2>3 DEF AllStored, IsStored, RowOf, FullPath
    <3>2. files[f][i] \in Bodies
      BY <1>a, <3>1, RowTyped DEF TypeOK
    <3> QED
      BY <2>2, <3>1, <3>2 DEF AllStored, IsStored
  <2>5. chunks = NoChunks => chunks' = NoChunks
    BY <2>1 DEF DeletedRows, NoChunks
  <2>6. AllStored \/ \A f \in Files : files[f] # Absent => f \in dropped
    BY <1>8, <1>a DEF StoredOK, DeleteChunks
  <2>7. \/ pc' = "deleteFiles" /\ doomed' = dropped
        \/ pc' = "deleteChunks"
    BY <1>8 DEF DeleteChunks
  <2>8. dropped' = dropped
    BY <1>8 DEF DeleteChunks
  <2> QED
    BY <1>a, <2>3, <2>4, <2>5, <2>6, <2>7, <2>8 DEF StoredOK, Building
<1>9. CASE DeleteFiles
  <2>1. PICK batch \in SUBSET doomed :
           /\ files' = DeletedFiles(files, batch)
           /\ doomed' = doomed \ batch
           /\ pc' = IF batch = doomed THEN "chunk" ELSE pc
    BY <1>9 DEF DeleteFiles
  <2>2. chunks' = chunks /\ pc = "deleteFiles"
    BY <1>9 DEF DeleteFiles
  <2>3. \A f \in Files : files'[f] # Absent => files'[f] = files[f] /\ f \notin batch
    BY <2>1 DEF DeletedFiles
  <2>4. AllStored => AllStored'
    BY <1>a, <2>2, <2>3, StoredMonotone
  <2>5. AllStored \/ \A f \in Files : files[f] # Absent => f \in doomed
    BY <1>a, <2>2 DEF StoredOK
  <2>6. AllStored' \/ \A f \in Files : files'[f] # Absent => f \in doomed'
    BY <2>1, <2>3, <2>4, <2>5
  <2>7. pc' = "chunk" => AllStored'
    BY <2>1, <2>2, <2>6 DEF AllStored
  <2> QED
    BY <1>a, <2>1, <2>2, <2>4, <2>6, <2>7 DEF StoredOK, Building
<1>10. CASE ChunkFiles
  <2>1. AllStored /\ chunks' = chunks
    BY <1>10, <1>a DEF ChunkFiles, StoredOK, Building
  <2> DEFINE done == {f \in need : remaining'[f] = 0}
  <2>3. files' = Upserted(files, done) /\ done \in SUBSET Files
    BY <1>10, <1>a DEF ChunkFiles, TypeOK
  <2>4. ASSUME NEW f \in done PROVE IsStored(f, snap[f])
    BY <1>10, <1>a, ZeroChunkFile DEF IsStored
  <2>5. AllStored'
    BY <1>a, <2>1, <2>3, <2>4, StoredUpsert
  <2>6. pc' \in {"finish", "embed"}
    BY <1>10 DEF ChunkFiles
  <2> QED
    BY <2>5, <2>6 DEF StoredOK, Building
<1>11. CASE Pause
  BY <1>11, <1>a, <1>b DEF Pause, StoredOK, Building, store
<1>12. CASE EmbedBatch
  BY <1>12, <1>a, <1>b DEF EmbedBatch, StoredOK, Building, store
<1>13. CASE AppendBatches
  <2>1. AllStored
    BY <1>13, <1>a DEF StoredOK, AppendBatches, Building
  <2>2. flushed + 1 \in Nat /\ cursor \in Nat
    BY <1>a DEF TypeOK
  <2>3. \A r \in ChunkRow : chunks[r] > 0 => chunks'[r] > 0
    BY <1>13, <1>a, <2>2, AppendedRows DEF AppendBatches, TypeOK
  <2>4. AllStored'
    BY <1>13, <1>a, <2>1, <2>3, StoredMonotone DEF AppendBatches
  <2>5. pc' = "checkpoint" /\ files' = files
    BY <1>13 DEF AppendBatches
  <2> QED
    BY <2>4, <2>5 DEF StoredOK, Building
<1>14. CASE CheckpointCompleted
  <2>1. AllStored
    BY <1>14, <1>a DEF StoredOK, CheckpointCompleted, Building
  <2> DEFINE drained(f) == Cardinality(Positions(f, counted + 1, flushed))
             done == {f \in Files : drained(f) > 0 /\ remaining'[f] = 0}
  <2>3. /\ files' = Upserted(files, done) /\ chunks' = chunks
        /\ remaining' = [f \in Files |-> remaining[f] - drained(f)]
        /\ pc' \in {"finish", "embed"}
    BY <1>14 DEF CheckpointCompleted
  <2>4. ASSUME NEW f \in done PROVE IsStored(f, snap[f])
    BY <1>14, <1>a, CountedStored
  <2>5. AllStored'
    BY <1>a, <2>1, <2>3, <2>4, StoredUpsert
  <2> QED
    BY <2>3, <2>5 DEF StoredOK, Building
<1>15. ASSUME UNCHANGED <<files, chunks>>, pc' = "idle" PROVE StoredOK'
  BY <1>15, <1>a, <1>b DEF StoredOK, Building
<1>16. CASE NothingToReindex
  BY <1>15, <1>16 DEF NothingToReindex, Return, store
<1>17. CASE UpsertProject
  BY <1>15, <1>17 DEF UpsertProject, Return
<1>18. CASE Interrupt
  BY <1>15, <1>18 DEF Interrupt, Return, store
<1>19. ASSUME UNCHANGED <<pc, locals, files, chunks>> PROVE StoredOK'
  BY <1>19, <1>a, <1>b DEF StoredOK, locals
<1>20. ASSUME NEW f \in Files, NEW c \in Contents \cup {Absent}, Edit(f, c)
       PROVE  StoredOK'
  BY <1>19, <1>20 DEF Edit, store
<1>21. CASE Upgrade
  BY <1>19, <1>21 DEF Upgrade
<1>22. CASE CancelIndex
  BY <1>19, <1>22 DEF CancelIndex, store
<1>23. CASE UNCHANGED vars
  BY <1>19, <1>23 DEF vars, store
<1> QED
  BY <1>1, <1>2, <1>3, <1>4, <1>5, <1>6, <1>7, <1>8, <1>9, <1>10, <1>11, <1>12,
     <1>13, <1>14, <1>16, <1>17, <1>18, <1>20, <1>21, <1>22, <1>23
     DEF Next, RunStep

-----------------------------------------------------------------------------
(* Every file of the snapshot is accounted for *)

\* Until the plan the run's listing is the table, unless listing it failed or
\* the table was dropped since; then the chunks are gone too before the plan.
ListedOK ==
    pc \in {"open", "dropFiles", "dropChunks", "plan"} =>
        \/ prev = files
        \/ "list" \in Faults /\ prev = NoFiles
        \/ files = NoFiles /\ (pc = "dropChunks" \/ chunks = NoChunks)

\* the files whose rows the deletes have still to cover
Covered == IF pc = "deleteChunks" THEN dropped
           ELSE IF pc = "deleteFiles" THEN doomed ELSE {}

\* From the plan to the queue: a needed file has no row once the deletes are
\* done, and any other file has the row of the snapshot or is about to lose it.
DeletingOK ==
    pc \in {"deleteChunks", "deleteFiles", "chunk"} =>
        \A f \in Files :
            IF f \in need
            THEN files[f] = Absent \/ f \in Covered \/ "list" \in Faults
            ELSE \/ f \notin Covered /\ files[f] = snap[f]
                 \/ snap[f] = Absent /\ (f \in Covered \/ "list" \in Faults)

\* In the loop: a needed file is recorded exactly when none of its chunks is
\* left to count.
BuildingOK ==
    pc \in Embedding =>
        \A f \in Files :
            IF f \in need /\ remaining[f] > 0
            THEN files[f] = Absent \/ "list" \in Faults
            ELSE files[f] = snap[f] \/ (snap[f] = Absent /\ "list" \in Faults)

\* A run that was not paused has counted the whole queue when it finishes.
DoneOK ==
    /\ pc = "checkpoint" => flushed = cursor
    /\ pc = "finish" /\ ~paused => counted = Len(queue)

AccountsOK == ListedOK /\ DeletingOK /\ BuildingOK /\ DoneOK

\* Steps that touch none of this keep it.
LEMMA AccountsStable ==
    ASSUME AccountsOK, UNCHANGED <<pc, files, chunks, locals>>
    PROVE  AccountsOK'
BY DEF AccountsOK, ListedOK, DeletingOK, BuildingOK, DoneOK, Covered, locals

\* Before the listing there is nothing to account for.
LEMMA AccountsBefore ==
    ASSUME pc' \in {"idle", "walk", "list"}
    PROVE  AccountsOK'
BY DEF AccountsOK, ListedOK, DeletingOK, BuildingOK, DoneOK, Embedding

\* Until the plan only the listing matters.
LEMMA AccountsListed ==
    ASSUME pc' \in {"open", "dropFiles", "dropChunks", "plan"}, ListedOK'
    PROVE  AccountsOK'
BY DEF AccountsOK, DeletingOK, BuildingOK, DoneOK, Embedding

\* The plan covers every row that does not stay: of a file to index, or gone.
LEMMA PlanAccounts ==
    ASSUME RunInv, AccountsOK, PlanRun
    PROVE  AccountsOK'
<1>1. /\ pc = "plan" /\ files' = files /\ snap' = snap
      /\ need' = IF ForceRebuild THEN {f \in Files : snap[f] # Absent}
                                 ELSE Changed(snap, prev)
      /\ dropped' = IF ForceRebuild THEN {f \in Files : prev[f] # Absent}
                                    ELSE Removed(snap, prev) \cup need'
      /\ pc' = IF dropped' = {} THEN "chunk" ELSE "deleteChunks"
  BY DEF PlanRun, store
<1>2. Covered' = dropped'
  BY <1>1 DEF Covered
<1>3. \/ prev = files
      \/ "list" \in Faults /\ prev = NoFiles
      \/ files = NoFiles /\ chunks = NoChunks
  BY <1>1 DEF AccountsOK, ListedOK
<1>4. ASSUME NEW f \in Files
      PROVE  IF f \in need'
             THEN files[f] = Absent \/ f \in dropped' \/ "list" \in Faults
             ELSE \/ f \notin dropped' /\ files[f] = snap[f]
                  \/ snap[f] = Absent /\ (f \in dropped' \/ "list" \in Faults)
  <2>1. CASE ForceRebuild
    <3>1. f \in need' <=> snap[f] # Absent
      BY <1>1, <2>1
    <3>2. f \in dropped' <=> prev[f] # Absent
      BY <1>1, <2>1
    <3> QED
      BY <1>3, <3>1, <3>2 DEF NoFiles
  <2>2. CASE ~ForceRebuild
    <3>1. f \in need' <=> snap[f] # Absent /\ snap[f] # prev[f]
      BY <1>1, <2>2 DEF Changed
    <3>2. f \in dropped' <=> f \in need' \/ (snap[f] = Absent /\ prev[f] # Absent)
      BY <1>1, <2>2 DEF Removed
    <3>3. chunks = NoChunks => prev = NoFiles
      BY <2>2 DEF ForceRebuild
    <3> QED
      BY <1>3, <3>1, <3>2, <3>3 DEF NoFiles
  <2> QED
    BY <2>1, <2>2
<1> QED
  BY <1>1, <1>2, <1>4 DEF AccountsOK, ListedOK, DeletingOK, BuildingOK, DoneOK, Embedding

LEMMA AccountsStep == RunInv /\ AccountsOK /\ [Next]_vars => AccountsOK'
<1> SUFFICES ASSUME RunInv, AccountsOK, [Next]_vars PROVE AccountsOK'
  OBVIOUS
<1>a. TypeOK /\ LoopOK /\ ListedOK /\ DeletingOK /\ BuildingOK /\ DoneOK
  BY DEF RunInv, AccountsOK
<1>1. CASE StartRun
  BY <1>1, AccountsBefore DEF StartRun, Begin
<1>2. ASSUME NEW f \in Files, WalkFile(f) PROVE AccountsOK'
  BY <1>2, AccountsBefore DEF WalkFile
<1>3. CASE ListFiles
  BY <1>3, AccountsListed DEF ListFiles, ListedOK, store
<1>4. CASE OpenChunks
  <2>1. pc' \in {"dropFiles", "plan"}
    BY <1>4 DEF OpenChunks
  <2> QED
    BY <1>4, <1>a, <2>1, AccountsListed DEF OpenChunks, ListedOK, locals
<1>5. CASE DropFiles
  BY <1>5, <1>a, AccountsListed DEF DropFiles, ListedOK, locals
<1>6. CASE DropChunks
  BY <1>6, <1>a, AccountsListed DEF DropChunks, ListedOK, locals
<1>7. CASE PlanRun
  BY <1>7, PlanAccounts
<1>8. CASE DeleteChunks
  <2>1. /\ pc = "deleteChunks" /\ UNCHANGED <<files, snap, need, dropped>>
        /\ \/ pc' = "deleteFiles" /\ doomed' = dropped
           \/ pc' = "deleteChunks"
    BY <1>8 DEF DeleteChunks
  <2>2. Covered = dropped /\ Covered' = dropped
    BY <2>1 DEF Covered
  <2>3. DeletingOK'
    BY <1>a, <2>1, <2>2 DEF DeletingOK
  <2> QED
    BY <2>1, <2>3 DEF AccountsOK, ListedOK, BuildingOK, DoneOK, Embedding
<1>9. CASE DeleteFiles
  <2>1. PICK batch \in SUBSET doomed :
           /\ files' = DeletedFiles(files, batch)
           /\ doomed' = doomed \ batch
           /\ pc' = IF batch = doomed THEN "chunk" ELSE pc
    BY <1>9 DEF DeleteFiles
  <2>2. pc = "deleteFiles" /\ UNCHANGED <<snap, need>>
    BY <1>9 DEF DeleteFiles
  <2>3. Covered = doomed /\ Covered' = doomed \ batch
    BY <2>1, <2>2 DEF Covered
  <2>4. \A f \in Files : files'[f] = IF f \in batch THEN Absent ELSE files[f]
    BY <2>1 DEF DeletedFiles
  <2>5. DeletingOK'
    BY <1>a, <2>1, <2>2, <2>3, <2>4 DEF DeletingOK
  <2> QED
    BY <2>1, <2>2, <2>5 DEF AccountsOK, ListedOK, BuildingOK, DoneOK, Embedding
<1>10. CASE ChunkFiles
  <2>1. /\ pc = "chunk" /\ pc' \in {"finish", "embed"}
        /\ pc' = "finish" <=> Len(queue') = 0
        /\ files' = Upserted(files, {f \in need : remaining'[f] = 0})
        /\ counted' = counted /\ UNCHANGED <<snap, need>>
    BY <1>10 DEF ChunkFiles
  <2>2. remaining' \in [Files -> Nat]
    BY <1>10, TypeStep DEF TypeOK
  <2>3. Covered = {}
    BY <2>1 DEF Covered
  <2>4. \A f \in Files : files'[f] = IF f \in need /\ remaining'[f] = 0 THEN snap[f] ELSE files[f]
    BY <2>1 DEF Upserted
  <2>5. BuildingOK'
    BY <1>a, <2>1, <2>2, <2>3, <2>4 DEF BuildingOK, DeletingOK
  <2>6. counted' = 0
    BY <1>a, <2>1 DEF LoopOK, PhaseOK, Embedding
  <2>7. DoneOK'
    BY <2>1, <2>6 DEF DoneOK
  <2> QED
    BY <2>1, <2>5, <2>7 DEF AccountsOK, ListedOK, DeletingOK
<1>11. CASE Pause
  BY <1>11, <1>a
     DEF Pause, store, AccountsOK, ListedOK, DeletingOK, BuildingOK, DoneOK, Embedding
<1>12. CASE EmbedBatch
  BY <1>12, <1>a
     DEF EmbedBatch, store, AccountsOK, ListedOK, DeletingOK, BuildingOK, DoneOK, Embedding
<1>13. CASE AppendBatches
  BY <1>13, <1>a
     DEF AppendBatches, AccountsOK, ListedOK, DeletingOK, BuildingOK, DoneOK, Embedding
<1>14. CASE CheckpointCompleted
  <2> DEFINE drained(f) == Cardinality(Positions(f, counted + 1, flushed))
  <2>1. /\ pc = "checkpoint" /\ pc' \in {"finish", "embed"}
        /\ remaining' = [f \in Files |-> remaining[f] - drained(f)]
        /\ files' = Upserted(files, {f \in Files : drained(f) > 0 /\ remaining'[f] = 0})
        /\ counted' = flushed /\ UNCHANGED <<snap, need, queue, cursor, paused>>
        /\ pc' = "finish" => paused \/ cursor = Len(queue)
    BY <1>14 DEF CheckpointCompleted
  <2>2. \A f \in Files : drained(f) \in Nat /\ (drained(f) > 0 => f \in need)
    <3>1. counted + 1 \in Int /\ flushed \in Int
      BY <1>a DEF TypeOK
    <3> QED
      BY <2>1, <3>1, PositionsCount, CountedNeeded
  <2>3. remaining' \in [Files -> Nat] /\ remaining \in [Files -> Nat]
    BY <1>14, <1>a, TypeStep DEF TypeOK
  <2>4. \A f \in Files :
           /\ remaining'[f] = remaining[f] - drained(f)
           /\ files'[f] = IF drained(f) > 0 /\ remaining'[f] = 0 THEN snap[f] ELSE files[f]
    BY <2>1 DEF Upserted
  <2> HIDE DEF drained
  <2>5. BuildingOK'
    <3>1. SUFFICES ASSUME NEW f \in Files
                   PROVE  IF f \in need /\ remaining'[f] > 0
                          THEN files'[f] = Absent \/ "list" \in Faults
                          ELSE files'[f] = snap[f] \/ (snap[f] = Absent /\ "list" \in Faults)
      BY <2>1 DEF BuildingOK
    <3>2. IF f \in need /\ remaining[f] > 0
          THEN files[f] = Absent \/ "list" \in Faults
          ELSE files[f] = snap[f] \/ (snap[f] = Absent /\ "list" \in Faults)
      BY <1>a, <2>1 DEF BuildingOK, Embedding
    <3>3. drained(f) \in Nat /\ remaining[f] \in Nat /\ remaining'[f] \in Nat
      BY <2>2, <2>3
    <3>4. CASE drained(f) = 0
      BY <2>4, <3>2, <3>3, <3>4
    <3>5. CASE drained(f) > 0
      BY <2>2, <2>4, <3>2, <3>3, <3>5
    <3> QED
      BY <3>3, <3>4, <3>5
  <2>6. DoneOK'
    BY <1>a, <2>1 DEF DoneOK
  <2> QED
    BY <2>1, <2>5, <2>6 DEF AccountsOK, ListedOK, DeletingOK
<1>16. CASE NothingToReindex
  BY <1>16, AccountsBefore DEF NothingToReindex, Return
<1>17. CASE UpsertProject
  BY <1>17, AccountsBefore DEF UpsertProject, Return
<1>18. CASE Interrupt
  BY <1>18, AccountsBefore DEF Interrupt, Return
<1>19. ASSUME NEW f \in Files, NEW c \in Contents \cup {Absent}, Edit(f, c)
       PROVE  AccountsOK'
  BY <1>19, AccountsStable DEF Edit, store
<1>20. CASE Upgrade
  BY <1>20, AccountsStable DEF Upgrade
<1>21. CASE CancelIndex
  BY <1>21, AccountsStable DEF CancelIndex, store
<1>22. CASE UNCHANGED vars
  BY <1>22, AccountsStable DEF vars, store
<1> QED
  BY <1>1, <1>2, <1>3, <1>4, <1>5, <1>6, <1>7, <1>8, <1>9, <1>10, <1>11, <1>12,
     <1>13, <1>14, <1>16, <1>17, <1>18, <1>19, <1>20, <1>21, <1>22
     DEF Next, RunStep

-----------------------------------------------------------------------------
(* The tables implement the catalog *)

\* The <<file, body>> pairs a search can find.
Stored == {p \in Files \X Bodies : chunks[RowOf(p[1], p[2])] > 0}

\* A step that leaves the file rows and the chunk rows under full paths alone
\* is none of the catalog's.
LEMMA CatalogStutters ==
    ASSUME files' = files,
           \A f \in Files, b \in Bodies : chunks'[RowOf(f, b)] = chunks[RowOf(f, b)]
    PROVE  UNCHANGED Cat!vars
<1>1. Stored' = Stored
  BY DEF Stored, RowOf, FullPath
<1> QED
  BY <1>1 DEF Cat!vars, Stored, RowOf, FullPath

\* Recording files whose chunks are all stored is a List of the catalog.
LEMMA CatalogLists ==
    ASSUME TypeOK, NEW done \in SUBSET Files,
           \A f \in done : snap[f] # Absent => IsStored(f, snap[f]),
           files' = Upserted(files, done), chunks' = chunks
    PROVE  Cat!Next
<1>1. \A f \in done : snap[f] # Absent => Cat!PartsOf(f, snap[f]) \subseteq Stored
  <2>1. SUFFICES ASSUME NEW f \in done, snap[f] # Absent, NEW i \in DOMAIN snap[f]
                 PROVE  <<f, snap[f][i]>> \in Stored
    BY DEF Cat!PartsOf
  <2>2. snap[f] \in Contents
    BY <2>1 DEF TypeOK
  <2>3. snap[f][i] \in Bodies
    BY <2>1, <2>2, RowTyped
  <2>4. chunks[RowOf(f, snap[f][i])] > 0
    BY <2>1 DEF IsStored
  <2> QED
    BY <2>3, <2>4 DEF Stored
<1>2. Stored' = Stored
  BY DEF Stored, RowOf, FullPath
<1>3. Cat!List(done, snap)
  BY <1>1, <1>2 DEF Cat!List, Upserted, Stored, RowOf, FullPath
<1>4. snap \in [Files -> Contents \cup {Absent}]
  BY DEF TypeOK
<1> QED
  BY <1>3, <1>4 DEF Cat!Next

\* Deleting file rows is an Unlist.
LEMMA CatalogUnlists ==
    ASSUME NEW gone \in SUBSET Files, files' = DeletedFiles(files, gone), chunks' = chunks
    PROVE  Cat!Next
<1>1. Stored' = Stored
  BY DEF Stored, RowOf, FullPath
<1>2. Cat!Unlist(gone)
  BY <1>1 DEF Cat!Unlist, DeletedFiles, Stored, RowOf, FullPath
<1> QED
  BY <1>2 DEF Cat!Next

LEMMA CatalogStep ==
    ASSUME "dropFiles" \notin Faults, RunInv, StoredOK, [Next]_vars
    PROVE  [Cat!Next]_(Cat!vars)
<1>a. TypeOK
  BY DEF RunInv
<1>b. UNCHANGED <<files, chunks>> => UNCHANGED Cat!vars
  BY CatalogStutters
<1>1. CASE DropFiles
  <2>1. files' = DeletedFiles(files, Files) /\ chunks' = chunks
    BY <1>1 DEF DropFiles, DeletedFiles, NoFiles
  <2> QED
    BY <2>1, CatalogUnlists
<1>2. CASE DropChunks
  <2>1. files = NoFiles /\ files' = files /\ chunks' = NoChunks
    BY <1>2 DEF DropChunks, StoredOK
  <2>2. \A f \in Files, b \in Bodies : RowOf(f, b) \in ChunkRow
    BY DEF RowOf, ChunkRow
  <2>3. Stored' = {}
    BY <2>1, <2>2 DEF Stored, NoChunks, RowOf, FullPath
  <2>4. Stored \in SUBSET (Files \X Bodies)
    BY DEF Stored
  <2>5. Cat!Discard(Stored)
    BY <2>1, <2>3 DEF Cat!Discard, NoFiles, Stored, RowOf, FullPath
  <2> QED
    BY <2>4, <2>5 DEF Cat!Next
<1>3. CASE DeleteChunks
  <2>1. PICK batch \in SUBSET doomed :
           chunks' = DeletedRows(chunks, {Rel(f) : f \in batch})
    BY <1>3 DEF DeleteChunks
  <2>2. \A f \in Files, b \in Bodies : chunks'[RowOf(f, b)] = chunks[RowOf(f, b)]
    BY <1>a, <2>1, DeletedRowsKept DEF TypeOK
  <2>3. files' = files
    BY <1>3 DEF DeleteChunks
  <2> QED
    BY <2>2, <2>3, CatalogStutters
<1>4. CASE DeleteFiles
  <2>1. PICK batch \in SUBSET doomed : files' = DeletedFiles(files, batch)
    BY <1>4 DEF DeleteFiles
  <2>2. chunks' = chunks /\ batch \in SUBSET Files
    BY <1>4, <1>a DEF DeleteFiles, TypeOK
  <2> QED
    BY <2>1, <2>2, CatalogUnlists
<1>5. CASE ChunkFiles
  <2> DEFINE done == {f \in need : remaining'[f] = 0}
  <2>1. files' = Upserted(files, done) /\ chunks' = chunks /\ done \in SUBSET Files
    BY <1>5, <1>a DEF ChunkFiles, TypeOK
  <2>2. \A f \in done : IsStored(f, snap[f])
    BY <1>5, ZeroChunkFile DEF IsStored
  <2> HIDE DEF done
  <2> QED
    BY <1>a, <2>1, <2>2, CatalogLists
<1>6. CASE AppendBatches
  <2>1. files' = files /\ flushed + 1 \in Nat /\ cursor \in Nat
    BY <1>6, <1>a DEF AppendBatches, TypeOK
  <2>2. \A r \in ChunkRow : chunks[r] > 0 => chunks'[r] > 0
    BY <1>6, <1>a, <2>1, AppendedRows DEF AppendBatches, TypeOK
  <2>3. \A f \in Files, b \in Bodies : RowOf(f, b) \in ChunkRow
    BY DEF RowOf, ChunkRow
  <2>4. Stored' = Stored \cup Stored'
    BY <2>2, <2>3 DEF Stored, RowOf, FullPath
  <2>5. Stored' \in SUBSET (Files \X Bodies)
    BY DEF Stored
  <2>6. Cat!Store(Stored')
    BY <2>1, <2>4 DEF Cat!Store, Stored, RowOf, FullPath
  <2> QED
    BY <2>5, <2>6 DEF Cat!Next
<1>7. CASE CheckpointCompleted
  <2> DEFINE done == {f \in Files :
                /\ Cardinality(Positions(f, counted + 1, flushed)) > 0
                /\ remaining'[f] = 0}
  <2>1. files' = Upserted(files, done) /\ chunks' = chunks /\ done \in SUBSET Files
    BY <1>7 DEF CheckpointCompleted
  <2>2. \A f \in done : IsStored(f, snap[f])
    BY <1>7, CountedStored
  <2> HIDE DEF done
  <2> QED
    BY <1>a, <2>1, <2>2, CatalogLists
<1>8. CASE StartRun
  BY <1>8, <1>b DEF StartRun, Begin, store
<1>9. ASSUME NEW f \in Files, WalkFile(f) PROVE UNCHANGED Cat!vars
  BY <1>9, <1>b DEF WalkFile, store
<1>10. CASE ListFiles \/ OpenChunks \/ PlanRun \/ Pause \/ EmbedBatch
  BY <1>10, <1>b DEF ListFiles, OpenChunks, PlanRun, Pause, EmbedBatch, store
<1>11. CASE NothingToReindex \/ UpsertProject \/ Interrupt
  BY <1>11, <1>b DEF NothingToReindex, UpsertProject, Interrupt, store
<1>12. ASSUME NEW f \in Files, NEW c \in Contents \cup {Absent}, Edit(f, c)
       PROVE  UNCHANGED Cat!vars
  BY <1>12, <1>b DEF Edit, store
<1>13. CASE Upgrade \/ CancelIndex \/ UNCHANGED vars
  BY <1>13, <1>b DEF Upgrade, CancelIndex, vars, store
<1> QED
  BY <1>1, <1>2, <1>3, <1>4, <1>5, <1>6, <1>7, <1>8, <1>9, <1>10, <1>11, <1>12,
     <1>13 DEF Next, RunStep

-----------------------------------------------------------------------------
(* Theorems *)

\* Whatever the tree, the models, the faults and the interruptions, the tables
\* and the locals of index_project hold values of their kind.
THEOREM TypeCorrect == Spec => []TypeOK
<1>1. Init => RunInv
  BY InitInv DEF IInv
<1>2. RunInv /\ [Next]_vars => RunInv'
  BY TypeStep, LoopStep DEF RunInv
<1>3. RunInv => TypeOK
  BY DEF RunInv
<1> QED
  BY <1>1, <1>2, <1>3, PTL DEF Spec

\* A file is recorded only while all chunks of the recorded content are stored
\* (or the chunks table is empty and "files" could not be dropped): the
\* checkpoint that lets the next run skip the file is never ahead of the data.
THEOREM CheckpointSound ==
    ASSUME OneFault
    PROVE  Spec => []RecordedMeansStored
<1>1. Init => IInv
  BY InitInv
<1>2. IInv /\ [Next]_vars => IInv'
  BY TypeStep, LoopStep, StoredStep DEF IInv, RunInv
<1>3. IInv => RecordedMeansStored
  BY DEF IInv, StoredOK, AllStored, RecordedMeansStored
<1> QED
  BY <1>1, <1>2, <1>3, PTL DEF Spec

\* While a run embeds, every file of its snapshot is recorded with the content
\* it read or still has chunks to count, whichever awaited call fails unnoticed:
\* a run stopped there forgets no file.
THEOREM NoFileForgotten == Spec => []EveryFileAccounted
<1>1. Init => RunInv /\ AccountsOK
  BY InitInv, AccountsBefore DEF IInv, Init, AccountsOK, ListedOK, DeletingOK,
     BuildingOK, DoneOK, Embedding
<1>2. RunInv /\ AccountsOK /\ [Next]_vars => (RunInv /\ AccountsOK)'
  BY TypeStep, LoopStep, AccountsStep DEF RunInv
<1>3. RunInv /\ AccountsOK => EveryFileAccounted
  <2>1. SUFFICES ASSUME RunInv, AccountsOK, pc \in {"embed", "append", "checkpoint"},
                        NEW f \in Files
                 PROVE  \/ files[f] = snap[f]
                        \/ /\ f \in need /\ remaining[f] > 0
                           /\ files[f] = Absent \/ "list" \in Faults
                        \/ snap[f] = Absent /\ "list" \in Faults
    BY DEF EveryFileAccounted
  <2> QED
    BY <2>1 DEF AccountsOK, BuildingOK, Embedding
<1> QED
  BY <1>1, <1>2, <1>3, PTL DEF Spec

\* An unpaused run that returns leaves "files" equal to the tree it read, however
\* the tree changed meanwhile and whatever earlier runs left in the tables.
THEOREM RunPublishes == Spec => PublishesSnapshot
<1> DEFINE Publishes ==
      (pc # "idle" /\ pc' = "idle" /\ interrupts' = interrupts /\ ~paused) =>
          \A f \in Files : \/ files'[f] = snap[f]
                           \/ "list" \in Faults /\ snap[f] = Absent
<1>1. Init => RunInv /\ AccountsOK
  BY InitInv DEF IInv, Init, AccountsOK, ListedOK, DeletingOK, BuildingOK, DoneOK, Embedding
<1>2. RunInv /\ AccountsOK /\ [Next]_vars => (RunInv /\ AccountsOK)'
  BY TypeStep, LoopStep, AccountsStep DEF RunInv
<1>3. RunInv /\ AccountsOK /\ [Next]_vars => [Publishes]_vars
  <2>1. SUFFICES ASSUME RunInv, AccountsOK, Next, pc # "idle", pc' = "idle",
                        interrupts' = interrupts, ~paused, NEW f \in Files
                 PROVE  \/ files'[f] = snap[f]
                        \/ "list" \in Faults /\ snap[f] = Absent
    OBVIOUS
  <2>2. interrupts \in Nat
    BY <2>1, IndexerAssumption DEF RunInv, TypeOK
  <2>3. NothingToReindex \/ UpsertProject
    <3>1. ~Interrupt
      BY <2>1, <2>2 DEF Interrupt
    <3>2. ~(StartRun \/ Upgrade \/ CancelIndex)
      BY <2>1 DEF StartRun, Begin, Upgrade, CancelIndex
    <3>3. \A g \in Files, c \in Contents \cup {Absent} : ~Edit(g, c)
      BY <2>1 DEF Edit
    <3>4. ~(ListFiles \/ OpenChunks \/ DropFiles \/ DropChunks \/ PlanRun)
      BY <2>1 DEF ListFiles, OpenChunks, DropFiles, DropChunks, PlanRun
    <3>5. ~(DeleteChunks \/ DeleteFiles \/ ChunkFiles)
      BY <2>1 DEF DeleteChunks, DeleteFiles, ChunkFiles
    <3>6. ~(Pause \/ EmbedBatch \/ AppendBatches \/ CheckpointCompleted)
      BY <2>1 DEF Pause, EmbedBatch, AppendBatches, CheckpointCompleted
    <3>7. \A g \in Files : ~WalkFile(g)
      BY <2>1 DEF WalkFile
    <3> QED
      BY <2>1, <3>1, <3>2, <3>3, <3>4, <3>5, <3>6, <3>7 DEF Next, RunStep
  <2>4. CASE NothingToReindex
    <3>1. pc = "chunk" /\ need = {} /\ files' = files
      BY <2>4 DEF NothingToReindex, store
    <3>2. Covered = {}
      BY <3>1 DEF Covered
    <3> QED
      BY <2>1, <3>1, <3>2 DEF AccountsOK, DeletingOK
  <2>5. CASE UpsertProject
    <3>1. pc = "finish" /\ files' = files
      BY <2>5 DEF UpsertProject
    <3>2. counted = Len(queue) /\ Len(queue) \in Nat
      BY <2>1, <3>1 DEF AccountsOK, DoneOK, RunInv, TypeOK
    <3>3. remaining[f] = Cardinality(Positions(f, counted + 1, Len(queue)))
      BY <2>1, <3>1 DEF RunInv, LoopOK, CountsOK, Embedding
    <3>4. Positions(f, counted + 1, Len(queue)) = {}
      BY <3>2 DEF Positions
    <3>5. remaining[f] = 0
      BY <3>3, <3>4, FS_EmptySet
    <3> QED
      BY <2>1, <3>1, <3>5 DEF AccountsOK, BuildingOK, Embedding
  <2> QED
    BY <2>3, <2>4, <2>5
<1> QED
  BY <1>1, <1>2, <1>3, PTL DEF Spec, PublishesSnapshot

\* Through every run, stop and restart the tables implement Catalog: a step of
\* the indexer stores chunks, lists files whose chunks are stored, unlists
\* files, or discards chunks no listed file is made of (when dropping "files"
\* does not fail unnoticed, which would discard the chunks of listed files).
THEOREM ImplementsCatalog ==
    ASSUME "dropFiles" \notin Faults
    PROVE  Spec => KeepsCatalog
<1>1. OneFault
  BY DEF OneFault
<1>2. Init => IInv
  BY InitInv
<1>3. IInv /\ [Next]_vars => IInv'
  BY <1>1, TypeStep, LoopStep, StoredStep DEF IInv, RunInv
<1>4. Init => Cat!Init
  <2>1. SUFFICES ASSUME Init PROVE Cat!Init
    OBVIOUS
  <2>2. \A f \in Files, b \in Bodies : RowOf(f, b) \in ChunkRow
    BY DEF RowOf, ChunkRow
  <2>3. Stored = {}
    BY <2>1, <2>2 DEF Init, NoChunks, Stored
  <2> QED
    BY <2>1, <2>3 DEF Init, NoFiles, Cat!Init, Cat!Empty, Stored
<1>5. IInv /\ [Next]_vars => [Cat!Next]_(Cat!vars)
  BY CatalogStep DEF IInv
<1> QED
  BY <1>2, <1>3, <1>4, <1>5, PTL DEF Spec, KeepsCatalog, Cat!Spec

=============================================================================
