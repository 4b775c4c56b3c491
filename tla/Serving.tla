------------------------------ MODULE Serving ------------------------------
(***************************************************************************)
(* The daemon's readers of one project: searches, status, doctor and the   *)
(* symbol requests (zrag-daemon/src/handlers), and the caches they share:  *)
(* engines, search parameters, the graph of the vectors, the symbol index. *)
(*                                                                         *)
(* A reader takes no lock of the project: an index run, a removal and      *)
(* other readers happen between any two of its awaits.  A run is seen as a *)
(* reader sees it: it opens "chunks", appends, writes the project row, and *)
(* the handler resets the parameters.                                      *)
(* The lexical leg of a search reads the same table and adds nothing here. *)
(***************************************************************************)
EXTENDS Integers, FiniteSets

CONSTANTS
    Readers,        \* requests that read
    None,           \* absent
    Models,
    Primary,        \* the model the daemon was started with
    Dim(_),         \* the dimension of a model
    Kinds(_),       \* bound: the requests a reader makes
    Methods,        \* "usearch" uses the graph, any other method the table
    Trees,          \* what the files may hold when they are parsed
    MaxRuns,        \* bound: index runs, the first of which is over
    MaxRemovals,    \* bound: RemoveProject
    MaxFaults       \* bound: loads, embeddings, builds and runs that fail

ServingAssumption ==
    /\ None \notin Readers \cup Models \cup Trees \cup Nat
    /\ Primary \in Models
    /\ \A r \in Readers : Kinds(r) \subseteq {"search", "exhaustive", "status", "doctor", "symbols"}
    /\ \A m \in Models : Dim(m) \in Nat \ {0}
    /\ MaxRuns \in Nat \ {0}
    /\ MaxRemovals \in Nat /\ MaxFaults \in Nat

\* a project is loaded anew after each removal, and cells likewise
Objects == 1..(MaxRemovals + 1)
Cells == 1..(2 * (MaxRemovals + 1))

VARIABLES
    table,          \* "chunks": [dim, full], full if it has rows, or None
    row,            \* the project row: [model, method, run], or None
    loaded,         \* the registry: the LoadedProject, or None
    params,         \* per LoadedProject: search_params
    dsl,            \* per LoadedProject: dsl_index, as the tree it was read from
    engines,        \* models that have an engine
    loader,         \* the holder of load_lock
    cell,           \* AnnCache: the project's cell, or None
    cells,          \* per cell: [builder, graph]
    reader,         \* per reader: its program counter and locals
    run,            \* the index run: [pc, obj]
    remover,        \* the removal's program counter
    removals, runs, faults,
    loads,          \* history: per model, loads that were successful
    late            \* history: parameters were stored late, or not reset

store == <<table, row>>
caches == <<loaded, params, dsl, engines, loader, cell, cells>>
others == <<run, remover, removals, runs>>
history == <<loads, late>>
vars == <<store, caches, reader, others, faults, history>>

Idle == [pc |-> "idle", kind |-> None, obj |-> None, row |-> None,
         model |-> None, method |-> None, cell |-> None, tree |-> None]

Init ==
    /\ \E m \in Models :
          /\ row = [model |-> m, method |-> "usearch", run |-> 1]
          /\ table = [dim |-> Dim(m), full |-> TRUE]
    /\ loaded = None
    /\ params = [o \in Objects |-> None] /\ dsl = [o \in Objects |-> None]
    /\ engines = {Primary} /\ loader = None
    /\ cell = None /\ cells = [c \in Cells |-> [builder |-> None, graph |-> None]]
    /\ reader = [r \in Readers |-> Idle]
    /\ run = [pc |-> "idle", obj |-> None]
    /\ remover = "idle"
    /\ removals = 0 /\ runs = 1 /\ faults = 0
    /\ loads = [m \in Models |-> 0] /\ late = {}

\* nothing is kept of a request that is over
Go(r, pc) ==
    reader' = [reader EXCEPT ![r] = IF pc = "done"
                                    THEN [Idle EXCEPT !.pc = pc]
                                    ELSE [@ EXCEPT !.pc = pc]]
At(r, pc) == reader[r].pc = pc
Kind(r) == reader[r].kind
Fault == faults < MaxFaults /\ faults' = faults + 1

\* load_or_open: the object in the registry, or a new one; the next removal
\* makes room for the one after
Loaded == IF loaded # None THEN loaded ELSE removals + 1

\* ChunksTable::open: a table of another dimension is dropped, with "files"
Opened(dim) ==
    IF table # None /\ table.dim = dim THEN table ELSE [dim |-> dim, full |-> FALSE]

-----------------------------------------------------------------------------
(* A reader's project, row and engine *)

Ask(r, kind) ==
    /\ At(r, "idle")
    /\ loaded' = Loaded
    /\ reader' = [reader EXCEPT ![r] =
            [Idle EXCEPT !.pc = IF kind = "symbols" THEN "symbols" ELSE "row",
                         !.kind = kind, !.obj = Loaded]]
    /\ UNCHANGED <<store, params, dsl, engines, loader, cell, cells,
                   others, faults, history>>

\* a search needs the row, status and doctor take the primary model without it
ReadRow(r) ==
    /\ At(r, "row")
    /\ IF row = None /\ Kind(r) \in {"search", "exhaustive"}
       THEN Go(r, "done")
       ELSE reader' = [reader EXCEPT ![r].pc = "engine", ![r].row = row,
                          ![r].model = IF row = None THEN Primary ELSE row.model]
    /\ UNCHANGED <<store, caches, others, faults, history>>

\* what follows an engine
AfterEngine(r) ==
    IF Kind(r) = "search" THEN "params" ELSE "table"

\* Slip: always the primary engine.
FindPrimary(r) ==
    /\ At(r, "engine")
    /\ reader' = [reader EXCEPT ![r].pc = AfterEngine(r), ![r].model = Primary]
    /\ UNCHANGED <<store, caches, others, faults, history>>

\* engine_for_model: the map is read without the lock first
FindEngine(r) ==
    /\ At(r, "engine")
    /\ Go(r, IF reader[r].model \in engines THEN AfterEngine(r) ELSE "lock")
    /\ UNCHANGED <<store, caches, others, faults, history>>

\* Slip: the map is not read again under the lock.
LockUnchecked(r) ==
    /\ At(r, "lock") /\ loader = None
    /\ loader' = r
    /\ Go(r, "load")
    /\ UNCHANGED <<store, loaded, params, dsl, engines, cell, cells,
                   others, faults, history>>

LockLoad(r) ==
    /\ At(r, "lock") /\ loader = None
    /\ IF reader[r].model \in engines
       THEN Go(r, AfterEngine(r)) /\ UNCHANGED loader
       ELSE Go(r, "load") /\ loader' = r
    /\ UNCHANGED <<store, loaded, params, dsl, engines, cell, cells,
                   others, faults, history>>

LoadEngine(r) ==
    /\ At(r, "load")
    /\ engines' = engines \cup {reader[r].model} /\ loader' = None
    /\ loads' = [loads EXCEPT ![reader[r].model] = @ + 1]
    /\ Go(r, AfterEngine(r))
    /\ UNCHANGED <<store, loaded, params, dsl, cell, cells, others,
                   faults, late>>

\* Slip: an error leaves the lock with the reader.
LoadFailsLocked(r) ==
    /\ At(r, "load") /\ Fault
    /\ Go(r, "done")
    /\ UNCHANGED <<store, caches, others, history>>

\* no file, no key, no network; doctor goes on with the primary engine
LoadFails(r) ==
    /\ At(r, "load") /\ Fault
    /\ loader' = None
    /\ IF Kind(r) = "doctor"
       THEN reader' = [reader EXCEPT ![r].pc = "table", ![r].model = Primary]
       ELSE Go(r, "done")
    /\ UNCHANGED <<store, loaded, params, dsl, engines, cell, cells,
                   others, history>>

\* the embedding of the query or the opening of the table fails; doctor
\* reports what its probe gave and goes on
EmbedFails(r) ==
    /\ reader[r].pc \in {"params", "table"} /\ Kind(r) # "doctor" /\ Fault
    /\ Go(r, "done")
    /\ UNCHANGED <<store, caches, others, history>>

-----------------------------------------------------------------------------
(* A search's parameters *)

ReadParams(r) ==
    /\ At(r, "params")
    /\ LET cached == params[reader[r].obj]
       IN  IF cached # None
           THEN reader' = [reader EXCEPT ![r].pc = "table", ![r].method = cached.method]
           ELSE Go(r, "parse")
    /\ UNCHANGED <<store, caches, others, faults, history>>

\* from the row as the search has read it, however long ago that was
StoreParams(r) ==
    /\ At(r, "parse")
    /\ LET mine == reader[r].row
       IN  /\ params' = [params EXCEPT ![reader[r].obj] =
                            [method |-> mine.method, run |-> mine.run]]
           /\ late' = IF row # None /\ mine.run # row.run
                      THEN late \cup {reader[r].obj} ELSE late
           /\ reader' = [reader EXCEPT ![r].pc = "table", ![r].method = mine.method]
    /\ UNCHANGED <<store, loaded, dsl, engines, loader, cell, cells,
                   others, faults, loads>>

-----------------------------------------------------------------------------
(* The tables and the graph *)

AfterTable(r) ==
    CASE Kind(r) \in {"status", "doctor"} -> "done"
      [] Kind(r) = "search" /\ reader[r].method = "usearch" -> "cell"
      [] OTHER -> "scan"

OpenTable(r) ==
    /\ At(r, "table")
    /\ table' = Opened(Dim(reader[r].model))
    /\ Go(r, AfterTable(r))
    /\ UNCHANGED <<row, caches, others, faults, history>>

\* Slip: a fresh cell for every search.
FindNewCell(r) ==
    /\ At(r, "cell")
    /\ \E c \in Cells :
          /\ cells[c] = [builder |-> None, graph |-> None]
          /\ \A q \in Readers : reader[q].cell # c
          /\ cell' = c
          /\ reader' = [reader EXCEPT ![r].pc = "graph", ![r].cell = c]
    /\ UNCHANGED <<store, loaded, params, dsl, engines, loader, cells,
                   others, faults, history>>

\* AnnCache::get_or_build: the project's cell, a new one if there is none
FindCell(r) ==
    /\ At(r, "cell")
    /\ cell' = IF cell # None THEN cell
               ELSE CHOOSE c \in Cells :
                       /\ cells[c] = [builder |-> None, graph |-> None]
                       /\ \A q \in Readers : reader[q].cell # c
    /\ reader' = [reader EXCEPT ![r].pc = "graph", ![r].cell = cell']
    /\ UNCHANGED <<store, loaded, params, dsl, engines, loader, cells,
                   others, faults, history>>

\* OnceCell: one of those who wait builds, the others go on waiting
BeginBuild(r) ==
    /\ At(r, "graph")
    /\ cells[reader[r].cell] = [builder |-> None, graph |-> None]
    /\ cells' = [cells EXCEPT ![reader[r].cell].builder = r]
    /\ Go(r, "build")
    /\ UNCHANGED <<store, loaded, params, dsl, engines, loader, cell,
                   others, faults, history>>

\* rebuild: the vectors the table has, if they still have the dimension
Readable(r) == table # None /\ table.dim = Dim(reader[r].model)

Build(r) ==
    /\ At(r, "build") /\ Readable(r)
    /\ cells' = [cells EXCEPT ![reader[r].cell] =
            [builder |-> None, graph |-> table.dim]]
    /\ Go(r, "graph")
    /\ UNCHANGED <<store, loaded, params, dsl, engines, loader, cell,
                   others, faults, history>>

\* the cell stays empty for the next one
BuildFails(r) ==
    /\ At(r, "build")
    /\ \/ Fault
       \/ ~Readable(r) /\ UNCHANGED faults
    /\ cells' = [cells EXCEPT ![reader[r].cell].builder = None]
    /\ Go(r, "done")
    /\ UNCHANGED <<store, loaded, params, dsl, engines, loader, cell,
                   others, history>>

\* AnnIndex::search: no hits for a query of another dimension
UseGraph(r) ==
    /\ At(r, "graph") /\ cells[reader[r].cell].graph # None
    /\ Go(r, IF cells[reader[r].cell].graph = Dim(reader[r].model)
             THEN "scan" ELSE "again")
    /\ UNCHANGED <<store, caches, others, faults, history>>

\* fetch_by_chunk_ids of what the graph has found, or knn
Fetch(r) ==
    /\ At(r, "scan")
    /\ Go(r, IF Readable(r) THEN "again" ELSE "done")
    /\ UNCHANGED <<store, caches, others, faults, history>>

\* the handler opens the table once more for the appendix
OpenAgain(r) ==
    /\ At(r, "again")
    /\ table' = Opened(Dim(reader[r].model))
    /\ Go(r, "done")
    /\ UNCHANGED <<row, caches, others, faults, history>>

-----------------------------------------------------------------------------
(* The symbol requests: ensure_dsl_index *)

FindIndex(r) ==
    /\ At(r, "symbols")
    /\ IF dsl[reader[r].obj] # None
       THEN Go(r, "done")
       ELSE \E t \in Trees :
               reader' = [reader EXCEPT ![r].pc = "parsed", ![r].tree = t]
    /\ UNCHANGED <<store, caches, others, faults, history>>

\* the first one that has parsed the tree wins; each answers from its own
StoreIndex(r) ==
    /\ At(r, "parsed")
    /\ dsl' = [dsl EXCEPT ![reader[r].obj] = IF @ = None THEN reader[r].tree ELSE @]
    /\ Go(r, "done")
    /\ UNCHANGED <<store, loaded, params, engines, loader, cell, cells,
                   others, faults, history>>

-----------------------------------------------------------------------------
(* An index run and a removal, as readers see them *)

RunBegins ==
    /\ run.pc = "idle" /\ runs < MaxRuns
    /\ runs' = runs + 1
    /\ loaded' = Loaded
    /\ run' = [run EXCEPT !.pc = "open", !.obj = Loaded]
    /\ UNCHANGED <<store, params, dsl, engines, loader, cell, cells,
                   reader, remover, removals, faults, history>>

RunOpens ==
    /\ run.pc = "open"
    /\ table' = Opened(Dim(Primary))
    /\ run' = [run EXCEPT !.pc = "append"]
    /\ UNCHANGED <<row, caches, reader, remover, removals, runs,
                   faults, loads, late>>

\* the append fails if the table it was opened for is gone
RunAppends ==
    /\ run.pc = "append"
    /\ IF table # None /\ table.dim = Dim(Primary)
       THEN /\ table' = [table EXCEPT !.full = TRUE]
            /\ run' = [run EXCEPT !.pc = "publish"]
       ELSE /\ run' = [run EXCEPT !.pc = "idle"]
            /\ UNCHANGED table
    /\ UNCHANGED <<row, caches, reader, remover, removals, runs,
                   faults, history>>

\* upsert_project: the model, the method that was chosen
RunPublishes ==
    /\ run.pc = "publish"
    /\ \E m \in Methods : row' = [model |-> Primary, method |-> m, run |-> runs]
    /\ run' = [run EXCEPT !.pc = "reset"]
    /\ late' = IF loaded \in {None, run.obj} THEN late ELSE late \cup {loaded}
    /\ UNCHANGED <<table, caches, reader, remover, removals, runs, faults, loads>>

\* Slip: the handler leaves the parameters.
RunKeepsParams ==
    /\ run.pc = "reset"
    /\ run' = [run EXCEPT !.pc = "idle"]
    /\ UNCHANGED <<store, caches, reader, remover, removals, runs,
                   faults, history>>

RunResets ==
    /\ run.pc = "reset"
    /\ params' = [params EXCEPT ![run.obj] = None]
    /\ late' = late \ {run.obj}
    /\ run' = [run EXCEPT !.pc = "idle"]
    /\ UNCHANGED <<store, loaded, dsl, engines, loader, cell, cells,
                   reader, remover, removals, runs, faults, loads>>

\* an error, or the client is gone; the parameters are left as they are
RunStops ==
    /\ run.pc # "idle" /\ Fault
    /\ late' = IF run.pc = "reset" THEN late \cup {run.obj} ELSE late
    /\ run' = [run EXCEPT !.pc = "idle"]
    /\ UNCHANGED <<store, caches, reader, remover, removals, runs,
                   loads>>

\* remove_project::handle: the cell first, the registry next, then the files
Invalidate ==
    /\ remover = "idle" /\ removals < MaxRemovals /\ row # None
    /\ cell' = None
    /\ remover' = "registry"
    /\ UNCHANGED <<store, loaded, params, dsl, engines, loader, cells,
                   reader, run, removals, runs, faults, history>>

Unload ==
    /\ remover = "registry"
    /\ loaded' = None /\ removals' = removals + 1
    /\ remover' = "files"
    /\ UNCHANGED <<store, params, dsl, engines, loader, cell, cells,
                   reader, run, runs, faults, history>>

RemoveFiles ==
    /\ remover = "files"
    /\ table' = None /\ row' = None
    /\ remover' = "idle"
    /\ UNCHANGED <<caches, reader, run, removals, runs, faults,
                   loads, late>>

-----------------------------------------------------------------------------
ReaderStep(r) ==
    \/ ReadRow(r) \/ FindEngine(r) \/ LockLoad(r) \/ LoadEngine(r) \/ LoadFails(r)
    \/ EmbedFails(r) \/ ReadParams(r) \/ StoreParams(r)
    \/ OpenTable(r) \/ FindCell(r) \/ BeginBuild(r) \/ Build(r) \/ BuildFails(r)
    \/ UseGraph(r) \/ Fetch(r) \/ OpenAgain(r)
    \/ FindIndex(r) \/ StoreIndex(r)

RunStep == RunBegins \/ RunOpens \/ RunAppends \/ RunPublishes \/ RunResets \/ RunStops
RemoverStep == Invalidate \/ Unload \/ RemoveFiles

Next ==
    \/ \E r \in Readers :
          \/ \E kind \in Kinds(r) : Ask(r, kind)
          \/ ReaderStep(r)
    \/ RunStep \/ RemoverStep

Spec == Init /\ [][Next]_vars

-----------------------------------------------------------------------------
(* Properties *)

\* The lock is with a reader that loads, a cell's builder is building it, and
\* nobody waits on a cell that does not exist.
TypeOK ==
    /\ loaded \in Objects \cup {None} /\ cell \in Cells \cup {None}
    /\ engines \subseteq Models /\ Primary \in engines
    /\ loader \in Readers \cup {None}
    /\ \A r \in Readers :
          /\ At(r, "load") <=> loader = r
          /\ reader[r].pc \in {"graph", "build"} => reader[r].cell \in Cells
          /\ At(r, "build") <=> \E c \in Cells : cells[c].builder = r

\* state.rs:131-139: a model is loaded once, however many requests ask for it
\* at the same time.
OneLoad == \A m \in Models : loads[m] <= 1

\* index.rs:91, search.rs:63-79: the parameters a search is given are those of
\* the project row, unless a search stored what it had read before the latest
\* run, or that run was cut off before it reset them, or the project was removed
\* and opened again under it.
ParamsFollowRow ==
    loaded # None /\ row # None /\ params[loaded] # None =>
        \/ params[loaded].run = row.run
        \/ loaded \in late
        \/ run.pc = "reset"

\* cache.rs:26-41: however searches, failed builds and runs overlap, a project
\* has one graph, and one more for each time a removal has forgotten its cell.
Forgotten == removals + IF remover = "registry" THEN 1 ELSE 0
OneGraph == Cardinality({c \in Cells : cells[c].graph # None}) <= Forgotten + 1

\* chunks_table.rs:90-99: a request that only reads drops rows only if they are
\* not of the model the project row names, which is so while a run under another
\* model is on its way; or if its own view of the row is outdated; or if doctor
\* has fallen back on the primary model.
RowsOfTheRow == row # None /\ table # None /\ table.dim = Dim(row.model)

KeepsRows ==
    \A r \in Readers :
        reader[r] # reader'[r] /\ RowsOfTheRow /\ table.full /\ table' # table
        => reader[r].row # row \/ Kind(r) = "doctor"
ReadersKeepRows == [][KeepsRows]_vars

\* README.md:347: doctor diagnoses the index, it does not change it.
DoctorKeepsRows ==
    [][\A r \in Readers :
          reader[r] # reader'[r] /\ Kind(r) = "doctor" /\ table # None
          => table' = table]_vars

\* state.rs:131, cache.rs:38: no lock and no cell keeps a request waiting for
\* good, whoever fails while holding it.  Who waits for load_lock, or for the cell
\* of the graph, waits for a reader that loads, or builds in that cell, and waits
\* for nobody.  (The variables are of their types.)
Waits(r) ==
    \/ reader[r].pc = "lock" /\ loader # None
    \/ reader[r].pc = "graph" /\ cells[reader[r].cell].builder # None

WaitersServed ==
    \A r \in Readers : Waits(r) =>
        \E q \in Readers :
            /\ reader[q].pc \in {"load", "build"} /\ ~Waits(q)
            /\ \/ reader[r].pc = "lock" /\ loader = q
               \/ reader[r].pc = "graph" /\ cells[reader[r].cell].builder = q

NobodyWaits == TypeOK /\ WaitersServed

\* As long as one request is not over, one can move.
NobodyStuck ==
    (\E r \in Readers : reader[r].pc \notin {"idle", "done"})
    => \E r \in Readers : ENABLED ReaderStep(r)

=============================================================================
