------------------------------ MODULE DslIndex ------------------------------
(***************************************************************************)
(* The symbol index of zrag-dsl: every source file is parsed once, the     *)
(* symbols and call edges of all files are put together, the edges are     *)
(* resolved by name, and symbols are then looked up, shown with their      *)
(* call chains and callees, listed as a tree and cut into chunks.          *)
(*                                                                         *)
(* A path such as T::a is a sequence of names.  A symbol is a function at  *)
(* the top of its file, a type, or a member of the last type before it,    *)
(* as the walker emits them; it makes at most one call.  Formatting,       *)
(* budgets in tokens and manifests are left out.                           *)
(***************************************************************************)
EXTENDS Integers, Sequences, FiniteSets, SequencesExt, FiniteSetsExt

CONSTANTS
    Layout,         \* the files, in order: [crate, mods, stem, dirs, rust]
    FileIds,        \* how many numbers a file index has (2^16 in the code)
    Names,          \* names of functions
    Type,           \* the name of the one type a file may declare
    Lookups,        \* paths that a body may call
    MaxSymbols,     \* bound: symbols of the whole project
    MaxDepth        \* bound: depth of a rendered call tree

Paths == Seq(STRING)
IndexAssumption ==
    /\ Layout \in Seq([crate : STRING, mods : Paths, stem : STRING, dirs : Paths, rust : BOOLEAN])
    /\ Layout # <<>> /\ FileIds \in Nat \ {0} /\ Names \cup {Type} \subseteq STRING /\ Type \notin Names
    /\ Lookups \subseteq Paths
    /\ MaxSymbols \in Nat /\ MaxDepth \in Nat

VARIABLES
    next,           \* the source that is parsed next
    files,          \* FileEntry of each parsed source: [layout, imports]
    symbols,        \* [id, name, qualified, file, parent], and the place of their source
    edges,          \* [from, to], to an unresolved path; then [from, called, to]
    resolved        \* whether the edges have been resolved

vars == <<next, files, symbols, edges, resolved>>

Init ==
    /\ next = 1 /\ files = <<>> /\ symbols = <<>> /\ edges = {} /\ resolved = FALSE

FileOf(s) == files[s.file + 1]

\* Slip: the index counts the sources, not the parsed files.
FileIndexOfSource == (next - 1) % FileIds

\* The index of the file that is being parsed: "files.len() as u16", which wraps.
FileIndex == Len(files) % FileIds

\* What a parse returns: ids from the offset on, members under their type.
Shapes == {<<n>> : n \in Names \cup {Type}} \cup {<<Type, n>> : n \in Names}
TypesBefore(shape, i) == {j \in 1..(i - 1) : shape[j] = <<Type>>}
SymbolsOf(shape) ==
    [i \in DOMAIN shape |->
        [id |-> Len(symbols) + i - 1, name |-> Last(shape[i]), qualified |-> shape[i],
         file |-> FileIndex, source |-> next,
         parent |-> IF Len(shape[i]) = 1 THEN {}
                    ELSE {Len(symbols) + Max(TypesBefore(shape, i)) - 1}]]
EdgesOf(calls) ==
    {[from |-> Len(symbols) + i - 1, to |-> calls[i]] : i \in {j \in DOMAIN calls : calls[j] # <<>>}}

ParseFile ==
    /\ next <= Len(Layout)
    /\ \E k \in 0..(MaxSymbols - Len(symbols)) :
       \E shape \in [1..k -> Shapes], calls \in [1..k -> Lookups \cup {<<>>}],
          imports \in {<<>>} \cup {<<n, Layout[1].stem>> : n \in Names} :
         /\ \A i \in 1..k : Len(shape[i]) = 2 => TypesBefore(shape, i) # {}
         /\ imports # <<>> => k > 0 /\ next > 1
         /\ files' = Append(files, [layout |-> Layout[next], imports |-> imports])
         /\ symbols' = symbols \o SymbolsOf(shape)
         /\ edges' = edges \cup EdgesOf(calls)
    /\ next' = next + 1
    /\ UNCHANGED resolved

\* The parser gives up: no FileEntry, so the next file takes its index.
ParseFails ==
    /\ next <= Len(Layout)
    /\ next' = next + 1
    /\ UNCHANGED <<files, symbols, edges, resolved>>

-----------------------------------------------------------------------------

NonModule == {"lib", "main", "mod", "index"}
SrcRoot == {"src", "lib", "app", "source", "Sources", "include"}

\* The directories without the ones that only hold sources.
OwnDirs(dirs) ==
    LET upto[i \in 0..Len(dirs)] ==
            IF i = 0 THEN <<>>
            ELSE IF dirs[i] \in SrcRoot THEN upto[i - 1] ELSE Append(upto[i - 1], dirs[i])
    IN upto[Len(dirs)]

\* symbol_lookup_aliases and push_rust_crate_alias
SymbolLookupAliases(s) ==
    LET f == FileOf(s).layout
        dirs == OwnDirs(f.dirs)
    IN (IF f.stem # s.name THEN {<<f.stem, s.name>>} ELSE {})
       \cup (IF dirs = <<>> THEN {}
             ELSE {dirs \o s.qualified}
                  \cup IF f.stem \in NonModule THEN {} ELSE {dirs \o <<f.stem>> \o s.qualified})
       \cup (IF f.rust THEN {<<f.crate>> \o f.mods \o s.qualified} ELSE {})

\* Slip: names are counted within one file.
IsUniqueInFile(s) ==
    Cardinality({i \in 1..Len(symbols) : symbols[i].name = s.name /\ symbols[i].file = s.file}) = 1

IsUnique(s) == Cardinality({i \in 1..Len(symbols) : symbols[i].name = s.name}) = 1

\* The keys under which a symbol offers itself to qualified_map.
KeysOf(s) ==
    SymbolLookupAliases(s)
    \cup (IF s.qualified # <<s.name>> \/ IsUnique(s) THEN {s.qualified} ELSE {})
    \cup (IF IsUnique(s) THEN {<<s.name>>} ELSE {})

\* qualified_map: the first symbol that offers a key keeps it.
QualifiedMap(key) ==
    LET offering == {i \in 1..Len(symbols) : key \in KeysOf(symbols[i])}
    IN IF offering = {} THEN {} ELSE {Min(offering) - 1}

\* rewrite_relative_path: crate::, self:: and one super:: of a Rust file
RewriteRelativePath(path, f) ==
    IF Len(path) < 2 \/ ~f.rust THEN path
    ELSE CASE Head(path) = "crate" -> <<f.crate>> \o Tail(path)
           [] Head(path) = "self" -> <<f.crate>> \o f.mods \o Tail(path)
           [] Head(path) = "super" ->
                <<f.crate>> \o (IF f.mods = <<>> THEN <<>> ELSE Front(f.mods)) \o Tail(path)
           [] OTHER -> path

ProjectCrates == {files[i].layout.crate : i \in {j \in 1..Len(files) : files[j].layout.rust}}

ResolveViaImports(path, file) ==
    IF Len(path) # 1 \/ file.imports = <<>> \/ path[1] # file.imports[1] THEN {}
    ELSE LET source == <<file.imports[2]>>
         IN IF QualifiedMap(source) # {} THEN QualifiedMap(source)
            ELSE QualifiedMap(source \o path)

ResolveInSameFile(path, from) ==
    LET own == {i \in 1..Len(symbols) : symbols[i].file = from.file /\ <<symbols[i].name>> = path}
    IN IF own = {} THEN {} ELSE {Min(own) - 1}

ResolveByLeaf(path) ==
    IF Len(path) > 1 /\ Head(path) \in ProjectCrates THEN QualifiedMap(<<Last(path)>>) ELSE {}

\* The first of a sequence of partial answers.
FirstOf(answers) ==
    LET some == {i \in 1..Len(answers) : answers[i] # {}}
    IN IF some = {} THEN {} ELSE answers[Min(some)]

Target(e) ==
    LET from == symbols[e.from + 1]
        path == RewriteRelativePath(e.to, FileOf(from).layout)
    IN FirstOf(<<QualifiedMap(path), ResolveViaImports(path, FileOf(from)),
                 ResolveInSameFile(path, from), ResolveByLeaf(path)>>)

\* Every edge gets the symbol it names, or becomes external.
ResolveEdges ==
    /\ next > Len(Layout) /\ ~resolved
    /\ resolved' = TRUE
    /\ edges' = {[from |-> e.from, called |-> e.to, to |-> Target(e)] : e \in edges}
    /\ UNCHANGED <<next, files, symbols>>

Next == ParseFile \/ ParseFails \/ ResolveEdges

Spec == Init /\ [][Next]_vars

-----------------------------------------------------------------------------

Ids == {symbols[i].id : i \in 1..Len(symbols)}
Callers(id) == {e.from : e \in {f \in edges : f.to = {id}}}
Callees(id) == UNION {e.to : e \in {f \in edges : f.from = id}}

\* has_incoming as the code fills it: reverse edges carry the caller in "to".
HasIncoming == UNION {Callers(id) : id \in Ids}

\* collect_paths_to: simple paths back through callers, of at most depth symbols.
PathsBack(target, depth) ==
    {p \in UNION {[1..k -> Ids] : k \in 1..depth} :
       /\ p[1] = target /\ IsInjective(p)
       /\ \A i \in 1..(Len(p) - 1) : p[i + 1] \in Callers(p[i])}

CallChains(target, depth) ==
    {Reverse(p) : p \in {q \in PathsBack(target, depth) :
                           Callers(Last(q)) = {} /\ Last(q) \notin HasIncoming}}

\* recurse: a call tree in one direction, each symbol expanded once.
Recurse(callers, root) ==
    LET tree[id \in Ids, depth \in 0..MaxDepth, seen \in SUBSET Ids] ==
            IF depth = MaxDepth \/ id \in seen THEN [seen |-> seen, lines |-> <<>>]
            ELSE FoldLeft(
                   LAMBDA done, other :
                     LET below == tree[other, depth + 1, done.seen]
                     IN [seen |-> below.seen, lines |-> done.lines \o <<other>> \o below.lines],
                   [seen |-> seen \cup {id}, lines |-> <<>>],
                   SetToSortSeq(IF callers THEN Callers(id) ELSE Callees(id), <))
    IN tree[root, 0, {}]

\* render: every top symbol of every file, each followed by its children.
Rendered ==
    LET children(id) == {i \in Ids : symbols[i + 1].parent = {id}}
        top(f) == {i \in Ids : symbols[i + 1].file = f /\ symbols[i + 1].parent = {}}
        node(id) == <<id>> \o SetToSortSeq(children(id), <)
    IN FlattenSeq([f \in 1..Len(files) |->
         FlattenSeq([i \in 1..Cardinality(top(f - 1)) |-> node(SetToSortSeq(top(f - 1), <)[i])])])

\* resolve_name: a key of the map, else every symbol of that name
ResolveName(path) ==
    IF QualifiedMap(path) # {} THEN QualifiedMap(path)
    ELSE {i \in Ids : <<symbols[i + 1].name>> = path \/ symbols[i + 1].qualified = path}

\* candidate_aliases: the names that render_candidates offers for a symbol
CandidateAliases(s) ==
    LET own == {k \in KeysOf(s) \cup {s.qualified} :
                  QualifiedMap(k) = {s.id} /\ (IsUnique(s) \/ Len(k) > 1)}
    IN IF own = {} THEN {s.qualified} ELSE own

-----------------------------------------------------------------------------

\* A call by a plain name that no import explains goes to the only symbol of that
\* name, when the name is ambiguous to the first with the caller's file index, or
\* stays external.
PlainNamesResolve ==
    resolved =>
      \A e \in edges :
        LET from == symbols[e.from + 1]
            named == {s \in Ids : <<symbols[s + 1].name>> = e.called}
            local == {s \in named : symbols[s + 1].file = from.file}
        IN Len(e.called) = 1 /\ FileOf(from).imports = <<>> =>
             e.to = IF Cardinality(named) = 1 THEN named
                    ELSE IF local = {} THEN {} ELSE {Min(local)}

\* A plain name finds every symbol that bears it, whatever aliases others have.
NamesFound ==
    next > Len(Layout) =>
      \A n \in Names \cup {Type} :
        ResolveName(<<n>>) = {i \in Ids : symbols[i + 1].name = n}

\* The symbols that calls lead to from a symbol, or back to in the other direction.
Reached(callers, id) ==
    LET step(s) == UNION {IF callers THEN Callers(i) ELSE Callees(i) : i \in s}
        within[k \in 1..Len(symbols)] == IF k = 1 THEN step({id}) ELSE within[k - 1] \cup step(within[k - 1])
    IN within[Len(symbols)]

\* Cycles and symbols that are called from several places end no tree early: a tree
\* with room for every symbol shows each that calls lead to, and nothing else.
TreesComplete ==
    resolved /\ Len(symbols) <= MaxDepth =>
      \A id \in Ids, callers \in BOOLEAN :
        ToSet(Recurse(callers, id).lines) = Reached(callers, id)

\* The file index of a symbol names the file it was parsed from: not where the
\* indexes wrap.
UnderOwnFile == \A s \in ToSet(symbols) : FileOf(s).layout = Layout[s.source]

\* Ids are positions and the tree lists every symbol once, whatever failed to parse
\* before; under its own file while the indexes do not wrap.
EverySymbolRendered ==
    /\ \A i \in 1..Len(symbols) : symbols[i].id = i - 1 /\ symbols[i].file < Len(files)
    /\ Len(Rendered) = Len(symbols) /\ ToSet(Rendered) = Ids
    /\ Len(files) <= FileIds => UnderOwnFile

\* The comment at render_call_chains: chains lead from the symbols that nobody in
\* the project calls, so a symbol with such a caller within reach has a chain.
ChainsFromEntryPoints ==
    resolved =>
      \A id \in Ids :
        (\E p \in PathsBack(id, MaxDepth) : Callers(Last(p)) = {})
          => CallChains(id, MaxDepth) # {}

\* The header of render_candidates: "call searchDep again with one of these exact
\* names" leads to the symbol the name was offered for.
CandidatesLead ==
    resolved =>
      \A n \in Names : Cardinality(ResolveName(<<n>>)) > 1 =>
        \A id \in ResolveName(<<n>>) :
          \A k \in CandidateAliases(symbols[id + 1]) : ResolveName(k) = {id}

=============================================================================
