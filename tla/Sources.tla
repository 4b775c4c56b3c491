------------------------------ MODULE Sources -------------------------------
(***************************************************************************)
(* Which files of a project count, said three times over in the code: by   *)
(* the walk of an index run (walk_source_files), by the watcher that       *)
(* decides whether an edit is worth a run (is_index_candidate), and by the *)
(* index of symbols behind the tree requests (build_index).  The files     *)
(* come and go; the watcher computed the Foundry roots when it opened the  *)
(* project, and the symbol index is built once.                            *)
(*                                                                         *)
(* A path is its directories and a name; a name is split into words and    *)
(* the ".", "-" and "_" between them.                                      *)
(***************************************************************************)
EXTENDS Integers, Sequences, FiniteSets, SequencesExt

CONSTANTS
    Paths,          \* [dirs, name], relative to the root of the project
    HiddenDirs,     \* directories whose names begin with a dot
    GitIgnored,     \* the paths that .gitignore excludes
    Unreadable,     \* files that are not text, or PDFs without any
    MaxEdits

SourcesAssumption ==
    /\ MaxEdits \in Nat
    /\ GitIgnored \cup Unreadable \subseteq Paths
    /\ \A p \in Paths : p.dirs \in Seq(STRING) /\ p.name \in Seq(STRING) /\ Len(p.name) > 0

VARIABLES
    disk,           \* the files that exist
    stored,         \* the indexed files, each with its file type
    watched,        \* Watched.foundry_roots
    edited,         \* files touched since the last run
    scheduled,      \* whether a run is due
    symbols,        \* files of LoadedProject.dsl_index, or {} before its first use
    edits

vars == <<disk, stored, watched, edited, scheduled, symbols, edits>>

-----------------------------------------------------------------------------
(* Names.                                                                    *)

HasWords(name, words) == \E i \in 0..Len(name) : IsPrefix(words, SubSeq(name, i + 1, Len(name)))
Ends(name, words) == IsSuffix(words, name)
HasExtension(name) == Len(name) > 2 /\ name[Len(name) - 1] = "."
Extension(name) == IF HasExtension(name) THEN Last(name) ELSE "none"

ManifestNames ==
    {<<"Cargo", ".", "toml">>, <<"pubspec", ".", "yaml">>, <<"package", ".", "json">>,
     <<"foundry", ".", "toml">>}

IsLockFile(name) == Ends(name, <<".", "lock">>) \/ HasWords(name, <<"-", "lock", ".">>)
IsLicenseFile(name) == name[1] = "LICENSE" /\ (Len(name) > 1 => name[2] # "_")
IsAsset(name) ==
    HasExtension(name) /\ Last(name) \in {"svg", "ico", "woff", "woff2", "ttf", "eot", "otf"}

IsGeneratedFile(name) ==
    \/ IsPrefix(<<"frb", "_", "generated">>, name)
    \/ \E w \in {"freezed", "g", "pb", "pbjson", "pbserver", "grpc"} : Ends(name, <<".", w, ".", "dart">>)
    \/ \E w \in {"gen", "generated"}, e \in {"dart", "ts"} : Ends(name, <<".", w, ".", e>>)
    \/ \E e \in {"js", "css"} : Ends(name, <<".", "min", ".", e>>)
    \/ \E e \in {"arb", "mo"} : Ends(name, <<".", e>>)

IsIgnoredBasename(name) ==
    \/ name[1] = "." \/ name \in ManifestNames
    \/ IsLockFile(name) \/ IsLicenseFile(name) \/ IsAsset(name) \/ IsGeneratedFile(name)

-----------------------------------------------------------------------------
(* Directories.                                                              *)

SkipDirs ==
    {"node_modules", "vendor", "third_party", "Pods", ".pub-cache", ".dart_tool", "target",
     "DerivedData", ".gradle", "__pycache__", ".mypy_cache", ".pytest_cache", ".ruff_cache",
     "venv", ".venv", "env", "virtualenv", ".terraform", "_build", "deps"}

Platforms == {"ios", "android", "macos", "linux", "windows", "web", "rust_builder", "fastlane"}

\* A name of one word can be mistaken for a directory's.
Components(p) == Append(p.dirs, IF Len(p.name) = 1 THEN p.name[1] ELSE "file")

Hidden(p) == p.name[1] = "." \/ \E i \in DOMAIN p.dirs : p.dirs[i] \in HiddenDirs
Visible(p) == ~Hidden(p) /\ p \notin GitIgnored

FoundryRoots(d) == {p.dirs : p \in {q \in d : q.name = <<"foundry", ".", "toml">> /\ Visible(q)}}

IsDependencyPath(roots, p) ==
    \E r \in roots : /\ IsStrictPrefix(r, Components(p))
                     /\ Components(p)[Len(r) + 1] \in {"lib", "cache", "out"}

\* root.join("lib").exists() || root.join("src").exists()
HasLibOrSrc(d) == \E p \in d : Components(p)[1] \in {"lib", "src"}
IsPlatformScaffolding(d, p) == HasLibOrSrc(d) /\ p.dirs # <<>> /\ p.dirs[1] \in Platforms

-----------------------------------------------------------------------------
(* The walk, the watcher and the symbol index.                               *)

\* walk_source_files
Walk(d) ==
    LET roots == FoundryRoots(d) IN
    {p \in d : /\ Visible(p) /\ p \notin Unreadable
               /\ \A i \in DOMAIN p.dirs : p.dirs[i] \notin SkipDirs
               /\ ~IsPlatformScaffolding(d, p)
               /\ ~IsDependencyPath(roots, p)
               /\ ~IsIgnoredBasename(p.name)}

HasIgnoredComponent(p) ==
    Hidden(p) \/ \E i \in DOMAIN Components(p) : Components(p)[i] \in SkipDirs

\* Slip: the watcher drops the directories of the platforms whether or not lib/ or src/ exist.
CandidateOffPlatforms(roots, p) ==
    /\ ~HasIgnoredComponent(p) /\ ~IsDependencyPath(roots, p) /\ ~IsIgnoredBasename(p.name)
    /\ p.dirs = <<>> \/ p.dirs[1] \notin Platforms

IsIndexCandidate(roots, p) ==
    ~HasIgnoredComponent(p) /\ ~IsDependencyPath(roots, p) /\ ~IsIgnoredBasename(p.name)

\* detect_from_path
CodeExtensions ==
    {"rs", "ts", "tsx", "dart", "sol", "py", "js", "jsx", "mjs", "cjs", "go", "ml", "scilla",
     "scillib", "scilexp", "mli"}
IsCode(name) == Extension(name) \in CodeExtensions

TestDirs == {"test", "tests", "__tests__", "spec", "e2e", "integration_test"}
IsTestPath(p) ==
    \/ \E i \in DOMAIN Components(p) : Components(p)[i] \in TestDirs
    \/ Ends(p.name, <<".", "t", ".", "sol">>)
    \/ \E e \in {"go", "rs"} : Ends(p.name, <<"_", "test", ".", e>>)
    \/ \E w \in {"test", "spec"} : HasWords(p.name, <<".", w, ".">>)
    \/ IsPrefix(<<"test", "_">>, p.name)

\* rsplit('.') of the path: a file of one word at the root is its own extension
TextExtension(p) == IF p.dirs = <<>> /\ Len(p.name) = 1 THEN p.name[1] ELSE Extension(p.name)

\* classify_kind, classify_file_type and classify_text
FileType(p) ==
    IF IsTestPath(p) THEN "test"
    ELSE IF IsCode(p.name) THEN "source"
    ELSE IF TextExtension(p) \in {"toml", "yaml", "yml", "json", "ini", "cfg", "env"} THEN "config"
    ELSE "doc"

\* index.rs: SKIP_DIRS, and extra_skip_dirs of the languages
TreeSkipDirs == {".git", "node_modules", "target", "build", "dist", ".cache"}
ExtraSkipDirs(ext) ==
    CASE ext = "go" -> {"vendor"}
      [] ext \in {"js", "jsx", "mjs", "cjs"} -> {"node_modules"}
      [] ext = "py" -> {"__pycache__", ".mypy_cache", ".pytest_cache", "venv", ".venv"}
      [] ext \in {"ml", "scilla", "scillib", "scilexp", "mli"} -> {"_build"}
      [] ext = "sol" -> {"lib", "out", "cache", "broadcast"}
      [] OTHER -> {}

\* build_index: the code files it parses (the text files it also returns are dropped)
Tree(d) ==
    {p \in d : /\ Visible(p) /\ IsCode(p.name) /\ p \notin Unreadable
               /\ \A i \in DOMAIN p.dirs : p.dirs[i] \notin TreeSkipDirs
               /\ \A i \in DOMAIN Components(p) :
                      Components(p)[i] \notin ExtraSkipDirs(Extension(p.name))}

\* collect_manifest_paths: hidden ones too, and the directories that any of Rust,
\* TypeScript, Dart and Solidity skips are skipped for every manifest
Manifests(d) ==
    {p \in d \ GitIgnored :
        /\ p.name \in ManifestNames
        /\ \A i \in DOMAIN p.dirs : p.dirs[i] \notin TreeSkipDirs \cup ExtraSkipDirs("sol")}

-----------------------------------------------------------------------------
(* Steps.                                                                    *)

Rows(d) == [p \in Walk(d) |-> FileType(p)]

\* The project is opened: indexed, and watched.
Init ==
    /\ disk \in SUBSET Paths
    /\ stored = Rows(disk) /\ watched = FoundryRoots(disk)
    /\ edited = {} /\ scheduled = FALSE /\ symbols = {} /\ edits = 0

\* A file is written, created or removed, and event_loop sees its path.
Edit(p) ==
    /\ edits < MaxEdits
    /\ edits' = edits + 1
    /\ disk' \in {disk \cup {p}, disk \ {p}}
    /\ p \in disk \cup disk'
    /\ edited' = edited \cup {p}
    /\ scheduled' = (scheduled \/ IsIndexCandidate(watched, p))
    /\ UNCHANGED <<stored, watched, symbols>>

\* The run that schedule_reindex starts.
Reindex ==
    /\ scheduled
    /\ scheduled' = FALSE /\ edited' = {}
    /\ stored' = Rows(disk)
    /\ UNCHANGED <<disk, watched, symbols, edits>>

\* A run that a client asks for (IndexProject), whatever is scheduled.
RunOnRequest ==
    /\ edited' = {}
    /\ stored' = Rows(disk)
    /\ UNCHANGED <<disk, watched, scheduled, symbols, edits>>

\* ensure_dsl_index, for the first request that needs it.  An entry that cannot be read
\* fails the whole build: nothing is kept, a stutter, and the next request tries again.
BuildIndex ==
    /\ symbols = {}
    /\ symbols' = Tree(disk)
    /\ UNCHANGED <<disk, stored, watched, edited, scheduled, edits>>

Next == (\E p \in Paths : Edit(p)) \/ Reindex \/ RunOnRequest \/ BuildIndex

Spec == Init /\ [][Next]_vars

-----------------------------------------------------------------------------
(* Properties.                                                               *)

\* An edit of a file that the walk takes, or took, is not missed: while the index has not
\* seen it, a run is due.  Two cases are left out, in which the code does miss it: a file
\* that bears the name of a skipped directory, and one in a dependency directory of a Foundry
\* root that the watcher knows and that is gone (or was, when the walk last took the file).
EditsSeen ==
    ~scheduled => \A p \in edited \cap (Walk(disk) \cup DOMAIN stored) :
        \/ Components(p)[Len(Components(p))] \in SkipDirs
        \/ IsDependencyPath(IF p \in Walk(disk) THEN watched \ FoundryRoots(disk) ELSE watched, p)

\* A file that search calls source has its symbols in an index built now, unless it lies
\* where build_index does not look.
SourcesHaveSymbols ==
    \A p \in DOMAIN stored :
        stored[p] = "source" /\ p \in disk =>
            \/ p \in Tree(disk)
            \/ \E i \in DOMAIN Components(p) :
                  Components(p)[i] \in TreeSkipDirs \cup ExtraSkipDirs(Extension(p.name))

\* With no run due the index has the files that a walk would find.  Refuted: see EditsSeen,
\* and the files that come and go with a foundry.toml or with lib/ and src/.
IndexFollowsDisk == ~scheduled => edited = {} \/ DOMAIN stored = Walk(disk)

\* A manifest that the walk drops is rendered with the project (manifest.rs:13-16).
\* Refuted: not one in a directory that build_index skips, such as lib/.
ManifestsRendered ==
    \A p \in disk : p.name \in ManifestNames /\ Visible(p)
                      /\ (\A i \in DOMAIN p.dirs : p.dirs[i] \notin SkipDirs) => p \in Manifests(disk)

=============================================================================
