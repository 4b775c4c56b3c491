------------------------------ MODULE Catalog ------------------------------
(***************************************************************************)
(* What the tables of one project promise to a later run of the indexer,   *)
(* without the run: the "files" rows are a catalog, and a file is listed   *)
(* in it only while everything it was cut into is stored.  The next run    *)
(* skips a listed file whose content has not changed                       *)
(* (crates/zrag-pipeline/src/manifest.rs, detect_changes), so a listed     *)
(* file with a missing chunk would never become searchable.                *)
(***************************************************************************)
EXTENDS Sequences

CONSTANTS Files, Bodies, Contents, Absent

VARIABLES
    listed,     \* file -> the content it is listed with, or Absent
    stored      \* the <<file, body>> pairs that can be searched

vars == <<listed, stored>>

Empty == [f \in Files |-> Absent]

PartsOf(f, content) == {<<f, content[i]>> : i \in DOMAIN content}

Init == listed = Empty /\ stored = {}

Store(parts) ==
    /\ stored' = stored \cup parts
    /\ UNCHANGED listed

\* list the files of `done` with the contents `now` gives them
List(done, now) ==
    /\ \A f \in done : now[f] # Absent => PartsOf(f, now[f]) \subseteq stored
    /\ listed' = [f \in Files |-> IF f \in done THEN now[f] ELSE listed[f]]
    /\ UNCHANGED stored

Unlist(gone) ==
    /\ listed' = [f \in Files |-> IF f \in gone THEN Absent ELSE listed[f]]
    /\ UNCHANGED stored

\* parts may go once no listed file is made of them
Discard(parts) ==
    /\ \A f \in Files : listed[f] # Absent =>
          PartsOf(f, listed[f]) \cap parts = {}
    /\ stored' = stored \ parts
    /\ UNCHANGED listed

Next ==
    \/ \E parts \in SUBSET (Files \X Bodies) : Store(parts) \/ Discard(parts)
    \/ \E done \in SUBSET Files, now \in [Files -> Contents \cup {Absent}] :
          List(done, now)
    \/ \E gone \in SUBSET Files : Unlist(gone)

Spec == Init /\ [][Next]_vars

=============================================================================
