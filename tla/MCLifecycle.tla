----------------------------- MODULE MCLifecycle -----------------------------
(* Small instances of Lifecycle: which versions the clients have. *)
EXTENDS Lifecycle, TLC

CONSTANTS c1, c2

\* daemons and files have no identity of their own
Interchangeable == Permutations(Daemons) \cup Permutations(Files)

MCClients == {c1, c2}

\* one build of zebrarag, or an upgrade between two clients
SameVersion == [c \in MCClients |-> 1]
TwoVersions == (c1 :> 1) @@ (c2 :> 2)

==============================================================================
