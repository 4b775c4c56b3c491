----------------------------- MODULE MCSessions -----------------------------
(* Instances of Sessions for TLC. *)
EXTENDS Sessions, TLC

MCSymmetry ==
    Permutations(Clients) \cup Permutations(Autos) \cup Permutations(Objects)
=============================================================================
