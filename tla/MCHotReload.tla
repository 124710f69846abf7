---------------------------- MODULE MCHotReload ----------------------------
(* The hot-reloaded surfaces for TLC. *)
EXTENDS Surfaces, TLC

\* Requests are interchangeable, and so are editors and the ids of rows.
Symmetry == Permutations(Readers) \cup Permutations(Editors) \cup Permutations(Apps)
=============================================================================
