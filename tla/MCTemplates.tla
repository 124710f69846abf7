---------------------------- MODULE MCTemplates ----------------------------
(* The templates table for TLC: two templates of two formats and who may   *)
(* write them, or two profiles of one format and the copies of them.       *)
EXTENDS TemplateSurfaces, TLC

MCFormatOf == [k \in Keys |-> IF k = "clash/default" THEN "clash" ELSE "happ"]
MCOrder == <<"clash", "happ">>

\* Requests are interchangeable.
Symmetry == Permutations(Readers) \cup Permutations(Savers)
=============================================================================
