------------------------------ MODULE MCControl ------------------------------
(* Instances of Control for TLC: views, outputs, names and marks are alike. *)
EXTENDS Control, TLC

Symmetry ==
    Permutations(Views) \cup Permutations(Outputs) \cup Permutations(Names) \cup Permutations(Marks)
=============================================================================
