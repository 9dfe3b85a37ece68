------------------------------ MODULE MCOutputs ------------------------------
(***************************************************************************)
(* Instances of Outputs.                                                   *)
(***************************************************************************)
EXTENDS Outputs, TLC

Symmetry == Permutations(Outputs)

\* asked, answered and news describe a step and influence none.
View == <<out, list, present, home, current, lock, overrides, told, missed, crash>>
=============================================================================
