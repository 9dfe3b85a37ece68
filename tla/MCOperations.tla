---------------------------- MODULE MCOperations ----------------------------
(***************************************************************************)
(* Instances of Operations.                                                *)
(***************************************************************************)
EXTENDS Operations, TLC

Symmetry == {p @@ q : p \in Permutations(Views), q \in Permutations(Outputs)}
=============================================================================
