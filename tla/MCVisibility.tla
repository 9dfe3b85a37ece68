---------------------------- MODULE MCVisibility ----------------------------
(***************************************************************************)
(* Instances of Visibility.                                                *)
(***************************************************************************)
EXTENDS Visibility, TLC

Symmetry == {p @@ q : p \in Permutations(Views), q \in Permutations(Outputs)}
=============================================================================
