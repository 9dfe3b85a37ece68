----------------------------- MODULE MCXWindows -----------------------------
(* The instance of XWindows for TLC.  Neither outputs nor surfaces are      *)
(* permuted: a symmetry is not sound for `Lands'.                           *)
EXTENDS XWindows, TLC
=============================================================================
