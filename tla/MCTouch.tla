------------------------------- MODULE MCTouch -------------------------------
(* Instances of Touch: contacts and devices are interchangeable.             *)
EXTENDS Touch, TLC

Symmetry == Permutations(Contacts) \cup Permutations(Devices)

=============================================================================
