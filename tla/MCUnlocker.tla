----------------------------- MODULE MCUnlocker -----------------------------
(***************************************************************************)
(* An instance of Unlocker: one key of two bytes, and a password of one    *)
(* press of it.                                                            *)
(***************************************************************************)
EXTENDS Unlocker, TLC

CONSTANTS a, u1, u2

MCBytes    == {a, u1, u2}
MCKeys     == {<<u1, u2>>}
MCPassword == <<u1, u2>>
=============================================================================
