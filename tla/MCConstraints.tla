---------------------------- MODULE MCConstraints ----------------------------
(* Instances of Constraints: two views, one of them with a popup.            *)
EXTENDS Constraints, TLC

CONSTANTS v1, v2, p1

PopupOfFirst == p1 :> v1

AllKinds ==
    {[type |-> "locked", oneshot |-> FALSE, hint |-> TRUE],
     [type |-> "locked", oneshot |-> TRUE, hint |-> TRUE],
     [type |-> "confined", oneshot |-> FALSE, hint |-> FALSE]}

=============================================================================
