----------------------------- MODULE ScreenLock -----------------------------
(***************************************************************************)
(* What the screen locker promises, without pipes, helper processes or     *)
(* sequence numbers.  The session is locked or it is not; while it is      *)
(* locked at most one attempt is undecided, the one submitted last; the    *)
(* session opens only by deciding that attempt in its favour, and only if  *)
(* the text submitted is the password.                                     *)
(***************************************************************************)
CONSTANTS Texts,      \* what can be typed on the lock screen
          Password,   \* the text the account accepts
          NoAttempt   \* no undecided attempt

VARIABLES locked,     \* the session is locked
          attempt     \* the text of the undecided attempt, or NoAttempt

Init ==
    /\ locked = FALSE
    /\ attempt = NoAttempt

\* A lock never inherits an attempt of an earlier lock.
Lock ==
    /\ ~locked
    /\ locked' = TRUE
    /\ attempt' = NoAttempt

\* A new attempt supersedes an undecided one.
Submit ==
    /\ locked
    /\ attempt' \in Texts
    /\ UNCHANGED locked

Deny ==
    /\ locked
    /\ attempt # NoAttempt
    /\ attempt' = NoAttempt
    /\ UNCHANGED locked

Unlock ==
    /\ locked
    /\ attempt = Password
    /\ locked' = FALSE
    /\ attempt' = NoAttempt

Next == Lock \/ Submit \/ Deny \/ Unlock

Spec == Init /\ [][Next]_<<locked, attempt>>
=============================================================================
