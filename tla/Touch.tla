------------------------------- MODULE Touch -------------------------------
(***************************************************************************)
(* Fingers on touchscreens and touchpads (cursor.c, touch.c): which of     *)
(* them a client is told of, which one drives the compositor in place of a *)
(* pointer, and when the compositor takes a sequence of fingers away from  *)
(* the clients because it has recognised a gesture.                        *)
(*                                                                         *)
(* A handler is a function from the state `cur` to the set of the states   *)
(* it may leave, because what a binding does is a choice: it enters        *)
(* another mode, locks the screen or does neither.  Positions and times    *)
(* are left out, and with them which gesture it is: a recognition may      *)
(* succeed whenever the counts of fingers allow it.                        *)
(***************************************************************************)
EXTENDS Naturals, FiniteSets

CONSTANTS
    Contacts,     \* touch ids; libinput's seat slots, unique among all devices
    Devices,      \* touchscreens
    Touching,     \* clients that have bound wl_touch
    Others,       \* clients that have not
    None,
    MaxPoints,    \* HIKARI_TOUCH_GESTURE_MAX_POINTS
    MinFingers,   \* HIKARI_TOUCH_GESTURE_MIN_FINGERS
    MaxUpdates,   \* HIKARI_GESTURE_MAX_UPDATES
    Races         \* orders of events that break a property and are let in

ASSUME PointAssumption == MaxPoints \in Nat /\ MinFingers \in Nat \ {0} /\ MaxUpdates \in Nat
ASSUME ContactAssumption ==
    /\ IsFiniteSet(Contacts)
    /\ None \notin Contacts \cup Devices \cup Touching \cup Others \cup Nat
ASSUME ClientAssumption == Touching \cap Others = {}

Clients == Touching \cup Others
Modes == {"normal", "modal", "lock"}

VARIABLES
    finger,       \* the device a finger is on, None while it is lifted
    cur,          \* struct hikari_cursor, with the mode and the seat
    pad           \* the touchpad and its gesture_state

vars == <<finger, cur, pad>>

----------------------------------------------------------------------------
(* Parts of a handler                                                      *)

\* wlr_seat_touch_notify_cancel() for the client of every tracked point: it ends all its points.
CancelClients(c) ==
    LET told == {c.seat[i] : i \in c.points}
    IN  [c EXCEPT !.seat = [i \in Contacts |-> IF @[i] \in told THEN None ELSE @[i]]]

ResetGesture(c) == [c EXCEPT !.points = {}, !.peak = 0, !.claimed = FALSE, !.fired = FALSE]

\* The emulated button is let go if it was pressed; the mode is not told.
EndPrimary(c) ==
    [c EXCEPT !.primary = None,
              !.emulates = FALSE,
              !.pressed = IF c.emulates THEN @ - 1 ELSE @]

\* hikari_lock_mode_enter() takes the input away from everybody.
Deactivate(c) ==
    ResetGesture(CancelClients(IF c.primary # None THEN EndPrimary(c) ELSE c))

EnterLock(c) == [Deactivate(c) EXCEPT !.mode = "lock"]

\* What the action of a binding leaves.
ActionResults(c) == {[c EXCEPT !.mode = "normal"], [c EXCEPT !.mode = "modal"], EnterLock(c)}

\* A binding with an action for its release is answered by the next input.
PendingAction(c) == {[d EXCEPT !.pending = FALSE] : d \in ActionResults(c)}

BindingResults(c) == ActionResults(c) \cup ActionResults([c EXCEPT !.pending = TRUE])

\* Only the normal, the move and the resize mode look at the end of a touch.
ModeTouchEnd(c) ==
    CASE c.mode = "normal" /\ c.pending -> PendingAction(c)
      [] c.mode = "modal" -> {c, [c EXCEPT !.mode = "normal"]}
      [] OTHER -> {c}

ReleasePrimary(c) == ModeTouchEnd(EndPrimary(c))

\* The compositor takes the sequence; its binding fires unless the screen is locked by then.
Claim(c) ==
    LET d == [CancelClients(c) EXCEPT !.claimed = TRUE]
    IN  IF d.primary # None THEN ReleasePrimary(d) ELSE {d}

Fire(c) == IF c.mode = "lock" THEN {c} ELSE ActionResults(c)

Fired(c) == [c EXCEPT !.fired = TRUE]

ClaimAndFire(c) ==
    UNION {Fire(Fired(d)) : d \in {e \in Claim(c) : "pending" \in Races \/ e.mode # "lock"}}

MayRecognise(c) ==
    /\ ~c.claimed
    /\ ~c.fired
    /\ c.mode # "lock"
    /\ c.peak >= MinFingers

Evaluate(c) ==
    IF MayRecognise(c) /\ Cardinality(c.points) = c.peak
    THEN {c} \cup ClaimAndFire(c)
    ELSE {c}

TryHold(c) ==
    IF MayRecognise(c) /\ Cardinality(c.points) + 1 = c.peak
    THEN {c} \cup ClaimAndFire(c)
    ELSE {c}

\* Mutant: the bound of the table is off by one.
HasAnySlot(c) == Cardinality(c.points) <= MaxPoints

\* A table with no free slot leaves the finger untracked.
HasSlot(c) == Cardinality(c.points) < MaxPoints

Track(c, f) ==
    LET points == c.points \cup {f}
    IN  IF HasSlot(c)
        THEN [c EXCEPT !.points = points,
                       !.peak = IF Cardinality(points) > @ THEN Cardinality(points) ELSE @]
        ELSE c

\* Mutant: the flags outlive the last finger.
GestureUpKept(c, f) == TryHold([c EXCEPT !.points = @ \ {f}])

GestureUp(c, f) ==
    {IF d.points = {} THEN ResetGesture(d) ELSE d :
        d \in TryHold([c EXCEPT !.points = @ \ {f}])}

\* Mutant: a finger beyond the table is forwarded all the same.
ForwardUntracked(c, f, s) == IF c.claimed THEN Track(c, f) ELSE [Track(c, f) EXCEPT !.seat[f] = s]

\* Clients are not told of a finger that no later cancel could reach, or of a claimed sequence.
Forward(c, f, s) ==
    IF HasSlot(c) /\ ~c.claimed
    THEN [Track(c, f) EXCEPT !.seat[f] = s]
    ELSE Track(c, f)

\* The first finger of a sequence stands for the pointer.
Press(c, s) ==
    LET yes == c.mode = "normal" /\ s \in Others
    IN  [c EXCEPT !.emulates = yes, !.pressed = IF yes THEN @ + 1 ELSE @]

TouchBegin(c, s) ==
    CASE c.mode = "normal" /\ c.pending -> {[d EXCEPT !.emulates = FALSE] : d \in PendingAction(c)}
      [] c.mode = "normal" /\ ~c.pending ->
             {Press(c, s)} \cup {[d EXCEPT !.emulates = FALSE] : d \in BindingResults(c)}
      [] OTHER -> {Press(c, s)}

BecomePrimary(c, f, d, s) ==
    IF c.primary = None /\ ~c.claimed
    THEN TouchBegin([c EXCEPT !.primary = f, !.device = d], s)
    ELSE {c}

----------------------------------------------------------------------------
(* The touchscreen                                                         *)

Listening == cur.mode # "lock"

\* Mutant: the lock forgets the touchpad.
PadKept == pad

\* A lock entered by this handler drops what the pad had buffered too.
PadAfter == IF cur.mode # "lock" /\ cur'.mode = "lock" THEN [pad EXCEPT !.active = FALSE] ELSE pad

\* cursor_touch_down_handler(), on surface s.
Down(f, d, s) ==
    /\ finger[f] = None
    /\ finger' = [finger EXCEPT ![f] = d]
    /\ IF Listening THEN cur' \in BecomePrimary(Forward(cur, f, s), f, d, s) ELSE cur' = cur
    /\ pad' = PadAfter

\* cursor_touch_up_handler().
ForwardUp(c, f) == IF c.claimed THEN c ELSE [c EXCEPT !.seat[f] = None]

PrimaryUp(c, f) == IF c.primary = f THEN ReleasePrimary(c) ELSE {c}

Up(f) ==
    /\ finger[f] # None
    /\ finger' = [finger EXCEPT ![f] = None]
    /\ IF Listening
       THEN cur' \in UNION {PrimaryUp(c, f) : c \in GestureUp(ForwardUp(cur, f), f)}
       ELSE cur' = cur
    /\ pad' = PadAfter

\* cursor_touch_motion_handler().
Motion(f) ==
    /\ finger[f] # None
    /\ Listening
    /\ f \in cur.points
    /\ cur' \in Evaluate(cur)
    /\ pad' = PadAfter
    /\ UNCHANGED finger

\* cursor_touch_cancel_handler().
Cancel(f) ==
    /\ finger[f] # None
    /\ finger' = [finger EXCEPT ![f] = None]
    /\ IF Listening THEN cur' \in PrimaryUp(ResetGesture(CancelClients(cur)), f) ELSE cur' = cur
    /\ pad' = PadAfter

\* Mutant: a device that goes takes its points, but the primary touch waits for its release.
DeviceGoneHolding(d) ==
    /\ finger' = [f \in Contacts |-> IF finger[f] = d THEN None ELSE finger[f]]
    /\ cur' = ResetGesture(CancelClients(cur))
    /\ pad' = PadAfter

\* The destroy handler of touch.c: the fingers on the device will never be reported again.
DeviceGone(d) ==
    /\ finger' = [f \in Contacts |-> IF finger[f] = d THEN None ELSE finger[f]]
    /\ \E c \in IF cur.primary # None /\ cur.device = d THEN ReleasePrimary(cur) ELSE {cur} :
           cur' = ResetGesture(CancelClients(c))
    /\ pad' = PadAfter

----------------------------------------------------------------------------
(* The touchpad, whose gestures libinput recognises                        *)

\* Begin of a swipe, a pinch or a hold.
PadBegin ==
    /\ pad' = [hand |-> 0, active |-> Listening, updates |-> 0]
    /\ UNCHANGED <<finger, cur>>

\* hand counts to MaxUpdates + 1 only, the first update that is dropped.
PadUpdate ==
    /\ pad.hand # None
    /\ pad.hand <= MaxUpdates
    /\ pad' = [pad EXCEPT !.hand = @ + 1,
                          !.updates = IF pad.active /\ Listening /\ @ < MaxUpdates
                                      THEN @ + 1 ELSE @]
    /\ UNCHANGED <<finger, cur>>

\* A gesture that is bound fires; any other is replayed to the client, begin to end.
PadEnd ==
    /\ pad.hand # None
    /\ pad' = [pad EXCEPT !.hand = None, !.active = FALSE]
    /\ IF pad.active /\ Listening THEN cur' \in {cur} \cup Fire(cur) ELSE cur' = cur
    /\ UNCHANGED finger

----------------------------------------------------------------------------
(* Everything else                                                         *)

\* A key or a button: in the normal mode bindings, in another its end.
PressKey ==
    /\ cur.mode # "lock"
    /\ cur' \in CASE cur.mode = "normal" /\ cur.pending -> PendingAction(cur)
                  [] cur.mode = "normal" /\ ~cur.pending -> BindingResults(cur)
                  [] OTHER -> {[cur EXCEPT !.mode = "normal"]}
    /\ pad' = PadAfter
    /\ UNCHANGED finger

\* hikari_cursor_activate(): the listeners are back, and know nothing of what is held.
Unlock ==
    /\ cur.mode = "lock"
    /\ cur' = [cur EXCEPT !.mode = "normal"]
    /\ UNCHANGED <<finger, pad>>

\* A client's surfaces go, and wlroots' points with them.
ClientGone(s) ==
    /\ \E f \in Contacts : cur.seat[f] = s
    /\ cur' = [cur EXCEPT !.seat = [f \in Contacts |-> IF @[f] = s THEN None ELSE @[f]]]
    /\ UNCHANGED <<finger, pad>>

Init ==
    /\ finger = [f \in Contacts |-> None]
    /\ cur = [points |-> {}, peak |-> 0, claimed |-> FALSE, fired |-> FALSE,
              primary |-> None, device |-> None, emulates |-> FALSE,
              seat |-> [f \in Contacts |-> None], pressed |-> 0,
              mode |-> "normal", pending |-> FALSE]
    /\ pad = [hand |-> None, active |-> FALSE, updates |-> 0]

Next ==
    \/ \E f \in Contacts, d \in Devices, s \in Clients \cup {None} : Down(f, d, s)
    \/ \E f \in Contacts : Up(f) \/ Motion(f) \/ Cancel(f)
    \/ \E d \in Devices : DeviceGone(d)
    \/ PadBegin \/ PadUpdate \/ PadEnd
    \/ PressKey \/ Unlock
    \/ \E s \in Clients : ClientGone(s)

Spec == Init /\ [][Next]_vars

----------------------------------------------------------------------------
(* Properties                                                              *)

Cursors ==
    [points : SUBSET Contacts, peak : 0 .. MaxPoints, claimed : BOOLEAN, fired : BOOLEAN,
     primary : Contacts \cup {None}, device : Devices \cup {None}, emulates : BOOLEAN,
     seat : [Contacts -> Clients \cup {None}], pressed : Nat, mode : Modes, pending : BOOLEAN]

TypeOK ==
    /\ finger \in [Contacts -> Devices \cup {None}]
    /\ cur \in Cursors
    /\ pad \in [hand : (0 .. MaxUpdates + 1) \cup {None}, active : BOOLEAN, updates : 0 .. MaxUpdates]

\* Every point a client was told of is one the compositor still tracks and a finger still holds
\* down, so the client will hear its end: by an up, or by the cancel of a claim, of a device that
\* goes or of the lock.  A claimed sequence has none left.
ClientsHearTheEnd ==
    \A f \in Contacts : cur.seat[f] # None => /\ f \in cur.points
                                              /\ finger[f] # None
                                              /\ ~cur.claimed

\* The finger that stands for the pointer is down on the device remembered with it, so that its
\* release or the device's end is still to come; the seat holds one emulated button exactly while
\* that finger emulates one.
PressesArePaired ==
    /\ cur.primary # None => cur.device # None /\ finger[cur.primary] = cur.device
    /\ cur.emulates => cur.primary # None
    /\ cur.pressed = IF cur.emulates THEN 1 ELSE 0

\* A sequence is claimed or has fired only while one of its fingers is down: the touchscreen is not
\* left deaf by a sequence that ended in a lock, a cancel or an unplug; and the table of points
\* takes no finger more than it has slots.
ScreenIsNotDeaf ==
    /\ TypeOK
    /\ cur.claimed \/ cur.fired => cur.points # {}
    /\ \A f \in cur.points : finger[f] # None
    /\ Cardinality(cur.points) <= cur.peak

\* A gesture of the touchpad that is replayed to a client is the one that was made, whole up to the
\* size of the buffer: nothing of it was made behind the lock screen.
PadReplaysWhatWasMade ==
    pad.active => pad.hand # None /\ pad.updates = IF pad.hand > MaxUpdates THEN MaxUpdates ELSE pad.hand

=============================================================================
