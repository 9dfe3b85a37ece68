---------------------------- MODULE TouchProofs ----------------------------
(***************************************************************************)
(* Theorems about Touch, for any touchscreens, clients, numbers of fingers *)
(* and sizes of the tables.  They hold without the order of events that    *)
(* Touch names "pending".                                                  *)
(*                                                                         *)
(* A handler makes its new state out of the old one in steps, each an      *)
(* operator of Touch.  Kept is what every such step keeps, with the        *)
(* fingers F as they are on the screen; what a handler has at its end in   *)
(* addition is Awake.  Below says what a step may do to the points and the *)
(* primary finger: only forget them.                                       *)
(***************************************************************************)
EXTENDS Touch, FiniteSetTheorems, TLAPS

Fingers == [Contacts -> Devices \cup {None}]

Silent(c) == \A f \in Contacts : c.seat[f] = None

Kept(F, c) ==
    /\ c \in Cursors
    /\ \A f \in Contacts : c.seat[f] # None => f \in c.points /\ ~c.claimed
    /\ \A f \in c.points : F[f] # None
    /\ c.primary # None => c.device # None /\ F[c.primary] = c.device
    /\ c.emulates => c.primary # None
    /\ c.pressed = IF c.emulates THEN 1 ELSE 0
    /\ Cardinality(c.points) <= c.peak
    /\ c.mode = "lock" => c.points = {} /\ c.primary = None

Awake(c) == c.claimed \/ c.fired => c.points # {}

Below(c, d) == d.points \subseteq c.points /\ d.primary \in {c.primary, None}

-----------------------------------------------------------------------------
(* Parts of a handler                                                      *)

\* A table of points is finite, and empty only if it counts none.
LEMMA PointsAreFinite ==
    ASSUME NEW c \in Cursors
    PROVE  /\ IsFiniteSet(c.points)
           /\ Cardinality(c.points) \in Nat
           /\ Cardinality(c.points) = 0 <=> c.points = {}
  <1>1. c.points \in SUBSET Contacts
    BY DEF Cursors
  <1>2. IsFiniteSet(c.points)
    BY <1>1, FS_Subset, ContactAssumption
  <1> QED
    BY <1>2, FS_CardinalityType, FS_EmptySet

\* wlr_seat_touch_notify_cancel() for every tracked point leaves no client with a point.
LEMMA CancelIsHeard ==
    ASSUME NEW F \in Fingers, NEW c, Kept(F, c)
    PROVE  /\ Kept(F, CancelClients(c))
           /\ Silent(CancelClients(c))
           /\ CancelClients(c) = [c EXCEPT !.seat = CancelClients(c).seat]
  <1> DEFINE told == {c.seat[i] : i \in c.points}
             d == CancelClients(c)
  <1>1. c \in Cursors
    BY DEF Kept
  <1>2. d = [c EXCEPT !.seat = [i \in Contacts |-> IF c.seat[i] \in told THEN None ELSE c.seat[i]]]
    BY <1>1 DEF CancelClients, Cursors
  <1>3. d.seat = [i \in Contacts |-> IF c.seat[i] \in told THEN None ELSE c.seat[i]]
    BY <1>1, <1>2 DEF Cursors
  <1>4. \A i \in Contacts : c.seat[i] # None => c.seat[i] \in told
    BY DEF Kept
  <1>5. Silent(d)
    BY <1>3, <1>4 DEF Silent
  <1>6. d.seat \in [Contacts -> Clients \cup {None}]
    BY <1>1, <1>3 DEF Cursors
  <1>7. d \in Cursors
    BY <1>1, <1>2, <1>3, <1>6 DEF Cursors
  <1>8. d = [c EXCEPT !.seat = d.seat]
    BY <1>1, <1>2, <1>3 DEF Cursors
  <1>9. Kept(F, d)
    BY <1>1, <1>5, <1>7, <1>8 DEF Kept, Silent, Cursors
  <1> QED
    BY <1>5, <1>8, <1>9

\* A peak that is in range keeps the type.
LEMMA PeakOfCursor ==
    ASSUME NEW c \in Cursors, NEW n \in 0 .. MaxPoints
    PROVE  [c EXCEPT !.peak = n] \in Cursors
  BY DEF Cursors

\* A gesture that is reset while no client has a point leaves the screen awake.
LEMMA ResetIsKept ==
    ASSUME NEW F \in Fingers, NEW c, Kept(F, c), Silent(c)
    PROVE  /\ Kept(F, ResetGesture(c)) /\ Awake(ResetGesture(c)) /\ Silent(ResetGesture(c))
           /\ ResetGesture(c).points = {} /\ ResetGesture(c).primary = c.primary
           /\ ResetGesture(c).device = c.device
  <1> DEFINE d == ResetGesture(c)
  <1>1. c \in Cursors
    BY DEF Kept
  <1>2. /\ d.points = {} /\ d.peak = 0 /\ d.claimed = FALSE /\ d.fired = FALSE
        /\ d.primary = c.primary /\ d.device = c.device /\ d.emulates = c.emulates
        /\ d.seat = c.seat /\ d.pressed = c.pressed /\ d.mode = c.mode
    BY <1>1 DEF ResetGesture, Cursors
  <1>3. [c EXCEPT !.points = {}] \in Cursors
    BY <1>1 DEF Cursors
  <1>4. [[c EXCEPT !.points = {}] EXCEPT !.peak = 0] \in Cursors
    <2>1. 0 \in 0 .. MaxPoints
      BY PointAssumption
    <2> QED
      BY <1>3, <2>1, PeakOfCursor
  <1>5. [[[c EXCEPT !.points = {}] EXCEPT !.peak = 0] EXCEPT !.claimed = FALSE, !.fired = FALSE] \in Cursors
    BY <1>4 DEF Cursors
  <1>6. d = [[[c EXCEPT !.points = {}] EXCEPT !.peak = 0] EXCEPT !.claimed = FALSE, !.fired = FALSE]
    BY DEF ResetGesture
  <1>7. d \in Cursors
    BY <1>5, <1>6
  <1> QED
    BY <1>2, <1>7, FS_EmptySet DEF Kept, Awake, Silent

\* The finger that stood for the pointer lets its button go.
LEMMA EndPrimaryIsKept ==
    ASSUME NEW F \in Fingers, NEW c, Kept(F, c)
    PROVE  /\ Kept(F, EndPrimary(c)) /\ (Silent(c) => Silent(EndPrimary(c)))
           /\ EndPrimary(c).points = c.points /\ EndPrimary(c).primary = None
           /\ EndPrimary(c).claimed = c.claimed /\ EndPrimary(c).fired = c.fired
           /\ EndPrimary(c).mode = c.mode
  <1> DEFINE d == EndPrimary(c)
  <1>1. c \in Cursors
    BY DEF Kept
  <1>2. /\ d.points = c.points /\ d.peak = c.peak /\ d.claimed = c.claimed /\ d.fired = c.fired
        /\ d.primary = None /\ d.emulates = FALSE /\ d.seat = c.seat /\ d.mode = c.mode
        /\ d.pressed = IF c.emulates THEN c.pressed - 1 ELSE c.pressed
    BY <1>1 DEF EndPrimary, Cursors
  <1>3. d.pressed = 0
    BY <1>2 DEF Kept
  <1>4. d = [c EXCEPT !.primary = None, !.emulates = FALSE, !.pressed = 0]
    BY <1>1, <1>2, <1>3 DEF EndPrimary, Cursors
  <1>5. [c EXCEPT !.primary = None, !.emulates = FALSE] \in Cursors
    BY <1>1 DEF Cursors
  <1>6. [[c EXCEPT !.primary = None, !.emulates = FALSE] EXCEPT !.pressed = 0] \in Cursors
    BY <1>5 DEF Cursors
  <1>7. d \in Cursors
    BY <1>1, <1>4, <1>6 DEF Cursors
  <1> QED
    BY <1>2, <1>3, <1>7 DEF Kept, Silent

\* The lock takes everything: points, the primary finger, what the clients hold.
LEMMA LockIsKept ==
    ASSUME NEW F \in Fingers, NEW c, Kept(F, c)
    PROVE  Kept(F, EnterLock(c)) /\ Awake(EnterLock(c)) /\ Below(c, EnterLock(c))
  <1> DEFINE b == IF c.primary # None THEN EndPrimary(c) ELSE c
             a == CancelClients(b)
             d == ResetGesture(a)
  <1>1. Kept(F, b) /\ b.points = c.points /\ b.primary = None
    BY EndPrimaryIsKept
  <1> HIDE DEF b
  <1>2. /\ Kept(F, a) /\ Silent(a) /\ a = [b EXCEPT !.seat = a.seat]
        /\ b \in Cursors
    BY <1>1, CancelIsHeard DEF Kept
  <1>3. a.primary = None /\ a.points = c.points
    BY <1>1, <1>2 DEF Cursors
  <1> HIDE DEF a
  <1>4. Kept(F, d) /\ Awake(d) /\ d.points = {} /\ d.primary = None
    BY <1>2, <1>3, ResetIsKept
  <1>5. EnterLock(c) = [d EXCEPT !.mode = "lock"]
    BY DEF EnterLock, Deactivate, b, a
  <1> HIDE DEF d
  <1> QED
    BY ZenonT(60), <1>4, <1>5 DEF Kept, Awake, Below, Cursors, Modes

\* A change of the mode alone, to another than the lock.
LEMMA ModeIsKept ==
    ASSUME NEW F \in Fingers, NEW c, Kept(F, c), NEW m \in {"normal", "modal"}
    PROVE  /\ Kept(F, [c EXCEPT !.mode = m])
           /\ Awake(c) => Awake([c EXCEPT !.mode = m])
           /\ [c EXCEPT !.mode = m].points = c.points
           /\ [c EXCEPT !.mode = m].primary = c.primary
           /\ [c EXCEPT !.mode = m].emulates = c.emulates
  BY DEF Kept, Awake, Cursors, Modes

\* The flag of a pending action.
LEMMA PendingIsKept ==
    ASSUME NEW F \in Fingers, NEW c, Kept(F, c), NEW p \in BOOLEAN
    PROVE  /\ Kept(F, [c EXCEPT !.pending = p])
           /\ Awake(c) => Awake([c EXCEPT !.pending = p])
           /\ [c EXCEPT !.pending = p].points = c.points
           /\ [c EXCEPT !.pending = p].primary = c.primary
           /\ [c EXCEPT !.pending = p].emulates = c.emulates
           /\ [c EXCEPT !.pending = p].mode = c.mode
  BY DEF Kept, Awake, Cursors

\* What a result of a step is, in the lemmas that follow.
Follows(F, c, d) ==
    /\ Kept(F, d) /\ Below(c, d) /\ (Awake(c) => Awake(d))
    /\ d.mode = "lock" \/ (d.points = c.points /\ d.primary = c.primary /\ d.emulates = c.emulates)

LEMMA ActionFollows ==
    ASSUME NEW F \in Fingers, NEW c, Kept(F, c), NEW d \in ActionResults(c)
    PROVE  Follows(F, c, d)
  <1>1. CASE d = [c EXCEPT !.mode = "normal"]
    BY <1>1, ModeIsKept DEF Follows, Below
  <1>2. CASE d = [c EXCEPT !.mode = "modal"]
    BY <1>2, ModeIsKept DEF Follows, Below
  <1>3. CASE d = EnterLock(c)
    <2>1. d.mode = "lock"
      BY <1>3, LockIsKept DEF EnterLock, Kept, Cursors
    <2> QED
      BY <1>3, <2>1, LockIsKept DEF Follows
  <1> QED
    BY <1>1, <1>2, <1>3 DEF ActionResults

\* Following is transitive.
LEMMA FollowsTwice ==
    ASSUME NEW F \in Fingers, NEW c, NEW d, NEW e, Kept(F, c), Follows(F, c, d), Follows(F, d, e)
    PROVE  Kept(F, e) /\ Below(c, e) /\ (Awake(c) => Awake(e))
  BY DEF Follows, Below

\* A pending action clears its flag and leaves what actions leave.
LEMMA PendingActionFollows ==
    ASSUME NEW F \in Fingers, NEW c, Kept(F, c), NEW d \in PendingAction(c)
    PROVE  Follows(F, c, d)
  <1>1. PICK a \in ActionResults(c) : d = [a EXCEPT !.pending = FALSE]
    BY DEF PendingAction
  <1>2. Follows(F, c, a)
    BY ActionFollows
  <1> QED
    BY <1>1, <1>2, PendingIsKept DEF Follows, Below

\* So does a binding, whether or not it leaves an action for the release.
LEMMA BindingFollows ==
    ASSUME NEW F \in Fingers, NEW c, Kept(F, c), NEW d \in BindingResults(c)
    PROVE  Follows(F, c, d)
  <1> DEFINE p == [c EXCEPT !.pending = TRUE]
  <1>1. CASE d \in ActionResults(c)
    BY <1>1, ActionFollows
  <1>2. CASE d \in ActionResults(p)
    <2>1. /\ Kept(F, p) /\ (Awake(c) => Awake(p))
          /\ p.points = c.points /\ p.primary = c.primary /\ p.emulates = c.emulates
      BY PendingIsKept
    <2> HIDE DEF p
    <2>2. Follows(F, p, d)
      BY <1>2, <2>1, ActionFollows
    <2> QED
      BY <2>1, <2>2 DEF Follows, Below
  <1> QED
    BY <1>1, <1>2 DEF BindingResults

\* A step that changes nothing.
LEMMA SameFollows ==
    ASSUME NEW F \in Fingers, NEW c, Kept(F, c)
    PROVE  Follows(F, c, c)
  BY DEF Follows, Below

LEMMA ModeFollows ==
    ASSUME NEW F \in Fingers, NEW c, Kept(F, c), NEW m \in {"normal", "modal"}
    PROVE  Follows(F, c, [c EXCEPT !.mode = m])
  BY ModeIsKept DEF Follows, Below

\* The mode hears of the end of a touch.
LEMMA ModeTouchEndFollows ==
    ASSUME NEW F \in Fingers, NEW c, Kept(F, c), NEW d \in ModeTouchEnd(c)
    PROVE  Follows(F, c, d)
  <1>1. CASE c.mode = "normal" /\ c.pending
    BY <1>1, PendingActionFollows DEF ModeTouchEnd
  <1>2. CASE c.mode = "modal"
    <2>1. d = c \/ d = [c EXCEPT !.mode = "normal"]
      BY <1>2 DEF ModeTouchEnd
    <2> QED
      BY <2>1, SameFollows, ModeFollows
  <1>3. CASE ~(c.mode = "normal" /\ c.pending) /\ c.mode # "modal"
    BY <1>3, SameFollows DEF ModeTouchEnd
  <1> QED
    BY <1>1, <1>2, <1>3

\* The primary finger ends, and then the mode hears of it.
LEMMA ReleaseIsKept ==
    ASSUME NEW F \in Fingers, NEW c, Kept(F, c), NEW d \in ReleasePrimary(c)
    PROVE  /\ Kept(F, d) /\ Below(c, d) /\ d.primary = None /\ (Awake(c) => Awake(d))
           /\ d.mode = "lock" \/ d.points = c.points
  <1> DEFINE e == EndPrimary(c)
  <1>1. /\ Kept(F, e) /\ e.points = c.points /\ e.primary = None
        /\ e.claimed = c.claimed /\ e.fired = c.fired
    BY EndPrimaryIsKept
  <1>2. d \in ModeTouchEnd(e)
    BY DEF ReleasePrimary
  <1> HIDE DEF e
  <1>3. Follows(F, e, d)
    BY <1>1, <1>2, ModeTouchEndFollows
  <1>4. Awake(c) => Awake(e)
    BY <1>1 DEF Awake
  <1> QED
    BY <1>1, <1>3, <1>4 DEF Follows, Below

-----------------------------------------------------------------------------
(* The recogniser                                                          *)

\* A claim leaves the points, or the lock that its release brought none.
LEMMA ClaimIsKept ==
    ASSUME NEW F \in Fingers, NEW c, Kept(F, c), c.mode # "lock", NEW d \in Claim(c)
    PROVE  /\ Kept(F, d) /\ Below(c, d)
           /\ d.mode = "lock" \/ d.points = c.points
  <1> DEFINE a == CancelClients(c)
             e == [a EXCEPT !.claimed = TRUE]
  <1>1. Kept(F, a) /\ Silent(a) /\ a = [c EXCEPT !.seat = a.seat] /\ c \in Cursors
    BY CancelIsHeard DEF Kept
  <1>2. a.points = c.points /\ a.primary = c.primary /\ a.mode = c.mode
    BY <1>1 DEF Cursors
  <1>3. d \in IF e.primary # None THEN ReleasePrimary(e) ELSE {e}
    BY DEF Claim
  <1> HIDE DEF a
  <1>4. Kept(F, e) /\ e.points = c.points /\ e.primary = c.primary
    BY <1>1, <1>2 DEF Kept, Silent, Cursors
  <1> HIDE DEF e
  <1>5. CASE e.primary # None
    BY <1>3, <1>4, <1>5, ReleaseIsKept DEF Below
  <1>6. CASE e.primary = None
    BY <1>3, <1>4, <1>6 DEF Below
  <1> QED
    BY <1>5, <1>6

\* A gesture that is recognised.  Its sequence ends in the lock, or is awake if a finger is down.
LEMMA ClaimAndFireIsKept ==
    ASSUME NEW F \in Fingers, NEW c, Kept(F, c), c.mode # "lock", "pending" \notin Races,
           NEW d \in ClaimAndFire(c)
    PROVE  Kept(F, d) /\ Below(c, d) /\ (c.points # {} => Awake(d))
  <1>1. PICK e \in Claim(c) : e.mode # "lock" /\ d \in Fire(Fired(e))
    BY DEF ClaimAndFire
  <1>2. Kept(F, e) /\ Below(c, e) /\ e.points = c.points
    BY <1>1, ClaimIsKept
  <1> DEFINE g == Fired(e)
  <1>3. Kept(F, g) /\ g.points = e.points /\ g.primary = e.primary /\ g.mode = e.mode
    BY <1>2 DEF Kept, Fired, Cursors
  <1> HIDE DEF g
  <1>4. d \in ActionResults(g)
    BY <1>1, <1>3 DEF Fire, g
  <1>5. Follows(F, g, d)
    BY <1>3, <1>4, ActionFollows
  <1>6. c.points # {} => Awake(g)
    BY <1>2, <1>3 DEF Awake
  <1> QED
    BY <1>2, <1>3, <1>5, <1>6 DEF Follows, Below

\* A motion: a recognition needs as many points as there were at most, and so one at least.
LEMMA EvaluateIsKept ==
    ASSUME NEW F \in Fingers, NEW c, Kept(F, c), Awake(c), "pending" \notin Races,
           NEW d \in Evaluate(c)
    PROVE  Kept(F, d) /\ Awake(d)
  <1>1. CASE d = c
    BY <1>1
  <1>2. CASE d # c
    <2>1. MayRecognise(c) /\ Cardinality(c.points) = c.peak /\ d \in ClaimAndFire(c)
      BY <1>2 DEF Evaluate
    <2>2. c \in Cursors
      BY DEF Kept
    <2>3. c.peak >= MinFingers /\ c.mode # "lock"
      BY <2>1 DEF MayRecognise
    <2>4. c.points # {}
      <3>1. Cardinality(c.points) = 0 <=> c.points = {}
        BY <2>2, PointsAreFinite
      <3>2. MinFingers >= 1 /\ MinFingers \in Nat
        BY PointAssumption
      <3>3. c.peak \in Nat
        BY <2>2 DEF Cursors
      <3> QED
        BY <2>1, <2>3, <3>1, <3>2, <3>3
    <2> QED
      BY <2>1, <2>3, <2>4, ClaimAndFireIsKept
  <1> QED
    BY <1>1, <1>2

\* A finger that lifts may complete a hold of the others.
LEMMA TryHoldIsKept ==
    ASSUME NEW F \in Fingers, NEW c, Kept(F, c), "pending" \notin Races, NEW d \in TryHold(c)
    PROVE  Kept(F, d) /\ Below(c, d)
  <1>1. CASE d = c
    BY <1>1 DEF Below
  <1>2. CASE d # c
    <2>1. MayRecognise(c) /\ d \in ClaimAndFire(c)
      BY <1>2 DEF TryHold
    <2> QED
      BY <2>1, ClaimAndFireIsKept DEF MayRecognise
  <1> QED
    BY <1>1, <1>2


\* A finger that lifts is forgotten; the last one takes the gesture with it.
LEMMA GestureUpIsKept ==
    ASSUME NEW F \in Fingers, NEW c, Kept(F, c), NEW f \in Contacts, c.seat[f] = None,
           "pending" \notin Races, NEW d \in GestureUp(c, f)
    PROVE  Kept(F, d) /\ Awake(d) /\ f \notin d.points /\ d.primary \in {c.primary, None}
  <1> DEFINE g == [c EXCEPT !.points = @ \ {f}]
  <1>1. c \in Cursors
    BY DEF Kept
  <1>2. PICK e \in TryHold(g) : d = IF e.points = {} THEN ResetGesture(e) ELSE e
    BY DEF GestureUp
  <1>3. g.points = c.points \ {f} /\ g.primary = c.primary
    BY <1>1 DEF Cursors
  <1>4. Cardinality(g.points) <= c.peak
    <2>1. IsFiniteSet(c.points) /\ Cardinality(c.points) \in Nat
      BY <1>1, PointsAreFinite
    <2>2. Cardinality(c.points \ {f}) = IF f \in c.points THEN Cardinality(c.points) - 1
                                                         ELSE Cardinality(c.points)
      BY <2>1, FS_RemoveElement
    <2>3. Cardinality(c.points) <= c.peak /\ c.peak \in Int
      BY <1>1 DEF Kept, Cursors
    <2> QED
      BY <1>3, <2>1, <2>2, <2>3
  <1>5. Kept(F, g)
    BY <1>1, <1>3, <1>4 DEF Kept, Cursors
  <1> HIDE DEF g
  <1>6. Kept(F, e) /\ Below(g, e)
    BY <1>2, <1>5, TryHoldIsKept
  <1>7. CASE e.points = {}
    <2>1. Silent(e)
      BY <1>6, <1>7 DEF Kept, Silent
    <2>2. /\ Kept(F, ResetGesture(e)) /\ Awake(ResetGesture(e))
          /\ ResetGesture(e).points = {} /\ ResetGesture(e).primary = e.primary
      BY <1>6, <2>1, ResetIsKept
    <2> QED
      BY <1>2, <1>3, <1>6, <1>7, <2>2 DEF Below
  <1>8. CASE e.points # {}
    BY <1>2, <1>3, <1>6, <1>8 DEF Below, Awake
  <1> QED
    BY <1>7, <1>8

\* The table takes a finger while it has a slot for it.
LEMMA TrackIsKept ==
    ASSUME NEW F \in Fingers, NEW c, Kept(F, c), Awake(c), c.mode # "lock",
           NEW f \in Contacts, F[f] # None
    PROVE  /\ Kept(F, Track(c, f)) /\ Awake(Track(c, f))
           /\ Track(c, f).primary = c.primary /\ Track(c, f).claimed = c.claimed
           /\ Track(c, f).emulates = c.emulates /\ Track(c, f).mode = c.mode
           /\ HasSlot(c) => f \in Track(c, f).points
  <1>1. c \in Cursors
    BY DEF Kept
  <1>2. CASE ~HasSlot(c)
    BY <1>2 DEF Track
  <1>3. CASE HasSlot(c)
    <2> DEFINE P == c.points \cup {f}
               n == IF Cardinality(P) > c.peak THEN Cardinality(P) ELSE c.peak
               d == [[c EXCEPT !.peak = n] EXCEPT !.points = P]
    <2>1. IsFiniteSet(c.points) /\ Cardinality(c.points) \in Nat
      BY <1>1, PointsAreFinite
    <2>2. Cardinality(P) = IF f \in c.points THEN Cardinality(c.points)
                                            ELSE Cardinality(c.points) + 1
      BY <2>1, FS_AddElement
    <2>3. Cardinality(c.points) < MaxPoints /\ c.peak \in 0 .. MaxPoints /\ MaxPoints \in Nat
      BY <1>1, <1>3, PointAssumption DEF HasSlot, Cursors
    <2>4. n \in 0 .. MaxPoints /\ Cardinality(P) <= n
      BY <2>1, <2>2, <2>3
    <2>5. Track(c, f) = d
      BY <1>1, <1>3 DEF Track, Cursors
    <2> HIDE DEF n
    <2>6. [c EXCEPT !.peak = n] \in Cursors
      BY <1>1, <2>4, PeakOfCursor
    <2>7. d \in Cursors
      BY <2>6 DEF Cursors
    <2>8. /\ d.points = P /\ d.peak = n /\ d.primary = c.primary /\ d.claimed = c.claimed
          /\ d.emulates = c.emulates /\ d.mode = c.mode /\ d.seat = c.seat
          /\ d.device = c.device /\ d.pressed = c.pressed
      BY <1>1, <2>6 DEF Cursors
    <2> HIDE DEF d
    <2> QED
      BY <2>4, <2>5, <2>7, <2>8 DEF Kept, Awake
  <1> QED
    BY <1>2, <1>3

\* A client is told of a finger only once the table has it.
LEMMA ForwardIsKept ==
    ASSUME NEW F \in Fingers, NEW c, Kept(F, c), Awake(c), c.mode # "lock",
           NEW f \in Contacts, F[f] # None, NEW s \in Clients \cup {None}
    PROVE  /\ Kept(F, Forward(c, f, s)) /\ Awake(Forward(c, f, s))
           /\ Forward(c, f, s).primary = c.primary /\ Forward(c, f, s).emulates = c.emulates
           /\ Forward(c, f, s).mode = c.mode
  <1> DEFINE t == Track(c, f)
  <1>1. /\ Kept(F, t) /\ Awake(t) /\ t.primary = c.primary /\ t.claimed = c.claimed
        /\ t.emulates = c.emulates /\ t.mode = c.mode /\ (HasSlot(c) => f \in t.points)
    BY TrackIsKept
  <1>2. Forward(c, f, s) = IF HasSlot(c) /\ ~c.claimed THEN [t EXCEPT !.seat[f] = s] ELSE t
    BY DEF Forward
  <1> HIDE DEF t
  <1>3. CASE HasSlot(c) /\ ~c.claimed
    <2> DEFINE d == [t EXCEPT !.seat[f] = s]
    <2>1. t \in Cursors
      BY <1>1 DEF Kept
    <2>2. /\ d.seat = [t.seat EXCEPT ![f] = s] /\ d.points = t.points /\ d.peak = t.peak
          /\ d.primary = t.primary /\ d.claimed = t.claimed /\ d.fired = t.fired
          /\ d.emulates = t.emulates /\ d.mode = t.mode /\ d.device = t.device
          /\ d.pressed = t.pressed
      BY <2>1 DEF Cursors
    <2>3. d \in Cursors
      BY <2>1 DEF Cursors
    <2>4. \A g \in Contacts : d.seat[g] # None => g \in d.points /\ ~d.claimed
      BY <1>1, <1>3, <2>1, <2>2 DEF Kept, Cursors
    <2> QED
      BY <1>1, <1>2, <1>3, <2>2, <2>3, <2>4 DEF Kept, Awake
  <1>4. CASE ~(HasSlot(c) /\ ~c.claimed)
    BY <1>1, <1>2, <1>4
  <1> QED
    BY <1>3, <1>4

-----------------------------------------------------------------------------
(* The primary finger                                                      *)

\* A press is counted once, for the finger that makes it.
LEMMA PressIsKept ==
    ASSUME NEW F \in Fingers, NEW c, Kept(F, c), Awake(c), c.primary # None, c.emulates = FALSE, NEW s
    PROVE  Kept(F, Press(c, s)) /\ Awake(Press(c, s))
  <1> DEFINE yes == c.mode = "normal" /\ s \in Others
  <1>1. c \in Cursors /\ c.pressed = 0
    BY DEF Kept
  <1>4. Press(c, s) = [c EXCEPT !.emulates = yes, !.pressed = IF yes THEN @ + 1 ELSE @]
    BY DEF Press
  <1>5. yes \in BOOLEAN
    OBVIOUS
  <1> HIDE DEF yes
  <1>2. CASE yes
    <2>1. Press(c, s) = [c EXCEPT !.emulates = TRUE, !.pressed = 1]
      BY <1>1, <1>2, <1>4, <1>5 DEF Cursors
    <2> DEFINE d == [c EXCEPT !.emulates = TRUE, !.pressed = 1]
    <2>2. d \in Cursors
      BY <1>1 DEF Cursors
    <2>3. /\ d.points = c.points /\ d.peak = c.peak /\ d.primary = c.primary
          /\ d.claimed = c.claimed /\ d.fired = c.fired /\ d.mode = c.mode
          /\ d.seat = c.seat /\ d.device = c.device /\ d.pressed = 1 /\ d.emulates = TRUE
      BY <1>1 DEF Cursors
    <2> HIDE DEF d
    <2>4. Kept(F, d) /\ Awake(d)
      BY <2>2, <2>3 DEF Kept, Awake
    <2> QED
      BY <2>1, <2>4 DEF d
  <1>3. CASE ~yes
    <2>1. Press(c, s) = [c EXCEPT !.emulates = FALSE, !.pressed = 0]
      BY <1>1, <1>3, <1>4, <1>5 DEF Cursors
    <2> QED
      BY <1>1, <2>1 DEF Kept, Awake, Cursors
  <1> QED
    BY <1>2, <1>3

\* A touch that begins answers a pending action, runs a binding or presses.
LEMMA TouchBeginIsKept ==
    ASSUME NEW F \in Fingers, NEW c, Kept(F, c), Awake(c), c.primary # None, c.emulates = FALSE,
           NEW s, NEW d \in TouchBegin(c, s)
    PROVE  Kept(F, d) /\ Awake(d)
  <1>1. ASSUME NEW e, Follows(F, c, e)
        PROVE  Kept(F, [e EXCEPT !.emulates = FALSE]) /\ Awake([e EXCEPT !.emulates = FALSE])
    <2>1. Kept(F, e) /\ Awake(e) /\ e.emulates = FALSE
      <3>1. e.emulates \in BOOLEAN
        BY <1>1 DEF Follows, Kept, Cursors
      <3> QED
        BY <1>1, <3>1 DEF Follows, Kept
    <2>2. [e EXCEPT !.emulates = FALSE] = e
      BY <2>1 DEF Kept, Cursors
    <2> QED
      BY <2>1, <2>2
  <1>2. CASE c.mode = "normal" /\ c.pending
    <2>1. PICK e \in PendingAction(c) : d = [e EXCEPT !.emulates = FALSE]
      BY <1>2 DEF TouchBegin
    <2> QED
      BY <1>1, <2>1, PendingActionFollows
  <1>3. CASE c.mode = "normal" /\ ~c.pending
    <2>1. d = Press(c, s) \/ \E e \in BindingResults(c) : d = [e EXCEPT !.emulates = FALSE]
      BY <1>3 DEF TouchBegin
    <2> QED
      BY <1>1, <2>1, PressIsKept, BindingFollows
  <1>4. CASE c.mode # "normal"
    <2>1. d = Press(c, s)
      BY <1>4 DEF TouchBegin
    <2> QED
      BY <2>1, PressIsKept
  <1> QED
    BY <1>2, <1>3, <1>4

\* The first finger of a sequence becomes the primary one, on its device.
LEMMA PrimaryIsKept ==
    ASSUME NEW F \in Fingers, NEW c, Kept(F, c), Awake(c), c.mode # "lock",
           NEW f \in Contacts, NEW dev \in Devices, F[f] = dev, NEW s,
           NEW d \in BecomePrimary(c, f, dev, s)
    PROVE  Kept(F, d) /\ Awake(d)
  <1>1. CASE c.primary = None /\ ~c.claimed
    <2> DEFINE e == [c EXCEPT !.primary = f, !.device = dev]
    <2>1. c \in Cursors /\ c.emulates = FALSE /\ f # None /\ dev # None
      BY <1>1, ContactAssumption DEF Kept, Cursors
    <2>2. Kept(F, e) /\ Awake(e) /\ e.primary # None /\ e.emulates = FALSE
      BY <2>1 DEF Kept, Awake, Cursors
    <2>3. d \in TouchBegin(e, s)
      BY <1>1 DEF BecomePrimary
    <2> HIDE DEF e
    <2> QED
      BY <2>2, <2>3, TouchBeginIsKept
  <1>2. CASE ~(c.primary = None /\ ~c.claimed)
    BY <1>2 DEF BecomePrimary
  <1> QED
    BY <1>1, <1>2


-----------------------------------------------------------------------------
(* Handlers                                                                *)

\* Fingers that are neither tracked nor primary may come and go.
LEMMA OtherFingers ==
    ASSUME NEW F \in Fingers, NEW G \in Fingers, NEW c, Kept(F, c),
           \A f \in Contacts : f \in c.points \/ f = c.primary => G[f] = F[f]
    PROVE  Kept(G, c)
  <1>1. c.points \subseteq Contacts /\ c.primary \in Contacts \cup {None}
    BY DEF Kept, Cursors
  <1> QED
    BY <1>1 DEF Kept

PadIsSound ==
    /\ pad \in [hand : (0 .. MaxUpdates + 1) \cup {None}, active : BOOLEAN, updates : 0 .. MaxUpdates]
    /\ PadReplaysWhatWasMade
    /\ cur.mode = "lock" => ~pad.active

CursorIsSound == finger \in Fingers /\ Kept(finger, cur) /\ Awake(cur)

TouchIsSound == CursorIsSound /\ PadIsSound

\* The four properties are what is kept, seen from the client.
LEMMA SoundIsEnough ==
    TouchIsSound => /\ TypeOK /\ ClientsHearTheEnd /\ PressesArePaired
                    /\ ScreenIsNotDeaf /\ PadReplaysWhatWasMade
  <1> SUFFICES ASSUME TouchIsSound
               PROVE  /\ TypeOK /\ ClientsHearTheEnd /\ PressesArePaired
                      /\ ScreenIsNotDeaf /\ PadReplaysWhatWasMade
    OBVIOUS
  <1>1. TypeOK
    BY DEF TouchIsSound, CursorIsSound, PadIsSound, TypeOK, Kept, Fingers
  <1>2. ClientsHearTheEnd
    BY DEF TouchIsSound, CursorIsSound, ClientsHearTheEnd, Kept
  <1>3. PressesArePaired
    BY DEF TouchIsSound, CursorIsSound, PressesArePaired, Kept
  <1>4. ScreenIsNotDeaf
    BY <1>1 DEF TouchIsSound, CursorIsSound, ScreenIsNotDeaf, Kept, Awake
  <1> QED
    BY <1>1, <1>2, <1>3, <1>4 DEF TouchIsSound, PadIsSound

LEMMA StartIsSound == Init => TouchIsSound
  <1> SUFFICES ASSUME Init PROVE TouchIsSound
    OBVIOUS
  <1>1. /\ cur.points = {} /\ cur.peak = 0 /\ cur.claimed = FALSE /\ cur.fired = FALSE
        /\ cur.primary = None /\ cur.emulates = FALSE /\ cur.pressed = 0
        /\ cur.seat = [f \in Contacts |-> None] /\ cur.mode = "normal"
    BY DEF Init
  <1>2. cur \in Cursors
    BY PointAssumption DEF Init, Cursors, Modes
  <1>3. CursorIsSound
    BY <1>1, <1>2, FS_EmptySet DEF Init, CursorIsSound, Kept, Awake, Fingers
  <1>4. PadIsSound
    BY <1>1, PointAssumption DEF Init, PadIsSound, PadReplaysWhatWasMade
  <1> QED
    BY <1>3, <1>4 DEF TouchIsSound

\* Whatever locks the screen drops what the touchpad has buffered.
LEMMA PadIsDropped ==
    ASSUME PadIsSound, pad' = PadAfter
    PROVE  PadIsSound'
  <1>1. CASE cur.mode # "lock" /\ cur'.mode = "lock"
    <2>1. pad' = [pad EXCEPT !.active = FALSE]
      BY <1>1 DEF PadAfter
    <2> QED
      BY <2>1 DEF PadIsSound, PadReplaysWhatWasMade
  <1>2. CASE ~(cur.mode # "lock" /\ cur'.mode = "lock")
    <2>1. pad' = pad
      BY <1>2 DEF PadAfter
    <2> QED
      BY <1>2, <2>1 DEF PadIsSound, PadReplaysWhatWasMade
  <1> QED
    BY <1>1, <1>2

\* One finger goes down: it was neither tracked nor primary.
LEMMA DownIsSound ==
    ASSUME CursorIsSound, NEW f \in Contacts, NEW d \in Devices, NEW s \in Clients \cup {None},
           Down(f, d, s)
    PROVE  CursorIsSound'
  <1>1. /\ finger[f] = None /\ finger \in Fingers /\ Kept(finger, cur) /\ Awake(cur)
        /\ finger' = [finger EXCEPT ![f] = d]
    BY DEF CursorIsSound, Down
  <1>2. finger' \in Fingers /\ finger'[f] = d /\ d # None
    BY <1>1, ContactAssumption DEF Fingers
  <1>3. f \notin cur.points /\ f # cur.primary
    BY <1>1, ContactAssumption DEF Kept
  <1>4. Kept(finger', cur)
    <2>1. \A g \in Contacts : g \in cur.points \/ g = cur.primary => finger'[g] = finger[g]
      BY <1>1, <1>3 DEF Fingers
    <2>2. finger \in Fingers /\ finger' \in Fingers /\ Kept(finger, cur)
      BY <1>1, <1>2
    <2> QED
      BY <2>1, <2>2, OtherFingers
  <1>5. CASE Listening
    <2> DEFINE e == Forward(cur, f, s)
    <2>1. cur.mode # "lock" /\ cur' \in BecomePrimary(e, f, d, s)
      BY <1>5 DEF Listening, Down
    <2>2. Kept(finger', e) /\ Awake(e) /\ e.mode = cur.mode
      BY ZenonT(60), <1>1, <1>2, <1>4, <2>1, ForwardIsKept
    <2> HIDE DEF e
    <2>3. Kept(finger', cur') /\ Awake(cur')
      BY <1>2, <2>1, <2>2, PrimaryIsKept
    <2> QED
      BY <1>2, <2>3 DEF CursorIsSound
  <1>6. CASE ~Listening
    BY <1>1, <1>2, <1>4, <1>6 DEF Down, CursorIsSound
  <1> QED
    BY <1>5, <1>6

\* A finger that has been forgotten may lift.
LEMMA Lifted ==
    ASSUME NEW F \in Fingers, NEW f \in Contacts, NEW c, Kept(F, c), f \notin c.points, c.primary # f
    PROVE  [F EXCEPT ![f] = None] \in Fingers /\ Kept([F EXCEPT ![f] = None], c)
  <1>1. [F EXCEPT ![f] = None] \in Fingers
    BY DEF Fingers
  <1> DEFINE G == [F EXCEPT ![f] = None]
  <1>2. \A g \in Contacts : g \in c.points \/ g = c.primary => G[g] = F[g]
    BY DEF Fingers
  <1>3. G \in Fingers
    BY <1>1
  <1> HIDE DEF G
  <1>4. Kept(G, c)
    BY <1>2, <1>3, OtherFingers
  <1> QED
    BY <1>3, <1>4 DEF G

\* The primary finger that lifts or is cancelled is released; another leaves it alone.
LEMMA PrimaryUpIsKept ==
    ASSUME NEW F \in Fingers, NEW f \in Contacts, NEW c, Kept(F, c), Awake(c), f \notin c.points,
           NEW d \in PrimaryUp(c, f)
    PROVE  Kept(F, d) /\ Awake(d) /\ f \notin d.points /\ d.primary # f
  <1>1. f # None
    BY ContactAssumption
  <1>2. CASE c.primary = f
    BY <1>1, <1>2, ReleaseIsKept DEF PrimaryUp, Below
  <1>3. CASE c.primary # f
    BY <1>3 DEF PrimaryUp
  <1> QED
    BY <1>2, <1>3

LEMMA UpIsSound ==
    ASSUME CursorIsSound, "pending" \notin Races, NEW f \in Contacts, Up(f)
    PROVE  CursorIsSound'
  <1>1. /\ finger \in Fingers /\ Kept(finger, cur) /\ Awake(cur)
        /\ finger' = [finger EXCEPT ![f] = None]
    BY DEF CursorIsSound, Up
  <1>2. CASE Listening
    <2> DEFINE c == ForwardUp(cur, f)
    <2>1. Kept(finger, c) /\ c.seat[f] = None
      <3>1. cur \in Cursors
        BY <1>1 DEF Kept
      <3>2. CASE cur.claimed
        BY <1>1, <3>2 DEF Kept, ForwardUp
      <3>3. CASE ~cur.claimed
        <4>1. c = [cur EXCEPT !.seat[f] = None]
          BY <3>3 DEF ForwardUp
        <4>2. c \in Cursors
          BY <3>1, <4>1 DEF Cursors
        <4> QED
          BY <1>1, <3>1, <4>1, <4>2 DEF Kept, Cursors
      <3> QED
        BY <3>2, <3>3
    <2> HIDE DEF c
    <2>2. PICK e \in GestureUp(c, f) : cur' \in PrimaryUp(e, f)
      BY <1>2 DEF Up, c
    <2>3. Kept(finger, e) /\ Awake(e) /\ f \notin e.points
      BY <1>1, <2>1, <2>2, GestureUpIsKept
    <2>4. Kept(finger, cur') /\ Awake(cur') /\ f \notin cur'.points /\ cur'.primary # f
      BY <1>1, <2>2, <2>3, PrimaryUpIsKept
    <2> QED
      BY <1>1, <2>4, Lifted DEF CursorIsSound
  <1>3. CASE ~Listening
    <2>1. cur' = cur /\ cur.points = {} /\ cur.primary = None /\ f # None
      BY <1>1, <1>3, ContactAssumption DEF Up, Listening, Kept
    <2> QED
      BY <1>1, <2>1, Lifted DEF CursorIsSound
  <1> QED
    BY <1>2, <1>3

LEMMA CancelIsSound ==
    ASSUME CursorIsSound, NEW f \in Contacts, Cancel(f)
    PROVE  CursorIsSound'
  <1>1. /\ finger \in Fingers /\ Kept(finger, cur) /\ Awake(cur)
        /\ finger' = [finger EXCEPT ![f] = None]
    BY DEF CursorIsSound, Cancel
  <1>2. CASE Listening
    <2> DEFINE a == CancelClients(cur)
               c == ResetGesture(a)
    <2>1. Kept(finger, a) /\ Silent(a)
      BY <1>1, CancelIsHeard
    <2> HIDE DEF a
    <2>2. Kept(finger, c) /\ Awake(c) /\ f \notin c.points
      BY <1>1, <2>1, ResetIsKept
    <2>3. cur' \in PrimaryUp(c, f)
      BY <1>2 DEF Cancel, a
    <2> HIDE DEF c
    <2>4. Kept(finger, cur') /\ Awake(cur') /\ f \notin cur'.points /\ cur'.primary # f
      BY <1>1, <2>2, <2>3, PrimaryUpIsKept
    <2> QED
      BY <1>1, <2>4, Lifted DEF CursorIsSound
  <1>3. CASE ~Listening
    <2>1. cur' = cur /\ cur.points = {} /\ cur.primary = None /\ f # None
      BY <1>1, <1>3, ContactAssumption DEF Cancel, Listening, Kept
    <2> QED
      BY <1>1, <2>1, Lifted DEF CursorIsSound
  <1> QED
    BY <1>2, <1>3

\* A touchscreen goes with every finger on it, and with the primary one if it is among them.
LEMMA DeviceGoneIsSound ==
    ASSUME CursorIsSound, NEW d \in Devices, DeviceGone(d)
    PROVE  CursorIsSound'
  <1>1. /\ finger \in Fingers /\ Kept(finger, cur) /\ Awake(cur)
        /\ finger' = [f \in Contacts |-> IF finger[f] = d THEN None ELSE finger[f]]
    BY DEF CursorIsSound, DeviceGone
  <1>2. finger' \in Fingers
    BY <1>1 DEF Fingers
  <1> DEFINE goes == cur.primary # None /\ cur.device = d
  <1>3. PICK c \in IF goes THEN ReleasePrimary(cur) ELSE {cur} :
              cur' = ResetGesture(CancelClients(c))
    BY DEF DeviceGone
  <1>4. Kept(finger, c) /\ (c.primary # None => finger[c.primary] # d)
    <2>1. CASE goes
      BY <1>1, <1>3, <2>1, ReleaseIsKept
    <2>2. CASE ~goes
      BY <1>1, <1>3, <2>2 DEF Kept
    <2> QED
      BY <2>1, <2>2
  <1> DEFINE a == CancelClients(c)
  <1>5. Kept(finger, a) /\ Silent(a) /\ a.primary = c.primary
    <2>1. Kept(finger, a) /\ Silent(a) /\ a = [c EXCEPT !.seat = a.seat] /\ c \in Cursors
      BY <1>1, <1>4, CancelIsHeard DEF Kept
    <2> QED
      BY <2>1 DEF Cursors
  <1> HIDE DEF a
  <1>6. Kept(finger, cur') /\ Awake(cur') /\ cur'.points = {} /\ cur'.primary = c.primary
    BY <1>1, <1>3, <1>5, ResetIsKept DEF a
  <1>7. Kept(finger', cur')
    <2>1. \A g \in Contacts : g \in cur'.points \/ g = cur'.primary => finger'[g] = finger[g]
      BY <1>1, <1>4, <1>6, ContactAssumption
    <2> QED
      BY <1>1, <1>2, <1>6, <2>1, OtherFingers
  <1> QED
    BY <1>2, <1>6, <1>7 DEF CursorIsSound

\* Keys, buttons and the touchpad run bindings only while the screen is not locked.
LEMMA PressKeyIsSound ==
    ASSUME CursorIsSound, PressKey
    PROVE  CursorIsSound'
  <1>1. finger \in Fingers /\ Kept(finger, cur) /\ Awake(cur) /\ finger' = finger
    BY DEF CursorIsSound, PressKey
  <1>2. \/ cur' \in PendingAction(cur) \/ cur' \in BindingResults(cur)
        \/ cur' = [cur EXCEPT !.mode = "normal"]
    BY DEF PressKey
  <1>3. Follows(finger, cur, cur')
    BY <1>1, <1>2, PendingActionFollows, BindingFollows, ModeFollows
  <1> QED
    BY <1>1, <1>3 DEF CursorIsSound, Follows

LEMMA PadEndIsSound ==
    ASSUME TouchIsSound, PadEnd
    PROVE  TouchIsSound'
  <1>1. finger \in Fingers /\ Kept(finger, cur) /\ Awake(cur) /\ finger' = finger
    BY DEF TouchIsSound, CursorIsSound, PadEnd
  <1>2. cur' = cur \/ cur' \in ActionResults(cur)
    BY DEF PadEnd, Fire, Listening
  <1>3. CursorIsSound'
    <2>1. Kept(finger, cur') /\ Awake(cur')
      BY <1>1, <1>2, ActionFollows DEF Follows
    <2> QED
      BY <1>1, <2>1 DEF CursorIsSound
  <1>4. PadIsSound'
    BY DEF TouchIsSound, PadIsSound, PadReplaysWhatWasMade, PadEnd
  <1> QED
    BY <1>3, <1>4 DEF TouchIsSound

LEMMA PadUpdateIsSound ==
    ASSUME TouchIsSound, PadUpdate
    PROVE  TouchIsSound'
  <1>1. CursorIsSound'
    BY DEF TouchIsSound, CursorIsSound, PadUpdate, Kept, Awake, Fingers
  <1>2. PadIsSound'
    <2>1. /\ pad.hand \in 0 .. MaxUpdates /\ MaxUpdates \in Nat /\ pad.updates \in 0 .. MaxUpdates
          /\ pad.active \in BOOLEAN
      BY PointAssumption, ContactAssumption DEF TouchIsSound, PadIsSound, PadUpdate
    <2> DEFINE n == IF pad.active /\ Listening /\ pad.updates < MaxUpdates
                    THEN pad.updates + 1 ELSE pad.updates
    <2>2. pad'.hand = pad.hand + 1 /\ pad'.active = pad.active /\ pad'.updates = n /\ cur' = cur
      BY DEF PadUpdate, TouchIsSound, PadIsSound
    <2>3. pad' = [hand |-> pad.hand + 1, active |-> pad.active, updates |-> n]
      BY DEF PadUpdate, TouchIsSound, PadIsSound
    <2>4. n \in 0 .. MaxUpdates /\ pad.hand + 1 \in 0 .. MaxUpdates + 1
      BY <2>1
    <2>5. pad.active => Listening /\ pad.updates = IF pad.hand > MaxUpdates THEN MaxUpdates ELSE pad.hand
      BY DEF TouchIsSound, PadIsSound, PadReplaysWhatWasMade, Listening
    <2>6. pad.active => n = IF pad.hand + 1 > MaxUpdates THEN MaxUpdates ELSE pad.hand + 1
      BY <2>1, <2>5
    <2>7. pad.hand + 1 # None
      BY <2>1, ContactAssumption
    <2> HIDE DEF n
    <2>8. pad' \in [hand : (0 .. MaxUpdates + 1) \cup {None}, active : BOOLEAN, updates : 0 .. MaxUpdates]
      BY <2>1, <2>3, <2>4
    <2>9. PadReplaysWhatWasMade'
      BY <2>2, <2>6, <2>7 DEF PadReplaysWhatWasMade
    <2> QED
      BY <2>2, <2>5, <2>8, <2>9 DEF PadIsSound, Listening
  <1> QED
    BY <1>1, <1>2 DEF TouchIsSound

LEMMA PadBeginIsSound ==
    ASSUME TouchIsSound, PadBegin
    PROVE  TouchIsSound'
  <1>1. CursorIsSound'
    BY DEF TouchIsSound, CursorIsSound, PadBegin, Kept, Awake, Fingers
  <1>2. 0 \in 0 .. MaxUpdates /\ 0 \in 0 .. MaxUpdates + 1 /\ 0 # None /\ ~(0 > MaxUpdates)
    BY PointAssumption, ContactAssumption
  <1>3. Listening \in BOOLEAN
    BY DEF Listening
  <1>4. pad' = [hand |-> 0, active |-> Listening, updates |-> 0] /\ cur' = cur
    BY DEF PadBegin
  <1>5. pad' \in [hand : (0 .. MaxUpdates + 1) \cup {None}, active : BOOLEAN, updates : 0 .. MaxUpdates]
    BY <1>2, <1>3, <1>4
  <1>6. pad'.hand = 0 /\ pad'.updates = 0 /\ (pad'.active => cur.mode # "lock")
    BY <1>4 DEF Listening
  <1>7. PadIsSound'
    BY <1>2, <1>4, <1>5, <1>6 DEF PadIsSound, PadReplaysWhatWasMade
  <1> QED
    BY <1>1, <1>7 DEF TouchIsSound

\* The lock ends with no finger tracked.
LEMMA UnlockIsSound ==
    ASSUME TouchIsSound, Unlock
    PROVE  TouchIsSound'
  <1>1. finger \in Fingers /\ Kept(finger, cur) /\ Awake(cur) /\ finger' = finger /\ pad' = pad
        /\ cur' = [cur EXCEPT !.mode = "normal"]
    BY DEF TouchIsSound, CursorIsSound, Unlock
  <1>2. Follows(finger, cur, cur') /\ cur \in Cursors
    BY <1>1, ModeFollows DEF Kept
  <1>3. CursorIsSound'
    BY <1>1, <1>2 DEF CursorIsSound, Follows
  <1>4. cur'.mode = "normal"
    BY <1>1, <1>2 DEF Cursors
  <1>5. PadIsSound'
    BY <1>1, <1>4 DEF TouchIsSound, PadIsSound, PadReplaysWhatWasMade
  <1> QED
    BY <1>3, <1>5 DEF TouchIsSound

LEMMA ClientGoneIsSound ==
    ASSUME TouchIsSound, NEW s \in Clients, ClientGone(s)
    PROVE  TouchIsSound'
  <1>1. finger \in Fingers /\ Kept(finger, cur) /\ Awake(cur) /\ finger' = finger /\ pad' = pad
    BY DEF TouchIsSound, CursorIsSound, ClientGone
  <1> DEFINE S == [f \in Contacts |-> IF cur.seat[f] = s THEN None ELSE cur.seat[f]]
  <1>2. cur \in Cursors /\ cur' = [cur EXCEPT !.seat = S] /\ S \in [Contacts -> Clients \cup {None}]
    BY <1>1 DEF ClientGone, Kept, Cursors
  <1>3. \A f \in Contacts : S[f] # None => cur.seat[f] # None
    OBVIOUS
  <1> HIDE DEF S
  <1>4. cur' \in Cursors
    BY <1>2 DEF Cursors
  <1>5. CursorIsSound'
    BY <1>1, <1>2, <1>3, <1>4 DEF CursorIsSound, Kept, Awake, Cursors
  <1>6. PadIsSound'
    BY <1>1, <1>2 DEF TouchIsSound, PadIsSound, PadReplaysWhatWasMade, Cursors
  <1> QED
    BY <1>5, <1>6 DEF TouchIsSound


-----------------------------------------------------------------------------
(* Theorems                                                                *)

LEMMA StepIsSound ==
    ASSUME TouchIsSound, "pending" \notin Races, [Next]_vars
    PROVE  TouchIsSound'
  <1>1. CursorIsSound /\ PadIsSound
    BY DEF TouchIsSound
  <1>2. ASSUME NEW f \in Contacts, NEW d \in Devices, NEW s \in Clients \cup {None}, Down(f, d, s)
        PROVE  TouchIsSound'
    BY <1>1, <1>2, DownIsSound, PadIsDropped DEF Down, TouchIsSound
  <1>3. ASSUME NEW f \in Contacts, Up(f)
        PROVE  TouchIsSound'
    BY <1>1, <1>3, UpIsSound, PadIsDropped DEF Up, TouchIsSound
  <1>4. ASSUME NEW f \in Contacts, Motion(f)
        PROVE  TouchIsSound'
    <2>1. /\ finger \in Fingers /\ Kept(finger, cur) /\ Awake(cur) /\ finger' = finger
          /\ cur' \in Evaluate(cur) /\ pad' = PadAfter
      BY <1>1, <1>4 DEF Motion, CursorIsSound
    <2>2. Kept(finger, cur') /\ Awake(cur')
      BY <2>1, EvaluateIsKept
    <2> QED
      BY <1>1, <2>1, <2>2, PadIsDropped DEF CursorIsSound, TouchIsSound
  <1>5. ASSUME NEW f \in Contacts, Cancel(f)
        PROVE  TouchIsSound'
    BY <1>1, <1>5, CancelIsSound, PadIsDropped DEF Cancel, TouchIsSound
  <1>6. ASSUME NEW d \in Devices, DeviceGone(d)
        PROVE  TouchIsSound'
    BY <1>1, <1>6, DeviceGoneIsSound, PadIsDropped DEF DeviceGone, TouchIsSound
  <1>7. CASE PressKey
    BY <1>1, <1>7, PressKeyIsSound, PadIsDropped DEF PressKey, TouchIsSound
  <1>8. CASE PadBegin
    BY <1>8, PadBeginIsSound
  <1>9. CASE PadUpdate
    BY <1>9, PadUpdateIsSound
  <1>10. CASE PadEnd
    BY <1>10, PadEndIsSound
  <1>11. CASE Unlock
    BY <1>11, UnlockIsSound
  <1>12. ASSUME NEW s \in Clients, ClientGone(s)
         PROVE  TouchIsSound'
    BY <1>12, ClientGoneIsSound
  <1>13. CASE UNCHANGED vars
    BY <1>1, <1>13 DEF vars, TouchIsSound, CursorIsSound, PadIsSound, PadReplaysWhatWasMade,
                       Kept, Awake, Fingers
  <1> QED
    BY <1>2, <1>3, <1>4, <1>5, <1>6, <1>7, <1>8, <1>9, <1>10, <1>11, <1>12, <1>13 DEF Next

\* The inductive invariant: nothing a handler does, in whatever order the devices, the
\* clients and the lock come, loses a finger, a press or a gesture.
THEOREM TouchStaysSound ==
    ASSUME "pending" \notin Races
    PROVE  Spec => []TouchIsSound
  <1>1. Init => TouchIsSound
    BY StartIsSound
  <1>2. TouchIsSound /\ [Next]_vars => TouchIsSound'
    BY StepIsSound
  <1> QED
    BY <1>1, <1>2, PTL DEF Spec

\* A client that was told of a finger hears its end, whatever claims, cancels, unplugs or locks
\* (touch_cancel_client_sequences() and its callers in cursor.c).
THEOREM EveryEndIsHeard ==
    ASSUME "pending" \notin Races
    PROVE  Spec => []ClientsHearTheEnd
  <1>1. TouchIsSound => ClientsHearTheEnd
    BY SoundIsEnough
  <1> QED
    BY <1>1, TouchStaysSound, PTL

\* The seat holds one emulated button exactly while the primary finger emulates one, and that
\* finger is down on the device remembered (end_primary_touch() in cursor.c).
THEOREM EveryPressIsPaired ==
    ASSUME "pending" \notin Races
    PROVE  Spec => []PressesArePaired
  <1>1. TouchIsSound => PressesArePaired
    BY SoundIsEnough
  <1> QED
    BY <1>1, TouchStaysSound, PTL

\* The recogniser never waits for fingers that are gone, and its table never overflows
\* (touch_gesture_down() and touch_gesture_up() in cursor.c).
THEOREM ScreenStaysAwake ==
    ASSUME "pending" \notin Races
    PROVE  Spec => []ScreenIsNotDeaf
  <1>1. TouchIsSound => ScreenIsNotDeaf
    BY SoundIsEnough
  <1> QED
    BY <1>1, TouchStaysSound, PTL

\* A touchpad gesture replayed to a client is the whole of what was made
\* (gesture_buffer_update() and hikari_cursor_deactivate() in cursor.c).
THEOREM ReplayIsFaithful ==
    ASSUME "pending" \notin Races
    PROVE  Spec => []PadReplaysWhatWasMade
  <1>1. TouchIsSound => PadReplaysWhatWasMade
    BY SoundIsEnough
  <1> QED
    BY <1>1, TouchStaysSound, PTL

=============================================================================
