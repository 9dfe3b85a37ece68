------------------------- MODULE ConstraintsProofs -------------------------
(***************************************************************************)
(* Theorems about Constraints, for any windows, popups and requests.  They *)
(* hold without the order of events that Constraints names "unmapped".     *)
(*                                                                         *)
(* Base is what every step of a handler keeps; idle says whether a refresh *)
(* is queued.  A window that unmaps is still shown while its handler runs, *)
(* so Base asks of the holder's window that it be mapped or shown.         *)
(* Settled is what the pointer has once it has looked at what it is over.  *)
(***************************************************************************)
EXTENDS Constraints, TLAPS

Modes == {"normal", "modal", "drag", "lock"}

Pointers ==
    [mapped : SUBSET Tops, shown : SUBSET Tops, of : [Surfaces -> Constraint \cup {None}],
     told : [Surfaces -> BOOLEAN], active : Surfaces \cup {None}, focus : Surfaces \cup {None},
     over : Surfaces \cup {None}, down : BOOLEAN, touch : BOOLEAN, mode : Modes]

Agree(g) == \A s \in Surfaces : g.told[s] <=> g.active = s

Enforced(g, idle) ==
    g.active # None =>
        /\ g.of[g.active] # None
        /\ Top(g.active) \in g.mapped \cup g.shown
        /\ g.of[g.active].type = "confined" => g.of[g.active].region \/ idle

OverShown(g) == g.over # None => Top(g.over) \in g.shown

Base(g, idle) ==
    /\ g \in Pointers
    /\ Agree(g)
    /\ Enforced(g, idle)
    /\ g.mode \in {"lock", "drag"} => g.active = None
    /\ OverShown(g)

Settled(g) ==
    g.mode = "normal" /\ ~g.down /\ ~g.touch =>
        /\ g.focus # None => Top(g.focus) \in g.shown
        /\ g.active # None => Top(g.active) \in g.shown

\* The part of the state that no look at the pointer changes.
Same(g, d) ==
    /\ d.mapped = g.mapped /\ d.shown = g.shown /\ d.mode = g.mode
    /\ d.down = g.down /\ d.touch = g.touch

-----------------------------------------------------------------------------
(* Parts of a handler                                                      *)

LEMMA TopOfTop ==
    ASSUME NEW s \in Tops
    PROVE  Top(s) = s /\ s \in Surfaces
  BY ParentAssumption DEF Top, Surfaces

\* The end of a hold.
LEMMA DeactivateIsSound ==
    ASSUME NEW g, NEW idle \in BOOLEAN, Base(g, idle), NEW honour \in BOOLEAN
    PROVE  /\ Base(DeactivateHold(g, honour), FALSE)
           /\ DeactivateHold(g, honour).active = None
           /\ Same(g, DeactivateHold(g, honour))
           /\ DeactivateHold(g, honour).focus = g.focus
           /\ \A s \in Surfaces : s # g.active => DeactivateHold(g, honour).of[s] = g.of[s]
  <1> DEFINE d == DeactivateHold(g, honour)
             s == g.active
  <1>1. g \in Pointers
    BY DEF Base
  <1>2. CASE s = None
    <2>1. d = g
      BY <1>2 DEF DeactivateHold
    <2> QED
      BY <1>2, <2>1 DEF Base, Same, Enforced
  <1>3. CASE s # None
    <2>1. s \in Surfaces /\ g.of[s] \in Constraint
      BY <1>1, <1>3 DEF Base, Enforced, Pointers
    <2> DEFINE told == [g.told EXCEPT ![s] = FALSE]
               of == [g.of EXCEPT ![s] = IF g.of[s].oneshot THEN None ELSE g.of[s]]
               over == IF honour /\ g.of[s].hint /\ Resolves(g, s) THEN s ELSE g.over
    <2>2. d = [g EXCEPT !.told = told, !.active = None, !.of = of, !.over = over]
      BY <1>1, <1>3, <2>1 DEF DeactivateHold, Told, Pointers
    <2>3. told \in [Surfaces -> BOOLEAN] /\ \A x \in Surfaces : ~told[x]
      BY <1>1, <2>1 DEF Base, Agree, Pointers
    <2>4. of \in [Surfaces -> Constraint \cup {None}] /\ \A x \in Surfaces : x # s => of[x] = g.of[x]
      BY <1>1, <2>1 DEF Pointers
    <2>5. over \in Surfaces \cup {None} /\ (over # None => Top(over) \in g.shown)
      BY <1>1, <2>1, TopOfTop DEF Base, OverShown, Resolves, Pointers
    <2> HIDE DEF told, of, over
    <2>6. /\ d.told = told /\ d.active = None /\ d.of = of /\ d.over = over
          /\ d.mapped = g.mapped /\ d.shown = g.shown /\ d.mode = g.mode
          /\ d.down = g.down /\ d.touch = g.touch /\ d.focus = g.focus
      BY <1>1, <2>2 DEF Pointers
    <2>7. d \in Pointers
      BY <1>1, <2>2, <2>3, <2>4, <2>5 DEF Pointers
    <2>8. Agree(d)
      BY <2>3, <2>6, NoneAssumption DEF Agree
    <2> QED
      BY <2>4, <2>5, <2>6, <2>7, <2>8 DEF Base, Enforced, OverShown, Same
  <1> QED
    BY <1>2, <1>3

\* A constraint of the surface that has the pointer comes into force.
LEMMA ActivateIsSound ==
    ASSUME NEW g, Base(g, FALSE), g.active = None, g.mode = "normal", NEW s \in Surfaces,
           g.of[s] # None, Enforceable(g, s), Top(s) \in g.mapped \cup g.shown
    PROVE  /\ Base(Activate(g, s), FALSE) /\ Activate(g, s).active = s
           /\ Same(g, Activate(g, s)) /\ Activate(g, s).focus = g.focus
  <1> DEFINE d == Activate(g, s)
             told == [g.told EXCEPT ![s] = TRUE]
  <1>1. g \in Pointers /\ s # None
    BY NoneAssumption DEF Base
  <1>2. d = [g EXCEPT !.told = told, !.active = s]
    BY <1>1 DEF Activate, Told, Pointers
  <1>3. told \in [Surfaces -> BOOLEAN] /\ \A x \in Surfaces : told[x] <=> x = s
    BY <1>1, NoneAssumption DEF Base, Agree, Pointers
  <1> HIDE DEF told
  <1>4. /\ d.told = told /\ d.active = s /\ d.of = g.of /\ d.over = g.over
        /\ d.mapped = g.mapped /\ d.shown = g.shown /\ d.mode = g.mode
        /\ d.down = g.down /\ d.touch = g.touch /\ d.focus = g.focus
    BY <1>1, <1>2 DEF Pointers
  <1>5. d \in Pointers
    BY <1>1, <1>2, <1>3 DEF Pointers
  <1>6. g.of[s].type = "confined" => g.of[s].region
    BY DEF Enforceable
  <1> QED
    BY <1>3, <1>4, <1>5, <1>6 DEF Base, Agree, Enforced, OverShown, Same

\* hikari_pointer_constraint_refresh() gives the pointer to the surface that has its focus, or to
\* nobody; a refresh that was queued is due no more.
LEMMA RefreshIsSound ==
    ASSUME NEW g, NEW idle \in BOOLEAN, Base(g, idle),
           g.mode = "normal" /\ g.focus # None => Top(g.focus) \in g.mapped \cup g.shown
    PROVE  /\ Base(Refresh(g), FALSE) /\ Same(g, Refresh(g)) /\ Refresh(g).focus = g.focus
           /\ Refresh(g).active \in {None, g.focus}
           /\ g.focus = None => Refresh(g).active = None
  <1> DEFINE w == Wanted(g)
             e == DeactivateHold(g, TRUE)
  <1>1. g \in Pointers /\ g.focus \in Surfaces \cup {None}
    BY DEF Base, Pointers
  <1>2. w \in {None, g.focus}
    BY DEF Wanted
  <1>3. w # None => /\ g.mode = "normal" /\ w = g.focus /\ g.of[w] # None /\ Enforceable(g, w)
                    /\ w \in Surfaces /\ Top(w) \in g.mapped \cup g.shown
    BY <1>1 DEF Wanted
  <1> HIDE DEF w
  <1>4. CASE w = g.active
    <2>1. Refresh(g) = g
      BY <1>4 DEF Refresh, w
    <2>2. Enforced(g, FALSE)
      BY <1>3, <1>4 DEF Enforced, Enforceable
    <2> QED
      BY <1>2, <1>4, <2>1, <2>2 DEF Base, Same
  <1>5. CASE w # g.active
    <2>1. /\ Base(e, FALSE) /\ e.active = None /\ Same(g, e) /\ e.focus = g.focus
          /\ \A s \in Surfaces : s # g.active => e.of[s] = g.of[s]
      BY DeactivateIsSound
    <2>2. Refresh(g) = Activate(e, w)
      BY <1>5 DEF Refresh, w
    <2> HIDE DEF e
    <2>3. CASE w = None
      <3>1. Refresh(g) = e
        BY <2>2, <2>3 DEF Activate
      <3> QED
        BY <2>1, <3>1
    <2>4. CASE w # None
      <3>1. e.of[w] = g.of[w] /\ e.mode = "normal" /\ Top(w) \in e.mapped \cup e.shown
        BY <1>3, <1>5, <2>1, <2>4 DEF Same
      <3>2. Enforceable(e, w)
        BY <1>3, <2>1, <2>4, <3>1 DEF Enforceable, Resolves, Same
      <3>3. /\ Base(Activate(e, w), FALSE) /\ Activate(e, w).active = w
            /\ Same(e, Activate(e, w)) /\ Activate(e, w).focus = e.focus
        BY <1>3, <2>1, <2>4, <3>1, <3>2, ActivateIsSound
      <3> QED
        BY <1>2, <2>1, <2>2, <2>4, <3>3 DEF Same
    <2> QED
      BY <2>3, <2>4
  <1> QED
    BY <1>4, <1>5

\* A queued refresh only allows more.
LEMMA QueuedAllowsMore ==
    ASSUME NEW g, NEW idle, Base(g, FALSE)
    PROVE  Base(g, idle)
  BY DEF Base, Enforced

\* The cursor is put over what is shown, or over nothing.
LEMMA PutIsSound ==
    ASSUME NEW g, NEW idle \in BOOLEAN, Base(g, idle), NEW s \in Under(g.shown)
    PROVE  /\ Base([g EXCEPT !.over = s], idle) /\ Same(g, [g EXCEPT !.over = s])
           /\ [g EXCEPT !.over = s].focus = g.focus /\ [g EXCEPT !.over = s].active = g.active
  <1> DEFINE d == [g EXCEPT !.over = s]
  <1>1. g \in Pointers /\ s \in Surfaces \cup {None} /\ (s # None => Top(s) \in g.shown)
    BY DEF Base, Under
  <1>2. /\ d.told = g.told /\ d.active = g.active /\ d.of = g.of /\ d.over = s
        /\ d.mapped = g.mapped /\ d.shown = g.shown /\ d.mode = g.mode
        /\ d.down = g.down /\ d.touch = g.touch /\ d.focus = g.focus
    BY <1>1 DEF Pointers
  <1>3. d \in Pointers
    BY <1>1 DEF Pointers
  <1> HIDE DEF d
  <1> QED
    BY <1>1, <1>2, <1>3 DEF Base, Agree, Enforced, OverShown, Same, d

\* The seat's pointer focus is no part of what Base says.
LEMMA AimIsSound ==
    ASSUME NEW g, NEW idle \in BOOLEAN, Base(g, idle), NEW s \in Surfaces \cup {None}
    PROVE  /\ Base([g EXCEPT !.focus = s], idle) /\ Same(g, [g EXCEPT !.focus = s])
           /\ [g EXCEPT !.focus = s].focus = s /\ [g EXCEPT !.focus = s].over = g.over
           /\ [g EXCEPT !.focus = s].active = g.active
  <1> DEFINE d == [g EXCEPT !.focus = s]
  <1>1. g \in Pointers
    BY DEF Base
  <1>2. /\ d.told = g.told /\ d.active = g.active /\ d.of = g.of /\ d.over = g.over
        /\ d.mapped = g.mapped /\ d.shown = g.shown /\ d.mode = g.mode
        /\ d.down = g.down /\ d.touch = g.touch /\ d.focus = s
    BY <1>1 DEF Pointers
  <1>3. d \in Pointers
    BY <1>1 DEF Pointers
  <1> HIDE DEF d
  <1> QED
    BY <1>2, <1>3 DEF Base, Agree, Enforced, OverShown, Same, d

\* A mode, a button, a finger and the pointer focus are no part of what Base says, but that in the
\* lock mode and in a drag nobody holds the pointer.
LEMMA ModeIsSound ==
    ASSUME NEW g, NEW idle, Base(g, idle), NEW d \in Pointers,
           d.mapped = g.mapped, d.shown = g.shown, d.of = g.of, d.told = g.told,
           d.active = g.active, d.over = g.over,
           d.mode \in {"lock", "drag"} => g.active = None
    PROVE  Base(d, idle)
  BY DEF Base, Agree, Enforced, OverShown

\* hikari_workspace_focus_view(): the pointer goes to what is under it, or to nobody.
LEMMA FocusIsSound ==
    ASSUME NEW g, NEW idle \in BOOLEAN, Base(g, idle)
    PROVE  /\ Base(FocusView(g), idle) /\ Same(g, FocusView(g))
           /\ FocusView(g).focus = g.over /\ FocusView(g).active \in {None, g.over}
           /\ Base(FocusNothing(g), idle) /\ Same(g, FocusNothing(g))
           /\ FocusNothing(g).focus = None /\ FocusNothing(g).active = None
  <1>1. g.over \in Surfaces \cup {None} /\ (g.over # None => Top(g.over) \in g.shown)
    BY DEF Base, Pointers, OverShown
  <1> DEFINE e == [g EXCEPT !.focus = g.over]
             f == [g EXCEPT !.focus = None]
  <1>2. Base(e, idle) /\ Same(g, e) /\ e.focus = g.over
    BY <1>1, AimIsSound
  <1>3. Base(f, idle) /\ Same(g, f) /\ f.focus = None
    BY AimIsSound
  <1>4. FocusView(g) = Refresh(e) /\ FocusNothing(g) = Refresh(f)
    BY DEF FocusView, FocusNothing
  <1> HIDE DEF e, f
  <1>5. e.focus # None => Top(e.focus) \in e.mapped \cup e.shown
    BY <1>1, <1>2 DEF Same
  <1>6. /\ Base(Refresh(e), FALSE) /\ Same(e, Refresh(e)) /\ Refresh(e).focus = e.focus
        /\ Refresh(e).active \in {None, e.focus}
    BY <1>2, <1>5, RefreshIsSound
  <1>7. /\ Base(Refresh(f), FALSE) /\ Same(f, Refresh(f)) /\ Refresh(f).focus = f.focus
        /\ Refresh(f).active = None
    BY <1>3, RefreshIsSound
  <1>8. Base(Refresh(e), idle) /\ Base(Refresh(f), idle)
    BY <1>6, <1>7, QueuedAllowsMore
  <1> QED
    BY <1>2, <1>3, <1>4, <1>6, <1>7, <1>8 DEF Same

\* The pointer enters what it is over, and the hold follows it.
LEMMA CursorMoveIsSound ==
    ASSUME NEW g, NEW idle \in BOOLEAN, Base(g, idle)
    PROVE  Base(CursorMove(g), idle) /\ Settled(CursorMove(g)) /\ Same(g, CursorMove(g))
  <1>1. g.over \in Surfaces \cup {None} /\ (g.over # None => Top(g.over) \in g.shown)
    BY DEF Base, Pointers, OverShown
  <1>2. CASE g.mode = "normal" /\ ~g.down /\ ~g.touch
    <2>1. CursorMove(g) = FocusView(g)
      BY <1>2 DEF CursorMove, FocusView
    <2>2. /\ Base(FocusView(g), idle) /\ Same(g, FocusView(g))
          /\ FocusView(g).focus = g.over /\ FocusView(g).active \in {None, g.over}
      BY FocusIsSound
    <2> QED
      BY <1>1, <2>1, <2>2 DEF Settled, Same
  <1>3. CASE ~(g.mode = "normal" /\ ~g.down /\ ~g.touch) /\ g.mode = "drag"
    <2> DEFINE e == [g EXCEPT !.focus = g.over]
    <2>1. CursorMove(g) = e
      BY <1>3 DEF CursorMove
    <2>2. Base(e, idle) /\ Same(g, e)
      BY <1>1, AimIsSound
    <2> HIDE DEF e
    <2> QED
      BY <1>3, <2>1, <2>2 DEF Settled, Same
  <1>4. CASE ~(g.mode = "normal" /\ ~g.down /\ ~g.touch) /\ g.mode # "drag"
    <2>1. CursorMove(g) = g
      BY <1>4 DEF CursorMove
    <2> QED
      BY <1>4, <2>1 DEF Settled, Same
  <1> QED
    BY <1>2, <1>3, <1>4

\* normal_mode_enter().
LEMMA EnterNormalIsSound ==
    ASSUME NEW g, NEW idle \in BOOLEAN, Base(g, idle)
    PROVE  /\ Base(EnterNormal(g), idle) /\ Settled(EnterNormal(g))
           /\ EnterNormal(g).mapped = g.mapped /\ EnterNormal(g).shown = g.shown
           /\ EnterNormal(g).mode = "normal" /\ ~EnterNormal(g).down
  <1> DEFINE d == [g EXCEPT !.mode = "normal", !.down = FALSE]
  <1>1. g \in Pointers
    BY DEF Base
  <1>2. /\ d.mapped = g.mapped /\ d.shown = g.shown /\ d.of = g.of /\ d.told = g.told
        /\ d.active = g.active /\ d.over = g.over /\ d.mode = "normal" /\ ~d.down
    BY <1>1 DEF Pointers
  <1>3. d \in Pointers
    BY <1>1 DEF Pointers, Modes
  <1>4. EnterNormal(g) = CursorMove(d)
    BY DEF EnterNormal
  <1> HIDE DEF d
  <1>5. Base(d, idle)
    BY <1>2, <1>3, ModeIsSound
  <1>6. Base(CursorMove(d), idle) /\ Settled(CursorMove(d)) /\ Same(d, CursorMove(d))
    BY <1>5, CursorMoveIsSound
  <1> QED
    BY <1>2, <1>4, <1>6 DEF Same

\* constraint_destroy_handler().
LEMMA DestroyedIsSound ==
    ASSUME NEW g, NEW idle \in BOOLEAN, Base(g, idle), NEW s \in Surfaces
    PROVE  /\ Base(Destroyed(g, s), idle) /\ Same(g, Destroyed(g, s))
           /\ Destroyed(g, s).focus = g.focus
           /\ Destroyed(g, s).active \in {None, g.active}
           /\ Destroyed(g, s).active # s
  <1> DEFINE d == Destroyed(g, s)
  <1>1. g \in Pointers /\ s # None
    BY NoneAssumption DEF Base
  <1>2. CASE g.of[s] = None
    <2>1. d = g /\ g.active # s
      BY <1>1, <1>2 DEF Destroyed, Base, Enforced
    <2> QED
      BY <2>1 DEF Same
  <1>3. CASE g.of[s] # None
    <2> DEFINE told == [g.told EXCEPT ![s] = FALSE]
               of == [g.of EXCEPT ![s] = None]
               over == IF g.active = s /\ g.of[s].hint /\ Resolves(g, s) THEN s ELSE g.over
               active == IF g.active = s THEN None ELSE g.active
    <2>1. d = [g EXCEPT !.told = told, !.active = active, !.of = of, !.over = over]
      BY <1>1, <1>3 DEF Destroyed, Told, Pointers
    <2>2. told \in [Surfaces -> BOOLEAN] /\ \A x \in Surfaces : told[x] <=> active = x
      BY <1>1, NoneAssumption DEF Base, Agree, Pointers
    <2>3. of \in [Surfaces -> Constraint \cup {None}] /\ \A x \in Surfaces : x # s => of[x] = g.of[x]
      BY <1>1 DEF Pointers
    <2>4. over \in Surfaces \cup {None} /\ (over # None => Top(over) \in g.shown)
      BY <1>1, TopOfTop DEF Base, OverShown, Resolves, Pointers
    <2>5. active \in Surfaces \cup {None} /\ active \in {None, g.active} /\ active # s
      BY <1>1 DEF Pointers
    <2> HIDE DEF told, of, over, active
    <2>6. /\ d.told = told /\ d.active = active /\ d.of = of /\ d.over = over
          /\ d.mapped = g.mapped /\ d.shown = g.shown /\ d.mode = g.mode
          /\ d.down = g.down /\ d.touch = g.touch /\ d.focus = g.focus
      BY <1>1, <2>1 DEF Pointers
    <2>7. d \in Pointers
      BY ZenonT(60), <1>1, <2>1, <2>2, <2>3, <2>4, <2>5 DEF Pointers
    <2>8. Enforced(d, idle)
      BY <2>3, <2>5, <2>6 DEF Base, Enforced
    <2> HIDE DEF d
    <2>9. Base(d, idle) /\ Same(g, d)
      BY <2>2, <2>4, <2>5, <2>6, <2>7, <2>8 DEF Base, Agree, OverShown, Same
    <2> QED
      BY <2>5, <2>6, <2>9 DEF d
  <1> QED
    BY <1>2, <1>3


\* What every handler leaves.
Sound(g, idle) == Base(g, idle) /\ Settled(g) /\ g.shown \subseteq g.mapped

Pressed(g) == g.mode = "normal" /\ g.down

\* A handler that ends with a look at the pointer.
LEMMA LookIsSound ==
    ASSUME NEW g, NEW idle \in BOOLEAN, Base(g, idle), g.shown \subseteq g.mapped
    PROVE  Sound(CursorMove(g), idle) /\ (Pressed(CursorMove(g)) => Pressed(g))
  BY CursorMoveIsSound DEF Sound, Pressed, Same

LEMMA LeaveIsSound ==
    ASSUME NEW g, NEW idle \in BOOLEAN, Base(g, idle), g.shown \subseteq g.mapped
    PROVE  Sound(EnterNormal(g), idle) /\ ~Pressed(EnterNormal(g))
  BY EnterNormalIsSound DEF Sound, Pressed

\* hikari_view_unmap() ends the hold of the view, or of a popup of it.
LEMMA UnholdIsSound ==
    ASSUME NEW g, NEW idle \in BOOLEAN, Base(g, idle), NEW v \in Tops
    PROVE  /\ Base(Unhold(g, v), idle) /\ Same(g, Unhold(g, v)) /\ Unhold(g, v).focus = g.focus
           /\ Unhold(g, v).active \in {None, g.active} /\ ~Holds(Unhold(g, v), v)
  <1>1. CASE Holds(g, v)
    <2>1. Unhold(g, v) = DeactivateHold(g, TRUE)
      BY <1>1 DEF Unhold
    <2>2. /\ Base(DeactivateHold(g, TRUE), FALSE) /\ DeactivateHold(g, TRUE).active = None
          /\ Same(g, DeactivateHold(g, TRUE)) /\ DeactivateHold(g, TRUE).focus = g.focus
      BY DeactivateIsSound
    <2> QED
      BY <2>1, <2>2, QueuedAllowsMore DEF Holds
  <1>2. CASE ~Holds(g, v)
    BY <1>2 DEF Unhold, Same
  <1> QED
    BY <1>1, <1>2

\* A view that has the focus and goes takes every hold with it.
LEMMA UnfocusedIsSound ==
    ASSUME NEW g, NEW idle \in BOOLEAN, Base(g, idle), NEW focused \in BOOLEAN
    PROVE  LET d == Unfocused(g, focused)
           IN  /\ Base(d, idle) /\ d.mapped = g.mapped /\ d.shown = g.shown
               /\ d.active \in {None, g.active} /\ (Pressed(d) => Pressed(g))
  <1> DEFINE e == IF g.mode = "normal" THEN g ELSE EnterNormal(g)
             d == Unfocused(g, focused)
  <1>1. CASE focused
    <2>1. d = FocusNothing(e)
      BY <1>1 DEF Unfocused
    <2>2. /\ Base(e, idle) /\ e.mapped = g.mapped /\ e.shown = g.shown
          /\ (Pressed(e) => Pressed(g))
      BY EnterNormalIsSound DEF Pressed
    <2> HIDE DEF e
    <2>3. /\ Base(FocusNothing(e), idle) /\ Same(e, FocusNothing(e))
          /\ FocusNothing(e).active = None
      BY <2>2, FocusIsSound
    <2> QED
      BY <2>1, <2>2, <2>3 DEF Same, Pressed
  <1>2. CASE ~focused
    BY <1>2 DEF Unfocused
  <1> QED
    BY <1>1, <1>2

\* The cursor finds something else where the view was.
LEMMA UncoveredIsSound ==
    ASSUME NEW g, NEW idle \in BOOLEAN, Base(g, idle), NEW v \in Tops, NEW x \in Uncovered(g, v)
    PROVE  /\ Base(x, idle) /\ Same(g, x) /\ x.focus = g.focus /\ x.active = g.active
           /\ x.over # None => Top(x.over) \in g.shown \ {v}
  <1>1. g \in Pointers
    BY DEF Base
  <1>2. PICK s \in (IF Top(g.over) = v THEN Under(g.shown \ {v}) ELSE {g.over}) :
            x = [g EXCEPT !.over = s]
    BY DEF Uncovered
  <1>3. s \in Under(g.shown) /\ (s # None => Top(s) \in g.shown \ {v})
    <2>1. CASE Top(g.over) = v
      BY <1>2, <2>1 DEF Under
    <2>2. CASE Top(g.over) # v
      BY <1>1, <1>2, <2>2 DEF Base, OverShown, Pointers, Under
    <2> QED
      BY <2>1, <2>2
  <1>4. x.over = s
    BY <1>1, <1>2 DEF Pointers
  <1>5. /\ Base([g EXCEPT !.over = s], idle) /\ Same(g, [g EXCEPT !.over = s])
        /\ [g EXCEPT !.over = s].focus = g.focus /\ [g EXCEPT !.over = s].active = g.active
    BY <1>3, PutIsSound
  <1> QED
    BY <1>2, <1>3, <1>4, <1>5

\* The view is out of sight.
LEMMA TakenAwayIsSound ==
    ASSUME NEW g, NEW idle \in BOOLEAN, Base(g, idle), NEW v \in Tops, NEW x \in Uncovered(g, v),
           Holds(g, v) => v \in g.mapped
    PROVE  LET d == [x EXCEPT !.shown = @ \ {v}]
           IN  /\ Base(d, idle) /\ d.shown = g.shown \ {v} /\ d.mapped = g.mapped
               /\ d.mode = g.mode /\ d.down = g.down /\ d.touch = g.touch
               /\ d.focus = g.focus /\ d.active = g.active
  <1> DEFINE shown == x.shown \ {v}
             d == [x EXCEPT !.shown = shown]
  <1>1. /\ Base(x, idle) /\ Same(g, x) /\ x.focus = g.focus /\ x.active = g.active
        /\ x.over # None => Top(x.over) \in g.shown \ {v}
    BY UncoveredIsSound
  <1>2. x \in Pointers
    BY <1>1 DEF Base
  <1>3. shown \in SUBSET Tops /\ shown = g.shown \ {v}
    BY <1>1, <1>2 DEF Pointers, Same
  <1>4. x.active # None => Top(x.active) \in x.mapped \cup shown
    BY <1>1, <1>3 DEF Base, Enforced, Holds, Same
  <1> HIDE DEF shown
  <1>5. /\ d.told = x.told /\ d.active = x.active /\ d.of = x.of /\ d.over = x.over
        /\ d.mapped = x.mapped /\ d.shown = shown /\ d.mode = x.mode
        /\ d.down = x.down /\ d.touch = x.touch /\ d.focus = x.focus
    BY <1>2 DEF Pointers
  <1>6. d \in Pointers
    BY <1>2, <1>3 DEF Pointers
  <1> HIDE DEF d
  <1>7. Base(d, idle)
    BY <1>1, <1>3, <1>4, <1>5, <1>6 DEF Base, Agree, Enforced, OverShown
  <1> QED
    BY <1>1, <1>3, <1>5, <1>7 DEF Same, d, shown

LEMMA WithoutIsSound ==
    ASSUME NEW g, NEW idle \in BOOLEAN, Base(g, idle), NEW v \in Tops, NEW d \in Without(g, v),
           Holds(g, v) => v \in g.mapped, g.shown \ {v} \subseteq g.mapped
    PROVE  Sound(d, idle) /\ (Pressed(d) => Pressed(g))
  <1>1. PICK x \in Uncovered(g, v) : d = CursorMove([x EXCEPT !.shown = @ \ {v}])
    BY DEF Without
  <1> DEFINE e == [x EXCEPT !.shown = @ \ {v}]
  <1>2. /\ Base(e, idle) /\ e.shown = g.shown \ {v} /\ e.mapped = g.mapped
        /\ e.mode = g.mode /\ e.down = g.down
    BY TakenAwayIsSound
  <1> HIDE DEF e
  <1>3. Sound(CursorMove(e), idle) /\ (Pressed(CursorMove(e)) => Pressed(e))
    BY <1>2, LookIsSound
  <1> QED
    BY <1>1, <1>2, <1>3 DEF Pressed, e


LEMMA UnmappedIsSound ==
    ASSUME NEW g, NEW idle \in BOOLEAN, Base(g, idle), NEW v \in Tops
    PROVE  LET d == Unmapped(g, v)
           IN  /\ Base(d, idle) /\ d.mapped = g.mapped \ {v} /\ d.shown = g.shown
               /\ d.mode = g.mode /\ d.down = g.down /\ d.touch = g.touch
               /\ d.focus = g.focus /\ d.active \in {None, g.active} /\ ~Holds(d, v)
  <1> DEFINE x == Unhold(g, v)
             mapped == x.mapped \ {v}
             d == [x EXCEPT !.mapped = mapped]
  <1>1. Unmapped(g, v) = d
    BY DEF Unmapped
  <1>2. /\ Base(x, idle) /\ Same(g, x) /\ x.focus = g.focus /\ x.active \in {None, g.active}
        /\ ~Holds(x, v)
    BY UnholdIsSound
  <1> HIDE DEF x
  <1>3. x \in Pointers
    BY <1>2 DEF Base
  <1>4. mapped \in SUBSET Tops /\ mapped = g.mapped \ {v}
    BY <1>2, <1>3 DEF Pointers, Same
  <1>5. x.active # None => Top(x.active) \in mapped \cup x.shown
    BY <1>2, <1>4 DEF Base, Enforced, Holds, Same
  <1> HIDE DEF mapped
  <1>6. /\ d.told = x.told /\ d.active = x.active /\ d.of = x.of /\ d.over = x.over
        /\ d.mapped = mapped /\ d.shown = x.shown /\ d.mode = x.mode
        /\ d.down = x.down /\ d.touch = x.touch /\ d.focus = x.focus
    BY <1>3 DEF Pointers
  <1>7. d \in Pointers
    BY <1>3, <1>4 DEF Pointers
  <1> HIDE DEF d
  <1>8. Base(d, idle)
    BY <1>2, <1>5, <1>6, <1>7 DEF Base, Agree, Enforced, OverShown
  <1> QED
    BY <1>1, <1>2, <1>4, <1>6, <1>8 DEF Same, Holds

-----------------------------------------------------------------------------
(* Every handler                                                           *)

HoldsAreSound ==
    /\ held \in BOOLEAN /\ refreshIdle \in BOOLEAN
    /\ Sound(h, refreshIdle)
    /\ Pressed(h) => held

\* What a handler finds that leaves the button and the queue alone, and what it has to leave.
LEMMA StepIsSound ==
    ASSUME HoldsAreSound, UNCHANGED <<held, refreshIdle>>, NEW d, h' = d,
           Sound(d, refreshIdle), Pressed(d) => Pressed(h)
    PROVE  HoldsAreSound'
  BY DEF HoldsAreSound

LEMMA InitIsSound == Init => HoldsAreSound
  <1> SUFFICES ASSUME Init
               PROVE  HoldsAreSound
    OBVIOUS
  <1>1. /\ h.mapped = {} /\ h.shown = {} /\ h.active = None /\ h.focus = None /\ h.over = None
        /\ ~h.down /\ h.mode = "normal" /\ \A s \in Surfaces : ~h.told[s]
    BY DEF Init
  <1>2. h \in Pointers
    BY DEF Init, Pointers, Modes
  <1>3. \A s \in Surfaces : s # None
    BY NoneAssumption
  <1>4. Sound(h, refreshIdle)
    BY <1>1, <1>2, <1>3 DEF Sound, Base, Settled, Agree, Enforced, OverShown
  <1> QED
    BY <1>1, <1>4 DEF HoldsAreSound, Pressed, Init

LEMMA MotionKeeps ==
    ASSUME HoldsAreSound, NEW s \in Surfaces \cup {None}, Motion(s)
    PROVE  HoldsAreSound'
  <1> DEFINE d == [h EXCEPT !.over = s]
  <1>1. Base(h, refreshIdle) /\ refreshIdle \in BOOLEAN /\ h.shown \subseteq h.mapped
    BY DEF HoldsAreSound, Sound
  <1>2. s \in Under(h.shown) /\ h' = CursorMove(d) /\ UNCHANGED <<held, refreshIdle>>
    BY DEF Motion
  <1>3. Base(d, refreshIdle) /\ Same(h, d)
    BY <1>1, <1>2, PutIsSound
  <1> HIDE DEF d
  <1>4. Sound(CursorMove(d), refreshIdle) /\ (Pressed(CursorMove(d)) => Pressed(d))
    BY <1>1, <1>3, LookIsSound DEF Same
  <1> QED
    BY <1>2, <1>3, <1>4, StepIsSound DEF Same, Pressed

LEMMA PressKeeps ==
    ASSUME HoldsAreSound, PressButton
    PROVE  HoldsAreSound'
  <1>1. Base(h, refreshIdle) /\ refreshIdle \in BOOLEAN /\ h \in Pointers
    BY DEF HoldsAreSound, Sound, Base
  <1>2. CASE h.mode = "normal" /\ h.over # None
    <2> DEFINE d == [h EXCEPT !.down = TRUE]
    <2>1. h' = d /\ held' = TRUE /\ refreshIdle' = refreshIdle
      BY <1>2 DEF PressButton
    <2>2. /\ d.mapped = h.mapped /\ d.shown = h.shown /\ d.of = h.of /\ d.told = h.told
          /\ d.active = h.active /\ d.over = h.over /\ d.mode = h.mode /\ d.down
      BY <1>1 DEF Pointers
    <2>3. d \in Pointers
      BY <1>1 DEF Pointers
    <2> HIDE DEF d
    <2>4. Base(d, refreshIdle)
      BY <1>1, <2>2, <2>3, ModeIsSound DEF Base
    <2> QED
      BY <2>1, <2>2, <2>4 DEF HoldsAreSound, Sound, Settled
  <1>3. CASE ~(h.mode = "normal" /\ h.over # None)
    <2>1. h' = h /\ held' = TRUE /\ refreshIdle' = refreshIdle
      BY <1>3 DEF PressButton
    <2> QED
      BY <2>1 DEF HoldsAreSound
  <1> QED
    BY <1>2, <1>3

LEMMA ReleaseKeeps ==
    ASSUME HoldsAreSound, ReleaseButton
    PROVE  HoldsAreSound'
  <1>1. Base(h, refreshIdle) /\ refreshIdle \in BOOLEAN /\ h \in Pointers /\ h.shown \subseteq h.mapped
    BY DEF HoldsAreSound, Sound, Base
  <1>2. held' = FALSE /\ refreshIdle' = refreshIdle
    BY DEF ReleaseButton
  <1>3. CASE h.mode = "normal" /\ h.down
    <2> DEFINE d == [h EXCEPT !.down = FALSE]
    <2>1. h' = CursorMove(d)
      BY <1>3 DEF ReleaseButton
    <2>2. /\ d.mapped = h.mapped /\ d.shown = h.shown /\ d.of = h.of /\ d.told = h.told
          /\ d.active = h.active /\ d.over = h.over /\ d.mode = h.mode /\ ~d.down
      BY <1>1 DEF Pointers
    <2>3. d \in Pointers
      BY <1>1 DEF Pointers
    <2> HIDE DEF d
    <2>4. Base(d, refreshIdle)
      BY <1>1, <2>2, <2>3, ModeIsSound DEF Base
    <2>5. Sound(CursorMove(d), refreshIdle) /\ (Pressed(CursorMove(d)) => Pressed(d))
      BY <1>1, <2>2, <2>4, LookIsSound
    <2> QED
      BY <1>1, <1>2, <2>1, <2>2, <2>5 DEF HoldsAreSound, Pressed
  <1>4. CASE h.mode = "drag"
    <2>1. h' = EnterNormal(h)
      BY <1>4 DEF ReleaseButton
    <2>2. Sound(EnterNormal(h), refreshIdle) /\ ~Pressed(EnterNormal(h))
      BY <1>1, LeaveIsSound
    <2> QED
      BY <1>1, <1>2, <2>1, <2>2 DEF HoldsAreSound
  <1>5. CASE ~(h.mode = "normal" /\ h.down) /\ h.mode # "drag"
    <2>1. h' = h
      BY <1>5 DEF ReleaseButton
    <2> QED
      BY <1>2, <1>5, <2>1 DEF HoldsAreSound, Pressed
  <1> QED
    BY <1>3, <1>4, <1>5

LEMMA TouchDownKeeps ==
    ASSUME HoldsAreSound, NEW s \in Surfaces \cup {None}, TouchDown(s)
    PROVE  HoldsAreSound'
  <1> DEFINE e == [h EXCEPT !.over = s]
             d == [h EXCEPT !.touch = TRUE, !.over = s]
  <1>1. Base(h, refreshIdle) /\ refreshIdle \in BOOLEAN /\ h \in Pointers /\ h.shown \subseteq h.mapped
    BY DEF HoldsAreSound, Sound, Base
  <1>2. s \in Under(h.shown) /\ h' = d /\ UNCHANGED <<held, refreshIdle>>
    BY DEF TouchDown
  <1>3. Base(e, refreshIdle) /\ Same(h, e)
    BY <1>1, <1>2, PutIsSound
  <1>4. /\ d.mapped = e.mapped /\ d.shown = e.shown /\ d.of = e.of /\ d.told = e.told
        /\ d.active = e.active /\ d.over = e.over /\ d.mode = e.mode /\ d.down = e.down /\ d.touch
    BY <1>1 DEF Pointers
  <1>5. d \in Pointers
    BY <1>1 DEF Pointers
  <1> HIDE DEF d, e
  <1>6. Base(d, refreshIdle)
    BY <1>3, <1>4, <1>5, ModeIsSound DEF Base
  <1> QED
    BY <1>1, <1>2, <1>3, <1>4, <1>6, StepIsSound DEF Same, Pressed, Sound, Settled

LEMMA TouchUpKeeps ==
    ASSUME HoldsAreSound, TouchUp
    PROVE  HoldsAreSound'
  <1> DEFINE d == [h EXCEPT !.touch = FALSE]
  <1>1. Base(h, refreshIdle) /\ refreshIdle \in BOOLEAN /\ h \in Pointers /\ h.shown \subseteq h.mapped
    BY DEF HoldsAreSound, Sound, Base
  <1>2. UNCHANGED <<held, refreshIdle>>
    BY DEF TouchUp
  <1>3. /\ d.mapped = h.mapped /\ d.shown = h.shown /\ d.of = h.of /\ d.told = h.told
        /\ d.active = h.active /\ d.over = h.over /\ d.mode = h.mode /\ d.down = h.down
    BY <1>1 DEF Pointers
  <1>4. d \in Pointers
    BY <1>1 DEF Pointers
  <1>5. CASE h.mode = "normal"
    <2>1. h' = CursorMove(d)
      BY <1>5 DEF TouchUp
    <2> HIDE DEF d
    <2>2. Base(d, refreshIdle)
      BY <1>1, <1>3, <1>4, ModeIsSound DEF Base
    <2>3. Sound(CursorMove(d), refreshIdle) /\ (Pressed(CursorMove(d)) => Pressed(d))
      BY <1>1, <1>3, <2>2, LookIsSound
    <2> QED
      BY <1>2, <1>3, <2>1, <2>3, StepIsSound DEF Pressed
  <1>6. CASE h.mode = "drag"
    <2>1. h' = EnterNormal(d)
      BY <1>6 DEF TouchUp
    <2> HIDE DEF d
    <2>2. Base(d, refreshIdle)
      BY <1>1, <1>3, <1>4, ModeIsSound DEF Base
    <2>3. Sound(EnterNormal(d), refreshIdle) /\ ~Pressed(EnterNormal(d))
      BY <1>1, <1>3, <2>2, LeaveIsSound
    <2> QED
      BY <1>2, <2>1, <2>3, StepIsSound
  <1>7. CASE h.mode \notin {"normal", "drag"}
    <2>1. h' = d
      BY <1>7 DEF TouchUp
    <2> HIDE DEF d
    <2>2. Base(d, refreshIdle)
      BY <1>1, <1>3, <1>4, ModeIsSound DEF Base
    <2>3. Sound(d, refreshIdle) /\ ~Pressed(d)
      BY <1>1, <1>3, <1>7, <2>2 DEF Sound, Settled, Pressed
    <2> QED
      BY <1>2, <2>1, <2>3, StepIsSound
  <1> QED
    BY <1>5, <1>6, <1>7


\* A queued refresh or a new constraint has the pointer focus on something mapped, by FocusIsMapped.
LEMMA RefreshKeeps ==
    ASSUME NEW g, NEW idle \in BOOLEAN, Base(g, idle), Settled(g), g.shown \subseteq g.mapped,
           g.focus # None => Top(g.focus) \in g.mapped
    PROVE  Sound(Refresh(g), FALSE) /\ (Pressed(Refresh(g)) => Pressed(g))
  <1>1. /\ Base(Refresh(g), FALSE) /\ Same(g, Refresh(g)) /\ Refresh(g).focus = g.focus
        /\ Refresh(g).active \in {None, g.focus}
    BY RefreshIsSound
  <1> QED
    BY <1>1 DEF Sound, Settled, Same, Pressed

LEMMA NewConstraintKeeps ==
    ASSUME "unmapped" \notin Races, HoldsAreSound, NEW s \in Surfaces, NEW kind \in Kinds,
           NewConstraint(s, kind)
    PROVE  HoldsAreSound'
  <1> DEFINE c == [type |-> kind.type, oneshot |-> kind.oneshot, hint |-> kind.hint, region |-> TRUE]
             of == [h.of EXCEPT ![s] = c]
             d == [h EXCEPT !.of = of]
  <1>1. Base(h, refreshIdle) /\ refreshIdle \in BOOLEAN /\ h \in Pointers /\ Settled(h)
        /\ h.shown \subseteq h.mapped
    BY DEF HoldsAreSound, Sound, Base
  <1>2. h' = Refresh(d) /\ UNCHANGED <<held, refreshIdle>> /\ FocusIsMapped /\ h.of[s] = None
    BY DEF NewConstraint
  <1>3. c \in Constraint
    BY KindAssumption DEF Request, Constraint
  <1> HIDE DEF c
  <1>4. of \in [Surfaces -> Constraint \cup {None}] /\ \A x \in Surfaces : x # s => of[x] = h.of[x]
    BY <1>1, <1>3 DEF Pointers
  <1>5. h.active # s
    BY <1>1, <1>2, NoneAssumption DEF Base, Enforced
  <1> HIDE DEF of
  <1>6. /\ d.mapped = h.mapped /\ d.shown = h.shown /\ d.of = of /\ d.told = h.told
        /\ d.active = h.active /\ d.over = h.over /\ d.mode = h.mode /\ d.down = h.down
        /\ d.touch = h.touch /\ d.focus = h.focus
    BY <1>1 DEF Pointers
  <1>7. d \in Pointers
    BY <1>1, <1>4 DEF Pointers
  <1> HIDE DEF d
  <1>8. Enforced(d, refreshIdle)
    BY <1>1, <1>4, <1>5, <1>6 DEF Base, Enforced, Pointers
  <1>9. Base(d, refreshIdle) /\ Settled(d)
    BY <1>1, <1>6, <1>7, <1>8 DEF Base, Agree, OverShown, Settled
  <1>10. Sound(Refresh(d), FALSE) /\ (Pressed(Refresh(d)) => Pressed(d))
    BY <1>1, <1>2, <1>6, <1>9, RefreshKeeps DEF FocusIsMapped
  <1>11. Sound(Refresh(d), refreshIdle)
    BY <1>10, QueuedAllowsMore DEF Sound
  <1> QED
    BY <1>2, <1>6, <1>10, <1>11, StepIsSound DEF Pressed

LEMMA SetRegionKeeps ==
    ASSUME HoldsAreSound, NEW s \in Surfaces, SetRegion(s)
    PROVE  HoldsAreSound'
  <1> DEFINE region == (h.of[s].type = "confined") => ~h.of[s].region
             c == [h.of[s] EXCEPT !.region = region]
             of == [h.of EXCEPT ![s] = c]
             d == [h EXCEPT !.of = of]
  <1>1. Base(h, refreshIdle) /\ h \in Pointers /\ Settled(h) /\ h.shown \subseteq h.mapped
    BY DEF HoldsAreSound, Sound, Base
  <1>2. h' = d /\ held' = held /\ refreshIdle' = TRUE
    BY <1>1 DEF SetRegion, Pointers
  <1>3. h.of[s] \in Constraint
    BY <1>1 DEF SetRegion, Pointers
  <1>4. region \in BOOLEAN
    OBVIOUS
  <1> HIDE DEF region
  <1>5. c \in Constraint
    BY <1>3, <1>4 DEF Constraint
  <1> HIDE DEF c
  <1>6. of \in [Surfaces -> Constraint \cup {None}] /\ \A x \in Surfaces : x # s => of[x] = h.of[x]
    BY <1>1, <1>5 DEF Pointers
  <1>7. of[s] # None
    BY <1>1, <1>5, NoneAssumption DEF Pointers
  <1> HIDE DEF of
  <1>8. /\ d.mapped = h.mapped /\ d.shown = h.shown /\ d.of = of /\ d.told = h.told
        /\ d.active = h.active /\ d.over = h.over /\ d.mode = h.mode /\ d.down = h.down
        /\ d.touch = h.touch /\ d.focus = h.focus
    BY <1>1 DEF Pointers
  <1>9. d \in Pointers
    BY <1>1, <1>6 DEF Pointers
  <1> HIDE DEF d
  <1>10. Enforced(d, TRUE)
    BY <1>1, <1>6, <1>7, <1>8 DEF Base, Enforced, Pointers
  <1>11. Sound(d, TRUE)
    BY <1>1, <1>8, <1>9, <1>10 DEF Sound, Base, Agree, OverShown, Settled
  <1> QED
    BY <1>2, <1>8, <1>11 DEF HoldsAreSound, Pressed

LEMMA RefreshIdleKeeps ==
    ASSUME "unmapped" \notin Races, HoldsAreSound, RefreshIdle
    PROVE  HoldsAreSound'
  <1>1. Base(h, refreshIdle) /\ refreshIdle \in BOOLEAN /\ Settled(h) /\ h.shown \subseteq h.mapped
    BY DEF HoldsAreSound, Sound
  <1>2. h' = Refresh(h) /\ held' = held /\ refreshIdle' = FALSE /\ FocusIsMapped
    BY DEF RefreshIdle
  <1>3. Sound(Refresh(h), FALSE) /\ (Pressed(Refresh(h)) => Pressed(h))
    BY <1>1, <1>2, RefreshKeeps DEF FocusIsMapped
  <1> QED
    BY <1>2, <1>3 DEF HoldsAreSound

LEMMA DestroyKeeps ==
    ASSUME HoldsAreSound, NEW s \in Surfaces, DestroyConstraint(s)
    PROVE  HoldsAreSound'
  <1>1. Base(h, refreshIdle) /\ refreshIdle \in BOOLEAN /\ Settled(h) /\ h.shown \subseteq h.mapped
    BY DEF HoldsAreSound, Sound
  <1>2. h' = Destroyed(h, s) /\ UNCHANGED <<held, refreshIdle>>
    BY DEF DestroyConstraint
  <1>3. /\ Base(Destroyed(h, s), refreshIdle) /\ Same(h, Destroyed(h, s))
        /\ Destroyed(h, s).focus = h.focus /\ Destroyed(h, s).active \in {None, h.active}
    BY <1>1, DestroyedIsSound
  <1> QED
    BY <1>1, <1>2, <1>3, StepIsSound DEF Sound, Settled, Same, Pressed

\* The surface goes that the constraint was for, and perhaps the pointer is found elsewhere.
LEMMA GoneIsSound ==
    ASSUME NEW g, NEW idle \in BOOLEAN, Sound(g, idle), NEW s \in Surfaces,
           NEW x \in Under(g.shown)
    PROVE  LET d == Destroyed(g, s)
               e == [d EXCEPT !.focus = IF @ = s THEN None ELSE @]
               f == [e EXCEPT !.over = IF @ = s THEN x ELSE @]
           IN  /\ Sound(e, idle) /\ (Pressed(e) => Pressed(g))
               /\ Sound(f, idle) /\ (Pressed(f) => Pressed(g))
  <1> DEFINE d == Destroyed(g, s)
             focus == IF d.focus = s THEN None ELSE d.focus
             e == [d EXCEPT !.focus = focus]
             over == IF e.over = s THEN x ELSE e.over
             f == [e EXCEPT !.over = over]
  <1>1. Base(g, idle) /\ Settled(g) /\ g.shown \subseteq g.mapped
    BY DEF Sound
  <1>2. /\ Base(d, idle) /\ Same(g, d) /\ d.focus = g.focus /\ d.active \in {None, g.active}
    BY <1>1, DestroyedIsSound
  <1> HIDE DEF d
  <1>3. d \in Pointers
    BY <1>2 DEF Base
  <1>4. focus \in Surfaces \cup {None} /\ focus \in {None, d.focus}
    BY <1>3 DEF Pointers
  <1> HIDE DEF focus
  <1>5. Base(e, idle) /\ Same(d, e) /\ e.focus = focus /\ e.over = d.over /\ e.active = d.active
    BY <1>2, <1>4, AimIsSound
  <1> HIDE DEF e
  <1>6. over \in Under(e.shown)
    BY <1>2, <1>5 DEF Same, Base, OverShown, Pointers, Under
  <1> HIDE DEF over
  <1>7. Base(f, idle) /\ Same(e, f) /\ f.focus = e.focus /\ f.active = e.active
    BY <1>5, <1>6, PutIsSound
  <1> HIDE DEF f
  <1>8. Sound(e, idle) /\ (Pressed(e) => Pressed(g))
    BY <1>1, <1>2, <1>4, <1>5 DEF Sound, Settled, Same, Pressed
  <1>9. Sound(f, idle) /\ (Pressed(f) => Pressed(g))
    BY <1>5, <1>7, <1>8 DEF Sound, Settled, Same, Pressed
  <1> QED
    BY <1>8, <1>9 DEF d, e, f, focus, over

LEMMA PopupGoneKeeps ==
    ASSUME HoldsAreSound, NEW p \in Popups, PopupGone(p)
    PROVE  HoldsAreSound'
  <1>1. PICK x \in Under(h.shown) :
            h' = [Destroyed(h, p) EXCEPT !.focus = IF @ = p THEN None ELSE @,
                                         !.over = IF @ = p THEN x ELSE @]
    BY DEF PopupGone
  <1> DEFINE d == Destroyed(h, p)
             e == [d EXCEPT !.focus = IF @ = p THEN None ELSE @]
             f == [e EXCEPT !.over = IF @ = p THEN x ELSE @]
  <1>2. p \in Surfaces /\ Base(h, refreshIdle) /\ Sound(h, refreshIdle) /\ refreshIdle \in BOOLEAN
    BY DEF HoldsAreSound, Sound, Surfaces
  <1>3. d \in Pointers
    BY <1>2, DestroyedIsSound DEF Base
  <1>4. h' = f
    BY <1>1, <1>3 DEF Pointers
  <1>5. Sound(f, refreshIdle) /\ (Pressed(f) => Pressed(h))
    BY <1>2, GoneIsSound
  <1> HIDE DEF f
  <1> QED
    BY <1>4, <1>5, StepIsSound DEF PopupGone

LEMMA SurfaceGoneKeeps ==
    ASSUME HoldsAreSound, NEW v \in Tops, SurfaceGone(v)
    PROVE  HoldsAreSound'
  <1> DEFINE d == Destroyed(h, v)
             e == [d EXCEPT !.focus = IF @ = v THEN None ELSE @]
  <1>1. v \in Surfaces /\ None \in Under(h.shown) /\ Sound(h, refreshIdle) /\ refreshIdle \in BOOLEAN
    BY DEF HoldsAreSound, Surfaces, Under
  <1>2. h' = e /\ UNCHANGED <<held, refreshIdle>>
    BY DEF SurfaceGone
  <1>3. Sound(e, refreshIdle) /\ (Pressed(e) => Pressed(h))
    BY <1>1, GoneIsSound
  <1> HIDE DEF e
  <1> QED
    BY <1>2, <1>3, StepIsSound


LEMMA ShowKeeps ==
    ASSUME HoldsAreSound, NEW v \in Tops, NEW focused \in BOOLEAN, Show(v, focused)
    PROVE  HoldsAreSound'
  <1>1. PICK s \in Under(h.shown \cup {v}) :
            h' = LET g == [h EXCEPT !.mapped = @ \cup {v}, !.shown = @ \cup {v}, !.over = s]
                 IN  CursorMove(IF focused THEN FocusView(g) ELSE g)
    BY DEF Show
  <1> DEFINE mapped == h.mapped \cup {v}
             shown == h.shown \cup {v}
             g == [h EXCEPT !.mapped = mapped, !.shown = shown, !.over = s]
             d == IF focused THEN FocusView(g) ELSE g
  <1>2. Base(h, refreshIdle) /\ refreshIdle \in BOOLEAN /\ h \in Pointers /\ h.shown \subseteq h.mapped
    BY DEF HoldsAreSound, Sound, Base
  <1>3. h' = CursorMove(d) /\ UNCHANGED <<held, refreshIdle>>
    BY <1>1 DEF Show
  <1>4. /\ mapped \in SUBSET Tops /\ shown \in SUBSET Tops /\ shown \subseteq mapped
        /\ h.mapped \cup h.shown \subseteq mapped
    BY <1>2 DEF Pointers
  <1>5. s \in Surfaces \cup {None} /\ (s # None => Top(s) \in shown)
    BY <1>1 DEF Under
  <1> HIDE DEF mapped, shown
  <1>6. /\ g.mapped = mapped /\ g.shown = shown /\ g.of = h.of /\ g.told = h.told
        /\ g.active = h.active /\ g.over = s /\ g.mode = h.mode /\ g.down = h.down
    BY <1>2 DEF Pointers
  <1>7. g \in Pointers
    BY <1>2, <1>4, <1>5 DEF Pointers
  <1> HIDE DEF g
  <1>8. Base(g, refreshIdle)
    BY <1>2, <1>4, <1>5, <1>6, <1>7 DEF Base, Agree, Enforced, OverShown
  <1>9. Base(d, refreshIdle) /\ d.shown \subseteq d.mapped /\ (Pressed(d) => Pressed(h))
    BY <1>2, <1>4, <1>6, <1>8, FocusIsSound DEF Same, Pressed
  <1> HIDE DEF d
  <1>10. Sound(CursorMove(d), refreshIdle) /\ (Pressed(CursorMove(d)) => Pressed(d))
    BY <1>2, <1>9, LookIsSound
  <1> QED
    BY <1>3, <1>9, <1>10, StepIsSound

LEMMA HideKeeps ==
    ASSUME HoldsAreSound, NEW v \in Tops, NEW focused \in BOOLEAN, Hide(v, focused)
    PROVE  HoldsAreSound'
  <1> DEFINE g == Unfocused(h, focused)
  <1>1. Base(h, refreshIdle) /\ refreshIdle \in BOOLEAN /\ h.shown \subseteq h.mapped
    BY DEF HoldsAreSound, Sound
  <1>2. h' \in Without(g, v) /\ v \in h.shown /\ UNCHANGED <<held, refreshIdle>>
    BY DEF Hide
  <1>3. /\ Base(g, refreshIdle) /\ g.mapped = h.mapped /\ g.shown = h.shown
        /\ (Pressed(g) => Pressed(h))
    BY <1>1, UnfocusedIsSound
  <1> HIDE DEF g
  <1>4. v \in g.mapped /\ g.shown \ {v} \subseteq g.mapped
    BY <1>1, <1>2, <1>3
  <1>5. \A d \in Without(g, v) : Sound(d, refreshIdle) /\ (Pressed(d) => Pressed(g))
    BY <1>1, <1>3, <1>4, WithoutIsSound
  <1> QED
    BY <1>2, <1>3, <1>5, StepIsSound

LEMMA UnmapKeeps ==
    ASSUME HoldsAreSound, NEW v \in Tops, NEW focused \in BOOLEAN, Unmap(v, focused)
    PROVE  HoldsAreSound'
  <1> DEFINE u == Unmapped(h, v)
             g == Unfocused(u, focused)
  <1>1. /\ Base(h, refreshIdle) /\ refreshIdle \in BOOLEAN /\ h.shown \subseteq h.mapped
        /\ Settled(h) /\ UNCHANGED <<held, refreshIdle>>
    BY DEF HoldsAreSound, Sound, Unmap
  <1>2. /\ Base(u, refreshIdle) /\ u.mapped = h.mapped \ {v} /\ u.shown = h.shown
        /\ u.mode = h.mode /\ u.down = h.down /\ u.touch = h.touch
        /\ u.focus = h.focus /\ u.active \in {None, h.active} /\ ~Holds(u, v)
    BY <1>1, UnmappedIsSound
  <1>3. CASE v \in h.shown /\ h.mode # "lock"
    <2>1. h' \in Without(g, v)
      BY <1>3 DEF Unmap
    <2> HIDE DEF u
    <2>2. /\ Base(g, refreshIdle) /\ g.mapped = u.mapped /\ g.shown = u.shown
          /\ g.active \in {None, u.active} /\ (Pressed(g) => Pressed(u))
      BY <1>1, <1>2, UnfocusedIsSound
    <2> HIDE DEF g
    <2>3. ~Holds(g, v) /\ g.shown \ {v} \subseteq g.mapped
      BY <1>1, <1>2, <2>2 DEF Holds
    <2>4. \A d \in Without(g, v) : Sound(d, refreshIdle) /\ (Pressed(d) => Pressed(g))
      BY <1>1, <2>2, <2>3, WithoutIsSound
    <2> QED
      BY <1>1, <1>2, <2>1, <2>2, <2>4, StepIsSound DEF Pressed
  <1>4. CASE ~(v \in h.shown /\ h.mode # "lock")
    <2>1. h' \in {[x EXCEPT !.shown = @ \ {v}] : x \in Uncovered(u, v)}
      BY <1>4 DEF Unmap
    <2> HIDE DEF u
    <2>2. PICK x \in Uncovered(u, v) : h' = [x EXCEPT !.shown = @ \ {v}]
      BY <2>1
    <2> DEFINE d == [x EXCEPT !.shown = @ \ {v}]
    <2>3. /\ Base(d, refreshIdle) /\ d.shown = u.shown \ {v} /\ d.mapped = u.mapped
          /\ d.mode = u.mode /\ d.down = u.down /\ d.touch = u.touch
          /\ d.focus = u.focus /\ d.active = u.active
      BY <1>1, <1>2, TakenAwayIsSound
    <2>4. h' = d
      BY <2>2
    <2> HIDE DEF d
    <2>5. Settled(d) /\ d.shown \subseteq d.mapped
      BY <1>1, <1>2, <1>4, <2>3 DEF Settled
    <2> QED
      BY <1>1, <1>2, <2>3, <2>4, <2>5, StepIsSound DEF Pressed, Sound
  <1> QED
    BY <1>3, <1>4

\* The compositor's own warp to a view ends every hold.
LEMMA WarpIsSound ==
    ASSUME NEW g, NEW idle \in BOOLEAN, Base(g, idle), NEW v \in g.shown
    PROVE  Base(Warp(g, v), idle) /\ Same(g, Warp(g, v))
  <1> DEFINE d == DeactivateHold(g, FALSE)
  <1>1. Base(d, FALSE) /\ Same(g, d)
    BY DeactivateIsSound
  <1>2. Warp(g, v) = [d EXCEPT !.over = v]
    BY DEF Warp
  <1> HIDE DEF d
  <1>3. v \in Under(d.shown)
    BY <1>1, TopOfTop DEF Same, Base, Pointers, Under
  <1>4. Base([d EXCEPT !.over = v], FALSE) /\ Same(d, [d EXCEPT !.over = v])
    BY <1>1, <1>3, PutIsSound
  <1> QED
    BY <1>1, <1>2, <1>4, QueuedAllowsMore DEF Same

LEMMA CommitKeeps ==
    ASSUME HoldsAreSound, NEW v \in Tops, NEW s \in Surfaces \cup {None}, Commit(v, s)
    PROVE  HoldsAreSound'
  <1>1. /\ Base(h, refreshIdle) /\ refreshIdle \in BOOLEAN /\ h.shown \subseteq h.mapped
        /\ Settled(h) /\ UNCHANGED <<held, refreshIdle>>
        /\ v \in h.shown /\ s \in Under(h.shown)
    BY DEF HoldsAreSound, Sound, Commit
  <1>2. CASE Holds(h, v)
    <2> DEFINE d == [h EXCEPT !.over = s]
    <2>1. h' = d
      BY <1>2 DEF Commit
    <2>2. Base(d, refreshIdle) /\ Same(h, d) /\ d.focus = h.focus /\ d.active = h.active
      BY <1>1, PutIsSound
    <2> HIDE DEF d
    <2> QED
      BY <1>1, <2>1, <2>2, StepIsSound DEF Sound, Settled, Same, Pressed
  <1>3. CASE ~Holds(h, v)
    <2> DEFINE d == Warp(h, v)
    <2>1. h' = CursorMove(d)
      BY <1>3 DEF Commit
    <2>2. Base(d, refreshIdle) /\ Same(h, d)
      BY <1>1, WarpIsSound
    <2> HIDE DEF d
    <2>3. Sound(CursorMove(d), refreshIdle) /\ (Pressed(CursorMove(d)) => Pressed(d))
      BY <1>1, <2>2, LookIsSound DEF Same
    <2> QED
      BY <1>1, <2>1, <2>2, <2>3, StepIsSound DEF Same, Pressed
  <1> QED
    BY <1>2, <1>3

LEMMA JumpKeeps ==
    ASSUME HoldsAreSound, NEW v \in Tops, Jump(v)
    PROVE  HoldsAreSound'
  <1> DEFINE g == FocusView(h)
             d == Warp(g, v)
  <1>1. /\ Base(h, refreshIdle) /\ refreshIdle \in BOOLEAN /\ h.shown \subseteq h.mapped
        /\ UNCHANGED <<held, refreshIdle>> /\ v \in h.shown /\ h' = CursorMove(d)
    BY DEF HoldsAreSound, Sound, Jump
  <1>2. Base(g, refreshIdle) /\ Same(h, g)
    BY <1>1, FocusIsSound
  <1> HIDE DEF g
  <1>3. Base(d, refreshIdle) /\ Same(g, d)
    BY <1>1, <1>2, WarpIsSound DEF Same
  <1> HIDE DEF d
  <1>4. Sound(CursorMove(d), refreshIdle) /\ (Pressed(CursorMove(d)) => Pressed(d))
    BY <1>1, <1>2, <1>3, LookIsSound DEF Same
  <1> QED
    BY <1>1, <1>2, <1>3, <1>4, StepIsSound DEF Same, Pressed

LEMMA MigrateKeeps ==
    ASSUME HoldsAreSound, NEW v \in Tops, Migrate(v)
    PROVE  HoldsAreSound'
  <1> DEFINE g == Unhold(h, v)
  <1>1. /\ Base(h, refreshIdle) /\ refreshIdle \in BOOLEAN /\ h.shown \subseteq h.mapped
        /\ Settled(h) /\ UNCHANGED <<held, refreshIdle>> /\ h' \in Uncovered(g, v)
    BY DEF HoldsAreSound, Sound, Migrate
  <1>2. Base(g, refreshIdle) /\ Same(h, g) /\ g.focus = h.focus /\ g.active \in {None, h.active}
    BY <1>1, UnholdIsSound
  <1> HIDE DEF g
  <1>3. \A d \in Uncovered(g, v) :
            Base(d, refreshIdle) /\ Same(g, d) /\ d.focus = g.focus /\ d.active = g.active
    BY <1>1, <1>2, UncoveredIsSound
  <1> QED
    BY <1>1, <1>2, <1>3, StepIsSound DEF Sound, Settled, Same, Pressed

\* A mode that waits, drags or locks.
LEMMA ModesKeep ==
    ASSUME HoldsAreSound,
           EnterModal \/ EnterDrag \/ LeaveMode \/ Unlock \/ \E f \in BOOLEAN : EnterLock(f)
    PROVE  HoldsAreSound'
  <1>1. /\ Base(h, refreshIdle) /\ refreshIdle \in BOOLEAN /\ h.shown \subseteq h.mapped
        /\ UNCHANGED <<held, refreshIdle>> /\ h \in Pointers
    BY DEF HoldsAreSound, Sound, Base, EnterModal, EnterDrag, LeaveMode, Unlock, EnterLock
  <1>2. CASE EnterModal
    <2> DEFINE d == [h EXCEPT !.mode = "modal"]
    <2>1. h' = d
      BY <1>2 DEF EnterModal
    <2>2. /\ d.mapped = h.mapped /\ d.shown = h.shown /\ d.of = h.of /\ d.told = h.told
          /\ d.active = h.active /\ d.over = h.over /\ d.mode = "modal" /\ d \in Pointers
      BY <1>1 DEF Pointers, Modes
    <2> HIDE DEF d
    <2>3. Base(d, refreshIdle)
      BY <1>1, <2>2, ModeIsSound
    <2> QED
      BY <1>1, <2>1, <2>2, <2>3, StepIsSound DEF Sound, Settled, Pressed
  <1>3. CASE EnterDrag
    <2> DEFINE g == DeactivateHold(h, TRUE)
               d == [g EXCEPT !.mode = "drag"]
    <2>1. h' = d
      BY <1>3 DEF EnterDrag
    <2>2. Base(g, FALSE) /\ g.active = None /\ Same(h, g)
      BY <1>1, DeactivateIsSound
    <2> HIDE DEF g
    <2>3. /\ d.mapped = g.mapped /\ d.shown = g.shown /\ d.of = g.of /\ d.told = g.told
          /\ d.active = g.active /\ d.over = g.over /\ d.mode = "drag" /\ d \in Pointers
      BY <2>2 DEF Base, Pointers, Modes
    <2> HIDE DEF d
    <2>4. Base(d, FALSE)
      BY <2>2, <2>3, ModeIsSound
    <2>5. Base(d, refreshIdle)
      BY <2>4, QueuedAllowsMore
    <2> QED
      BY <1>1, <2>1, <2>2, <2>3, <2>5, StepIsSound DEF Sound, Settled, Pressed, Same
  <1>4. CASE LeaveMode \/ Unlock
    <2>1. h' = EnterNormal(h)
      BY <1>4 DEF LeaveMode, Unlock
    <2>2. Sound(EnterNormal(h), refreshIdle) /\ ~Pressed(EnterNormal(h))
      BY <1>1, LeaveIsSound
    <2> QED
      BY <1>1, <2>1, <2>2, StepIsSound
  <1>5. ASSUME NEW f \in BOOLEAN, EnterLock(f) PROVE HoldsAreSound'
    <2> DEFINE e == IF f THEN FocusNothing(h) ELSE h
               g == DeactivateHold(e, TRUE)
               d == [g EXCEPT !.mode = "lock", !.touch = FALSE]
    <2>1. h' = d
      BY <1>5 DEF EnterLock
    <2>2. Base(e, refreshIdle) /\ Same(h, e)
      BY <1>1, FocusIsSound DEF Same
    <2> HIDE DEF e
    <2>3. Base(g, FALSE) /\ g.active = None /\ Same(e, g)
      BY <1>1, <2>2, DeactivateIsSound
    <2> HIDE DEF g
    <2>4. /\ d.mapped = g.mapped /\ d.shown = g.shown /\ d.of = g.of /\ d.told = g.told
          /\ d.active = g.active /\ d.over = g.over /\ d.mode = "lock" /\ d \in Pointers
      BY <2>3 DEF Base, Pointers, Modes
    <2> HIDE DEF d
    <2>5. Base(d, FALSE)
      BY <2>3, <2>4, ModeIsSound
    <2>6. Base(d, refreshIdle)
      BY <2>5, QueuedAllowsMore
    <2> QED
      BY <1>1, <2>1, <2>2, <2>3, <2>4, <2>6, StepIsSound DEF Sound, Settled, Pressed, Same
  <1> QED
    BY <1>2, <1>3, <1>4, <1>5

-----------------------------------------------------------------------------
(* Theorems                                                                *)

\* The two properties are what every handler leaves.
LEMMA SoundIsEnough == HoldsAreSound => ClientAndCompositorAgree /\ HoldIsOnScreen
  <1> SUFFICES ASSUME HoldsAreSound
               PROVE  ClientAndCompositorAgree /\ HoldIsOnScreen
    OBVIOUS
  <1>1. /\ Base(h, refreshIdle) /\ refreshIdle \in BOOLEAN /\ held \in BOOLEAN
        /\ h.shown \subseteq h.mapped /\ Settled(h) /\ h \in Pointers /\ (Pressed(h) => held)
    BY DEF HoldsAreSound, Sound, Base
  <1>2. TypeOK
    BY <1>1 DEF TypeOK, Pointers, Modes
  <1>3. ClientAndCompositorAgree
    BY <1>1, <1>2 DEF ClientAndCompositorAgree, Base, Agree, Enforced
  <1>4. HoldIsOnScreen
    BY <1>1 DEF HoldIsOnScreen, Base, Enforced, Settled, Pinned, Pressed
  <1> QED
    BY <1>3, <1>4

\* Every handler, the end of each hold in the middle of another's included, leaves at most one
\* hold, that both sides know of, of a window that is mapped and, where nothing pins the pointer,
\* shown.
THEOREM HoldsStaySound ==
    ASSUME "unmapped" \notin Races
    PROVE  Spec => []HoldsAreSound
  <1>1. HoldsAreSound /\ [Next]_vars => HoldsAreSound'
    <2> SUFFICES ASSUME HoldsAreSound, [Next]_vars
                 PROVE  HoldsAreSound'
      OBVIOUS
    <2>1. ASSUME NEW s \in Surfaces \cup {None}, Motion(s) \/ TouchDown(s) PROVE HoldsAreSound'
      BY <2>1, MotionKeeps, TouchDownKeeps
    <2>2. CASE PressButton \/ ReleaseButton \/ TouchUp
      BY <2>2, PressKeeps, ReleaseKeeps, TouchUpKeeps
    <2>3. ASSUME NEW s \in Surfaces, NEW k \in Kinds, NewConstraint(s, k) PROVE HoldsAreSound'
      BY <2>3, NewConstraintKeeps
    <2>4. ASSUME NEW s \in Surfaces, SetRegion(s) \/ DestroyConstraint(s) PROVE HoldsAreSound'
      BY <2>4, SetRegionKeeps, DestroyKeeps
    <2>5. CASE RefreshIdle
      BY <2>5, RefreshIdleKeeps
    <2>6. ASSUME NEW p \in Popups, PopupGone(p) PROVE HoldsAreSound'
      BY <2>6, PopupGoneKeeps
    <2>7. ASSUME NEW v \in Tops, NEW f \in BOOLEAN, Show(v, f) \/ Hide(v, f) \/ Unmap(v, f)
          PROVE  HoldsAreSound'
      BY <2>7, ShowKeeps, HideKeeps, UnmapKeeps
    <2>8. ASSUME NEW v \in Tops, SurfaceGone(v) \/ Jump(v) \/ Migrate(v) PROVE HoldsAreSound'
      BY <2>8, SurfaceGoneKeeps, JumpKeeps, MigrateKeeps
    <2>9. ASSUME NEW v \in Tops, NEW s \in Surfaces \cup {None}, Commit(v, s) PROVE HoldsAreSound'
      BY <2>9, CommitKeeps
    <2>10. CASE EnterModal \/ EnterDrag \/ LeaveMode \/ Unlock \/ \E f \in BOOLEAN : EnterLock(f)
      BY <2>10, ModesKeep
    <2>11. CASE UNCHANGED vars
      BY <2>11 DEF vars, HoldsAreSound
    <2> QED
      BY <2>1, <2>2, <2>3, <2>4, <2>5, <2>6, <2>7, <2>8, <2>9, <2>10, <2>11 DEF Next
  <1> QED
    BY <1>1, InitIsSound, PTL DEF Spec

\* No client is left thinking that it holds the pointer, and nobody holds it behind the lock screen.
THEOREM NobodyIsMisled ==
    ASSUME "unmapped" \notin Races
    PROVE  Spec => []ClientAndCompositorAgree
  BY HoldsStaySound, SoundIsEnough, PTL

\* The pointer is never frozen by what the user cannot see.
THEOREM PointerIsNeverFrozenUnseen ==
    ASSUME "unmapped" \notin Races
    PROVE  Spec => []HoldIsOnScreen
  BY HoldsStaySound, SoundIsEnough, PTL


=============================================================================
