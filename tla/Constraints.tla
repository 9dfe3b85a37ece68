----------------------------- MODULE Constraints -----------------------------
(***************************************************************************)
(* Pointer constraints (pointer_constraints.c) and what ends them          *)
(* (cursor.c, normal_mode.c, view.c, workspace.c): a client may ask that   *)
(* the pointer be locked to a surface, or confined to a region of it.  The *)
(* compositor holds at most one constraint at a time, for the surface the  *)
(* pointer is on; a hold that outlives its surface leaves the user with a  *)
(* pointer that does not move.                                             *)
(*                                                                         *)
(* A handler is an operator on the state `h`.  The surface under the       *)
(* cursor (`over`) is what hikari_server_node_at() would find there; the   *)
(* seat's pointer focus (`focus`) follows it only when a handler asks.     *)
(***************************************************************************)
EXTENDS Naturals

CONSTANTS
    Tops,       \* top-level surfaces, each with a view
    Popups,     \* surfaces of their popups
    Parent,     \* the top-level surface of a popup
    None,
    Races,      \* orders of events that break a property and are let in
    Kinds       \* what clients ask for: a set of [type, oneshot, hint]

Surfaces == Tops \cup Popups

ASSUME ParentAssumption == Tops \cap Popups = {} /\ Parent \in [Popups -> Tops]

Request == [type : {"locked", "confined"}, oneshot : BOOLEAN, hint : BOOLEAN]
Constraint == [type : {"locked", "confined"}, oneshot : BOOLEAN, hint : BOOLEAN, region : BOOLEAN]

ASSUME KindAssumption == Kinds \subseteq Request
ASSUME NoneAssumption == None \notin Surfaces \cup Constraint

VARIABLES
    h,          \* the seat, the cursor, the visible views and every surface's constraint
    held,       \* a button is physically down
    refreshIdle \* refresh_idle

vars == <<h, held, refreshIdle>>

(* h.down   cursor_down_move() is installed, since a press on a surface      *)
(* h.touch  has_primary_touch                                                *)
(* h.mode   "normal", "modal" (waits for keys), "drag" (move, resize, drag   *)
(*          and drop, input grab), "lock"                                    *)

Top(s) == IF s \in Popups THEN Parent[s] ELSE s

\* view_for_surface(): only a view's own surface is found, and only while it is visible.
Resolves(g, s) == s \in Tops /\ s \in g.shown

Holds(g, v) == g.active # None /\ Top(g.active) = v

\* A constraint of which the client may think that it is in force.
Told(g, s, yes) == [g EXCEPT !.told[s] = yes]

\* deactivate(): wlroots destroys a constraint made for one activation.
DeactivateHold(g, honour) ==
    LET s == g.active IN
    IF s = None THEN g
    ELSE [Told(g, s, FALSE) EXCEPT
             !.active = None,
             !.of[s] = IF @.oneshot THEN None ELSE @,
             !.over = IF honour /\ g.of[s].hint /\ Resolves(g, s) THEN s ELSE @]

Enforceable(g, s) ==
    g.of[s].type = "confined" => Resolves(g, s) /\ g.of[s].region

\* hikari_pointer_constraint_refresh().
Wanted(g) ==
    IF /\ g.mode = "normal"
       /\ g.focus # None
       /\ g.of[g.focus] # None
       /\ Enforceable(g, g.focus)
    THEN g.focus
    ELSE None

Activate(g, s) == IF s = None THEN g ELSE [Told(g, s, TRUE) EXCEPT !.active = s]

Refresh(g) ==
    IF Wanted(g) = g.active THEN g
    ELSE Activate(DeactivateHold(g, TRUE), Wanted(g))

\* mode->cursor_move(), also as hikari_server_cursor_focus(): the pointer enters what it is over.
CursorMove(g) ==
    CASE g.mode = "normal" /\ ~g.down /\ ~g.touch -> Refresh([g EXCEPT !.focus = g.over])
      [] g.mode = "drag" -> [g EXCEPT !.focus = g.over]
      [] OTHER -> g

\* hikari_workspace_focus_view(): every client loses the pointer; with a view that has the focus
\* next, the surface under the cursor gets it back.
FocusView(g) == Refresh([g EXCEPT !.focus = g.over])
FocusNothing(g) == Refresh([g EXCEPT !.focus = None])

\* hikari_cursor_warp() of the compositor's own, to a view.
Warp(g, s) == [DeactivateHold(g, FALSE) EXCEPT !.over = s]

\* normal_mode_enter().
EnterNormal(g) == CursorMove([g EXCEPT !.mode = "normal", !.down = FALSE])

\* What the cursor may be over.
Under(views) == {None} \cup {s \in Surfaces : Top(s) \in views}

----------------------------------------------------------------------------
(* Input                                                                   *)

\* motion_handler() and motion_absolute_handler(): a locked pointer stays; a confined one stays in.
Motion(s) ==
    /\ h.mode # "lock"
    /\ h.active # None => h.of[h.active].type = "confined"
    /\ h.active # None /\ Enforceable(h, h.active) => s = h.over
    /\ s \in Under(h.shown)
    /\ h' = CursorMove([h EXCEPT !.over = s])
    /\ UNCHANGED <<held, refreshIdle>>

\* A press that no binding takes pins the pointer to the surface it was made on.
PressButton ==
    /\ ~held
    /\ held' = TRUE
    /\ h' = IF h.mode = "normal" /\ h.over # None THEN [h EXCEPT !.down = TRUE] ELSE h
    /\ UNCHANGED refreshIdle

\* A release ends a drag, and unpins.
ReleaseButton ==
    /\ held
    /\ held' = FALSE
    /\ h' = CASE h.mode = "normal" /\ h.down -> CursorMove([h EXCEPT !.down = FALSE])
              [] h.mode = "drag" -> EnterNormal(h)
              [] OTHER -> h
    /\ UNCHANGED refreshIdle

\* The first finger warps the cursor without asking whether somebody holds it.
TouchDown(s) ==
    /\ h.mode # "lock"
    /\ ~h.touch
    /\ s \in Under(h.shown)
    /\ h' = [h EXCEPT !.touch = TRUE, !.over = s]
    /\ UNCHANGED <<held, refreshIdle>>

TouchUp ==
    /\ h.touch
    /\ h' = CASE h.mode = "normal" -> CursorMove([h EXCEPT !.touch = FALSE])
              [] h.mode = "drag" -> EnterNormal([h EXCEPT !.touch = FALSE])
              [] OTHER -> [h EXCEPT !.touch = FALSE]
    /\ UNCHANGED <<held, refreshIdle>>

----------------------------------------------------------------------------
(* Clients                                                                 *)

\* A view that unmaps while the pointer is pinned keeps the seat's pointer focus, and a locked
\* constraint looks at nothing else.
FocusIsMapped == h.focus # None => Top(h.focus) \in h.mapped

\* new_constraint_handler().
NewConstraint(s, kind) ==
    /\ h.of[s] = None
    /\ "unmapped" \in Races \/ FocusIsMapped
    /\ h' = Refresh([h EXCEPT !.of[s] = [type |-> kind.type, oneshot |-> kind.oneshot,
                                         hint |-> kind.hint, region |-> TRUE]])
    /\ UNCHANGED <<held, refreshIdle>>

\* constraint_set_region_handler(): a region becomes empty, or no longer is; what follows waits for
\* the idle source.  Nobody looks at the region of a locked pointer.
SetRegion(s) ==
    /\ h.of[s] # None
    /\ h' = [h EXCEPT !.of[s].region = (h.of[s].type = "confined") => ~@]
    /\ refreshIdle' = TRUE
    /\ UNCHANGED held

RefreshIdle ==
    /\ refreshIdle
    /\ "unmapped" \in Races \/ FocusIsMapped
    /\ refreshIdle' = FALSE
    /\ h' = Refresh(h)
    /\ UNCHANGED held

\* Mutant: the hold is not forgotten with its constraint.
DestroyedHeld(g, s) == [g EXCEPT !.of[s] = None, !.told[s] = FALSE]

\* constraint_destroy_handler().
Destroyed(g, s) ==
    IF g.of[s] = None THEN g
    ELSE [Told(g, s, FALSE) EXCEPT
             !.active = IF @ = s THEN None ELSE @,
             !.of[s] = None,
             !.over = IF g.active = s /\ g.of[s].hint /\ Resolves(g, s) THEN s ELSE @]

DestroyConstraint(s) ==
    /\ h.of[s] # None
    /\ h' = Destroyed(h, s)
    /\ UNCHANGED <<held, refreshIdle>>

\* A popup is dismissed: wlroots destroys its constraint and takes the pointer from it.
PopupGone(p) ==
    /\ Parent[p] \in h.shown
    /\ \E s \in Under(h.shown) :
           h' = [Destroyed(h, p) EXCEPT !.focus = IF @ = p THEN None ELSE @,
                                        !.over = IF @ = p THEN s ELSE @]
    /\ UNCHANGED <<held, refreshIdle>>

----------------------------------------------------------------------------
(* Views                                                                   *)

\* A view is mapped, or shown again; it has the focus or not.
Show(v, focused) ==
    /\ v \notin h.shown
    /\ h.mode = "normal"
    /\ \E s \in Under(h.shown \cup {v}) :
           LET g == [h EXCEPT !.mapped = @ \cup {v}, !.shown = @ \cup {v}, !.over = s]
           IN  h' = CursorMove(IF focused THEN FocusView(g) ELSE g)
    /\ UNCHANGED <<held, refreshIdle>>

\* hikari_view_hide(), which clears the focus of a view that has it before it unlinks it, and the
\* hikari_server_cursor_focus() after it.
Unfocused(g, focused) ==
    IF focused THEN FocusNothing(IF g.mode = "normal" THEN g ELSE EnterNormal(g)) ELSE g

\* Something else is under the cursor once v is not.
Uncovered(g, v) ==
    {[g EXCEPT !.over = s] : s \in IF Top(g.over) = v THEN Under(g.shown \ {v}) ELSE {g.over}}

\* What is left of the pointer once v is out of sight.
Without(g, v) == {CursorMove([x EXCEPT !.shown = @ \ {v}]) : x \in Uncovered(g, v)}

Hide(v, focused) ==
    /\ v \in h.shown
    /\ h.mode = "normal"
    /\ h' \in Without(Unfocused(h, focused), v)
    /\ UNCHANGED <<held, refreshIdle>>

\* Mutant: a popup's hold is not taken for one of its window.
UnholdOwn(g, v) == IF g.active = v THEN DeactivateHold(g, TRUE) ELSE g

\* hikari_view_unmap().
Unhold(g, v) == IF Holds(g, v) THEN DeactivateHold(g, TRUE) ELSE g

Unmapped(g, v) == [Unhold(g, v) EXCEPT !.mapped = @ \ {v}]

Unmap(v, focused) ==
    /\ v \in h.mapped
    /\ IF v \in h.shown /\ h.mode # "lock"
       THEN h' \in Without(Unfocused(Unmapped(h, v), focused), v)
       ELSE h' \in {[x EXCEPT !.shown = @ \ {v}] : x \in Uncovered(Unmapped(h, v), v)}
    /\ UNCHANGED <<held, refreshIdle>>

\* The surface of a view that is not mapped goes, and its constraint with it.
SurfaceGone(v) ==
    /\ v \notin h.mapped
    /\ h' = [Destroyed(h, v) EXCEPT !.focus = IF @ = v THEN None ELSE @]
    /\ h' # h
    /\ UNCHANGED <<held, refreshIdle>>

\* A view resizes, moves or is raised, and something else is under the cursor.  A view that is
\* held is not centred on, and the pointer is not asked again where it is.
Commit(v, s) ==
    /\ v \in h.shown
    /\ h.mode # "lock"
    /\ s \in Under(h.shown)
    /\ h' = IF Holds(h, v) THEN [h EXCEPT !.over = s]
            ELSE CursorMove(Warp(h, v))
    /\ UNCHANGED <<held, refreshIdle>>

\* The user moves to another view; the cursor follows.
Jump(v) ==
    /\ v \in h.shown
    /\ h.mode = "normal"
    /\ h' = CursorMove(Warp(FocusView(h), v))
    /\ UNCHANGED <<held, refreshIdle>>

\* A view is evacuated from a monitor that goes.
Migrate(v) ==
    /\ v \in h.shown
    /\ h.mode # "lock"
    /\ h' \in Uncovered(Unhold(h, v), v)
    /\ UNCHANGED <<held, refreshIdle>>

----------------------------------------------------------------------------
(* Modes                                                                   *)

EnterModal ==
    /\ h.mode = "normal"
    /\ h' = [h EXCEPT !.mode = "modal"]
    /\ UNCHANGED <<held, refreshIdle>>

\* A drag and drop may start in any mode but the lock; the others from the normal mode.
EnterDrag ==
    /\ h.mode \in {"normal", "modal"}
    /\ h' = [DeactivateHold(h, TRUE) EXCEPT !.mode = "drag"]
    /\ UNCHANGED <<held, refreshIdle>>

LeaveMode ==
    /\ h.mode \in {"modal", "drag"}
    /\ h' = EnterNormal(h)
    /\ UNCHANGED <<held, refreshIdle>>

\* hikari_lock_mode_enter(), with a view or nothing focused.
EnterLock(focused) ==
    /\ h.mode = "normal"
    /\ h' = [DeactivateHold(IF focused THEN FocusNothing(h) ELSE h, TRUE)
                EXCEPT !.mode = "lock", !.touch = FALSE]
    /\ UNCHANGED <<held, refreshIdle>>

Unlock ==
    /\ h.mode = "lock"
    /\ h' = EnterNormal(h)
    /\ UNCHANGED <<held, refreshIdle>>

----------------------------------------------------------------------------

Init ==
    /\ h = [mapped |-> {}, shown |-> {}, of |-> [s \in Surfaces |-> None], told |-> [s \in Surfaces |-> FALSE],
            active |-> None, focus |-> None, over |-> None,
            down |-> FALSE, touch |-> FALSE, mode |-> "normal"]
    /\ held = FALSE
    /\ refreshIdle = FALSE

Next ==
    \/ \E s \in Surfaces \cup {None} : Motion(s) \/ TouchDown(s)
    \/ PressButton \/ ReleaseButton \/ TouchUp
    \/ \E s \in Surfaces, k \in Kinds : NewConstraint(s, k)
    \/ \E s \in Surfaces : SetRegion(s) \/ DestroyConstraint(s)
    \/ RefreshIdle
    \/ \E p \in Popups : PopupGone(p)
    \/ \E v \in Tops, f \in BOOLEAN : Show(v, f) \/ Hide(v, f) \/ Unmap(v, f)
    \/ \E v \in Tops : SurfaceGone(v) \/ Jump(v) \/ Migrate(v)
    \/ \E v \in Tops, s \in Surfaces \cup {None} : Commit(v, s)
    \/ EnterModal \/ EnterDrag \/ LeaveMode \/ Unlock
    \/ \E f \in BOOLEAN : EnterLock(f)

Spec == Init /\ [][Next]_vars

----------------------------------------------------------------------------
(* Properties                                                              *)

TypeOK ==
    /\ h.active \in Surfaces \cup {None} /\ h.mode \in {"normal", "modal", "drag", "lock"}
    /\ h.of \in [Surfaces -> Constraint \cup {None}] /\ h.told \in [Surfaces -> BOOLEAN]
    /\ h.shown \subseteq h.mapped /\ h.mapped \subseteq Tops
    /\ held \in BOOLEAN /\ refreshIdle \in BOOLEAN

\* A client thinks its constraint is in force exactly while it is, through warps that end a hold
\* in the middle of another one's end and constraints that die with their first deactivation;
\* and nobody holds the pointer behind the lock screen or in a drag.
ClientAndCompositorAgree ==
    /\ TypeOK
    /\ \A s \in Surfaces : h.told[s] <=> h.active = s
    /\ h.active # None => h.of[h.active] # None
    /\ h.mode \in {"lock", "drag"} => h.active = None

\* cursor_down_move() is what the current mode calls.
Pinned == h.mode = "normal" /\ h.down

\* The pointer is never frozen or fenced in by what the user cannot see or the compositor cannot
\* enforce: the holder is shown, unless a button or a finger pins the pointer or a mode waits for a
\* key, which end with the next look at what is under the cursor;
\* and a region that became empty has its refresh queued.
HoldIsOnScreen ==
    h.active # None =>
        /\ Top(h.active) \in h.mapped
        /\ h.mode = "normal" /\ ~h.down /\ ~h.touch => Top(h.active) \in h.shown
        /\ h.of[h.active].type = "confined" => h.of[h.active].region \/ refreshIdle
        /\ Pinned => held

=============================================================================
