------------------------------ MODULE XWindows ------------------------------
(***************************************************************************)
(* X11 windows (src/src/xwayland_view.c, xwayland_unmanaged_view.c): the    *)
(* wrapper an X window has, managed as a view or, for a menu or a tooltip, *)
(* unmanaged; the wl_surface that comes and goes under it; the attribute    *)
(* override_redirect, which changes the kind of wrapper while it lives; and *)
(* the two ideas of where a window is, X's in layout coordinates and the    *)
(* compositor's relative to an output; and the motion in which a managed    *)
(* window, of X or not, travels from one place to the next (animation.c).  *)
(*                                                                         *)
(* Space has one dimension, and windows no width.  Nothing is locked or     *)
(* fullscreen.  The wrappers meet only in the outputs' lists.  Whether the  *)
(* configuration and the mode let a window travel (a dragged one snaps) is a *)
(* choice, made each time may_animate() is asked.                          *)
(***************************************************************************)
EXTENDS Integers, FiniteSets

CONSTANTS
    Outputs, Windows,
    Surfaces,   \* the wl_surfaces an X window may be associated with, one after the other
    Fallback,   \* noop_output
    Places,     \* where an output may be in the layout
    Width,      \* how far an output's usable area reaches
    Duration,   \* of a motion
    None,
    Races       \* orders of events known to break a property and let in

ASSUME SpaceAssumption == Places \subseteq Int /\ Width \in Nat \ {0} /\ Duration \in Nat \ {0}
ASSUME NoneAssumption ==
    /\ None \notin Outputs \cup Surfaces \cup {Fallback} /\ Fallback \notin Outputs
    /\ None \notin [geo : Int, own : BOOLEAN]
ASSUME RaceAssumption ==
    Races \subseteq {"withdrawn",  \* an output goes with a window on it that is not mapped
                     "moved",      \* an output moves below a menu, or an unmapped window
                     "asked",      \* an output goes between a menu's request to move and its commit
                     "first",      \* the first output comes with an X window on the fallback
                     "layout",     \* the layout changes during an operation or a motion
                     "answer",     \* a window migrates to an output where it has another size
                     "drag",       \* a window is dragged while an operation of the layout is in flight
                     "equal"}      \* a window is tiled without a change of its size

VARIABLES
    x,      \* struct wlr_xwayland_surface: what X knows of a window
    wrap,   \* the wrapper: struct hikari_xwayland_view or _unmanaged_view
    out,    \* outputs: whether they exist, are on, have a frame scheduled, and where they are
    ws,     \* hikari_server.workspace, by its output
    awake,  \* hikari_server.session_active
    fault   \* memory used after it was freed, a NULL followed

vars == <<x, wrap, out, ws, awake, fault>>

Everywhere == Outputs \cup {Fallback}
Spots == {p + d : p \in Places, d \in 0 .. Width - 1}

NoWindow == [alive |-> FALSE, override |-> FALSE, surface |-> None, mapped |-> FALSE, at |-> 0]
Still == [flying |-> FALSE, placed |-> FALSE, from |-> 0, drawn |-> 0, age |-> 0]
NoWrap == [kind |-> "none", out |-> None, known |-> FALSE, mapped |-> FALSE, listed |-> None,
           heard |-> None, commit |-> None, tree |-> None,
           geo |-> 0, node |-> 0, motion |-> Still, pending |-> None, owes |-> FALSE]

World == [x |-> x, wrap |-> wrap, out |-> out, ws |-> ws, fault |-> fault]
Becomes(h) ==
    /\ x' = h.x /\ wrap' = h.wrap /\ out' = h.out /\ ws' = h.ws /\ fault' = h.fault
    /\ UNCHANGED awake

\* The place of the output a wrapper is on, and a handler that follows the pointer to it.
Origin(h, w) == h.out[h.wrap[w].out].at
Follow(h, w) == [h EXCEPT !.fault = @ \/ ~h.out[h.wrap[w].out].plugged]

\* hikari_geometry_constrain_absolute(): the usable area of the fallback is empty.
Constrain(o, g) ==
    LET far == IF o = Fallback THEN 0 ELSE Width - 1 IN
    IF g > far THEN far ELSE IF g < 0 THEN 0 ELSE g
-----------------------------------------------------------------------------
(* Motion.  A window travels to geo; its node is where the last frame left  *)
(* it, at `drawn', and the pointer finds it there.                         *)

\* hikari_animation_offset()
Offset(h, w) == IF h.wrap[w].motion.flying THEN h.wrap[w].motion.drawn - h.wrap[w].geo ELSE 0

\* current_position(): linear, and C divides towards zero.
Position(m, to) ==
    LET d == to - m.from IN
    IF d >= 0 THEN m.from + (d * m.age) \div Duration ELSE m.from - ((-d) * m.age) \div Duration

\* hikari_output_add_damage(): an output that is on gets a frame.  Of the other outputs a window
\* reaches into nothing depends.
Scheduled(h, o) == [h EXCEPT !.out[o].due = @ \/ h.out[o].on]

\* Mutant: the motion sets off from where the last one was headed.
FlyFromTarget(h, w, g) ==
    LET m == h.wrap[w].motion IN
    [Scheduled(h, h.wrap[w].out) EXCEPT
        !.wrap[w].geo = g,
        !.wrap[w].motion = [m EXCEPT !.flying = TRUE, !.from = h.wrap[w].geo, !.age = 0]]

\* hikari_animation_move() of a window that may travel: from where it is drawn, and a frame is due.
Fly(h, w, g) ==
    LET m == h.wrap[w].motion IN
    [Scheduled(h, h.wrap[w].out) EXCEPT
        !.wrap[w].geo = g,
        !.wrap[w].motion = [m EXCEPT !.flying = TRUE, !.from = m.drawn, !.age = 0]]

\* hikari_animation_move() that declines: the caller places the node.
Snap(h, w, g) ==
    [h EXCEPT !.wrap[w].geo = g, !.wrap[w].node = Origin(h, w) + g,
              !.wrap[w].motion = [flying |-> FALSE, placed |-> TRUE, from |-> g, drawn |-> g, age |-> 0]]

\* hikari_view_refresh_geometry(), and the end of move_view(); may: the mode and the
\* configuration let windows travel.
Refresh(h, w, g, may) ==
    LET r == h.wrap[w] IN
    IF ~(may /\ r.motion.placed /\ r.mapped) THEN Snap(h, w, g)
    ELSE IF r.motion.flying \/ r.geo # g THEN Fly(h, w, g)
    ELSE [h EXCEPT !.wrap[w].node = Origin(h, w) + g]

\* hikari_animation_cancel(), hikari_animation_init()
Cancel(h, w) ==
    [h EXCEPT !.wrap[w].node = IF h.wrap[w].motion.flying THEN Origin(h, w) + h.wrap[w].geo ELSE @,
              !.wrap[w].motion = Still]

\* The part of hikari_animation_tick() for one window, when its clock shows `age'.
Ticked(h, w, age, may) ==
    LET m == [h.wrap[w].motion EXCEPT !.age = age]
        landed == ~may \/ age = Duration
        here == IF landed THEN h.wrap[w].geo ELSE Position(m, h.wrap[w].geo)
    IN  [h EXCEPT !.wrap[w].node = Origin(h, w) + here,
                  !.wrap[w].motion = IF landed THEN [m EXCEPT !.flying = FALSE, !.drawn = here,
                                                              !.from = here, !.age = 0]
                                     ELSE [m EXCEPT !.drawn = here]]
-----------------------------------------------------------------------------
(* Wrappers                                                                *)

\* attach_surface_listeners(): the surface is heard, and a tree displays it.
AttachView(h, w) ==
    LET s == h.x[w].surface IN
    [h EXCEPT !.wrap[w].heard = s, !.wrap[w].tree = IF @ = None THEN s ELSE @]

\* attach_surface_listeners_unmanaged(): the tree stands by itself, so it is placed too.
AttachMenu(h, w) ==
    LET bare == h.wrap[w].tree = None IN
    [AttachView(h, w) EXCEPT !.wrap[w].node = IF bare THEN h.x[w].at ELSE @]

Attach(h, w) == IF h.wrap[w].kind = "managed" THEN AttachView(h, w) ELSE AttachMenu(h, w)

\* first_map(): hikari_view_configure() puts it on the current workspace, X is told where.
FirstMap(h, w) ==
    LET seen == Follow(h, w) IN
    {Snap([seen EXCEPT !.wrap[w].known = TRUE, !.wrap[w].out = h.ws, !.wrap[w].owes = FALSE,
                       !.x[w].at = h.out[h.ws].at + g], w, g)
        : g \in {Constrain(h.ws, d) : d \in 0 .. Width - 1}}

\* map() of a view: the surface's commits are heard, hikari_view_map() lists it on its output.
MapView(h, w) ==
    {[Follow(g, w) EXCEPT !.wrap[w].commit = g.x[w].surface, !.wrap[w].mapped = TRUE,
                          !.wrap[w].listed = g.wrap[w].out]
        : g \in IF h.wrap[w].known THEN {h} ELSE FirstMap(h, w)}

\* map_unmanaged()
MapMenu(h, w) ==
    IF h.wrap[w].mapped THEN {h}
    ELSE {[Follow(h, w) EXCEPT !.wrap[w].commit = h.x[w].surface, !.wrap[w].mapped = TRUE,
                               !.wrap[w].listed = h.wrap[w].out,
                               !.wrap[w].geo = h.x[w].at - Origin(h, w),
                               !.wrap[w].node = h.x[w].at]}

MapWrap(h, w) == IF h.wrap[w].kind = "managed" THEN MapView(h, w) ELSE MapMenu(h, w)

\* unmap() of a menu, which does nothing if it is hidden.
UnmapMenu(h, w) ==
    IF ~h.wrap[w].mapped THEN h
    ELSE [Follow(h, w) EXCEPT !.wrap[w].mapped = FALSE, !.wrap[w].commit = None,
                              !.wrap[w].listed = None]

\* unmap() of a view: hikari_view_unmap() ends a motion, and forgets an operation in flight, of
\* which X was told.
UnmapView(h, w) ==
    [UnmapMenu(Cancel(h, w), w) EXCEPT !.wrap[w].pending = None,
                            !.wrap[w].owes = @ \/ h.wrap[w].pending # None]

UnmapWrap(h, w) == IF h.wrap[w].kind = "managed" THEN UnmapView(h, w) ELSE UnmapMenu(h, w)

\* xwayland_view_destroy(), xwayland_unmanaged_view_destroy()
DestroyWrap(h, w) == [UnmapWrap(h, w) EXCEPT !.wrap[w] = NoWrap]

\* hikari_xwayland_unmanaged_view_init(), hikari_xwayland_view_init(): a surface that is there
\* already is heard at once.
Wrapped(h, w) ==
    LET fresh == [h EXCEPT !.wrap[w] =
                      [NoWrap EXCEPT !.kind = IF h.x[w].override THEN "unmanaged" ELSE "managed",
                                     !.out = h.ws]]
    IN  IF h.x[w].surface = None THEN fresh ELSE Attach(fresh, w)

\* Mutant: the map event is waited for, which a window that is mapped has had.
AdoptFresh(h, w) == {Wrapped(h, w)}

\* hikari_server_adopt_xwayland_surface()
Adopt(h, w) == IF h.x[w].mapped THEN MapWrap(Wrapped(h, w), w) ELSE {Wrapped(h, w)}
-----------------------------------------------------------------------------
(* X clients                                                               *)

\* new_xwayland_surface_handler()
New(w, override, s) ==
    /\ ~x[w].alive
    /\ \E a \in Spots :
       LET h == [World EXCEPT !.x[w] = [NoWindow EXCEPT !.alive = TRUE, !.override = override,
                                                        !.surface = s, !.at = a]]
       IN  \E g \in Adopt(h, w) : Becomes(g)

\* associate_handler()
Associate(w, s) ==
    /\ x[w].alive /\ x[w].surface = None
    /\ Becomes(Attach([World EXCEPT !.x[w].surface = s], w))

\* map_handler(), if the event of the surface is heard
MapX(w) ==
    /\ x[w].surface # None /\ ~x[w].mapped
    /\ LET h == [World EXCEPT !.x[w].mapped = TRUE] IN
       \E g \in IF wrap[w].heard = x[w].surface THEN MapWrap(h, w) ELSE {h} : Becomes(g)

\* unmap_handler()
UnmapX(w) ==
    /\ x[w].mapped
    /\ LET h == [World EXCEPT !.x[w].mapped = FALSE] IN
       Becomes(IF wrap[w].heard = x[w].surface THEN UnmapWrap(h, w) ELSE h)

\* Mutant: the tree of the old surface stays.
DissociateKeepingTree(h, w) == [UnmapWrap(h, w) EXCEPT !.wrap[w].heard = None]

\* dissociate_handler(): the surface may go from under a window that is mapped.
Dissociated(h, w) == [UnmapWrap(h, w) EXCEPT !.wrap[w].heard = None, !.wrap[w].tree = None]

Dissociate(w) ==
    /\ x[w].surface # None
    /\ LET h == Dissociated(World, w) IN
       Becomes([h EXCEPT !.x[w].surface = None, !.x[w].mapped = FALSE])

\* destroy_handler()
Destroy(w) ==
    /\ x[w].alive
    /\ Becomes([DestroyWrap(World, w) EXCEPT !.x[w] = NoWindow])

\* set_override_redirect_handler() of both kinds: each acts on the value that is not its own.
SetOverride(w) ==
    /\ x[w].alive
    /\ LET h == [World EXCEPT !.x[w].override = ~@] IN
       \E g \in Adopt(DestroyWrap(h, w), w) : Becomes(g)

\* request_configure_handler(): a managed window is kept on its output, an unmanaged one is not.
Configure(w, a) ==
    /\ x[w].alive
    /\ LET o == IF wrap[w].known THEN wrap[w].out ELSE ws
           kept == out[o].at + Constrain(o, a - out[o].at)
       IN  IF wrap[w].kind = "managed"
           THEN Becomes([World EXCEPT !.x[w].at = kept, !.wrap[w].owes = TRUE,
                                      !.fault = @ \/ ~out[o].plugged])
           ELSE Becomes([World EXCEPT !.x[w].at = a])

\* commit_handler() of a view: an operation lands, or the compositor takes over X's box, if it
\* has another place or, resized, another size.
ViewCommitted(h, w, resized, may) ==
    LET r == h.wrap[w]
        g == IF r.pending # None THEN r.pending.geo ELSE h.x[w].at - Origin(h, w)
        seen == [Follow(h, w) EXCEPT !.wrap[w].pending = None,
                                     !.wrap[w].owes = @ /\ r.pending # None]
    IN  IF r.pending = None /\ g = r.geo /\ ~resized THEN seen ELSE Refresh(seen, w, g, may)

\* Mutant: only the box that is hit is moved.
MenuCommittedUnseen(h, w) == [Follow(h, w) EXCEPT !.wrap[w].geo = h.x[w].at - Origin(h, w)]

\* commit_handler() of a menu: the tree follows the box, if the box is not up to date.
MenuCommitted(h, w) ==
    LET g == h.x[w].at - Origin(h, w) IN
    IF g = h.wrap[w].geo THEN Follow(h, w)
    ELSE [Follow(h, w) EXCEPT !.wrap[w].geo = g, !.wrap[w].node = h.x[w].at]

Commit(w) ==
    /\ x[w].surface # None /\ wrap[w].commit = x[w].surface
    /\ \E resized, may \in BOOLEAN :
       Becomes(IF wrap[w].kind = "managed" THEN ViewCommitted(World, w, resized, may)
                                           ELSE MenuCommitted(World, w))
-----------------------------------------------------------------------------
(* The user and the layout                                                 *)

Shown(w) == wrap[w].kind = "managed" /\ wrap[w].mapped

\* move_view(): X is told, and an operation that has an origin of the user's follows.
Move(w, g) ==
    /\ Shown(w)
    /\ wrap[w].pending # None => wrap[w].pending.own \/ "drag" \in Races
    /\ LET o == wrap[w].out
           op == wrap[w].pending
           follows == IF op # None /\ op.own THEN [op EXCEPT !.geo = g] ELSE op
       IN  \E may \in BOOLEAN :
           Becomes(Refresh([World EXCEPT !.wrap[w].pending = follows, !.x[w].at = out[o].at + g],
                           w, g, may))

\* resize(): a view of X is told place and size at once, and always answers with a commit.
Queue(w, g, own) ==
    /\ Shown(w) /\ wrap[w].pending = None
    /\ Becomes([World EXCEPT !.wrap[w].pending = [geo |-> g, own |-> own],
                             !.x[w].at = Origin(World, w) + g])

\* queue_tile(), queue_reset() of a window that has the size: it is committed, nobody is told.
Settle(w, g) ==
    /\ Shown(w)
    /\ g # wrap[w].geo \/ wrap[w].pending \notin {None, [geo |-> g, own |-> TRUE], [geo |-> g, own |-> FALSE]}
          => "equal" \in Races
    /\ \E may \in BOOLEAN :
       Becomes(Refresh([World EXCEPT !.wrap[w].pending = None], w, g, may))

\* Mutant: X is not told.
MigrateSilent(h, w, o, g, op) ==
    LET there == [Cancel(h, w) EXCEPT !.wrap[w].out = o, !.wrap[w].listed = o,
                                      !.wrap[w].geo = g, !.wrap[w].pending = op]
    IN  IF op = None THEN Snap(there, w, g) ELSE there

\* hikari_view_migrate(): a motion ends on the output it is on; queue_reset() waits only for a
\* window that has another size.
Migrated(h, w, o, g, op) ==
    LET there == [Cancel(h, w) EXCEPT !.wrap[w].out = o, !.wrap[w].listed = o,
                                      !.wrap[w].geo = g, !.wrap[w].pending = op,
                                      !.x[w].at = h.out[o].at + g]
    IN  IF op = None THEN Snap(there, w, g) ELSE there

Migrate(w, o, g) ==
    /\ Shown(w) /\ wrap[w].out # o
    /\ \/ Becomes(Migrated(World, w, o, g, None))
       \/ "answer" \in Races /\ Becomes(Migrated(World, w, o, g, [geo |-> g, own |-> TRUE]))

FocusOutput(o) ==
    /\ out[o].on
    /\ ws' = o
    /\ UNCHANGED <<x, wrap, out, awake, fault>>
-----------------------------------------------------------------------------
(* Outputs                                                                 *)

\* hikari_output_rearrange_xwayland_views() of every output of the layout
LayoutChanged(h) ==
    LET there == {w \in Windows : /\ h.wrap[w].kind = "managed" /\ h.wrap[w].listed \in Outputs
                                  /\ h.out[h.wrap[w].listed].on}
        told(w) == Origin(h, w) + h.wrap[w].geo
    IN  [h EXCEPT
           !.wrap = [w \in Windows |-> IF w \in there THEN [h.wrap[w] EXCEPT !.node = told(w)] ELSE @[w]],
           !.x = [w \in Windows |-> IF w \in there THEN [h.x[w] EXCEPT !.at = told(w)] ELSE @[w]]]

MayRearrange ==
    "layout" \in Races \/ \A w \in Windows : wrap[w].pending = None /\ ~wrap[w].motion.flying

\* hikari_view_evacuate() of a floating window: its node is placed, X is not told yet.
ViewEvacuated(h, w, to) ==
    [Cancel(h, w) EXCEPT !.wrap[w].out = to, !.wrap[w].listed = to,
              !.wrap[w].node = h.out[to].at + h.wrap[w].geo]

\* Mutant: the link stays in the list of the output that goes.
MenuEvacuatedLinked(h, w, to) ==
    [h EXCEPT !.wrap[w].out = to, !.wrap[w].geo = h.x[w].at - h.out[to].at]

\* hikari_xwayland_unmanaged_evacuate()
MenuEvacuated(h, w, to) ==
    [h EXCEPT !.wrap[w].out = to, !.wrap[w].listed = to,
              !.wrap[w].geo = h.x[w].at - h.out[to].at]

\* hikari_workspace_merge(): what is listed on an output goes to another.
Merge(h, from, to) ==
    LET moves == {w \in Windows : h.wrap[w].listed = from}
        after == [w \in Windows |-> IF h.wrap[w].kind = "managed" THEN ViewEvacuated(h, w, to)
                                    ELSE MenuEvacuated(h, w, to)]
    IN  [h EXCEPT !.wrap = [w \in Windows |-> IF w \in moves THEN after[w].wrap[w] ELSE @[w]]]

\* evacuate_output(): the workspace it goes to gets the focus.
Evacuated(h, o, to) == [Merge(h, o, to) EXCEPT !.ws = to]

\* hikari_workspace_next(): another output that is on, or else the fallback.
Refuges(o) ==
    LET others == {p \in Outputs \ {o} : out[p].on} IN
    IF others = {} THEN {Fallback} ELSE others

\* The orders of events in which what is on an output survives it.
MayLeave(o) ==
    /\ MayRearrange
    /\ "withdrawn" \in Races \/ \A w \in Windows : wrap[w].out = o => wrap[w].mapped
    /\ "asked" \in Races \/ \A w \in Windows :
          wrap[w].listed = o /\ wrap[w].kind = "unmanaged" => x[w].at = wrap[w].node

\* hikari_output_fini(); wlroots takes the output from the layout after the handler.
Unplug(o) ==
    /\ out[o].plugged /\ MayLeave(o)
    /\ \E to \in Refuges(o) :
       LET gone == [IF out[o].on THEN Evacuated(World, o, to) ELSE World
                       EXCEPT !.out[o] = [plugged |-> FALSE, on |-> FALSE, due |-> FALSE, at |-> out[o].at]]
       IN  Becomes(IF out[o].on THEN LayoutChanged(gone) ELSE gone)

\* hikari_output_set_wants_enabled(FALSE)
SwitchOff(o) ==
    /\ out[o].on /\ MayLeave(o)
    /\ \E to \in Refuges(o) :
       Becomes(LayoutChanged([Evacuated(World, o, to) EXCEPT !.out[o].on = FALSE, !.out[o].due = FALSE]))

\* hikari_output_set_wants_enabled(TRUE)
SwitchOn(o) ==
    /\ out[o].plugged /\ ~out[o].on /\ MayRearrange
    /\ Becomes(LayoutChanged([World EXCEPT !.out[o].on = TRUE]))

\* hikari_output_init(): the first output takes over what is on the fallback.
Plug(o, p) ==
    /\ ~out[o].plugged /\ MayRearrange
    /\ LET first == \A q \in Outputs : ~out[q].plugged
           there == LayoutChanged([World EXCEPT !.out[o] = [plugged |-> TRUE, on |-> TRUE, due |-> FALSE, at |-> p]])
       IN  /\ first /\ "first" \notin Races =>
                 \A w \in Windows : wrap[w].listed = Fallback => /\ wrap[w].kind = "unmanaged"
                                                                 /\ x[w].at = wrap[w].node
           /\ Becomes(IF first THEN Evacuated(there, Fallback, o) ELSE there)

\* hikari_output_move(): what is in the output's list of views is told.
MoveOutput(o, p) ==
    /\ out[o].on /\ out[o].at # p /\ MayRearrange
    /\ "moved" \in Races \/ \A w \in Windows :
          wrap[w].out = o => wrap[w].kind = "managed" /\ wrap[w].mapped
    /\ Becomes(LayoutChanged([World EXCEPT !.out[o].at = p]))

\* hikari_configuration_reload(): every window of the desktop is placed anew.
Reload ==
    \E may \in BOOLEAN :
       LET all == {w \in Windows : Shown(w) /\ wrap[w].listed \in Outputs}
           after == [w \in Windows |-> Refresh(World, w, wrap[w].geo, may)]
       IN  Becomes([World EXCEPT !.wrap = [w \in Windows |-> IF w \in all THEN after[w].wrap[w] ELSE @[w]],
                                 !.out = [o \in Everywhere |->
                                    [out[o] EXCEPT !.due = out[o].due \/ \E w \in all : after[w].out[o].due]]])

Flying(o) == {w \in Windows : wrap[w].listed = o /\ wrap[w].motion.flying}

\* Mutant: the next frame is asked for after the commit, which may fail.
RescheduleLate(running, committed) == running /\ committed

\* The next frame is asked for before the commit, and again if that fails.
Reschedule(running, committed) == running \/ ~committed

\* frame_handler(): all motion on the output advances.
Frame(o) ==
    /\ out[o].on
    /\ IF ~awake THEN Becomes([World EXCEPT !.out[o].due = FALSE])
       ELSE \E may, committed \in BOOLEAN, age \in [Flying(o) -> 1 .. Duration] :
            /\ \A w \in Flying(o) : age[w] > wrap[w].motion.age
            /\ LET after == [w \in Flying(o) |-> Ticked(World, w, age[w], may).wrap[w]]
                   running == \E w \in Flying(o) : after[w].motion.flying
               IN  Becomes([World EXCEPT
                      !.wrap = [w \in Windows |-> IF w \in Flying(o) THEN after[w] ELSE @[w]],
                      !.out[o].due = Reschedule(running, committed)])

\* session_active_handler()
SwitchSession ==
    /\ awake' = ~awake
    /\ out' = [o \in Everywhere |-> [out[o] EXCEPT !.due = @ \/ (~awake /\ out[o].on)]]
    /\ UNCHANGED <<x, wrap, ws, fault>>
-----------------------------------------------------------------------------
Init ==
    /\ x = [w \in Windows |-> NoWindow]
    /\ wrap = [w \in Windows |-> NoWrap]
    /\ out = [o \in Everywhere |-> [plugged |-> o = Fallback, on |-> FALSE, due |-> FALSE, at |-> 0]]
    /\ ws = Fallback
    /\ awake = TRUE
    /\ fault = FALSE

XClient(w) ==
    \/ \E override \in BOOLEAN, s \in Surfaces \cup {None} : New(w, override, s)
    \/ \E s \in Surfaces : Associate(w, s)
    \/ MapX(w) \/ UnmapX(w) \/ Dissociate(w) \/ Destroy(w) \/ SetOverride(w) \/ Commit(w)
    \/ \E a \in Spots : Configure(w, a)

User(w) ==
    \E g \in 0 .. Width - 1 :
       \/ Move(w, g) \/ Settle(w, g)
       \/ \E own \in BOOLEAN : Queue(w, g, own)
       \/ \E o \in {p \in Outputs : out[p].on} : Migrate(w, o, g)

Monitor(o) ==
    \/ Unplug(o) \/ SwitchOff(o) \/ SwitchOn(o) \/ FocusOutput(o) \/ Frame(o)
    \/ \E p \in Places : Plug(o, p) \/ MoveOutput(o, p)

Next ==
    \/ \E w \in Windows : XClient(w) \/ User(w)
    \/ \E o \in Outputs : Monitor(o)
    \/ Reload \/ SwitchSession

Spec == Init /\ [][Next]_vars

\* A backend delivers the frame that an output has been scheduled for.
FairSpec == Spec /\ \A o \in Outputs : WF_vars(Frame(o) /\ out[o].due)
-----------------------------------------------------------------------------
(* Properties                                                              *)

TypeOK ==
    /\ \A w \in Windows :
          /\ x[w].alive \in BOOLEAN /\ x[w].override \in BOOLEAN /\ x[w].mapped \in BOOLEAN
          /\ x[w].surface \in Surfaces \cup {None} /\ x[w].at \in Int
          /\ wrap[w].kind \in {"none", "managed", "unmanaged"}
          /\ wrap[w].out \in Everywhere \cup {None} /\ wrap[w].listed \in Everywhere \cup {None}
          /\ {wrap[w].heard, wrap[w].commit, wrap[w].tree} \subseteq Surfaces \cup {None}
          /\ {wrap[w].known, wrap[w].mapped, wrap[w].owes} \subseteq BOOLEAN
          /\ {wrap[w].geo, wrap[w].node, wrap[w].motion.from, wrap[w].motion.drawn} \subseteq Int
          /\ wrap[w].motion.flying \in BOOLEAN /\ wrap[w].motion.placed \in BOOLEAN
          /\ wrap[w].motion.age \in 0 .. Duration - 1
    /\ \A o \in Everywhere : {out[o].plugged, out[o].on, out[o].due} \subseteq BOOLEAN
    /\ awake \in BOOLEAN
    /\ ws \in Everywhere /\ fault \in BOOLEAN

\* A wrapper hears and displays the surface its window has now, if any, and no other, and hears
\* its commits exactly while it is mapped (xwayland_view.c:540, xwayland_unmanaged_view.c:437).
SignalsAreLive ==
    \A w \in Windows :
       /\ wrap[w].heard = x[w].surface /\ wrap[w].tree = x[w].surface
       /\ wrap[w].commit = IF wrap[w].mapped THEN x[w].surface ELSE None

\* Whatever becomes of its attribute and its surface, a window that X has mapped is shown, by a
\* wrapper of the kind it asks for (xwayland_view.c:676, server.c:650).
NothingIsLost ==
    \A w \in Windows :
       /\ wrap[w].mapped = x[w].mapped
       /\ wrap[w].kind = IF ~x[w].alive THEN "none" ELSE IF x[w].override THEN "unmanaged" ELSE "managed"

\* No wrapper refers to an output that has been freed, and one that is mapped is in the list of
\* the output it is on and in no other (xwayland_unmanaged_view.c:557).
ListsAreLive ==
    /\ TypeOK /\ ~fault
    /\ \A w \in Windows :
          /\ wrap[w].kind # "none" => out[wrap[w].out].plugged
          /\ wrap[w].listed = IF wrap[w].mapped THEN wrap[w].out ELSE None

\* The wrappers are sound: what they hear, whether they are shown, where they are listed.
WrappersAreSound == SignalsAreLive /\ NothingIsLost /\ ListsAreLive

\* A mapped window is hit where it is drawn, be it a menu that was placed by itself or a window
\* half way to its place (xwayland_unmanaged_view.c:60, server.c:562).
HitIsDrawn ==
    \A w \in Windows :
       wrap[w].mapped => wrap[w].node = Origin(World, w) + wrap[w].geo + Offset(World, w)

\* X and the compositor agree where a managed window on a monitor is, but for an operation in
\* flight and for what the window asked for and has not committed: otherwise its next commit
\* would undo a move (xwayland_view.c:91).
XIsTold ==
    \A w \in Windows :
       Shown(w) /\ wrap[w].out # Fallback /\ wrap[w].pending = None /\ ~wrap[w].owes =>
          x[w].at = Origin(World, w) + wrap[w].geo

\* X, the compositor and the scene agree where a window is.
PlacesAgree == HitIsDrawn /\ XIsTold

Away(p, q) == IF p < q THEN q - p ELSE p - q

\* On its output, a window never moves away from where it is to be: not by a frame, and not when
\* it gets another target half way, or the same one again by a reload (animation.c:185).
NeverJumps ==
    [][\A w \in Windows :
         LET to == out'[wrap'[w].out].at + wrap'[w].geo IN
         /\ wrap[w].kind = "managed" /\ wrap[w].mapped /\ wrap'[w].mapped
         /\ wrap'[w].out = wrap[w].out /\ out'[wrap[w].out].at = out[wrap[w].out].at
         => Away(wrap'[w].node, to) <= Away(wrap[w].node, to)]_vars

Restarted(w) ==
    wrap'[w].motion.flying /\ wrap'[w].motion.age = 0 /\ wrap'[w] # wrap[w]

\* A window that travels on a monitor of the session arrives, unless it is sent on again and
\* again: also when a commit fails, or the session is switched away half way (output.c:455).
Lands ==
    \A w \in Windows :
       \/ []<>~(awake /\ wrap[w].motion.flying /\ wrap[w].listed \in Outputs)
       \/ []<><<Restarted(w)>>_vars
=============================================================================
