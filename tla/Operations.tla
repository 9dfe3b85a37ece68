----------------------------- MODULE Operations -----------------------------
(***************************************************************************)
(* How a view changes its arrangement (src/src/view.c, xdg_view.c,         *)
(* sheet.c, layout.c, tile.c, split.c, reflow.c).                          *)
(*                                                                         *)
(* A view is resized by asking its client: the one pending operation of    *)
(* the view waits for the commit that answers, and takes effect then.      *)
(* Here the answer races the user, the client's own requests, the windows  *)
(* that come and go, the monitors and the deferred automatic tiling.       *)
(*                                                                         *)
(* Sizes are left out: whether an operation finds the view already at its  *)
(* size, so that it needs no answer, and which of the views a layout can   *)
(* take (its containers have a maximum) are choices.  So are the stacking  *)
(* order and where the focus is: a key acts on any view that is shown.     *)
(* The locked screen is in Visibility.                                     *)
(***************************************************************************)
EXTENDS Integers, FiniteSets

CONSTANTS Views,       \* the windows of the clients
          Outputs,     \* the monitors, each with its workspace
          Sheets,      \* the sheet numbers of a workspace; 0 is always shown
          Asks,        \* what the clients ask for of their own
          Keys,        \* what the user presses keys for
          OnClose,     \* the policy's reflow-on-close; its auto is on
          Races        \* the moves let happen that are known to break a property

ASSUME OutputAssumption == Outputs # {} /\ "none" \notin Outputs
ASSUME SheetAssumption == Sheets \subseteq Nat /\ 1 \in Sheets
ASSUME AskAssumption == Asks \subseteq {"fullscreen", "maximized"}
ASSUME KeyAssumption ==
    Keys \subseteq {"full", "vertical", "horizontal", "resize", "floating", "invisible"}
ASSUME PolicyAssumption == OnClose \in BOOLEAN
ASSUME RaceAssumption ==
    Races \subseteq {"overwrite",  \* horizontal maximize during an operation
                     "toggle",     \* floating or invisible while first tiled
                     "pin",        \* pinned to a sheet while first tiled
                     "unplug",     \* a monitor goes while a view is first tiled
                     "raise",      \* tiled again by "prepend" with a view hidden that has no tile
                     "below"}      \* a layout is applied with the focus below a hidden view

VARIABLES
    view,       \* what a struct hikari_view says of the view's arrangement
    displayed,  \* workspace->sheet
    outputs,    \* hikari_server.outputs
    layouts,    \* the sheets with a layout
    queued,     \* reflow.c: the sheets that wait to be tiled again
    armed,      \* reflow.c: an idle source will drain them
    moving      \* move mode: a view is being dragged

vars == <<view, displayed, outputs, layouts, queued, armed, moving>>

Place   == [out : Outputs, nr : Sheets]
Nowhere == [out |-> "none", nr |-> 0]   \* a NULL sheet, a NULL tile
Loose   == [out |-> "none", nr |-> 1]   \* a tile detached from its layout

Kinds == {"resize", "reset", "unmaximize", "full", "vertical", "horizontal",
          "tile", "fullscreen"}

ViewState ==
    [mapped     : BOOLEAN,
     hidden     : BOOLEAN,
     place      : Place \cup {Nowhere},         \* view->sheet
     flags      : SUBSET {"floating", "invisible"},
     tile       : Place \cup {Nowhere, Loose},  \* the layout of view->tile
     maximized  : {"no", "full", "vertical", "horizontal"},
     fullscreen : BOOLEAN,
     current    : {"own", "tile", "maximized", "fullscreen"},
                                    \* the box current_geometry points into
     op         : Kinds \cup {"none"},   \* pending_operation, if it is dirty
     pending    : Place \cup {Nowhere},  \* the layout of pending_operation.tile
     parked     : [Asks -> {"no", "on", "off"}],
                      \* pending_{fullscreen,maximized}, with what is requested
     fault      : BOOLEAN]          \* an assert() of the code has failed

Unmanaged ==
    [mapped |-> FALSE, hidden |-> TRUE, place |-> Nowhere, flags |-> {},
     tile |-> Nowhere, maximized |-> "no",
     fullscreen |-> FALSE, current |-> "own", op |-> "none",
     pending |-> Nowhere, parked |-> [a \in Asks |-> "no"], fault |-> FALSE]

TypeOK ==
    /\ view \in [Views -> ViewState]
    /\ displayed \in [Outputs -> Sheets]
    /\ outputs \in (SUBSET Outputs) \ {{}}
    /\ layouts \subseteq Place
    /\ queued \subseteq Place
    /\ armed \in BOOLEAN
    /\ moving \in BOOLEAN

Init ==
    /\ view = [v \in Views |-> Unmanaged]
    /\ displayed = [o \in Outputs |-> 1]
    /\ outputs = Outputs
    /\ layouts = {}
    /\ queued = {}
    /\ armed = FALSE
    /\ moving = FALSE
-----------------------------------------------------------------------------
(* Tiles and boxes.  The steps below take the state of a view to the state *)
(* after it.                                                               *)

Shown(p)   == p.nr = 0 \/ displayed[p.out] = p.nr   \* hikari_sheet_is_visible()
Visible(v) == view[v].mapped /\ ~view[v].hidden

Tiled(r)    == r.tile # Nowhere
Attached(r) == r.tile \in Place
Dirty(r)    == r.op # "none"
Tiling(r)   == r.op = "tile"
Tileable(r) == r.flags = {} /\ ~Dirty(r)

\* The views with a tile in the layout of place p, in the state w.
TiledAt(w, p) == {v \in Views : p \in {w[v].tile, w[v].pending}}

\* hikari_tile_detach(): the last tile to leave a layout takes it along.
Vacated(w) == {p \in layouts : TiledAt(view, p) # {} /\ TiledAt(w, p) = {}}

Fail(r, wrong) == [r EXCEPT !.fault = @ \/ wrong]

\* refresh_geometry(): fullscreen shadows maximized, which shadows the tile.
Box(r) == IF r.fullscreen THEN "fullscreen"
          ELSE IF r.maximized # "no" THEN "maximized"
          ELSE IF Tiled(r) THEN "tile"
          ELSE "own"

Refresh(r) == [r EXCEPT !.current = Box(r)]

Unshadow(r) == [r EXCEPT !.fullscreen = FALSE]

\* Mutant: only a tile that replaces another one is freed.
CancelTileOfTiled(r) ==
    IF Tiling(r) /\ Tiled(r) THEN [r EXCEPT !.pending = Nowhere] ELSE r

CancelTile(r) == IF Tiling(r) THEN [r EXCEPT !.pending = Nowhere] ELSE r

Detach(r) == IF Attached(r) THEN [r EXCEPT !.tile = Loose] ELSE r
-----------------------------------------------------------------------------
(* An operation takes effect.                                              *)

\* commit_pending_operation(): the view is also shown on a sheet that is.
Present(r) == Refresh([r EXCEPT !.hidden = @ /\ ~Shown(r.place)])

CommitReset(r) ==
    Present([Fail(Unshadow(r), Attached(r)) EXCEPT
        !.tile = Nowhere, !.maximized = "no"])

CommitTile(r) ==
    Refresh([Fail(Unshadow(r), r.pending = Nowhere \/ r.tile = Loose) EXCEPT
        !.maximized = "no", !.tile = r.pending, !.pending = Nowhere])

CommitUnmaximize(r) == Present([Unshadow(r) EXCEPT !.maximized = "no"])

\* commit_{full,vertical,horizontal}_maximize()
CommitMaximize(r) ==
    Present([Fail(r, {r.op, r.maximized} = {"vertical", "horizontal"}) EXCEPT
        !.maximized = r.op])

CommitFullscreen(r) == Present([r EXCEPT !.fullscreen = TRUE])

\* hikari_view_commit_pending_operation()
Commit(r) ==
    [CASE r.op = "resize"     -> Present(r)
       [] r.op = "reset"      -> CommitReset(r)
       [] r.op = "tile"       -> CommitTile(r)
       [] r.op = "unmaximize" -> CommitUnmaximize(r)
       [] r.op = "fullscreen" -> CommitFullscreen(r)
       [] OTHER               -> CommitMaximize(r)  EXCEPT !.op = "none"]
-----------------------------------------------------------------------------
(* An operation is queued.  resize() always leaves a mapped view dirty:    *)
(* only an uninitialised surface answers at once.                          *)

Queue(r, kind) == [r EXCEPT !.op = kind]

QueueShown(r, kind) == Queue(Fail(r, r.hidden), kind)

\* Mutant: the tile stays in its layout until the client answers.
QueueResetAttached(r, fits) ==
    LET q == Queue(CancelTile(r), "reset")
    IN  IF fits THEN Commit(Detach(q)) ELSE q

\* queue_reset(); fits: the view has its own size already.
QueueReset(r, fits) ==
    LET q == Queue(Detach(CancelTile(r)), "reset")
    IN  IF fits THEN Commit(q) ELSE q

\* queue_tile(), for the layout of place p.
QueueTile(r, p, fits) ==
    LET q == Queue([Fail(r, ~Tileable(r)) EXCEPT !.pending = p], "tile")
    IN  IF fits THEN Commit(q) ELSE q

ToggleFull(r) ==
    IF Dirty(r) THEN r
    ELSE QueueShown(r, IF r.maximized = "full" THEN "unmaximize" ELSE "full")

\* hikari_view_toggle_vertical_maximize() and its twin, which differ in the
\* axis and in the test of dirty, see ToggleAxis.
QueueAxis(r, axis) ==
    LET other == IF axis = "vertical" THEN "horizontal" ELSE "vertical"
    IN  QueueShown(Unshadow(r), CASE r.maximized = "no"   -> axis
                                  [] r.maximized = "full" -> other
                                  [] r.maximized = axis   -> "unmaximize"
                                  [] OTHER                -> "full")

\* queue_unfullscreen()
QueueUnfullscreen(r) ==
    QueueShown(Unshadow(r), IF r.maximized = "no" THEN "resize" ELSE r.maximized)

\* Mutant: a hidden view is not spared.
SetFullscreenHidden(r, on) ==
    IF ~r.mapped \/ Dirty(r) \/ on = r.fullscreen THEN r
    ELSE IF on THEN QueueShown(r, "fullscreen") ELSE QueueUnfullscreen(r)

\* Mutant: an operation in flight is not looked for.
SetFullscreenDirty(r, on) ==
    IF ~r.mapped \/ r.hidden \/ on = r.fullscreen THEN r
    ELSE IF on THEN QueueShown(r, "fullscreen") ELSE QueueUnfullscreen(r)

\* hikari_view_request_fullscreen()
SetFullscreen(r, on) ==
    IF ~r.mapped \/ r.hidden \/ Dirty(r) \/ on = r.fullscreen THEN r
    ELSE IF on THEN QueueShown(r, "fullscreen") ELSE QueueUnfullscreen(r)
-----------------------------------------------------------------------------
(* What the client asked for (xdg_view.c): applied, or parked until the    *)
(* operation in flight is done.                                            *)

Word(on) == IF on THEN "on" ELSE "off"

Park(r, what, word) == [r EXCEPT !.parked[what] = word]

\* apply_requested_fullscreen()
ApplyFullscreen(r, on) ==
    LET s == SetFullscreen(r, on)
    IN  Park(s, "fullscreen", IF s.mapped /\ on # s.fullscreen THEN Word(on) ELSE "no")

\* apply_requested_maximized(); a request that is met leaves what is parked.
ApplyMaximized(r, on) ==
    LET differs == r.mapped /\ on # (r.maximized = "full")
        still   == IF r.parked["maximized"] = "no" THEN "no" ELSE Word(on)
    IN  IF r.fullscreen THEN Park(r, "maximized", Word(on))
        ELSE IF ~differs THEN Park(r, "maximized", still)
        ELSE IF r.hidden \/ Dirty(r) THEN Park(r, "maximized", Word(on))
        ELSE Park(ToggleFull(r), "maximized", "no")

Apply(r, what, on) ==
    IF what = "fullscreen" THEN ApplyFullscreen(r, on) ELSE ApplyMaximized(r, on)

Unpark(r, what) ==
    IF what \notin Asks \/ Dirty(r) THEN r
    ELSE IF r.parked[what] = "no" THEN r
    ELSE Apply(Park(r, what, "no"), what, r.parked[what] = "on")

\* Mutant: the other order.
DrainMaximizedFirst(r) == Unpark(Unpark(r, "maximized"), "fullscreen")

\* drain_pending_state()
DrainPending(r) == Unpark(Unpark(r, "fullscreen"), "maximized")
-----------------------------------------------------------------------------
(* A sheet is laid out.                                                    *)

On(w, p) == {v \in Views : w[v].mapped /\ w[v].place = p}

Unhide(w, vs) == [v \in Views |-> IF v \in vs THEN [w[v] EXCEPT !.hidden = FALSE]
                                  ELSE w[v]]

\* hikari_sheet_apply_split(): the views of take get a tile, those of fit at
\* once; nothing happens while a view of the layout waits for its answer.
ApplySplit(w, p, take, fit) ==
    IF \E v \in TiledAt(w, p) : Dirty(w[v]) THEN w
    ELSE LET wanted == {v \in On(w, p) : w[v].flags = {}}
             s      == Unhide(w, wanted)
         IN  [v \in Views |->
                IF v \in take /\ v \in wanted /\ ~Dirty(w[v])
                THEN QueueTile(s[v], p, v \in fit) ELSE s[v]]

\* view_is_prependable(), of the views on a sheet.
Prependable(w, p) == {v \in On(w, p) : ~Tiled(w[v]) /\ Tileable(w[v])}

\* hikari_view_raise() takes no hidden view; the order itself is left out.
Raise(w, vs) == [v \in Views |-> IF v \in vs THEN Fail(w[v], w[v].hidden) ELSE w[v]]

\* hikari_layout_restack_{append,prepend}(): the views of the layout are shown, raise_prependable()
\* raises those without a tile.
Restack(w, p, insert, take, fit) ==
    LET shown == Unhide(w, TiledAt(w, p))
        up    == IF insert = "prepend" THEN Raise(shown, Prependable(shown, p)) ELSE shown
    IN  ApplySplit(up, p, take, fit)

Inserts == {"append", "prepend"}

\* An automatic re-tile shows the views without a tile only after it has raised them.
MayRestack(w, p, insert) ==
    \/ insert = "append" \/ "raise" \in Races
    \/ \A v \in Prependable(w, p) : ~w[v].hidden

\* reflow(): an existing layout is extended.
Extend(w, p, insert, take, fit) ==
    IF p \in layouts THEN Restack(w, p, insert, take, fit) ELSE ApplySplit(w, p, take, fit)

\* Mutant: what is hidden on the sheet stays so.
DisplaySheetHidden(w, p) ==
    [v \in Views |->
        IF w[v].mapped /\ w[v].place.out = p.out /\ w[v].place.nr \notin {p.nr, 0}
        THEN [w[v] EXCEPT !.hidden = TRUE] ELSE w[v]]

\* display_sheet()
DisplaySheet(w, p) ==
    [v \in Views |->
        IF ~w[v].mapped \/ w[v].place.out # p.out THEN w[v]
        ELSE IF w[v].place.nr \notin {p.nr, 0} THEN [w[v] EXCEPT !.hidden = TRUE]
        ELSE [w[v] EXCEPT !.hidden = @ /\ "invisible" \in w[v].flags]]

\* sheet_is_settling()
Settling(p) ==
    \E v \in On(view, p) : Dirty(view[v]) /\ view[v].flags = {}

\* hikari_reflow_schedule() of the sheets ps and, if an operation took effect,
\* hikari_reflow_settle().
Reflow(ps, settles) ==
    /\ queued' = queued \cup ps
    /\ armed' = (armed \/ (/\ ~moving
                           /\ \/ ~(ps \subseteq queued)
                              \/ settles /\ queued' # {}))

Becomes(w) == view' = w /\ layouts' = layouts \ Vacated(w)

Changes(v, r) == Becomes([view EXCEPT ![v] = r])
-----------------------------------------------------------------------------
(* The client.                                                             *)

\* map_handler(): first_map() gives an unmanaged view its sheet and flags, and
\* what the client asked for before is applied.
Map(v) ==
    LET r == view[v] IN
    /\ ~r.mapped
    /\ \E p \in IF r.place = Nowhere THEN {q \in Place : q.out \in outputs}
                ELSE {r.place},
          flags \in IF r.place = Nowhere THEN SUBSET ({"floating", "invisible"} \cap Keys)
                    ELSE {r.flags},
          asked \in SUBSET Asks :
        LET m == [r EXCEPT !.mapped = TRUE, !.hidden = FALSE, !.place = p, !.flags = flags]
            a == IF "fullscreen" \in asked THEN ApplyFullscreen(m, TRUE) ELSE m
        IN  /\ Changes(v, IF ("maximized" \in asked) # (a.maximized = "full")
                          THEN ApplyMaximized(a, "maximized" \in asked) ELSE a)
            /\ Reflow({p}, FALSE)
    /\ UNCHANGED <<displayed, outputs, moving>>

\* Mutant: current_geometry is left pointing into the tile.
UnmappedStale(r) ==
    LET u == [CancelTile(Unshadow(r)) EXCEPT !.mapped = FALSE, !.hidden = TRUE,
                                             !.op = "none"]
    IN  IF Tiled(u) THEN [u EXCEPT !.tile = Nowhere] ELSE u

\* hikari_view_unmap()
Unmapped(r) ==
    LET u == [CancelTile(Unshadow(r)) EXCEPT !.mapped = FALSE, !.hidden = TRUE,
                                             !.op = "none"]
    IN  IF Tiled(u) THEN Refresh([u EXCEPT !.tile = Nowhere]) ELSE u

\* Mutant: no hikari_reflow_settle() for the operation that died.
ClosesUnsettled(v) == Reflow(IF OnClose THEN {view[v].place} ELSE {}, FALSE)

Closes(v) == Reflow(IF OnClose THEN {view[v].place} ELSE {}, TRUE)

Unmap(v) ==
    /\ view[v].mapped
    /\ Changes(v, Unmapped(view[v]))
    /\ Closes(v)
    /\ UNCHANGED <<displayed, outputs, moving>>

\* destroy_handler()
Destroy(v) ==
    /\ view[v] # Unmanaged
    /\ Changes(v, Unmanaged)
    /\ IF view[v].mapped THEN Closes(v) ELSE UNCHANGED <<queued, armed>>
    /\ UNCHANGED <<displayed, outputs, moving>>

\* commit_handler() with the serial of the pending operation.
Answer(v) ==
    /\ view[v].mapped /\ Dirty(view[v])
    /\ Changes(v, DrainPending(Commit(view[v])))
    /\ Reflow({}, TRUE)
    /\ UNCHANGED <<displayed, outputs, moving>>

\* commit_handler() without: the view adopts the size the client took.
Adopt(v) ==
    /\ view[v].mapped /\ ~view[v].fullscreen
    /\ Changes(v, Refresh(view[v]))
    /\ UNCHANGED <<displayed, outputs, queued, armed, moving>>

Quietly == UNCHANGED <<displayed, outputs, queued, armed, moving>>

\* request_fullscreen_handler() and request_maximize_handler() of the client.
Request(v, what) ==
    /\ view[v].mapped
    /\ \E on \in BOOLEAN : Changes(v, Apply(view[v], what, on))
    /\ Quietly

\* The same two requests of a panel or a dock (foreign_toplevel.c).
PanelFullscreen(v) ==
    /\ view[v].mapped /\ "fullscreen" \in Asks
    /\ \E on \in BOOLEAN : Changes(v, SetFullscreen(view[v], on))
    /\ Quietly
-----------------------------------------------------------------------------
(* The user.                                                               *)

\* A key, or a panel's maximize request.
Maximize(v) ==
    /\ Visible(v) /\ "full" \in Keys
    /\ Changes(v, ToggleFull(view[v]))
    /\ Quietly

ToggleAxis(v, axis) ==
    /\ Visible(v) /\ axis \in Keys
    /\ Dirty(view[v]) => axis = "horizontal" /\ "overwrite" \in Races
    /\ Changes(v, QueueAxis(view[v], axis))
    /\ Quietly

\* queue_resize()
Resize(v) ==
    /\ Visible(v) /\ "resize" \in Keys
    /\ ~Dirty(view[v]) /\ ~view[v].fullscreen /\ view[v].maximized # "full"
    /\ Changes(v, Queue(view[v], "resize"))
    /\ Quietly

\* The reset that an untiled view is spared.
Untile(r, fits) == IF Tiled(r) THEN QueueReset(r, fits) ELSE r

FirstTiling(r) == Tiling(r) /\ ~Tiled(r)

\* hikari_view_toggle_floating() and hikari_view_toggle_invisible()
ToggleFlag(v, flag) ==
    /\ Visible(v) /\ flag \in Keys
    /\ FirstTiling(view[v]) => "toggle" \in Races
    /\ \E fits \in BOOLEAN :
        LET r == view[v] IN
        IF flag \in r.flags
        THEN Changes(v, [r EXCEPT !.flags = @ \ {flag}]) /\ Reflow({}, FALSE)
        ELSE /\ Changes(v, [Untile(r, fits) EXCEPT !.flags = @ \cup {flag}])
             /\ Reflow({}, fits /\ Tiled(r))
    /\ UNCHANGED <<displayed, outputs, moving>>

\* hikari_view_reset_geometry()
ResetGeometry(v) ==
    /\ Visible(v)
    /\ \E fits \in BOOLEAN :
        Changes(v, QueueReset(view[v], fits)) /\ Reflow({}, fits)
    /\ UNCHANGED <<displayed, outputs, moving>>

\* hikari_view_pin_to_sheet()
Pinned(r, p, fits) ==
    LET s == [r EXCEPT !.place = p, !.hidden = ~Shown(p)]
    IN  IF p = r.place THEN s ELSE Untile(s, fits)

Pin(v, n) ==
    /\ Visible(v)
    /\ FirstTiling(view[v]) => "pin" \in Races
    /\ \E fits \in BOOLEAN :
        LET r == view[v]
            p == [r.place EXCEPT !.nr = n]
        IN  Changes(v, Pinned(r, p, fits)) /\ Reflow({}, fits /\ Tiled(r) /\ p # r.place)
    /\ UNCHANGED <<displayed, outputs, moving>>

\* Mutant: nobody looks for an operation in flight.
ExchangeDirty(v, w) ==
    /\ v # w /\ Visible(v) /\ Visible(w)
    /\ Attached(view[v]) /\ view[w].tile = view[v].tile
    /\ \E fit \in SUBSET {v, w} :
        LET p == view[v].tile IN
        /\ Becomes([view EXCEPT ![v] = QueueTile(@, p, v \in fit),
                                ![w] = QueueTile(@, p, w \in fit)])
        /\ Reflow({}, fit # {})
    /\ UNCHANGED <<displayed, outputs, moving>>

\* hikari_view_exchange(), called through workspace.c.
Exchange(v, w) ==
    /\ v # w /\ Visible(v) /\ Visible(w)
    /\ ~Dirty(view[v]) /\ ~Dirty(view[w])
    /\ Attached(view[v]) /\ view[w].tile = view[v].tile
    /\ \E fit \in SUBSET {v, w} :
        LET p == view[v].tile IN
        /\ Becomes([view EXCEPT ![v] = QueueTile(@, p, v \in fit),
                                ![w] = QueueTile(@, p, w \in fit)])
        /\ Reflow({}, fit # {})
    /\ UNCHANGED <<displayed, outputs, moving>>

\* hikari_layout_reset() of the displayed sheet.
ResetLayout(o) ==
    LET p == [out |-> o, nr |-> displayed[o]]
        reset == {v \in On(view, p) : Tiled(view[v])}
    IN  /\ o \in outputs /\ p \in layouts
        /\ \E fit \in SUBSET reset :
            /\ Becomes([v \in Views |-> IF v \in reset THEN QueueReset(view[v], v \in fit)
                                        ELSE view[v]])
            /\ Reflow({}, fit # {})
        /\ UNCHANGED <<displayed, outputs, moving>>

\* hikari_workspace_apply_split() raises the focused view of the sheet, which must then be the
\* first that can be tiled.  It is not if it was on top of the screen already, which is not looked
\* at, and a view above it on the sheet is hidden; which one is above is a choice.
FocusRaised(p) ==
    LET others == {v \in On(view, p) : Tileable(view[v]) /\ view[v].hidden}
        below  == {v \in On(view, p) : /\ Visible(v) /\ Tileable(view[v])
                                      /\ others # {} /\ "below" \in Races}
    IN  {view} \cup {[view EXCEPT ![v] = Fail(@, TRUE)] : v \in below}

\* hikari_workspace_apply_split(), and the two restack keys.
LayOut(o) ==
    LET p == [out |-> o, nr |-> displayed[o]]
        shown == DisplaySheet(view, p)
    IN  /\ o \in outputs /\ ~moving
        /\ \E take \in SUBSET Views : \E fit \in SUBSET take :
            /\ \/ /\ \E w \in FocusRaised(p) : view' = ApplySplit(DisplaySheet(w, p), p, take, fit)
                  /\ Reflow({p}, fit # {})
               \/ /\ p \in layouts
                  /\ \E insert \in Inserts : view' = Restack(shown, p, insert, take, fit)
                  /\ Reflow({p}, fit # {})
               \/ p \notin layouts /\ view' = ApplySplit(view, p, take, fit) /\ Reflow({}, fit # {})
            /\ layouts' = (layouts \ Vacated(view')) \cup {p}
        /\ UNCHANGED <<displayed, outputs, moving>>

\* hikari_view_migrate() to the displayed sheet of another output.
Migrate(v, o) ==
    LET r == view[v]
        p == [out |-> o, nr |-> displayed[o]]
    IN  /\ Visible(v) /\ o \in outputs \ {r.place.out}
        /\ \E fits \in BOOLEAN :
            Changes(v, [QueueReset([r EXCEPT !.place = p], fits) EXCEPT !.hidden = FALSE])
        /\ Reflow({p} \cup (IF OnClose THEN {r.place} ELSE {}), TRUE)
        /\ UNCHANGED <<displayed, outputs, moving>>

Hide(v) ==
    /\ Visible(v)
    /\ Changes(v, [view[v] EXCEPT !.hidden = TRUE])
    /\ Quietly

\* The commands that show views: by mark, by group, all of them.
Show(v) ==
    /\ view[v].mapped /\ view[v].hidden
    /\ Changes(v, [view[v] EXCEPT !.hidden = FALSE])
    /\ Quietly

SwitchSheet(o, n) ==
    /\ o \in outputs
    /\ displayed' = [displayed EXCEPT ![o] = n]
    /\ Becomes(DisplaySheet(view, [out |-> o, nr |-> n]))
    /\ Reflow({[out |-> o, nr |-> n]}, FALSE)
    /\ UNCHANGED <<outputs, moving>>

\* hikari_move_mode_enter()
StartMove ==
    /\ ~moving /\ \E v \in Views : Visible(v)
    /\ moving' = TRUE
    /\ UNCHANGED <<view, displayed, outputs, layouts, queued, armed>>

\* hikari_server_enter_normal_mode()
EndMove ==
    /\ moving
    /\ moving' = FALSE
    /\ armed' = (armed \/ queued # {})
    /\ UNCHANGED <<view, displayed, outputs, layouts, queued>>
-----------------------------------------------------------------------------
(* The monitors and the event loop.                                        *)

\* hikari_view_evacuate()
Evacuated(r, p, fits) ==
    LET s == [Unshadow(r) EXCEPT !.place = p, !.hidden = @ \/ ~Shown(p)]
    IN  IF Tiled(s) \/ s.maximized # "no" THEN QueueReset(s, fits) ELSE s

\* hikari_output_fini(): hikari_workspace_merge(), hikari_workspace_fini().
Unplug(o) ==
    LET leaving == {v \in Views : view[v].place.out = o}
        its     == {p \in Place : p.out = o}
    IN  /\ o \in outputs
        /\ \A v \in leaving : view[v].mapped   \* see Visibility, Races
        /\ \A v \in leaving : FirstTiling(view[v]) /\ view[v].maximized = "no"
                                => "unplug" \in Races
        /\ \E into \in outputs \ {o}, fit \in SUBSET leaving :
            view' = [v \in Views |->
                IF v \in leaving
                THEN Evacuated(view[v], [view[v].place EXCEPT !.out = into], v \in fit)
                ELSE view[v]]
        /\ layouts' = layouts \ (Vacated(view') \cup its)
        /\ outputs' = outputs \ {o}
        /\ displayed' = [displayed EXCEPT ![o] = 1]
        /\ queued' = queued \ its
        /\ armed' \in IF queued = {} THEN {armed} ELSE {armed, ~moving \/ armed}
        /\ UNCHANGED moving

Plug(o) ==
    /\ o \notin outputs
    /\ outputs' = outputs \cup {o}
    /\ UNCHANGED <<view, displayed, layouts, queued, armed, moving>>

\* The usable area changes: a panel comes or goes, the bar, the mode.
Reserve(o) ==
    /\ o \in outputs
    /\ Reflow({[out |-> o, nr |-> displayed[o]]}, FALSE)
    /\ UNCHANGED <<view, displayed, outputs, layouts, moving>>

\* drain(): what is not on the screen is dropped, what settles is kept.  The policy, and its
\* on-insert, is that of the last reload.
Drain ==
    LET stays == {p \in queued : Shown(p) /\ Settling(p)}
        ready == {p \in queued : Shown(p)} \ stays
    IN  /\ armed
        /\ IF moving
           THEN armed' = FALSE /\ UNCHANGED <<view, layouts, queued>>
           ELSE \E named \in SUBSET (ready \ layouts), take \in SUBSET Views, insert \in Inserts :
                \E fit \in SUBSET take :
                    /\ \A p \in ready \cap layouts : MayRestack(view, p, insert)
                    /\ view' = [v \in Views |->
                            IF view[v].place \in (ready \cap layouts) \cup named
                            THEN Extend(view, view[v].place, insert, take, fit)[v]
                            ELSE view[v]]
                    /\ layouts' = (layouts \ Vacated(view')) \cup named
                    /\ queued' = stays
                    /\ armed' \in IF fit # {} /\ Cardinality(queued) > 1 THEN BOOLEAN
                                  ELSE {FALSE}
        /\ UNCHANGED <<displayed, outputs, moving>>
-----------------------------------------------------------------------------
Client(v) ==
    \/ Map(v) \/ Unmap(v) \/ Destroy(v) \/ Answer(v) \/ Adopt(v)
    \/ PanelFullscreen(v)
    \/ \E what \in Asks : Request(v, what)

User(v) ==
    \/ Maximize(v) \/ Resize(v) \/ ResetGeometry(v)
    \/ Hide(v) \/ Show(v)
    \/ \E axis \in {"vertical", "horizontal"} : ToggleAxis(v, axis)
    \/ \E flag \in {"floating", "invisible"} : ToggleFlag(v, flag)
    \/ \E n \in Sheets : Pin(v, n)
    \/ \E w \in Views : Exchange(v, w)
    \/ \E o \in Outputs : Migrate(v, o)

Desk(o) ==
    \/ ResetLayout(o) \/ LayOut(o) \/ Unplug(o) \/ Plug(o) \/ Reserve(o)
    \/ \E n \in Sheets : SwitchSheet(o, n)

Next ==
    \/ \E v \in Views : Client(v) \/ User(v)
    \/ \E o \in Outputs : Desk(o)
    \/ StartMove \/ EndMove \/ Drain

Spec == Init /\ [][Next]_vars
-----------------------------------------------------------------------------
(* Properties.                                                             *)

\* A tile in the layout of a sheet belongs to a window on that sheet that is
\* neither floating nor invisible, and the sheet still has that layout, on a
\* monitor that is still there; a detached tile waits for the reset that
\* frees it.  view->pending_operation.tile is a tile exactly while the view waits
\* to be tiled, so that cancel_tile() frees each tile that commit_tile() never takes.
TilesHome ==
    \A v \in Views :
        LET r == view[v] IN
        /\ \A p \in {r.tile, r.pending} \cap Place :
            /\ r.mapped /\ r.place = p /\ r.flags = {}
            /\ p \in layouts /\ p.out \in outputs
        /\ r.tile = Loose => r.op = "reset"
        /\ r.pending # Nowhere <=> Tiling(r)

\* view->current_geometry never points into a tile or a maximized state that
\* has been freed.
GeometryIsLive ==
    \A v \in Views :
        /\ view[v].current = "tile" => Tiled(view[v])
        /\ view[v].current = "maximized" => view[v].maximized # "no"

\* The state is well-formed, no freed box is read, and no assert() fails of the queue and
\* commit functions, and of those that raise what a layout takes in (layout.c, workspace.c).
AssertionsHold == TypeOK /\ GeometryIsLive /\ \A v \in Views : ~view[v].fault

\* A sheet that waits to be tiled again has something that will wake it: the
\* idle source, the end of a drag, or a view whose operation has to end.
NoLostReflow ==
    queued # {} => armed \/ moving \/ \E v \in Views : Dirty(view[v])

\* An operation the client has not answered gives way to a reset only.
SlotIsKept ==
    [][\A v \in Views :
        Dirty(view[v]) /\ view'[v].op \notin {view[v].op, "none", "reset"}
            => Answer(v)]_vars

\* When the client answers, a fullscreen request that was parked is carried
\* out, or is what the client is asked for next.
ParkedIsApplied ==
    [][\A v \in Views :
        Answer(v) /\ view[v].parked["fullscreen"] # "no" /\ ~view'[v].hidden
            => \/ Word(view'[v].fullscreen) = view[v].parked["fullscreen"]
               \/ view'[v].op = "fullscreen"]_vars
=============================================================================
