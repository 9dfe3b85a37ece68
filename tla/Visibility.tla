----------------------------- MODULE Visibility -----------------------------
(***************************************************************************)
(* Which views are on the screen, and which one has the focus              *)
(* (src/src/view.c, workspace.c, sheet.c, server.c, output.c, lock_mode.c  *)
(* and the modes).                                                         *)
(*                                                                         *)
(* hikari is one thread, so a handler is one action; what interleaves is   *)
(* the user, the clients (map, unmap, commit, activation), the monitors    *)
(* and the screen locker.  Left open here, as a choice the action makes:   *)
(* which views are flagged invisible and which share a group, what the     *)
(* pointer is over when hikari_server_cursor_focus() asks, whether a view  *)
(* has an operation pending, and the stacking order.                       *)
(***************************************************************************)
EXTENDS Integers, FiniteSets

CONSTANTS Views,     \* the windows of the clients
          Outputs,   \* the monitors; each has one workspace, named alike
          Noop,      \* the workspace of the headless fallback output
          None,      \* the NULL of focus_view and of view->sheet
          Sheets,    \* the sheet numbers of a workspace; 0 is always shown
          Races      \* the moves let happen that are known to break a property

ASSUME NameAssumption ==
    Noop \notin Outputs /\ None \notin Outputs \cup Views \cup {Noop}
ASSUME SheetAssumption == Sheets \subseteq Nat /\ {0, 1} \subseteq Sheets
ASSUME RaceAssumption ==
    Races \subseteq {"activate",   \* xdg-activation outside the normal mode
                     "quit",       \* a remembered view quits while locked
                     "modal",      \* a modal mode ends over another output
                     "layer",      \* a panel beside a remembered view focuses
                     "plug",       \* the first monitor outside the normal mode
                     "blind",      \* the screen unlocks without a monitor
                     "withdrawn",  \* a monitor goes while a view of its is unmapped
                     "off"}        \* the last monitor shown is switched off

VARIABLES
    \* a view
    mapped,     \* the views with a surface
    place,      \* view->sheet: its workspace and number
    public,     \* the flags of the same names
    hidden,
    forced,
    linked,     \* the workspace whose views list holds the view, or None; the
                \* server's and the group's lists of visible views move with it
    lit,        \* the views whose scene node is enabled
    onLock,     \* the views whose scene node is in the lock layer
    \* a workspace
    displayed,  \* workspace->sheet
    focus,      \* workspace->focus_view
    layered,    \* the workspaces whose focus_layer is set
    \* the server
    current,    \* hikari_server.workspace
    mode,       \* the normal mode, the lock mode, or one of the modal ones
    outputs,    \* hikari_server.outputs
    wanted,     \* those with wants_enabled: the layout
    failed,     \* an assert() of the code has failed, which ends the program
    shown       \* history: what an unlock owes each view, see UnlockRestores

flagVars   == <<public, hidden, forced, lit, onLock>>
viewVars   == <<mapped, place, linked, flagVars>>
seatVars   == <<focus, layered, current, mode, failed>>
outputVars == <<outputs, wanted>>
vars == <<viewVars, displayed, seatVars, outputVars, shown>>

Workspaces == Outputs \cup {Noop}
Place      == [ws : Workspaces, nr : Sheets]
Nowhere    == [ws |-> None, nr |-> 0]

TypeOK ==
    /\ mapped \subseteq Views
    /\ place \in [Views -> Place \cup {Nowhere}]
    /\ public \subseteq Views
    /\ hidden \subseteq Views
    /\ forced \subseteq Views
    /\ linked \in [Views -> Workspaces \cup {None}]
    /\ lit \subseteq Views
    /\ onLock \subseteq Views
    /\ displayed \in [Workspaces -> Sheets]
    /\ focus \in [Workspaces -> Views \cup {None}]
    /\ layered \subseteq Workspaces
    /\ current \in Workspaces
    /\ mode \in {"normal", "modal", "lock"}
    /\ outputs \subseteq Outputs
    /\ wanted \subseteq outputs
    /\ failed \in BOOLEAN
    /\ shown \in [Views -> {"shown", "hidden", "either"}]

Init ==
    /\ mapped = {}
    /\ place = [v \in Views |-> Nowhere]
    /\ public = {}
    /\ hidden = Views
    /\ forced = {}
    /\ linked = [v \in Views |-> None]
    /\ lit = Views
    /\ onLock = {}
    /\ displayed = [w \in Workspaces |-> 1]
    /\ focus = [w \in Workspaces |-> None]
    /\ layered = {}
    /\ current = Noop
    /\ mode = "normal"
    /\ outputs = {}
    /\ wanted = {}
    /\ failed = FALSE
    /\ shown = [v \in Views |-> "either"]
-----------------------------------------------------------------------------
(* Focus.  A handler may move it several times, so the steps below take a  *)
(* seat, the variables focus moves, to the seats that may come after it.   *)
(* A scene is what they read of the views, before or after the handler's   *)
(* own changes.                                                            *)

Seat == [focus |-> focus, layered |-> layered, current |-> current,
         mode |-> mode, failed |-> failed]

SeatBecomes(s) ==
    /\ focus' = s.focus
    /\ layered' = s.layered
    /\ current' = s.current
    /\ mode' = s.mode
    /\ failed' = s.failed

Before == [linked |-> linked, hidden |-> hidden, place |-> place,
           displayed |-> displayed]
After  == Before'

Fail(s, wrong) == [s EXCEPT !.failed = @ \/ wrong]

\* hikari_workspace_focus_view(), with its two assertions.
FocusView(s, w, v, scene) ==
    [Fail(s, s.mode # "normal" \/ v \in scene.hidden) EXCEPT
        !.current = w, !.focus[w] = v, !.layered = @ \ {w}]

Unfocus(s, scene) == FocusView(s, s.current, None, scene)

\* Mutant: the panel takes the keyboard and the view keeps the focus.
FocusLayerBeside(s, w, scene) ==
    [s EXCEPT !.layered = (@ \ {s.current}) \cup {w}, !.current = w]

\* The focus() of a panel on output w that takes the keyboard.
FocusLayer(s, w, scene) ==
    LET left == IF s.focus[s.current] = None
                THEN [s EXCEPT !.layered = @ \ {s.current}]
                ELSE Unfocus(s, scene)
    IN  [left EXCEPT !.layered = @ \cup {w}, !.current = w]

\* Known: the panel's own workspace keeps the view it remembers.
LayerMayFocus(s, w) ==
    "layer" \in Races \/ w = s.current \/ s.focus[w] = None

\* hikari_workspace_first_view(): the view remembered, or one of the displayed
\* sheet.
FirstView(s, w, scene) ==
    LET top == {v \in Views \ scene.hidden :
                   scene.place[v] = [ws |-> w, nr |-> scene.displayed[w]]}
    IN  IF s.focus[w] # None THEN {s.focus[w]}
        ELSE IF top = {} THEN {None} ELSE top

\* hikari_server_cursor_focus() and every motion of the pointer: the normal
\* mode's cursor_move().  Of the others' only the move mode's does anything, and
\* that is Migrate.
CursorFocus(s, scene) ==
    IF s.mode # "normal" THEN {s}
    ELSE {s}
         \cup {FocusView(s, scene.linked[v], v, scene) :
                  v \in {u \in Views : scene.linked[u] \in wanted}}
         \cup (UNION {{FocusView(s, w, v, scene) : v \in FirstView(s, w, scene)} :
                         w \in wanted \ {s.current}})
         \cup {FocusLayer(s, w, scene) : w \in {u \in wanted : LayerMayFocus(s, u)}}

\* hikari_server_enter_normal_mode().
EnterNormal(s, scene) == CursorFocus([s EXCEPT !.mode = "normal"], scene)

\* Mutant: only the focus of the current workspace is cleared.
ClearFocusHere(s, views) ==
    IF s.focus[s.current] \notin views THEN {s}
    ELSE {Unfocus([s EXCEPT !.mode = "normal"], Before)}

\* clear_focus() of one view after the other.  A view that has the focus in a
\* modal mode first leaves that mode, which may move the focus elsewhere.
ClearFocus(s, views) ==
    LET rest(t, vs) ==
            [t EXCEPT !.focus = [w \in Workspaces |->
                IF @[w] \in vs /\ place[@[w]].ws = w THEN None ELSE @[w]]]
        v == s.focus[s.current]
    IN  IF v \notin views \/ place[v].ws # s.current THEN {rest(s, views)}
        ELSE IF s.mode = "modal"
        THEN {rest(Unfocus(t, Before), views \ {v}) :
                 t \in {u \in EnterNormal(s, Before) :
                           "modal" \in Races \/ u.current = s.current}}
        ELSE {rest(Fail(Unfocus(s, Before), s.mode = "lock"), views)}
-----------------------------------------------------------------------------
(* Showing and hiding.                                                     *)

Ws(v) == place[v].ws

OnWorkspace(w) == {v \in mapped : Ws(v) = w}

LinkedIn(w) == {v \in mapped : linked[v] = w}

\* hikari_sheet_is_visible().
Visible(p, shows) == p.nr \in {0, shows[p.ws]}

\* A scene without the views in gone.
Without(scene, gone) ==
    [scene EXCEPT !.hidden = @ \cup gone,
                  !.linked = [v \in Views |-> IF v \in gone THEN None ELSE @[v]]]

\* Mutant: the flag changes, the lists do not.
ExchangeFlags(gone, come) ==
    /\ hidden' = (hidden \cup gone) \ come
    /\ lit' = (lit \ gone) \cup come
    /\ UNCHANGED <<linked, forced>>

\* hikari_view_hide() of gone and then hikari_view_show() of come: flags, lists
\* and scene nodes.
Exchange(gone, come) ==
    /\ hidden' = (hidden \cup gone) \ come
    /\ linked' = [v \in Views |-> IF v \in come THEN place'[v].ws
                                  ELSE IF v \in gone THEN None ELSE linked[v]]
    /\ lit' = (lit \ gone) \cup come
    /\ UNCHANGED forced

\* Mutant: while locked every view goes to the lock layer.
LayerOfAll(v, flagged) == IF mode = "lock" THEN onLock \cup {v} ELSE onLock \ {v}

\* refresh_scene_layer(): the layer follows the mode and the public flag.
RefreshLayer(v, flagged) ==
    IF mode = "lock" /\ v \in flagged THEN onLock \cup {v} ELSE onLock \ {v}

\* The assertions hikari_view_hide() and hikari_view_show() start with.
Misused(gone, come) ==
    \/ gone \cap (hidden \cup forced) # {}
    \/ come \cap forced # {}
    \/ ~(come \subseteq hidden \cup gone)

\* The seats after gone have been hidden and come shown, when the handler ends
\* by asking what the pointer is over.
SeatsAfter(s, gone, come) ==
    UNION {CursorFocus(Fail(t, Misused(gone, come)), After) : t \in ClearFocus(s, gone)}

\* A user's or a client's handler that hides some views, shows others and
\* changes nothing else of them.
Rearrange(gone, come) ==
    /\ Exchange(gone, come)
    /\ UNCHANGED <<mapped, public, onLock, outputVars, shown>>
-----------------------------------------------------------------------------
(* Clients.                                                                *)

\* What an unlock owes a view is settled when the view changes while locked.
Touched(views) == [v \in Views |-> IF v \in views THEN "either" ELSE shown[v]]

\* first_map() and hikari_view_configure(): a sheet of the current workspace.
Configured(v) ==
    \/ /\ place[v] # Nowhere
       /\ UNCHANGED <<place, public>>
    \/ /\ place[v] = Nowhere
       /\ \E nr \in Sheets : place' = [place EXCEPT ![v] = [ws |-> current, nr |-> nr]]
       /\ public' \in {public, public \cup {v}}

\* hikari_view_map(): shown at once, whatever its sheet; a private view that
\* maps while locked is what the lock would have made of it.
Map(v) ==
    /\ v \notin mapped
    /\ Configured(v)
    /\ mapped' = mapped \cup {v}
    /\ onLock' = RefreshLayer(v, public')
    /\ UNCHANGED <<displayed, outputVars>>
    /\ IF mode = "lock" /\ v \notin public'
       THEN /\ forced' = forced \cup {v}
            /\ linked' = [linked EXCEPT ![v] = place'[v].ws]
            /\ UNCHANGED <<hidden, lit, seatVars>>
       ELSE /\ Exchange({}, {v})
            /\ \E s \in SeatsAfter(Seat, {}, {v}) : SeatBecomes(s)
    /\ shown' = Touched({v})

\* Known: the view of a workspace that only remembers it is not forgotten when
\* the lock has hidden it.
QuitMayDangle(v) == "quit" \in Races \/ focus[Ws(v)] # v

\* hikari_view_unmap().
Unmap(v) ==
    /\ v \in mapped
    /\ mapped' = mapped \ {v}
    /\ UNCHANGED <<place, public, onLock, displayed, outputVars>>
    /\ IF v \in forced
       THEN /\ QuitMayDangle(v)
            /\ forced' = forced \ {v}
            /\ hidden' = hidden \cup {v}
            /\ linked' = [linked EXCEPT ![v] = None]
            /\ UNCHANGED <<lit, seatVars>>
       ELSE LET gone == {v} \ hidden
            IN  /\ Exchange(gone, {})
                /\ IF gone = {} THEN UNCHANGED seatVars
                   ELSE \E s \in SeatsAfter(Seat, gone, {}) : SeatBecomes(s)
    /\ shown' = Touched({v})

\* hikari_view_fini() of a view that is not mapped; a new client may use the
\* name after that.
Destroy(v) ==
    /\ v \notin mapped
    /\ place[v] # Nowhere
    /\ place' = [place EXCEPT ![v] = Nowhere]
    /\ public' = public \ {v}
    /\ lit' = lit \cup {v}
    /\ onLock' = onLock \ {v}
    /\ UNCHANGED <<mapped, hidden, forced, linked, displayed, seatVars,
                   outputVars, shown>>

\* hikari_view_commit_pending_operation(), from the client's ack: a view that is
\* hidden on a visible sheet is shown, but by commit_tile(); a forced one only moves up.
Commit(v) ==
    /\ v \in mapped
    /\ UNCHANGED <<mapped, place, public, displayed, outputVars>>
    /\ \E come \in SUBSET {u \in {v} \cap (hidden \ forced) : Visible(place[u], displayed)} :
           /\ Exchange({}, come)
           /\ \E s \in SeatsAfter(Seat, {}, come) : SeatBecomes(s)
           /\ shown' = IF come = {} THEN shown ELSE Touched(come)
    /\ onLock' = RefreshLayer(v, public)

\* request_activate_handler() of xdg-activation.  Known: it does not ask for
\* the mode.
Activate(v) ==
    /\ mode = "normal" \/ "activate" \in Races
    /\ v \in mapped \ hidden
    /\ SeatBecomes(FocusView(Seat, Ws(v), v, Before))
    /\ UNCHANGED <<viewVars, displayed, outputVars, shown>>

\* request_minimize_handler() of a taskbar, minimizing.
Minimize(v) ==
    /\ mode = "normal"
    /\ v \in mapped \ (hidden \cup forced)
    /\ UNCHANGED <<place, displayed>>
    /\ Rearrange({v}, {})
    /\ \E s \in SeatsAfter(Seat, {v}, {}) : SeatBecomes(s)

\* A panel unmaps.
LayerUnmap(w) ==
    /\ w \in layered
    /\ \E s \in CursorFocus([Seat EXCEPT !.layered = @ \ {w}], Before) : SeatBecomes(s)
    /\ UNCHANGED <<viewVars, displayed, outputVars, shown>>
-----------------------------------------------------------------------------
(* The user.                                                               *)

PointerMoves ==
    /\ \E s \in CursorFocus(Seat, Before) : SeatBecomes(s)
    /\ UNCHANGED <<viewVars, displayed, outputVars, shown>>

\* A click, or a key that cycles views, groups or layouts.
FocusByUser(v) ==
    /\ mode = "normal"
    /\ linked[v] # None
    /\ SeatBecomes(FocusView(Seat, Ws(v), v, Before))
    /\ UNCHANGED <<viewVars, displayed, outputVars, shown>>

\* hikari_server_cycle_next_workspace(), between outputs of the layout.
CycleWorkspace(w) ==
    /\ mode = "normal"
    /\ w \in wanted \ {current}
    /\ current # Noop
    /\ \E v \in FirstView(Seat, w, Before) :
          \E s \in IF v = None THEN CursorFocus(Seat, Before)
                   ELSE {FocusView(Seat, w, v, Before)} : SeatBecomes(s)
    /\ UNCHANGED <<viewVars, displayed, outputVars, shown>>

\* The mode keys: most want a view to work on, selecting a mark drops it.
EnterModal ==
    /\ mode = "normal"
    /\ \E s \in {Seat, Unfocus(Seat, Before)} :
          SeatBecomes([s EXCEPT !.mode = "modal"])
    /\ UNCHANGED <<viewVars, displayed, outputVars, shown>>

LeaveModal ==
    /\ mode = "modal"
    /\ \E s \in EnterNormal(Seat, Before) : SeatBecomes(s)
    /\ UNCHANGED <<viewVars, displayed, outputVars, shown>>

TogglePublic ==
    /\ mode = "normal"
    /\ focus[current] # None
    /\ public' = IF focus[current] \in public THEN public \ {focus[current]}
                 ELSE public \cup {focus[current]}
    /\ UNCHANGED <<mapped, place, hidden, forced, linked, lit, onLock,
                   displayed, seatVars, outputVars, shown>>

\* display_sheet(): what of another sheet is hidden, and what of this one and
\* of sheet 0 is shown.  A view flagged invisible stays as it is.
Leaving(w, nr) == {v \in LinkedIn(w) \ hidden : place[v].nr \notin {nr, 0}}

\* Mutant: shows what is shown already.
ComingAgain(w, nr) == {v \in OnWorkspace(w) : place[v].nr \in {nr, 0}}
Coming(w, nr) == {v \in OnWorkspace(w) \cap hidden : place[v].nr \in {nr, 0}}

\* The keys, and the "sheet" request of the IPC socket.
DisplaySheet(nr) ==
    /\ mode = "normal"
    /\ displayed' = [displayed EXCEPT ![current] = nr]
    /\ UNCHANGED place
    /\ \E come \in SUBSET Coming(current, nr) :
          /\ Rearrange(Leaving(current, nr), come)
          /\ \E s \in SeatsAfter(Seat, Leaving(current, nr), come) : SeatBecomes(s)

\* A mark, or a taskbar: show v, by switching to its sheet or not.  The mode
\* that selects marks is left first.
Bring(v) ==
    /\ mode # "lock"
    /\ v \in mapped
    /\ UNCHANGED place
    /\ \E start \in IF mode = "modal" THEN EnterNormal(Seat, Before) ELSE {Seat},
          nr \in {displayed[Ws(v)], place[v].nr} :
          LET w == Ws(v)
              gone == IF nr = displayed[w] THEN {} ELSE Leaving(w, nr)
              with == IF nr = displayed[w] THEN {} ELSE Coming(w, nr)
          IN  /\ displayed' = [displayed EXCEPT ![w] = nr]
              /\ \E some \in SUBSET with :
                    LET come == some \cup ({v} \cap hidden)
                    IN  /\ Rearrange(gone, come)
                        /\ \E s \in SeatsAfter(start, gone, come) : SeatBecomes(s)

\* Laying out a sheet that is displayed, from a key or when reflow.c's idle
\* source runs: what it tiles is shown.
Relayout(w) ==
    /\ mode # "lock"
    /\ UNCHANGED <<place, displayed>>
    /\ \E come \in SUBSET {v \in OnWorkspace(w) \cap hidden :
                            Visible(place[v], displayed)} :
          /\ Rearrange({}, come)
          /\ \E s \in SeatsAfter(Seat, {}, come) : SeatBecomes(s)

\* Hiding the focused view, all but it, or its group.
HideViews ==
    /\ mode = "normal"
    /\ focus[current] # None
    /\ UNCHANGED <<place, displayed>>
    /\ \E gone \in {LinkedIn(current) \ {focus[current]}}
                   \cup {g \in SUBSET {v \in Views : linked[v] # None} :
                            focus[current] \in g} :
          /\ Rearrange(gone, {})
          /\ \E s \in SeatsAfter(Seat, gone, {}) : SeatBecomes(s)

\* hikari_workspace_clear() followed by showing some views of the output: all,
\* the invisible ones, a group, or none.
ClearAndShow ==
    /\ mode = "normal"
    /\ UNCHANGED <<place, displayed>>
    /\ LET gone == LinkedIn(current)
       IN  \E come \in SUBSET {v \in OnWorkspace(current) : v \in hidden \cup gone} :
              /\ Rearrange(gone, come)
              /\ \E s \in ClearFocus(Seat, gone) :
                 \E t \in CursorFocus(s, Without(Before, gone)) :
                 \E u \in CursorFocus(Fail(t, Misused(gone, come)), After) : SeatBecomes(u)

\* hikari_server_only_group(): clear every output, show the group's views
\* wherever they are.
OnlyGroup ==
    /\ mode = "normal"
    /\ focus[current] # None
    /\ UNCHANGED <<place, displayed>>
    /\ LET gone == UNION {LinkedIn(w) : w \in outputs}
       IN  \E come \in {g \in SUBSET mapped :
                           focus[current] \in g /\ g \subseteq hidden \cup gone} :
              /\ Rearrange(gone, come)
              /\ \E s \in ClearFocus(Seat, gone) :
                 \E t \in CursorFocus(s, Without(Before, gone)) :
                 \E u \in CursorFocus(Fail(t, Misused(gone, come)), After) : SeatBecomes(u)

\* The seats after a handler of a modal mode that ends by leaving the mode.
ModalEnds(seats, scene) ==
    IF mode = "modal" THEN UNION {EnterNormal(s, scene) : s \in seats} ELSE seats

\* hikari_view_pin_to_sheet() of the focused view: the keys, the "pin" request
\* and the mode that assigns sheets.
Pin(nr) ==
    /\ mode # "lock"
    /\ focus[current] # None
    /\ UNCHANGED displayed
    /\ LET v == focus[current]
           to == [ws |-> Ws(v), nr |-> nr]
           gone == IF Visible(to, displayed) THEN {} ELSE {v}
       IN  /\ place' = [place EXCEPT ![v] = to]
           /\ Rearrange(gone, {})
           /\ \E s \in ModalEnds(SeatsAfter(Fail(Seat, v \in hidden), gone, {}), After) :
                 SeatBecomes(s)

\* hikari_server_migrate_focus_view(): moving the view over the edge of its
\* output, dragging it there, or assigning it a sheet of another output.  Known:
\* a panel the other workspace remembers stays.
Migrate(w) ==
    /\ mode # "lock"
    /\ focus[current] # None
    /\ w \in wanted \ {Ws(focus[current])}
    /\ "layer" \in Races \/ w \notin layered
    /\ UNCHANGED displayed
    /\ LET v == focus[current]
           s == [Seat EXCEPT !.focus[current] = None, !.current = w]
           moved == [s EXCEPT !.focus[w] = v]
       IN  /\ place' = [place EXCEPT ![v] = [ws |-> w, nr |-> displayed[w]]]
           /\ Rearrange({}, {v})
           /\ \E t \in {moved} \cup ModalEnds({moved}, After) : SeatBecomes(t)
-----------------------------------------------------------------------------
(* The screen locker.                                                      *)

\* The views override_visibility() and reset_visibility() walk: those on the
\* outputs of the list, which the fallback output is not in.
Listed == {v \in mapped : Ws(v) \in outputs}

\* Mutant: flags hidden and forced what was hidden before.
ConcealAll == Listed \ public
Conceal    == Listed \ (public \cup hidden)
Reveal     == Listed \cap public \cap hidden

\* hikari_lock_mode_enter(): only the current workspace drops its focus.
Lock ==
    /\ mode = "normal"
    /\ LET s == IF current \in layered
                THEN [Fail(Seat, focus[current] # None) EXCEPT
                         !.layered = @ \ {current}]
                ELSE IF focus[current] # None THEN Unfocus(Seat, Before) ELSE Seat
       IN  SeatBecomes([s EXCEPT !.mode = "lock"])
    /\ forced' = forced \cup Reveal \cup Conceal
    /\ hidden' = (hidden \ Reveal) \cup Conceal
    /\ lit' = lit \cup (Listed \cap public)
    /\ onLock' = onLock \cup (Listed \cap public)
    /\ shown' = [v \in Views |-> IF v \notin mapped THEN "either"
                                 ELSE IF v \in hidden THEN "hidden" ELSE "shown"]
    /\ UNCHANGED <<mapped, place, public, linked, displayed, outputVars>>

\* Known: views forced on an output that is gone stay forced.
UnlockMayMiss == "blind" \in Races \/ forced \cup (mapped \cap onLock) \subseteq Listed

\* Mutant: puts back in the desktop's layers what the lock has forced.
ReparentedForced == Listed \cap forced
Reparented       == Listed

\* cancel(), reset_visibility() and hikari_server_enter_normal_mode().
Unlock ==
    /\ mode = "lock"
    /\ UnlockMayMiss
    /\ LET back == Listed \cap forced
       IN  /\ hidden' = (hidden \ back) \cup (back \ hidden)
           /\ forced' = forced \ back
    /\ onLock' = onLock \ Reparented
    /\ lit' = (lit \ Reparented) \cup (Reparented \ hidden')
    /\ shown' = Touched(Views)
    /\ UNCHANGED <<mapped, place, public, linked, displayed, outputVars>>
    /\ \E s \in EnterNormal(Seat, After) : SeatBecomes(s)
-----------------------------------------------------------------------------
(* Monitors.                                                               *)

\* hikari_workspace_merge(): the views of the sheets, hidden or not.  Mutant: only
\* those on the screen.
MovingShown(from) == LinkedIn(from)
Moving(from)      == OnWorkspace(from)

\* hikari_view_evacuate() of every view of a workspace.  A view whose new sheet
\* is not displayed is hidden; a tiled one may commit its reset at once and,
\* hidden on a displayed sheet, be shown.
Evacuate(from, into) ==
    LET moving  == Moving(from)
        to(v)   == [ws |-> into, nr |-> place[v].nr]
        visible == moving \ (hidden \cup forced)
        gone    == {v \in visible : ~Visible(to(v), displayed)}
        resets  == {v \in moving \cap (hidden \ forced) : Visible(to(v), displayed)}
    IN  /\ place' = [v \in Views |-> IF v \in moving THEN to(v) ELSE place[v]]
        /\ \E come \in SUBSET resets :
              /\ hidden' = (hidden \cup gone) \ come
              /\ lit' = (lit \ gone) \cup come
              /\ linked' = [v \in Views |->
                    IF v \in gone THEN None
                    ELSE IF v \in (visible \cup come \cup (moving \cap forced \cap hidden))
                    THEN into ELSE linked[v]]
              /\ onLock' = IF mode = "lock" THEN onLock \cup (come \cap public)
                           ELSE onLock \ come
        /\ shown' = Touched(moving)
        /\ UNCHANGED <<mapped, public, forced>>

\* evacuate_output(), with the focus on a seat: it goes along, to nothing.
HandOver(from, into, seat) ==
    /\ Evacuate(from, into)
    /\ \E s \in ClearFocus(seat, OnWorkspace(from)) :
          IF s.mode = "lock"
          THEN SeatBecomes([s EXCEPT !.current = into, !.focus[into] = None])
          ELSE \E t \in IF s.mode = "modal" THEN EnterNormal(s, After) ELSE {s} :
                  SeatBecomes(FocusView(t, into, None, After))

\* Mutant: the fallback takes the views though another monitor is there.
HeirsFallback(o) == {Noop}

\* hikari_workspace_next(), or the fallback when there is no other output.
Heirs(o) == IF wanted \ {o} = {} THEN {Noop} ELSE wanted \ {o}

\* Known: what went to the fallback when the last monitor shown was switched
\* off does not come back.
StrandsViews(o) ==
    "off" \in Races \/ wanted # {o} \/ outputs = {o}

\* Known: a view that is not mapped is in no list and keeps a sheet that goes.
WithdrawnStay(o) ==
    "withdrawn" \in Races \/ \A v \in Views \ mapped : Ws(v) # o

\* hikari_output_init(): the first monitor takes over from the fallback.
Plug(o) ==
    /\ o \notin outputs
    /\ outputs' = outputs \cup {o}
    /\ wanted' = wanted \cup {o}
    /\ UNCHANGED displayed
    /\ IF outputs # {} THEN UNCHANGED <<viewVars, seatVars, shown>>
       ELSE /\ mode = "normal" \/ "plug" \in Races
            /\ WithdrawnStay(Noop)
            /\ Evacuate(Noop, o)
            /\ \E s \in ClearFocus(Seat, OnWorkspace(Noop)) :
                  SeatBecomes(FocusView(s, o, None, After))

\* hikari_output_fini(): the panels are closed before.
Unplug(o) ==
    /\ o \in outputs
    /\ WithdrawnStay(o)
    /\ StrandsViews(o)
    /\ displayed' = [displayed EXCEPT ![o] = 1]
    /\ outputs' = outputs \ {o}
    /\ wanted' = wanted \ {o}
    /\ \E into \in Heirs(o) : HandOver(o, into, [Seat EXCEPT !.layered = @ \ {o}])

\* hikari_output_set_wants_enabled(): the panels stay, with the focus they have.
SwitchOff(o) ==
    /\ o \in wanted
    /\ "off" \in Races \/ wanted # {o}
    /\ WithdrawnStay(o)
    /\ UNCHANGED <<outputs, displayed>>
    /\ wanted' = wanted \ {o}
    /\ \E into \in Heirs(o) : HandOver(o, into, Seat)

SwitchOn(o) ==
    /\ o \in outputs \ wanted
    /\ wanted' = wanted \cup {o}
    /\ UNCHANGED <<viewVars, displayed, seatVars, outputs, shown>>
-----------------------------------------------------------------------------
Client ==
    \/ \E v \in Views : Map(v) \/ Unmap(v) \/ Destroy(v) \/ Commit(v) \/ Activate(v) \/ Minimize(v)
    \/ \E w \in Workspaces : LayerUnmap(w)

User ==
    \/ PointerMoves
    \/ \E v \in Views : FocusByUser(v) \/ Bring(v)
    \/ \E w \in Workspaces : CycleWorkspace(w) \/ Migrate(w) \/ Relayout(w)
    \/ EnterModal
    \/ LeaveModal
    \/ TogglePublic
    \/ \E nr \in Sheets : DisplaySheet(nr) \/ Pin(nr)
    \/ HideViews
    \/ ClearAndShow
    \/ OnlyGroup

Monitor == \E o \in Outputs : Plug(o) \/ Unplug(o) \/ SwitchOff(o) \/ SwitchOn(o)

\* An assertion that fails ends the program.
Next ==
    /\ ~failed
    /\ Client \/ User \/ Lock \/ Unlock \/ Monitor

Spec == Init /\ [][Next]_vars
-----------------------------------------------------------------------------
(* What must hold of views, focus and outputs.                             *)

\* A view is in the lists of visible views exactly while its flags say so: a
\* forced view stays in them when the lock hides it and stays out when the lock
\* shows it.  It is in the list of its own sheet's workspace, which still exists;
\* the current one can be seen if any can, and the fallback output has windows
\* only "when no physical monitor is attached" or none is shown.
Linkage ==
    /\ \A v \in Views :
          /\ v \in mapped => (linked[v] # None <=> (v \in forced <=> v \in hidden))
          /\ linked[v] \in {None, Ws(v)}
          /\ v \notin mapped => v \in hidden \ forced /\ linked[v] = None
          /\ Ws(v) \in outputs \cup {Noop, None}
    /\ current \in IF wanted = {} THEN {Noop} ELSE wanted
    /\ wanted # {} => OnWorkspace(Noop) = {}

\* Outside the lock nothing is left of it ("undoing everything
\* override_visibility() did"): no view is forced, and the scene nodes, back in
\* the desktop's layers, are enabled as the flags say.
DesktopRestored ==
    mode # "lock" =>
        /\ forced = {}
        /\ mapped \cap onLock = {}
        /\ mapped \cap lit = mapped \ hidden

\* Whatever maps, commits, moves between outputs or is toggled: no private view
\* is enabled in the layer the lock screen shows.
LockScreenIsPublic ==
    mode = "lock" => mapped \cap lit \cap onLock \subseteq public

\* A remembered focus is a view of its own workspace that is mapped and visible,
\* or was until the lock hid it; the lock leaves the current workspace none.  A
\* workspace focuses a view or a panel (the assertions of
\* hikari_workspace_quit_view() and hikari_lock_mode_enter()).
FocusIsLive ==
    /\ \A w \in Workspaces : focus[w] # None =>
          /\ focus[w] \in mapped
          /\ Ws(focus[w]) = w
          /\ focus[w] \in hidden => focus[w] \in forced
    /\ mode = "lock" => focus[current] = None
    /\ \A w \in layered : focus[w] = None

\* The state is well-formed, and none of the assertions of the handlers ever fails.
AssertionsHold == TypeOK /\ ~failed

\* An unlock gives every view that was left alone its visibility back.
UnlockRestores ==
    [][Unlock => \A v \in mapped :
          /\ shown[v] = "shown" => v \notin hidden'
          /\ shown[v] = "hidden" => v \in hidden']_vars
=============================================================================
