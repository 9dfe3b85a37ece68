------------------------------- MODULE Control -------------------------------
(***************************************************************************)
(* The modes and what they work on (src/src/*_mode.c, mark.c, group.c,     *)
(* input_buffer.c, completion.c), the bindings that start them             *)
(* (normal_mode.c, switch.c, cursor.c), the configuration the bindings     *)
(* belong to (configuration.c) and the control socket (ipc.c).             *)
(*                                                                         *)
(* A modal mode keeps pointers (a sheet, a group, a mark, a completion)    *)
(* and works on the focused view.  Clients, monitors, gestures and         *)
(* switches do not wait for it to end.                                     *)
(*                                                                         *)
(* A handler is an operator on the state `h`, which yields the states it   *)
(* may end in: what the pointer is over whenever a handler asks is a       *)
(* choice.  What the lock does to the views is in Visibility.              *)
(***************************************************************************)
EXTENDS Naturals, FiniteSets

CONSTANTS
    Views,
    Outputs,     \* the monitors; each has a workspace, named alike
    Names,       \* the names of groups
    Marks,
    Clients,     \* connections to the control socket
    MaxClients,  \* HIKARI_IPC_MAX_CLIENTS
    None,
    Freed,       \* what a pointer to freed memory points to
    Races        \* orders of events known to break a property and let in

ASSUME NoneAssumption == {None, Freed} \cap (Views \cup Outputs \cup Names \cup Marks) = {}
ASSUME SheetAssumption == None \notin [ws : Outputs, here : BOOLEAN]
ASSUME RaceAssumption ==
    Races \subseteq {"gesture",  \* a gesture's action runs in a modal mode
                     "panel",    \* the input grab ends over a panel that takes the keyboard
                     "reload",   \* the configuration goes while a key's end action is pending
                     "modal",    \* a modal mode ends over another output
                     "quit"}     \* a remembered view quits while locked

VARIABLES
    h,        \* views, focus, modes, groups, marks
    wanted,   \* the outputs of the desktop
    request   \* of a connection: "none", "part" of a line is read, or None when closed

vars == <<h, wanted, request>>

(* A view: h.mapped, h.shown, h.on (its workspace), h.group, h.mark.        *)
(* h.focus    workspace->focus_view;  h.cur  hikari_server.workspace        *)
(* h.groups   hikari_server.groups;   h.marked  mark->view                  *)
(* h.sheet    sheet_assign_mode.sheet, with whether the sheet is displayed  *)
(* h.target   group_assign_mode.group;  h.typed  its input buffer           *)
(* h.items    group_assign_mode.completion                                  *)
(* h.pendingMark  mark_assign_mode.pending_mark                             *)
(* h.pending  normal_mode.pending_action: whose configuration's it is       *)
(* h.fault    a NULL or freed pointer was followed or an assertion failed   *)

Interactive == {"sheet", "move", "resize", "group", "mark", "grab"}
Modes == {"normal", "select", "layout", "dnd", "lock"} \cup Interactive

Fail(g, wrong) == [g EXCEPT !.fault = @ \/ wrong]

Subject(g) == g.focus[g.cur]
-----------------------------------------------------------------------------
(* Focus                                                                   *)

\* hikari_workspace_focus_view(), with its assertions.
FocusView(g, w, v) ==
    [Fail(g, g.mode # "normal" \/ (v # None /\ v \notin g.shown)) EXCEPT
        !.cur = w, !.focus[w] = v]

\* hikari_workspace_first_view().
FirstView(g, w) ==
    IF g.focus[w] # None THEN {g.focus[w]}
    ELSE IF \E v \in g.shown : g.on[v] = w THEN {v \in g.shown : g.on[v] = w} ELSE {None}

\* A panel that takes the keyboard.
FocusPanel(g, w) ==
    [IF Subject(g) = None THEN g ELSE FocusView(g, g.cur, None) EXCEPT !.cur = w]

\* hikari_server_cursor_focus(): only the normal mode's cursor_move() changes the focus.
CursorFocus(g, ws) ==
    IF g.mode # "normal" THEN {g}
    ELSE {g}
         \cup {FocusView(g, g.on[v], v) : v \in {u \in g.shown : g.on[u] \in ws}}
         \cup (UNION {{FocusView(g, w, v) : v \in FirstView(g, w)} : w \in ws \ {g.cur}})
         \cup {FocusPanel(g, w) : w \in {u \in ws : u = g.cur \/ g.focus[u] = None}}

\* Mutant: a pointer to a group is followed without a look at the list of groups.
GroupIsLiveAlways(g) == g.target # None

\* group_is_live(): the list of groups is searched for the pointer.
GroupIsLive(g) == g.target \in g.groups

Followed(g) == Fail(g, GroupIsLive(g) /\ g.target = Freed)

\* Mutant: the sheet stays.
CancelKept(g) ==
    CASE g.mode = "group" -> [Followed(g) EXCEPT !.target = None, !.typed = None, !.items = {}]
      [] g.mode = "mark"  -> [g EXCEPT !.pendingMark = None]
      [] OTHER            -> g

\* mode->cancel().
Cancel(g) ==
    CASE g.mode = "sheet" -> [g EXCEPT !.sheet = None]
      [] g.mode = "group" ->
            [Fail(Followed(g), Subject(g) # None /\ g.group[Subject(g)] = None) EXCEPT
                !.target = None, !.typed = None, !.items = {}]
      [] g.mode = "mark"  ->
            [Fail(g, g.pendingMark # None /\ g.marked[g.pendingMark] \notin g.mapped \cup {None})
                EXCEPT !.pendingMark = None]
      [] OTHER            -> g

\* hikari_server_enter_normal_mode().
EnterNormal(g, ws) == CursorFocus([Cancel(g) EXCEPT !.mode = "normal"], ws)

\* clear_focus() of some views: the one that has the focus ends the mode first.
ClearFocus(g, views, ws) ==
    LET rest(x) == [x EXCEPT !.focus = [w \in DOMAIN @ |-> IF @[w] \in views THEN None ELSE @[w]]]
        ended == IF g.mode = "normal" THEN {g}
                 ELSE {x \in EnterNormal(g, ws) : "modal" \in Races \/ x.cur = g.cur}
    IN  IF Subject(g) \notin views THEN {rest(g)}
        ELSE {rest(FocusView(x, x.cur, None)) : x \in ended}

\* hikari_view_hide() of each.
Hide(g, views, ws) == {[x EXCEPT !.shown = @ \ views] : x \in ClearFocus(g, views, ws)}

Rearrange(g, gone, come, ws) ==
    UNION {CursorFocus([x EXCEPT !.shown = @ \cup come], ws) : x \in Hide(g, gone, ws)}

\* display_sheet(): the lock forces views, and hikari_view_hide() and show() assert that none is.
DisplaySheet(g, gone, come) ==
    Rearrange(Fail(g, g.mode = "lock" /\ gone \cup come # {}), gone, come, wanted)
-----------------------------------------------------------------------------
(* Groups and marks                                                        *)

\* detach_from_group(): the last member's group is freed.
Detach(g, v) ==
    LET n == g.group[v]
        last == \A u \in g.mapped \ {v} : g.group[u] # n
    IN  [g EXCEPT !.group[v] = None,
                  !.groups = IF last THEN @ \ {n} ELSE @,
                  !.target = IF last /\ @ = n THEN Freed ELSE @]

\* hikari_server_find_or_create_group() and hikari_view_group().
Regroup(g, v, n) ==
    IF g.group[v] = n THEN g
    ELSE [Fail(Detach(g, v), v \notin g.shown) EXCEPT !.groups = @ \cup {n}, !.group[v] = n]

ClearMark(g, m) ==
    IF g.marked[m] = None THEN g
    ELSE [g EXCEPT !.mark[g.marked[m]] = None, !.marked[m] = None]

\* Mutant: the view that had the mark keeps thinking so.
SetMarkOver(g, m, v) ==
    LET x == IF g.mark[v] = None THEN g ELSE ClearMark(g, g.mark[v])
    IN  [x EXCEPT !.marked[m] = v, !.mark[v] = m]

\* hikari_mark_set().
SetMark(g, m, v) ==
    LET x == IF g.mark[v] = None THEN g ELSE ClearMark(g, g.mark[v])
    IN  [ClearMark(x, m) EXCEPT !.marked[m] = v, !.mark[v] = m]

Unmark(g, v) == IF g.mark[v] = None THEN g ELSE ClearMark(g, g.mark[v])
-----------------------------------------------------------------------------
(* Clients and monitors                                                    *)

Map(v) ==
    /\ v \notin h.mapped
    /\ h.mode # "lock"
    /\ \E n \in Names :
          h' \in CursorFocus([h EXCEPT !.mapped = @ \cup {v}, !.shown = @ \cup {v},
                                       !.on[v] = h.cur, !.group[v] = n, !.groups = @ \cup {n}],
                             wanted)
    /\ UNCHANGED <<wanted, request>>

\* hikari_view_unmap().
Unmap(v) ==
    /\ v \in h.mapped
    /\ h.mode = "lock" /\ "quit" \notin Races => \A w \in Outputs : h.focus[w] # v
    /\ LET gone(g) == [Detach(Unmark(g, v), v) EXCEPT !.mapped = @ \ {v}]
       IN  h' \in {gone(x) : x \in IF v \in h.shown THEN Rearrange(h, {v}, {}, wanted) ELSE {h}}
    /\ UNCHANGED <<wanted, request>>

\* A tiling that settles or a commit of the client's shows a view in any mode.
Appear(v) ==
    /\ v \in h.mapped \ h.shown
    /\ h.mode # "lock"
    /\ h' \in Rearrange(h, {}, {v}, wanted)
    /\ UNCHANGED <<wanted, request>>

\* start_drag_handler() and hikari_dnd_mode_enter(): wlroots starts a drag only for the
\* surface that has the pointer, which none has while the screen is locked.
StartDrag ==
    /\ h.mode # "lock"
    /\ h' = [Cancel(h) EXCEPT !.mode = "dnd"]
    /\ UNCHANGED <<wanted, request>>

\* evacuate_output(): the views of a monitor that goes are on another, some of them hidden.
Evacuate(g, moving, into, stay) ==
    [g EXCEPT !.on = [v \in Views |-> IF v \in moving THEN into ELSE g.on[v]],
              !.shown = g.shown \ (moving \ stay)]

\* hikari_output_fini(), or switching off, of a monitor that is not the last.
Unplug(o) ==
    /\ o \in wanted
    /\ wanted' = wanted \ {o}
    /\ UNCHANGED request
    /\ LET moving == {v \in h.mapped : h.on[v] = o} IN
       \E into \in wanted \ {o}, stay \in SUBSET moving, x \in ClearFocus(h, moving, wanted) :
          LET g == Evacuate(x, moving, into, stay)
          IN  IF g.mode = "lock" THEN h' = [g EXCEPT !.cur = into, !.focus[into] = None]
              ELSE h' \in {FocusView(y, into, None) :
                              y \in IF g.mode = "normal" THEN {g} ELSE EnterNormal(g, wanted')}

Plug(o) ==
    /\ o \notin wanted
    /\ wanted' = wanted \cup {o}
    /\ UNCHANGED <<h, request>>
-----------------------------------------------------------------------------
(* Actions of bindings                                                     *)

\* hikari_mark_select_mode_enter() drops the focus, hikari_lock_mode_enter() too; the
\* other modes want a view, but for choosing a layout.
EnterSelect(g) == [FocusView(g, g.cur, None) EXCEPT !.mode = "select"]

EnterLock(g) ==
    [IF Subject(g) = None THEN g ELSE FocusView(g, g.cur, None) EXCEPT !.mode = "lock"]

EnterSheet(g) == [g EXCEPT !.mode = "sheet", !.sheet = [ws |-> g.on[Subject(g)], here |-> TRUE]]

EnterGroup(g) ==
    [g EXCEPT !.mode = "group", !.target = g.group[Subject(g)], !.typed = g.group[Subject(g)]]

EnterMark(g) == [g EXCEPT !.mode = "mark", !.pendingMark = None]

EnterInteractive(g) ==
    {EnterSheet(g), EnterGroup(g), EnterMark(g)}
    \cup {[g EXCEPT !.mode = m] : m \in {"move", "resize", "grab"}}

\* hikari_configuration_reload() with a file that reads: the old configuration, and what a
\* pending action points into, is freed.
Reload(g) == [g EXCEPT !.pending = IF @ = None THEN None ELSE "freed"]

ReloadMay(g) == "reload" \in Races \/ g.pending = None

\* CYCLE_VIEW and CYCLE_WORKSPACE.
Cycle(g) ==
    {FocusView(g, g.on[v], v) : v \in g.shown}
    \cup (UNION {{FocusView(g, w, v) : v \in FirstView(g, w) \ {None}} : w \in wanted})

\* What an action a configuration binds may leave.
Act(g) ==
    {EnterSelect(g), EnterLock(g), [g EXCEPT !.mode = "layout"]}
    \cup (IF Subject(g) = None THEN {} ELSE EnterInteractive(g))
    \cup (IF ReloadMay(g) THEN {Reload(g)} ELSE {})
    \cup Cycle(g)
    \cup (UNION {DisplaySheet(g, gone, come) :
                    gone \in SUBSET g.shown, come \in SUBSET (g.mapped \ g.shown)})

\* handle_input(): a key or button that is bound; its end action waits for the release.
Binding ==
    /\ h.mode = "normal"
    /\ h.pending = None
    /\ \E p \in {None, "live"} : h' \in Act([h EXCEPT !.pending = p])
    /\ UNCHANGED <<wanted, request>>

\* handle_pending_action(), at the next key, button or finger.
PendingAction ==
    /\ h.mode = "normal"
    /\ h.pending # None
    /\ h' \in {[x EXCEPT !.pending = None] : x \in Act(Fail(h, h.pending = "freed"))}
    /\ UNCHANGED <<wanted, request>>

\* execute_action() of switch.c: a lid or tablet switch leaves the mode first.
Switch ==
    /\ h.mode # "lock"
    /\ h' \in UNION {Act(x) : x \in IF h.mode = "normal" THEN {h} ELSE EnterNormal(h, wanted)}
    /\ UNCHANGED <<wanted, request>>

\* fire_gesture_binding() refuses only in the lock mode.
Gesture ==
    /\ h.mode = "normal" \/ ("gesture" \in Races /\ h.mode # "lock")
    /\ h' \in Act(h)
    /\ UNCHANGED <<wanted, request>>
-----------------------------------------------------------------------------
(* The keys of the modes                                                   *)

\* Escape, a release that ends a drag, the reply of PAM.
LeaveMode ==
    /\ h.mode # "normal"
    /\ h' \in EnterNormal(h, wanted)
    /\ UNCHANGED <<wanted, request>>

\* cursor_move() of the normal mode and of the grab, which asserts that there is a focus.
Pointer ==
    /\ h.mode \in {"normal", "grab"}
    /\ h' \in IF h.mode = "normal" THEN CursorFocus(h, wanted) ELSE {Fail(h, Subject(h) = None)}
    /\ UNCHANGED <<wanted, request>>

\* hikari_server_migrate_focus_view().
Migrate(g, w) ==
    LET v == Subject(g) IN
    [g EXCEPT !.focus = [g.focus EXCEPT ![g.cur] = None, ![w] = v],
              !.cur = w, !.on[v] = w, !.shown = @ \cup {v}]

\* cursor_move() of the move mode drags the view to the monitor the cursor is on.
Drag(w) ==
    /\ h.mode = "move"
    /\ Subject(h) # None
    /\ w \in wanted \ {h.on[Subject(h)]}
    /\ h' = Migrate(h, w)
    /\ UNCHANGED <<wanted, request>>

\* The digits choose a sheet of this workspace, Tab the same of the next.
SheetKey ==
    /\ h.mode = "sheet"
    /\ Subject(h) # None
    /\ \/ \E here \in BOOLEAN : h' = [h EXCEPT !.sheet = [ws |-> h.cur, here |-> here]]
       \/ \E w \in wanted \ {h.sheet.ws}, here \in BOOLEAN :
             h' = [h EXCEPT !.sheet = [ws |-> w, here |-> here]]
    /\ UNCHANGED <<wanted, request>>

\* hikari_view_pin_to_sheet() of the focused view.
Pin(g, here) ==
    IF here THEN {Fail(g, Subject(g) \notin g.shown)} ELSE Rearrange(g, {Subject(g)}, {}, wanted)

\* confirm_sheet_assign().
SheetConfirm ==
    /\ h.mode = "sheet"
    /\ Subject(h) # None
    /\ h' \in UNION {EnterNormal(x, wanted) :
                        x \in IF h.sheet.ws = h.on[Subject(h)] THEN Pin(h, h.sheet.here)
                              ELSE {Migrate(h, h.sheet.ws)}}
    /\ UNCHANGED <<wanted, request>>

\* update_state() of the group mode: the group of that name, if there is one.
Typed(g, n) ==
    [Fail(Followed(g), Subject(g) = None) EXCEPT
        !.typed = n, !.target = IF n \in g.groups THEN n ELSE None]

\* What the letters and the editing keys may leave in the input buffer.
Texts == Names \cup {None}

\* init_completion(): the groups whose name starts with what is typed.
Completions(g) ==
    IF g.items = {} THEN {{g.typed} \cup some : some \in SUBSET g.groups} ELSE {g.items}

\* Letters and editing drop the completion; Tab and Control-e step through it.
GroupKey ==
    /\ h.mode = "group"
    /\ \/ \E n \in Texts : h' = Typed([h EXCEPT !.items = {}], n)
       \/ \E items \in Completions(h) :
             \E n \in items : h' = Typed([h EXCEPT !.items = items], n)
    /\ UNCHANGED <<wanted, request>>

\* confirm_group_assign(): an empty name stands for the view's own.
GroupConfirm ==
    /\ h.mode = "group"
    /\ \E n \in IF h.typed = None THEN Names ELSE {h.typed} :
          h' \in IF Subject(h) = None THEN {Fail(h, TRUE)}
                 ELSE EnterNormal(Regroup(h, Subject(h), n), wanted)
    /\ UNCHANGED <<wanted, request>>

MarkKey ==
    /\ h.mode = "mark"
    /\ Subject(h) # None
    /\ \E m \in Marks \cup {None} : h' = [h EXCEPT !.pendingMark = m]
    /\ UNCHANGED <<wanted, request>>

\* confirm_mark_assign().
MarkConfirm ==
    /\ h.mode = "mark"
    /\ Subject(h) # None
    /\ LET v == Subject(h)
           x == IF h.pendingMark = None THEN Unmark(h, v)
                ELSE [SetMark(h, h.pendingMark, v) EXCEPT !.pendingMark = None]
       IN  h' \in EnterNormal(x, wanted)
    /\ UNCHANGED <<wanted, request>>

\* mark_select(), hikari_server_show_mark() and hikari_server_switch_to_mark(): the mode is
\* left first; switching to the view's sheet hides what was on the one displayed.
SelectKey(m) ==
    /\ h.mode = "select"
    /\ \E x \in EnterNormal(h, wanted) :
          LET v == x.marked[m] IN
          IF v = None THEN h' = x
          ELSE \E gone \in SUBSET ({u \in x.shown : x.on[u] = x.on[v]} \ {v}) :
                  h' \in {Fail(y, v \notin y.mapped) : y \in DisplaySheet(x, gone, {v} \ x.shown)}
    /\ UNCHANGED <<wanted, request>>

\* apply_layout(): the layout shows what it takes.
LayoutKey ==
    /\ h.mode = "layout"
    /\ \E x \in EnterNormal(h, wanted) :
          \E come \in SUBSET {v \in x.mapped \ x.shown : x.on[v] = x.cur} :
             h' \in Rearrange(x, {}, come, wanted)
    /\ UNCHANGED <<wanted, request>>

\* The grab's own key: the border of the workspace's focused view is damaged after the
\* pointer has been asked about.
GrabKey ==
    /\ h.mode = "grab"
    /\ \E x \in EnterNormal(h, wanted) :
          /\ "panel" \in Races \/ x.focus[h.cur] # None
          /\ h' \in CursorFocus(Fail(x, x.focus[h.cur] = None), wanted)
    /\ UNCHANGED <<wanted, request>>
-----------------------------------------------------------------------------
(* The control socket                                                      *)

Open == {c \in Clients : request[c] # None}

\* socket_connection(): one connection too many is closed at once.
Connect(c) ==
    /\ request[c] = None
    /\ Cardinality(Open) < MaxClients
    /\ request' = [request EXCEPT ![c] = "none"]
    /\ UNCHANGED <<h, wanted>>

\* client_readable() before the end of the line.
ReadPart(c) ==
    /\ request[c] = "none"
    /\ request' = [request EXCEPT ![c] = "part"]
    /\ UNCHANGED <<h, wanted>>

\* A hangup, a read that fails, a request that fills the buffer.
Drop(c) ==
    /\ request[c] # None
    /\ request' = [request EXCEPT ![c] = None]
    /\ UNCHANGED <<h, wanted>>

\* Mutant: requests are carried out in every mode.
CanActAlways(g) == TRUE

\* can_act() of ipc.c.
CanAct(g) == g.mode = "normal"

\* handle_sheet() of the current workspace.
HandleSheet(g) ==
    LET here == {v \in g.mapped : g.on[v] = g.cur} IN
    UNION {DisplaySheet(g, gone, come) :
              gone \in SUBSET (here \cap g.shown), come \in SUBSET (here \ g.shown)}

\* handle_pin(): wants a focused view.
HandlePin(g) == IF Subject(g) = None THEN {g} ELSE Pin(g, TRUE) \cup Pin(g, FALSE)

\* dispatch() of the first line, and client_destroy(); "state" and a bad line change nothing.
Dispatch(c) ==
    /\ request[c] # None
    /\ request' = [request EXCEPT ![c] = None]
    /\ h' \in {h} \cup IF CanAct(h) THEN HandleSheet(h) \cup HandlePin(h) ELSE {}
    /\ UNCHANGED wanted
-----------------------------------------------------------------------------
Init ==
    /\ \E o \in Outputs :
          h = [mapped |-> {}, shown |-> {}, on |-> [v \in Views |-> o],
               focus |-> [w \in Outputs |-> None], cur |-> o, mode |-> "normal",
               group |-> [v \in Views |-> None], groups |-> {},
               mark |-> [v \in Views |-> None], marked |-> [m \in Marks |-> None],
               sheet |-> None, target |-> None, typed |-> None, items |-> {},
               pendingMark |-> None, pending |-> None, fault |-> FALSE]
    /\ wanted = Outputs
    /\ request = [c \in Clients |-> None]

Client == \E v \in Views : Map(v) \/ Unmap(v) \/ Appear(v)
Monitor == \E o \in Outputs : Unplug(o) \/ Plug(o)
Bound == Binding \/ PendingAction \/ Switch \/ Gesture
Keys ==
    \/ LeaveMode \/ Pointer \/ SheetKey \/ SheetConfirm \/ GroupKey \/ GroupConfirm
    \/ MarkKey \/ MarkConfirm \/ LayoutKey \/ GrabKey
    \/ \E w \in Outputs : Drag(w)
    \/ \E m \in Marks : SelectKey(m)
Socket == \E c \in Clients : Connect(c) \/ ReadPart(c) \/ Drop(c) \/ Dispatch(c)

Next == ~h.fault /\ (Client \/ StartDrag \/ Monitor \/ Bound \/ Keys \/ Socket)

Spec == Init /\ [][Next]_vars
-----------------------------------------------------------------------------
TypeOK ==
    /\ h.shown \subseteq h.mapped /\ h.mapped \subseteq Views
    /\ h.mode \in Modes /\ h.focus \in [Outputs -> Views \cup {None}]
    /\ h.cur \in wanted /\ wanted \subseteq Outputs
    /\ request \in [Clients -> {"none", "part", None}]

\* A mode that works on the focused view has one for as long as it lasts, on the current
\* workspace and visible, whoever closes, hides or moves windows meanwhile.
SubjectStays ==
    h.mode \in Interactive =>
        /\ Subject(h) \in h.mapped \cap h.shown
        /\ h.on[Subject(h)] = h.cur

\* What a mode keeps goes with it, however it ends ("cancel() here left its cleanup undone",
\* dnd_mode.c): no pointer waits for the next time the mode is entered, and the sheet to be
\* assigned is never one of a monitor that is gone.
NothingLeftBehind ==
    /\ h.sheet # None <=> h.mode = "sheet"
    /\ h.sheet # None => h.sheet.ws \in wanted
    /\ h.mode # "group" => h.target = None /\ h.typed = None /\ h.items = {}
    /\ h.mode # "mark" => h.pendingMark = None

\* No handler of a mode follows a NULL pointer, one to a freed group or configuration, or fails
\* an assertion; modes keep their subject and leave nothing behind.
ModesAreSound == TypeOK /\ ~h.fault /\ SubjectStays /\ NothingLeftBehind

\* Views, groups and marks refer to each other: a mark has one view and a view one mark, both
\* mapped; the groups there are, are those of mapped views, so none is freed too early or kept.
NamesAgree ==
    /\ \A v \in Views, m \in Marks : h.mark[v] = m <=> h.marked[m] = v
    /\ \A v \in Views : v \notin h.mapped => h.mark[v] = None
    /\ h.groups = {h.group[v] : v \in h.mapped}
=============================================================================
