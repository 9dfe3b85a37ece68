------------------------------- MODULE Panels -------------------------------
(***************************************************************************)
(* Layer-shell panels (src/src/layer_shell.c): how they come and go, the   *)
(* strips of a monitor they reserve, the keyboard they may take, and their *)
(* popups.                                                                 *)
(*                                                                         *)
(* Space is one column per monitor: every panel is anchored to the top.    *)
(* wlr_scene_layer_surface_v1_configure() gives it the next free row, or   *)
(* the full monitor for the zone -1, and takes a positive zone of a panel  *)
(* that is mapped out of the usable area.  The mode is the normal one, one *)
(* monitor is always on, and a popup has at most the 64 ancestors that     *)
(* get_layer() follows.                                                    *)
(***************************************************************************)
EXTENDS Integers, FiniteSetsExt, SequencesExt

CONSTANTS
    Monitors, Panels, Popups,
    Interactive,  \* the panels that ask for the keyboard
    Layers,       \* how many layers there are, the lowest first
    Zones,        \* values of exclusive_zone
    Heights,      \* what a monitor may measure
    BarHeight,    \* what hikari_bar_reserve() takes
    Nothing,
    PanelRaces    \* orders of events known to break a property and let in

ASSUME SpaceAssumption ==
    /\ Interactive \subseteq Panels
    /\ Layers \in Nat \ {0} /\ Heights \subseteq Nat /\ BarHeight \in Nat
    /\ Zones \subseteq Nat \cup {-1}
ASSUME PanelAssumption ==
    /\ IsFiniteSet(Panels) /\ IsFiniteSet(Monitors)
    /\ Panels \cap Popups = {} /\ Nothing \notin Panels \cup Popups \cup Monitors
ASSUME PanelRaceAssumption ==
    PanelRaces \subseteq {"early",       \* an output is arranged between a panel's creation and its first commit
                     "again",       \* a panel that was unmapped asks to be mapped again
                     "orphan",      \* a monitor goes with a panel on it that was unmapped
                     "reenabled",   \* an output is switched on again with panels on it
                     "remembered"}  \* the focus leaves a panel for another output

VARIABLES
    panel,    \* struct hikari_layer and what wlroots knows of the surface
    monitor,  \* struct hikari_output: its lists of panels, its height and the area views may use
    seat,     \* the workspace that has the focus, the panels remembered, the keyboard
    popup,    \* struct hikari_layer_popup: its parent, and the panel whose list it is in
    fault     \* assertions of wlroots that failed, memory used after it was freed, echoes

panelVars == <<panel, monitor, seat, popup, fault>>

LayerStates == [layer : 1 .. Layers, zone : Zones]

\* No surface, or one that is destroyed.
NoPanel == [phase |-> "none", on |-> Nothing, cur |-> Nothing, layer |-> 1, zone |-> 0,
            asks |-> FALSE, y |-> 0]
NoPopup == [parent |-> Nothing, owner |-> Nothing]

\* The listed panels of an output, the lowest layer first.
Stack(O, o) == FoldLeft(LAMBDA below, s : below \o s, <<>>, O[o].list)
Unlist(O, o, p) == [O EXCEPT ![o].list = [l \in 1 .. Layers |-> RemoveFirst(O[o].list[l], p)]]
Enlist(O, o, p, l) == [O EXCEPT ![o].list[l] = <<p>> \o O[o].list[l]]

Base(h) == [y |-> BarHeight, h |-> Max({0, h - BarHeight})]
-----------------------------------------------------------------------------
(* Arranging                                                               *)

\* What the scene helper of wlroots does with one panel.
Configure(g, p) ==
    LET r == g.panel[p]
        taken == IF r.phase = "mapped" /\ r.cur.zone > 0 THEN r.cur.zone ELSE 0
    IN  IF r.phase = "new" THEN [g EXCEPT !.fault = g.fault \cup {"uninitialised"}]
        ELSE [g EXCEPT !.panel[p] = [r EXCEPT !.y = IF r.cur.zone = -1 THEN 0 ELSE g.usable.y,
                                              !.asks = FALSE],
                       !.usable = [y |-> g.usable.y + taken, h |-> Max({0, g.usable.h - taken})]]

ConfigureAll(g, stack) == FoldLeft(Configure, g, stack)

\* arrange_layers(): every panel listed is configured, and a usable area that changed has the
\* views laid out again.
Arrange(g, o) ==
    LET before == g.monitor[o].usable
        done == ConfigureAll([panel |-> g.panel, usable |-> Base(g.monitor[o].height), fault |-> g.fault],
                             Stack(g.monitor, o))
    IN  [g EXCEPT !.panel = done.panel, !.fault = done.fault,
                  !.monitor[o] = [g.monitor[o] EXCEPT !.usable = done.usable,
                                                      !.pending = @ \/ done.usable # before]]

World == [panel |-> panel, monitor |-> monitor, seat |-> seat, popup |-> popup, fault |-> fault]

Becomes(g) ==
    /\ panel' = g.panel /\ monitor' = g.monitor /\ seat' = g.seat
    /\ popup' = g.popup /\ fault' = g.fault
-----------------------------------------------------------------------------
(* Focus                                                                   *)

\* hikari_workspace_focus_view(): the panel of the workspace it comes to is forgotten.
FocusView(s, o, shown) ==
    [s EXCEPT !.on = o, !.view = shown, !.layer[o] = Nothing, !.keyboard = IF shown THEN "view" ELSE Nothing]

\* focus(): only a panel that wants the keyboard changes anything.
FocusPanel(s, p, o) ==
    LET left == IF s.view THEN FocusView(s, s.on, FALSE) ELSE s IN
    [left EXCEPT !.on = o, !.view = FALSE, !.keyboard = p,
                 !.layer = [[left.layer EXCEPT ![s.on] = Nothing] EXCEPT ![o] = p]]

MayLeave(s, o) == "remembered" \in PanelRaces \/ o = s.on \/ s.layer[s.on] = Nothing

\* hikari_server_cursor_focus(): what the pointer is over takes the focus, unless it has it.
CursorFocus(g) ==
    LET s == g.seat
        lit == {o \in Monitors : g.monitor[o].on /\ MayLeave(s, o)}
    IN  {g}
        \cup {[g EXCEPT !.seat = FocusView(s, o, TRUE)] : o \in lit}
        \cup {[g EXCEPT !.seat = FocusView(s, o, FALSE)] : o \in lit \ {s.on}}
        \cup {[g EXCEPT !.seat = FocusPanel(s, p, g.panel[p].on)] :
                 p \in {q \in Interactive : g.panel[q].phase = "mapped" /\ g.monitor[g.panel[q].on].on
                                            /\ s.layer[s.on] # q}}

PointerMoves == \E g \in CursorFocus(World) : Becomes(g)
-----------------------------------------------------------------------------
(* Panels                                                                  *)

\* hikari_layer_init(): on the output it names, or the one that has the focus; nothing is
\* arranged before the first commit.
Create(p, o) ==
    /\ panel[p].phase = "none"
    /\ monitor[o].plugged
    /\ \E l \in 1 .. Layers :
          /\ panel' = [panel EXCEPT ![p] = [NoPanel EXCEPT !.phase = "new", !.on = o, !.layer = l]]
          /\ monitor' = Enlist(monitor, o, p, l)
    /\ UNCHANGED <<seat, popup, fault>>

\* Mutant: the zone is not compared.
InputsOfLayer(q, s) == q.layer # s.layer

\* layer_inputs_changed(), against the values kept of the last commit and the list the panel is in.
InputsChanged(q, s) == q.zone # s.zone \/ q.layer # s.layer

Remembers(r, s) == [r EXCEPT !.cur = s, !.zone = s.zone]
Keeps(g, p, s) == [g EXCEPT !.panel[p] = Remembers(g.panel[p], s)]

\* commit_handler(), the first time: the client waits for the configure.
FirstCommit(p, s) ==
    /\ panel[p].phase = "new"
    /\ LET r == [Remembers(panel[p], s) EXCEPT !.phase = "asked", !.asks = TRUE] IN
       Becomes(Arrange([World EXCEPT !.panel[p] = r], panel[p].on))

\* commit_handler() of a panel that is not mapped.  One that was unmapped asks anew.
EarlyCommit(p, s) ==
    /\ panel[p].phase \in {"asked", "bare"}
    /\ panel[p].phase = "bare" => "again" \in PanelRaces
    /\ LET r == [Remembers(panel[p], s) EXCEPT !.asks = panel[p].asks \/ panel[p].phase = "bare"]
           g == [World EXCEPT !.panel[p] = r] IN
       Becomes(IF InputsChanged(panel[p], s) THEN Arrange(g, panel[p].on) ELSE g)

\* A mapped panel that has got another layer is listed there.
Relist(g, p, s) ==
    LET o == g.panel[p].on IN
    IF g.panel[p].layer = s.layer THEN g
    ELSE [g EXCEPT !.monitor = Enlist(Unlist(g.monitor, o, p), o, p, s.layer),
                 !.panel[p].layer = s.layer]

Echo(same) == IF same THEN {"echo"} ELSE {}

\* Mutant: the output is arranged whatever was committed.
MappedCommitAlways(g, p, s, same) ==
    LET kept == Relist(Keeps(g, p, s), p, s) IN
    CursorFocus([Arrange(kept, g.panel[p].on) EXCEPT !.fault = @ \cup Echo(same)])

\* commit_handler() of a mapped panel: a commit that is the same as the last sends no configure,
\* which the client would answer with a commit.
MappedCommit(g, p, s, same) ==
    LET kept == Relist(Keeps(g, p, s), p, s) IN
    IF ~InputsChanged(g.panel[p], s) THEN CursorFocus(kept)
    ELSE CursorFocus([Arrange(kept, g.panel[p].on) EXCEPT !.fault = @ \cup Echo(same)])

CommitPanel(p, s) ==
    /\ panel[p].phase = "mapped"
    /\ \E g \in MappedCommit(World, p, s, s = panel[p].cur) : Becomes(g)

\* map_handler(), and the commit with the first buffer that follows it at once.
MapPanel(p, s) ==
    /\ panel[p].phase = "asked" /\ ~panel[p].asks
    /\ LET mapped == [World EXCEPT !.panel[p] = [panel[p] EXCEPT !.cur = s, !.phase = "mapped"]] IN
       \E g \in CursorFocus(Arrange(mapped, panel[p].on)) :
       \E h \in MappedCommit(g, p, s, FALSE) : Becomes(h)

\* The workspace of an output forgets a panel, and the keyboard leaves it.
Forgotten(s, p, o) ==
    [s EXCEPT !.layer[o] = IF s.layer[o] = p THEN Nothing ELSE s.layer[o],
              !.keyboard = IF s.layer[o] = p THEN Nothing ELSE s.keyboard]

\* Mutant: the panel leaves without the others being arranged.
UnmapQuiet(g, p) ==
    LET o == g.panel[p].on IN
    [g EXCEPT !.panel[p].phase = "bare", !.monitor = Unlist(g.monitor, o, p),
              !.seat = Forgotten(g.seat, p, o)]

\* unmap(), up to the pointer.  The panel is in no list from now on.
Unmap(g, p) ==
    LET o == g.panel[p].on
        left == Arrange([g EXCEPT !.panel[p].phase = "bare", !.monitor = Unlist(g.monitor, o, p)], o)
    IN  [left EXCEPT !.seat = Forgotten(g.seat, p, o)]

UnmapPanel(p) ==
    /\ panel[p].phase = "mapped"
    /\ \E g \in CursorFocus(Unmap(World, p)) : Becomes(g)

\* hikari_layer_fini(): the popups of the panel's list are let go, its memory is freed.
Fini(g, p) ==
    [g EXCEPT !.panel[p] = NoPanel, !.monitor = Unlist(g.monitor, g.panel[p].on, p),
              !.popup = [q \in Popups |-> IF g.popup[q].owner = p THEN NoPopup ELSE g.popup[q]]]

\* wlr_layer_surface_v1_destroy(): unmap_handler(), if the panel is mapped, then destroy_handler().
Destroyed(g, p) ==
    IF g.panel[p].phase = "mapped" THEN {Fini(h, p) : h \in CursorFocus(Unmap(g, p))}
    ELSE {Fini(g, p)}

DestroyPanel(p) ==
    /\ panel[p].phase # "none"
    /\ \E g \in Destroyed(World, p) : Becomes(g)

\* hikari_workspace_quit_view() destroys the panel that has the focus.
Quit == seat.layer[seat.on] # Nothing /\ DestroyPanel(seat.layer[seat.on])
-----------------------------------------------------------------------------
(* Popups                                                                  *)

\* Mutant: a popup is kept by its parent, if that is a panel.
OwnerDirect(parent) == IF parent \in Panels THEN parent ELSE Nothing

\* get_layer(): the panel at the root.
Owner(parent) == IF parent \in Panels THEN parent ELSE popup[parent].owner

\* new_popup_handler() of a mapped panel, and new_popup_popup_handler() of a popup that is kept.
OpenPopup(q, parent) ==
    /\ popup[q] = NoPopup
    /\ IF parent \in Panels THEN panel[parent].phase = "mapped" ELSE popup[parent] # NoPopup
    /\ popup' = [popup EXCEPT ![q] = [parent |-> parent, owner |-> Owner(parent)]]
    /\ UNCHANGED <<panel, monitor, seat, fault>>

\* destroy_popup_handler(); wlroots destroys the popups of a popup before it.
ClosePopup(q) ==
    /\ popup[q] # NoPopup
    /\ \A r \in Popups : popup[r].parent # q
    /\ popup' = [popup EXCEPT ![q] = NoPopup]
    /\ UNCHANGED <<panel, monitor, seat, fault>>
-----------------------------------------------------------------------------
(* Monitors                                                                *)

\* hikari_output_update_geometry() starts anew from the bar.
ResetArea(g, o) == [g EXCEPT !.monitor[o].usable = Base(g.monitor[o].height)]

\* Mutant: the panels are left to their next commit.
LayoutChangedQuiet(g) ==
    [g EXCEPT !.monitor = [o \in Monitors |->
        IF g.monitor[o].on THEN [ResetArea(g, o).monitor[o] EXCEPT !.pending = TRUE]
        ELSE g.monitor[o]]]

\* An output is arranged anew and its views are laid out.
Relaid(g, o) == [Arrange(ResetArea(g, o), o) EXCEPT !.monitor[o].pending = TRUE]

\* output_layout_change_handler(): all outputs in the layout.
LayoutChanged(g) ==
    FoldSet(LAMBDA o, h : Relaid(h, o), g, {o \in Monitors : g.monitor[o].on})

ResizeMonitor(o, h) ==
    /\ monitor[o].on
    /\ Becomes(LayoutChanged([World EXCEPT !.monitor[o].height = h]))

NoMonitor == [plugged |-> FALSE, on |-> FALSE, height |-> 0, usable |-> Base(0), pending |-> FALSE,
             laid |-> Base(0), list |-> [l \in 1 .. Layers |-> <<>>]]

\* hikari_output_init().
PlugMonitor(o, h) ==
    /\ ~monitor[o].plugged
    /\ Becomes(ResetArea(LayoutChanged([World EXCEPT
           !.monitor[o] = [NoMonitor EXCEPT !.plugged = TRUE, !.on = TRUE, !.height = h]]), o))

\* evacuate_output() gives the focus to the workspace of another output.
Evacuated(s, into) == FocusView(s, into, FALSE)

\* hikari_output_set_wants_enabled(): the panels stay where they are.
SwitchOffMonitor(o, into) ==
    /\ monitor[o].on /\ into # o /\ monitor[into].on
    /\ MayLeave(seat, into) /\ ("remembered" \in PanelRaces \/ seat.layer[o] = Nothing)
    /\ Becomes(LayoutChanged([World EXCEPT !.monitor[o].on = FALSE, !.seat = Evacuated(seat, into)]))

\* The layout change has arranged the panels when the usable area starts anew.
SwitchOnMonitor(o) ==
    /\ monitor[o].plugged /\ ~monitor[o].on
    /\ "reenabled" \in PanelRaces \/ Stack(monitor, o) = <<>>
    /\ Becomes(ResetArea(LayoutChanged([World EXCEPT !.monitor[o].on = TRUE]), o))

\* close_layers(), with the bar gone already: no area is left to be right.
Closed(G, p) == UNION {Destroyed(g, p) : g \in G}
ClosedAll(G, stack) == FoldLeft(Closed, G, stack)

\* hikari_output_fini() closes the panels it has listed.
UnplugMonitor(o, into) ==
    /\ monitor[o].plugged /\ into # o /\ monitor[into].on
    /\ "orphan" \in PanelRaces \/ \A p \in Panels : panel[p].phase = "bare" => panel[p].on # o
    /\ \E g \in ClosedAll({World}, Reverse(Stack(monitor, o))) :
          /\ MayLeave(g.seat, into)
          /\ Becomes(LayoutChanged([g EXCEPT !.monitor[o] = NoMonitor, !.seat = Evacuated(g.seat, into)]))

\* The idle callback of the reflow.
Reflow(o) ==
    /\ monitor[o].pending
    /\ monitor' = [monitor EXCEPT ![o].pending = FALSE, ![o].laid = monitor[o].usable]
    /\ UNCHANGED <<panel, seat, popup, fault>>
-----------------------------------------------------------------------------
PanelsInit ==
    /\ panel = [p \in Panels |-> NoPanel]
    /\ \E h \in Heights :
          monitor = [o \in Monitors |->
                    [NoMonitor EXCEPT !.plugged = TRUE, !.on = TRUE, !.height = h,
                                     !.usable = Base(h), !.laid = Base(h)]]
    /\ seat \in [on : Monitors, view : {FALSE}, layer : {[o \in Monitors |-> Nothing]}, keyboard : {Nothing}]
    /\ popup = [q \in Popups |-> NoPopup]
    /\ fault = {}

\* Without "early" a client's first commit is read with the request that creates the panel.
Calm == "early" \in PanelRaces \/ \A p \in Panels : panel[p].phase # "new"

PanelsNext ==
    \/ \E p \in Panels, s \in LayerStates : FirstCommit(p, s)
    \/ /\ Calm
       /\ \/ \E p \in Panels, o \in Monitors : Create(p, o)
          \/ \E p \in Panels, s \in LayerStates : EarlyCommit(p, s) \/ MapPanel(p, s) \/ CommitPanel(p, s)
          \/ \E p \in Panels : UnmapPanel(p) \/ DestroyPanel(p)
          \/ PointerMoves \/ Quit
          \/ \E q \in Popups : ClosePopup(q) \/ \E r \in Panels \cup Popups : OpenPopup(q, r)
          \/ \E o \in Monitors :
                \/ Reflow(o) \/ SwitchOnMonitor(o)
                \/ \E h \in Heights : ResizeMonitor(o, h) \/ PlugMonitor(o, h)
                \/ \E into \in Monitors : SwitchOffMonitor(o, into) \/ UnplugMonitor(o, into)

PanelsSpec == PanelsInit /\ [][PanelsNext]_panelVars
-----------------------------------------------------------------------------
PanelsTypeOK ==
    /\ panel \in [Panels -> [phase : {"none", "new", "asked", "mapped", "bare"},
                             on : Monitors \cup {Nothing}, cur : LayerStates \cup {Nothing},
                             layer : 1 .. Layers, zone : Zones \cup {0}, asks : BOOLEAN, y : Nat]]
    /\ seat \in [on : Monitors, view : BOOLEAN, layer : [Monitors -> Panels \cup {Nothing}],
                 keyboard : Panels \cup {"view", Nothing}]
    /\ popup \in [Popups -> [parent : Panels \cup Popups \cup {Nothing}, owner : Panels \cup {Nothing}]]
    /\ fault \subseteq {"uninitialised", "echo"}

\* The panels that take a strip of an output.
Takers(o) == {p \in Panels : panel[p].phase = "mapped" /\ panel[p].on = o /\ panel[p].cur.zone > 0}

\* Views are laid out, or about to be, in what the bar and the mapped panels leave of an output,
\* by what the panels said last ("impossible for one arrangement path to forget it", layer_shell.c:270).
AreaIsCurrent ==
    \A o \in {u \in Monitors : monitor[u].on} :
        LET taken == BarHeight + MapThenSumSet(LAMBDA p : panel[p].cur.zone, Takers(o)) IN
        /\ monitor[o].usable = [y |-> taken, h |-> Max({0, monitor[o].height - taken})]
        /\ monitor[o].laid = monitor[o].usable \/ monitor[o].pending

\* Two mapped panels that reserve a strip of one output do not share a row.
StripsAreApart ==
    \A o \in Monitors : \A p, q \in Takers(o) :
        p # q => panel[p].y + panel[p].cur.zone <= panel[q].y \/ panel[q].y + panel[q].cur.zone <= panel[p].y

\* A client that waits for a configure has got it, and a commit that changes nothing sends none.
ClientsAreAnswered == fault = {} /\ \A p \in Panels : ~panel[p].asks

\* A panel is in one list, of its own output and its own layer, until it is unmapped; a monitor
\* that is gone has left no panel behind.
PanelsHaveAPlace ==
    \A p \in Panels :
        /\ panel[p].phase # "none" => monitor[panel[p].on].plugged
        /\ panel[p].phase = "mapped" => panel[p].layer = panel[p].cur.layer
        /\ \A o \in Monitors : \A l \in 1 .. Layers :
              Cardinality({i \in DOMAIN monitor[o].list[l] : monitor[o].list[l][i] = p}) =
                  IF panel[p].phase \in {"new", "asked", "mapped"} /\ panel[p].on = o /\ panel[p].layer = l
                  THEN 1 ELSE 0

\* The keyboard is where the focused workspace says, and no workspace remembers a panel that is
\* not on the screen.
KeyboardIsFocused ==
    /\ seat.keyboard = IF seat.layer[seat.on] # Nothing THEN seat.layer[seat.on]
                       ELSE IF seat.view THEN "view" ELSE Nothing
    /\ \A o \in Monitors : seat.layer[o] # Nothing => /\ panel[seat.layer[o]].phase = "mapped"
                                                  /\ panel[seat.layer[o]].on = o

\* From a popup that is kept the way up to its panel is one through live memory.
PopupsHaveAPanel ==
    \A q \in Popups : popup[q] # NoPopup =>
        /\ popup[q].owner # Nothing
        /\ panel[popup[q].owner].phase \in {"mapped", "bare"}
        /\ IF popup[q].parent \in Panels THEN popup[q].parent = popup[q].owner
           ELSE popup[popup[q].parent].owner = popup[q].owner

\* What a panel, its client and its monitor may count on, whatever comes and goes.
PanelsAreSound ==
    /\ PanelsTypeOK /\ AreaIsCurrent /\ StripsAreApart /\ ClientsAreAnswered
    /\ PanelsHaveAPlace /\ KeyboardIsFocused /\ PopupsHaveAPanel
=============================================================================
