# A TLA+ development of hikari-sakura

hikari-sakura is a stacking Wayland compositor in C with tiling layouts. It is
one process and one thread, a `wl_event_loop` whose handlers run to completion,
beside a few helper processes: the PAM helper of the screen locker
(`hikari_unlocker.c`) and the sensor helper of the top bar (`topbar.c`). This
directory models it in TLA+, checks the models with TLC and proves theorems
about them with TLAPS.

## The system

| Part | State it keeps | Operations | What is hard | What makes it correct |
|---|---|---|---|---|
| Screen locker (`lock_mode.c`, `lock_indicator.c`) | typed text, attempt number, pipes, event source, child pids, blank timer, indicator | lock, keys, submit, reply, hangup, reap, blank, unlock | a second process that may answer late, die or be replaced; every system call can fail | only the password of the last attempt opens the session; no attempt is left waiting for nobody; no child is forgotten |
| PAM helper (`hikari_unlocker.c`) | request being checked, PAM's words | read, converse, reply, exit | crash at any point, messages of an older attempt | a reply is about the request it names |
| Views, sheets, workspaces, groups (`view.c`, `workspace.c`, `sheet.c`, `group.c`) | flags hidden and forced, four lists of visible views, scene nodes, remembered focus, displayed sheet | map, unmap, show, hide, focus, pin, migrate, evacuate, switch sheet, lock, unlock | a client, the user, a monitor and the lock change the same flags in any order | flags, lists, scene and focus agree; an unlock undoes a lock |
| Pending operations and tiles (`view.c`, `tile.c`, `maximized_state.c`, `xdg_view.c`) | one pending operation per view, dirty flag, tile, maximization | queue, acknowledge, commit, cancel | the client answers when it likes, requests come meanwhile | no operation overwrites one in flight; no tile is freed twice or leaked |
| Reflow (`reflow.c`, `layout.c`) | queue of sheets, one idle source | schedule, settle, drain, cancel | deferred work meets drags, locks, unmaps | a sheet that wants a re-tile gets it; nothing is laid out that is not displayed |
| Outputs (`output.c`, `output_management.c`) | list, layout, `wants_enabled`, fallback output | plug, unplug, switch off and on, apply a configuration | monitors vanish below windows; a configuration fails half-way | no window is stranded or refers to a freed workspace |
| Modes (`*_mode.c`, `server.c`) | the current mode and its data | enter, keys, cancel | a client or monitor ends a mode from outside | a mode never outlives what it works on |
| Layer shell (`layer_shell.c`) | lists of panels per layer, usable area, focused panel, popups | create, commit, map, unmap, destroy, arrange | a panel's and a monitor's lives cross | each panel is configured, listed and arranged when it should; no window lies under a reserved strip |
| X11 windows (`xwayland_view.c`, `xwayland_unmanaged_view.c`) | a wrapper per window, its listeners, scene tree and output; X's own idea of where it is | create, associate, map, configure, commit, dissociate, change of kind, move, migrate, evacuate | the surface changes under a mapped window, a window becomes a menu; two programs keep its place | every wrapper hears the surface it has; a window is hit where it is drawn; X and the compositor agree where it is |
| Motion (`animation.c`, `frame_handler()` of `output.c`) | where each window was, is drawn and will be; the frames scheduled | set off, send on, snap, frame, cancel, switch the session, reload | the window is clicked, sent on, migrated or unmapped half way; a commit fails | no motion leaps or stays parked |
| Foreign toplevels, IPC, activation | handles, connections | requests of other programs | they come in every mode | they act only where it is legal |
| Touch and gestures (`cursor.c`, `touch.c`) | fingers, the primary one, the press it made, the gesture forming | down, motion, up, cancel, claim, replay | a gesture takes fingers back that clients heard of; the lock or an unplugged device comes between | every client hears how each finger ends, once |
| Pointer constraints (`pointer_constraints.c`, `cursor.c`) | the active constraint | activate, deactivate, confine | the holder disappears | a hold never outlives its window |
| Top bar and helper (`bar.c`, `topbar.c`) | pid, pipe, line buffer, scroll timer, painted picture and its key | start, read, stop, paint, hide | death, partial and overlong lines, a cache | the bar shows what a fresh paint would, from whole lines |
| Layout arithmetic (`split.c`, `geometry.c`) | none | split, constrain, scale | small screens, rounding | boxes are inside the screen, apart, and never empty; a re-tile changes nothing |
| Configuration (`configuration.c`, `config_lua.c`) | the current configuration | load, reload | a reload that fails | it changes nothing |

They interact by direct calls in the one thread (a view calls its workspace,
the workspace the server, the server the mode), by wlroots signals (a client's
map, commit, destroy; a monitor's arrival and loss), by idle sources and timers
(reflow, blanking, reaping) and, with the helpers, by pipes. `PROJECT.json`
lists every part with its sources and what is modelled of it, and every hazard
with the line where it bites.

## Modules

* `ScreenLock`: what a lock screen promises, without processes or pipes: the
  session opens only by a grant of the last attempt, and only for the password.
* `Unlocker`: the locker and its helpers. One action per handler of the
  compositor (`Enter`, the keys, `Submit...`, `Result...`, `ReapTick`, the two
  timers) and per step of a helper (`HelperRead`, `HelperSay`, `HelperReply`,
  `HelperExit`, `HelperDie`). Pipes are sequences of requests and replies;
  `locker_pipe`'s two ends are one variable, because every handler opens and
  closes them together. PAM is a verdict that accepts `Password` and may refuse
  anything. `Faults` names the calls that may fail.
* `ScreensProofs`: theorems about it, and about `Outputs`. (The two share no
  variable; they are in one module because the screens are what the locker darkens.)
* `Visibility`: views, workspaces, focus, the lock and the monitors, one action
  per handler. `hidden`, `forced` and `public` are the flags; `linked` is the
  workspace in whose list of visible views a view is, and stands for the
  server's and the group's list too, which `view_link_visible_at()` and
  `view_unlink_visible()` change together with it; `lit` and `onLock` are the
  scene node's enabled bit and layer; `focus` and `layered` are a workspace's
  `focus_view` and `focus_layer`. What the pointer is over is a choice, made
  anew each time a handler asks with `hikari_server_cursor_focus()`; so is which
  views are flagged invisible, share a group or are tiled. All modes but the
  normal and the lock mode are one, "modal". An `assert()` that fails sets
  `failed`, after which the program does nothing more.
  `VisibilityProofs`: theorems about it.
* `Operations`: how a view changes its arrangement. `view[v]` holds the pending
  operation (`op`, "none" when the view is not dirty), its tile (`pending`), the
  view's own `tile`, `maximized`, `fullscreen`, and which box `current_geometry`
  points into; `parked` is what the client asked for meanwhile. A tile is the
  sheet in whose layout it is; `Loose` is a detached one, which the view keeps
  until a reset frees it. `layouts` are the sheets with a layout. `queued` and
  `armed` are the queue and the idle source of `reflow.c`, `moving` is the move
  mode, which holds it back. One action per handler: of the client (`Map`,
  `Unmap`, `Destroy`, `Answer`, `Adopt`, `Request`), a panel
  (`PanelFullscreen`, `Maximize`), the user, a monitor, the event loop
  (`Drain`). The queue and commit functions are operators on the state of one
  view. Sizes and the order of a sheet's list are left out, so that these are choices:
  whether an operation finds the view at its size and so takes effect at once, which views
  the containers of a layout take, and which view of a sheet is above which. Of a
  raise, its assertions are what is left; of the policy, on-insert is a choice at each
  re-tile. A failed `assert()` sets `fault`.
  `OperationsProofs`: theorems about it.
* `Outputs`: monitors (`output.c`) and the protocol that configures several at
  once (`output_management.c`). `out[o]` has what `struct hikari_output` and
  wlroots know of a monitor (lit, enabled, wanted, its list link, scene output,
  place, bar), `told` is what clients were last told, `home` follows one window
  and `current` the current workspace. Actions: `Plug...`, `Unplug`, `Test`,
  `Apply...`, `RequestState`, `Reload`, the lock's `DisableOutputs` and
  `EnableOutputs`, `CycleWorkspace`. A monitor is one wide and `x` its place.
  `OutputFaults` names the calls that may fail: the commit, the scene output, the
  backend's apply, the publication. Theorems about it are in `ScreensProofs`.
* `Touch`: fingers and touchpad gestures (`cursor.c`, `touch.c`). `finger` is the
  hardware, `cur` what the compositor and the seat keep of it (points, the
  primary finger that acts as a pointer, the press it made, which client heard
  of which finger), `pad` a gesture of the touchpad. Distances and times are left
  out: a recognition may succeed whenever the numbers of fingers allow it, and a
  binding may enter a mode, lock the screen or do neither. `TouchProofs`: theorems
  about it.
* `Constraints`: pointer constraints (`pointer_constraints.c`) and everything
  that ends one. `h.active` is the hold, `h.told` what each client believes,
  `h.over` what is under the cursor and `h.focus` what the seat says is, which
  differ between a change and the next question. `ConstraintsProofs`: theorems
  about it.
* `Control`: the modes, what they keep (a sheet, a group, a mark, a completion, a
  pending action), and what comes from outside meanwhile: clients, monitors,
  gestures, switches, a drag, the control socket (`ipc.c`). Groups and marks are
  here too. `Freed` marks a pointer to freed memory; following one sets
  `h.fault`. `ControlProofs`: theorems about it.
* `Bar`: the top bar and the process that feeds it (`bar.c`). Each line has a
  head and a tail, so that it can be read in part; `source` is the compositor's
  end. `bar[o]` has the picture last painted and its cache key; the model
  compares that picture with the one a fresh paint would make. The lower half is
  the fullscreen windows that take a bar off the screen. `EdgesProofs`, its first
  part: theorems about it.
* `Panels`: layer-shell panels (`layer_shell.c`): creation, first commit,
  arrangement, exclusive zones, keyboard, popups, and the monitors below them.
  Space is one column per monitor and every panel is at the top; `fault` collects
  assertions of wlroots that would fail, memory used after it was freed, and a
  configure sent in answer to a commit that changed nothing. `EdgesProofs`, its
  second part: theorems about it.
* `Layouts`: what a layout makes of a sheet (`split.c`, `sheet.c`, `geometry.c`)
  as functions on boxes of integers: splits, scales in tenths, the six tiling
  algorithms; and the actions around them: opening and closing, applying,
  `Restack`, `Exchange`, and the moves, snaps and resizes that go through the
  same arithmetic. `last` remembers whether a layout has just been applied, `fault`
  that a split was left with a share of no pixel.
* `XWindows`: X11 windows. `x[w]` is X's side (the `wlr_xwayland_surface`: its
  surface, its attribute override_redirect, its place `at` in the layout),
  `wrap[w]` the compositor's: a managed view or an unmanaged menu, the surfaces it
  hears (`heard`, `commit`) and displays (`tree`), its output, the box that is hit
  (`geo`, relative to the output) and where its tree is (`node`). `owes` says that
  the window asked for, or was told of, a place it has not committed yet. Space has
  one dimension; whether a commit also brings another size is a choice. A managed window, of X or not, also travels (`motion`, the
  `struct hikari_animation`): from where it is drawn to `geo`, at each `Frame` of
  its output, for which `out[o].due` says that one has been scheduled.
  `XWindowsProofs`: theorems about it.
* `MCUnlocker`, `MCVisibility`, ... : the instances of each for TLC.

The modules divide the compositor by state, and overlap in events: a monitor
that goes is `Unplug` of `Outputs`, `Visibility`, `Control`, `UnplugMonitor` of `Panels`
and an action of `Operations`, each with what it does to that module's state, the rest being a
choice. So `Visibility` has flags, lists, scene, focus and the lock, and leaves
operations as a choice; `Operations` has tiles and boxes, and lets a key act on
any view shown, which includes whatever has the focus; `Layouts` has the sizes the
other two leave out, with clients that answer at once.

Handlers run to completion, so each is one action. Where a handler calls others
that change the same state several times, the state is a record threaded
through operators (a *seat* in `Visibility`, `g` in `Control`, `Constraints` and
`Panels`, `c` in `Touch`), and an operator whose result depends on what the
pointer is over, or on what a binding does, returns the set of possible records.

### `Races`

Some orders of events break a property. Each is guarded by a name in the constant
`Races` of its module: with `Races = {}`, as in every run, those steps are left
out, and the run shows that *nothing else* breaks the properties. Adding a name
to a configuration makes TLC show the counterexample. They are, by module:

* `Visibility`. `quit`: a window another workspace remembers as its focus unmaps
  while the lock has forced it; the branch for forced windows (`view.c:1614`) does
  not clear that focus. `modal`: `clear_focus()` leaves the modal mode before it
  clears, and the pointer may be on another output, whose workspace is then
  cleared instead. `layer`: `focus()` in `layer_shell.c`, and a migration, look at
  the focused workspace's fields, not at those of the workspace they give the
  focus. `withdrawn`: an unmapped view keeps `view->sheet`, and is not evacuated
  when the monitor goes. `off`, `blind`: the last monitor is switched off and on,
  or the screen unlocks with none, and views on the fallback output are not walked.
  `activate`, `plug`: an activation request, or the first monitor, comes outside
  the normal mode and focuses (an assertion, compiled out of release builds).
* `Operations`. `overwrite`: the horizontal maximize key (`view.c:2218`) has no
  test of the dirty flag, against the rule stated at `view.c:2390`. `toggle`,
  `pin`, `unplug`: a view whose first tile is still in flight is taken for
  untiled by the keys, by a pin to another sheet, and by the evacuation of a
  monitor. Two more end in an assertion (compiled out of release builds). `raise`: a
  sheet is tiled again by itself with on-insert "prepend" while a hidden view on it has
  no tile; `raise_prependable()` (`layout.c:112`) does not look at the flag, and
  `hikari_view_raise()` asserts it (`view.c:1790`). The restack keys cannot get there:
  they display the sheet first, which shows its views. `below`: a layout is
  applied while the focused view is the topmost of the screen and a hidden view of
  the sheet is above it in the sheet's list; `hikari_view_raise()` returns at once,
  and `hikari_workspace_apply_split()` asserts that the focused view is the sheet's
  first (`workspace.c:1080`).
* `Outputs`. `dark`: a client's configuration switches a monitor on while the lock
  keeps the screens dark, or switches on one of the desktop that the unlock failed to
  light: the backend's commit lights it and the compositor does not know. `lastOff`: the last monitor that is on is switched
  off, or unplugged while others are listed but off. `unlisted`: a
  monitor that failed to light is unplugged, its link not being in the list.
  `cycle`: the workspace is cycled with no monitor (`hikari_output_next()` returns
  NULL, `workspace.c:88` follows it). `half`: the commit that rolls a plug back
  fails too.
* `Touch`. `pending`: claiming a gesture runs a pending action that locks the
  screen, and the gesture's binding runs all the same (`cursor.c:878`).
* `Constraints`. `unmapped`: a constraint is refreshed while the seat's pointer
  focus is a surface whose window has been unmapped and not destroyed
  (`pointer_constraints.c:470`).
* `Control`. `gesture`: a gesture's action runs inside a modal mode
  (`cursor.c:565`). `panel`: an input grab ends over a panel that takes the
  keyboard. `reload`: the configuration is reloaded between a press and its
  release, which then runs a freed action (`normal_mode.c:48`). `modal`, `quit`: as
  in `Visibility`.
* `Bar`. `colours`: a reload changes a colour, which no cache key holds
  (`bar.c:660`). `moved`: an output comes to a new place with the size its bar was last
  painted at (it moves and keeps its size, or does so in two steps while the lock
  keeps it dark), and the cache hit returns before the bar is placed. `leaves`: a fullscreen window leaves by
  migration or evacuation, and the bar of the output it was on stays away
  (`view.c:3106`).
* `Panels` (its constant is `PanelRaces`). `early`: an output is arranged between a panel's creation and its
  first commit, and the panel configured before it is initialised
  (`layer_shell.c:233`, against the comment at 443). `again`: an unmap takes the
  panel out of its list and nothing relists it (`layer_shell.c:953`, against 956).
  `orphan`: a monitor closes only listed panels (`output.c:418`). `reenabled`:
  switching on resets the usable area without arranging (`output.c:902`).
  `remembered`: the keyboard leaves a panel for another output, and a later unmap
  clears the keyboard of a window (`layer_shell.c:986`).
* `Layouts`. `overfull`: a grid that may hold fewer windows than there are fills
  every cell and then skips one window (`sheet.c:213`). `limited`: a layout that
  holds fewer windows than have a tile leaves the old tiles under the new ones.
  `turned`: an orientation whose dominant side is the second has its scale turned
  at configuration and again when the split is copied (`split.c:84` and `:226`), so
  that a dynamic scale goes to the wrong half and each re-tile changes the boxes.
  `narrow`: a layout with a split is applied on a monitor too small for it
  (`Tiny`): a share comes out as 0 pixels, which `split.c:52` asserts it does not (a
  negative one passes, and is left to the clamps).
* `XWindows`. `withdrawn`: a wrapper that is not mapped keeps its `workspace` when
  the monitor goes, for only listed ones are evacuated (`output.c:972`), and the
  next map follows it. `moved`: a monitor moves below a menu, whose box stays
  relative to the old place. `asked`: a monitor goes between a menu's configure and
  its commit, which then finds the box up to date and leaves the tree where it was
  (`xwayland_unmanaged_view.c:569`). `first`: the first monitor takes windows over
  after X was told the layout. `layout`: the layout changes while an operation is in
  flight, and X is told the place before it (`output.c:1036`), or while a window
  travels, whose node is placed and whose motion does not know (`server.c:1370`).
  `answer`: a window migrates to a monitor where it has another size, and its node
  stays where it was until the client answers, though it is looked for on the new
  monitor (`view.c:3037`). `drag`: a window is
  dragged while the layout's operation is in flight. `equal`: a window is tiled
  without a change of size, which is committed at once and of which X hears nothing
  (`view.c:1899`); its next commit takes it back.

## Runs

| Run | Question | Instance |
|---|---|---|
| `unlocker_lock` | Is the lock sound, and are children, text and timer kept in order, when a pipe, a fork, a source or a helper fails? Does `Unlocker` implement `ScreenLock`? Is every attempt decided, and every child reaped? | two pids, so that a helper is replaced while its predecessor still closes; one parked slot, so the table fills; a buffer of three bytes and a key of two, so that the second press meets its end; two attempts, so one can be superseded |
| `visibility_safety` | Do flags, lists, scene, focus and outputs agree in every order of events; is an unlock the inverse of a lock? | two views and two monitors beside the fallback: enough for a view per monitor, an empty output, a monitor leaving with another or none left; two sheets, 0 (always shown) and 1, which is hidden while 0 is displayed |
| `operations_layout` | Are tiles, layouts, operations in flight and the deferred tiling consistent whatever comes between a configure and its answer? | two views, so that a layout outlives a tile and views exchange; two monitors, so that views migrate and are evacuated; one sheet per monitor |
| `operations_requests` | What becomes of the requests of a client and of the user while the slot is taken? | one view on one monitor: requests touch no other view; two sheets, so that a layout, an operation and a parked request meet a hidden view; both axes |
| `outputs_desktop` | Are monitors, places, publications and windows consistent whatever fails; is a configuration all or nothing; does a dark screen stay dark? | two monitors and the fallback, two places, every fault: a head that fails beside one that does not, the last monitor and the one before |
| `touch_fingers` | Does every client hear how each finger ends; are presses paired with releases; can the recogniser wait for a finger that never lifts? | three points tracked and a fourth finger beyond them; two touchscreens, so that one is unplugged while the other is touched; a client with and one without touch |
| `constraints_holds` | Do client and compositor agree on who holds the pointer, and is the holder on the screen? | two windows and a popup of one; locks, one-shot locks and confinements |
| `control_modes` | Does a mode always have what it works on and leave nothing behind; do views, groups and marks agree? | two of each, so that names are taken over and a mode's window, monitor or group goes while another stays; one connection |
| `bar_true` | Does each bar show what a fresh paint would, from whole lines, above all but fullscreen windows? | a pipe of three parts and a line limit of three, so that lines are cut, overlong and many at once; block texts below and above the limit that makes them scroll; two outputs |
| `panels_sound` | Are panels configured, listed and arranged when they should, is the reserved space theirs and the keyboard somebody's? | two panels, two layers, two popups (one may be the other's), two outputs; zones that ignore, and that reserve |
| `layouts_sound` | Are boxes inside the screen, apart and without remainder, and has each split a pixel to give; does a re-tile change nothing; do moves keep a window in reach? | three windows; a roomy monitor, a cramped one in which the clamps make boxes overlap while each split still has a pixel to give, and a tiny one, narrower than its gaps, on which only the grid is applied; a grid, a fixed split filled from its second half, and a dynamic split with an empty and a full container |
| `xwindows_wrapped` | Do wrappers follow the surface and the kind of their window; do X and the compositor agree where it is, and is it hit where it is drawn; does a motion ever leap, or not end? | one window, since wrappers meet only in the lists of the outputs; a surface that goes and comes; two monitors and the fallback at two places; two places on a monitor, and motions of two ticks, so that a frame, an input or a failed commit falls between |

Bounds. `MaxSeq` caps the attempts and `Pids` the forks of `Unlocker`; `MaxX` the
places of `Outputs`; `MaxPoints`, `MinFingers` and `MaxUpdates` the fingers and
the updates of one gesture in `Touch` (the first is a constant of the code, made
small so that it is exceeded); `MaxClients` the connections; `MaxPipe` and
`MaxLine` the pipe and the line of `Bar`. `Visibility`, `Operations`,
`Constraints`, `Panels`, `Control` and `XWindows` are finite by themselves. Three runs have a
CONSTRAINT, which leaves out combinations of parts that meet in one place only: `Apart` of
`MCBar` (while the helper's pipe is open no window is mapped), `Apart` of
`MCPanels` (while a popup is open nobody has the keyboard and no reflow is due), and `OneByHand` of
`MCLayouts` (at most one window is off its tile by hand). `Keys` and
`Asks` of `Operations` divide the keys and requests among its two runs: floating
and invisible do the same to a tile, so that only the second, which a sheet also
treats apart, is in `operations_layout`. Its policy has `auto` and
`reflow-on-close` on.

`TypeOK` is a conjunct of `AssertionsHold`, `ScreenIsNotDeaf`,
`ClientAndCompositorAgree`, `WrappersAreSound`, `ScreenSound`, `DesktopConsistent`,
`ModesAreSound`, `BarIsTrue`, `PanelsAreSound` and `LayoutsAreSound`. `PanelsAreSound`,
`BarIsTrue`, `LayoutsAreSound`, `WrappersAreSound` and `PlacesAgree` are each the
conjunction of named parts, commented where they are defined.

Fairness is assumed in two runs. In `unlocker_lock` the event loop runs a result
handler whose descriptor is ready and a timer that has expired
(`WF(Result)`, `WF(ReapTick)`), and a helper process that can run does
(`WF(HelperRuns(p))`): PAM returns. No timer fails to be created there: without the
reaper's, a child is left, and that run leaves `"timer"` out of `Faults`; the
theorems below cover it. In `xwindows_wrapped` the backend delivers a frame that
has been scheduled (`WF(Frame(o) /\ out[o].due)`); that one is scheduled whenever
something moves is what `Lands` checks. Nothing is assumed of the user or of
clients, so the other modules state no liveness: what has to happen in them
happens within a handler, or waits for a client that need not answer.

## Proofs

`ScreensProofs` proves, for every set of pids, keys and texts, every size and
every set of faults, all the safety properties that `unlocker_lock` checks on its
two processes and one text:

* `TypeCorrect` (`TypeOK`) and `AttemptIsAwaited`, together inductive: an attempt
  is undecided exactly while a source watches an open pipe.
* `ChannelIsHonest` (`HonestChannel`): everything in the open channel with the
  number of the undecided attempt is about its text. It is inductive given the
  two above, and is the strengthening the refinement needs: without it a reply in
  the pipe could be about anything.
* `LockerKeepsItsPromise`: `Spec => Implements`, that is, `Unlocker` implements
  `ScreenLock`. Every step maps to a step of the abstract lock or to a stutter;
  the one interesting case, `ResultUnlock`, is `VerdictIsCurrent` and
  `UnlockIsGranted`.
* `ScreenIsSound`, `MessageIsCurrent`, `NothingOverrun`:
  invariants with the type invariant; `NoChildForgottenWhileLocked`: an action
  property from the same.

They rest on the named assumptions of `Unlocker` only (`PidAssumption`,
`TextAssumption`, `SizeAssumption`, `TimeoutAssumption`).

The second part of `ScreensProofs` proves, for any monitors, any number of places and any
set of faults, all four properties of `outputs_desktop`: `PublishedIsCurrent`,
`DesktopConsistent`, `DarkStaysDark` and the action property `WholeOrNothing`, for the
orders of events that `Races` names all left out. With two monitors a client's
configuration has at most two heads; the proof takes any number, in any order, with any of
them failing. The invariant is `Sound`. Its core, `Kempt`, says of each monitor by itself
that what the compositor, the layout and wlroots know of it fit together (`Good`); it is
stated for a state of the monitors and not for the variable, because the handlers thread
that state through a chain of operators and pass it from one to the next half changed. What
is between two steps of a handler is `Fit`, weaker by what that handler is about to mend.
`Telling` says that what clients were told is so, `Housing` where a window and the current
workspace may be, `Darkening` what may be lit under the lock. Two relations keep the
operators apart: `Alike` (the same monitor, but for a bar that was due and has been drawn)
and `HeadKept` (what settling one head does to the others). Folds are what makes `Outputs`
hard: a layout change walks all monitors, an apply walks the heads three times. Four lemmas
about folds are proved once: `Climbs` and `Shrinks` are the induction over a number and
over a finite set, stated for a set and not for an operator, from `WFMin` of the library;
`Iterates` and `FoldsUp` give the intermediate states of `FoldSet` and `FoldLeft` that
those two then walk. `WholeOrNothing` was corrected on the way: with three
monitors a refused configuration may leave a bar drawn that was due before, since the
layout change that takes it back draws every bar that is due. That is now part of the
property (`Unbarred`); two monitors are too few to show it. The proof rests on
`OutputsAssumption`.

`TouchProofs` proves, for any finite set of fingers and any set of points, the
safety properties that `touch_fingers` checks (`PressesArePaired`,
`ClientsHearTheEnd`, `ScreenIsNotDeaf`, `PadReplaysWhatWasMade`), for the orders of
events without "pending". The inductive invariant is `TouchIsSound`: `CursorIsSound`
about the fingers
(only points that are down are in the recogniser's table, a client that was told of
a finger has it there, the button is held for a primary finger that is down, and the
recogniser is claimed only while its table is not empty) and `PadIsSound` about the
buffered gesture of the touchpad. `Kept` is the part of it that every step within a
handler keeps, `Awake` the part that only a whole handler does.
They rest on `PointAssumption` and `ContactAssumption`.

`ConstraintsProofs` proves, for any windows, popups and requests, both properties
of `constraints_holds`, for the orders of events without "unmapped". The inductive
invariant is `HoldsAreSound`. `Base` is what every step of a handler keeps: the
client and the compositor agree, a hold is of a surface that has a constraint and
whose window is mapped or shown, an unenforceable one has its refresh queued, and the
cursor is over nothing that is not shown. `Settled` is what a look at the pointer
restores, and all that is lost while a button or a finger pins it. An unmapping
window is the reason for the two: its handler takes it from the mapped ones long
before it takes it off the screen, and looks at the pointer twice in between. The
proof rests on `ParentAssumption`, `KindAssumption` and `NoneAssumption`.

`XWindowsProofs` proves, for any windows, surfaces and outputs, any places, width
and duration, `WrappersAreSound` of `xwindows_wrapped`, for the orders of events
without "withdrawn". That the run has one window and one surface is thus no
restriction: two wrappers meet in the lists, and the proof shows that no handler of
one disturbs another. The inductive invariant is `WrappersOk`: each window is `Ok`
(the property, together with: a window without a surface is not mapped, and one that
is not alive has no surface), each wrapper and the current workspace are on an output
that is on, or the fallback (`Lit`), and nothing has been followed into freed memory.
The property itself only asks that the output exists; that it is on is what makes a
monitor that is switched off first, and unplugged afterwards, leave nobody behind.
The proof rests on `SpaceAssumption` and `NoneAssumption`.

The second part of `XWindowsProofs` builds on it and proves `PlacesAgree` of the same run, for the orders
of events that `Races` names all left out (`Races = {}`): each of them lets a state in
in which X, the compositor and the scene disagree. The invariant is `Placed`, of each
window. `Hit`: the node is at the output's place, plus the box, plus what the motion
still lacks, and not only while the window is mapped: one that is unmapped is mapped
again where it was. `Told`: X has been told the box, or the box that an operation in
flight will lead to; without the latter half the commit that ends the operation would
not preserve the property. `Shape` ties the parts of a wrapper together: only a
managed window that has been placed travels, only one that is shown has an operation
in flight. A handler of a window concerns that window (`Alone`). The handlers of the
outputs concern all: every window is `Placed` on its output already, or is among those
that `hikari_output_rearrange_xwayland_views()` tells (`Ready`), and where a window
travels or waits meanwhile is the order "layout". The proof needs of `NoneAssumption`
also that no operation is `None`.

The third part proves the action property `NeverJumps`, from the same `Races = {}`.
Three facts carry it. `Straight` is one more invariant: a window that travels is drawn
where its motion says for the motion's time. `Steady` is of every step, and is shown
along with `Placed` for each handler: a window that travels afterwards was left where
it was drawn, either because nothing happened to it or because it sets off from there,
or a frame took it to a later time of the same motion. `Nearer` is the arithmetic: at a
later time the way still to go, with C's division towards zero, is no longer. A window
that does not travel after a step is at its box by `Hit`, so that nothing is farther
from it than before.

`ControlProofs` proves, for any views, outputs, groups, marks and connections, both
properties of `control_modes`, `ModesAreSound` and `NamesAgree`, for the orders of
events that `Races` names all left out. The inductive invariant is `Sound`, in four parts: the type; `NamesOk`, which adds
to `NamesAgree` that a mapped view has a group; `FocusOk`, that a remembered view is
shown on the workspace that remembers it, and that views and the current workspace
are on monitors of the desktop; and `ModeOk`, what each mode keeps. The focus is what
makes the modes safe: a mode works on the focused view, so whatever takes the focus
away must end the mode first, and what the pointer is over at that moment may give
the focus to any other view. Hence the lemmas come in two kinds: a step keeps the names
(`SameNames`), and it keeps the mode with its view or ends it (`Went`). The proof rests
on `NoneAssumption` and `SheetAssumption` (`None` is not a sheet).

`OperationsProofs` proves, for any views, outputs and sheets, whatever the clients ask
for and the user has keys for, all five properties of `operations_layout` and
`operations_requests`: `TilesHome`, `AssertionsHold`, `NoLostReflow` and the action
properties `SlotIsKept` and `ParkedIsApplied`, for the orders of events that `Races`
names all left out (`ParkedIsApplied` where clients ask for fullscreen at all). The
runs have one or two windows and one sheet besides the shared one; the proof shows that
no handler of one window disturbs another. The queue and commit functions take one
view to one view, and so do the lemmas: `Local` is the invariant of a view by itself.
To `TilesHome` and the absence of faults it adds who owns a tile: one in a layout is
never reset (`Core`), so the commit of a reset finds none to assert about, and an
axis is never asked for while the other one is on. That a
layout key raises only what is shown is `DisplayRaisable`: it displays the sheet first.
An automatic re-tile does not, and has that of the order "raise" left out. `Home` ties
the view to the layouts and the monitors: also a window that is not mapped remembers a sheet
of a monitor that is there. `Step`, `Quiet` and `Sent` say what a handler may do to a
view, `Laid` what laying out a sheet may do. `NoLostReflow` is not inductive: an
operation in flight anywhere would satisfy it, and its monitor may go. `Awake` is: the
operation is on the monitor of the sheet that waits for it, which is only
left by handlers that settle, or with the queue of that monitor. The proof rests on
`OutputAssumption` (there is a monitor at the start, and none is called "none", the
output of no place) and `SheetAssumption`.

`VisibilityProofs` proves, for any views, monitors and sheets, all six properties of
`visibility_safety`: `Linkage`, `DesktopRestored`, `LockScreenIsPublic`, `FocusIsLive`,
`AssertionsHold` and the action property `UnlockRestores`, for the orders of events that
`Races` names all left out. The invariant has three parts. `ViewOk` is about one view:
its lists (`Listing`, of which `Linkage` is nearly all), its scene node (`Lighting`) and
what the lock owes it (`Owing`). `LockScreenIsPublic` is not inductive: a private window
that is hidden and in the lock's layer would be lit by a monitor that goes while the
screen is locked, since the window may be shown where it is moved to. That no private
window is in that layer at all, lit or not, is inductive. `Home` says where views may
be: on the monitors of the layout, or on the fallback when there is none. `SeatOk` is
about the focus, and is judged against a scene, because a handler asks what the pointer
is over in the middle of its changes, and clears the focus of what it hides before it
shows the rest: a workspace remembers only a view of its own list. That, rather than a
view that is not hidden, is what survives the lock: it hides a remembered view but
leaves it in the list, and a view the lock has brought out cannot have been remembered.
`FocusIsLive` alone would not give it back its sense at the unlock. A handler of the
user is `Reshaped` (what it shows and hides, used as the assertions ask), one of a
client is `Handled`, one of a monitor `Evacuated`; each is shown to leave views and
scene sound once, and the focus follows from the lemmas about seats. The proof rests on
`NameAssumption` and `SheetAssumption`.

The first part of `EdgesProofs` proves, for any outputs, windows, texts, separators and limits of the pipe and
the line, `BarIsTrue` of `bar_true`, for the orders of events that `Races` names all left
out. The run leaves most windows out while the helper writes (`Apart`); the proof does
not. The invariant `BarOk` has four parts. `Flowing`: in what the buffer and the pipe
hold every tail follows its head, but for the first part after the limit has cut, and the
tail that the helper owes will follow its head. That is why `lost` may be cleared at the
next whole line, although half a line may be on its way. `Ticking`: the timer is as the
configuration it was last set under has it, whatever was reloaded since. `Painted`: a
picture is determined by its key, its colour and its place, and the place is the output's
when the size is. It is not inductive with an output that may move whenever its size
changes: one that is dark is not painted, and may come back to the size with another
place, which is why `moved` is the order it is. `Covered`: an
output that is not in the desktop has no light, no window and no fullscreen answer; an
answer of "none" is right at once, and an answer of "some" is right or a window there waits
for its client, whose commit asks again. The greatest end of a line exists by
`WFMin` of the library, an induction over numbers stated for a set. The proof
rests on `LengthAssumption` and `NameAssumption` (`None` is no output, no text
and no picture).

The second part of `EdgesProofs` proves, for any finite numbers of panels and monitors, any
popups, layers, zones and heights, `PanelsAreSound` of `panels_sound`, for the orders of
events that `PanelRaces` names all left out. The run has two panels, two monitors and one
positive zone, and leaves popups out while anybody has the keyboard or a reflow is due
(`Apart`); the proof has none of these bounds. It starts from what arranging computes, which
is a fold over the panels of an output. `RowedIs` says it of a sequence that has each panel
once: the panels that reserve a strip have rows one after the other, and what is left is the
base less the sum of their zones, a sum that does not depend on the order of the lists.
`ArrangeIs` carries that over to `Arrange`; `LayoutIs` and `ClosedAllIs` are the same for
the outputs of a changed layout and for the panels of a monitor that goes, each an induction
over the elements the fold has left, as a set of numbers. The inductive invariant is
`PanelsSane`: at most one panel waits for its first commit, and the world is `Orderly`,
which says more than the property in three places. `Tidy` holds of outputs that are off as
well: their panels stay, and may be unmapped or destroyed there. `Focused` says that no
workspace but the focused one remembers a panel; that is what leaves nothing behind when the
keyboard moves, and what the order "remembered" would break. The lists hold each panel at
most once and exactly the panels that have not been unmapped, of which the property speaks
by numbers. A handler that changes a panel leaves one output `Ready`: everything is in order
but that output's area, which arranging makes `Tidy` again; a layout change makes all those
tidy that are on, after `Loose` worlds in which a new, resized or lost monitor has not been
arranged. While the panels of a lost monitor are closed one by one, each is unmapped and
arranged on a monitor that is still there; its area counts for nothing once the last has
gone. The proof rests on `SpaceAssumption`, `PanelAssumption` and `PanelRaceAssumption`.

Only model-checked: `AttemptDecided`, `ChildrenCollected` and `Lands`, since liveness under
fairness is beyond the prover, and `LayoutsAreSound`: its module, `Layouts`, declares
recursive operators, which the prover cannot take; what its splits compute for every input
would need induction over the split's tree, which it cannot do either. Every other property
of a run is a theorem. That a queued sheet has something that will wake it is the invariant
`NoLostReflow`; that the sheet is then laid out is not stated, since a client need not
answer.

## Not modelled

* Drawing: borders, indicators, blur, clock, backdrop and glyphs. They decide
  nothing.
* The parsing of configuration values (`configuration.c`, `config_lua.c`): pure
  translation of text. A reload is an action where it meets other state (`Bar`,
  `Outputs`, `Control`).
* The sensor readers of the top bar: a separate process that reads files and
  prints lines; what it may write is in `Bar`.
* Of XWayland: size hints and fullscreen, and the server process.
  An unmanaged window is listed on the output that was current when it was
  created, and `server.c:499` looks for it only while the cursor is there; so
  "hit where it is drawn" is about its box, not about the look-up.
* XDG popups and subsurfaces, damage other than the frames of a motion, output scale.
* wlroots itself, whose signals are the inputs of the models, and whose checks
  are conditions in `Panels` and `Outputs`.
* Start-up, shutdown and memory exhaustion outside the calls that `Faults` names.

## Plan

What is left: an abstract desktop (which windows are seen, on which monitor) that
`Visibility` and `Outputs` both implement.
