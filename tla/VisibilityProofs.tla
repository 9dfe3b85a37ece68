-------------------------- MODULE VisibilityProofs --------------------------
(***************************************************************************)
(* Theorems about Visibility, for any views, monitors and sheets, without   *)
(* the orders of events that `Races' names: the lists of visible views, the *)
(* scene, the lock screen and the focus agree with the flags.              *)
(*                                                                         *)
(* The invariant is about one view at a time (`ViewOk'), about where views   *)
(* may be (`Homes'), and about the seat (`SeatOk'), which is judged against  *)
(* a scene: a handler asks what the pointer is over in the middle of its    *)
(* own changes.  So the lemmas about focus take a scene that is sound        *)
(* (`SceneOk') and a seat that is sound for it, and a handler has to show    *)
(* that of every scene it leaves.                                          *)
(***************************************************************************)
EXTENDS Visibility, TLAPS

\* The workspaces a window can be on: those of the layout, or the fallback's.
Homes == IF wanted = {} THEN {Noop} ELSE wanted

Locked == mode = "lock"

\* What a view's flags, lists and scene node have to do with each other.
Listing(v) ==
    /\ v \in mapped => (linked[v] # None <=> (v \in forced <=> v \in hidden))
    /\ linked[v] \in {None, Ws(v)}
    /\ v \notin mapped => v \in hidden \ forced /\ linked[v] = None
    /\ v \in mapped => Ws(v) # None

\* The scene node is enabled as the flags say, but for what the lock has forced.
Shining(v) == v \in mapped \ forced => (v \in lit <=> v \notin hidden)

\* No private view is in the layer of the lock screen, and none outside the lock.
Lighting(v) ==
    /\ Shining(v)
    /\ ~Locked => v \notin forced /\ v \notin mapped \cap onLock
    /\ Locked => (v \in mapped \cap onLock => v \in public)

\* What the lock will give back.
Owing(v) ==
    Locked /\ v \in mapped =>
        /\ shown[v] = "shown" => (v \in hidden <=> v \in forced)
        /\ shown[v] = "hidden" => (v \in hidden <=> v \notin forced)

ViewOk(v) == Listing(v) /\ Lighting(v) /\ Owing(v)

Home == /\ \A v \in Views : Ws(v) \in Homes \cup {None}
        /\ wanted = {} => outputs = {}

Seats == [focus : [Workspaces -> Views \cup {None}], layered : SUBSET Workspaces,
          current : Workspaces, mode : {"normal", "modal", "lock"}, failed : BOOLEAN]

\* What a seat has to find in a scene with the views m: a workspace remembers
\* only a view of its own list.
SeatOk(s, scene, m) ==
    /\ s \in Seats
    /\ ~s.failed
    /\ \A w \in Workspaces : s.focus[w] # None =>
          /\ s.focus[w] \in m
          /\ scene.place[s.focus[w]].ws = w
          /\ scene.linked[s.focus[w]] = w
    /\ s.mode = "lock" => s.focus[s.current] = None
    /\ \A w \in s.layered : s.focus[w] = None

ViewsTyped ==
    /\ mapped \in SUBSET Views /\ public \in SUBSET Views /\ hidden \in SUBSET Views
    /\ forced \in SUBSET Views /\ lit \in SUBSET Views /\ onLock \in SUBSET Views
    /\ place \in [Views -> Place \cup {Nowhere}]
    /\ linked \in [Views -> Workspaces \cup {None}]
    /\ displayed \in [Workspaces -> Sheets]
    /\ outputs \in SUBSET Outputs /\ wanted \in SUBSET outputs
    /\ shown \in [Views -> {"shown", "hidden", "either"}]

IInv ==
    /\ ViewsTyped
    /\ \A v \in Views : ViewOk(v)
    /\ Home
    /\ current \in Homes
    /\ SeatOk(Seat, Before, mapped)

\* What a scene has to be for the pointer to find a view in it: outside the
\* lock, with the views m.
SceneOk(scene, m) ==
    /\ scene.hidden \in SUBSET Views
    /\ scene.linked \in [Views -> Workspaces \cup {None}]
    /\ \A v \in Views :
          /\ v \notin scene.hidden => v \in m
          /\ scene.linked[v] # None <=> v \notin scene.hidden
          /\ scene.linked[v] # None => scene.place[v].ws = scene.linked[v]

-----------------------------------------------------------------------------
(* Focus                                                                   *)

\* A check that holds is no fault.
LEMMA NoFault ==
    ASSUME NEW s \in Seats, ~s.failed, NEW wrong \in BOOLEAN, ~wrong
    PROVE  Fail(s, wrong) = s
  BY DEF Fail, Seats

\* NULL is no view and no workspace, and neither is the fallback a monitor.
LEMMA Names ==
    /\ None \notin Views /\ None \notin Workspaces /\ Noop \in Workspaces
    /\ Outputs \subseteq Workspaces /\ Noop \notin Outputs
  BY NameAssumption DEF Workspaces

\* The seat with its focus on v, on workspace w.
Focused(s, w, v) == [s EXCEPT !.current = w, !.focus[w] = v, !.layered = @ \ {w}]

\* The focus may go to a view of the workspace that is visible, or to none.
Focusable(scene, m, w, v) ==
    v # None => /\ v \in m \ scene.hidden
                /\ scene.place[v].ws = w /\ scene.linked[v] = w

\* A sound seat in the normal mode, at workspace w.
Turned(t, scene, m, w) ==
    SeatOk(t, scene, m) /\ t.mode = "normal" /\ t.current = w

LEMMA FocusedType ==
    ASSUME NEW s \in Seats, NEW w \in Workspaces, NEW v \in Views \cup {None}
    PROVE  /\ Focused(s, w, v) \in Seats
           /\ Focused(s, w, v).focus = [s.focus EXCEPT ![w] = v]
           /\ Focused(s, w, v).layered = s.layered \ {w}
           /\ Focused(s, w, v).current = w
           /\ Focused(s, w, v).mode = s.mode /\ Focused(s, w, v).failed = s.failed
  BY DEF Focused, Seats

\* hikari_workspace_focus_view() in the normal mode.
LEMMA FocusViewOk ==
    ASSUME NEW scene, NEW m, NEW s, SeatOk(s, scene, m), s.mode = "normal",
           scene.hidden \in SUBSET Views,
           NEW w \in Workspaces, NEW v \in Views \cup {None}, Focusable(scene, m, w, v)
    PROVE  /\ Turned(FocusView(s, w, v, scene), scene, m, w)
           /\ FocusView(s, w, v, scene).focus = [s.focus EXCEPT ![w] = v]
  <1> DEFINE t == Focused(s, w, v)
  <1>1. s \in Seats /\ ~s.failed
    BY DEF SeatOk
  <1>2. (s.mode # "normal" \/ v \in scene.hidden) = FALSE
    BY Names DEF Focusable
  <1>3. FocusView(s, w, v, scene) = t
    <2>1. Fail(s, s.mode # "normal" \/ v \in scene.hidden) = s
      BY <1>1, <1>2, NoFault
    <2> QED
      BY <2>1 DEF FocusView, Focused
  <1>4. /\ t \in Seats /\ t.focus = [s.focus EXCEPT ![w] = v]
        /\ t.layered = s.layered \ {w} /\ t.current = w
        /\ t.mode = s.mode /\ t.failed = s.failed
    BY <1>1, FocusedType
  <1>5. s.focus \in [Workspaces -> Views \cup {None}] /\ s.layered \subseteq Workspaces
    BY <1>1 DEF Seats
  <1> HIDE DEF t
  <1>6. \A u \in Workspaces : t.focus[u] = IF u = w THEN v ELSE s.focus[u]
    BY <1>4, <1>5
  <1>7. SeatOk(t, scene, m)
    BY <1>1, <1>4, <1>5, <1>6 DEF SeatOk, Focusable
  <1> QED
    BY <1>3, <1>4, <1>7 DEF Turned

LEMMA UnfocusOk ==
    ASSUME NEW scene, NEW m, NEW s, SeatOk(s, scene, m), s.mode = "normal",
           scene.hidden \in SUBSET Views
    PROVE  /\ Turned(Unfocus(s, scene), scene, m, s.current)
           /\ Unfocus(s, scene).focus = [s.focus EXCEPT ![s.current] = None]
  <1>1. s.current \in Workspaces
    BY DEF SeatOk, Seats
  <1> QED
    BY <1>1, FocusViewOk DEF Unfocus, Focusable

\* hikari_workspace_first_view() finds a view to focus.
LEMMA FirstViewOk ==
    ASSUME NEW scene, NEW m, NEW s, SeatOk(s, scene, m), SceneOk(scene, m),
           NEW w \in Workspaces, NEW v \in FirstView(s, w, scene)
    PROVE  v \in Views \cup {None} /\ Focusable(scene, m, w, v)
  <1>1. s.focus \in [Workspaces -> Views \cup {None}]
    BY DEF SeatOk, Seats
  <1>2. CASE s.focus[w] # None
    <2>1. v = s.focus[w]
      BY <1>2 DEF FirstView
    <2>2. v \in Views /\ v \in m /\ scene.place[v].ws = w /\ scene.linked[v] = w
      BY <1>1, <1>2, <2>1 DEF SeatOk
    <2>3. v \notin scene.hidden
      BY <2>2, Names DEF SceneOk
    <2> QED
      BY <2>2, <2>3 DEF Focusable
  <1>3. CASE s.focus[w] = None /\ v # None
    <2>1. /\ v \in Views \ scene.hidden
          /\ scene.place[v] = [ws |-> w, nr |-> scene.displayed[w]]
      BY <1>3 DEF FirstView
    <2> QED
      BY <2>1 DEF Focusable, SceneOk
  <1>4. CASE v = None
    BY <1>4 DEF Focusable
  <1> QED
    BY <1>2, <1>3, <1>4

\* The seat with the panel of workspace w focused, or without any on w.
Layered(s, w)   == [s EXCEPT !.layered = @ \cup {w}, !.current = w]
Unlayered(s, w) == [s EXCEPT !.layered = @ \ {w}]

LEMMA LayeredType ==
    ASSUME NEW s \in Seats, NEW w \in Workspaces
    PROVE  /\ Layered(s, w) \in Seats /\ Layered(s, w).focus = s.focus
           /\ Layered(s, w).layered = s.layered \cup {w}
           /\ Layered(s, w).current = w
           /\ Layered(s, w).mode = s.mode /\ Layered(s, w).failed = s.failed
           /\ Unlayered(s, w) \in Seats /\ Unlayered(s, w).focus = s.focus
           /\ Unlayered(s, w).layered = s.layered \ {w}
           /\ Unlayered(s, w).current = s.current
           /\ Unlayered(s, w).mode = s.mode /\ Unlayered(s, w).failed = s.failed
  BY DEF Layered, Unlayered, Seats

LEMMA UnlayeredOk ==
    ASSUME NEW scene, NEW m, NEW s, SeatOk(s, scene, m), NEW w \in Workspaces
    PROVE  SeatOk(Unlayered(s, w), scene, m)
  <1> DEFINE t == Unlayered(s, w)
  <1>1. s \in Seats
    BY DEF SeatOk
  <1>2. /\ t \in Seats /\ t.focus = s.focus /\ t.layered = s.layered \ {w}
        /\ t.current = s.current /\ t.mode = s.mode /\ t.failed = s.failed
    BY <1>1, LayeredType
  <1> HIDE DEF t
  <1>3. SeatOk(t, scene, m)
    BY <1>1, <1>2 DEF SeatOk
  <1> QED
    BY <1>3 DEF t

\* A panel may take the keyboard where no view is remembered.
LEMMA LayeredOk ==
    ASSUME NEW scene, NEW m, NEW s, SeatOk(s, scene, m), NEW w \in Workspaces,
           s.focus[w] = None
    PROVE  SeatOk(Layered(s, w), scene, m)
  <1> DEFINE t == Layered(s, w)
  <1>1. s \in Seats
    BY DEF SeatOk
  <1>2. /\ t \in Seats /\ t.focus = s.focus /\ t.layered = s.layered \cup {w}
        /\ t.current = w /\ t.mode = s.mode /\ t.failed = s.failed
    BY <1>1, LayeredType
  <1> HIDE DEF t
  <1>3. SeatOk(t, scene, m)
    BY <1>1, <1>2 DEF SeatOk
  <1> QED
    BY <1>3 DEF t

LEMMA FocusLayerOk ==
    ASSUME NEW scene, NEW m, NEW s, SeatOk(s, scene, m), s.mode = "normal",
           scene.hidden \in SUBSET Views,
           NEW w \in Workspaces, w = s.current \/ s.focus[w] = None
    PROVE  Turned(FocusLayer(s, w, scene), scene, m, w)
  <1>1. s \in Seats /\ s.current \in Workspaces /\ s.focus \in [Workspaces -> Views \cup {None}]
    BY DEF SeatOk, Seats
  <1>2. CASE s.focus[s.current] = None
    <2> DEFINE l == Unlayered(s, s.current)
    <2>1. FocusLayer(s, w, scene) = Layered(l, w)
      BY <1>2 DEF FocusLayer, Layered, Unlayered
    <2>2. SeatOk(l, scene, m) /\ l \in Seats /\ l.focus = s.focus /\ l.mode = s.mode
      BY <1>1, UnlayeredOk, LayeredType
    <2> HIDE DEF l
    <2>3. SeatOk(Layered(l, w), scene, m)
      BY <1>2, <2>2, LayeredOk
    <2>4. Layered(l, w).mode = l.mode /\ Layered(l, w).current = w
      BY <2>2, LayeredType
    <2> QED
      BY <2>1, <2>2, <2>3, <2>4 DEF Turned
  <1>3. CASE s.focus[s.current] # None
    <2> DEFINE l == Unfocus(s, scene)
    <2>1. FocusLayer(s, w, scene) = Layered(l, w)
      BY <1>3 DEF FocusLayer, Layered
    <2>2. /\ Turned(l, scene, m, s.current)
          /\ l.focus = [s.focus EXCEPT ![s.current] = None]
      BY UnfocusOk
    <2> HIDE DEF l
    <2>3. SeatOk(Layered(l, w), scene, m)
      BY <1>1, <2>2, LayeredOk DEF Turned
    <2>4. Layered(l, w).mode = l.mode /\ Layered(l, w).current = w
      BY <2>2, LayeredType DEF Turned, SeatOk
    <2> QED
      BY <2>1, <2>2, <2>3, <2>4 DEF Turned
  <1> QED
    BY <1>2, <1>3

\* hikari_server_cursor_focus(), when nothing is forced if it does anything.
LEMMA CursorFocusOk ==
    ASSUME Races = {}, ViewsTyped, NEW scene, NEW m, NEW s, SeatOk(s, scene, m),
           s.mode = "normal" => SceneOk(scene, m),
           NEW t \in CursorFocus(s, scene)
    PROVE  SeatOk(t, scene, m) /\ t.mode = s.mode /\ t.current \in wanted \cup {s.current}
  <1>1. CASE t = s
    BY <1>1
  <1>2. CASE s.mode = "normal" /\ t # s
    <2>0. s.mode = "normal" /\ scene.hidden \in SUBSET Views
      BY <1>2 DEF SceneOk
    <2>1. /\ SceneOk(scene, m) /\ scene.hidden \in SUBSET Views
          /\ wanted \subseteq Workspaces
          /\ scene.linked \in [Views -> Workspaces \cup {None}]
      BY <1>2, Names DEF SceneOk, ViewsTyped
    <2>2. CASE \E v \in {u \in Views : scene.linked[u] \in wanted} :
                  t = FocusView(s, scene.linked[v], v, scene)
      <3>1. PICK v \in Views : /\ scene.linked[v] \in wanted
                               /\ t = FocusView(s, scene.linked[v], v, scene)
        BY <2>2
      <3>2. scene.linked[v] \in Workspaces /\ Focusable(scene, m, scene.linked[v], v)
        BY <2>1, <3>1, Names DEF SceneOk, Focusable
      <3>3. Turned(FocusView(s, scene.linked[v], v, scene), scene, m, scene.linked[v])
        BY <2>0, <3>1, <3>2, FocusViewOk
      <3> QED
        BY <1>2, <3>1, <3>3 DEF Turned
    <2>3. CASE \E w \in wanted, v \in Views \cup {None} :
                  v \in FirstView(s, w, scene) /\ t = FocusView(s, w, v, scene)
      <3>1. PICK w \in wanted, v \in Views \cup {None} :
               v \in FirstView(s, w, scene) /\ t = FocusView(s, w, v, scene)
        BY <2>3
      <3>2. w \in Workspaces /\ Focusable(scene, m, w, v)
        BY <2>1, <3>1, FirstViewOk
      <3>3. Turned(FocusView(s, w, v, scene), scene, m, w)
        BY <2>0, <3>2, FocusViewOk
      <3> QED
        BY <1>2, <3>1, <3>3 DEF Turned
    <2>4. CASE \E w \in wanted : LayerMayFocus(s, w) /\ t = FocusLayer(s, w, scene)
      <3>1. PICK w \in wanted : LayerMayFocus(s, w) /\ t = FocusLayer(s, w, scene)
        BY <2>4
      <3>2. w \in Workspaces /\ (w = s.current \/ s.focus[w] = None)
        BY <2>1, <3>1 DEF LayerMayFocus
      <3> QED
        BY <2>0, <1>2, <3>1, <3>2, FocusLayerOk DEF Turned
    <2>5. \/ \E v \in {u \in Views : scene.linked[u] \in wanted} :
                t = FocusView(s, scene.linked[v], v, scene)
          \/ \E w \in wanted \ {s.current} :
                \E v \in FirstView(s, w, scene) : t = FocusView(s, w, v, scene)
          \/ \E w \in wanted : LayerMayFocus(s, w) /\ t = FocusLayer(s, w, scene)
      BY <1>2 DEF CursorFocus
    <2>6. \A w \in wanted : \A v \in FirstView(s, w, scene) : v \in Views \cup {None}
      BY <2>1, FirstViewOk
    <2> QED
      BY <2>2, <2>3, <2>4, <2>5, <2>6
  <1> QED
    BY <1>1, <1>2 DEF CursorFocus

\* The seat in another mode.
InMode(s, md) == [s EXCEPT !.mode = md]

LEMMA InModeOk ==
    ASSUME NEW scene, NEW m, NEW s, SeatOk(s, scene, m),
           NEW md \in {"normal", "modal", "lock"}, md = "lock" => s.focus[s.current] = None
    PROVE  /\ SeatOk(InMode(s, md), scene, m) /\ InMode(s, md).mode = md
           /\ InMode(s, md).current = s.current /\ InMode(s, md).focus = s.focus
  <1> DEFINE t == InMode(s, md)
  <1>1. s \in Seats
    BY DEF SeatOk
  <1>2. /\ t \in Seats /\ t.focus = s.focus /\ t.layered = s.layered
        /\ t.current = s.current /\ t.mode = md /\ t.failed = s.failed
    BY <1>1 DEF InMode, Seats
  <1> HIDE DEF t
  <1>3. SeatOk(t, scene, m)
    BY <1>1, <1>2 DEF SeatOk
  <1> QED
    BY <1>2, <1>3 DEF t

\* A sound seat in mode md, at one of the workspaces c.
Settled(t, scene, m, md, c) ==
    SeatOk(t, scene, m) /\ t.mode = md /\ t.current \in c

\* hikari_server_enter_normal_mode().
LEMMA EnterNormalOk ==
    ASSUME Races = {}, ViewsTyped, NEW scene, NEW m, NEW s, SeatOk(s, scene, m),
           SceneOk(scene, m), NEW t \in EnterNormal(s, scene)
    PROVE  Settled(t, scene, m, "normal", wanted \cup {s.current})
  <1> DEFINE n == InMode(s, "normal")
  <1>1. SeatOk(n, scene, m) /\ n.mode = "normal" /\ n.current = s.current
    BY InModeOk
  <1>2. t \in CursorFocus(n, scene)
    BY DEF EnterNormal, InMode
  <1> HIDE DEF n
  <1>3. SeatOk(t, scene, m) /\ t.mode = n.mode /\ t.current \in wanted \cup {n.current}
    BY <1>1, <1>2, CursorFocusOk
  <1> QED
    BY <1>1, <1>3 DEF Settled

\* The seat after the workspaces of the places p have forgotten views.
Forgotten(s, views, p) ==
    [s EXCEPT !.focus = [w \in Workspaces |->
        IF s.focus[w] \in views /\ p[s.focus[w]].ws = w THEN None ELSE s.focus[w]]]

\* No workspace remembers one of views.
Rid(s, views) == \A w \in Workspaces : s.focus[w] \notin views

LEMMA ForgottenOk ==
    ASSUME NEW s, NEW m, SeatOk(s, Before, m), NEW views \in SUBSET Views
    PROVE  /\ SeatOk(Forgotten(s, views, place), Before, m)
           /\ Rid(Forgotten(s, views, place), views)
           /\ Forgotten(s, views, place).mode = s.mode
           /\ Forgotten(s, views, place).current = s.current
           /\ \A w \in Workspaces : Forgotten(s, views, place).focus[w] \in {s.focus[w], None}
  <1> DEFINE t == Forgotten(s, views, place)
             g == [w \in Workspaces |->
                     IF s.focus[w] \in views /\ place[s.focus[w]].ws = w THEN None ELSE s.focus[w]]
  <1>1. s \in Seats /\ s.focus \in [Workspaces -> Views \cup {None}] /\ s.layered \subseteq Workspaces
    BY DEF SeatOk, Seats
  <1>2. /\ g \in [Workspaces -> Views \cup {None}]
        /\ \A w \in Workspaces : g[w] \in {s.focus[w], None}
    BY <1>1
  <1>3. \A w \in Workspaces : g[w] \notin views
    <2>1. \A w \in Workspaces : s.focus[w] # None => place[s.focus[w]].ws = w
      BY DEF SeatOk, Before
    <2> QED
      BY <1>1, <2>1, Names
  <1> HIDE DEF g
  <1>4. t = [s EXCEPT !.focus = g]
    BY DEF Forgotten, g
  <1>5. /\ t \in Seats /\ t.focus = g /\ t.layered = s.layered /\ t.current = s.current
        /\ t.mode = s.mode /\ t.failed = s.failed
    BY <1>1, <1>2, <1>4 DEF Seats
  <1> HIDE DEF t
  <1>6. SeatOk(t, Before, m)
    <2>1. s.current \in Workspaces
      BY <1>1 DEF Seats
    <2>2. \A w \in Workspaces : t.focus[w] \in {s.focus[w], None}
      BY <1>2, <1>5
    <2> QED
      BY <1>1, <1>5, <2>1, <2>2 DEF SeatOk
  <1>7. Rid(t, views)
    BY <1>3, <1>5 DEF Rid
  <1> QED
    BY <1>2, <1>5, <1>6, <1>7 DEF t

\* The modes a handler may end in that starts in mode md, when it is not the
\* screen locker's.
Modes(md) == IF md = "lock" THEN {"lock"} ELSE {md, "normal"}

\* clear_focus() of views leaves none of them in a focus.
LEMMA ClearFocusOk ==
    ASSUME Races = {}, ViewsTyped, NEW s, SeatOk(s, Before, mapped),
           s.mode # "lock" => SceneOk(Before, mapped),
           NEW views \in SUBSET Views, NEW t \in ClearFocus(s, views)
    PROVE  /\ SeatOk(t, Before, mapped) /\ Rid(t, views)
           /\ t.mode \in Modes(s.mode) /\ t.current = s.current
  <1> DEFINE v == s.focus[s.current]
  <1>1. /\ s \in Seats /\ s.current \in Workspaces
        /\ s.focus \in [Workspaces -> Views \cup {None}]
        /\ s.mode \in {"normal", "modal", "lock"}
    BY DEF SeatOk, Seats
  <1>2. v \in views => place[v].ws = s.current
    BY <1>1, Names DEF SeatOk, Before
  <1>3. CASE v \notin views
    <2>1. t = Forgotten(s, views, place)
      BY <1>3 DEF ClearFocus, Forgotten
    <2> QED
      BY <2>1, ForgottenOk DEF Modes
  <1>4. CASE v \in views
    <2>1. s.mode # "lock" /\ SceneOk(Before, mapped) /\ Before.hidden \in SUBSET Views
      BY <1>4, Names DEF SeatOk, SceneOk
    <2>2. CASE s.mode = "modal"
      <3>1. PICK u \in EnterNormal(s, Before) :
               /\ u.current = s.current
               /\ t = Forgotten(Unfocus(u, Before), views \ {v}, place)
        BY <1>2, <1>4, <2>2 DEF ClearFocus, Forgotten
      <3>2. SeatOk(u, Before, mapped) /\ u.mode = "normal"
        BY <2>1, EnterNormalOk DEF Settled
      <3> DEFINE n == Unfocus(u, Before)
      <3>3. Turned(n, Before, mapped, u.current) /\ n.focus = [u.focus EXCEPT ![u.current] = None]
        BY <2>1, <3>2, UnfocusOk
      <3>4. u.focus \in [Workspaces -> Views \cup {None}]
        BY <3>2 DEF SeatOk, Seats
      <3> HIDE DEF n
      <3>5. SeatOk(n, Before, mapped) /\ n.mode = "normal" /\ n.current = s.current
        BY <3>1, <3>3 DEF Turned
      <3> DEFINE x == Forgotten(n, views \ {v}, place)
      <3>6. /\ SeatOk(x, Before, mapped) /\ Rid(x, views \ {v})
            /\ x.mode = n.mode /\ x.current = n.current
            /\ \A w \in Workspaces : x.focus[w] \in {n.focus[w], None}
        BY <3>5, ForgottenOk
      <3>7. t = x
        BY <3>1 DEF n
      <3> HIDE DEF x
      <3>8. \A w \in Workspaces : x.focus[w] # v
        <4> SUFFICES ASSUME NEW w \in Workspaces, x.focus[w] = v
                     PROVE  FALSE
          OBVIOUS
        <4>1. place[v].ws = w
          BY <1>1, <1>4, <3>6, Names DEF SeatOk, Before
        <4>2. w = s.current
          BY <1>2, <1>4, <4>1
        <4>3. n.focus[s.current] = None
          BY <1>1, <3>1, <3>3, <3>4
        <4> QED
          BY <1>4, <3>6, <4>2, <4>3, Names
      <3>9. Rid(x, views)
        BY <3>6, <3>8 DEF Rid
      <3> QED
        BY <2>1, <2>2, <3>5, <3>6, <3>7, <3>9 DEF Modes
    <2>3. CASE s.mode = "normal"
      <3> DEFINE n == Unfocus(s, Before)
      <3>1. Turned(n, Before, mapped, s.current)
        BY <2>1, <2>3, UnfocusOk
      <3>2. SeatOk(n, Before, mapped) /\ n.mode = "normal" /\ n.current = s.current
        BY <3>1 DEF Turned
      <3>3. t = Forgotten(Fail(n, s.mode = "lock"), views, place)
        BY <1>2, <1>4, <2>3 DEF ClearFocus, Forgotten
      <3> HIDE DEF n
      <3>4. Fail(n, s.mode = "lock") = n
        BY <2>3, <3>2, NoFault DEF SeatOk
      <3> QED
        BY <2>3, <3>2, <3>3, <3>4, ForgottenOk DEF Modes
    <2> QED
      BY <1>1, <2>1, <2>2, <2>3
  <1> QED
    BY <1>3, <1>4

-----------------------------------------------------------------------------
(* Handlers: the seat against the scene before and after                   *)

\* A view that a handler has left where it was, and in its list.
Undisturbed(v) ==
    /\ v \in mapped'
    /\ place'[v].ws = place[v].ws
    /\ linked[v] # None => linked'[v] = linked[v]

\* A seat stays sound when no workspace remembers a view that was disturbed.
LEMMA SeatMoves ==
    ASSUME NEW t, SeatOk(t, Before, mapped), NEW gone \in SUBSET Views, Rid(t, gone),
           \A v \in mapped \ gone : Undisturbed(v)
    PROVE  SeatOk(t, After, mapped')
  <1>1. \A w \in Workspaces : t.focus[w] # None =>
           /\ t.focus[w] \in mapped \ gone /\ place[t.focus[w]].ws = w
           /\ linked[t.focus[w]] = w
    BY DEF SeatOk, Before, Rid
  <1>2. \A w \in Workspaces : t.focus[w] # None =>
           /\ t.focus[w] \in mapped' /\ place'[t.focus[w]].ws = w
           /\ linked'[t.focus[w]] = w
    BY <1>1, Names DEF Undisturbed
  <1>3. /\ t \in Seats /\ ~t.failed
        /\ t.mode = "lock" => t.focus[t.current] = None
        /\ \A w \in t.layered : t.focus[w] = None
    BY DEF SeatOk
  <1> QED
    BY <1>2, <1>3 DEF SeatOk, After, Before

\* The scene before and after a handler is one the pointer finds views in.
LEMMA SceneBefore ==
    ASSUME ViewsTyped, \A v \in Views : Listing(v), forced = {}
    PROVE  SceneOk(Before, mapped)
  BY DEF SceneOk, Before, ViewsTyped, Listing, Ws

LEMMA SceneAfter ==
    ASSUME ViewsTyped', \A v \in Views : Listing(v)', forced' = {}
    PROVE  SceneOk(After, mapped')
  BY DEF SceneOk, After, Before, ViewsTyped, Listing, Ws

\* The focus after a handler that hid gone and showed come.
LEMMA SeatsAfterOk ==
    ASSUME Races = {}, ViewsTyped, NEW s, SeatOk(s, Before, mapped),
           s.mode # "lock" => SceneOk(Before, mapped) /\ SceneOk(After, mapped'),
           NEW gone \in SUBSET Views, NEW come \in SUBSET Views, ~Misused(gone, come),
           \A v \in mapped \ gone : Undisturbed(v),
           NEW u \in SeatsAfter(s, gone, come)
    PROVE  /\ SeatOk(u, After, mapped')
           /\ u.mode \in Modes(s.mode) /\ u.current \in wanted \cup {s.current}
  <1>1. PICK t \in ClearFocus(s, gone) : u \in CursorFocus(Fail(t, Misused(gone, come)), After)
    BY DEF SeatsAfter
  <1>2. /\ SeatOk(t, Before, mapped) /\ Rid(t, gone)
        /\ t.mode \in Modes(s.mode) /\ t.current = s.current
    BY ClearFocusOk
  <1>3. Fail(t, Misused(gone, come)) = t
    <2>1. Misused(gone, come) \in BOOLEAN
      BY DEF Misused
    <2> QED
      BY <1>2, <2>1, NoFault DEF SeatOk
  <1>4. SeatOk(t, After, mapped')
    BY <1>2, SeatMoves
  <1>5. t.mode = "normal" => SceneOk(After, mapped')
    BY <1>2 DEF Modes
  <1>6. u \in CursorFocus(t, After)
    BY <1>1, <1>3
  <1>7. SeatOk(u, After, mapped') /\ u.mode = t.mode /\ u.current \in wanted \cup {t.current}
    BY <1>4, <1>5, <1>6, CursorFocusOk
  <1> QED
    BY <1>2, <1>7

-----------------------------------------------------------------------------
(* Handlers: the views                                                     *)

\* hikari_view_hide() and hikari_view_show(), used as their assertions ask.
LEMMA ExchangeOk ==
    ASSUME ViewsTyped, \A v \in Views : Listing(v) /\ Shining(v),
           NEW gone \in SUBSET Views, NEW come \in SUBSET Views,
           gone \cap (hidden \cup forced) = {}, come \cap forced = {},
           Exchange(gone, come), mapped' = mapped \cup come,
           place' \in [Views -> Place \cup {Nowhere}],
           \A v \in Views \ come : place'[v].ws = place[v].ws,
           \A v \in come : place'[v].ws \in Workspaces
    PROVE  /\ hidden' \in SUBSET Views /\ forced' = forced /\ lit' \in SUBSET Views
           /\ linked' \in [Views -> Workspaces \cup {None}]
           /\ \A v \in Views : Listing(v)' /\ Shining(v)'
           /\ \A v \in mapped \ gone : place'[v].ws = place[v].ws => Undisturbed(v)
  <1>1. gone \cap (hidden \cup forced) = {} /\ come \cap forced = {}
    OBVIOUS
  <1>2. /\ hidden' = (hidden \cup gone) \ come /\ lit' = (lit \ gone) \cup come /\ forced' = forced
        /\ linked' = [v \in Views |-> IF v \in come THEN place'[v].ws
                                      ELSE IF v \in gone THEN None ELSE linked[v]]
    BY DEF Exchange
  <1>3. /\ hidden \in SUBSET Views /\ lit \in SUBSET Views /\ mapped \in SUBSET Views
        /\ linked \in [Views -> Workspaces \cup {None}]
    BY DEF ViewsTyped
  <1>4. hidden' \in SUBSET Views /\ lit' \in SUBSET Views
    BY <1>2, <1>3
  <1>5. linked' \in [Views -> Workspaces \cup {None}]
    BY <1>2, <1>3
  <1>6. ASSUME NEW v \in Views
        PROVE  Listing(v)' /\ Shining(v)'
    <2>1. Listing(v) /\ Shining(v)
      OBVIOUS
    <2>2. CASE v \in come
      <3>1. v \notin forced /\ linked'[v] = place'[v].ws /\ linked'[v] # None /\ v \in mapped'
        BY <1>1, <1>2, <2>2, Names
      <3> QED
        BY <1>2, <2>2, <3>1 DEF Listing, Shining, Ws
    <2>3. CASE v \in gone \ come
      <3>1. v \notin forced /\ linked'[v] = None /\ place'[v].ws = place[v].ws
        BY <1>1, <1>2, <2>3
      <3> QED
        BY <1>2, <2>1, <2>3, <3>1 DEF Listing, Shining, Ws
    <2>4. CASE v \notin gone \cup come
      <3>1. linked'[v] = linked[v] /\ place'[v].ws = place[v].ws
        BY <1>2, <2>4
      <3>2. /\ (v \in hidden' <=> v \in hidden) /\ (v \in lit' <=> v \in lit)
            /\ (v \in mapped' <=> v \in mapped) /\ (v \in forced' <=> v \in forced)
        BY <1>2, <2>4
      <3> QED
        BY <1>2, <2>1, <2>4, <3>1, <3>2 DEF Listing, Shining, Ws
    <2> QED
      BY <2>2, <2>3, <2>4
  <1>7. \A v \in mapped \ gone : place'[v].ws = place[v].ws => Undisturbed(v)
    <2> SUFFICES ASSUME NEW v \in mapped \ gone, place'[v].ws = place[v].ws
                 PROVE  Undisturbed(v)
      OBVIOUS
    <2>1. Listing(v) /\ v \in Views
      BY <1>3
    <2> QED
      BY <1>2, <2>1 DEF Undisturbed, Listing, Ws
  <1> QED
    BY <1>2, <1>4, <1>5, <1>6, <1>7

\* What a handler leaves, put together.
LEMMA Assembled ==
    ASSUME ViewsTyped', \A v \in Views : ViewOk(v)', Home', NEW s,
           SeatOk(s, After, mapped'), s.current \in Homes', SeatBecomes(s)
    PROVE  IInv'
  <1>1. s = [focus |-> s.focus, layered |-> s.layered, current |-> s.current,
             mode |-> s.mode, failed |-> s.failed]
    BY DEF SeatOk, Seats
  <1>2. Seat' = s /\ current' = s.current
    BY <1>1 DEF Seat, SeatBecomes
  <1>3. SeatOk(Seat, Before, mapped)'
    BY <1>2 DEF SeatOk, After, Before
  <1> QED
    BY <1>2, <1>3 DEF IInv

\* A handler that moves nothing but the focus.
LEMMA SeatOnly ==
    ASSUME IInv, UNCHANGED <<viewVars, displayed, outputVars, shown>>, NEW s,
           SeatOk(s, Before, mapped), s.current \in Homes, SeatBecomes(s),
           s.mode = "lock" <=> mode = "lock"
    PROVE  IInv'
  <1> USE DEF viewVars, flagVars, outputVars
  <1>1. /\ ViewsTyped' /\ Homes' = Homes /\ Home'
    BY DEF IInv, ViewsTyped, Homes, Home, Ws
  <1>2. Locked' <=> Locked
    BY DEF Locked, SeatBecomes
  <1>3. \A v \in Views : ViewOk(v)'
    BY <1>2 DEF IInv, ViewOk, Listing, Lighting, Shining, Owing, Ws
  <1>4. SeatOk(s, After, mapped')
    BY DEF SeatOk, After, Before
  <1> QED
    BY <1>1, <1>3, <1>4, Assembled

-----------------------------------------------------------------------------
(* Seats at the start of a handler                                         *)

\* What the invariant says outside the screen locker, where nothing is forced.
LEMMA Unlocked ==
    ASSUME IInv, mode # "lock"
    PROVE  /\ forced = {} /\ SceneOk(Before, mapped) /\ Before.hidden \in SUBSET Views
           /\ SeatOk(Seat, Before, mapped) /\ Seat.mode = mode /\ Seat.current = current
           /\ \A v \in Views : linked[v] # None <=> v \notin hidden
           /\ \A v \in Views \ hidden : v \in mapped /\ linked[v] = Ws(v) /\ Ws(v) \in Homes
  <1>1. ViewsTyped /\ Home /\ \A v \in Views : Listing(v) /\ Lighting(v)
    BY DEF IInv, ViewOk
  <1>2. forced = {}
    BY <1>1 DEF ViewsTyped, Lighting, Locked
  <1>3. SceneOk(Before, mapped)
    BY <1>1, <1>2, SceneBefore
  <1>4. SeatOk(Seat, Before, mapped)
    BY <1>2 DEF IInv
  <1>5. \A v \in Views : linked[v] # None <=> v \notin hidden
    BY <1>3 DEF SceneOk, Before
  <1>6. \A v \in Views \ hidden : v \in mapped /\ linked[v] = Ws(v) /\ Ws(v) \in Homes
    BY <1>1, <1>2, <1>5 DEF Listing, Home
  <1> QED
    BY <1>2, <1>3, <1>4, <1>5, <1>6 DEF Seat, SceneOk

\* The seat at the start of any handler.
LEMMA Seated ==
    ASSUME IInv
    PROVE  /\ SeatOk(Seat, Before, mapped) /\ Seat.mode = mode /\ Seat.current = current
           /\ Seat.focus = focus /\ Seat.layered = layered
           /\ current \in Homes /\ Homes \subseteq Workspaces /\ wanted \subseteq Homes
           /\ mode # "lock" => SceneOk(Before, mapped) /\ forced = {}
           /\ ViewsTyped /\ \A v \in Views : Listing(v) /\ Shining(v)
  <1>1. mode # "lock" => SceneOk(Before, mapped) /\ forced = {}
    BY Unlocked
  <1> QED
    BY <1>1, Names DEF IInv, Seat, Homes, ViewsTyped, ViewOk, Lighting

\* The focus goes to a view that is visible.
LEMMA FocusSeat ==
    ASSUME IInv, mode = "normal", NEW v \in Views \ hidden,
           NEW s, s = FocusView(Seat, Ws(v), v, Before)
    PROVE  SeatOk(s, Before, mapped) /\ s.mode = "normal" /\ s.current \in Homes
  <1>1. /\ forced = {} /\ SeatOk(Seat, Before, mapped) /\ Seat.mode = "normal"
        /\ Before.hidden \in SUBSET Views /\ v \in mapped /\ Ws(v) \in Homes
    BY Unlocked
  <1>2. Ws(v) \in Workspaces /\ v \in Views \cup {None}
    BY <1>1, Seated
  <1>3. Focusable(Before, mapped, Ws(v), v)
    BY <1>1, Unlocked DEF Focusable, Before, Ws
  <1>4. Turned(FocusView(Seat, Ws(v), v, Before), Before, mapped, Ws(v))
    BY <1>1, <1>2, <1>3, FocusViewOk
  <1> QED
    BY <1>1, <1>4 DEF Turned

\* request_activate_handler() and the keys that cycle.
LEMMA ActivateKeeps ==
    ASSUME Races = {}, IInv, NEW v \in Views, Activate(v)
    PROVE  IInv'
  <1>1. /\ mode = "normal" /\ v \in Views \ hidden
        /\ SeatBecomes(FocusView(Seat, Ws(v), v, Before))
        /\ UNCHANGED <<viewVars, displayed, outputVars, shown>>
    BY DEF Activate
  <1> QED
    BY <1>1, FocusSeat, SeatOnly

LEMMA FocusByUserKeeps ==
    ASSUME IInv, NEW v \in Views, FocusByUser(v)
    PROVE  IInv'
  <1>1. /\ mode = "normal" /\ linked[v] # None
        /\ SeatBecomes(FocusView(Seat, Ws(v), v, Before))
        /\ UNCHANGED <<viewVars, displayed, outputVars, shown>>
    BY DEF FocusByUser
  <1>2. v \in Views \ hidden
    BY <1>1, Unlocked
  <1> QED
    BY <1>1, <1>2, FocusSeat, SeatOnly

LEMMA LayerUnmapKeeps ==
    ASSUME Races = {}, IInv, NEW w \in Workspaces, LayerUnmap(w)
    PROVE  IInv'
  <1>1. PICK s \in CursorFocus(Unlayered(Seat, w), Before) : SeatBecomes(s)
    BY DEF LayerUnmap, Unlayered
  <1>2. /\ SeatOk(Seat, Before, mapped) /\ Seat.mode = mode /\ Seat.current = current
        /\ current \in Homes /\ wanted \subseteq Homes /\ ViewsTyped
        /\ mode # "lock" => SceneOk(Before, mapped) /\ forced = {}
    BY Seated
  <1> DEFINE t == Unlayered(Seat, w)
  <1>3. SeatOk(t, Before, mapped) /\ t.mode = mode /\ t.current = current
    <2>1. SeatOk(t, Before, mapped)
      BY <1>2, UnlayeredOk
    <2>2. t.mode = Seat.mode /\ t.current = Seat.current
      BY <1>2, LayeredType DEF SeatOk
    <2> QED
      BY <1>2, <2>1, <2>2
  <1>4. s \in CursorFocus(t, Before)
    BY <1>1
  <1> HIDE DEF t
  <1>5. SeatOk(s, Before, mapped) /\ s.mode = t.mode /\ s.current \in wanted \cup {t.current}
    BY <1>2, <1>3, <1>4, CursorFocusOk
  <1> QED
    BY <1>1, <1>2, <1>3, <1>5, SeatOnly DEF LayerUnmap

LEMMA PointerMovesKeeps ==
    ASSUME Races = {}, IInv, PointerMoves
    PROVE  IInv'
  <1>1. PICK s \in CursorFocus(Seat, Before) : SeatBecomes(s)
    BY DEF PointerMoves
  <1>2. /\ SeatOk(Seat, Before, mapped) /\ Seat.mode = mode /\ Seat.current = current
        /\ current \in Homes /\ wanted \subseteq Homes /\ ViewsTyped
        /\ mode # "lock" => SceneOk(Before, mapped) /\ forced = {}
    BY Seated
  <1>3. SeatOk(s, Before, mapped) /\ s.mode = Seat.mode /\ s.current \in wanted \cup {Seat.current}
    BY <1>1, <1>2, CursorFocusOk
  <1> QED
    BY <1>1, <1>2, <1>3, SeatOnly DEF PointerMoves

LEMMA LeaveModalKeeps ==
    ASSUME Races = {}, IInv, LeaveModal
    PROVE  IInv'
  <1>1. PICK s \in EnterNormal(Seat, Before) : SeatBecomes(s)
    BY DEF LeaveModal
  <1>2. mode = "modal" /\ UNCHANGED <<viewVars, displayed, outputVars, shown>>
    BY DEF LeaveModal
  <1>3. /\ SeatOk(Seat, Before, mapped) /\ forced = {} /\ SceneOk(Before, mapped)
        /\ Seat.current = current
    BY <1>2, Unlocked
  <1>4. Settled(s, Before, mapped, "normal", wanted \cup {Seat.current})
    BY <1>1, <1>3, EnterNormalOk DEF IInv
  <1>5. current \in Homes /\ wanted \subseteq Homes
    BY Seated
  <1>6. SeatOk(s, Before, mapped) /\ s.mode = "normal" /\ s.current \in Homes
    BY <1>3, <1>4, <1>5 DEF Settled
  <1> QED
    BY <1>1, <1>2, <1>6, SeatOnly

LEMMA EnterModalKeeps ==
    ASSUME IInv, EnterModal
    PROVE  IInv'
  <1>1. PICK s \in {Seat, Unfocus(Seat, Before)} : SeatBecomes(InMode(s, "modal"))
    BY DEF EnterModal, InMode
  <1>2. mode = "normal" /\ UNCHANGED <<viewVars, displayed, outputVars, shown>>
    BY DEF EnterModal
  <1>3. /\ SeatOk(Seat, Before, mapped) /\ Seat.mode = "normal" /\ Seat.current = current
        /\ Before.hidden \in SUBSET Views /\ current \in Homes
    BY <1>2, Seated, Unlocked
  <1>4. SeatOk(s, Before, mapped) /\ s.current = current
    <2>1. Turned(Unfocus(Seat, Before), Before, mapped, Seat.current)
      BY <1>3, UnfocusOk
    <2> QED
      BY <1>1, <1>3, <2>1 DEF Turned
  <1>5. /\ SeatOk(InMode(s, "modal"), Before, mapped)
        /\ InMode(s, "modal").mode = "modal" /\ InMode(s, "modal").current = s.current
    BY <1>4, InModeOk
  <1> QED
    BY <1>1, <1>2, <1>3, <1>4, <1>5, SeatOnly

LEMMA CycleWorkspaceKeeps ==
    ASSUME Races = {}, IInv, NEW w \in Workspaces, CycleWorkspace(w)
    PROVE  IInv'
  <1>1. /\ mode = "normal" /\ w \in wanted
        /\ UNCHANGED <<viewVars, displayed, outputVars, shown>>
    BY DEF CycleWorkspace
  <1>2. PICK v \in FirstView(Seat, w, Before) :
           \E s \in IF v = None THEN CursorFocus(Seat, Before)
                    ELSE {FocusView(Seat, w, v, Before)} : SeatBecomes(s)
    BY DEF CycleWorkspace
  <1>3. PICK s \in IF v = None THEN CursorFocus(Seat, Before)
                   ELSE {FocusView(Seat, w, v, Before)} : SeatBecomes(s)
    BY <1>2
  <1>4. /\ SeatOk(Seat, Before, mapped) /\ Seat.mode = "normal" /\ Seat.current = current
        /\ SceneOk(Before, mapped) /\ Before.hidden \in SUBSET Views /\ forced = {}
        /\ current \in Homes /\ wanted \subseteq Homes /\ ViewsTyped
    BY <1>1, Unlocked, Seated
  <1>5. SeatOk(s, Before, mapped) /\ s.mode = "normal" /\ s.current \in Homes
    <2>1. CASE v = None
      <3>1. s \in CursorFocus(Seat, Before)
        BY <1>3, <2>1
      <3>2. /\ SeatOk(s, Before, mapped) /\ s.mode = Seat.mode
            /\ s.current \in wanted \cup {Seat.current}
        BY <1>4, <3>1, CursorFocusOk
      <3> QED
        BY <1>4, <3>2
    <2>2. CASE v # None
      <3>1. s = FocusView(Seat, w, v, Before)
        BY <1>3, <2>2
      <3>2. v \in Views \cup {None} /\ Focusable(Before, mapped, w, v)
        BY <1>2, <1>4, FirstViewOk
      <3>3. Turned(FocusView(Seat, w, v, Before), Before, mapped, w)
        BY <1>4, <3>2, FocusViewOk
      <3> QED
        BY <1>1, <1>4, <3>1, <3>3 DEF Turned
    <2> QED
      BY <2>1, <2>2
  <1> QED
    BY <1>1, <1>3, <1>5, SeatOnly

-----------------------------------------------------------------------------
(* The user's handlers, outside the screen locker                          *)

\* A handler that shows and hides views of the desktop, and may move those it
\* shows to another workspace of the layout.
Rehung(gone, come) ==
    /\ mode # "lock"
    /\ gone \in SUBSET Views /\ come \in SUBSET mapped
    /\ gone \cap hidden = {}
    /\ Rearrange(gone, come)
    /\ place' \in [Views -> Place \cup {Nowhere}]
    /\ \A v \in Views \ come : place'[v].ws = place[v].ws
    /\ \A v \in come : place'[v].ws \in Homes
    /\ displayed' \in [Workspaces -> Sheets]

\* It leaves the views, and the scene, as the invariant asks.
LEMMA RehungOk ==
    ASSUME IInv, NEW gone, NEW come, Rehung(gone, come)
    PROVE  /\ ViewsTyped' /\ Home' /\ Homes' = Homes
           /\ SceneOk(After, mapped') /\ forced' = {}
           /\ mode' # "lock" => \A v \in Views : ViewOk(v)'
           /\ \A v \in mapped \ gone : place'[v].ws = place[v].ws => Undisturbed(v)
  <1>1. ViewsTyped /\ Home /\ \A v \in Views : Listing(v) /\ Shining(v)
    BY DEF IInv, ViewOk, Lighting
  <1>2. forced = {} /\ Homes \subseteq Workspaces /\ \A v \in Views : v \notin mapped \cap onLock
    BY Unlocked, Seated DEF IInv, ViewOk, Lighting, Locked, Rehung
  <1>3. /\ Exchange(gone, come) /\ public' = public /\ onLock' = onLock
        /\ outputs' = outputs /\ wanted' = wanted /\ shown' = shown /\ mapped' = mapped
        /\ gone \in SUBSET Views /\ come \in SUBSET Views
        /\ gone \cap (hidden \cup forced) = {} /\ come \cap forced = {}
        /\ place' \in [Views -> Place \cup {Nowhere}]
        /\ \A v \in Views \ come : place'[v].ws = place[v].ws
        /\ \A v \in come : place'[v].ws \in Homes
        /\ displayed' \in [Workspaces -> Sheets] /\ mapped' = mapped \cup come
    BY <1>1, <1>2 DEF Rehung, Rearrange, outputVars, ViewsTyped
  <1>4. \A v \in come : place'[v].ws \in Workspaces
    BY <1>2, <1>3
  <1>5. /\ hidden' \in SUBSET Views /\ forced' = forced /\ lit' \in SUBSET Views
        /\ linked' \in [Views -> Workspaces \cup {None}]
        /\ \A v \in Views : Listing(v)' /\ Shining(v)'
        /\ \A v \in mapped \ gone : place'[v].ws = place[v].ws => Undisturbed(v)
    BY <1>1, <1>3, <1>4, ExchangeOk
  <1>6. ViewsTyped'
    BY <1>1, <1>3, <1>5 DEF ViewsTyped
  <1>7. Homes' = Homes /\ Home'
    <2>1. Homes' = Homes
      BY <1>3 DEF Homes
    <2> QED
      BY <1>1, <1>3, <2>1 DEF Home, Ws
  <1>8. mode' # "lock" => \A v \in Views : Lighting(v)' /\ Owing(v)'
    BY <1>2, <1>3, <1>5 DEF Lighting, Owing, Locked
  <1>9. SceneOk(After, mapped')
    BY <1>2, <1>5, <1>6, SceneAfter
  <1> QED
    BY <1>2, <1>5, <1>6, <1>7, <1>8, <1>9 DEF ViewOk

\* Such a handler ends when the focus has settled in what it leaves.
LEMMA RehungEnds ==
    ASSUME IInv, NEW gone, NEW come, Rehung(gone, come), NEW s,
           SeatOk(s, After, mapped'), s.mode # "lock", s.current \in Homes,
           SeatBecomes(s)
    PROVE  IInv'
  <1>1. mode' # "lock"
    BY DEF SeatBecomes
  <1>2. ViewsTyped' /\ Home' /\ Homes' = Homes /\ \A v \in Views : ViewOk(v)'
    BY <1>1, RehungOk
  <1> QED
    BY <1>2, Assembled

\* One that uses hikari_view_hide() and hikari_view_show() as they ask, and keeps
\* the views on their workspaces.
Reshaped(gone, come) ==
    /\ Rehung(gone, come)
    /\ ~Misused(gone, come)
    /\ \A v \in Views : place'[v].ws = place[v].ws

\* A seat on the way through such a handler.
Ready(s) == SeatOk(s, Before, mapped) /\ s.mode # "lock" /\ s.current \in Homes

\* The focus of such a handler that ends with hikari_server_cursor_focus().
LEMMA ReshapedSeats ==
    ASSUME Races = {}, IInv, NEW gone, NEW come, Reshaped(gone, come), NEW s, Ready(s),
           NEW u \in SeatsAfter(s, gone, come)
    PROVE  SeatOk(u, After, mapped') /\ u.mode # "lock" /\ u.current \in Homes
  <1>1. /\ SceneOk(Before, mapped) /\ forced = {} /\ ViewsTyped /\ wanted \subseteq Homes
        /\ mapped \subseteq Views
    BY Unlocked, Seated DEF Reshaped, Rehung, ViewsTyped
  <1>2. SceneOk(After, mapped') /\ forced' = {} /\ \A v \in mapped \ gone : Undisturbed(v)
    BY <1>1, RehungOk DEF Reshaped
  <1>3. /\ gone \in SUBSET Views /\ come \in SUBSET Views /\ ~Misused(gone, come)
        /\ SeatOk(s, Before, mapped) /\ s.mode # "lock" /\ s.current \in Homes
    BY <1>1 DEF Reshaped, Rehung, Ready
  <1>4. /\ SeatOk(u, After, mapped') /\ u.mode \in Modes(s.mode)
        /\ u.current \in wanted \cup {s.current}
    BY <1>1, <1>2, <1>3, SeatsAfterOk
  <1> QED
    BY <1>1, <1>3, <1>4 DEF Modes

LEMMA ReshapedKeeps ==
    ASSUME Races = {}, IInv, NEW gone, NEW come, Reshaped(gone, come), NEW s, Ready(s),
           NEW u \in SeatsAfter(s, gone, come), SeatBecomes(u)
    PROVE  IInv'
  <1>1. SeatOk(u, After, mapped') /\ u.mode # "lock" /\ u.current \in Homes
    BY ReshapedSeats
  <1> QED
    BY <1>1, RehungEnds DEF Reshaped

\* The seat at the start of such a handler.
LEMMA SeatReady ==
    ASSUME IInv, mode # "lock"
    PROVE  Ready(Seat)
  BY Seated DEF Ready

\* Nothing moves between sheets.
LEMMA InPlace ==
    ASSUME IInv, mode # "lock", NEW gone \in SUBSET Views, NEW come \in SUBSET mapped,
           ~Misused(gone, come), Rearrange(gone, come), UNCHANGED place,
           displayed' \in [Workspaces -> Sheets]
    PROVE  Reshaped(gone, come)
  <1>1. ViewsTyped /\ \A v \in Views : Listing(v) /\ Ws(v) \in Homes \cup {None}
    BY DEF IInv, ViewOk, Home
  <1>2. \A v \in come : Ws(v) \in Homes
    BY <1>1 DEF Listing, ViewsTyped
  <1> QED
    BY <1>1, <1>2 DEF Reshaped, Rehung, Misused, ViewsTyped, Ws

\* What the assertions ask, outside the screen locker.
LEMMA WellUsed ==
    ASSUME IInv, mode # "lock", NEW gone, gone \cap hidden = {},
           NEW come, come \subseteq hidden \cup gone
    PROVE  ~Misused(gone, come)
  BY Unlocked DEF Misused

LEMMA MinimizeKeeps ==
    ASSUME Races = {}, IInv, NEW v \in Views, Minimize(v)
    PROVE  IInv'
  <1>1. /\ mode = "normal" /\ v \in mapped \ (hidden \cup forced)
        /\ UNCHANGED <<place, displayed>> /\ Rearrange({v}, {})
    BY DEF Minimize
  <1>2. PICK u \in SeatsAfter(Seat, {v}, {}) : SeatBecomes(u)
    BY DEF Minimize
  <1>3. ~Misused({v}, {})
    BY <1>1, WellUsed
  <1>4. Reshaped({v}, {})
    BY <1>1, <1>3, InPlace DEF IInv, ViewsTyped
  <1> QED
    BY <1>1, <1>2, <1>4, SeatReady, ReshapedKeeps

LEMMA DisplaySheetKeeps ==
    ASSUME Races = {}, IInv, NEW nr \in Sheets, DisplaySheet(nr)
    PROVE  IInv'
  <1> DEFINE gone == Leaving(current, nr)
  <1>1. PICK come \in SUBSET Coming(current, nr) :
           /\ Rearrange(gone, come)
           /\ \E u \in SeatsAfter(Seat, gone, come) : SeatBecomes(u)
    BY DEF DisplaySheet
  <1>2. PICK u \in SeatsAfter(Seat, gone, come) : SeatBecomes(u)
    BY <1>1
  <1>3. /\ mode = "normal" /\ UNCHANGED place
        /\ displayed' = [displayed EXCEPT ![current] = nr]
    BY DEF DisplaySheet
  <1>4. displayed' \in [Workspaces -> Sheets] /\ mapped \subseteq Views
    BY <1>3 DEF IInv, ViewsTyped
  <1>5. /\ gone \in SUBSET Views /\ gone \cap hidden = {}
        /\ come \in SUBSET mapped /\ come \subseteq hidden
    BY <1>4 DEF Leaving, LinkedIn, Coming, OnWorkspace
  <1> HIDE DEF gone
  <1>6. ~Misused(gone, come)
    BY <1>3, <1>5, WellUsed
  <1>7. Reshaped(gone, come)
    BY <1>1, <1>3, <1>4, <1>5, <1>6, InPlace
  <1> QED
    BY <1>2, <1>3, <1>7, SeatReady, ReshapedKeeps

LEMMA RelayoutKeeps ==
    ASSUME Races = {}, IInv, NEW w \in Workspaces, Relayout(w)
    PROVE  IInv'
  <1>1. PICK come \in SUBSET {v \in OnWorkspace(w) \cap hidden : Visible(place[v], displayed)} :
           /\ Rearrange({}, come)
           /\ \E u \in SeatsAfter(Seat, {}, come) : SeatBecomes(u)
    BY DEF Relayout
  <1>2. PICK u \in SeatsAfter(Seat, {}, come) : SeatBecomes(u)
    BY <1>1
  <1>3. mode # "lock" /\ UNCHANGED <<place, displayed>>
    BY DEF Relayout
  <1>4. come \in SUBSET mapped /\ come \subseteq hidden
    BY DEF OnWorkspace
  <1>5. ~Misused({}, come)
    BY <1>3, <1>4, WellUsed
  <1>6. Reshaped({}, come)
    BY <1>1, <1>3, <1>4, <1>5, InPlace DEF IInv, ViewsTyped
  <1> QED
    BY <1>2, <1>3, <1>6, SeatReady, ReshapedKeeps

LEMMA HideViewsKeeps ==
    ASSUME Races = {}, IInv, HideViews
    PROVE  IInv'
  <1>1. PICK gone \in {LinkedIn(current) \ {focus[current]}}
                      \cup {g \in SUBSET {v \in Views : linked[v] # None} : focus[current] \in g} :
           /\ Rearrange(gone, {})
           /\ \E u \in SeatsAfter(Seat, gone, {}) : SeatBecomes(u)
    BY DEF HideViews
  <1>2. PICK u \in SeatsAfter(Seat, gone, {}) : SeatBecomes(u)
    BY <1>1
  <1>3. mode = "normal" /\ UNCHANGED <<place, displayed>>
    BY DEF HideViews
  <1>4. gone \in SUBSET Views /\ \A v \in gone : linked[v] # None
    <2>1. mapped \subseteq Views /\ current \in Workspaces
      BY Seated DEF ViewsTyped
    <2> QED
      BY <2>1, Names DEF LinkedIn
  <1>5. gone \cap hidden = {}
    BY <1>3, <1>4, Unlocked
  <1>6. ~Misused(gone, {})
    BY <1>3, <1>5, WellUsed
  <1>7. Reshaped(gone, {})
    BY <1>1, <1>3, <1>4, <1>6, InPlace DEF IInv, ViewsTyped
  <1> QED
    BY <1>2, <1>3, <1>7, SeatReady, ReshapedKeeps

LEMMA BringKeeps ==
    ASSUME Races = {}, IInv, NEW v \in Views, Bring(v)
    PROVE  IInv'
  <1> DEFINE w == Ws(v)
             gone(nr) == IF nr = displayed[w] THEN {} ELSE Leaving(w, nr)
             with(nr) == IF nr = displayed[w] THEN {} ELSE Coming(w, nr)
  <1>1. mode # "lock" /\ v \in mapped /\ UNCHANGED place
    BY DEF Bring
  <1>2. PICK start \in IF mode = "modal" THEN EnterNormal(Seat, Before) ELSE {Seat},
             nr \in {displayed[w], place[v].nr} :
           /\ displayed' = [displayed EXCEPT ![w] = nr]
           /\ \E some \in SUBSET with(nr) :
                 /\ Rearrange(gone(nr), some \cup ({v} \cap hidden))
                 /\ \E u \in SeatsAfter(start, gone(nr), some \cup ({v} \cap hidden)) : SeatBecomes(u)
    BY DEF Bring
  <1>3. PICK some \in SUBSET with(nr) :
           /\ Rearrange(gone(nr), some \cup ({v} \cap hidden))
           /\ \E u \in SeatsAfter(start, gone(nr), some \cup ({v} \cap hidden)) : SeatBecomes(u)
    BY <1>2
  <1> DEFINE g == gone(nr)
             come == some \cup ({v} \cap hidden)
  <1>4. PICK u \in SeatsAfter(start, g, come) : SeatBecomes(u)
    BY <1>3
  <1>5. Ready(start)
    <2>1. CASE mode = "modal"
      <3>1. start \in EnterNormal(Seat, Before)
        BY <1>2, <2>1
      <3>2. /\ SeatOk(Seat, Before, mapped) /\ forced = {} /\ SceneOk(Before, mapped)
            /\ Seat.current = current /\ current \in Homes /\ wanted \subseteq Homes /\ ViewsTyped
        BY <1>1, Unlocked, Seated
      <3>3. Settled(start, Before, mapped, "normal", wanted \cup {Seat.current})
        BY <3>1, <3>2, EnterNormalOk
      <3> QED
        BY <3>2, <3>3 DEF Ready, Settled
    <2>2. CASE mode # "modal"
      BY <1>1, <1>2, <2>2, SeatReady
    <2> QED
      BY <2>1, <2>2
  <1>6. ViewsTyped /\ mapped \subseteq Views /\ w \in Workspaces
    <2>1. ViewsTyped /\ Homes \subseteq Workspaces
      BY Seated
    <2> QED
      BY <1>1, <2>1 DEF IInv, ViewOk, Listing, Home, ViewsTyped
  <1>7. displayed' \in [Workspaces -> Sheets]
    <2>1. displayed[w] \in Sheets /\ place[v].nr \in Sheets
      BY <1>6, SheetAssumption DEF ViewsTyped, Place, Nowhere
    <2> QED
      BY <1>2, <1>6, <2>1 DEF ViewsTyped
  <1>8. g \in SUBSET Views /\ g \cap hidden = {} /\ come \in SUBSET mapped /\ come \subseteq hidden
    BY <1>1, <1>6 DEF Leaving, LinkedIn, Coming, OnWorkspace
  <1>9. Rearrange(g, come)
    BY <1>3
  <1> HIDE DEF w, gone, with, g, come
  <1>10. ~Misused(g, come)
    BY <1>1, <1>8, WellUsed
  <1>11. Reshaped(g, come)
    BY <1>1, <1>7, <1>8, <1>9, <1>10, InPlace
  <1> QED
    BY <1>4, <1>5, <1>11, ReshapedKeeps

\* A scene without the views in gone.
LEMMA WithoutOk ==
    ASSUME SceneOk(Before, mapped), NEW gone \in SUBSET Views
    PROVE  /\ SceneOk(Without(Before, gone), mapped)
           /\ Without(Before, gone).place = place
           /\ \A v \in Views : Without(Before, gone).linked[v] =
                               IF v \in gone THEN None ELSE linked[v]
  <1> DEFINE x == Without(Before, gone)
  <1>1. /\ x.hidden = hidden \cup gone /\ x.place = place
        /\ x.linked = [v \in Views |-> IF v \in gone THEN None ELSE linked[v]]
    BY DEF Without, Before
  <1>2. /\ Before.hidden = hidden /\ Before.place = place /\ Before.linked = linked
    BY DEF Before
  <1> HIDE DEF x
  <1>3. /\ hidden \in SUBSET Views /\ linked \in [Views -> Workspaces \cup {None}]
        /\ \A v \in Views :
              /\ v \notin hidden => v \in mapped
              /\ linked[v] # None <=> v \notin hidden
              /\ linked[v] # None => place[v].ws = linked[v]
    BY <1>2 DEF SceneOk
  <1>4. x.linked \in [Views -> Workspaces \cup {None}] /\ x.hidden \in SUBSET Views
    BY <1>1, <1>3
  <1>5. \A v \in Views : x.linked[v] = IF v \in gone THEN None ELSE linked[v]
    BY <1>1
  <1>6. SceneOk(x, mapped)
    BY <1>1, <1>3, <1>4, <1>5 DEF SceneOk
  <1> QED
    BY <1>1, <1>5, <1>6 DEF x

\* hikari_workspace_clear() and then showing views: the pointer is asked for in
\* between, when nothing of gone is to be seen.
LEMMA ClearedKeeps ==
    ASSUME Races = {}, IInv, NEW gone, NEW come, Reshaped(gone, come),
           NEW s \in ClearFocus(Seat, gone), NEW t \in CursorFocus(s, Without(Before, gone)),
           NEW u \in CursorFocus(Fail(t, Misused(gone, come)), After), SeatBecomes(u)
    PROVE  IInv'
  <1>1. /\ SceneOk(Before, mapped) /\ forced = {} /\ ViewsTyped /\ wanted \subseteq Homes
        /\ SeatOk(Seat, Before, mapped) /\ Seat.mode = mode /\ Seat.current = current
        /\ current \in Homes /\ mode # "lock" /\ gone \in SUBSET Views
    BY Unlocked, Seated DEF Reshaped, Rehung
  <1>2. /\ SeatOk(s, Before, mapped) /\ Rid(s, gone)
        /\ s.mode \in Modes(Seat.mode) /\ s.current = Seat.current
    BY <1>1, ClearFocusOk
  <1> DEFINE x == Without(Before, gone)
  <1>3. /\ SceneOk(x, mapped) /\ x.place = place
        /\ \A v \in Views : x.linked[v] = IF v \in gone THEN None ELSE linked[v]
    BY <1>1, WithoutOk
  <1>4. t \in CursorFocus(s, x)
    OBVIOUS
  <1> HIDE DEF x
  <1>5. SeatOk(s, x, mapped)
    <2>1. /\ s \in Seats /\ s.focus \in [Workspaces -> Views \cup {None}]
          /\ \A w \in Workspaces : s.focus[w] # None =>
                s.focus[w] \in mapped /\ place[s.focus[w]].ws = w /\ linked[s.focus[w]] = w
          /\ \A w \in Workspaces : s.focus[w] \notin gone
      BY <1>2 DEF SeatOk, Seats, Before, Rid
    <2>2. \A w \in Workspaces : s.focus[w] # None =>
             /\ s.focus[w] \in mapped /\ x.place[s.focus[w]].ws = w
             /\ x.linked[s.focus[w]] = w
      BY <1>3, <2>1
    <2> QED
      BY <1>2, <2>1, <2>2 DEF SeatOk
  <1>6. SeatOk(t, x, mapped) /\ t.mode = s.mode /\ t.current \in wanted \cup {s.current}
    BY <1>1, <1>3, <1>4, <1>5, CursorFocusOk
  <1>7. SeatOk(t, Before, mapped) /\ Rid(t, gone)
    <2>1. /\ t \in Seats /\ t.focus \in [Workspaces -> Views \cup {None}]
          /\ \A w \in Workspaces : t.focus[w] # None =>
                t.focus[w] \in mapped /\ place[t.focus[w]].ws = w /\ x.linked[t.focus[w]] = w
      BY <1>3, <1>6 DEF SeatOk, Seats
    <2>2. \A w \in Workspaces : t.focus[w] # None =>
             t.focus[w] \notin gone /\ linked[t.focus[w]] = w
      BY <1>3, <2>1, Names
    <2>3. Rid(t, gone)
      BY <1>1, <2>1, <2>2, Names DEF Rid
    <2>4. SeatOk(t, Before, mapped)
      BY <1>6, <2>1, <2>2 DEF SeatOk, Before
    <2> QED
      BY <2>3, <2>4
  <1>8. Fail(t, Misused(gone, come)) = t
    <2>1. Misused(gone, come) \in BOOLEAN
      BY DEF Misused
    <2> QED
      BY <1>7, <2>1, NoFault DEF SeatOk, Reshaped
  <1>9. SceneOk(After, mapped') /\ forced' = {} /\ \A v \in mapped \ gone : Undisturbed(v)
    <2>1. mapped \subseteq Views
      BY <1>1 DEF ViewsTyped
    <2> QED
      BY <2>1, RehungOk DEF Reshaped
  <1>10. SeatOk(t, After, mapped')
    BY <1>1, <1>7, <1>9, SeatMoves
  <1>11. u \in CursorFocus(t, After)
    BY <1>8
  <1>12. SeatOk(u, After, mapped') /\ u.mode = t.mode /\ u.current \in wanted \cup {t.current}
    BY <1>1, <1>9, <1>10, <1>11, CursorFocusOk
  <1>13. u.mode # "lock" /\ u.current \in Homes
    BY <1>1, <1>2, <1>6, <1>12 DEF Modes
  <1> QED
    BY <1>12, <1>13, RehungEnds DEF Reshaped

LEMMA ClearAndShowKeeps ==
    ASSUME Races = {}, IInv, ClearAndShow
    PROVE  IInv'
  <1> DEFINE gone == LinkedIn(current)
  <1>1. mode = "normal" /\ UNCHANGED <<place, displayed>>
    BY DEF ClearAndShow
  <1>2. PICK come \in SUBSET {v \in OnWorkspace(current) : v \in hidden \cup gone} :
           /\ Rearrange(gone, come)
           /\ \E s \in ClearFocus(Seat, gone) :
              \E t \in CursorFocus(s, Without(Before, gone)) :
              \E u \in CursorFocus(Fail(t, Misused(gone, come)), After) : SeatBecomes(u)
    BY DEF ClearAndShow
  <1>3. PICK s \in ClearFocus(Seat, gone) :
           \E t \in CursorFocus(s, Without(Before, gone)) :
           \E u \in CursorFocus(Fail(t, Misused(gone, come)), After) : SeatBecomes(u)
    BY <1>2
  <1>4. PICK t \in CursorFocus(s, Without(Before, gone)) :
           \E u \in CursorFocus(Fail(t, Misused(gone, come)), After) : SeatBecomes(u)
    BY <1>3
  <1>5. PICK u \in CursorFocus(Fail(t, Misused(gone, come)), After) : SeatBecomes(u)
    BY <1>4
  <1>6. /\ gone \in SUBSET Views /\ gone \cap hidden = {}
        /\ come \in SUBSET mapped /\ come \subseteq hidden \cup gone
    <2>1. mapped \subseteq Views /\ current \in Workspaces
      BY Seated DEF ViewsTyped
    <2> QED
      BY <1>1, <2>1, Unlocked, Names DEF LinkedIn, OnWorkspace
  <1> HIDE DEF gone
  <1>7. ~Misused(gone, come)
    BY <1>1, <1>6, WellUsed
  <1>8. Reshaped(gone, come)
    BY <1>1, <1>2, <1>6, <1>7, InPlace DEF IInv, ViewsTyped
  <1> QED
    BY <1>5, <1>8, ClearedKeeps

LEMMA OnlyGroupKeeps ==
    ASSUME Races = {}, IInv, OnlyGroup
    PROVE  IInv'
  <1> DEFINE gone == UNION {LinkedIn(w) : w \in outputs}
  <1>1. mode = "normal" /\ UNCHANGED <<place, displayed>>
    BY DEF OnlyGroup
  <1>2. PICK come \in {g \in SUBSET mapped : focus[current] \in g /\ g \subseteq hidden \cup gone} :
           /\ Rearrange(gone, come)
           /\ \E s \in ClearFocus(Seat, gone) :
              \E t \in CursorFocus(s, Without(Before, gone)) :
              \E u \in CursorFocus(Fail(t, Misused(gone, come)), After) : SeatBecomes(u)
    BY DEF OnlyGroup
  <1>3. PICK s \in ClearFocus(Seat, gone) :
           \E t \in CursorFocus(s, Without(Before, gone)) :
           \E u \in CursorFocus(Fail(t, Misused(gone, come)), After) : SeatBecomes(u)
    BY <1>2
  <1>4. PICK t \in CursorFocus(s, Without(Before, gone)) :
           \E u \in CursorFocus(Fail(t, Misused(gone, come)), After) : SeatBecomes(u)
    BY <1>3
  <1>5. PICK u \in CursorFocus(Fail(t, Misused(gone, come)), After) : SeatBecomes(u)
    BY <1>4
  <1>6. /\ gone \in SUBSET Views /\ gone \cap hidden = {}
        /\ come \in SUBSET mapped /\ come \subseteq hidden \cup gone
    <2>1. mapped \subseteq Views /\ outputs \subseteq Workspaces
      BY Seated, Names DEF ViewsTyped
    <2>2. \A v \in gone : v \in mapped /\ linked[v] # None
      BY <2>1, Names DEF LinkedIn
    <2> QED
      BY <1>1, <1>2, <2>1, <2>2, Unlocked
  <1> HIDE DEF gone
  <1>7. ~Misused(gone, come)
    BY <1>1, <1>6, WellUsed
  <1>8. Reshaped(gone, come)
    BY <1>1, <1>2, <1>6, <1>7, InPlace DEF IInv, ViewsTyped
  <1> QED
    BY <1>5, <1>8, ClearedKeeps

\* Whether or not the handler leaves a modal mode, the focus settles.
LEMMA ModalEndsOk ==
    ASSUME Races = {}, ViewsTyped, NEW scene, NEW m, SceneOk(scene, m), NEW seats,
           \A s \in seats : SeatOk(s, scene, m) /\ s.mode # "lock" /\ s.current \in Homes,
           NEW t \in ModalEnds(seats, scene)
    PROVE  SeatOk(t, scene, m) /\ t.mode # "lock" /\ t.current \in Homes
  <1>1. CASE mode = "modal"
    <2>1. PICK s \in seats : t \in EnterNormal(s, scene)
      BY <1>1 DEF ModalEnds
    <2>2. SeatOk(s, scene, m) /\ s.current \in Homes
      OBVIOUS
    <2>3. Settled(t, scene, m, "normal", wanted \cup {s.current})
      BY <2>1, <2>2, EnterNormalOk
    <2>4. wanted \subseteq Homes
      BY DEF Homes
    <2> QED
      BY <2>2, <2>3, <2>4 DEF Settled
  <1>2. CASE mode # "modal"
    BY <1>2 DEF ModalEnds
  <1> QED
    BY <1>1, <1>2

\* The view that has the focus, outside the screen locker.
LEMMA FocusedView ==
    ASSUME IInv, mode # "lock", focus[current] # None
    PROVE  /\ focus[current] \in mapped \ hidden /\ focus[current] \in Views
           /\ Ws(focus[current]) = current /\ current \in Workspaces
           /\ linked[focus[current]] = current
  <1>1. /\ SeatOk(Seat, Before, mapped) /\ mapped \subseteq Views
        /\ current \in Workspaces /\ Seat.focus = focus
    BY Unlocked, Seated DEF ViewsTyped
  <1>2. /\ focus[current] \in mapped /\ place[focus[current]].ws = current
        /\ linked[focus[current]] = current
    BY <1>1 DEF SeatOk, Before
  <1> QED
    BY <1>1, <1>2, Unlocked, Names DEF Ws

LEMMA PinKeeps ==
    ASSUME Races = {}, IInv, NEW nr \in Sheets, Pin(nr)
    PROVE  IInv'
  <1> DEFINE v == focus[current]
             to == [ws |-> Ws(v), nr |-> nr]
             gone == IF Visible(to, displayed) THEN {} ELSE {v}
  <1>1. /\ mode # "lock" /\ v # None /\ UNCHANGED displayed
        /\ place' = [place EXCEPT ![v] = to] /\ Rearrange(gone, {})
    BY DEF Pin
  <1>2. PICK s \in ModalEnds(SeatsAfter(Fail(Seat, v \in hidden), gone, {}), After) : SeatBecomes(s)
    BY DEF Pin
  <1>3. /\ v \in mapped \ hidden /\ v \in Views /\ Ws(v) = current /\ current \in Workspaces
    BY <1>1, FocusedView
  <1>4. /\ to \in Place /\ to.ws = place[v].ws
    BY <1>3 DEF Place, Ws
  <1>5. gone \in SUBSET Views /\ gone \cap hidden = {}
    BY <1>3
  <1>6. ViewsTyped /\ wanted \subseteq Homes
    BY Seated
  <1> HIDE DEF to, v, gone
  <1>7. /\ place' \in [Views -> Place \cup {Nowhere}]
        /\ \A x \in Views : place'[x].ws = place[x].ws
    BY <1>1, <1>3, <1>4, <1>6 DEF ViewsTyped
  <1>8. ~Misused(gone, {})
    BY <1>1, <1>5, WellUsed
  <1>9. Rehung(gone, {}) /\ Reshaped(gone, {})
    BY <1>1, <1>5, <1>6, <1>7, <1>8 DEF Rehung, Reshaped, ViewsTyped
  <1>10. Ready(Seat) /\ Fail(Seat, v \in hidden) = Seat
    <2>1. Ready(Seat)
      BY <1>1, SeatReady
    <2>2. Seat \in Seats /\ ~Seat.failed /\ ~(v \in hidden)
      BY <1>3, <2>1 DEF Ready, SeatOk
    <2>3. (v \in hidden) \in BOOLEAN
      OBVIOUS
    <2> QED
      BY <2>1, <2>2, <2>3, NoFault
  <1> DEFINE seats == SeatsAfter(Seat, gone, {})
  <1>11. SceneOk(After, mapped') /\ forced' = {}
    BY <1>9, RehungOk
  <1>12. \A u \in seats : SeatOk(u, After, mapped') /\ u.mode # "lock" /\ u.current \in Homes
    BY <1>9, <1>10, <1>11, ReshapedSeats
  <1>13. s \in ModalEnds(seats, After)
    BY <1>2, <1>10
  <1> HIDE DEF seats
  <1>14. SeatOk(s, After, mapped') /\ s.mode # "lock" /\ s.current \in Homes
    BY <1>6, <1>11, <1>12, <1>13, ModalEndsOk
  <1> QED
    BY <1>2, <1>9, <1>11, <1>14, RehungEnds

LEMMA MigrateKeeps ==
    ASSUME Races = {}, IInv, NEW w \in Workspaces, Migrate(w)
    PROVE  IInv'
  <1> DEFINE v == focus[current]
             a == [Seat EXCEPT !.focus[current] = None, !.current = w]
             n == [a EXCEPT !.focus[w] = v]
             to == [ws |-> w, nr |-> displayed[w]]
  <1>1. /\ mode # "lock" /\ v # None /\ w \in wanted \ {Ws(v)} /\ w \notin layered
        /\ UNCHANGED displayed /\ place' = [place EXCEPT ![v] = to] /\ Rearrange({}, {v})
    BY DEF Migrate
  <1>2. PICK s \in {n} \cup ModalEnds({n}, After) : SeatBecomes(s)
    BY DEF Migrate
  <1>3. /\ v \in mapped \ hidden /\ v \in Views /\ Ws(v) = current /\ current \in Workspaces
    BY <1>1, FocusedView
  <1>4. /\ ViewsTyped /\ wanted \subseteq Homes /\ SeatOk(Seat, Before, mapped)
        /\ Seat.mode = mode /\ Seat.focus = focus /\ Seat.layered = layered
    BY <1>1, Seated, Unlocked
  <1>5. to \in Place
    BY <1>4 DEF Place, ViewsTyped
  <1>6. /\ place' \in [Views -> Place \cup {Nowhere}]
        /\ \A x \in Views \ {v} : place'[x] = place[x]
        /\ place'[v].ws = w
    BY <1>1, <1>3, <1>4, <1>5 DEF ViewsTyped
  <1>7. Rehung({}, {v})
    BY <1>1, <1>3, <1>4, <1>6 DEF Rehung, ViewsTyped
  <1>8. /\ SceneOk(After, mapped') /\ forced' = {}
        /\ \A x \in mapped : place'[x].ws = place[x].ws => Undisturbed(x)
    BY <1>7, RehungOk
  <1>9. /\ a \in Seats /\ a.layered = layered /\ a.current = w /\ a.mode = mode /\ ~a.failed
        /\ a.focus = [focus EXCEPT ![current] = None]
    <2>1. Seat \in Seats /\ ~Seat.failed
      BY <1>4 DEF SeatOk
    <2> QED
      BY <1>3, <1>4, <2>1 DEF Seats
  <1> HIDE DEF a
  <1>10. /\ n \in Seats /\ n.layered = layered /\ n.current = w /\ n.mode = mode /\ ~n.failed
         /\ \A u \in Workspaces : n.focus[u] = IF u = w THEN v
                                               ELSE IF u = current THEN None ELSE focus[u]
    <2>1. /\ n \in Seats /\ n.layered = a.layered /\ n.current = a.current /\ n.mode = a.mode
          /\ n.failed = a.failed /\ n.focus = [a.focus EXCEPT ![w] = v]
      BY <1>3, <1>9 DEF Seats
    <2>2. focus \in [Workspaces -> Views \cup {None}]
      BY <1>4 DEF SeatOk, Seats
    <2> QED
      BY <1>3, <1>9, <2>1, <2>2
  <1> HIDE DEF n, to
  <1>11. \A u \in Workspaces : n.focus[u] # None =>
           n.focus[u] \in mapped' /\ place'[n.focus[u]].ws = u /\ linked'[n.focus[u]] = u
    <2>1. SUFFICES ASSUME NEW u \in Workspaces, n.focus[u] # None
                   PROVE  n.focus[u] \in mapped' /\ place'[n.focus[u]].ws = u /\ linked'[n.focus[u]] = u
      OBVIOUS
    <2>2. CASE u = w
      <3>1. mapped' = mapped /\ linked'[v] = place'[v].ws
        BY <1>1, <1>3 DEF Rearrange, Exchange
      <3> QED
        BY <1>3, <1>6, <1>10, <2>2, <3>1
    <2>3. CASE u # w
      <3>1. n.focus[u] = focus[u] /\ u # current
        BY <1>10, <2>1, <2>3
      <3>2. focus[u] \in mapped /\ place[focus[u]].ws = u /\ linked[focus[u]] = u
        BY <1>4, <2>1, <3>1 DEF SeatOk, Before
      <3>3. focus[u] # v
        BY <1>3, <3>1, <3>2 DEF Ws
      <3>4. Undisturbed(focus[u])
        BY <1>4, <1>6, <1>8, <3>2, <3>3 DEF ViewsTyped
      <3> QED
        BY <3>1, <3>2, <3>4, Names DEF Undisturbed
    <2> QED
      BY <2>2, <2>3
  <1>12. SeatOk(n, After, mapped')
    <2>1. \A u \in n.layered : n.focus[u] = None
      BY <1>1, <1>4, <1>10 DEF SeatOk, Seats
    <2> QED
      BY <1>1, <1>10, <1>11, <2>1 DEF SeatOk, After, Before
  <1>13. SeatOk(s, After, mapped') /\ s.mode # "lock" /\ s.current \in Homes
    <2>1. n.mode # "lock" /\ n.current \in Homes
      BY <1>1, <1>4, <1>10
    <2>2. CASE s = n
      BY <1>12, <2>1, <2>2
    <2>3. CASE s \in ModalEnds({n}, After)
      <3> DEFINE seats == {n}
      <3>1. \A x \in seats : SeatOk(x, After, mapped') /\ x.mode # "lock" /\ x.current \in Homes
        BY <1>12, <2>1
      <3>2. s \in ModalEnds(seats, After)
        BY <2>3
      <3> HIDE DEF seats
      <3> QED
        BY <1>4, <1>8, <3>1, <3>2, ModalEndsOk
    <2> QED
      BY <1>2, <2>2, <2>3
  <1> QED
    BY <1>2, <1>7, <1>8, <1>13, RehungEnds

LEMMA TogglePublicKeeps ==
    ASSUME IInv, TogglePublic
    PROVE  IInv'
  <1>1. /\ mode = "normal" /\ focus[current] # None
        /\ public' = IF focus[current] \in public THEN public \ {focus[current]}
                     ELSE public \cup {focus[current]}
        /\ UNCHANGED <<mapped, place, hidden, forced, linked, lit, onLock, displayed,
                       focus, layered, current, mode, failed, outputs, wanted, shown>>
    BY DEF TogglePublic, seatVars, outputVars
  <1>2. focus[current] \in Views
    BY <1>1, FocusedView
  <1>3. ViewsTyped'
    BY <1>1, <1>2 DEF IInv, ViewsTyped
  <1>4. Homes' = Homes /\ Home' /\ current' = current
    BY <1>1 DEF IInv, Homes, Home, Ws
  <1>5. \A v \in Views : ViewOk(v)'
    BY <1>1 DEF IInv, ViewOk, Listing, Lighting, Shining, Owing, Locked, Ws
  <1>6. SeatOk(Seat, Before, mapped)'
    BY <1>1 DEF IInv, SeatOk, Seat, Before
  <1> QED
    BY <1>3, <1>4, <1>5, <1>6 DEF IInv

-----------------------------------------------------------------------------
(* Clients' handlers, which the screen locker does not stop                *)

\* What such a handler leaves of the views; whether the lock screen is up is not
\* for it to change.
Handled ==
    /\ ViewsTyped' /\ Home' /\ Homes' = Homes
    /\ \A v \in Views : Listing(v)'
    /\ mode # "lock" => forced' = {}
    /\ (Locked' <=> Locked) => \A v \in Views : Lighting(v)' /\ Owing(v)'

\* One that ends with hikari_server_cursor_focus().
LEMMA HandledEnds ==
    ASSUME Races = {}, IInv, Handled, NEW gone \in SUBSET Views, NEW come \in SUBSET Views,
           ~Misused(gone, come), \A v \in mapped \ gone : Undisturbed(v),
           NEW u \in SeatsAfter(Seat, gone, come), SeatBecomes(u)
    PROVE  IInv'
  <1>1. /\ SeatOk(Seat, Before, mapped) /\ Seat.mode = mode /\ Seat.current = current
        /\ current \in Homes /\ wanted \subseteq Homes /\ ViewsTyped
        /\ mode # "lock" => SceneOk(Before, mapped)
    BY Seated
  <1>2. mode # "lock" => SceneOk(After, mapped')
    BY SceneAfter DEF Handled
  <1>3. /\ SeatOk(u, After, mapped') /\ u.mode \in Modes(Seat.mode)
        /\ u.current \in wanted \cup {Seat.current}
    BY <1>1, <1>2, SeatsAfterOk
  <1>4. Locked' <=> Locked
    BY <1>1, <1>3 DEF Modes, SeatBecomes, Locked
  <1>5. \A v \in Views : ViewOk(v)'
    BY <1>4 DEF Handled, ViewOk
  <1>6. ViewsTyped' /\ Home' /\ u.current \in Homes'
    BY <1>1, <1>3 DEF Handled
  <1> QED
    BY <1>3, <1>5, <1>6, Assembled

\* One that leaves the focus alone, and the views the focus may be on.
LEMMA HandledStays ==
    ASSUME IInv, Handled, UNCHANGED seatVars, NEW gone \in SUBSET Views, Rid(Seat, gone),
           \A v \in mapped \ gone : Undisturbed(v)
    PROVE  IInv'
  <1>1. /\ SeatOk(Seat, Before, mapped) /\ Seat.current = current /\ current \in Homes
    BY Seated
  <1>2. SeatOk(Seat, After, mapped')
    BY <1>1, SeatMoves
  <1>3. SeatBecomes(Seat) /\ (Locked' <=> Locked)
    BY DEF SeatBecomes, Seat, seatVars, Locked
  <1>4. \A v \in Views : ViewOk(v)'
    BY <1>3 DEF Handled, ViewOk
  <1>5. ViewsTyped' /\ Home' /\ Homes' = Homes
    BY DEF Handled
  <1> QED
    BY <1>1, <1>2, <1>3, <1>4, <1>5, Assembled

\* Where the first commit puts a view.
LEMMA ConfiguredOk ==
    ASSUME IInv, NEW v \in Views \ mapped, Configured(v)
    PROVE  /\ place' \in [Views -> Place \cup {Nowhere}] /\ place'[v].ws \in Homes
           /\ \A x \in Views \ {v} : place'[x] = place[x] /\ (x \in public' <=> x \in public)
           /\ public' \in SUBSET Views
  <1>1. /\ ViewsTyped /\ current \in Homes /\ Homes \subseteq Workspaces
        /\ Ws(v) \in Homes \cup {None}
    BY Seated DEF IInv, Home
  <1>2. CASE place[v] # Nowhere /\ UNCHANGED <<place, public>>
    <2>1. place[v] \in Place
      BY <1>1, <1>2 DEF ViewsTyped
    <2>2. place[v].ws # None
      BY <2>1, Names DEF Place
    <2> QED
      BY <1>1, <1>2, <2>2 DEF ViewsTyped, Ws
  <1>3. CASE /\ \E nr \in Sheets : place' = [place EXCEPT ![v] = [ws |-> current, nr |-> nr]]
             /\ public' \in {public, public \cup {v}}
    <2>1. PICK nr \in Sheets : place' = [place EXCEPT ![v] = [ws |-> current, nr |-> nr]]
      BY <1>3
    <2>2. [ws |-> current, nr |-> nr] \in Place
      BY <1>1 DEF Place
    <2>3. /\ place' \in [Views -> Place \cup {Nowhere}] /\ place'[v] = [ws |-> current, nr |-> nr]
          /\ \A x \in Views \ {v} : place'[x] = place[x]
      BY <1>1, <2>1, <2>2 DEF ViewsTyped
    <2> QED
      BY <1>1, <1>3, <2>3 DEF ViewsTyped
  <1> QED
    BY <1>2, <1>3 DEF Configured

\* The views that keep their state.
Untouched(x) ==
    /\ place'[x] = place[x] /\ linked'[x] = linked[x]
    /\ (x \in mapped' <=> x \in mapped) /\ (x \in hidden' <=> x \in hidden)
    /\ (x \in forced' <=> x \in forced) /\ (x \in lit' <=> x \in lit)
    /\ (x \in onLock' <=> x \in onLock) /\ (x \in public' <=> x \in public)
    /\ shown'[x] = shown[x]

LEMMA UntouchedOk ==
    ASSUME IInv, NEW x \in Views, Untouched(x)
    PROVE  /\ Listing(x)' /\ ((Locked' <=> Locked) => Lighting(x)' /\ Owing(x)')
           /\ x \in mapped => Undisturbed(x)
  <1>1. Listing(x) /\ Lighting(x) /\ Owing(x)
    BY DEF IInv, ViewOk
  <1>2. Listing(x)' /\ (x \in mapped => Undisturbed(x))
    BY <1>1 DEF Untouched, Listing, Undisturbed, Ws
  <1>3. ASSUME Locked' <=> Locked
        PROVE  Lighting(x)' /\ Owing(x)'
    BY <1>1, <1>3 DEF Untouched, Lighting, Shining, Owing
  <1> QED
    BY <1>2, <1>3

\* A handler of one view.
LEMMA OneView ==
    ASSUME IInv, NEW v \in Views, ViewsTyped', UNCHANGED outputVars,
           \A x \in Views \ {v} : Untouched(x),
           place'[v].ws \in Homes \cup {None}, Listing(v)',
           mode # "lock" => v \notin forced',
           (Locked' <=> Locked) => Lighting(v)' /\ Owing(v)'
    PROVE  Handled /\ \A x \in mapped \ {v} : Undisturbed(x)
  <1>1. mapped \subseteq Views /\ forced' \subseteq Views /\ Home
    BY DEF IInv, ViewsTyped
  <1>2. \A x \in mapped \ {v} : Undisturbed(x)
    BY <1>1, UntouchedOk
  <1>3. /\ \A x \in Views : Listing(x)'
        /\ (Locked' <=> Locked) => \A x \in Views : Lighting(x)' /\ Owing(x)'
    BY UntouchedOk
  <1>4. mode # "lock" => forced' = {}
    <2>1. mode # "lock" => forced = {}
      BY Unlocked
    <2> QED
      BY <1>1, <2>1 DEF Untouched
  <1>5. Homes' = Homes
    BY DEF Homes, outputVars
  <1>6. Home'
    BY <1>1, <1>5 DEF Home, Untouched, Ws, outputVars
  <1> QED
    BY <1>2, <1>3, <1>4, <1>5, <1>6 DEF Handled

\* refresh_scene_layer() of one view.
LEMMA RefreshLayerOk ==
    ASSUME NEW v \in Views, onLock \in SUBSET Views, NEW flagged
    PROVE  /\ RefreshLayer(v, flagged) \in SUBSET Views
           /\ \A x \in Views \ {v} : x \in RefreshLayer(v, flagged) <=> x \in onLock
           /\ v \in RefreshLayer(v, flagged) <=> Locked /\ v \in flagged
  BY DEF RefreshLayer, Locked

LEMMA TouchedOk ==
    ASSUME ViewsTyped, NEW views
    PROVE  /\ Touched(views) \in [Views -> {"shown", "hidden", "either"}]
           /\ \A x \in Views : Touched(views)[x] = IF x \in views THEN "either" ELSE shown[x]
  BY DEF Touched, ViewsTyped

LEMMA MapKeeps ==
    ASSUME Races = {}, IInv, NEW v \in Views, Map(v)
    PROVE  IInv'
  <1>1. /\ v \notin mapped /\ Configured(v) /\ mapped' = mapped \cup {v}
        /\ onLock' = RefreshLayer(v, public') /\ UNCHANGED <<displayed, outputVars>>
        /\ shown' = Touched({v})
    BY DEF Map
  <1>2. /\ ViewsTyped /\ Homes \subseteq Workspaces
        /\ v \in hidden \ forced /\ linked[v] = None
    BY <1>1, Seated DEF IInv, ViewOk, Listing
  <1>3. /\ place' \in [Views -> Place \cup {Nowhere}] /\ place'[v].ws \in Homes
        /\ place'[v].ws \in Workspaces /\ place'[v].ws # None /\ public' \in SUBSET Views
        /\ \A x \in Views \ {v} : place'[x] = place[x] /\ (x \in public' <=> x \in public)
    BY <1>1, <1>2, ConfiguredOk, Names
  <1>4. /\ onLock' \in SUBSET Views /\ \A x \in Views \ {v} : x \in onLock' <=> x \in onLock
        /\ v \in onLock' <=> Locked /\ v \in public'
    BY <1>1, <1>2, RefreshLayerOk DEF ViewsTyped
  <1>5. /\ shown' \in [Views -> {"shown", "hidden", "either"}] /\ shown'[v] = "either"
        /\ \A x \in Views \ {v} : shown'[x] = shown[x]
    BY <1>1, <1>2, TouchedOk
  <1>6. CASE mode = "lock" /\ v \notin public'
    <2>1. /\ forced' = forced \cup {v} /\ linked' = [linked EXCEPT ![v] = place'[v].ws]
          /\ UNCHANGED <<hidden, lit, seatVars>>
      BY <1>6 DEF Map
    <2>2. /\ linked' \in [Views -> Workspaces \cup {None}] /\ linked'[v] = place'[v].ws
          /\ \A x \in Views \ {v} : linked'[x] = linked[x]
      BY <1>2, <1>3, <2>1 DEF ViewsTyped
    <2>3. ViewsTyped'
      BY <1>1, <1>2, <1>3, <1>4, <1>5, <2>1, <2>2 DEF ViewsTyped, outputVars
    <2>4. \A x \in Views \ {v} : Untouched(x)
      BY <1>1, <1>3, <1>4, <1>5, <2>1, <2>2 DEF Untouched
    <2>5. Listing(v)'
      BY <1>1, <1>2, <1>3, <2>1, <2>2 DEF Listing, Ws
    <2>6. (Locked' <=> Locked) => Lighting(v)' /\ Owing(v)'
      BY <1>4, <1>5, <1>6, <2>1 DEF Lighting, Shining, Owing, Locked
    <2>7. Handled /\ \A x \in mapped \ {v} : Undisturbed(x)
      BY <1>1, <1>3, <1>6, <2>3, <2>4, <2>5, <2>6, OneView
    <2>8. Rid(Seat, {}) /\ \A x \in mapped \ {} : Undisturbed(x)
      BY <1>1, <2>7 DEF Rid
    <2> QED
      BY <2>1, <2>7, <2>8, HandledStays
  <1>7. CASE ~(mode = "lock" /\ v \notin public')
    <2>1. Exchange({}, {v}) /\ \E u \in SeatsAfter(Seat, {}, {v}) : SeatBecomes(u)
      BY <1>7 DEF Map
    <2>2. PICK u \in SeatsAfter(Seat, {}, {v}) : SeatBecomes(u)
      BY <2>1
    <2>3. ~Misused({}, {v})
      BY <1>2 DEF Misused
    <2>4. /\ \A x \in Views : Listing(x) /\ Shining(x)
          /\ \A x \in Views \ {v} : place'[x].ws = place[x].ws
          /\ \A x \in {v} : place'[x].ws \in Workspaces
          /\ {} \in SUBSET Views /\ {v} \in SUBSET Views
          /\ {} \cap (hidden \cup forced) = {} /\ {v} \cap forced = {}
      BY <1>2, <1>3, Seated
    <2>5. /\ hidden' \in SUBSET Views /\ forced' = forced /\ lit' \in SUBSET Views
          /\ linked' \in [Views -> Workspaces \cup {None}]
          /\ \A x \in Views : Listing(x)' /\ Shining(x)'
      BY <1>1, <1>2, <1>3, <2>1, <2>4, ExchangeOk
    <2>6. ViewsTyped'
      BY <1>1, <1>2, <1>3, <1>4, <1>5, <2>5 DEF ViewsTyped, outputVars
    <2>7. \A x \in Views \ {v} : Untouched(x)
      BY <1>1, <1>3, <1>4, <1>5, <2>1 DEF Untouched, Exchange
    <2>8. (Locked' <=> Locked) => Lighting(v)' /\ Owing(v)'
      BY <1>2, <1>4, <1>5, <2>5 DEF Lighting, Owing
    <2>9. v \notin forced'
      BY <1>2, <2>5
    <2>10. Handled /\ \A x \in mapped \ {v} : Undisturbed(x)
      BY <1>1, <1>3, <2>5, <2>6, <2>7, <2>8, <2>9, OneView
    <2>11. \A x \in mapped \ {} : Undisturbed(x)
      BY <1>1, <2>10
    <2> QED
      BY <2>2, <2>3, <2>4, <2>10, <2>11, HandledEnds
  <1> QED
    BY <1>6, <1>7

LEMMA UnmapKeeps ==
    ASSUME Races = {}, IInv, NEW v \in Views, Unmap(v)
    PROVE  IInv'
  <1>1. /\ v \in mapped /\ mapped' = mapped \ {v} /\ shown' = Touched({v})
        /\ UNCHANGED <<place, public, onLock, displayed, outputVars>>
    BY DEF Unmap
  <1>2. /\ ViewsTyped /\ Listing(v) /\ Ws(v) \in Homes \cup {None}
        /\ SeatOk(Seat, Before, mapped) /\ Seat.focus = focus
    BY Seated DEF IInv, Home
  <1>3. /\ shown' \in [Views -> {"shown", "hidden", "either"}]
        /\ \A x \in Views \ {v} : shown'[x] = shown[x]
    BY <1>1, <1>2, TouchedOk
  <1>4. CASE v \in forced
    <2>1. /\ focus[Ws(v)] # v /\ forced' = forced \ {v} /\ hidden' = hidden \cup {v}
          /\ linked' = [linked EXCEPT ![v] = None] /\ UNCHANGED <<lit, seatVars>>
      BY <1>4 DEF Unmap, QuitMayDangle
    <2>2. /\ linked' \in [Views -> Workspaces \cup {None}] /\ linked'[v] = None
          /\ \A x \in Views \ {v} : linked'[x] = linked[x]
      BY <1>2, <2>1 DEF ViewsTyped
    <2>3. ViewsTyped'
      BY <1>1, <1>2, <1>3, <2>1, <2>2 DEF ViewsTyped, outputVars
    <2>4. \A x \in Views \ {v} : Untouched(x)
      BY <1>1, <1>3, <2>1, <2>2 DEF Untouched
    <2>5. Listing(v)' /\ Lighting(v)' /\ Owing(v)'
      BY <1>1, <2>1, <2>2 DEF Listing, Lighting, Shining, Owing, Ws
    <2>6. place'[v].ws \in Homes \cup {None} /\ v \notin forced'
      BY <1>1, <1>2, <2>1 DEF Ws
    <2>7. Handled /\ \A x \in mapped \ {v} : Undisturbed(x)
      BY <1>1, <2>3, <2>4, <2>5, <2>6, OneView
    <2>8. Rid(Seat, {v})
      BY <1>2, <2>1, Names DEF Rid, SeatOk, Before, Ws
    <2> QED
      BY <2>1, <2>7, <2>8, HandledStays
  <1>5. CASE v \notin forced
    <2> DEFINE gone == {v} \ hidden
    <2>1. /\ Exchange(gone, {})
          /\ IF gone = {} THEN UNCHANGED seatVars
             ELSE \E u \in SeatsAfter(Seat, gone, {}) : SeatBecomes(u)
      BY <1>5 DEF Unmap
    <2>2. /\ hidden' = hidden \cup {v} /\ forced' = forced
          /\ lit' \in SUBSET Views /\ \A x \in Views \ {v} : x \in lit' <=> x \in lit
          /\ linked' = [x \in Views |-> IF x \in gone THEN None ELSE linked[x]]
      BY <1>2, <2>1 DEF Exchange, ViewsTyped
    <2>3. /\ linked' \in [Views -> Workspaces \cup {None}]
          /\ \A x \in Views \ {v} : linked'[x] = linked[x]
      BY <1>2, <2>2 DEF ViewsTyped
    <2>4. linked'[v] = None
      BY <1>1, <1>2, <1>5, <2>2 DEF Listing
    <2>5. ViewsTyped'
      BY <1>1, <1>2, <1>3, <2>2, <2>3 DEF ViewsTyped, outputVars
    <2>6. \A x \in Views \ {v} : Untouched(x)
      BY <1>1, <1>3, <2>2, <2>3 DEF Untouched
    <2>7. Listing(v)' /\ Owing(v)' /\ v \notin forced' /\ Shining(v)'
      BY <1>1, <1>5, <2>2, <2>4 DEF Listing, Shining, Owing, Ws
    <2>8. Lighting(v)'
      BY <1>1, <2>7 DEF Lighting
    <2>9. place'[v].ws \in Homes \cup {None}
      BY <1>1, <1>2 DEF Ws
    <2>10. Handled /\ \A x \in mapped \ {v} : Undisturbed(x)
      BY <1>1, <2>5, <2>6, <2>7, <2>8, <2>9, OneView
    <2>11. CASE v \in hidden
      <3>1. UNCHANGED seatVars
        BY <2>1, <2>11
      <3>2. linked[v] = None
        BY <1>1, <1>2, <1>5, <2>11 DEF Listing
      <3>3. Rid(Seat, {v})
        BY <1>2, <3>2, Names DEF Rid, SeatOk, Before
      <3> QED
        BY <2>10, <3>1, <3>3, HandledStays
    <2>12. CASE v \notin hidden
      <3>1. PICK u \in SeatsAfter(Seat, {v}, {}) : SeatBecomes(u)
        <4>1. gone = {v}
          BY <2>12
        <4> QED
          BY <2>1, <4>1
      <3>2. ~Misused({v}, {})
        BY <1>5, <2>12 DEF Misused
      <3> QED
        BY <2>10, <3>1, <3>2, HandledEnds
    <2> QED
      BY <2>11, <2>12
  <1> QED
    BY <1>4, <1>5

LEMMA DestroyKeeps ==
    ASSUME IInv, NEW v \in Views, Destroy(v)
    PROVE  IInv'
  <1>1. /\ v \notin mapped /\ place' = [place EXCEPT ![v] = Nowhere] /\ public' = public \ {v}
        /\ lit' = lit \cup {v} /\ onLock' = onLock \ {v}
        /\ UNCHANGED <<mapped, hidden, forced, linked, displayed, seatVars, outputVars, shown>>
    BY DEF Destroy
  <1>2. ViewsTyped /\ Listing(v)
    BY DEF IInv, ViewOk
  <1>3. /\ place' \in [Views -> Place \cup {Nowhere}] /\ place'[v] = Nowhere
        /\ \A x \in Views \ {v} : place'[x] = place[x]
    BY <1>1, <1>2 DEF ViewsTyped
  <1>4. ViewsTyped'
    BY <1>1, <1>2, <1>3 DEF ViewsTyped, outputVars
  <1>5. \A x \in Views \ {v} : Untouched(x)
    BY <1>1, <1>3 DEF Untouched
  <1>6. /\ Listing(v)' /\ Owing(v)' /\ v \notin forced' /\ Lighting(v)'
        /\ place'[v].ws \in Homes \cup {None}
    BY <1>1, <1>2, <1>3 DEF Listing, Lighting, Shining, Owing, Ws, Nowhere
  <1>7. Handled /\ \A x \in mapped \ {v} : Undisturbed(x)
    BY <1>1, <1>4, <1>5, <1>6, OneView
  <1>8. Rid(Seat, {}) /\ \A x \in mapped \ {} : Undisturbed(x)
    BY <1>1, <1>7 DEF Rid
  <1> QED
    BY <1>1, <1>7, <1>8, HandledStays

LEMMA CommitKeeps ==
    ASSUME Races = {}, IInv, NEW v \in Views, Commit(v)
    PROVE  IInv'
  <1> DEFINE able == {u \in {v} \cap (hidden \ forced) : Visible(place[u], displayed)}
  <1>0. PICK come \in SUBSET able :
           /\ Exchange({}, come)
           /\ \E s \in SeatsAfter(Seat, {}, come) : SeatBecomes(s)
           /\ shown' = IF come = {} THEN shown ELSE Touched(come)
    BY DEF Commit
  <1>1. /\ v \in mapped /\ UNCHANGED <<mapped, place, public, displayed, outputVars>>
        /\ Exchange({}, come) /\ shown' = IF come = {} THEN shown ELSE Touched(come)
        /\ onLock' = RefreshLayer(v, public)
    BY <1>0 DEF Commit
  <1>2. PICK u \in SeatsAfter(Seat, {}, come) : SeatBecomes(u)
    BY <1>0
  <1>3. come \subseteq {v} /\ come \subseteq hidden \ forced
    BY <1>0
  <1> HIDE DEF able
  <1>4. /\ ViewsTyped /\ \A x \in Views : Listing(x) /\ Shining(x)
        /\ Lighting(v) /\ Owing(v) /\ Ws(v) \in Homes \cup {None} /\ Homes \subseteq Workspaces
    BY Seated DEF IInv, ViewOk, Home
  <1>5. Ws(v) \in Workspaces /\ Ws(v) \in Homes
    BY <1>1, <1>4 DEF Listing
  <1>6. /\ onLock' \in SUBSET Views /\ \A x \in Views \ {v} : x \in onLock' <=> x \in onLock
        /\ v \in onLock' <=> Locked /\ v \in public
    BY <1>1, <1>4, RefreshLayerOk DEF ViewsTyped
  <1>7. /\ shown' \in [Views -> {"shown", "hidden", "either"}]
        /\ v \in come => shown'[v] = "either"
        /\ v \notin come => shown'[v] = shown[v]
        /\ \A x \in Views \ {v} : shown'[x] = shown[x]
    <2>1. CASE come = {}
      BY <1>1, <1>4, <2>1 DEF ViewsTyped
    <2>2. CASE come # {}
      <3>1. shown' = Touched(come)
        BY <1>1, <2>2
      <3> QED
        BY <1>3, <1>4, <3>1, TouchedOk
    <2> QED
      BY <2>1, <2>2
  <1>8. /\ come \in SUBSET Views /\ {} \in SUBSET Views /\ mapped' = mapped \cup come
        /\ {} \cap (hidden \cup forced) = {} /\ come \cap forced = {}
        /\ place' \in [Views -> Place \cup {Nowhere}]
        /\ \A x \in Views \ come : place'[x].ws = place[x].ws
        /\ \A x \in come : place'[x].ws \in Workspaces
        /\ \A x \in mapped \ {} : place'[x].ws = place[x].ws
    BY <1>1, <1>3, <1>4, <1>5 DEF ViewsTyped, Ws
  <1>9. /\ hidden' \in SUBSET Views /\ forced' = forced /\ lit' \in SUBSET Views
        /\ linked' \in [Views -> Workspaces \cup {None}]
        /\ \A x \in Views : Listing(x)' /\ Shining(x)'
        /\ \A x \in mapped \ {} : place'[x].ws = place[x].ws => Undisturbed(x)
    BY <1>1, <1>4, <1>8, ExchangeOk
  <1>10. ViewsTyped'
    BY <1>1, <1>4, <1>6, <1>7, <1>8, <1>9 DEF ViewsTyped, outputVars
  <1>11. \A x \in Views \ {v} : Untouched(x)
    BY <1>1, <1>3, <1>6, <1>7 DEF Untouched, Exchange
  <1>12. (Locked' <=> Locked) => Lighting(v)' /\ Owing(v)'
    <2>1. v \notin come => (v \in hidden' <=> v \in hidden)
      BY <1>1, <1>3 DEF Exchange
    <2>2. (Locked' <=> Locked) => Owing(v)'
      BY <1>1, <1>4, <1>7, <1>9, <2>1 DEF Owing
    <2>3. (Locked' <=> Locked) => Lighting(v)'
      BY <1>1, <1>4, <1>6, <1>9 DEF Lighting
    <2> QED
      BY <2>2, <2>3
  <1>13. place'[v].ws \in Homes \cup {None} /\ (mode # "lock" => v \notin forced')
    BY <1>1, <1>4, <1>5, <1>9 DEF Ws, Lighting, Locked
  <1>14. Handled
    BY <1>1, <1>9, <1>10, <1>11, <1>12, <1>13, OneView
  <1>15. ~Misused({}, come)
    BY <1>3 DEF Misused
  <1> QED
    BY <1>2, <1>8, <1>9, <1>14, <1>15, HandledEnds

-----------------------------------------------------------------------------
(* The screen locker                                                       *)

\* The seat hikari_lock_mode_enter() leaves the current workspace without focus.
LEMMA LockSeat ==
    ASSUME IInv, Lock
    PROVE  \E s : /\ SeatOk(s, Before, mapped) /\ s.focus[s.current] = None
                  /\ s.current = current /\ SeatBecomes(InMode(s, "lock"))
  <1> DEFINE s == IF current \in layered
                  THEN [Fail(Seat, focus[current] # None) EXCEPT !.layered = @ \ {current}]
                  ELSE IF focus[current] # None THEN Unfocus(Seat, Before) ELSE Seat
  <1>1. mode = "normal" /\ SeatBecomes(InMode(s, "lock"))
    BY DEF Lock, InMode
  <1>2. /\ SeatOk(Seat, Before, mapped) /\ Seat.mode = "normal" /\ Seat.current = current
        /\ Seat.focus = focus /\ Seat.layered = layered /\ Seat \in Seats /\ ~Seat.failed
        /\ Before.hidden \in SUBSET Views /\ current \in Workspaces
        /\ focus \in [Workspaces -> Views \cup {None}]
    BY <1>1, Seated, Unlocked DEF SeatOk, Seats
  <1>3. SeatOk(s, Before, mapped) /\ s.focus[s.current] = None /\ s.current = current
    <2>1. CASE current \in layered
      <3>1. focus[current] = None
        BY <1>2, <2>1 DEF SeatOk
      <3>2. Fail(Seat, focus[current] # None) = Seat
        BY <1>2, <3>1, NoFault
      <3>3. s = Unlayered(Seat, current)
        BY <2>1, <3>2 DEF Unlayered
      <3>4. SeatOk(Unlayered(Seat, current), Before, mapped)
        BY <1>2, UnlayeredOk
      <3>5. Unlayered(Seat, current).focus = focus /\ Unlayered(Seat, current).current = current
        BY <1>2, LayeredType
      <3> QED
        BY <3>1, <3>3, <3>4, <3>5
    <2>2. CASE current \notin layered /\ focus[current] # None
      <3>1. s = Unfocus(Seat, Before)
        BY <2>2
      <3>2. /\ Turned(Unfocus(Seat, Before), Before, mapped, Seat.current)
            /\ Unfocus(Seat, Before).focus = [Seat.focus EXCEPT ![Seat.current] = None]
        BY <1>2, UnfocusOk
      <3> QED
        BY <1>2, <3>1, <3>2 DEF Turned
    <2>3. CASE current \notin layered /\ focus[current] = None
      BY <1>2, <2>3
    <2> QED
      BY <2>1, <2>2, <2>3
  <1> QED
    BY <1>1, <1>3

LEMMA LockKeeps ==
    ASSUME IInv, Lock
    PROVE  IInv'
  <1>1. PICK s : /\ SeatOk(s, Before, mapped) /\ s.focus[s.current] = None
                 /\ s.current = current /\ SeatBecomes(InMode(s, "lock"))
    BY LockSeat
  <1>2. /\ mode = "normal"
        /\ forced' = forced \cup Reveal \cup Conceal
        /\ hidden' = (hidden \ Reveal) \cup Conceal
        /\ lit' = lit \cup (Listed \cap public)
        /\ onLock' = onLock \cup (Listed \cap public)
        /\ shown' = [v \in Views |-> IF v \notin mapped THEN "either"
                                     ELSE IF v \in hidden THEN "hidden" ELSE "shown"]
        /\ UNCHANGED <<mapped, place, public, linked, displayed, outputVars>>
    BY DEF Lock
  <1>3. ViewsTyped /\ Home /\ current \in Homes /\ forced = {}
    BY <1>2, Seated, Unlocked DEF IInv
  <1>4. /\ Reveal = Listed \cap public \cap hidden /\ Conceal = Listed \ (public \cup hidden)
        /\ Listed \subseteq mapped
    BY DEF Reveal, Conceal, Listed
  <1>5. ViewsTyped'
    BY <1>2, <1>3, <1>4 DEF ViewsTyped, outputVars
  <1>6. Homes' = Homes /\ Home'
    BY <1>2, <1>3 DEF Homes, Home, Ws, outputVars
  <1> DEFINE t == InMode(s, "lock")
  <1>7. SeatOk(t, Before, mapped) /\ t.mode = "lock" /\ t.current = current
    BY <1>1, InModeOk
  <1> HIDE DEF t
  <1>8. Locked' /\ ~Locked
    BY <1>1, <1>2, <1>7 DEF SeatBecomes, Locked, t
  <1>9. ASSUME NEW v \in Views
        PROVE  ViewOk(v)'
    <2>1. /\ Listing(v) /\ Shining(v) /\ v \notin forced /\ v \notin mapped \cap onLock
      BY <1>3, <1>8 DEF IInv, ViewOk, Lighting
    <2>2. /\ v \in forced' <=> v \in Reveal \cup Conceal
          /\ v \in hidden' <=> (v \in hidden /\ v \notin Reveal) \/ v \in Conceal
      BY <1>2, <1>3
    <2>3. Listing(v)'
      BY <1>2, <1>4, <2>1, <2>2 DEF Listing, Ws
    <2>4. Shining(v)'
      BY <1>2, <1>4, <2>1, <2>2 DEF Shining
    <2>5. Lighting(v)'
      BY <1>2, <1>8, <2>1, <2>4 DEF Lighting
    <2>6. v \in mapped => shown'[v] = IF v \in hidden THEN "hidden" ELSE "shown"
      BY <1>2
    <2>7. Owing(v)'
      BY <1>2, <1>4, <2>2, <2>6 DEF Owing
    <2> QED
      BY <2>3, <2>5, <2>7 DEF ViewOk
  <1>10. SeatOk(t, After, mapped')
    BY <1>2, <1>7 DEF SeatOk, After, Before
  <1> QED
    BY <1>1, <1>3, <1>5, <1>6, <1>7, <1>9, <1>10, Assembled DEF t

\* What the screen locker took away comes back.
LEMMA UnlockViews ==
    ASSUME Races = {}, IInv, Unlock
    PROVE  /\ forced \subseteq Listed /\ hidden' = (hidden \ forced) \cup (forced \ hidden)
           /\ forced' = {} /\ ViewsTyped' /\ Homes' = Homes /\ Home'
           /\ \A v \in Views : Listing(v)' /\ Shining(v)' /\ v \notin mapped' \cap onLock'
  <1>1. /\ mode = "lock" /\ forced \cup (mapped \cap onLock) \subseteq Listed
        /\ hidden' = (hidden \ (Listed \cap forced)) \cup ((Listed \cap forced) \ hidden)
        /\ forced' = forced \ (Listed \cap forced)
        /\ onLock' = onLock \ Listed
        /\ lit' = (lit \ Listed) \cup (Listed \ hidden')
        /\ shown' = Touched(Views)
        /\ UNCHANGED <<mapped, place, public, linked, displayed, outputVars>>
    BY DEF Unlock, UnlockMayMiss, Reparented
  <1>2. ViewsTyped /\ Home /\ \A v \in Views : Listing(v) /\ Shining(v)
    BY Seated DEF IInv
  <1>3. hidden' = (hidden \ forced) \cup (forced \ hidden) /\ forced' = {}
    BY <1>1
  <1>4. Listed \subseteq mapped
    BY DEF Listed
  <1>5. shown' \in [Views -> {"shown", "hidden", "either"}]
    BY <1>1, <1>2, TouchedOk
  <1>6. ViewsTyped'
    BY <1>1, <1>2, <1>3, <1>4, <1>5 DEF ViewsTyped, outputVars
  <1>7. Homes' = Homes /\ Home'
    BY <1>1, <1>2 DEF Homes, Home, Ws, outputVars
  <1>8. \A v \in Views : Listing(v)'
    BY <1>1, <1>2, <1>3 DEF Listing, Ws
  <1>9. \A v \in Views : Shining(v)'
    BY <1>1, <1>2, <1>3 DEF Shining
  <1>10. \A v \in Views : v \notin mapped' \cap onLock'
    BY <1>1
  <1> QED
    BY <1>1, <1>3, <1>6, <1>7, <1>8, <1>9, <1>10

LEMMA UnlockKeeps ==
    ASSUME Races = {}, IInv, Unlock
    PROVE  IInv'
  <1>1. PICK s \in EnterNormal(Seat, After) : SeatBecomes(s)
    BY DEF Unlock
  <1>2. /\ forced' = {} /\ ViewsTyped' /\ Homes' = Homes /\ Home'
        /\ \A v \in Views : Listing(v)' /\ Shining(v)' /\ v \notin mapped' \cap onLock'
    BY UnlockViews
  <1>3. UNCHANGED <<mapped, place, linked>>
    BY DEF Unlock
  <1>4. SceneOk(After, mapped')
    BY <1>2, SceneAfter
  <1>5. /\ SeatOk(Seat, Before, mapped) /\ Seat.current = current /\ current \in Homes
        /\ wanted \subseteq Homes /\ ViewsTyped
    BY Seated
  <1>6. SeatOk(Seat, After, mapped')
    <2>1. \A v \in mapped \ {} : Undisturbed(v)
      BY <1>3 DEF Undisturbed
    <2>2. Rid(Seat, {})
      BY DEF Rid
    <2> QED
      BY <1>5, <2>1, <2>2, SeatMoves
  <1>7. Settled(s, After, mapped', "normal", wanted \cup {Seat.current})
    BY <1>1, <1>4, <1>5, <1>6, EnterNormalOk
  <1>8. SeatOk(s, After, mapped') /\ s.mode = "normal" /\ s.current \in Homes'
    BY <1>2, <1>5, <1>7 DEF Settled
  <1>9. ~Locked'
    BY <1>1, <1>8 DEF SeatBecomes, Locked
  <1>10. \A v \in Views : ViewOk(v)'
    BY <1>2, <1>9 DEF ViewOk, Lighting, Owing
  <1> QED
    BY <1>1, <1>2, <1>8, <1>10, Assembled

-----------------------------------------------------------------------------
(* Monitors                                                                *)

\* hikari_view_evacuate() of the views of a workspace.
LEMMA EvacuateOk ==
    ASSUME IInv, NEW from \in Workspaces, NEW into \in Workspaces, Evacuate(from, into)
    PROVE  /\ mapped' = mapped /\ public' = public /\ forced' = forced
           /\ hidden' \in SUBSET Views /\ lit' \in SUBSET Views /\ onLock' \in SUBSET Views
           /\ linked' \in [Views -> Workspaces \cup {None}]
           /\ place' \in [Views -> Place \cup {Nowhere}]
           /\ shown' \in [Views -> {"shown", "hidden", "either"}]
           /\ \A v \in Views : Listing(v)'
           /\ (Locked' <=> Locked) => \A v \in Views : ViewOk(v)'
           /\ \A v \in Views : place'[v].ws = IF v \in OnWorkspace(from) THEN into ELSE Ws(v)
           /\ \A v \in mapped \ OnWorkspace(from) : Undisturbed(v)
  <1> DEFINE moving == OnWorkspace(from)
             to(v) == [ws |-> into, nr |-> place[v].nr]
             visible == moving \ (hidden \cup forced)
             gone == {v \in visible : ~Visible(to(v), displayed)}
             resets == {v \in moving \cap (hidden \ forced) : Visible(to(v), displayed)}
  <1>1. /\ place' = [v \in Views |-> IF v \in moving THEN to(v) ELSE place[v]]
        /\ shown' = Touched(moving)
        /\ UNCHANGED <<mapped, public, forced>>
    BY DEF Evacuate, Moving
  <1>2. PICK come \in SUBSET resets :
           /\ hidden' = (hidden \cup gone) \ come
           /\ lit' = (lit \ gone) \cup come
           /\ linked' = [v \in Views |->
                 IF v \in gone THEN None
                 ELSE IF v \in (visible \cup come \cup (moving \cap forced \cap hidden))
                 THEN into ELSE linked[v]]
           /\ onLock' = IF mode = "lock" THEN onLock \cup (come \cap public) ELSE onLock \ come
    BY DEF Evacuate, Moving
  <1>3. /\ ViewsTyped /\ into # None /\ moving \subseteq mapped /\ mapped \subseteq Views
        /\ \A v \in Views : Listing(v) /\ Lighting(v) /\ Shining(v) /\ Owing(v)
    BY Seated, Names DEF IInv, ViewOk, OnWorkspace, ViewsTyped
  <1>4. \A v \in Views : to(v) \in Place /\ to(v).ws = into
    BY <1>3, SheetAssumption DEF ViewsTyped, Place, Nowhere
  <1>5. /\ visible = moving \ (hidden \cup forced) /\ gone \subseteq visible
        /\ come \subseteq moving \cap (hidden \ forced)
    OBVIOUS
  <1> HIDE DEF visible, gone, resets, to
  <1>6. /\ place' \in [Views -> Place \cup {Nowhere}]
        /\ \A v \in Views : place'[v].ws = IF v \in moving THEN into ELSE Ws(v)
    BY <1>1, <1>3, <1>4 DEF ViewsTyped, Ws
  <1>7. /\ shown' \in [Views -> {"shown", "hidden", "either"}]
        /\ \A v \in Views : shown'[v] = IF v \in moving THEN "either" ELSE shown[v]
    BY <1>1, <1>3, TouchedOk
  <1>8. hidden' \in SUBSET Views /\ lit' \in SUBSET Views /\ onLock' \in SUBSET Views
    BY <1>2, <1>3, <1>5 DEF ViewsTyped
  <1>9. linked' \in [Views -> Workspaces \cup {None}]
    BY <1>2, <1>3 DEF ViewsTyped
  <1>11. \A v \in Views : v \notin moving => Untouched(v)
    BY <1>1, <1>2, <1>5, <1>7 DEF Untouched
  <1>12. ASSUME NEW v \in Views
         PROVE  Listing(v)' /\ ((Locked' <=> Locked) => ViewOk(v)')
    <2>1. CASE v \notin moving
      BY <1>11, <2>1, UntouchedOk DEF ViewOk
    <2>2. CASE v \in moving
      <3>1. /\ v \in mapped /\ v \in mapped' /\ Ws(v)' = into /\ shown'[v] = "either"
            /\ (v \in forced' <=> v \in forced) /\ (v \in public' <=> v \in public)
        BY <1>1, <1>3, <1>6, <1>7, <2>2 DEF Ws
      <3>2. /\ v \in hidden' <=> (v \in hidden \/ v \in gone) /\ v \notin come
            /\ v \in lit' <=> (v \in lit /\ v \notin gone) \/ v \in come
            /\ linked'[v] = IF v \in gone THEN None
                            ELSE IF v \in visible \/ v \in come \/ (v \in forced /\ v \in hidden)
                            THEN into ELSE linked[v]
        BY <1>2, <2>2
      <3>3. Listing(v) /\ Lighting(v) /\ Shining(v)
        BY <1>3
      <3>4. Listing(v)'
        BY <1>3, <1>5, <2>2, <3>1, <3>2, <3>3 DEF Listing
      <3>5. Shining(v)'
        BY <1>5, <2>2, <3>1, <3>2, <3>3 DEF Shining
      <3>6. ASSUME Locked' <=> Locked
            PROVE  Lighting(v)'
        <4>1. CASE Locked
          <5>1. v \in onLock' <=> v \in onLock \/ v \in come \cap public
            BY <1>2, <4>1 DEF Locked
          <5> QED
            BY <3>1, <3>3, <3>5, <3>6, <4>1, <5>1 DEF Lighting
        <4>2. CASE ~Locked
          <5>1. v \in onLock' => v \in onLock
            BY <1>2, <4>2 DEF Locked
          <5> QED
            BY <3>1, <3>3, <3>5, <3>6, <4>2, <5>1 DEF Lighting
        <4> QED
          BY <4>1, <4>2
      <3>7. Owing(v)'
        BY <3>1 DEF Owing
      <3> QED
        BY <3>4, <3>6, <3>7 DEF ViewOk
    <2> QED
      BY <2>1, <2>2
  <1>13. \A v \in mapped \ moving : Undisturbed(v)
    BY <1>3, <1>11, UntouchedOk
  <1> QED
    BY <1>1, <1>6, <1>7, <1>8, <1>9, <1>12, <1>13

\* The views after a monitor, or the fallback, has given its views to another.
Evacuated(from, into) ==
    /\ \A v \in Views : Ws(v) = from => v \in mapped
    /\ Evacuate(from, into)
    /\ \A w \in Homes \ {from} : w \in Homes'
    /\ into \in Homes' /\ wanted' \in SUBSET outputs' /\ outputs' \in SUBSET Outputs
    /\ wanted' = {} => outputs' = {}
    /\ displayed' \in [Workspaces -> Sheets]

LEMMA EvacuatedOk ==
    ASSUME IInv, NEW from \in Workspaces, NEW into \in Workspaces, Evacuated(from, into)
    PROVE  /\ ViewsTyped' /\ Home'
           /\ (Locked' <=> Locked) => \A v \in Views : ViewOk(v)'
           /\ mode # "lock" => SceneOk(After, mapped')
           /\ \A v \in mapped \ OnWorkspace(from) : Undisturbed(v)
  <1>1. ViewsTyped /\ Home /\ (mode # "lock" => forced = {})
    BY Seated DEF IInv
  <1>2. /\ mapped' = mapped /\ public' = public /\ forced' = forced
        /\ hidden' \in SUBSET Views /\ lit' \in SUBSET Views /\ onLock' \in SUBSET Views
        /\ linked' \in [Views -> Workspaces \cup {None}]
        /\ place' \in [Views -> Place \cup {Nowhere}]
        /\ shown' \in [Views -> {"shown", "hidden", "either"}]
        /\ \A v \in Views : Listing(v)'
        /\ (Locked' <=> Locked) => \A v \in Views : ViewOk(v)'
        /\ \A v \in Views : place'[v].ws = IF v \in OnWorkspace(from) THEN into ELSE Ws(v)
        /\ \A v \in mapped \ OnWorkspace(from) : Undisturbed(v)
    BY EvacuateOk DEF Evacuated
  <1>3. ViewsTyped'
    BY <1>1, <1>2 DEF ViewsTyped, Evacuated
  <1>4. \A v \in Views : place'[v].ws \in Homes' \cup {None}
    <2> SUFFICES ASSUME NEW v \in Views
                 PROVE  place'[v].ws \in Homes' \cup {None}
      OBVIOUS
    <2>1. CASE v \in OnWorkspace(from)
      BY <1>2, <2>1 DEF Evacuated
    <2>2. CASE v \notin OnWorkspace(from)
      <3>1. place'[v].ws = Ws(v) /\ Ws(v) # from
        BY <1>2, <2>2 DEF Evacuated, OnWorkspace
      <3>2. Ws(v) \in Homes \cup {None}
        BY <1>1 DEF Home
      <3> QED
        BY <3>1, <3>2 DEF Evacuated
    <2> QED
      BY <2>1, <2>2
  <1>5. Home'
    BY <1>4 DEF Home, Evacuated, Ws
  <1>6. mode # "lock" => SceneOk(After, mapped')
    BY <1>1, <1>2, <1>3, SceneAfter
  <1> QED
    BY <1>2, <1>3, <1>5, <1>6

\* What the focus leaves behind on the way to another monitor.
Handed(s, w) == [s EXCEPT !.current = w, !.focus[w] = None]

\* evacuate_output().
LEMMA HandOverKeeps ==
    ASSUME Races = {}, IInv, NEW from \in Workspaces, NEW into \in Workspaces,
           NEW l, l = Seat \/ l = Unlayered(Seat, from),
           HandOver(from, into, l), Evacuated(from, into)
    PROVE  IInv'
  <1> DEFINE views == OnWorkspace(from)
  <1>1. PICK s \in ClearFocus(l, views) :
           IF s.mode = "lock" THEN SeatBecomes(Handed(s, into))
           ELSE \E t \in IF s.mode = "modal" THEN EnterNormal(s, After) ELSE {s} :
                   SeatBecomes(FocusView(t, into, None, After))
    BY DEF HandOver, Handed
  <1>2. /\ ViewsTyped' /\ Home' /\ into \in Homes'
        /\ (Locked' <=> Locked) => \A v \in Views : ViewOk(v)'
        /\ mode # "lock" => SceneOk(After, mapped')
        /\ \A v \in mapped \ views : Undisturbed(v)
    BY EvacuatedOk DEF Evacuated
  <1>3. /\ SeatOk(Seat, Before, mapped) /\ Seat.mode = mode /\ ViewsTyped
        /\ mode # "lock" => SceneOk(Before, mapped)
        /\ views \in SUBSET Views
    BY Seated DEF OnWorkspace, ViewsTyped
  <1>4. SeatOk(l, Before, mapped) /\ l.mode = mode
    <2>1. SeatOk(l, Before, mapped)
      BY <1>3, UnlayeredOk
    <2>2. l.mode = Seat.mode
      <3>1. Seat \in Seats
        BY <1>3 DEF SeatOk
      <3>2. Unlayered(Seat, from).mode = Seat.mode
        BY <3>1, LayeredType
      <3> QED
        BY <3>2
    <2> QED
      BY <1>3, <2>1, <2>2
  <1> HIDE DEF views
  <1>5. SeatOk(s, Before, mapped) /\ Rid(s, views) /\ s.mode \in Modes(l.mode)
    BY <1>1, <1>3, <1>4, ClearFocusOk
  <1>6. SeatOk(s, After, mapped')
    BY <1>2, <1>3, <1>5, SeatMoves
  <1>7. \E u : /\ SeatOk(u, After, mapped') /\ u.current = into /\ SeatBecomes(u)
               /\ (u.mode = "lock" <=> mode = "lock")
    <2>1. CASE s.mode = "lock"
      <3> DEFINE u == Handed(s, into)
      <3>1. s \in Seats
        BY <1>6 DEF SeatOk
      <3>2. /\ u \in Seats /\ u.current = into /\ u.mode = s.mode /\ u.failed = s.failed
            /\ u.layered = s.layered /\ u.focus = [s.focus EXCEPT ![into] = None]
        BY <3>1 DEF Handed, Seats
      <3>3. s.focus \in [Workspaces -> Views \cup {None}] /\ s.layered \subseteq Workspaces
        BY <3>1 DEF Seats
      <3>4. SeatBecomes(u)
        BY <1>1, <2>1
      <3> HIDE DEF u
      <3>5. \A w \in Workspaces : u.focus[w] = IF w = into THEN None ELSE s.focus[w]
        BY <3>2, <3>3
      <3>6. SeatOk(u, After, mapped')
        BY <1>6, <3>2, <3>3, <3>5 DEF SeatOk
      <3>7. mode = "lock"
        BY <1>4, <1>5, <2>1 DEF Modes
      <3> QED
        BY <2>1, <3>2, <3>4, <3>6, <3>7
    <2>2. CASE s.mode # "lock"
      <3>1. PICK t \in IF s.mode = "modal" THEN EnterNormal(s, After) ELSE {s} :
               SeatBecomes(FocusView(t, into, None, After))
        BY <1>1, <2>2
      <3>2. mode # "lock" /\ SceneOk(After, mapped') /\ After.hidden \in SUBSET Views
        BY <1>2, <1>4, <1>5, <2>2 DEF Modes, SceneOk
      <3>3. SeatOk(t, After, mapped') /\ t.mode = "normal"
        <4>1. CASE s.mode = "modal"
          <5>1. t \in EnterNormal(s, After)
            BY <3>1, <4>1
          <5>2. Settled(t, After, mapped', "normal", wanted \cup {s.current})
            BY <1>3, <1>6, <3>2, <5>1, EnterNormalOk
          <5> QED
            BY <5>2 DEF Settled
        <4>2. CASE s.mode # "modal"
          BY <1>6, <2>2, <3>1, <4>2 DEF SeatOk, Seats
        <4> QED
          BY <4>1, <4>2
      <3> DEFINE u == FocusView(t, into, None, After)
      <3>4. Turned(u, After, mapped', into)
        BY <3>2, <3>3, FocusViewOk DEF Focusable
      <3>5. SeatBecomes(u)
        BY <3>1
      <3> HIDE DEF u
      <3> QED
        BY <3>2, <3>4, <3>5 DEF Turned
    <2> QED
      BY <2>1, <2>2
  <1>8. PICK u : /\ SeatOk(u, After, mapped') /\ u.current = into /\ SeatBecomes(u)
                 /\ (u.mode = "lock" <=> mode = "lock")
    BY <1>7
  <1>9. Locked' <=> Locked
    BY <1>8 DEF Locked, SeatBecomes
  <1> QED
    BY <1>2, <1>8, <1>9, Assembled

\* A monitor leaves the layout, and the list of outputs or not.
LEMMA LeavesKeeps ==
    ASSUME Races = {}, IInv, NEW o \in Outputs, NEW into \in Heirs(o),
           NEW l, l = Seat \/ l = Unlayered(Seat, o), HandOver(o, into, l),
           wanted' = wanted \ {o}, outputs' = outputs \/ outputs' = outputs \ {o},
           wanted' \subseteq outputs', wanted' = {} => outputs' = {},
           WithdrawnStay(o), displayed' \in [Workspaces -> Sheets]
    PROVE  IInv'
  <1>1. ViewsTyped /\ o \in Workspaces /\ o # Noop
    BY Seated, Names
  <1>2. Homes' = Heirs(o) /\ \A w \in Homes \ {o} : w \in Homes'
    BY <1>1 DEF Homes, Heirs
  <1>3. into \in Workspaces
    BY <1>1, Names DEF Heirs, ViewsTyped
  <1>4. \A v \in Views : Ws(v) = o => v \in mapped
    BY DEF WithdrawnStay
  <1>5. Evacuated(o, into)
    BY <1>1, <1>2, <1>4 DEF Evacuated, HandOver, ViewsTyped
  <1> QED
    BY <1>1, <1>3, <1>5, HandOverKeeps

LEMMA UnplugKeeps ==
    ASSUME Races = {}, IInv, NEW o \in Outputs, Unplug(o)
    PROVE  IInv'
  <1>1. /\ o \in outputs /\ WithdrawnStay(o) /\ (wanted # {o} \/ outputs = {o})
        /\ displayed' = [displayed EXCEPT ![o] = 1]
        /\ outputs' = outputs \ {o} /\ wanted' = wanted \ {o}
    BY DEF Unplug, StrandsViews
  <1>2. PICK into \in Heirs(o) : HandOver(o, into, Unlayered(Seat, o))
    BY DEF Unplug, Unlayered
  <1>3. ViewsTyped /\ (wanted = {} => outputs = {})
    BY DEF IInv, Home
  <1>4. displayed' \in [Workspaces -> Sheets]
    BY <1>1, <1>3, SheetAssumption DEF ViewsTyped
  <1>5. wanted' \subseteq outputs' /\ (wanted' = {} => outputs' = {})
    BY <1>1, <1>3 DEF ViewsTyped
  <1> QED
    BY <1>1, <1>2, <1>4, <1>5, LeavesKeeps

LEMMA SwitchOffKeeps ==
    ASSUME Races = {}, IInv, NEW o \in Outputs, SwitchOff(o)
    PROVE  IInv'
  <1>1. /\ o \in wanted /\ wanted # {o} /\ WithdrawnStay(o)
        /\ UNCHANGED <<outputs, displayed>> /\ wanted' = wanted \ {o}
    BY DEF SwitchOff
  <1>2. PICK into \in Heirs(o) : HandOver(o, into, Seat)
    BY DEF SwitchOff
  <1>3. ViewsTyped
    BY DEF IInv
  <1>4. /\ displayed' \in [Workspaces -> Sheets]
        /\ wanted' \subseteq outputs' /\ wanted' # {}
    BY <1>1, <1>3 DEF ViewsTyped
  <1> QED
    BY <1>1, <1>2, <1>4, LeavesKeeps

\* A monitor comes that is not the first.
LEMMA ComesKeeps ==
    ASSUME IInv, NEW o \in Outputs, outputs # {}, wanted' = wanted \cup {o},
           outputs' = outputs \cup {o}, UNCHANGED <<viewVars, displayed, seatVars, shown>>
    PROVE  IInv'
  <1>1. ViewsTyped /\ Home /\ wanted # {} /\ current \in Homes
    BY Seated DEF IInv, Home
  <1>2. Homes' = Homes \cup {o} /\ wanted' # {}
    BY <1>1 DEF Homes
  <1>3. ViewsTyped'
    BY <1>1 DEF ViewsTyped, viewVars, flagVars
  <1>4. Home'
    BY <1>1, <1>2 DEF Home, Ws, viewVars
  <1>5. \A v \in Views : ViewOk(v)'
    BY DEF IInv, ViewOk, Listing, Lighting, Shining, Owing, Locked, Ws, viewVars, flagVars, seatVars
  <1>6. SeatOk(Seat, Before, mapped)'
    BY DEF IInv, SeatOk, Seat, Before, viewVars, flagVars, seatVars
  <1>7. current' \in Homes'
    BY <1>1, <1>2 DEF seatVars
  <1> QED
    BY <1>3, <1>4, <1>5, <1>6, <1>7 DEF IInv

LEMMA SwitchOnKeeps ==
    ASSUME IInv, NEW o \in Outputs, SwitchOn(o)
    PROVE  IInv'
  <1>1. /\ o \in outputs /\ wanted' = wanted \cup {o}
        /\ UNCHANGED <<viewVars, displayed, seatVars, outputs, shown>>
    BY DEF SwitchOn
  <1> QED
    BY <1>1, ComesKeeps

LEMMA PlugKeeps ==
    ASSUME Races = {}, IInv, NEW o \in Outputs, Plug(o)
    PROVE  IInv'
  <1>1. /\ outputs' = outputs \cup {o} /\ wanted' = wanted \cup {o} /\ UNCHANGED displayed
    BY DEF Plug
  <1>2. CASE outputs # {}
    BY <1>1, <1>2, ComesKeeps DEF Plug
  <1>3. CASE outputs = {}
    <2>1. mode = "normal" /\ WithdrawnStay(Noop) /\ Evacuate(Noop, o)
      BY <1>3 DEF Plug
    <2>2. PICK s \in ClearFocus(Seat, OnWorkspace(Noop)) :
             SeatBecomes(FocusView(s, o, None, After))
      BY <1>3 DEF Plug
    <2>3. ViewsTyped /\ wanted = {} /\ Noop \in Workspaces /\ o \in Workspaces
      BY <1>3, Seated, Names DEF ViewsTyped
    <2>4. Homes = {Noop} /\ Homes' = {o}
      BY <1>1, <2>3 DEF Homes
    <2>5. \A v \in Views : Ws(v) = Noop => v \in mapped
      BY <2>1 DEF WithdrawnStay
    <2>6. Evacuated(Noop, o)
      BY <1>1, <1>3, <2>1, <2>3, <2>4, <2>5 DEF Evacuated, ViewsTyped
    <2> DEFINE views == OnWorkspace(Noop)
    <2>7. /\ ViewsTyped' /\ Home'
          /\ (Locked' <=> Locked) => \A v \in Views : ViewOk(v)'
          /\ SceneOk(After, mapped')
          /\ \A v \in mapped \ views : Undisturbed(v)
      BY <2>1, <2>3, <2>6, EvacuatedOk
    <2>8. /\ SeatOk(Seat, Before, mapped) /\ Seat.mode = "normal" /\ SceneOk(Before, mapped)
          /\ views \in SUBSET Views
      BY <2>1, Seated DEF OnWorkspace, ViewsTyped
    <2>9. s \in ClearFocus(Seat, views)
      BY <2>2
    <2> HIDE DEF views
    <2>10. SeatOk(s, Before, mapped) /\ Rid(s, views) /\ s.mode = "normal"
      BY <2>3, <2>8, <2>9, ClearFocusOk DEF Modes
    <2>11. SeatOk(s, After, mapped')
      BY <2>7, <2>8, <2>10, SeatMoves
    <2> DEFINE u == FocusView(s, o, None, After)
    <2>12. Turned(u, After, mapped', o)
      <3>1. After.hidden \in SUBSET Views
        BY <2>7 DEF SceneOk
      <3> QED
        BY <2>3, <2>10, <2>11, <3>1, FocusViewOk DEF Focusable
    <2>13. SeatBecomes(u)
      BY <2>2
    <2> HIDE DEF u
    <2>14. Locked' <=> Locked
      BY <2>1, <2>12, <2>13 DEF Locked, SeatBecomes, Turned
    <2> QED
      BY <2>4, <2>7, <2>12, <2>13, <2>14, Assembled DEF Turned
  <1> QED
    BY <1>2, <1>3

-----------------------------------------------------------------------------
(* The invariant, and what it says                                         *)

LEMMA InitOk == Init => IInv
  <1> SUFFICES ASSUME Init
               PROVE  IInv
    OBVIOUS
  <1> USE DEF Init
  <1>1. /\ mapped = {} /\ hidden = Views /\ forced = {} /\ mode = "normal"
        /\ wanted = {} /\ outputs = {} /\ current = Noop
        /\ \A v \in Views : linked[v] = None /\ Ws(v) = None
    BY DEF Nowhere, Ws
  <1>2. ViewsTyped
    BY SheetAssumption DEF ViewsTyped
  <1>3. \A v \in Views : ViewOk(v)
    BY <1>1 DEF ViewOk, Listing, Lighting, Shining, Owing, Locked
  <1>4. Home /\ current \in Homes
    BY <1>1 DEF Home, Homes
  <1>5. SeatOk(Seat, Before, mapped)
    <2>1. Seat \in Seats
      BY Names DEF Seat, Seats
    <2> QED
      BY <2>1 DEF SeatOk, Seat
  <1> QED
    BY <1>2, <1>3, <1>4, <1>5 DEF IInv

\* A step without effect.
LEMMA StutterKeeps ==
    ASSUME IInv, UNCHANGED vars
    PROVE  IInv'
  <1> USE DEF vars, viewVars, flagVars, seatVars, outputVars
  <1>1. ViewsTyped' /\ Homes' = Homes /\ Home' /\ current' = current
    BY DEF IInv, ViewsTyped, Homes, Home, Ws
  <1>2. \A v \in Views : ViewOk(v)'
    BY DEF IInv, ViewOk, Listing, Lighting, Shining, Owing, Locked, Ws
  <1>3. SeatOk(Seat, Before, mapped)'
    BY DEF IInv, SeatOk, Seat, Before
  <1> QED
    BY <1>1, <1>2, <1>3 DEF IInv

LEMMA ClientKeeps ==
    ASSUME Races = {}, IInv, Client
    PROVE  IInv'
  <1>1. CASE \E v \in Views : Map(v) \/ Unmap(v) \/ Destroy(v) \/ Commit(v) \/ Activate(v) \/ Minimize(v)
    <2>1. PICK v \in Views : Map(v) \/ Unmap(v) \/ Destroy(v) \/ Commit(v) \/ Activate(v) \/ Minimize(v)
      BY <1>1
    <2> QED
      BY <2>1, MapKeeps, UnmapKeeps, DestroyKeeps, CommitKeeps, ActivateKeeps, MinimizeKeeps
  <1>2. CASE \E w \in Workspaces : LayerUnmap(w)
    BY <1>2, LayerUnmapKeeps
  <1> QED
    BY <1>1, <1>2 DEF Client

LEMMA UserKeeps ==
    ASSUME Races = {}, IInv, User
    PROVE  IInv'
  <1>1. CASE PointerMoves
    BY <1>1, PointerMovesKeeps
  <1>2. CASE \E v \in Views : FocusByUser(v) \/ Bring(v)
    BY <1>2, FocusByUserKeeps, BringKeeps
  <1>3. CASE \E w \in Workspaces : CycleWorkspace(w) \/ Migrate(w) \/ Relayout(w)
    BY <1>3, CycleWorkspaceKeeps, MigrateKeeps, RelayoutKeeps
  <1>4. CASE EnterModal \/ LeaveModal \/ TogglePublic
    BY <1>4, EnterModalKeeps, LeaveModalKeeps, TogglePublicKeeps
  <1>5. CASE \E nr \in Sheets : DisplaySheet(nr) \/ Pin(nr)
    BY <1>5, DisplaySheetKeeps, PinKeeps
  <1>6. CASE HideViews \/ ClearAndShow \/ OnlyGroup
    BY <1>6, HideViewsKeeps, ClearAndShowKeeps, OnlyGroupKeeps
  <1> QED
    BY <1>1, <1>2, <1>3, <1>4, <1>5, <1>6 DEF User

LEMMA MonitorKeeps ==
    ASSUME Races = {}, IInv, Monitor
    PROVE  IInv'
  BY PlugKeeps, UnplugKeeps, SwitchOffKeeps, SwitchOnKeeps DEF Monitor

\* The invariant holds of every state.
THEOREM DesktopStaysSound ==
    ASSUME Races = {}
    PROVE  Spec => []IInv
  <1>1. IInv /\ [Next]_vars => IInv'
    <2> SUFFICES ASSUME IInv, [Next]_vars
                 PROVE  IInv'
      OBVIOUS
    <2>1. CASE Client
      BY <2>1, ClientKeeps
    <2>2. CASE User
      BY <2>2, UserKeeps
    <2>3. CASE Lock
      BY <2>3, LockKeeps
    <2>4. CASE Unlock
      BY <2>4, UnlockKeeps
    <2>5. CASE Monitor
      BY <2>5, MonitorKeeps
    <2>6. CASE UNCHANGED vars
      BY <2>6, StutterKeeps
    <2> QED
      BY <2>1, <2>2, <2>3, <2>4, <2>5, <2>6 DEF Next
  <1> QED
    BY <1>1, InitOk, PTL DEF Spec

\* A view is in the lists of visible views, and in those of the workspace it is
\* on, exactly while its flags say so: hikari_view_show() and hide(), the moves
\* between sheets and monitors and the screen locker never part them.
THEOREM LinkageStays ==
    ASSUME Races = {}
    PROVE  Spec => []Linkage
  <1>1. IInv => Linkage
    <2> SUFFICES ASSUME IInv
                 PROVE  Linkage
      OBVIOUS
    <2>1. /\ ViewsTyped /\ Home /\ current \in Homes
          /\ \A v \in Views : Listing(v)
      BY DEF IInv, ViewOk
    <2>2. Homes \subseteq outputs \cup {Noop}
      BY <2>1 DEF Homes, ViewsTyped
    <2>3. wanted # {} => OnWorkspace(Noop) = {}
      <3>1. wanted # {} => Noop \notin Homes
        BY <2>1, Names DEF Homes, ViewsTyped
      <3> QED
        BY <2>1, <3>1, Names DEF OnWorkspace, Home, ViewsTyped
    <2>4. \A v \in Views : Ws(v) \in outputs \cup {Noop, None}
      BY <2>1, <2>2 DEF Home
    <2>5. current \in IF wanted = {} THEN {Noop} ELSE wanted
      BY <2>1 DEF Homes
    <2> QED
      BY <2>1, <2>3, <2>4, <2>5 DEF Linkage, Listing
  <1> QED
    BY <1>1, DesktopStaysSound, PTL

\* Outside the lock nothing of it is left: reset_visibility() undoes what
\* override_visibility() did, whatever clients and monitors did in between.
THEOREM DesktopStaysRestored ==
    ASSUME Races = {}
    PROVE  Spec => []DesktopRestored
  <1>1. IInv => DesktopRestored
    <2> SUFFICES ASSUME IInv, mode # "lock"
                 PROVE  /\ forced = {} /\ mapped \cap onLock = {}
                        /\ mapped \cap lit = mapped \ hidden
      BY DEF DesktopRestored
    <2>1. \A v \in Views : Lighting(v) /\ Shining(v)
      BY DEF IInv, ViewOk, Lighting
    <2>2. forced = {} /\ mapped \subseteq Views
      BY Unlocked DEF IInv, ViewsTyped
    <2> QED
      BY <2>1, <2>2 DEF Lighting, Shining, Locked
  <1> QED
    BY <1>1, DesktopStaysSound, PTL

\* While the screen is locked no private view is in the layer that is seen.
THEOREM LockScreenStaysPublic ==
    ASSUME Races = {}
    PROVE  Spec => []LockScreenIsPublic
  <1>1. IInv => LockScreenIsPublic
    BY DEF IInv, ViewOk, ViewsTyped, Lighting, Locked, LockScreenIsPublic
  <1> QED
    BY <1>1, DesktopStaysSound, PTL

\* A workspace never remembers a view that is gone, elsewhere or hidden by
\* anything but the lock, nor a view beside a panel.
THEOREM FocusStaysLive ==
    ASSUME Races = {}
    PROVE  Spec => []FocusIsLive
  <1>1. IInv => FocusIsLive
    <2> SUFFICES ASSUME IInv
                 PROVE  FocusIsLive
      OBVIOUS
    <2>1. /\ \A w \in Workspaces : focus[w] # None =>
                /\ focus[w] \in mapped /\ place[focus[w]].ws = w /\ linked[focus[w]] = w
          /\ mode = "lock" => focus[current] = None
          /\ \A w \in layered : focus[w] = None
      BY DEF IInv, SeatOk, Seat, Before
    <2>2. /\ \A v \in mapped : linked[v] # None <=> (v \in forced <=> v \in hidden)
      BY DEF IInv, ViewOk, ViewsTyped, Listing
    <2> QED
      BY <2>1, <2>2, Names DEF FocusIsLive, Ws
  <1> QED
    BY <1>1, DesktopStaysSound, PTL

\* None of the assertions of hikari_view_show() and hide(), of focusing a view and
\* of entering the lock ever fails.
THEOREM NoAssertionOfViewsFails ==
    ASSUME Races = {}
    PROVE  Spec => []AssertionsHold
  <1>1. IInv => AssertionsHold
    <2> SUFFICES ASSUME IInv
                 PROVE  AssertionsHold
      OBVIOUS
    <2>1. ViewsTyped /\ Seat \in Seats /\ ~Seat.failed
      BY DEF IInv, SeatOk
    <2>2. /\ focus \in [Workspaces -> Views \cup {None}] /\ layered \subseteq Workspaces
          /\ current \in Workspaces /\ mode \in {"normal", "modal", "lock"}
          /\ failed \in BOOLEAN /\ ~failed
      BY <2>1 DEF Seat, Seats
    <2>3. TypeOK
      BY <2>1, <2>2 DEF TypeOK, ViewsTyped
    <2> QED
      BY <2>2, <2>3 DEF AssertionsHold
  <1> QED
    BY <1>1, DesktopStaysSound, PTL

\* An unlock gives every view that was left alone while the screen was locked the
\* visibility it had when the lock came.
THEOREM UnlockStaysFaithful ==
    ASSUME Races = {}
    PROVE  Spec => UnlockRestores
  <1>1. ASSUME IInv, Unlock
        PROVE  \A v \in mapped : /\ shown[v] = "shown" => v \notin hidden'
                                 /\ shown[v] = "hidden" => v \in hidden'
    <2>1. hidden' = (hidden \ forced) \cup (forced \ hidden)
      BY <1>1, UnlockViews
    <2>2. \A v \in mapped : /\ shown[v] = "shown" => (v \in hidden <=> v \in forced)
                            /\ shown[v] = "hidden" => (v \in hidden <=> v \notin forced)
      BY <1>1 DEF IInv, ViewOk, ViewsTyped, Owing, Locked, Unlock
    <2> QED
      BY <2>1, <2>2
  <1>2. IInv /\ [Next]_vars =>
          [Unlock => \A v \in mapped : /\ shown[v] = "shown" => v \notin hidden'
                                       /\ shown[v] = "hidden" => v \in hidden']_vars
    BY <1>1
  <1> QED
    BY <1>2, DesktopStaysSound, PTL DEF Spec, UnlockRestores
=============================================================================
