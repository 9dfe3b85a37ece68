---------------------------- MODULE ControlProofs ----------------------------
(***************************************************************************)
(* Theorems about Control, for any views, outputs, groups, marks and        *)
(* connections, without the orders of events that `Races' names: the modes  *)
(* are sound, and views, groups and marks agree.                           *)
(*                                                                         *)
(* The handlers are operators on the state, and so are the lemmas.  `Sound' *)
(* is the invariant of one state, in four parts: its type, the names        *)
(* (`NamesOk'), the focus (`FocusOk') and what the modes keep (`ModeOk').    *)
(* Whatever moves the focus leaves the names alone (`SameNames') and either *)
(* keeps the mode or ends it (`Went').                                      *)
(***************************************************************************)
EXTENDS Control, TLAPS

Sheets == [ws : Outputs, here : BOOLEAN]

\* The states of the handlers, with Races empty.
States ==
    [mapped : SUBSET Views, shown : SUBSET Views, on : [Views -> Outputs],
     focus : [Outputs -> Views \cup {None}], cur : Outputs, mode : Modes,
     group : [Views -> Names \cup {None}], groups : SUBSET Names,
     mark : [Views -> Marks \cup {None}], marked : [Marks -> Views \cup {None}],
     sheet : Sheets \cup {None}, target : Names \cup {None, Freed}, typed : Names \cup {None},
     items : SUBSET (Names \cup {None}), pendingMark : Marks \cup {None},
     pending : {None, "live"}, fault : BOOLEAN]

\* NamesAgree of a state, and a mapped view has a group.
NamesOk(g) ==
    /\ \A v \in Views, m \in Marks : g.mark[v] = m <=> g.marked[m] = v
    /\ \A v \in Views : v \notin g.mapped => g.mark[v] = None
    /\ g.groups = {g.group[v] : v \in g.mapped}
    /\ \A v \in g.mapped : g.group[v] \in Names

\* A view that has the focus of a workspace is visible there; views are where monitors are.
FocusOk(g, W) ==
    /\ g.cur \in W /\ g.shown \subseteq g.mapped
    /\ \A v \in g.mapped : g.on[v] \in W
    /\ \A w \in Outputs : g.focus[w] # None => g.focus[w] \in g.shown /\ g.on[g.focus[w]] = w

\* NothingLeftBehind of a state, and a mode that works on a view has one.
ModeOk(g, W) ==
    /\ g.mode \in Interactive => Subject(g) # None
    /\ g.sheet # None <=> g.mode = "sheet"
    /\ g.sheet # None => g.sheet.ws \in W
    /\ g.mode # "group" => g.target = None /\ g.typed = None /\ g.items = {}
    /\ g.mode # "mark" => g.pendingMark = None

Sound(g, W) == g \in States /\ NamesOk(g) /\ FocusOk(g, W) /\ ModeOk(g, W) /\ ~g.fault

IInv ==
    /\ wanted \subseteq Outputs
    /\ request \in [Clients -> {"none", "part", None}]
    /\ Sound(h, wanted)

SameNames(g, x) ==
    /\ x.mapped = g.mapped /\ x.group = g.group /\ x.groups = g.groups
    /\ x.mark = g.mark /\ x.marked = g.marked

SameKept(g, x) ==
    /\ x.sheet = g.sheet /\ x.target = g.target /\ x.typed = g.typed /\ x.items = g.items
    /\ x.pendingMark = g.pendingMark

SameMode(g, x) == x.mode = g.mode /\ x.pending = g.pending /\ x.fault = g.fault

\* The focus moved, nothing else did.
Steered(g, x) ==
    /\ x \in States /\ SameNames(g, x) /\ SameKept(g, x) /\ SameMode(g, x)
    /\ x.shown = g.shown /\ x.on = g.on

\* hikari_workspace_focus_view() without its assertions.
PutFocus(g, w, v) == [g EXCEPT !.cur = w, !.focus[w] = v]

\* A state with another focus.
LEMMA PutFocusType ==
    ASSUME NEW g \in States, NEW w \in Outputs, NEW v \in Views \cup {None}
    PROVE  /\ Steered(g, PutFocus(g, w, v)) /\ PutFocus(g, w, v).cur = w
           /\ PutFocus(g, w, v).focus = [g.focus EXCEPT ![w] = v]
  BY DEF States, Steered, SameNames, SameKept, SameMode, PutFocus

-----------------------------------------------------------------------------
(* Focus                                                                   *)

\* A check that holds is no fault.
LEMMA NoFault ==
    ASSUME NEW g \in States, ~g.fault, NEW wrong \in BOOLEAN, ~wrong
    PROVE  Fail(g, wrong) = g
  BY DEF Fail, States

\* Nothing moved.
LEMMA SteeredSelf ==
    ASSUME NEW g \in States
    PROVE  Steered(g, g)
  BY DEF Steered, SameNames, SameKept, SameMode

\* Moving the focus keeps a state sound if it goes to what is visible.
LEMMA SteeredSound ==
    ASSUME NEW W \in SUBSET Outputs, NEW g, Sound(g, W), NEW x, Steered(g, x), x.cur \in W,
           \A w \in Outputs : x.focus[w] # None => x.focus[w] \in g.shown /\ g.on[x.focus[w]] = w,
           g.mode \in Interactive => x.focus[x.cur] # None
    PROVE  Sound(x, W)
  <1>1. x \in States /\ ~x.fault
    BY DEF Sound, Steered, SameMode
  <1>2. NamesOk(x)
    BY DEF Sound, NamesOk, Steered, SameNames
  <1>3. FocusOk(x, W)
    BY DEF Sound, FocusOk, Steered, SameNames
  <1>4. ModeOk(x, W)
    BY DEF Sound, ModeOk, Steered, SameMode, SameKept, Subject
  <1> QED
    BY <1>1, <1>2, <1>3, <1>4 DEF Sound

\* hikari_workspace_focus_view() in the normal mode, with a visible view or none.
LEMMA FocusViewSound ==
    ASSUME NEW W \in SUBSET Outputs, NEW g, Sound(g, W), g.mode = "normal", NEW w \in W,
           NEW v \in Views \cup {None}, v # None => v \in g.shown /\ g.on[v] = w
    PROVE  /\ Sound(FocusView(g, w, v), W) /\ Steered(g, FocusView(g, w, v))
           /\ FocusView(g, w, v).cur = w
  <1> DEFINE d == PutFocus(g, w, v)
  <1>1. /\ g \in States /\ g.focus \in [Outputs -> Views \cup {None}] /\ ~g.fault
        /\ w \in Outputs /\ W \subseteq Outputs
    BY DEF Sound, States
  <1>2. FocusView(g, w, v) = d
    <2>1. Fail(g, g.mode # "normal" \/ (v # None /\ v \notin g.shown)) = g
      BY <1>1, NoFault
    <2> QED
      BY <2>1 DEF FocusView, PutFocus
  <1>3. Steered(g, d) /\ d.cur = w /\ d.focus = [g.focus EXCEPT ![w] = v]
    BY <1>1, PutFocusType
  <1> HIDE DEF d
  <1>4. \A u \in Outputs : d.focus[u] # None => d.focus[u] \in g.shown /\ g.on[d.focus[u]] = u
    BY <1>1, <1>3 DEF Sound, FocusOk
  <1>5. Sound(d, W)
    BY <1>3, <1>4, SteeredSound DEF Interactive
  <1> QED
    BY <1>2, <1>3, <1>5

\* hikari_workspace_first_view() finds a visible view of the workspace.
LEMMA FirstViewIsHere ==
    ASSUME NEW W \in SUBSET Outputs, NEW g, Sound(g, W), NEW w \in W, NEW v \in FirstView(g, w)
    PROVE  v \in Views \cup {None} /\ (v # None => v \in g.shown /\ g.on[v] = w)
  BY DEF FirstView, Sound, FocusOk, States

\* The view that has the focus is visible on the workspace.
LEMMA SubjectIsHere ==
    ASSUME NEW W \in SUBSET Outputs, NEW g, Sound(g, W)
    PROVE  /\ Subject(g) \in Views \cup {None} /\ g.cur \in W
           /\ Subject(g) # None =>
                 Subject(g) \in g.shown /\ Subject(g) \in g.mapped /\ g.on[Subject(g)] = g.cur
  BY DEF Sound, FocusOk, States, Subject

\* Only `cur' changes.
LEMMA CurPut ==
    ASSUME NEW g \in States, NEW w \in Outputs
    PROVE  LET d == [g EXCEPT !.cur = w] IN Steered(g, d) /\ d.cur = w /\ d.focus = g.focus
  BY DEF States, Steered, SameNames, SameKept, SameMode

\* `Steered' is transitive.
LEMMA SteeredTrans ==
    ASSUME NEW g, NEW x, NEW y, Steered(g, x), Steered(x, y)
    PROVE  Steered(g, y)
  BY DEF Steered, SameNames, SameKept, SameMode

\* A panel that takes the keyboard in the normal mode.
LEMMA FocusPanelSound ==
    ASSUME NEW W \in SUBSET Outputs, NEW g, Sound(g, W), g.mode = "normal", NEW w \in W
    PROVE  Sound(FocusPanel(g, w), W) /\ Steered(g, FocusPanel(g, w)) /\ FocusPanel(g, w).cur = w
  <1> DEFINE x == IF Subject(g) = None THEN g ELSE FocusView(g, g.cur, None)
             d == [x EXCEPT !.cur = w]
  <1>1. g.cur \in W /\ g \in States
    BY SubjectIsHere DEF Sound
  <1>2. Sound(x, W) /\ Steered(g, x)
    <2>1. CASE Subject(g) = None
      BY <1>1, <2>1, SteeredSelf
    <2>2. CASE Subject(g) # None
      BY <1>1, <2>2, FocusViewSound
    <2> QED
      BY <2>1, <2>2
  <1>3. FocusPanel(g, w) = d
    BY DEF FocusPanel
  <1> HIDE DEF x
  <1>4. x \in States /\ x.mode = "normal"
    BY <1>2 DEF Sound, Steered, SameMode
  <1>5. Steered(x, d) /\ d.cur = w /\ d.focus = x.focus
    BY <1>4, CurPut
  <1> HIDE DEF d
  <1>6. Sound(d, W)
    <2>1. \A u \in Outputs : d.focus[u] # None => d.focus[u] \in x.shown /\ x.on[d.focus[u]] = u
      BY <1>2, <1>5 DEF Sound, FocusOk
    <2> QED
      BY <1>2, <1>4, <1>5, <2>1, SteeredSound DEF Interactive
  <1> QED
    BY <1>2, <1>3, <1>5, <1>6, SteeredTrans

\* hikari_server_cursor_focus() leaves a modal mode alone, and moves the focus to what is visible.
LEMMA CursorFocusSound ==
    ASSUME NEW W \in SUBSET Outputs, NEW g, Sound(g, W), NEW ws \in SUBSET W,
           NEW x \in CursorFocus(g, ws)
    PROVE  Sound(x, W) /\ Steered(g, x) /\ (g.mode # "normal" => x = g)
  <1>1. g \in States /\ \A v \in g.shown : v \in Views /\ v # None
    BY NoneAssumption DEF Sound, States
  <1>2. CASE x = g
    BY <1>1, <1>2, SteeredSelf
  <1>3. ASSUME g.mode = "normal", NEW v \in g.shown, g.on[v] \in ws, x = FocusView(g, g.on[v], v)
        PROVE  Sound(x, W) /\ Steered(g, x)
    <2>1. v \in Views \cup {None} /\ g.on[v] \in W
      BY <1>1, <1>3
    <2> QED
      BY <1>3, <2>1, FocusViewSound
  <1>4. ASSUME g.mode = "normal", NEW w \in ws, NEW v \in FirstView(g, w), x = FocusView(g, w, v)
        PROVE  Sound(x, W) /\ Steered(g, x)
    <2>1. w \in W /\ v \in Views \cup {None} /\ (v # None => v \in g.shown /\ g.on[v] = w)
      BY <1>4, FirstViewIsHere
    <2> QED
      BY <1>4, <2>1, FocusViewSound
  <1>5. ASSUME g.mode = "normal", NEW w \in ws, x = FocusPanel(g, w)
        PROVE  Sound(x, W) /\ Steered(g, x)
    <2>1. w \in W
      BY <1>5
    <2> QED
      BY <1>5, <2>1, FocusPanelSound
  <1>6. CASE g.mode # "normal"
    BY <1>2, <1>6 DEF CursorFocus
  <1>7. CASE g.mode = "normal"
    <2>1. \/ x = g
          \/ \E v \in g.shown : g.on[v] \in ws /\ x = FocusView(g, g.on[v], v)
          \/ \E w \in ws : \E v \in FirstView(g, w) : x = FocusView(g, w, v)
          \/ \E w \in ws : x = FocusPanel(g, w)
      <3> DEFINE A == {FocusView(g, g.on[v], v) : v \in {u \in g.shown : g.on[u] \in ws}}
                 B == UNION {{FocusView(g, w, v) : v \in FirstView(g, w)} : w \in ws \ {g.cur}}
                 C == {FocusPanel(g, w) : w \in {u \in ws : u = g.cur \/ g.focus[u] = None}}
      <3>1. x \in {g} \cup A \cup B \cup C
        <4>1. CursorFocus(g, ws) = IF g.mode # "normal" THEN {g} ELSE {g} \cup A \cup B \cup C
          BY DEF CursorFocus
        <4> HIDE DEF A, B, C
        <4> QED
          BY <1>7, <4>1
      <3>2. x \in A => \E v \in g.shown : g.on[v] \in ws /\ x = FocusView(g, g.on[v], v)
        OBVIOUS
      <3>3. x \in B => \E w \in ws : \E v \in FirstView(g, w) : x = FocusView(g, w, v)
        OBVIOUS
      <3>4. x \in C => \E w \in ws : x = FocusPanel(g, w)
        OBVIOUS
      <3> QED
        BY <3>1, <3>2, <3>3, <3>4
    <2> QED
      BY <1>2, <1>3, <1>4, <1>5, <1>7, <2>1
  <1> QED
    BY <1>6, <1>7

-----------------------------------------------------------------------------
(* The end of a mode                                                       *)

\* What a mode keeps, set by one.
PutMode(g, m, s, t, n, i, p) ==
    [g EXCEPT !.mode = m, !.sheet = s, !.target = t, !.typed = n, !.items = i, !.pendingMark = p]

\* The mode changed, and what it keeps.
Turned(g, x) ==
    /\ x \in States /\ SameNames(g, x)
    /\ x.shown = g.shown /\ x.on = g.on /\ x.focus = g.focus /\ x.cur = g.cur
    /\ x.pending = g.pending /\ x.fault = g.fault

\* A state in another mode.
LEMMA PutModeType ==
    ASSUME NEW g \in States, NEW m \in Modes, NEW s \in Sheets \cup {None},
           NEW t \in Names \cup {None, Freed}, NEW n \in Names \cup {None},
           NEW i \in SUBSET (Names \cup {None}), NEW p \in Marks \cup {None}
    PROVE  LET d == PutMode(g, m, s, t, n, i, p) IN
           /\ Turned(g, d) /\ d.mode = m /\ d.sheet = s /\ d.target = t /\ d.typed = n /\ d.items = i
           /\ d.pendingMark = p
  BY ZenonT(60) DEF States, Turned, SameNames, PutMode

\* A mode that keeps what it should is sound.
LEMMA TurnedSound ==
    ASSUME NEW W \in SUBSET Outputs, NEW g, Sound(g, W), NEW x, Turned(g, x), ModeOk(x, W)
    PROVE  Sound(x, W)
  <1>1. NamesOk(x)
    BY DEF Sound, NamesOk, Turned, SameNames
  <1>2. FocusOk(x, W)
    BY DEF Sound, FocusOk, Turned, SameNames
  <1> QED
    BY <1>1, <1>2 DEF Sound, Turned

\* A pointer to a group that is gone is not followed.
LEMMA FollowedIsFine ==
    ASSUME NEW W \in SUBSET Outputs, NEW g, Sound(g, W)
    PROVE  Followed(g) = g
  <1>1. g \in States /\ ~g.fault /\ Freed \notin g.groups
    BY NoneAssumption DEF Sound, States
  <1>2. ~(GroupIsLive(g) /\ g.target = Freed) /\ (GroupIsLive(g) /\ g.target = Freed) \in BOOLEAN
    BY <1>1 DEF GroupIsLive
  <1> QED
    BY <1>1, <1>2, NoFault DEF Followed

\* A mapped view has a group.
LEMMA SubjectHasGroup ==
    ASSUME NEW W \in SUBSET Outputs, NEW g, Sound(g, W), Subject(g) # None
    PROVE  g.group[Subject(g)] \in Names
  BY SubjectIsHere DEF Sound, NamesOk

\* A mark is a mapped view's.
LEMMA MarkedIsMapped ==
    ASSUME NEW W \in SUBSET Outputs, NEW g, Sound(g, W), NEW m \in Marks, g.marked[m] # None
    PROVE  g.marked[m] \in g.mapped
  BY NoneAssumption DEF Sound, NamesOk, States

\* hikari_server.mode, set.
WithMode(g, m) == [g EXCEPT !.mode = m]

\* mode->cancel(), whatever follows it.
LEMMA CancelSound ==
    ASSUME NEW W \in SUBSET Outputs, NEW g, Sound(g, W), NEW m \in {"normal", "dnd"}
    PROVE  LET d == WithMode(Cancel(g), m) IN Sound(d, W) /\ Turned(g, d) /\ d.mode = m
  <1> DEFINE d == PutMode(g, m, None, None, None, {}, None)
  <1>1. g \in States /\ ~g.fault /\ ModeOk(g, W) /\ m \in Modes
    BY DEF Sound, Modes
  <1>2. ASSUME g.mode = "sheet"
        PROVE  WithMode(Cancel(g), m) = d
    <2>1. Cancel(g) = [g EXCEPT !.sheet = None]
      BY <1>2 DEF Cancel
    <2>2. WithMode([g EXCEPT !.sheet = None], m) = d
      BY <1>1, <1>2 DEF ModeOk, PutMode, States, WithMode
    <2> HIDE DEF d
    <2> QED
      BY <2>1, <2>2
  <1>3. ASSUME g.mode = "group"
        PROVE  WithMode(Cancel(g), m) = d
    <2>1. ~(Subject(g) # None /\ g.group[Subject(g)] = None)
      BY SubjectHasGroup, NoneAssumption
    <2>2. Fail(Followed(g), Subject(g) # None /\ g.group[Subject(g)] = None) = g
      BY <1>1, <2>1, FollowedIsFine, NoFault
    <2>3. Cancel(g) = [g EXCEPT !.target = None, !.typed = None, !.items = {}]
      BY <1>3, <2>2 DEF Cancel
    <2>4. WithMode([g EXCEPT !.target = None, !.typed = None, !.items = {}], m) = d
      BY <1>1, <1>3 DEF ModeOk, PutMode, States, WithMode
    <2> HIDE DEF d
    <2> QED
      BY <2>3, <2>4
  <1>4. ASSUME g.mode = "mark"
        PROVE  WithMode(Cancel(g), m) = d
    <2>1. g.pendingMark \in Marks \cup {None}
      BY <1>1 DEF States
    <2>2. ~(g.pendingMark # None /\ g.marked[g.pendingMark] \notin g.mapped \cup {None})
      BY <2>1, MarkedIsMapped
    <2>3. Fail(g, g.pendingMark # None /\ g.marked[g.pendingMark] \notin g.mapped \cup {None}) = g
      BY <1>1, <2>2, NoFault
    <2>4. Cancel(g) = [g EXCEPT !.pendingMark = None]
      BY <1>4, <2>3 DEF Cancel
    <2>5. WithMode([g EXCEPT !.pendingMark = None], m) = d
      BY <1>1, <1>4 DEF ModeOk, PutMode, States, WithMode
    <2> HIDE DEF d
    <2> QED
      BY <2>4, <2>5
  <1>5. ASSUME g.mode \notin {"sheet", "group", "mark"}
        PROVE  WithMode(Cancel(g), m) = d
    <2>1. Cancel(g) = g
      BY <1>5 DEF Cancel
    <2>2. WithMode(g, m) = d
      BY <1>1, <1>5 DEF ModeOk, PutMode, States, WithMode
    <2> HIDE DEF d
    <2> QED
      BY <2>1, <2>2
  <1>6. WithMode(Cancel(g), m) = d
    BY <1>2, <1>3, <1>4, <1>5
  <1>7. /\ Turned(g, d) /\ d.mode = m /\ d.sheet = None /\ d.target = None /\ d.typed = None
        /\ d.items = {} /\ d.pendingMark = None
    BY <1>1, PutModeType
  <1> HIDE DEF d
  <1>8. Sound(d, W)
    BY <1>7, TurnedSound DEF ModeOk, Interactive
  <1> QED
    BY <1>6, <1>7, <1>8

\* The focus may have moved, and a mode that was on may have ended.
Went(g, x) ==
    /\ x \in States /\ SameNames(g, x) /\ x.on = g.on /\ x.pending = g.pending
    /\ x.mode \in {g.mode, "normal"}

\* `Went' is transitive.
LEMMA WentTrans ==
    ASSUME NEW g, NEW x, NEW y, Went(g, x), Went(x, y)
    PROVE  Went(g, y)
  BY DEF Went, SameNames

\* Moving the focus is one such change.
LEMMA SteeredWent ==
    ASSUME NEW g, NEW x, Steered(g, x)
    PROVE  Went(g, x) /\ x.mode = g.mode /\ x.shown = g.shown
  BY DEF Went, Steered, SameMode

\* hikari_server_enter_normal_mode() ends any mode.
LEMMA EnterNormalSound ==
    ASSUME NEW W \in SUBSET Outputs, NEW g, Sound(g, W), NEW ws \in SUBSET W,
           NEW x \in EnterNormal(g, ws)
    PROVE  Sound(x, W) /\ Went(g, x) /\ x.mode = "normal" /\ x.shown = g.shown
  <1> DEFINE d == WithMode(Cancel(g), "normal")
  <1>1. Sound(d, W) /\ Turned(g, d) /\ d.mode = "normal"
    BY CancelSound
  <1>2. x \in CursorFocus(d, ws)
    BY DEF EnterNormal, WithMode
  <1> HIDE DEF d
  <1>3. Sound(x, W) /\ Steered(d, x)
    BY <1>1, <1>2, CursorFocusSound
  <1> QED
    BY <1>1, <1>3 DEF Steered, SameNames, SameMode, Turned, Went

-----------------------------------------------------------------------------
(* Views that go and come                                                  *)

\* clear_focus() of views, once the mode has ended.
Rest(g, views) ==
    [g EXCEPT !.focus = [w \in DOMAIN @ |-> IF @[w] \in views THEN None ELSE @[w]]]

\* Some views lose the focus.
LEMMA RestType ==
    ASSUME NEW g \in States, NEW views \in SUBSET Views
    PROVE  /\ Steered(g, Rest(g, views)) /\ Rest(g, views).cur = g.cur
           /\ Rest(g, views).focus = [w \in Outputs |-> IF g.focus[w] \in views THEN None ELSE g.focus[w]]
  <1> DEFINE f == [w \in Outputs |-> IF g.focus[w] \in views THEN None ELSE g.focus[w]]
  <1>1. f \in [Outputs -> Views \cup {None}]
    BY DEF States
  <1>2. Rest(g, views) = [g EXCEPT !.focus = f]
    BY DEF Rest, States
  <1> HIDE DEF f
  <1>3. LET d == [g EXCEPT !.focus = f] IN Steered(g, d) /\ d.cur = g.cur /\ d.focus = f
    BY <1>1 DEF States, Steered, SameNames, SameKept, SameMode
  <1> QED
    BY <1>2, <1>3 DEF f

\* ... unless one of them is the one a mode works on.
LEMMA RestSound ==
    ASSUME NEW W \in SUBSET Outputs, NEW g, Sound(g, W), NEW views \in SUBSET Views,
           g.mode = "normal" \/ Subject(g) \notin views
    PROVE  /\ Sound(Rest(g, views), W) /\ Steered(g, Rest(g, views)) /\ Rest(g, views).cur = g.cur
           /\ \A w \in Outputs : Rest(g, views).focus[w] \notin views
  <1> DEFINE d == Rest(g, views)
  <1>1. /\ g \in States /\ None \notin views /\ g.cur \in W /\ g.focus \in [Outputs -> Views \cup {None}]
        /\ W \subseteq Outputs
    BY NoneAssumption DEF Sound, States, FocusOk
  <1>2. /\ Steered(g, d) /\ d.cur = g.cur
        /\ d.focus = [w \in Outputs |-> IF g.focus[w] \in views THEN None ELSE g.focus[w]]
    BY <1>1, RestType
  <1> HIDE DEF d
  <1>3. \A w \in Outputs : d.focus[w] # None => d.focus[w] \in g.shown /\ g.on[d.focus[w]] = w
    BY <1>2 DEF Sound, FocusOk
  <1>4. g.mode \in Interactive => d.focus[d.cur] # None
    BY <1>1, <1>2 DEF Sound, ModeOk, Subject, Interactive
  <1>5. Sound(d, W)
    BY <1>1, <1>2, <1>3, <1>4, SteeredSound
  <1>6. \A w \in Outputs : d.focus[w] \notin views
    BY <1>1, <1>2
  <1> QED
    BY <1>2, <1>5, <1>6 DEF d

\* clear_focus() ends the mode if it takes the focus away.
LEMMA ClearFocusSound ==
    ASSUME NEW W \in SUBSET Outputs, NEW g, Sound(g, W), NEW ws \in SUBSET W,
           NEW views \in SUBSET Views, NEW x \in ClearFocus(g, views, ws)
    PROVE  Sound(x, W) /\ Went(g, x) /\ x.shown = g.shown /\ \A w \in Outputs : x.focus[w] \notin views
  <1>1. CASE Subject(g) \notin views
    <2>1. x = Rest(g, views)
      BY <1>1 DEF ClearFocus, Rest
    <2> QED
      BY <1>1, <2>1, RestSound, SteeredWent
  <1>2. CASE Subject(g) \in views
    <2>1. PICK y : /\ Sound(y, W) /\ Went(g, y) /\ y.shown = g.shown /\ y.mode = "normal"
                   /\ x = Rest(FocusView(y, y.cur, None), views)
      <3>1. CASE g.mode = "normal"
        <4>1. x = Rest(FocusView(g, g.cur, None), views)
          BY <1>2, <3>1 DEF ClearFocus, Rest
        <4>2. Went(g, g)
          BY DEF Went, Sound, SameNames
        <4> QED
          BY <3>1, <4>1, <4>2
      <3>2. CASE g.mode # "normal"
        <4>1. PICK y \in EnterNormal(g, ws) : x = Rest(FocusView(y, y.cur, None), views)
          BY <1>2, <3>2 DEF ClearFocus, Rest
        <4> QED
          BY <4>1, EnterNormalSound
      <3> QED
        BY <3>1, <3>2
    <2> DEFINE z == FocusView(y, y.cur, None)
    <2>2. y.cur \in W
      BY <2>1 DEF Sound, FocusOk
    <2>3. Sound(z, W) /\ Steered(y, z)
      BY <2>1, <2>2, FocusViewSound
    <2>4. z.mode = "normal" /\ x = Rest(z, views)
      BY <2>1, <2>3 DEF Steered, SameMode
    <2> HIDE DEF z
    <2>5. Sound(x, W) /\ Steered(z, x) /\ \A w \in Outputs : x.focus[w] \notin views
      BY <2>3, <2>4, RestSound
    <2>6. Went(y, z) /\ Went(z, x) /\ z.shown = y.shown /\ x.shown = z.shown
      BY <2>3, <2>5, SteeredWent
    <2> QED
      BY <2>1, <2>5, <2>6, WentTrans
  <1> QED
    BY <1>1, <1>2

\* Which views are visible, set.
PutShown(g, s) == [g EXCEPT !.shown = s]

\* A state with other views visible.
LEMMA PutShownType ==
    ASSUME NEW g \in States, NEW s \in SUBSET Views
    PROVE  LET d == PutShown(g, s) IN
           /\ d \in States /\ SameNames(g, d) /\ SameKept(g, d) /\ SameMode(g, d)
           /\ d.shown = s /\ d.on = g.on /\ d.focus = g.focus /\ d.cur = g.cur
  BY DEF States, SameNames, SameKept, SameMode, PutShown

\* Views may be hidden that have no focus, and mapped ones may be shown.
LEMMA PutShownSound ==
    ASSUME NEW W \in SUBSET Outputs, NEW g, Sound(g, W), NEW s \in SUBSET g.mapped,
           \A w \in Outputs : g.focus[w] # None => g.focus[w] \in s
    PROVE  Sound(PutShown(g, s), W) /\ Went(g, PutShown(g, s)) /\ PutShown(g, s).shown = s
           /\ PutShown(g, s).mode = g.mode
  <1> DEFINE d == PutShown(g, s)
  <1>1. g \in States /\ s \in SUBSET Views
    BY DEF Sound, States
  <1>2. /\ d \in States /\ SameNames(g, d) /\ SameKept(g, d) /\ SameMode(g, d)
        /\ d.shown = s /\ d.on = g.on /\ d.focus = g.focus /\ d.cur = g.cur
    BY <1>1, PutShownType
  <1> HIDE DEF d
  <1>3. NamesOk(d)
    BY <1>2 DEF Sound, NamesOk, SameNames
  <1>4. FocusOk(d, W)
    BY <1>2 DEF Sound, FocusOk, SameNames
  <1>5. ModeOk(d, W) /\ ~d.fault
    BY <1>2 DEF Sound, ModeOk, SameKept, SameMode, Subject
  <1> QED
    BY <1>2, <1>3, <1>4, <1>5 DEF Sound, Went, SameMode, d

\* hikari_view_hide().
LEMMA HideSound ==
    ASSUME NEW W \in SUBSET Outputs, NEW g, Sound(g, W), NEW ws \in SUBSET W,
           NEW views \in SUBSET Views, NEW x \in Hide(g, views, ws)
    PROVE  Sound(x, W) /\ Went(g, x) /\ x.shown = g.shown \ views
  <1>1. PICK y \in ClearFocus(g, views, ws) : x = PutShown(y, y.shown \ views)
    BY DEF Hide, PutShown
  <1>2. /\ Sound(y, W) /\ Went(g, y) /\ y.shown = g.shown
        /\ \A w \in Outputs : y.focus[w] \notin views
    BY ClearFocusSound
  <1> DEFINE s == y.shown \ views
  <1>3. s \in SUBSET y.mapped /\ \A w \in Outputs : y.focus[w] # None => y.focus[w] \in s
    BY <1>2 DEF Sound, FocusOk
  <1> HIDE DEF s
  <1>4. Sound(PutShown(y, s), W) /\ Went(y, PutShown(y, s)) /\ PutShown(y, s).shown = s
    BY <1>2, <1>3, PutShownSound
  <1> QED
    BY <1>1, <1>2, <1>4, WentTrans DEF s

\* hikari_view_hide() and show() of the views of two sheets or of a layout.
LEMMA RearrangeSound ==
    ASSUME NEW W \in SUBSET Outputs, NEW g, Sound(g, W), NEW ws \in SUBSET W,
           NEW gone \in SUBSET Views, NEW come \in SUBSET g.mapped, NEW x \in Rearrange(g, gone, come, ws)
    PROVE  Sound(x, W) /\ Went(g, x) /\ x.shown = (g.shown \ gone) \cup come
  <1>1. PICK y \in Hide(g, gone, ws) : x \in CursorFocus(PutShown(y, y.shown \cup come), ws)
    BY DEF Rearrange, PutShown
  <1>2. Sound(y, W) /\ Went(g, y) /\ y.shown = g.shown \ gone
    BY HideSound
  <1> DEFINE s == y.shown \cup come
             z == PutShown(y, s)
  <1>3. s \in SUBSET y.mapped /\ \A w \in Outputs : y.focus[w] # None => y.focus[w] \in s
    BY <1>2 DEF Sound, FocusOk, Went, SameNames
  <1>4. x \in CursorFocus(z, ws)
    BY <1>1
  <1> HIDE DEF s
  <1>5. Sound(z, W) /\ Went(y, z) /\ z.shown = s
    BY <1>2, <1>3, PutShownSound
  <1> HIDE DEF z
  <1>6. Sound(x, W) /\ Steered(z, x)
    BY <1>4, <1>5, CursorFocusSound
  <1>7. Went(z, x) /\ x.shown = z.shown
    BY <1>6, SteeredWent
  <1> QED
    BY <1>2, <1>5, <1>6, <1>7, WentTrans DEF s

\* display_sheet() when the screen is not locked.
LEMMA DisplaySheetSound ==
    ASSUME NEW g, wanted \subseteq Outputs, Sound(g, wanted), g.mode = "normal",
           NEW gone \in SUBSET Views, NEW come \in SUBSET g.mapped, NEW x \in DisplaySheet(g, gone, come)
    PROVE  Sound(x, wanted) /\ Went(g, x)
  <1>1. Fail(g, g.mode = "lock" /\ gone \cup come # {}) = g
    BY NoFault DEF Sound
  <1>2. x \in Rearrange(g, gone, come, wanted)
    BY <1>1 DEF DisplaySheet
  <1> QED
    BY <1>2, RearrangeSound

-----------------------------------------------------------------------------
(* Marks and groups                                                        *)

PutMarks(g, a, b) == [g EXCEPT !.mark = a, !.marked = b]

\* Only the marks changed.
Remarked(g, x) ==
    /\ x \in States /\ SameKept(g, x) /\ SameMode(g, x)
    /\ x.mapped = g.mapped /\ x.group = g.group /\ x.groups = g.groups
    /\ x.shown = g.shown /\ x.on = g.on /\ x.focus = g.focus /\ x.cur = g.cur

\* A state with other marks.
LEMMA PutMarksType ==
    ASSUME NEW g \in States, NEW a \in [Views -> Marks \cup {None}],
           NEW b \in [Marks -> Views \cup {None}]
    PROVE  Remarked(g, PutMarks(g, a, b)) /\ PutMarks(g, a, b).mark = a /\ PutMarks(g, a, b).marked = b
  BY DEF States, SameKept, SameMode, Remarked, PutMarks

\* `Remarked' is transitive.
LEMMA RemarkedTrans ==
    ASSUME NEW g, NEW x, NEW y, Remarked(g, x), Remarked(x, y)
    PROVE  Remarked(g, y)
  BY DEF Remarked, SameKept, SameMode

\* A mark has one view and a view one mark, both mapped.
MarksOk(g) ==
    /\ \A v \in Views, m \in Marks : g.mark[v] = m <=> g.marked[m] = v
    /\ \A v \in Views : v \notin g.mapped => g.mark[v] = None

\* Marks that agree keep a state sound.
LEMMA RemarkedSound ==
    ASSUME NEW W \in SUBSET Outputs, NEW g, Sound(g, W), NEW x, Remarked(g, x), MarksOk(x)
    PROVE  Sound(x, W)
  <1>1. x \in States /\ ~x.fault
    BY DEF Sound, Remarked, SameMode
  <1>2. NamesOk(x)
    BY DEF Sound, NamesOk, Remarked, MarksOk
  <1>3. FocusOk(x, W)
    BY DEF Sound, FocusOk, Remarked
  <1>4. ModeOk(x, W)
    BY DEF Sound, ModeOk, Remarked, SameMode, SameKept, Subject
  <1> QED
    BY <1>1, <1>2, <1>3, <1>4 DEF Sound

\* A mark forgets its view and the view its mark.
LEMMA ClearMarkSound ==
    ASSUME NEW W \in SUBSET Outputs, NEW g, Sound(g, W), NEW m \in Marks
    PROVE  /\ Sound(ClearMark(g, m), W) /\ Remarked(g, ClearMark(g, m))
           /\ ClearMark(g, m).marked[m] = None
           /\ \A v \in Views : ClearMark(g, m).mark[v] = IF g.mark[v] = m THEN None ELSE g.mark[v]
  <1>1. /\ g \in States /\ g.marked[m] \in Views \cup {None} /\ m # None /\ None \notin Views
        /\ g.mark \in [Views -> Marks \cup {None}] /\ g.marked \in [Marks -> Views \cup {None}]
        /\ MarksOk(g)
    BY NoneAssumption DEF Sound, States, NamesOk, MarksOk
  <1>2. CASE g.marked[m] = None
    <2>1. ClearMark(g, m) = g
      BY <1>2 DEF ClearMark
    <2>2. \A v \in Views : g.mark[v] # m
      BY <1>1, <1>2 DEF MarksOk
    <2> QED
      BY <1>1, <1>2, <2>1, <2>2 DEF Remarked, SameKept, SameMode
  <1>3. CASE g.marked[m] # None
    <2> DEFINE v == g.marked[m]
               a == [g.mark EXCEPT ![v] = None]
               b == [g.marked EXCEPT ![m] = None]
               d == PutMarks(g, a, b)
    <2>1. v \in Views /\ g.mark[v] = m
      BY <1>1, <1>3 DEF MarksOk
    <2>2. ClearMark(g, m) = d
      BY <1>1, <1>3 DEF ClearMark, PutMarks, States
    <2>3. a \in [Views -> Marks \cup {None}] /\ b \in [Marks -> Views \cup {None}]
      BY <1>1, <2>1
    <2> HIDE DEF a, b
    <2>4. Remarked(g, d) /\ d.mark = a /\ d.marked = b
      BY <1>1, <2>3, PutMarksType
    <2> HIDE DEF d, v
    <2>5. MarksOk(d)
      <3>1. \A u \in Views, k \in Marks : d.mark[u] = k <=> d.marked[k] = u
        BY <1>1, <2>1, <2>4, NoneAssumption DEF MarksOk, a, b
      <3>2. \A u \in Views : u \notin d.mapped => d.mark[u] = None
        BY <1>1, <2>1, <2>4 DEF MarksOk, Remarked, a
      <3> QED
        BY <3>1, <3>2 DEF MarksOk
    <2>6. Sound(d, W)
      BY <2>4, <2>5, RemarkedSound
    <2>7. d.marked[m] = None
      BY <1>1, <2>4 DEF b
    <2>8. \A u \in Views : g.mark[u] = m => u = v
      BY <1>1 DEF MarksOk, v
    <2>9. \A u \in Views : d.mark[u] = IF g.mark[u] = m THEN None ELSE g.mark[u]
      BY <1>1, <2>1, <2>4, <2>8 DEF a
    <2> QED
      BY <2>2, <2>4, <2>6, <2>7, <2>9
  <1> QED
    BY <1>2, <1>3

\* A view loses its mark.
LEMMA UnmarkSound ==
    ASSUME NEW W \in SUBSET Outputs, NEW g, Sound(g, W), NEW v \in Views
    PROVE  Sound(Unmark(g, v), W) /\ Remarked(g, Unmark(g, v)) /\ Unmark(g, v).mark[v] = None
  <1>1. g.mark[v] \in Marks \cup {None} /\ g \in States
    BY DEF Sound, States
  <1>2. CASE g.mark[v] = None
    BY <1>1, <1>2 DEF Unmark, Remarked, SameKept, SameMode
  <1>3. CASE g.mark[v] # None
    <2> DEFINE m == g.mark[v]
    <2>1. m \in Marks /\ g.mark[v] = m /\ Unmark(g, v) = ClearMark(g, m)
      BY <1>1, <1>3 DEF Unmark
    <2> HIDE DEF m
    <2> QED
      BY <2>1, ClearMarkSound
  <1> QED
    BY <1>2, <1>3

\* hikari_mark_set() of a mapped view.
LEMMA SetMarkSound ==
    ASSUME NEW W \in SUBSET Outputs, NEW g, Sound(g, W), NEW m \in Marks, NEW v \in g.mapped
    PROVE  Sound(SetMark(g, m, v), W) /\ Remarked(g, SetMark(g, m, v))
  <1> DEFINE x == Unmark(g, v)
             y == ClearMark(x, m)
             a == [y.mark EXCEPT ![v] = m]
             b == [y.marked EXCEPT ![m] = v]
             d == PutMarks(y, a, b)
  <1>1. v \in Views /\ m # None /\ v # None
    BY NoneAssumption DEF Sound, States
  <1>2. Sound(x, W) /\ Remarked(g, x) /\ x.mark[v] = None
    BY <1>1, UnmarkSound
  <1>3. SetMark(g, m, v) = [y EXCEPT !.marked[m] = v, !.mark[v] = m]
    BY DEF SetMark, Unmark
  <1> HIDE DEF x
  <1>4. /\ Sound(y, W) /\ Remarked(x, y) /\ y.marked[m] = None
        /\ \A u \in Views : y.mark[u] = IF x.mark[u] = m THEN None ELSE x.mark[u]
    BY <1>2, ClearMarkSound
  <1>5. y.mark[v] = None
    BY <1>1, <1>2, <1>4
  <1> HIDE DEF y
  <1>6. /\ y \in States /\ MarksOk(y) /\ y.mark \in [Views -> Marks \cup {None}]
        /\ y.marked \in [Marks -> Views \cup {None}] /\ y.mapped = g.mapped
    BY <1>2, <1>4 DEF Sound, States, NamesOk, MarksOk, Remarked
  <1>7. SetMark(g, m, v) = d
    BY <1>3, <1>6 DEF PutMarks, States
  <1>8. a \in [Views -> Marks \cup {None}] /\ b \in [Marks -> Views \cup {None}]
    BY <1>1, <1>6
  <1> HIDE DEF a, b
  <1>9. Remarked(y, d) /\ d.mark = a /\ d.marked = b
    BY <1>6, <1>8, PutMarksType
  <1> HIDE DEF d
  <1>10. MarksOk(d)
    <2>1. \A u \in Views, k \in Marks : d.mark[u] = k <=> d.marked[k] = u
      <3>1. \A u \in Views : y.mark[u] # m
        BY <1>1, <1>4, <1>6 DEF MarksOk
      <3>2. \A k \in Marks : y.marked[k] # v
        BY <1>1, <1>5, <1>6, NoneAssumption DEF MarksOk
      <3> QED
        BY <1>1, <1>6, <1>9, <3>1, <3>2 DEF MarksOk, a, b
    <2>2. \A u \in Views : u \notin d.mapped => d.mark[u] = None
      BY <1>1, <1>6, <1>9 DEF MarksOk, Remarked, a
    <2> QED
      BY <2>1, <2>2 DEF MarksOk
  <1>11. Sound(d, W)
    BY <1>4, <1>9, <1>10, RemarkedSound
  <1> QED
    BY <1>2, <1>4, <1>7, <1>9, <1>11, RemarkedTrans

PutGroups(g, m, a, b, t) == [g EXCEPT !.mapped = m, !.group = a, !.groups = b, !.target = t]

\* Only the groups changed, and which views are mapped.
Regrouped(g, x) ==
    /\ x \in States /\ SameMode(g, x) /\ x.mark = g.mark /\ x.marked = g.marked
    /\ x.shown = g.shown /\ x.on = g.on /\ x.focus = g.focus /\ x.cur = g.cur
    /\ x.sheet = g.sheet /\ x.typed = g.typed /\ x.items = g.items /\ x.pendingMark = g.pendingMark

\* A state with other groups.
LEMMA PutGroupsType ==
    ASSUME NEW g \in States, NEW m \in SUBSET Views, NEW a \in [Views -> Names \cup {None}],
           NEW b \in SUBSET Names, NEW t \in Names \cup {None, Freed}
    PROVE  LET d == PutGroups(g, m, a, b, t) IN
           Regrouped(g, d) /\ d.mapped = m /\ d.group = a /\ d.groups = b /\ d.target = t
  BY DEF States, SameMode, Regrouped, PutGroups

\* Groups that are those of the mapped views keep a state sound.
LEMMA RegroupedSound ==
    ASSUME NEW W \in SUBSET Outputs, NEW g, Sound(g, W), NEW x, Regrouped(g, x), NamesOk(x),
           g.target = None => x.target = None, x.shown \subseteq x.mapped, x.mapped \subseteq g.mapped
    PROVE  Sound(x, W)
  <1>1. x \in States /\ ~x.fault
    BY DEF Sound, Regrouped, SameMode
  <1>2. FocusOk(x, W)
    BY DEF Sound, FocusOk, Regrouped
  <1>3. ModeOk(x, W)
    BY DEF Sound, ModeOk, Regrouped, SameMode, Subject
  <1> QED
    BY <1>1, <1>2, <1>3 DEF Sound

\* The groups that are left when a view leaves its own.
Others(g, v) == {g.group[u] : u \in g.mapped \ {v}}

Cut(g, v) ==
    IF \A u \in g.mapped \ {v} : g.group[u] # g.group[v] THEN g.groups \ {g.group[v]} ELSE g.groups

Lost(g, v) ==
    IF (\A u \in g.mapped \ {v} : g.group[u] # g.group[v]) /\ g.target = g.group[v] THEN Freed
    ELSE g.target

\* detach_from_group() keeps the groups of the other views.
LEMMA DetachType ==
    ASSUME NEW W \in SUBSET Outputs, NEW g, Sound(g, W), NEW v \in g.mapped
    PROVE  LET d == Detach(g, v) IN
           /\ Regrouped(g, d) /\ d.mapped = g.mapped /\ d.group = [g.group EXCEPT ![v] = None]
           /\ d.groups = Others(g, v) /\ (g.target = None => d.target = None)
           /\ d.target \in Names \cup {None, Freed} /\ d.groups \subseteq Names
  <1> DEFINE a == [g.group EXCEPT ![v] = None]
             b == Cut(g, v)
             t == Lost(g, v)
             d == PutGroups(g, g.mapped, a, b, t)
  <1>1. /\ g \in States /\ v \in Views /\ g.group[v] \in Names /\ g.mapped \in SUBSET Views
        /\ g.group \in [Views -> Names \cup {None}] /\ g.target \in Names \cup {None, Freed}
        /\ g.groups = {g.group[u] : u \in g.mapped} /\ g.groups \in SUBSET Names
    BY DEF Sound, States, NamesOk
  <1>2. a \in [Views -> Names \cup {None}] /\ b \in SUBSET Names /\ t \in Names \cup {None, Freed}
    BY <1>1 DEF Cut, Lost
  <1>3. b = Others(g, v)
    BY <1>1 DEF Cut, Others
  <1>4. g.target = None => t = None
    BY <1>1, NoneAssumption DEF Lost
  <1>5. Detach(g, v) = d
    <2>1. Detach(g, v) = [g EXCEPT !.group[v] = None, !.groups = b, !.target = t]
      BY <1>1 DEF Detach, Cut, Lost, States
    <2> HIDE DEF b, t
    <2> QED
      BY <1>1, <2>1 DEF PutGroups, States
  <1> HIDE DEF a, b, t
  <1>6. Regrouped(g, d) /\ d.mapped = g.mapped /\ d.group = a /\ d.groups = b /\ d.target = t
    BY <1>1, <1>2, PutGroupsType
  <1> HIDE DEF d
  <1> QED
    BY <1>2, <1>3, <1>4, <1>5, <1>6 DEF a

\* `Regrouped' is transitive.
LEMMA RegroupedTrans ==
    ASSUME NEW g, NEW x, NEW y, Regrouped(g, x), Regrouped(x, y)
    PROVE  Regrouped(g, y)
  BY DEF Regrouped, SameMode

\* hikari_view_group() of a visible view: its old group goes if it was the last there.
LEMMA RegroupSound ==
    ASSUME NEW W \in SUBSET Outputs, NEW g, Sound(g, W), NEW v \in g.shown, NEW n \in Names
    PROVE  Sound(Regroup(g, v, n), W) /\ Regrouped(g, Regroup(g, v, n))
  <1>1. v \in g.mapped /\ v \in Views /\ g \in States /\ ~g.fault
    BY DEF Sound, FocusOk, States
  <1>2. CASE g.group[v] = n
    BY <1>1, <1>2 DEF Regroup, Regrouped, SameMode
  <1>3. CASE g.group[v] # n
    <2> DEFINE d == Detach(g, v)
               a == [d.group EXCEPT ![v] = n]
               b == d.groups \cup {n}
               x == PutGroups(d, d.mapped, a, b, d.target)
    <2>1. Regroup(g, v, n) = [Fail(d, v \notin d.shown) EXCEPT !.groups = @ \cup {n}, !.group[v] = n]
      <3>1. d.shown = g.shown
        BY <1>1, DetachType DEF Regrouped
      <3> QED
        BY <1>3, <3>1 DEF Regroup
    <2>2. /\ Regrouped(g, d) /\ d.mapped = g.mapped /\ d.group = [g.group EXCEPT ![v] = None]
          /\ d.groups = Others(g, v) /\ (g.target = None => d.target = None)
          /\ d.target \in Names \cup {None, Freed} /\ d.groups \subseteq Names
      BY <1>1, DetachType
    <2> HIDE DEF d
    <2>3. d \in States /\ ~d.fault /\ v \in d.shown
      BY <1>1, <2>2 DEF Regrouped, SameMode
    <2>4. Fail(d, v \notin d.shown) = d
      BY <2>3, NoFault
    <2>5. Regroup(g, v, n) = x
      BY <2>1, <2>3, <2>4 DEF PutGroups, States
    <2>6. d.mapped \in SUBSET Views /\ a \in [Views -> Names \cup {None}] /\ b \in SUBSET Names
      BY <1>1, <2>2, <2>3 DEF States
    <2>7. a = [g.group EXCEPT ![v] = n]
      BY <1>1, <2>2 DEF States
    <2> HIDE DEF a
    <2>8. Regrouped(d, x) /\ x.mapped = d.mapped /\ x.group = a /\ x.groups = b /\ x.target = d.target
      BY <2>2, <2>3, <2>6, PutGroupsType
    <2> HIDE DEF x
    <2>9. Regrouped(g, x)
      BY <2>2, <2>8, RegroupedTrans
    <2>10. NamesOk(x)
      <3>1. MarksOk(x)
        BY <2>2, <2>8, <2>9 DEF Sound, NamesOk, MarksOk, Regrouped
      <3>2. \A u \in g.mapped : x.group[u] \in Names /\ x.group[u] = IF u = v THEN n ELSE g.group[u]
        BY <1>1, <2>7, <2>8 DEF Sound, NamesOk, States
      <3>3. x.groups = {x.group[u] : u \in g.mapped}
        BY <1>1, <2>2, <2>8, <3>2 DEF Others
      <3> QED
        BY <2>2, <2>8, <3>1, <3>2, <3>3 DEF NamesOk, MarksOk
    <2>11. x.shown \subseteq x.mapped /\ x.mapped \subseteq g.mapped /\ (g.target = None => x.target = None)
      BY <2>2, <2>8, <2>9 DEF Regrouped, Sound, FocusOk
    <2> QED
      BY <2>5, <2>9, <2>10, <2>11, RegroupedSound
  <1> QED
    BY <1>2, <1>3

\* hikari_view_unmap() once the view is hidden.
Gone(g, v) == [Detach(Unmark(g, v), v) EXCEPT !.mapped = @ \ {v}]

\* A view that goes takes its mark and, if it was the last, its group with it.
LEMMA GoneSound ==
    ASSUME NEW W \in SUBSET Outputs, NEW g, Sound(g, W), NEW v \in g.mapped, v \notin g.shown
    PROVE  Sound(Gone(g, v), W)
  <1> DEFINE k == Unmark(g, v)
             d == Detach(k, v)
             m == d.mapped \ {v}
             x == PutGroups(d, m, d.group, d.groups, d.target)
  <1>1. v \in Views
    BY DEF Sound, States
  <1>2. Sound(k, W) /\ Remarked(g, k) /\ k.mark[v] = None
    BY <1>1, UnmarkSound
  <1> HIDE DEF k
  <1>3. k.mapped = g.mapped /\ k.shown = g.shown /\ k \in States
    BY <1>2 DEF Remarked
  <1>4. /\ Regrouped(k, d) /\ d.mapped = k.mapped /\ d.group = [k.group EXCEPT ![v] = None]
        /\ d.groups = Others(k, v) /\ (k.target = None => d.target = None)
        /\ d.target \in Names \cup {None, Freed} /\ d.groups \subseteq Names
    BY <1>2, <1>3, DetachType
  <1>5. Gone(g, v) = [d EXCEPT !.mapped = @ \ {v}]
    BY DEF Gone, k
  <1> HIDE DEF d
  <1>6. d \in States /\ d.group \in [Views -> Names \cup {None}] /\ m \in SUBSET Views
    BY <1>4 DEF Regrouped, States
  <1>7. Gone(g, v) = x
    BY <1>5, <1>6 DEF PutGroups, States
  <1> HIDE DEF m
  <1>8. Regrouped(d, x) /\ x.mapped = m /\ x.group = d.group /\ x.groups = d.groups /\ x.target = d.target
    BY <1>4, <1>6, PutGroupsType
  <1> HIDE DEF x
  <1>9. Regrouped(k, x)
    BY <1>4, <1>8, RegroupedTrans
  <1>10. m = k.mapped \ {v}
    BY <1>4 DEF m
  <1>11. NamesOk(x)
    <2>1. MarksOk(x)
      BY <1>2, <1>8, <1>9, <1>10 DEF Sound, NamesOk, MarksOk, Regrouped
    <2>2. \A u \in m : x.group[u] = k.group[u] /\ x.group[u] \in Names
      BY <1>1, <1>2, <1>3, <1>4, <1>8, <1>10 DEF Sound, NamesOk, States
    <2>3. x.groups = {x.group[u] : u \in m}
      BY <1>4, <1>8, <1>10, <2>2 DEF Others
    <2> QED
      BY <1>8, <2>1, <2>2, <2>3 DEF NamesOk, MarksOk
  <1>12. x.shown \subseteq x.mapped /\ x.mapped \subseteq k.mapped /\ (k.target = None => x.target = None)
    BY <1>2, <1>3, <1>4, <1>8, <1>9, <1>10 DEF Regrouped, Sound, FocusOk
  <1> QED
    BY <1>2, <1>7, <1>9, <1>11, <1>12, RegroupedSound

-----------------------------------------------------------------------------
(* Actions of bindings                                                     *)

\* A mode that keeps nothing begins in the normal mode.
LEMMA WithModeSound ==
    ASSUME NEW W \in SUBSET Outputs, NEW g, Sound(g, W), g.mode = "normal",
           NEW m \in Modes \ {"sheet"}, m \in Interactive => Subject(g) # None
    PROVE  Sound(WithMode(g, m), W)
  <1> DEFINE d == PutMode(g, m, None, None, None, {}, None)
  <1>1. g \in States /\ ModeOk(g, W)
    BY DEF Sound
  <1>2. WithMode(g, m) = d
    BY <1>1 DEF ModeOk, PutMode, States, WithMode
  <1>3. /\ Turned(g, d) /\ d.mode = m /\ d.sheet = None /\ d.target = None /\ d.typed = None
        /\ d.items = {} /\ d.pendingMark = None
    BY <1>1, PutModeType
  <1> HIDE DEF d
  <1>4. ModeOk(d, W)
    BY <1>3 DEF ModeOk, Turned, Subject
  <1> QED
    BY <1>2, <1>3, <1>4, TurnedSound

\* hikari_sheet_assign_mode_enter().
LEMMA EnterSheetSound ==
    ASSUME NEW W \in SUBSET Outputs, NEW g, Sound(g, W), g.mode = "normal", Subject(g) # None
    PROVE  Sound(EnterSheet(g), W)
  <1> DEFINE s == [ws |-> g.on[Subject(g)], here |-> TRUE]
             d == PutMode(g, "sheet", s, None, None, {}, None)
  <1>1. g \in States /\ ModeOk(g, W) /\ g.on[Subject(g)] \in W /\ g.on[Subject(g)] \in Outputs
    BY SubjectIsHere DEF Sound
  <1>2. s \in Sheets /\ s.ws \in W
    BY <1>1 DEF Sheets
  <1>3. s # None
    BY <1>2, SheetAssumption DEF Sheets
  <1>4. EnterSheet(g) = d
    BY <1>1 DEF ModeOk, PutMode, States, EnterSheet
  <1> HIDE DEF s
  <1>5. /\ Turned(g, d) /\ d.mode = "sheet" /\ d.sheet = s /\ d.target = None /\ d.typed = None
        /\ d.items = {} /\ d.pendingMark = None
    BY <1>1, <1>2, PutModeType DEF Modes, Interactive
  <1> HIDE DEF d
  <1>6. ModeOk(d, W)
    BY <1>2, <1>3, <1>5 DEF ModeOk, Turned, Subject
  <1> QED
    BY <1>4, <1>5, <1>6, TurnedSound

\* hikari_group_assign_mode_enter().
LEMMA EnterGroupSound ==
    ASSUME NEW W \in SUBSET Outputs, NEW g, Sound(g, W), g.mode = "normal", Subject(g) # None
    PROVE  Sound(EnterGroup(g), W)
  <1> DEFINE n == g.group[Subject(g)]
             d == PutMode(g, "group", None, n, n, {}, None)
  <1>1. g \in States /\ ModeOk(g, W) /\ n \in Names
    BY SubjectHasGroup DEF Sound
  <1>2. EnterGroup(g) = d
    BY <1>1 DEF ModeOk, PutMode, States, EnterGroup
  <1> HIDE DEF n
  <1>3. Turned(g, d) /\ d.mode = "group" /\ d.sheet = None /\ d.pendingMark = None
    BY <1>1, PutModeType DEF Modes, Interactive
  <1> HIDE DEF d
  <1>4. ModeOk(d, W)
    BY <1>3 DEF ModeOk, Turned, Subject
  <1> QED
    BY <1>2, <1>3, <1>4, TurnedSound

\* hikari_mark_assign_mode_enter(): there is no pending mark to clear.
LEMMA EnterMarkSound ==
    ASSUME NEW W \in SUBSET Outputs, NEW g, Sound(g, W), g.mode = "normal", Subject(g) # None
    PROVE  Sound(EnterMark(g), W)
  <1>1. EnterMark(g) = WithMode(g, "mark")
    BY DEF EnterMark, WithMode, Sound, ModeOk, States
  <1> QED
    BY <1>1, WithModeSound DEF Modes, Interactive

\* The modes that want a view.
LEMMA EnterInteractiveSound ==
    ASSUME NEW W \in SUBSET Outputs, NEW g, Sound(g, W), g.mode = "normal", Subject(g) # None,
           NEW x \in EnterInteractive(g)
    PROVE  Sound(x, W)
  <1>1. CASE x \in {EnterSheet(g), EnterGroup(g), EnterMark(g)}
    BY <1>1, EnterSheetSound, EnterGroupSound, EnterMarkSound
  <1>2. ASSUME NEW m \in {"move", "resize", "grab"}, x = WithMode(g, m)
        PROVE  Sound(x, W)
    <2>1. m \in Modes \ {"sheet"}
      BY DEF Modes, Interactive
    <2> QED
      BY <1>2, <2>1, WithModeSound
  <1>3. \/ x \in {EnterSheet(g), EnterGroup(g), EnterMark(g)}
        \/ \E m \in {"move", "resize", "grab"} : x = WithMode(g, m)
    BY DEF EnterInteractive, WithMode
  <1> QED
    BY <1>1, <1>2, <1>3

\* hikari_mark_select_mode_enter() and hikari_lock_mode_enter() drop the focus.
LEMMA EnterUnfocusedSound ==
    ASSUME NEW W \in SUBSET Outputs, NEW g, Sound(g, W), g.mode = "normal",
           NEW x \in {EnterSelect(g), EnterLock(g)}
    PROVE  Sound(x, W)
  <1> DEFINE z == FocusView(g, g.cur, None)
  <1>1. Sound(z, W) /\ z.mode = "normal"
    <2>1. g.cur \in W
      BY DEF Sound, FocusOk
    <2>2. Sound(z, W) /\ Steered(g, z)
      BY <2>1, FocusViewSound
    <2> QED
      BY <2>2 DEF Steered, SameMode
  <1>2. x = WithMode(z, "select") \/ x = WithMode(z, "lock") \/ x = WithMode(g, "lock")
    BY DEF EnterSelect, EnterLock, WithMode
  <1> HIDE DEF z
  <1>3. Sound(WithMode(z, "select"), W) /\ Sound(WithMode(z, "lock"), W) /\ Sound(WithMode(g, "lock"), W)
    BY <1>1, WithModeSound DEF Modes, Interactive
  <1> QED
    BY <1>2, <1>3

\* hikari_configuration_reload() while no end action is pending.
LEMMA ReloadSound ==
    ASSUME NEW W \in SUBSET Outputs, NEW g, Sound(g, W), g.pending = None
    PROVE  Reload(g) = g
  BY DEF Reload, Sound, States

\* CYCLE_VIEW and CYCLE_WORKSPACE.
LEMMA CycleSound ==
    ASSUME NEW g, wanted \subseteq Outputs, Sound(g, wanted), g.mode = "normal", NEW x \in Cycle(g)
    PROVE  Sound(x, wanted)
  <1> DEFINE A == {FocusView(g, g.on[v], v) : v \in g.shown}
             B == UNION {{FocusView(g, w, v) : v \in FirstView(g, w) \ {None}} : w \in wanted}
  <1>1. x \in A \cup B
    BY DEF Cycle
  <1>2. CASE x \in A
    <2>1. PICK v \in g.shown : x = FocusView(g, g.on[v], v)
      BY <1>2
    <2>2. v \in Views \cup {None} /\ g.on[v] \in wanted
      BY DEF Sound, States, FocusOk
    <2> QED
      BY <2>1, <2>2, FocusViewSound
  <1>3. CASE x \in B
    <2>1. PICK w \in wanted : \E v \in FirstView(g, w) : x = FocusView(g, w, v)
      BY <1>3
    <2>2. PICK v \in FirstView(g, w) : x = FocusView(g, w, v)
      BY <2>1
    <2>3. v \in Views \cup {None} /\ (v # None => v \in g.shown /\ g.on[v] = w)
      BY <2>2, FirstViewIsHere
    <2> QED
      BY <2>2, <2>3, FocusViewSound
  <1> QED
    BY <1>1, <1>2, <1>3

\* An action of a binding begins in the normal mode, and may begin any other.
LEMMA ActSound ==
    ASSUME "reload" \notin Races, NEW g, wanted \subseteq Outputs, Sound(g, wanted),
           g.mode = "normal", NEW x \in Act(g)
    PROVE  Sound(x, wanted)
  <1> DEFINE E == IF Subject(g) = None THEN {} ELSE EnterInteractive(g)
             R == IF ReloadMay(g) THEN {Reload(g)} ELSE {}
             D == UNION {DisplaySheet(g, gone, come) :
                            gone \in SUBSET g.shown, come \in SUBSET (g.mapped \ g.shown)}
  <1>1. Act(g) = {EnterSelect(g), EnterLock(g), [g EXCEPT !.mode = "layout"]} \cup E \cup R \cup Cycle(g) \cup D
    BY DEF Act
  <1>2. \/ x \in {EnterSelect(g), EnterLock(g)} \/ x = [g EXCEPT !.mode = "layout"]
        \/ x \in E \/ x \in R \/ x \in Cycle(g) \/ x \in D
    <2> HIDE DEF E, R, D
    <2> QED
      BY <1>1
  <1>3. CASE x \in {EnterSelect(g), EnterLock(g)}
    BY <1>3, EnterUnfocusedSound
  <1>4. CASE x = [g EXCEPT !.mode = "layout"]
    <2>1. x = WithMode(g, "layout")
      BY <1>4 DEF WithMode
    <2> QED
      BY <2>1, WithModeSound DEF Modes, Interactive
  <1>5. CASE x \in E
    BY <1>5, EnterInteractiveSound
  <1>6. CASE x \in R
    BY <1>6, ReloadSound DEF ReloadMay
  <1>7. CASE x \in Cycle(g)
    BY <1>7, CycleSound
  <1>8. CASE x \in D
    <2>1. PICK gone \in SUBSET g.shown, come \in SUBSET (g.mapped \ g.shown) : x \in DisplaySheet(g, gone, come)
      BY <1>8
    <2>2. gone \in SUBSET Views /\ come \in SUBSET g.mapped
      BY DEF Sound, States
    <2> QED
      BY <2>1, <2>2, DisplaySheetSound
  <1> QED
    BY <1>2, <1>3, <1>4, <1>5, <1>6, <1>7, <1>8

-----------------------------------------------------------------------------
(* The steps                                                               *)

\* Most steps leave the monitors and the connections alone.
LEMMA Settled ==
    ASSUME IInv, UNCHANGED <<wanted, request>>, Sound(h', wanted)
    PROVE  IInv'
  BY DEF IInv

PutView(g, v, n) ==
    [g EXCEPT !.mapped = @ \cup {v}, !.shown = @ \cup {v}, !.on[v] = g.cur, !.group[v] = n,
              !.groups = @ \cup {n}]

\* A view that appears is on the current workspace, with a group.
LEMMA PutViewSound ==
    ASSUME NEW W \in SUBSET Outputs, NEW g, Sound(g, W), NEW v \in Views, v \notin g.mapped, NEW n \in Names
    PROVE  Sound(PutView(g, v, n), W)
  <1> DEFINE d == PutView(g, v, n)
  <1>1. /\ g \in States /\ g.mapped \in SUBSET Views /\ g.shown \in SUBSET Views /\ g.cur \in Outputs
        /\ g.on \in [Views -> Outputs] /\ g.group \in [Views -> Names \cup {None}] /\ g.groups \in SUBSET Names
    BY DEF Sound, States
  <1>2. /\ d \in States /\ SameKept(g, d) /\ SameMode(g, d) /\ d.mark = g.mark /\ d.marked = g.marked
        /\ d.focus = g.focus /\ d.cur = g.cur
        /\ d.mapped = g.mapped \cup {v} /\ d.shown = g.shown \cup {v} /\ d.groups = g.groups \cup {n}
        /\ d.on = [g.on EXCEPT ![v] = g.cur] /\ d.group = [g.group EXCEPT ![v] = n]
    <2> DEFINE m == g.mapped \cup {v}
               s == g.shown \cup {v}
               o == [g.on EXCEPT ![v] = g.cur]
               a == [g.group EXCEPT ![v] = n]
               b == g.groups \cup {n}
    <2>1. d = [g EXCEPT !.mapped = m, !.shown = s, !.on = o, !.group = a, !.groups = b]
      BY <1>1 DEF PutView, States
    <2>2. m \in SUBSET Views /\ s \in SUBSET Views /\ o \in [Views -> Outputs]
          /\ a \in [Views -> Names \cup {None}] /\ b \in SUBSET Names
      BY <1>1
    <2> HIDE DEF d, m, s, o, a, b
    <2>3. /\ d \in States /\ SameKept(g, d) /\ SameMode(g, d) /\ d.mark = g.mark /\ d.marked = g.marked
          /\ d.focus = g.focus /\ d.cur = g.cur
          /\ d.mapped = m /\ d.shown = s /\ d.groups = b /\ d.on = o /\ d.group = a
      BY <1>1, <2>1, <2>2 DEF States, SameKept, SameMode
    <2> QED
      BY <2>3 DEF m, s, o, a, b
  <1> HIDE DEF d
  <1>3. NamesOk(d)
    <2>1. MarksOk(d)
      BY <1>2 DEF Sound, NamesOk, MarksOk
    <2>2. \A u \in d.mapped : d.group[u] = (IF u = v THEN n ELSE g.group[u]) /\ d.group[u] \in Names
      BY <1>1, <1>2 DEF Sound, NamesOk
    <2>3. d.groups = {d.group[u] : u \in d.mapped}
      BY <1>1, <1>2, <2>2 DEF Sound, NamesOk
    <2> QED
      BY <2>1, <2>2, <2>3 DEF NamesOk, MarksOk
  <1>4. FocusOk(d, W)
    <2>1. \A u \in d.mapped : d.on[u] = IF u = v THEN g.cur ELSE g.on[u]
      BY <1>1, <1>2
    <2>2. \A w \in Outputs : g.focus[w] # None => g.focus[w] \in g.mapped /\ g.focus[w] # v
      BY DEF Sound, FocusOk
    <2> QED
      BY <1>2, <2>1, <2>2 DEF Sound, FocusOk
  <1>5. ModeOk(d, W) /\ ~d.fault
    BY <1>2 DEF Sound, ModeOk, SameKept, SameMode, Subject
  <1> QED
    BY <1>2, <1>3, <1>4, <1>5 DEF Sound, d

\* Map(v).
LEMMA MapKeeps ==
    ASSUME IInv, NEW v \in Views, Map(v)
    PROVE  IInv'
  <1>1. PICK n \in Names : h' \in CursorFocus(PutView(h, v, n), wanted)
    BY DEF Map, PutView
  <1>2. wanted \in SUBSET Outputs /\ Sound(h, wanted) /\ v \notin h.mapped
    BY DEF IInv, Map
  <1>3. Sound(PutView(h, v, n), wanted)
    BY <1>2, PutViewSound
  <1>4. Sound(h', wanted)
    BY <1>1, <1>2, <1>3, CursorFocusSound
  <1> QED
    BY <1>4, Settled DEF Map

\* Unmap(v), in any mode.
LEMMA UnmapKeeps ==
    ASSUME IInv, NEW v \in Views, Unmap(v)
    PROVE  IInv'
  <1>1. PICK x \in IF v \in h.shown THEN Rearrange(h, {v}, {}, wanted) ELSE {h} : h' = Gone(x, v)
    BY DEF Unmap, Gone
  <1>2. wanted \in SUBSET Outputs /\ Sound(h, wanted) /\ v \in h.mapped
    BY DEF IInv, Unmap
  <1>3. Sound(x, wanted) /\ v \in x.mapped /\ v \notin x.shown
    <2>1. CASE v \in h.shown
      <3> DEFINE gone == {v}
                 come == {}
      <3>1. x \in Rearrange(h, gone, come, wanted) /\ gone \in SUBSET Views /\ come \in SUBSET h.mapped
        BY <1>1, <2>1
      <3> HIDE DEF gone, come
      <3>2. Sound(x, wanted) /\ Went(h, x) /\ x.shown = (h.shown \ gone) \cup come
        BY <1>2, <3>1, RearrangeSound
      <3> QED
        BY <1>2, <3>2 DEF Went, SameNames, gone, come
    <2>2. CASE v \notin h.shown
      BY <1>1, <1>2, <2>2
    <2> QED
      BY <2>1, <2>2
  <1>4. Sound(h', wanted)
    BY <1>1, <1>2, <1>3, GoneSound
  <1> QED
    BY <1>4, Settled DEF Unmap

\* Appear(v), in any mode but the lock's.
LEMMA AppearKeeps ==
    ASSUME IInv, NEW v \in Views, Appear(v)
    PROVE  IInv'
  <1>1. wanted \in SUBSET Outputs /\ Sound(h, wanted) /\ {v} \in SUBSET h.mapped /\ {} \in SUBSET Views
    BY DEF IInv, Appear
  <1>2. h' \in Rearrange(h, {}, {v}, wanted)
    BY DEF Appear
  <1>3. Sound(h', wanted)
    BY <1>1, <1>2, RearrangeSound
  <1> QED
    BY <1>3, Settled DEF Appear

\* A drag ends the mode that was on.
LEMMA StartDragKeeps ==
    ASSUME IInv, StartDrag
    PROVE  IInv'
  <1>1. wanted \in SUBSET Outputs /\ Sound(h, wanted)
    BY DEF IInv
  <1>2. h' = WithMode(Cancel(h), "dnd")
    BY DEF StartDrag, WithMode
  <1>3. Sound(h', wanted)
    BY <1>1, <1>2, CancelSound
  <1> QED
    BY <1>3, Settled DEF StartDrag

\* A monitor that is added has no view yet.
LEMMA PlugKeeps ==
    ASSUME IInv, NEW o \in Outputs, Plug(o)
    PROVE  IInv'
  <1>1. Sound(h, wanted \cup {o})
    BY DEF IInv, Sound, FocusOk, ModeOk
  <1> QED
    BY <1>1 DEF IInv, Plug

\* The mapped views are on these workspaces.
Within(g, V) == \A v \in g.mapped : g.on[v] \in V

PutMoved(g, on, s) == [g EXCEPT !.on = on, !.shown = s]

\* A view stays visible, on its workspace, if it has the focus.
Held(g, on, s) == \A w \in Outputs : g.focus[w] # None => g.focus[w] \in s /\ on[g.focus[w]] = w

Lands(g, on, V) == \A v \in g.mapped : on[v] \in V

\* Views of a monitor that goes, which have no focus, move to another.
LEMMA PutMovedSound ==
    ASSUME NEW W \in SUBSET Outputs, NEW g, Sound(g, W), NEW V, V \subseteq W,
           NEW on \in [Views -> Outputs], NEW s \in SUBSET g.shown,
           Lands(g, on, V), Held(g, on, s)
    PROVE  LET d == PutMoved(g, on, s) IN
           Sound(d, W) /\ d.mapped = g.mapped /\ d.mode = g.mode /\ Within(d, V)
  <1> DEFINE d == PutMoved(g, on, s)
  <1>1. g \in States /\ s \in SUBSET Views
    BY DEF Sound, States
  <1>2. /\ d \in States /\ SameNames(g, d) /\ SameKept(g, d) /\ SameMode(g, d)
        /\ d.shown = s /\ d.on = on /\ d.focus = g.focus /\ d.cur = g.cur
    BY <1>1 DEF States, SameNames, SameKept, SameMode, PutMoved
  <1> HIDE DEF d
  <1>3. NamesOk(d)
    BY <1>2 DEF Sound, NamesOk, SameNames
  <1>4. FocusOk(d, W)
    BY <1>2 DEF Sound, FocusOk, SameNames, Lands, Held
  <1>5. ModeOk(d, W) /\ ~d.fault
    BY <1>2 DEF Sound, ModeOk, SameKept, SameMode, Subject
  <1> QED
    BY <1>2, <1>3, <1>4, <1>5 DEF Sound, SameNames, SameMode, Within, Lands, d

\* A state that needs no other monitors.
LEMMA Shrink ==
    ASSUME NEW W, NEW g, Sound(g, W), NEW V, g.cur \in V, Within(g, V),
           g.mode # "sheet"
    PROVE  Sound(g, V)
  BY DEF Sound, FocusOk, ModeOk, Within

\* The views on a monitor.
ViewsOn(g, o) == {v \in g.mapped : g.on[v] = o}

\* No workspace's focus is one of these views.
Unfocused(g, views) == \A w \in Outputs : g.focus[w] \notin views

\* The monitors that are left.
Left(W, o) == W \ {o}

\* evacuate_output() of the views of a monitor: none has the focus.
LEMMA EvacuatedSound ==
    ASSUME NEW W \in SUBSET Outputs, NEW g, Sound(g, W), NEW o \in W, NEW V, V = Left(W, o),
           NEW into \in V, NEW moving, moving = ViewsOn(g, o), NEW stay,
           Unfocused(g, moving)
    PROVE  LET d == Evacuate(g, moving, into, stay) IN
           Sound(d, W) /\ d.mode = g.mode /\ Within(d, V)
  <1> DEFINE on == [v \in Views |-> IF v \in moving THEN into ELSE g.on[v]]
             s == g.shown \ (moving \ stay)
  <1>1. g.on \in [Views -> Outputs] /\ g.mapped \subseteq Views /\ V \subseteq W
    BY DEF Sound, States, Left
  <1>2. on \in [Views -> Outputs] /\ s \in SUBSET g.shown
    BY <1>1
  <1>3. Lands(g, on, V)
    BY <1>1 DEF Sound, FocusOk, ViewsOn, Left, Lands
  <1>4. Held(g, on, s)
    BY <1>1 DEF Sound, FocusOk, Unfocused, Held
  <1>5. Evacuate(g, moving, into, stay) = PutMoved(g, on, s)
    BY DEF Evacuate, PutMoved
  <1> HIDE DEF on, s
  <1>6. LET d == PutMoved(g, on, s) IN
        Sound(d, W) /\ d.mapped = g.mapped /\ d.mode = g.mode /\ Within(d, V)
    BY <1>1, <1>2, <1>3, <1>4, PutMovedSound
  <1> QED
    BY <1>5, <1>6

\* hikari_workspace_focus_view() of none, on a workspace that stays.
LEMMA FocusIntoSound ==
    ASSUME NEW W \in SUBSET Outputs, NEW y, Sound(y, W), y.mode = "normal", NEW V, Within(y, V),
           NEW into \in W, into \in V
    PROVE  Sound(FocusView(y, into, None), V)
  <1> DEFINE z == FocusView(y, into, None)
  <1>1. Sound(z, W) /\ Steered(y, z) /\ z.cur = into
    BY FocusViewSound
  <1> HIDE DEF z
  <1>2. z.mode = "normal" /\ Within(z, V)
    BY <1>1 DEF Steered, SameMode, SameNames, Within
  <1>3. Sound(z, V)
    BY <1>1, <1>2, Shrink
  <1> QED
    BY <1>3 DEF z

\* Unplug(o), in any mode: what it moves and where the focus ends.
LEMMA UnplugKeeps ==
    ASSUME IInv, NEW o \in Outputs, Unplug(o)
    PROVE  IInv'
  <1> DEFINE moving == {v \in h.mapped : h.on[v] = o}
             V == wanted \ {o}
  <1>1. /\ wanted \in SUBSET Outputs /\ Sound(h, wanted) /\ o \in wanted /\ wanted' = V
        /\ request' = request /\ moving \in SUBSET Views /\ V \in SUBSET wanted
    BY DEF IInv, Unplug, Sound, States
  <1>2. PICK into \in V, stay \in SUBSET moving, x \in ClearFocus(h, moving, wanted) :
           LET g == Evacuate(x, moving, into, stay) IN
           IF g.mode = "lock" THEN h' = PutFocus(g, into, None)
           ELSE h' \in {FocusView(y, into, None) :
                           y \in IF g.mode = "normal" THEN {g} ELSE EnterNormal(g, V)}
    BY ZenonT(60), <1>1 DEF Unplug, PutFocus
  <1>3. Sound(x, wanted) /\ Went(h, x) /\ Unfocused(x, moving)
    <2> HIDE DEF moving
    <2> QED
      BY <1>1, <1>2, ClearFocusSound DEF Unfocused
  <1>4. moving = ViewsOn(x, o)
    BY <1>3 DEF Went, SameNames, ViewsOn
  <1> DEFINE g == Evacuate(x, moving, into, stay)
  <1> HIDE DEF moving, V
  <1>5a. V = Left(wanted, o)
    BY DEF V, Left
  <1>5. Sound(g, wanted) /\ g.mode = x.mode /\ Within(g, V)
    <2> HIDE DEF g
    <2>1. wanted \in SUBSET Outputs /\ o \in wanted /\ into \in V
      BY <1>1, <1>2
    <2>2. LET d == Evacuate(x, moving, into, stay) IN Sound(d, wanted) /\ d.mode = x.mode /\ Within(d, V)
      BY <1>3, <1>4, <1>5a, <2>1, EvacuatedSound
    <2> QED
      BY <2>2 DEF g
  <1>6. into \in V /\ into \in Outputs /\ into \in wanted
    BY <1>1, <1>2
  <1>7. \/ g.mode = "lock" /\ h' = PutFocus(g, into, None)
        \/ g.mode = "normal" /\ h' = FocusView(g, into, None)
        \/ \E y \in EnterNormal(g, V) : h' = FocusView(y, into, None)
    <2> HIDE DEF g
    <2>1. IF g.mode = "lock" THEN h' = PutFocus(g, into, None)
          ELSE h' \in {FocusView(y, into, None) :
                           y \in IF g.mode = "normal" THEN {g} ELSE EnterNormal(g, V)}
      BY <1>2 DEF g
    <2> QED
      BY <2>1
  <1> HIDE DEF g
  <1>8. ASSUME NEW y, Sound(y, wanted), y.mode = "normal", Within(y, V)
        PROVE  Sound(FocusView(y, into, None), V)
    BY <1>1, <1>6, <1>8, FocusIntoSound
  <1>9. Sound(h', V)
    <2>1. ASSUME g.mode = "lock"
          PROVE  Sound(PutFocus(g, into, None), V)
      <3> DEFINE z == PutFocus(g, into, None)
      <3>1. g \in States /\ g.focus \in [Outputs -> Views \cup {None}]
        BY <1>5 DEF Sound, States
      <3>2. Steered(g, z) /\ z.cur = into /\ z.focus = [g.focus EXCEPT ![into] = None]
        BY <1>6, <3>1, PutFocusType
      <3> HIDE DEF z
      <3>3. \A w \in Outputs : z.focus[w] # None => z.focus[w] \in g.shown /\ g.on[z.focus[w]] = w
        BY <1>5, <3>1, <3>2 DEF Sound, FocusOk
      <3>4. Sound(z, wanted)
        BY <1>1, <1>5, <1>6, <2>1, <3>2, <3>3, SteeredSound DEF Interactive
      <3>5. z.mode # "sheet" /\ Within(z, V)
        BY <1>5, <2>1, <3>2 DEF Steered, SameMode, SameNames, Within
      <3>6. Sound(z, V)
        BY <1>6, <3>2, <3>4, <3>5, Shrink
      <3> QED
        BY <3>6 DEF z
    <2>2. CASE g.mode = "normal" /\ h' = FocusView(g, into, None)
      BY <1>5, <1>8, <2>2
    <2>3. ASSUME NEW y \in EnterNormal(g, V), h' = FocusView(y, into, None)
          PROVE  Sound(h', V)
      <3>1. Sound(y, wanted) /\ Went(g, y) /\ y.mode = "normal"
        BY <1>1, <1>5, <2>3, EnterNormalSound
      <3>2. Within(y, V)
        BY <1>5, <3>1 DEF Went, SameNames, Within
      <3> QED
        BY <1>8, <2>3, <3>1, <3>2
    <2> QED
      BY <1>7, <2>1, <2>2, <2>3
  <1>10. V \subseteq Outputs
    BY <1>1
  <1> QED
    BY <1>1, <1>9, <1>10 DEF IInv

-----------------------------------------------------------------------------
(* Bindings, switches and gestures                                         *)

PutPending(g, p) == [g EXCEPT !.pending = p]

\* An end action may wait for its key.
LEMMA PutPendingSound ==
    ASSUME NEW W \in SUBSET Outputs, NEW g, Sound(g, W), NEW p \in {None, "live"}
    PROVE  Sound(PutPending(g, p), W) /\ PutPending(g, p).mode = g.mode
  <1> DEFINE d == PutPending(g, p)
  <1>1. g \in States
    BY DEF Sound
  <1>2. /\ d \in States /\ SameNames(g, d) /\ SameKept(g, d) /\ d.mode = g.mode /\ d.fault = g.fault
        /\ d.shown = g.shown /\ d.on = g.on /\ d.focus = g.focus /\ d.cur = g.cur
    BY <1>1 DEF States, SameNames, SameKept, PutPending
  <1> HIDE DEF d
  <1>3. NamesOk(d)
    BY <1>2 DEF Sound, NamesOk, SameNames
  <1>4. FocusOk(d, W) /\ ModeOk(d, W) /\ ~d.fault
    BY <1>2 DEF Sound, FocusOk, ModeOk, SameNames, SameKept, Subject
  <1> QED
    BY <1>2, <1>3, <1>4 DEF Sound, d

\* A binding's action, at the key.
LEMMA BindingKeeps ==
    ASSUME Races = {}, IInv, Binding
    PROVE  IInv'
  <1>1. wanted \in SUBSET Outputs /\ Sound(h, wanted) /\ h.mode = "normal" /\ "reload" \notin Races
    BY DEF IInv, Binding
  <1>2. PICK p \in {None, "live"} : h' \in Act(PutPending(h, p))
    BY DEF Binding, PutPending
  <1>3. Sound(PutPending(h, p), wanted) /\ PutPending(h, p).mode = "normal"
    BY <1>1, PutPendingSound
  <1>4. Sound(h', wanted)
    BY <1>1, <1>2, <1>3, ActSound
  <1> QED
    BY <1>4, Settled DEF Binding

\* ... and at its release: what it belongs to is still there.
LEMMA PendingActionKeeps ==
    ASSUME Races = {}, IInv, PendingAction
    PROVE  IInv'
  <1>1. /\ wanted \in SUBSET Outputs /\ Sound(h, wanted) /\ h.mode = "normal" /\ "reload" \notin Races
        /\ h.pending # None /\ h \in States /\ ~h.fault
    BY DEF IInv, PendingAction, Sound
  <1>2. h.pending = "live"
    BY <1>1 DEF States
  <1>3. Fail(h, h.pending = "freed") = h
    BY <1>1, <1>2, NoFault
  <1>4. PICK x \in Act(h) : h' = PutPending(x, None)
    BY <1>3 DEF PendingAction, PutPending
  <1>5. Sound(x, wanted)
    BY <1>1, <1>4, ActSound
  <1>6. Sound(h', wanted)
    BY <1>1, <1>4, <1>5, PutPendingSound
  <1> QED
    BY <1>6, Settled DEF PendingAction

\* A switch leaves the mode before it acts.
LEMMA SwitchKeeps ==
    ASSUME Races = {}, IInv, Switch
    PROVE  IInv'
  <1>1. wanted \in SUBSET Outputs /\ Sound(h, wanted) /\ "reload" \notin Races
    BY DEF IInv
  <1>2. PICK x \in IF h.mode = "normal" THEN {h} ELSE EnterNormal(h, wanted) : h' \in Act(x)
    BY DEF Switch
  <1>3. Sound(x, wanted) /\ x.mode = "normal"
    BY <1>1, <1>2, EnterNormalSound
  <1>4. Sound(h', wanted)
    BY <1>1, <1>2, <1>3, ActSound
  <1> QED
    BY <1>4, Settled DEF Switch

\* A gesture acts in the normal mode.
LEMMA GestureKeeps ==
    ASSUME Races = {}, IInv, Gesture
    PROVE  IInv'
  <1>1. /\ wanted \in SUBSET Outputs /\ Sound(h, wanted) /\ "reload" \notin Races
        /\ h.mode = "normal" /\ h' \in Act(h)
    BY DEF IInv, Gesture
  <1>2. Sound(h', wanted)
    BY <1>1, ActSound
  <1> QED
    BY <1>2, Settled DEF Gesture

-----------------------------------------------------------------------------
(* The keys of the modes                                                   *)

\* Any mode may be left.
LEMMA LeaveModeKeeps ==
    ASSUME IInv, LeaveMode
    PROVE  IInv'
  <1>1. wanted \in SUBSET Outputs /\ Sound(h, wanted) /\ h' \in EnterNormal(h, wanted)
    BY DEF IInv, LeaveMode
  <1>2. Sound(h', wanted)
    BY <1>1, EnterNormalSound
  <1> QED
    BY <1>2, Settled DEF LeaveMode

\* The pointer moves: a grab has a view.
LEMMA PointerKeeps ==
    ASSUME IInv, Pointer
    PROVE  IInv'
  <1>1. wanted \in SUBSET Outputs /\ Sound(h, wanted) /\ h \in States /\ ~h.fault
    BY DEF IInv, Sound
  <1>2. CASE h.mode = "normal"
    <2>1. h' \in CursorFocus(h, wanted)
      BY <1>2 DEF Pointer
    <2>2. Sound(h', wanted)
      BY <1>1, <2>1, CursorFocusSound
    <2> QED
      BY <2>2, Settled DEF Pointer
  <1>3. CASE h.mode = "grab"
    <2>1. Subject(h) # None
      BY <1>1, <1>3 DEF Sound, ModeOk, Interactive
    <2>2. h' = h
      BY <1>1, <1>3, <2>1, NoFault DEF Pointer
    <2> QED
      BY <1>1, <2>2, Settled DEF Pointer
  <1> QED
    BY <1>2, <1>3 DEF Pointer

\* hikari_server_migrate_focus_view() keeps the focus.
LEMMA MigrateSound ==
    ASSUME NEW W \in SUBSET Outputs, NEW g, Sound(g, W), Subject(g) # None, NEW w \in W
    PROVE  Sound(Migrate(g, w), W)
  <1> DEFINE v == Subject(g)
             f == [g.focus EXCEPT ![g.cur] = None, ![w] = v]
             on == [g.on EXCEPT ![v] = w]
             s == g.shown \cup {v}
             d == [g EXCEPT !.focus = f, !.cur = w, !.on = on, !.shown = s]
  <1>1. /\ v \in Views /\ v \in g.mapped /\ v \in g.shown /\ g.on[v] = g.cur /\ g.cur \in Outputs /\ w \in Outputs
        /\ g.focus \in [Outputs -> Views \cup {None}] /\ g.on \in [Views -> Outputs]
        /\ g.shown \in SUBSET Views /\ g \in States
    BY SubjectIsHere DEF Sound, States
  <1>2. Migrate(g, w) = d
    BY <1>1 DEF Migrate, States
  <1>3. f \in [Outputs -> Views \cup {None}] /\ on \in [Views -> Outputs] /\ s \in SUBSET Views
    BY <1>1
  <1>4. s = g.shown
    BY <1>1
  <1>5. /\ f[w] = v
        /\ \A u \in Outputs \ {w} : f[u] = IF u = g.cur THEN None ELSE g.focus[u]
        /\ \A u \in Views : on[u] = IF u = v THEN w ELSE g.on[u]
    BY <1>1
  <1> HIDE DEF f, on, s, v
  <1>6. /\ d \in States /\ SameNames(g, d) /\ SameKept(g, d) /\ SameMode(g, d)
        /\ d.focus = f /\ d.cur = w /\ d.on = on /\ d.shown = s
    BY <1>1, <1>3 DEF States, SameNames, SameKept, SameMode
  <1> HIDE DEF d
  <1>7. NamesOk(d)
    BY <1>6 DEF Sound, NamesOk, SameNames
  <1>8. FocusOk(d, W)
    <2>1. \A u \in g.mapped : on[u] \in W
      BY <1>1, <1>5 DEF Sound, FocusOk, States
    <2>2. ASSUME NEW u \in Outputs, f[u] # None
          PROVE  f[u] \in s /\ on[f[u]] = u
      <3>1. CASE u = w
        BY <1>1, <1>4, <1>5, <3>1
      <3>2. CASE u # w
        <4>1. f[u] = g.focus[u] /\ u # g.cur
          BY <1>5, <2>2, <3>2
        <4>2. f[u] \in g.shown /\ g.on[f[u]] = u /\ f[u] # v
          BY <1>1, <2>2, <4>1 DEF Sound, FocusOk
        <4> QED
          BY <1>1, <1>4, <1>5, <4>2
      <3> QED
        BY <3>1, <3>2
    <2> QED
      BY <1>4, <1>6, <2>1, <2>2 DEF Sound, FocusOk, SameNames
  <1>9. ModeOk(d, W) /\ ~d.fault
    <2>1. Subject(d) # None
      BY <1>1, <1>5, <1>6, NoneAssumption DEF Subject
    <2> QED
      BY <1>6, <2>1 DEF Sound, ModeOk, SameKept, SameMode
  <1> QED
    BY <1>2, <1>6, <1>7, <1>8, <1>9 DEF Sound

\* A view is dragged to another monitor.
LEMMA DragKeeps ==
    ASSUME IInv, NEW w \in Outputs, Drag(w)
    PROVE  IInv'
  <1>1. wanted \in SUBSET Outputs /\ Sound(h, wanted) /\ w \in wanted /\ Subject(h) # None
    BY DEF IInv, Drag
  <1>2. Sound(h', wanted)
    BY <1>1, MigrateSound DEF Drag
  <1> QED
    BY <1>2, Settled DEF Drag

\* A sheet is chosen of a monitor there is.
LEMMA SheetKeyKeeps ==
    ASSUME IInv, SheetKey
    PROVE  IInv'
  <1>1. /\ wanted \in SUBSET Outputs /\ Sound(h, wanted) /\ h.mode = "sheet" /\ h.cur \in wanted
        /\ h \in States /\ ModeOk(h, wanted)
    BY DEF IInv, SheetKey, Sound, FocusOk
  <1>2. PICK w \in wanted, here \in BOOLEAN : h' = [h EXCEPT !.sheet = [ws |-> w, here |-> here]]
    BY <1>1 DEF SheetKey
  <1> DEFINE s == [ws |-> w, here |-> here]
             d == PutMode(h, "sheet", s, None, None, {}, None)
  <1>3. s \in Sheets /\ s.ws \in wanted
    BY <1>1 DEF Sheets
  <1>4. s # None
    BY <1>3, SheetAssumption DEF Sheets
  <1> HIDE DEF s
  <1>5. h' = d
    BY <1>1, <1>2 DEF ModeOk, PutMode, States, s
  <1>6. /\ Turned(h, d) /\ d.mode = "sheet" /\ d.sheet = s /\ d.target = None /\ d.typed = None
        /\ d.items = {} /\ d.pendingMark = None
    BY <1>1, <1>3, PutModeType DEF Modes, Interactive
  <1> HIDE DEF d
  <1>7. ModeOk(d, wanted)
    BY <1>1, <1>3, <1>4, <1>6 DEF ModeOk, Turned, Subject, Interactive
  <1>8. Sound(h', wanted)
    BY <1>1, <1>5, <1>6, <1>7, TurnedSound
  <1> QED
    BY <1>8, Settled DEF SheetKey

\* hikari_view_pin_to_sheet() of the focused view.
LEMMA PinSound ==
    ASSUME NEW g, wanted \subseteq Outputs, Sound(g, wanted), Subject(g) # None, NEW here \in BOOLEAN,
           NEW x \in Pin(g, here)
    PROVE  Sound(x, wanted)
  <1>1. Subject(g) \in g.shown /\ Subject(g) \in Views
    BY SubjectIsHere DEF Sound, States
  <1>2. CASE here
    <2>1. Fail(g, Subject(g) \notin g.shown) = g
      BY <1>1, NoFault DEF Sound
    <2> QED
      BY <1>2, <2>1 DEF Pin
  <1>3. CASE ~here
    <2> DEFINE gone == {Subject(g)}
               come == {}
    <2>1. x \in Rearrange(g, gone, come, wanted) /\ gone \in SUBSET Views /\ come \in SUBSET g.mapped
      BY <1>1, <1>3 DEF Pin
    <2> HIDE DEF gone, come
    <2> QED
      BY <2>1, RearrangeSound
  <1> QED
    BY <1>2, <1>3

\* confirm_sheet_assign().
LEMMA SheetConfirmKeeps ==
    ASSUME IInv, SheetConfirm
    PROVE  IInv'
  <1>1. /\ wanted \in SUBSET Outputs /\ Sound(h, wanted) /\ Subject(h) # None
        /\ h.sheet.ws \in wanted /\ h.sheet.here \in BOOLEAN
    BY DEF IInv, SheetConfirm, Sound, ModeOk, States, Sheets
  <1>2. PICK x \in IF h.sheet.ws = h.on[Subject(h)] THEN Pin(h, h.sheet.here) ELSE {Migrate(h, h.sheet.ws)} :
           h' \in EnterNormal(x, wanted)
    BY DEF SheetConfirm
  <1>3. Sound(x, wanted)
    <2>1. CASE x \in Pin(h, h.sheet.here)
      BY <1>1, <2>1, PinSound
    <2>2. CASE x = Migrate(h, h.sheet.ws)
      BY <1>1, <2>2, MigrateSound
    <2> QED
      BY <1>2, <2>1, <2>2
  <1>4. Sound(h', wanted)
    BY <1>1, <1>2, <1>3, EnterNormalSound
  <1> QED
    BY <1>4, Settled DEF SheetConfirm

PutKept(g, t, n, i) == [g EXCEPT !.target = t, !.typed = n, !.items = i]

\* What the group mode keeps may change while it lasts.
LEMMA KeepsGroup ==
    ASSUME NEW W \in SUBSET Outputs, NEW g, Sound(g, W), g.mode = "group",
           NEW t \in Names \cup {None, Freed}, NEW n \in Names \cup {None}, NEW i \in SUBSET (Names \cup {None})
    PROVE  /\ Sound(PutKept(g, t, n, i), W) /\ PutKept(g, t, n, i).mode = "group"
           /\ Subject(PutKept(g, t, n, i)) = Subject(g) /\ PutKept(g, t, n, i).groups = g.groups
  <1> DEFINE d == PutMode(g, "group", None, t, n, i, None)
  <1>1. g \in States /\ ModeOk(g, W) /\ "group" \in Modes /\ None \in Sheets \cup {None} /\ None \in Marks \cup {None}
    BY DEF Sound, Modes, Interactive
  <1>2. PutKept(g, t, n, i) = d
    BY <1>1 DEF ModeOk, PutMode, States, PutKept
  <1>3. /\ Turned(g, d) /\ d.mode = "group" /\ d.sheet = None /\ d.target = t /\ d.typed = n
        /\ d.items = i /\ d.pendingMark = None
    <2>1. Turned(g, d)
      BY <1>1, PutModeType
    <2>2. d.mode = "group" /\ d.sheet = None /\ d.pendingMark = None
      BY <1>1 DEF PutMode, States
    <2>3. d.target = t /\ d.typed = n /\ d.items = i
      BY <1>1 DEF PutMode, States
    <2> QED
      BY <2>1, <2>2, <2>3
  <1> HIDE DEF d
  <1>4. ModeOk(d, W)
    BY <1>1, <1>3 DEF ModeOk, Turned, Subject, Interactive
  <1>5. Sound(d, W)
    BY <1>3, <1>4, TurnedSound
  <1> QED
    BY <1>2, <1>3, <1>5 DEF Turned, SameNames, Subject

\* update_state() of the group mode.
LEMMA TypedSound ==
    ASSUME NEW W \in SUBSET Outputs, NEW g, Sound(g, W), g.mode = "group", NEW n \in Names \cup {None}
    PROVE  Sound(Typed(g, n), W)
  <1> DEFINE t == IF n \in g.groups THEN n ELSE None
  <1>1. g \in States /\ ~g.fault /\ g.items \in SUBSET (Names \cup {None}) /\ g.groups \subseteq Names
    BY DEF Sound, States
  <1>2. Subject(g) # None
    BY DEF Sound, ModeOk, Interactive
  <1>3. Fail(Followed(g), Subject(g) = None) = g
    BY <1>1, <1>2, FollowedIsFine, NoFault
  <1>4. Typed(g, n) = [g EXCEPT !.typed = n, !.target = t]
    BY <1>3 DEF Typed
  <1>5. t \in Names \cup {None, Freed}
    BY <1>1
  <1> HIDE DEF t
  <1>6. [g EXCEPT !.typed = n, !.target = t] = PutKept(g, t, n, g.items)
    BY <1>1 DEF States, PutKept
  <1>7. Sound(PutKept(g, t, n, g.items), W)
    BY <1>1, <1>5, KeepsGroup
  <1> QED
    BY <1>4, <1>6, <1>7

\* A letter, or a step through the completion.
LEMMA GroupKeyKeeps ==
    ASSUME IInv, GroupKey
    PROVE  IInv'
  <1>1. /\ wanted \in SUBSET Outputs /\ Sound(h, wanted) /\ h.mode = "group" /\ h \in States
        /\ h.target \in Names \cup {None, Freed} /\ h.typed \in Names \cup {None}
        /\ h.items \in SUBSET (Names \cup {None}) /\ h.groups \in SUBSET Names
    BY DEF IInv, GroupKey, Sound, States
  <1>2. PICK i \in SUBSET (Names \cup {None}), n \in Names \cup {None} : h' = Typed([h EXCEPT !.items = i], n)
    <2>1. CASE \E n \in Texts : h' = Typed([h EXCEPT !.items = {}], n)
      BY <2>1 DEF Texts
    <2>2. ASSUME NEW i \in Completions(h), NEW n \in i, h' = Typed([h EXCEPT !.items = i], n)
          PROVE  \E k \in SUBSET (Names \cup {None}), m \in Names \cup {None} :
                    h' = Typed([h EXCEPT !.items = k], m)
      <3>1. i \in SUBSET (Names \cup {None})
        BY <1>1, <2>2 DEF Completions
      <3> QED
        BY <2>2, <3>1
    <2> QED
      BY <2>1, <2>2 DEF GroupKey
  <1> DEFINE g == PutKept(h, h.target, h.typed, i)
  <1>3. [h EXCEPT !.items = i] = g
    BY <1>1 DEF States, PutKept
  <1>4. Sound(g, wanted) /\ g.mode = "group"
    <2> DEFINE t == h.target
               m == h.typed
    <2>1. t \in Names \cup {None, Freed} /\ m \in Names \cup {None}
      BY <1>1
    <2> HIDE DEF t, m
    <2>2. Sound(PutKept(h, t, m, i), wanted)
      BY <1>1, <1>2, <2>1, KeepsGroup
    <2>3. PutKept(h, t, m, i).mode = "group"
      BY <1>1 DEF PutKept, States
    <2> QED
      BY <2>2, <2>3 DEF t, m
  <1> HIDE DEF g
  <1>5. Sound(h', wanted)
    BY <1>1, <1>2, <1>3, <1>4, TypedSound
  <1> QED
    BY <1>5, Settled DEF GroupKey

\* confirm_group_assign().
LEMMA GroupConfirmKeeps ==
    ASSUME IInv, GroupConfirm
    PROVE  IInv'
  <1>1. wanted \in SUBSET Outputs /\ Sound(h, wanted) /\ h.mode = "group" /\ h.typed \in Names \cup {None}
    BY DEF IInv, GroupConfirm, Sound, States
  <1>2. Subject(h) # None
    BY <1>1 DEF Sound, ModeOk, Interactive
  <1>3. Subject(h) \in h.shown
    BY <1>1, <1>2, SubjectIsHere
  <1>4. PICK n \in Names : h' \in EnterNormal(Regroup(h, Subject(h), n), wanted)
    BY <1>1, <1>2 DEF GroupConfirm
  <1>5. Sound(Regroup(h, Subject(h), n), wanted)
    BY <1>1, <1>3, RegroupSound
  <1>6. Sound(h', wanted)
    BY <1>1, <1>4, <1>5, EnterNormalSound
  <1> QED
    BY <1>6, Settled DEF GroupConfirm

PutChoice(g, p) == [g EXCEPT !.pendingMark = p]

\* What the mark mode keeps may change while it lasts.
LEMMA KeepsMark ==
    ASSUME NEW W \in SUBSET Outputs, NEW g, Sound(g, W), g.mode = "mark", NEW p \in Marks \cup {None}
    PROVE  Sound(PutChoice(g, p), W)
  <1> DEFINE d == PutMode(g, "mark", None, None, None, {}, p)
  <1>1. /\ g \in States /\ ModeOk(g, W) /\ "mark" \in Modes /\ None \in Sheets \cup {None}
        /\ None \in Names \cup {None} /\ None \in Names \cup {None, Freed} /\ {} \in SUBSET (Names \cup {None})
    BY DEF Sound, Modes, Interactive
  <1>2. PutChoice(g, p) = d
    BY <1>1 DEF ModeOk, PutMode, States, PutChoice
  <1>3. /\ Turned(g, d) /\ d.mode = "mark" /\ d.sheet = None /\ d.target = None /\ d.typed = None
        /\ d.items = {} /\ d.pendingMark = p
    <2>1. Turned(g, d)
      BY <1>1, PutModeType
    <2>2. d.mode = "mark" /\ d.sheet = None /\ d.pendingMark = p
      BY <1>1 DEF PutMode, States
    <2>3. d.target = None /\ d.typed = None /\ d.items = {}
      BY <1>1 DEF PutMode, States
    <2> QED
      BY <2>1, <2>2, <2>3
  <1> HIDE DEF d
  <1>4. ModeOk(d, W)
    BY <1>1, <1>3 DEF ModeOk, Turned, Subject, Interactive
  <1> QED
    BY <1>2, <1>3, <1>4, TurnedSound

\* A mark is chosen.
LEMMA MarkKeyKeeps ==
    ASSUME IInv, MarkKey
    PROVE  IInv'
  <1>1. wanted \in SUBSET Outputs /\ Sound(h, wanted) /\ h.mode = "mark"
    BY DEF IInv, MarkKey
  <1>2. PICK m \in Marks \cup {None} : h' = PutChoice(h, m)
    BY DEF MarkKey, PutChoice
  <1>3. Sound(h', wanted)
    BY <1>1, <1>2, KeepsMark
  <1> QED
    BY <1>3, Settled DEF MarkKey

\* confirm_mark_assign().
LEMMA MarkConfirmKeeps ==
    ASSUME IInv, MarkConfirm
    PROVE  IInv'
  <1> DEFINE v == Subject(h)
             y == SetMark(h, h.pendingMark, v)
             x == IF h.pendingMark = None THEN Unmark(h, v) ELSE PutChoice(y, None)
  <1>1. /\ wanted \in SUBSET Outputs /\ Sound(h, wanted) /\ h.mode = "mark" /\ v # None
        /\ h.pendingMark \in Marks \cup {None}
    BY DEF IInv, MarkConfirm, Sound, States
  <1>2. v \in h.mapped /\ v \in Views
    BY <1>1, SubjectIsHere DEF Sound, States
  <1>3. h' \in EnterNormal(x, wanted)
    BY DEF MarkConfirm, PutChoice
  <1>4. Sound(x, wanted)
    <2>1. CASE h.pendingMark = None
      BY <1>1, <1>2, <2>1, UnmarkSound
    <2>2. CASE h.pendingMark # None
      <3>1. Sound(y, wanted) /\ Remarked(h, y)
        BY <1>1, <1>2, <2>2, SetMarkSound
      <3> HIDE DEF y
      <3>2. y.mode = "mark"
        BY <1>1, <3>1 DEF Remarked, SameMode
      <3>3. Sound(PutChoice(y, None), wanted)
        BY <1>1, <3>1, <3>2, KeepsMark
      <3> QED
        BY <2>2, <3>3
    <2> QED
      BY <2>1, <2>2
  <1> HIDE DEF x
  <1>5. Sound(h', wanted)
    BY <1>1, <1>3, <1>4, EnterNormalSound
  <1> QED
    BY <1>5, Settled DEF MarkConfirm

\* A mark is looked up: its view is mapped, and is shown.
LEMMA SelectKeyKeeps ==
    ASSUME IInv, NEW m \in Marks, SelectKey(m)
    PROVE  IInv'
  <1>1. wanted \in SUBSET Outputs /\ Sound(h, wanted)
    BY DEF IInv
  <1>2. PICK x \in EnterNormal(h, wanted) :
           LET v == x.marked[m] IN
           IF v = None THEN h' = x
           ELSE \E gone \in SUBSET ({u \in x.shown : x.on[u] = x.on[v]} \ {v}) :
                   h' \in {Fail(y, v \notin y.mapped) : y \in DisplaySheet(x, gone, {v} \ x.shown)}
    BY DEF SelectKey
  <1>3. Sound(x, wanted) /\ x.mode = "normal"
    BY <1>1, EnterNormalSound
  <1> DEFINE v == x.marked[m]
  <1>4. CASE v = None
    BY <1>2, <1>3, <1>4, Settled DEF SelectKey
  <1>5. CASE v # None
    <2>1. v \in x.mapped
      BY <1>1, <1>3, <1>5, MarkedIsMapped
    <2> DEFINE come == {v} \ x.shown
    <2>2. PICK gone \in SUBSET Views : \E y \in DisplaySheet(x, gone, come) : h' = Fail(y, v \notin y.mapped)
      <3>1. PICK gone \in SUBSET ({u \in x.shown : x.on[u] = x.on[v]} \ {v}) :
               h' \in {Fail(y, v \notin y.mapped) : y \in DisplaySheet(x, gone, {v} \ x.shown)}
        BY <1>2, <1>5
      <3>2. gone \in SUBSET Views
        BY <1>3 DEF Sound, States
      <3> QED
        BY <3>1, <3>2
    <2>3. PICK y \in DisplaySheet(x, gone, come) : h' = Fail(y, v \notin y.mapped)
      BY <2>2
    <2>4. come \in SUBSET x.mapped
      BY <2>1
    <2> HIDE DEF come, v
    <2>5. Sound(y, wanted) /\ Went(x, y)
      BY <1>1, <1>3, <2>3, <2>4, DisplaySheetSound
    <2>6. Fail(y, v \notin y.mapped) = y
      BY <2>1, <2>5, NoFault DEF Sound, Went, SameNames
    <2>7. Sound(h', wanted)
      BY <2>3, <2>5, <2>6
    <2> QED
      BY <2>7, Settled DEF SelectKey
  <1> QED
    BY <1>4, <1>5

\* A layout is chosen.
LEMMA LayoutKeyKeeps ==
    ASSUME IInv, LayoutKey
    PROVE  IInv'
  <1>1. wanted \in SUBSET Outputs /\ Sound(h, wanted)
    BY DEF IInv
  <1>2. PICK x \in EnterNormal(h, wanted) :
           \E come \in SUBSET {v \in x.mapped \ x.shown : x.on[v] = x.cur} : h' \in Rearrange(x, {}, come, wanted)
    BY DEF LayoutKey
  <1>3. Sound(x, wanted)
    BY <1>1, EnterNormalSound
  <1>4. PICK come \in SUBSET x.mapped : h' \in Rearrange(x, {}, come, wanted)
    BY <1>2
  <1>5. Sound(h', wanted)
    BY <1>1, <1>3, <1>4, RearrangeSound
  <1> QED
    BY <1>5, Settled DEF LayoutKey

\* The grab's own key.
LEMMA GrabKeyKeeps ==
    ASSUME Races = {}, IInv, GrabKey
    PROVE  IInv'
  <1>1. wanted \in SUBSET Outputs /\ Sound(h, wanted)
    BY DEF IInv
  <1>2. PICK x \in EnterNormal(h, wanted) :
           x.focus[h.cur] # None /\ h' \in CursorFocus(Fail(x, x.focus[h.cur] = None), wanted)
    BY DEF GrabKey
  <1>3. Sound(x, wanted) /\ x \in States /\ ~x.fault
    BY <1>1, EnterNormalSound DEF Sound
  <1>4. Fail(x, x.focus[h.cur] = None) = x
    BY <1>2, <1>3, NoFault
  <1>5. Sound(h', wanted)
    BY <1>1, <1>2, <1>3, <1>4, CursorFocusSound
  <1> QED
    BY <1>5, Settled DEF GrabKey

-----------------------------------------------------------------------------
(* The control socket                                                      *)

\* A connection that opens, sends a part of a request or closes.
LEMMA ConnectionKeeps ==
    ASSUME IInv, NEW c \in Clients, Connect(c) \/ ReadPart(c) \/ Drop(c)
    PROVE  IInv'
  <1>1. h' = h /\ wanted' = wanted /\ request' \in [Clients -> {"none", "part", None}]
    BY DEF IInv, Connect, ReadPart, Drop
  <1> QED
    BY <1>1 DEF IInv

\* handle_sheet().
LEMMA HandleSheetSound ==
    ASSUME wanted \in SUBSET Outputs, Sound(h, wanted), h.mode = "normal", NEW x \in HandleSheet(h)
    PROVE  Sound(x, wanted)
  <1>1. PICK gone \in SUBSET h.shown, come \in SUBSET h.mapped : x \in DisplaySheet(h, gone, come)
    BY DEF HandleSheet
  <1>2. gone \in SUBSET Views
    BY DEF Sound, States
  <1> QED
    BY <1>1, <1>2, DisplaySheetSound

\* A request is carried out in the normal mode only.
LEMMA DispatchKeeps ==
    ASSUME IInv, NEW c \in Clients, Dispatch(c)
    PROVE  IInv'
  <1>1. wanted \in SUBSET Outputs /\ Sound(h, wanted)
    BY DEF IInv
  <1>2. \/ h' = h
        \/ h.mode = "normal" /\ h' \in HandleSheet(h)
        \/ Subject(h) # None /\ h' \in Pin(h, TRUE) \cup Pin(h, FALSE)
    BY DEF Dispatch, CanAct, HandlePin
  <1>3. Sound(h', wanted)
    BY <1>1, <1>2, HandleSheetSound, PinSound
  <1>4. wanted' = wanted /\ request' \in [Clients -> {"none", "part", None}]
    BY DEF IInv, Dispatch
  <1> QED
    BY <1>1, <1>3, <1>4 DEF IInv

-----------------------------------------------------------------------------
(* Theorems                                                                *)

\* There is a monitor to begin with.
LEMMA InitSound == Init => IInv
  <1> SUFFICES ASSUME Init PROVE IInv
    OBVIOUS
  <1> DEFINE state(o) ==
        [mapped |-> {}, shown |-> {}, on |-> [v \in Views |-> o],
         focus |-> [w \in Outputs |-> None], cur |-> o, mode |-> "normal",
         group |-> [v \in Views |-> None], groups |-> {},
         mark |-> [v \in Views |-> None], marked |-> [m \in Marks |-> None],
         sheet |-> None, target |-> None, typed |-> None, items |-> {},
         pendingMark |-> None, pending |-> None, fault |-> FALSE]
  <1>1. PICK o \in Outputs : h = state(o)
    BY DEF Init
  <1>2. state(o) \in States
    BY DEF States, Modes
  <1>3. NamesOk(state(o))
    BY NoneAssumption DEF NamesOk
  <1>4. FocusOk(state(o), Outputs)
    BY DEF FocusOk
  <1>5. ModeOk(state(o), Outputs) /\ ~state(o).fault
    BY DEF ModeOk, Interactive
  <1>6. Sound(h, Outputs)
    BY <1>1, <1>2, <1>3, <1>4, <1>5 DEF Sound
  <1> QED
    BY <1>6 DEF Init, IInv

\* The steps, grouped as in Next.
LEMMA ClientKeeps ==
    ASSUME IInv, Client
    PROVE  IInv'
  BY MapKeeps, UnmapKeeps, AppearKeeps DEF Client

\* Monitors come and go.
LEMMA MonitorKeeps ==
    ASSUME IInv, Monitor
    PROVE  IInv'
  BY UnplugKeeps, PlugKeeps DEF Monitor

\* Bindings, switches and gestures.
LEMMA BoundKeeps ==
    ASSUME Races = {}, IInv, Bound
    PROVE  IInv'
  BY BindingKeeps, PendingActionKeeps, SwitchKeeps, GestureKeeps DEF Bound

\* The keys of the modes.
LEMMA KeysKeeps ==
    ASSUME Races = {}, IInv, Keys
    PROVE  IInv'
  <1>1. CASE LeaveMode \/ Pointer \/ SheetKey \/ SheetConfirm
    BY <1>1, LeaveModeKeeps, PointerKeeps, SheetKeyKeeps, SheetConfirmKeeps
  <1>2. CASE GroupKey \/ GroupConfirm \/ MarkKey \/ MarkConfirm
    BY <1>2, GroupKeyKeeps, GroupConfirmKeeps, MarkKeyKeeps, MarkConfirmKeeps
  <1>3. CASE LayoutKey \/ GrabKey
    BY <1>3, LayoutKeyKeeps, GrabKeyKeeps
  <1>4. CASE \E w \in Outputs : Drag(w)
    BY <1>4, DragKeeps
  <1>5. CASE \E m \in Marks : SelectKey(m)
    BY <1>5, SelectKeyKeeps
  <1> QED
    BY <1>1, <1>2, <1>3, <1>4, <1>5 DEF Keys

\* Connections and their requests.
LEMMA SocketKeeps ==
    ASSUME IInv, Socket
    PROVE  IInv'
  BY ConnectionKeeps, DispatchKeeps DEF Socket

\* The invariant, without the orders of events that break it: the state every handler finds and
\* leaves is sound, whatever mode is on when clients, monitors, switches or requests intervene.
THEOREM StaysSound ==
    ASSUME Races = {}
    PROVE  Spec => []IInv
  <1>1. Init => IInv
    BY InitSound
  <1>2. IInv /\ [Next]_vars => IInv'
    <2> SUFFICES ASSUME IInv, [Next]_vars PROVE IInv'
      OBVIOUS
    <2>1. CASE Client
      BY <2>1, ClientKeeps
    <2>2. CASE StartDrag
      BY <2>2, StartDragKeeps
    <2>3. CASE Monitor
      BY <2>3, MonitorKeeps
    <2>4. CASE Bound
      BY <2>4, BoundKeeps
    <2>5. CASE Keys
      BY <2>5, KeysKeeps
    <2>6. CASE Socket
      BY <2>6, SocketKeeps
    <2>7. CASE UNCHANGED vars
      BY <2>7 DEF vars, IInv
    <2> QED
      BY <2>1, <2>2, <2>3, <2>4, <2>5, <2>6, <2>7 DEF Next
  <1> QED
    BY <1>1, <1>2, PTL DEF Spec

\* A sound state has the properties the run checks.
LEMMA SoundIsEnough ==
    ASSUME IInv
    PROVE  ModesAreSound /\ NamesAgree
  <1>1. Sound(h, wanted) /\ h \in States /\ NamesOk(h) /\ FocusOk(h, wanted) /\ ModeOk(h, wanted)
    BY DEF IInv, Sound
  <1>2. TypeOK
    BY <1>1 DEF TypeOK, IInv, States, FocusOk
  <1>3. SubjectStays
    BY <1>1, SubjectIsHere DEF SubjectStays, ModeOk, IInv
  <1>4. NothingLeftBehind
    BY <1>1 DEF NothingLeftBehind, ModeOk
  <1>5. NamesAgree
    BY <1>1 DEF NamesAgree, NamesOk
  <1> QED
    BY <1>1, <1>2, <1>3, <1>4, <1>5 DEF ModesAreSound, Sound

\* No handler of a mode follows a NULL pointer, one to a freed group or configuration, or fails an
\* assertion; a mode keeps the view it works on, and leaves nothing behind however it ends.
THEOREM ModesStaySound ==
    ASSUME Races = {}
    PROVE  Spec => []ModesAreSound
  BY StaysSound, SoundIsEnough, PTL

\* Views, groups and marks refer to each other: mark.c and group.c keep no name of a view that is
\* gone and lose none of one that is there.
THEOREM NamesStayAgreed ==
    ASSUME Races = {}
    PROVE  Spec => []NamesAgree
  BY StaysSound, SoundIsEnough, PTL
=============================================================================
