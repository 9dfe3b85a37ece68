--------------------------- MODULE XWindowsProofs ---------------------------
(***************************************************************************)
(* Theorems about XWindows, for any windows, surfaces and outputs: the      *)
(* wrappers first, but for the order of events that XWindows names          *)
(* "withdrawn"; then where windows are, and how they travel.               *)
(*                                                                         *)
(* The handlers are functions of the world, and so are the lemmas: `Same'   *)
(* relates two worlds that differ in where windows are on their outputs,    *)
(* `Only' two that differ in one window, `Ok' says of one window that its   *)
(* wrapper is sound, and `Lit' of an output that a wrapper may be on it.     *)
(* Each helper and each action is shown to keep what it does not concern    *)
(* and to end with its window sound.                                       *)
(***************************************************************************)
EXTENDS XWindows, TLAPS

\* The worlds of the handlers.
Motions == [flying : BOOLEAN, placed : BOOLEAN, from : Int, drawn : Int, age : 0 .. Duration - 1]

XStates == [alive : BOOLEAN, override : BOOLEAN, surface : Surfaces \cup {None}, mapped : BOOLEAN, at : Int]

Wraps ==
    [kind : {"none", "managed", "unmanaged"}, out : Everywhere \cup {None}, known : BOOLEAN,
     mapped : BOOLEAN, listed : Everywhere \cup {None}, heard : Surfaces \cup {None},
     commit : Surfaces \cup {None}, tree : Surfaces \cup {None}, geo : Int, node : Int,
     motion : Motions, pending : {None} \cup [geo : Int, own : BOOLEAN], owes : BOOLEAN]

Screens == [plugged : BOOLEAN, on : BOOLEAN, due : BOOLEAN, at : Int]

Worlds ==
    [x : [Windows -> XStates], wrap : [Windows -> Wraps], out : [Everywhere -> Screens],
     ws : Everywhere, fault : BOOLEAN]

\* What a wrapper hears and where it is listed, but not where it is.
SameWrap(r, q) ==
    /\ q.kind = r.kind /\ q.out = r.out /\ q.mapped = r.mapped /\ q.listed = r.listed
    /\ q.heard = r.heard /\ q.commit = r.commit /\ q.tree = r.tree

SameX(r, q) ==
    q.alive = r.alive /\ q.override = r.override /\ q.surface = r.surface /\ q.mapped = r.mapped

SameScreens(h, g) ==
    \A o \in Everywhere : g.out[o].plugged = h.out[o].plugged /\ g.out[o].on = h.out[o].on

Same(h, g) ==
    /\ g \in Worlds /\ g.ws = h.ws /\ g.fault = h.fault
    /\ SameScreens(h, g)
    /\ \A w \in Windows : SameWrap(h.wrap[w], g.wrap[w]) /\ SameX(h.x[w], g.x[w])

\* The output of a wrapper has a place.
LEMMA OriginIsInt ==
    ASSUME NEW h \in Worlds, NEW w \in Windows, h.wrap[w].out # None
    PROVE  Origin(h, w) \in Int
  BY DEF Worlds, Wraps, Screens, Origin

\* So has a window, wherever a client wants it.
LEMMA SpotIsInt ==
    ASSUME NEW a \in Spots
    PROVE  a \in Int
  <1>1. PICK p \in Places, d \in 0 .. Width - 1 : a = p + d
    BY DEF Spots
  <1>2. p \in Int /\ d \in Int
    BY SpaceAssumption
  <1> QED
    BY <1>1, <1>2

\* A handler's assignments, field by field, amount to these.
PutWrap(h, w, r) == [h EXCEPT !.wrap[w] = r]
PutX(h, w, r) == [h EXCEPT !.x[w] = r]

\* A world with another wrapper of one window.
LEMMA PutWrapType ==
    ASSUME NEW h \in Worlds, NEW w \in Windows, NEW r \in Wraps
    PROVE  LET d == PutWrap(h, w, r) IN
           /\ d \in Worlds
           /\ d.x = h.x /\ d.out = h.out /\ d.ws = h.ws /\ d.fault = h.fault
           /\ d.wrap[w] = r /\ \A v \in Windows \ {w} : d.wrap[v] = h.wrap[v]
  BY DEF PutWrap, Worlds

\* A world with another state of one window of X.
LEMMA PutXType ==
    ASSUME NEW h \in Worlds, NEW w \in Windows, NEW r \in XStates
    PROVE  LET d == PutX(h, w, r) IN
           /\ d \in Worlds
           /\ d.wrap = h.wrap /\ d.out = h.out /\ d.ws = h.ws /\ d.fault = h.fault
           /\ d.x[w] = r /\ \A v \in Windows \ {w} : d.x[v] = h.x[v]
  BY DEF PutX, Worlds

\* A wrapper may be moved.
LEMMA SamePut ==
    ASSUME NEW h \in Worlds, NEW w \in Windows, NEW r \in Wraps, SameWrap(h.wrap[w], r)
    PROVE  Same(h, PutWrap(h, w, r))
  BY PutWrapType DEF Same, SameScreens, SameWrap, SameX

\* A world with another state of one output.
LEMMA PutOutType ==
    ASSUME NEW h \in Worlds, NEW o \in Everywhere, NEW s \in Screens
    PROVE  LET d == [h EXCEPT !.out[o] = s] IN
           /\ d \in Worlds
           /\ d.wrap = h.wrap /\ d.x = h.x /\ d.ws = h.ws /\ d.fault = h.fault
           /\ d.out[o] = s /\ \A p \in Everywhere \ {o} : d.out[p] = h.out[p]
  BY DEF Worlds

\* `Same' is transitive.
LEMMA SameTrans ==
    ASSUME NEW g, NEW h, NEW d, Same(g, h), Same(h, d)
    PROVE  Same(g, d)
  BY DEF Same, SameScreens, SameWrap, SameX

\* Nothing moves if nothing happens.
LEMMA SameSelf ==
    ASSUME NEW h \in Worlds
    PROVE  Same(h, h)
  BY DEF Same, SameScreens, SameWrap, SameX

-----------------------------------------------------------------------------
(* Motion                                                                  *)

\* A motion begins before it ends.
LEMMA StartOfClock == 0 \in 0 .. Duration - 1
  BY SpaceAssumption

\* X may be told another place.
LEMMA SamePutX ==
    ASSUME NEW h \in Worlds, NEW w \in Windows, NEW r \in XStates, SameX(h.x[w], r)
    PROVE  Same(h, PutX(h, w, r))
  BY PutXType DEF Same, SameScreens, SameWrap, SameX

\* hikari_animation_move() that declines.
LEMMA SnapKeeps ==
    ASSUME NEW h \in Worlds, NEW w \in Windows, NEW g \in Int, h.wrap[w].out # None
    PROVE  Same(h, Snap(h, w, g))
  <1>1. Origin(h, w) \in Int /\ Origin(h, w) + g \in Int
    BY OriginIsInt
  <1> DEFINE m == [flying |-> FALSE, placed |-> TRUE, from |-> g, drawn |-> g, age |-> 0]
             at == Origin(h, w) + g
             r == [h.wrap[w] EXCEPT !.geo = g, !.node = at, !.motion = m]
  <1>2. m \in Motions
    BY SpaceAssumption DEF Motions
  <1>3. Snap(h, w, g) = PutWrap(h, w, r)
    BY DEF Snap, PutWrap, Worlds, Wraps
  <1>4. h.wrap[w] \in Wraps
    BY DEF Worlds
  <1> HIDE DEF m, at
  <1>5. r \in Wraps /\ SameWrap(h.wrap[w], r)
    BY <1>1, <1>2, <1>4 DEF Wraps, SameWrap, at
  <1> QED
    BY <1>3, <1>5, SamePut

\* hikari_output_add_damage().
LEMMA ScheduledKeeps ==
    ASSUME NEW h \in Worlds, NEW o \in Everywhere
    PROVE  Same(h, Scheduled(h, o)) /\ Scheduled(h, o).wrap = h.wrap
  <1> DEFINE s == [h.out[o] EXCEPT !.due = @ \/ h.out[o].on]
  <1>1. h.out[o] \in Screens
    BY DEF Worlds
  <1>2. Scheduled(h, o) = [h EXCEPT !.out[o] = s]
    BY DEF Scheduled, Worlds, Screens
  <1>3. s \in Screens /\ s.plugged = h.out[o].plugged /\ s.on = h.out[o].on
    BY <1>1 DEF Screens
  <1> HIDE DEF s
  <1> QED
    BY <1>2, <1>3, PutOutType DEF Same, SameScreens, SameWrap, SameX

\* hikari_animation_move() of a window that may travel.
LEMMA FlyKeeps ==
    ASSUME NEW h \in Worlds, NEW w \in Windows, NEW g \in Int, h.wrap[w].out # None
    PROVE  Same(h, Fly(h, w, g))
  <1> DEFINE o == h.wrap[w].out
             k == Scheduled(h, o)
             m == [h.wrap[w].motion EXCEPT !.flying = TRUE, !.from = h.wrap[w].motion.drawn, !.age = 0]
             r == [h.wrap[w] EXCEPT !.geo = g, !.motion = m]
  <1>1. h.wrap[w] \in Wraps /\ h.wrap[w].motion \in Motions /\ o \in Everywhere
    BY DEF Worlds, Wraps
  <1>2. m \in Motions
    BY <1>1, StartOfClock DEF Motions
  <1>3. Same(h, k) /\ k.wrap = h.wrap /\ k \in Worlds
    BY <1>1, ScheduledKeeps DEF Same
  <1>4. Fly(h, w, g) = PutWrap(k, w, r)
    <2>1. Fly(h, w, g) = [k EXCEPT !.wrap[w].geo = g, !.wrap[w].motion = m]
      BY DEF Fly
    <2> HIDE DEF m, k
    <2> QED
      BY ZenonT(60), <1>1, <1>3, <2>1 DEF PutWrap, Worlds, Wraps
  <1> HIDE DEF m, k
  <1>5. r \in Wraps /\ SameWrap(h.wrap[w], r)
    BY <1>1, <1>2 DEF Wraps, SameWrap
  <1>6. Same(k, PutWrap(k, w, r))
    BY <1>3, <1>5, SamePut
  <1> QED
    BY <1>3, <1>4, <1>6, SameTrans

\* hikari_view_refresh_geometry().
LEMMA RefreshKeeps ==
    ASSUME NEW h \in Worlds, NEW w \in Windows, NEW g \in Int, h.wrap[w].out # None, NEW may \in BOOLEAN
    PROVE  Same(h, Refresh(h, w, g, may))
  <1> DEFINE at == Origin(h, w) + g
             r == [h.wrap[w] EXCEPT !.node = at]
  <1>1. at \in Int /\ h.wrap[w] \in Wraps
    BY OriginIsInt DEF Worlds
  <1>2. [h EXCEPT !.wrap[w].node = Origin(h, w) + g] = PutWrap(h, w, r)
    BY DEF PutWrap, Worlds, Wraps
  <1> HIDE DEF at
  <1>3. r \in Wraps /\ SameWrap(h.wrap[w], r)
    BY <1>1 DEF Wraps, SameWrap
  <1>4. Same(h, [h EXCEPT !.wrap[w].node = Origin(h, w) + g])
    BY <1>2, <1>3, SamePut
  <1> QED
    BY <1>4, FlyKeeps, SnapKeeps DEF Refresh

\* hikari_animation_cancel().
LEMMA CancelKeeps ==
    ASSUME NEW h \in Worlds, NEW w \in Windows, h.wrap[w].out # None
    PROVE  Same(h, Cancel(h, w))
  <1> DEFINE at == IF h.wrap[w].motion.flying THEN Origin(h, w) + h.wrap[w].geo ELSE h.wrap[w].node
             r == [h.wrap[w] EXCEPT !.node = at, !.motion = Still]
  <1>1. h.wrap[w] \in Wraps /\ Origin(h, w) \in Int
    BY OriginIsInt DEF Worlds
  <1>2. at \in Int
    BY <1>1 DEF Wraps
  <1>3. Cancel(h, w) = PutWrap(h, w, r)
    BY DEF Cancel, PutWrap, Worlds, Wraps
  <1>4. Still \in Motions
    BY SpaceAssumption DEF Still, Motions
  <1> HIDE DEF at
  <1>5. r \in Wraps /\ SameWrap(h.wrap[w], r)
    BY <1>1, <1>2, <1>4 DEF Wraps, SameWrap
  <1> QED
    BY <1>3, <1>5, SamePut

\* A window half way is somewhere.
LEMMA PositionIsInt ==
    ASSUME NEW m \in Motions, NEW to \in Int, NEW age \in 0 .. Duration
    PROVE  Position([m EXCEPT !.age = age], to) \in Int
  <1>1. m.from \in Int /\ to - m.from \in Int /\ Duration \in Nat \ {0} /\ age \in Int
    BY SpaceAssumption DEF Motions
  <1>2. ((to - m.from) * age) \in Int /\ ((-(to - m.from)) * age) \in Int
    BY <1>1
  <1>3. ((to - m.from) * age) \div Duration \in Int /\ ((-(to - m.from)) * age) \div Duration \in Int
    BY <1>1, <1>2
  <1> QED
    BY <1>1, <1>3 DEF Position, Motions

\* The part of hikari_animation_tick() for one window.
LEMMA TickedKeeps ==
    ASSUME NEW h \in Worlds, NEW w \in Windows, h.wrap[w].out # None,
           NEW age \in 1 .. Duration, NEW may \in BOOLEAN
    PROVE  Same(h, Ticked(h, w, age, may))
  <1> DEFINE m == [h.wrap[w].motion EXCEPT !.age = age]
             landed == ~may \/ age = Duration
             here == IF landed THEN h.wrap[w].geo ELSE Position(m, h.wrap[w].geo)
             after == IF landed THEN [m EXCEPT !.flying = FALSE, !.drawn = here, !.from = here, !.age = 0]
                      ELSE [m EXCEPT !.drawn = here]
             at == Origin(h, w) + here
             r == [h.wrap[w] EXCEPT !.node = at, !.motion = after]
  <1>1. h.wrap[w] \in Wraps /\ h.wrap[w].motion \in Motions /\ h.wrap[w].geo \in Int /\ Origin(h, w) \in Int
    BY OriginIsInt DEF Worlds, Wraps
  <1>2. here \in Int
    BY <1>1, PositionIsInt
  <1>3. Ticked(h, w, age, may) = PutWrap(h, w, r)
    <2>1. Ticked(h, w, age, may) = [h EXCEPT !.wrap[w].node = at, !.wrap[w].motion = after]
      BY DEF Ticked
    <2> HIDE DEF at, after
    <2> QED
      BY <2>1 DEF PutWrap, Worlds, Wraps
  <1> HIDE DEF here
  <1>4. at \in Int
    BY <1>1, <1>2
  <1>5. after \in Motions
    <2>1. CASE landed
      BY <1>1, <1>2, <2>1, StartOfClock DEF Motions
    <2>2. CASE ~landed
      <3>1. age \in 0 .. Duration - 1
        BY <2>2, SpaceAssumption
      <3> QED
        BY <1>1, <1>2, <2>2, <3>1 DEF Motions
    <2> QED
      BY <2>1, <2>2
  <1> HIDE DEF at, after
  <1>6. r \in Wraps /\ SameWrap(h.wrap[w], r)
    BY <1>1, <1>4, <1>5 DEF Wraps, SameWrap
  <1> QED
    BY <1>3, <1>6, SamePut

-----------------------------------------------------------------------------
(* Wrappers.  A handler of an X client concerns one window.                *)

\* An output that a wrapper may be on.
Lit(h, o) == o \in Everywhere /\ h.out[o].plugged /\ (o = Fallback \/ h.out[o].on)

Only(h, g, w) ==
    /\ g \in Worlds /\ g.ws = h.ws /\ g.fault = h.fault
    /\ SameScreens(h, g) /\ SameX(h.x[w], g.x[w])
    /\ \A v \in Windows \ {w} : SameWrap(h.wrap[v], g.wrap[v]) /\ SameX(h.x[v], g.x[v])

\* Where nothing but places change, one window's is among them.
LEMMA SameIsOnly ==
    ASSUME NEW h, NEW g, NEW w \in Windows, Same(h, g)
    PROVE  Only(h, g, w) /\ SameWrap(h.wrap[w], g.wrap[w])
  BY DEF Same, Only

\* `Only' is transitive.
LEMMA OnlyTrans ==
    ASSUME NEW g, NEW h, NEW d, NEW w \in Windows, Only(g, h, w), Only(h, d, w)
    PROVE  Only(g, d, w)
  <1>1. d \in Worlds /\ d.ws = g.ws /\ d.fault = g.fault
    BY DEF Only
  <1>2. SameScreens(g, d)
    BY DEF Only, SameScreens
  <1>3. SameX(g.x[w], d.x[w])
    BY DEF Only, SameX
  <1>4. ASSUME NEW v \in Windows \ {w}
        PROVE  SameWrap(g.wrap[v], d.wrap[v]) /\ SameX(g.x[v], d.x[v])
    <2>1. SameWrap(g.wrap[v], h.wrap[v]) /\ SameWrap(h.wrap[v], d.wrap[v])
          /\ SameX(g.x[v], h.x[v]) /\ SameX(h.x[v], d.x[v])
      BY DEF Only
    <2> QED
      BY <2>1 DEF SameWrap, SameX
  <1> QED
    BY <1>1, <1>2, <1>3, <1>4 DEF Only

\* A wrapper is one window's.
LEMMA OnlyPut ==
    ASSUME NEW h \in Worlds, NEW w \in Windows, NEW r \in Wraps
    PROVE  Only(h, PutWrap(h, w, r), w) /\ PutWrap(h, w, r).wrap[w] = r /\ PutWrap(h, w, r).x = h.x
  BY PutWrapType DEF Only, SameScreens, SameWrap, SameX

\* A wrapper may stay on its output while the outputs do.
LEMMA LitKept ==
    ASSUME NEW h, NEW g, NEW o, SameScreens(h, g), Lit(h, o)
    PROVE  Lit(g, o)
  BY DEF Lit, SameScreens

\* A handler that follows a wrapper's output finds it.
LEMMA FollowKeeps ==
    ASSUME NEW h \in Worlds, NEW w \in Windows, Lit(h, h.wrap[w].out)
    PROVE  Follow(h, w) = h
  BY DEF Follow, Lit, Worlds

\* No wrapper is one, too.
LEMMA NoWrapType == NoWrap \in Wraps
  BY StartOfClock DEF NoWrap, Still, Wraps, Motions

\* The surface is heard, and displayed if no other is.
LEMMA AttachKeeps ==
    ASSUME NEW h \in Worlds, NEW w \in Windows
    PROVE  LET d == Attach(h, w) IN
           /\ Only(h, d, w)
           /\ d.wrap[w].heard = h.x[w].surface
           /\ d.wrap[w].tree = IF h.wrap[w].tree = None THEN h.x[w].surface ELSE h.wrap[w].tree
           /\ d.wrap[w].kind = h.wrap[w].kind /\ d.wrap[w].out = h.wrap[w].out
           /\ d.wrap[w].mapped = h.wrap[w].mapped /\ d.wrap[w].listed = h.wrap[w].listed
           /\ d.wrap[w].commit = h.wrap[w].commit
  <1> DEFINE s == h.x[w].surface
             tree == IF h.wrap[w].tree = None THEN s ELSE h.wrap[w].tree
             node == IF h.wrap[w].tree = None THEN h.x[w].at ELSE h.wrap[w].node
             q == [h.wrap[w] EXCEPT !.heard = s, !.tree = tree]
             f == PutWrap(h, w, q)
             r == [q EXCEPT !.node = node]
  <1>1. h.wrap[w] \in Wraps /\ h.x[w] \in XStates
    BY DEF Worlds
  <1>2. s \in Surfaces \cup {None} /\ tree \in Surfaces \cup {None} /\ node \in Int
    BY <1>1 DEF Wraps, XStates
  <1>3. AttachView(h, w) = f
    BY DEF AttachView, PutWrap, Worlds, Wraps
  <1>4. AttachMenu(h, w) = [f EXCEPT !.wrap[w].node = IF h.wrap[w].tree = None THEN h.x[w].at ELSE @]
    BY <1>3 DEF AttachMenu
  <1> HIDE DEF s, tree, node
  <1>5. /\ q \in Wraps /\ q.heard = s /\ q.tree = tree
        /\ q.kind = h.wrap[w].kind /\ q.out = h.wrap[w].out /\ q.mapped = h.wrap[w].mapped
        /\ q.listed = h.wrap[w].listed /\ q.commit = h.wrap[w].commit /\ q.node = h.wrap[w].node
    BY ZenonT(60), <1>1, <1>2 DEF Wraps
  <1>6. Only(h, f, w) /\ f.wrap[w] = q /\ f \in Worlds
    BY <1>5, OnlyPut DEF Only
  <1> HIDE DEF q, f
  <1>7. r \in Wraps /\ SameWrap(q, r)
    BY <1>2, <1>5 DEF Wraps, SameWrap
  <1>8. AttachMenu(h, w) = PutWrap(f, w, r)
    BY <1>4, <1>5, <1>6 DEF PutWrap, Worlds, Wraps, node
  <1>9. Only(h, PutWrap(f, w, r), w) /\ PutWrap(f, w, r).wrap[w] = r
    BY <1>6, <1>7, OnlyPut, OnlyTrans
  <1>10. Attach(h, w) \in {f, PutWrap(f, w, r)}
    BY <1>3, <1>8 DEF Attach
  <1> HIDE DEF r
  <1> QED
    BY <1>5, <1>6, <1>7, <1>9, <1>10 DEF SameWrap, s, tree

\* What mapping makes of a wrapper.
MappedTo(h, g, w) ==
    /\ Only(h, g, w)
    /\ g.wrap[w].mapped /\ g.wrap[w].commit = h.x[w].surface
    /\ g.wrap[w].listed = g.wrap[w].out /\ Lit(g, g.wrap[w].out)
    /\ g.wrap[w].kind = h.wrap[w].kind
    /\ g.wrap[w].heard = h.wrap[w].heard /\ g.wrap[w].tree = h.wrap[w].tree

\* hikari_geometry_constrain_absolute() yields a place.
LEMMA ConstrainIsInt ==
    ASSUME NEW o, NEW g \in Int
    PROVE  Constrain(o, g) \in Int
  BY SpaceAssumption DEF Constrain

\* first_map(): the window goes to the current workspace.
LEMMA FirstMapKeeps ==
    ASSUME NEW h \in Worlds, NEW w \in Windows, Lit(h, h.ws), Lit(h, h.wrap[w].out),
           NEW g \in FirstMap(h, w)
    PROVE  /\ Only(h, g, w) /\ g.wrap[w].out = h.ws
           /\ g.wrap[w].kind = h.wrap[w].kind
           /\ g.wrap[w].heard = h.wrap[w].heard /\ g.wrap[w].tree = h.wrap[w].tree
  <1>1. Follow(h, w) = h
    BY FollowKeeps
  <1>2. h.wrap[w] \in Wraps /\ h.x[w] \in XStates /\ h.ws \in Everywhere /\ h.out[h.ws].at \in Int
    BY DEF Worlds, Screens
  <1> DEFINE r == [h.wrap[w] EXCEPT !.known = TRUE, !.out = h.ws, !.owes = FALSE]
             c(a) == [h.x[w] EXCEPT !.at = h.out[h.ws].at + a]
             k(a) == PutX(PutWrap(h, w, r), w, c(a))
  <1>3. r \in Wraps
    BY <1>2 DEF Wraps
  <1>4. PICK d \in 0 .. Width - 1 : g = Snap(k(Constrain(h.ws, d)), w, Constrain(h.ws, d))
    <2>1. ASSUME NEW at
          PROVE  [h EXCEPT !.wrap[w].known = TRUE, !.wrap[w].out = h.ws, !.wrap[w].owes = FALSE,
                           !.x[w].at = at] = PutX(PutWrap(h, w, r), w, [h.x[w] EXCEPT !.at = at])
      BY ZenonT(60) DEF PutX, PutWrap, Worlds, Wraps, XStates
    <2> QED
      BY <1>1, <2>1 DEF FirstMap
  <1> DEFINE a == Constrain(h.ws, d)
  <1>5. a \in Int /\ h.out[h.ws].at + a \in Int
    BY <1>2, ConstrainIsInt
  <1>6. c(a) \in XStates /\ SameX(h.x[w], c(a))
    BY <1>2, <1>5 DEF XStates, SameX
  <1> DEFINE f == PutWrap(h, w, r)
  <1>7. f \in Worlds /\ Only(h, f, w) /\ f.wrap[w] = r /\ f.x = h.x
    BY <1>3, OnlyPut DEF Only
  <1> HIDE DEF r, f
  <1>8. k(a) = PutX(f, w, c(a))
    BY DEF f
  <1> HIDE DEF c
  <1>9. Only(f, PutX(f, w, c(a)), w) /\ PutX(f, w, c(a)).wrap = f.wrap
    BY ZenonT(60), <1>6, <1>7, PutXType DEF Only, SameScreens, SameWrap, SameX
  <1>10. Only(h, k(a), w) /\ k(a).wrap[w] = r /\ k(a) \in Worlds
    BY <1>7, <1>8, <1>9, OnlyTrans DEF Only
  <1>11. /\ r.out = h.ws /\ r.kind = h.wrap[w].kind
         /\ r.heard = h.wrap[w].heard /\ r.tree = h.wrap[w].tree
    BY <1>2 DEF r, Wraps
  <1>12. h.ws # None
    BY <1>2, NoneAssumption DEF Everywhere
  <1> HIDE DEF k, a
  <1>13. Same(k(a), Snap(k(a), w, a))
    BY <1>5, <1>10, <1>11, <1>12, SnapKeeps
  <1>14. g = Snap(k(a), w, a)
    BY <1>4 DEF a
  <1>15. Only(k(a), g, w) /\ SameWrap(r, g.wrap[w])
    BY <1>10, <1>13, <1>14, SameIsOnly
  <1> QED
    BY <1>10, <1>11, <1>15, OnlyTrans DEF SameWrap

\* map() of a view.
LEMMA MapViewKeeps ==
    ASSUME NEW h \in Worlds, NEW w \in Windows, Lit(h, h.ws), Lit(h, h.wrap[w].out),
           NEW g \in MapView(h, w)
    PROVE  MappedTo(h, g, w)
  <1>1. PICK k \in IF h.wrap[w].known THEN {h} ELSE FirstMap(h, w) :
           g = [Follow(k, w) EXCEPT !.wrap[w].commit = k.x[w].surface, !.wrap[w].mapped = TRUE,
                                    !.wrap[w].listed = k.wrap[w].out]
    BY DEF MapView
  <1>2. /\ Only(h, k, w) /\ Lit(h, k.wrap[w].out) /\ k.wrap[w].kind = h.wrap[w].kind
        /\ k.wrap[w].heard = h.wrap[w].heard /\ k.wrap[w].tree = h.wrap[w].tree
    <2>1. CASE k = h
      BY <2>1, SameSelf, SameIsOnly
    <2>2. CASE k \in FirstMap(h, w)
      BY <2>2, FirstMapKeeps
    <2> QED
      BY <1>1, <2>1, <2>2
  <1>3. k \in Worlds /\ Lit(k, k.wrap[w].out) /\ k.x[w].surface = h.x[w].surface
    BY <1>2, LitKept DEF Only, SameX
  <1>4. Follow(k, w) = k
    BY <1>3, FollowKeeps
  <1> DEFINE r == [k.wrap[w] EXCEPT !.commit = k.x[w].surface, !.mapped = TRUE, !.listed = k.wrap[w].out]
  <1>5. g = PutWrap(k, w, r)
    BY <1>1, <1>3, <1>4 DEF PutWrap, Worlds, Wraps
  <1>6. k.wrap[w] \in Wraps /\ k.x[w].surface \in Surfaces \cup {None}
    BY <1>3 DEF Worlds, XStates
  <1>7. r \in Wraps /\ r.mapped /\ r.commit = k.x[w].surface /\ r.listed = r.out
        /\ r.out = k.wrap[w].out /\ r.kind = k.wrap[w].kind
        /\ r.heard = k.wrap[w].heard /\ r.tree = k.wrap[w].tree
    BY <1>6 DEF Wraps
  <1> HIDE DEF r
  <1>8. Only(k, g, w) /\ g.wrap[w] = r
    BY <1>3, <1>5, <1>7, OnlyPut
  <1>9. Only(h, g, w)
    BY <1>2, <1>8, OnlyTrans
  <1>10. Lit(g, g.wrap[w].out)
    BY <1>3, <1>7, <1>8, LitKept DEF Only
  <1> QED
    BY <1>2, <1>3, <1>7, <1>8, <1>9, <1>10 DEF MappedTo

\* map_unmanaged().
LEMMA MapMenuKeeps ==
    ASSUME NEW h \in Worlds, NEW w \in Windows, Lit(h, h.wrap[w].out), ~h.wrap[w].mapped,
           NEW g \in MapMenu(h, w)
    PROVE  MappedTo(h, g, w)
  <1> DEFINE at == h.x[w].at
             s == h.x[w].surface
             o == h.wrap[w].out
             geo == at - Origin(h, w)
             r == [h.wrap[w] EXCEPT !.commit = s, !.mapped = TRUE, !.listed = o, !.geo = geo, !.node = at]
  <1>1. h.wrap[w] \in Wraps /\ h.x[w] \in XStates /\ h.wrap[w].out # None
    BY NoneAssumption DEF Worlds, Lit, Everywhere
  <1>2. geo \in Int /\ at \in Int /\ s \in Surfaces \cup {None} /\ o \in Everywhere
    BY <1>1, OriginIsInt DEF XStates, Lit
  <1>3. g = PutWrap(h, w, r)
    <2>1. Follow(h, w) = h
      BY FollowKeeps
    <2> DEFINE k == [h EXCEPT !.wrap[w].commit = s, !.wrap[w].mapped = TRUE, !.wrap[w].listed = o]
               q == [h.wrap[w] EXCEPT !.commit = s, !.mapped = TRUE, !.listed = o]
    <2>2. g = [k EXCEPT !.wrap[w].geo = geo, !.wrap[w].node = at]
      BY <2>1 DEF MapMenu
    <2> HIDE DEF geo, at, s, o
    <2>3. k = PutWrap(h, w, q)
      BY ZenonT(60), <1>1 DEF PutWrap, Worlds, Wraps
    <2>4. q \in Wraps
      BY <1>1, <1>2 DEF Wraps
    <2>5. r = [q EXCEPT !.geo = geo, !.node = at]
      OBVIOUS
    <2> HIDE DEF k, q
    <2>6. k.wrap[w] = q /\ k \in Worlds
      BY <2>3, <2>4, PutWrapType
    <2>7. g = PutWrap(k, w, r)
      BY <2>2, <2>5, <2>6 DEF PutWrap, Worlds, Wraps
    <2> QED
      BY <2>3, <2>7 DEF PutWrap, Worlds
  <1> HIDE DEF geo, at, s
  <1>4. r \in Wraps /\ r.mapped /\ r.commit = s /\ r.listed = r.out
        /\ r.out = h.wrap[w].out /\ r.kind = h.wrap[w].kind
        /\ r.heard = h.wrap[w].heard /\ r.tree = h.wrap[w].tree
    BY <1>1, <1>2 DEF Wraps
  <1> HIDE DEF r
  <1>5. Only(h, g, w) /\ g.wrap[w] = r
    BY <1>3, <1>4, OnlyPut
  <1>6. Lit(g, g.wrap[w].out)
    BY <1>4, <1>5, LitKept DEF Only
  <1> QED
    BY <1>4, <1>5, <1>6 DEF MappedTo, s

\* Mapping a wrapper of either kind.
LEMMA MapWrapKeeps ==
    ASSUME NEW h \in Worlds, NEW w \in Windows, Lit(h, h.ws), Lit(h, h.wrap[w].out),
           ~h.wrap[w].mapped, NEW g \in MapWrap(h, w)
    PROVE  MappedTo(h, g, w)
  BY MapViewKeeps, MapMenuKeeps DEF MapWrap

\* What unmapping makes of a wrapper.
UnmappedTo(h, g, w) ==
    /\ Only(h, g, w)
    /\ ~g.wrap[w].mapped /\ g.wrap[w].commit = None /\ g.wrap[w].listed = None
    /\ g.wrap[w].kind = h.wrap[w].kind /\ g.wrap[w].out = h.wrap[w].out
    /\ g.wrap[w].heard = h.wrap[w].heard /\ g.wrap[w].tree = h.wrap[w].tree

\* A hidden wrapper is listed nowhere and hears no commits.
HiddenIsOut(r) == ~r.mapped => r.commit = None /\ r.listed = None

\* unmap() of a menu.
LEMMA UnmapMenuKeeps ==
    ASSUME NEW h \in Worlds, NEW w \in Windows, Lit(h, h.wrap[w].out), HiddenIsOut(h.wrap[w])
    PROVE  UnmappedTo(h, UnmapMenu(h, w), w)
  <1> DEFINE r == [h.wrap[w] EXCEPT !.mapped = FALSE, !.commit = None, !.listed = None]
  <1>1. h.wrap[w] \in Wraps
    BY DEF Worlds
  <1>2. CASE h.wrap[w].mapped
    <2>1. UnmapMenu(h, w) = PutWrap(h, w, r)
      BY <1>2, FollowKeeps DEF UnmapMenu, PutWrap, Worlds, Wraps
    <2>2. /\ r \in Wraps /\ ~r.mapped /\ r.commit = None /\ r.listed = None
          /\ r.out = h.wrap[w].out /\ r.kind = h.wrap[w].kind
          /\ r.heard = h.wrap[w].heard /\ r.tree = h.wrap[w].tree
      BY <1>1 DEF Wraps
    <2> HIDE DEF r
    <2> QED
      BY <2>1, <2>2, OnlyPut DEF UnmappedTo
  <1>3. CASE ~h.wrap[w].mapped
    BY <1>3, SameSelf, SameIsOnly DEF UnmapMenu, UnmappedTo, HiddenIsOut
  <1> QED
    BY <1>2, <1>3

\* unmap() of a view.
LEMMA UnmapViewKeeps ==
    ASSUME NEW h \in Worlds, NEW w \in Windows, Lit(h, h.wrap[w].out), HiddenIsOut(h.wrap[w])
    PROVE  UnmappedTo(h, UnmapView(h, w), w)
  <1> DEFINE k == Cancel(h, w)
             u == UnmapMenu(k, w)
             owes == u.wrap[w].owes \/ h.wrap[w].pending # None
             r == [u.wrap[w] EXCEPT !.pending = None, !.owes = owes]
  <1>1. h.wrap[w].out # None
    BY NoneAssumption DEF Lit, Everywhere
  <1>2. Same(h, k) /\ k \in Worlds /\ Only(h, k, w) /\ SameWrap(h.wrap[w], k.wrap[w])
    BY <1>1, CancelKeeps, SameIsOnly DEF Same
  <1>3. Lit(k, k.wrap[w].out) /\ HiddenIsOut(k.wrap[w])
    BY <1>2, LitKept DEF Same, SameWrap, HiddenIsOut
  <1> HIDE DEF k
  <1>4. UnmappedTo(k, u, w)
    BY <1>2, <1>3, UnmapMenuKeeps
  <1>5. u \in Worlds /\ u.wrap[w] \in Wraps
    BY <1>4 DEF UnmappedTo, Only, Worlds
  <1>6. UnmapView(h, w) = PutWrap(u, w, r)
    <2>1. UnmapView(h, w) = [u EXCEPT !.wrap[w].pending = None,
                                      !.wrap[w].owes = @ \/ h.wrap[w].pending # None]
      BY DEF UnmapView, k
    <2> HIDE DEF u
    <2> QED
      BY ZenonT(60), <1>5, <2>1 DEF PutWrap, Worlds, Wraps
  <1> HIDE DEF u, owes
  <1>7. owes \in BOOLEAN
    BY <1>5 DEF Wraps, owes
  <1>8. r \in Wraps /\ SameWrap(u.wrap[w], r)
    BY <1>5, <1>7 DEF Wraps, SameWrap
  <1>9. Only(u, PutWrap(u, w, r), w) /\ PutWrap(u, w, r).wrap[w] = r
    BY <1>5, <1>8, OnlyPut
  <1>10. Only(h, PutWrap(u, w, r), w)
    BY <1>2, <1>4, <1>9, OnlyTrans DEF UnmappedTo
  <1> HIDE DEF r
  <1> QED
    BY <1>2, <1>4, <1>6, <1>8, <1>9, <1>10 DEF UnmappedTo, SameWrap

\* Unmapping a wrapper of either kind.
LEMMA UnmapWrapKeeps ==
    ASSUME NEW h \in Worlds, NEW w \in Windows, Lit(h, h.wrap[w].out), HiddenIsOut(h.wrap[w])
    PROVE  UnmappedTo(h, UnmapWrap(h, w), w)
  BY UnmapViewKeeps, UnmapMenuKeeps DEF UnmapWrap

\* A wrapper that is destroyed concerns its window only.
LEMMA DestroyWrapKeeps ==
    ASSUME NEW h \in Worlds, NEW w \in Windows, Lit(h, h.wrap[w].out), HiddenIsOut(h.wrap[w])
    PROVE  Only(h, DestroyWrap(h, w), w) /\ DestroyWrap(h, w).wrap[w] = NoWrap
  <1> DEFINE u == UnmapWrap(h, w)
  <1>1. Only(h, u, w) /\ u \in Worlds
    BY UnmapWrapKeeps DEF UnmappedTo, Only
  <1>2. DestroyWrap(h, w) = PutWrap(u, w, NoWrap)
    BY DEF DestroyWrap, PutWrap
  <1> HIDE DEF u
  <1> QED
    BY <1>1, <1>2, NoWrapType, OnlyPut, OnlyTrans

\* What a wrapper is to its window, and where it is listed.
Ok(h, w) ==
    LET r == h.wrap[w]
        s == h.x[w]
    IN  /\ r.heard = s.surface /\ r.tree = s.surface
        /\ r.commit = IF r.mapped THEN s.surface ELSE None
        /\ r.mapped = s.mapped
        /\ r.kind = IF ~s.alive THEN "none" ELSE IF s.override THEN "unmanaged" ELSE "managed"
        /\ r.kind # "none" => Lit(h, r.out)
        /\ r.listed = IF r.mapped THEN r.out ELSE None
        /\ ~s.alive => s.surface = None
        /\ s.surface = None => ~s.mapped

\* A new wrapper hears and displays the surface that is there already.
LEMMA WrappedKeeps ==
    ASSUME NEW h \in Worlds, NEW w \in Windows, Lit(h, h.ws)
    PROVE  LET d == Wrapped(h, w) IN
           /\ Only(h, d, w)
           /\ d.wrap[w].heard = h.x[w].surface /\ d.wrap[w].tree = h.x[w].surface
           /\ d.wrap[w].kind = IF h.x[w].override THEN "unmanaged" ELSE "managed"
           /\ d.wrap[w].out = h.ws
           /\ ~d.wrap[w].mapped /\ d.wrap[w].listed = None /\ d.wrap[w].commit = None
  <1> DEFINE kind == IF h.x[w].override THEN "unmanaged" ELSE "managed"
             r == [NoWrap EXCEPT !.kind = kind, !.out = h.ws]
             f == PutWrap(h, w, r)
  <1>1. h.ws \in Everywhere
    BY DEF Worlds
  <1>2. /\ r \in Wraps /\ r.kind = kind /\ r.out = h.ws /\ ~r.mapped /\ r.listed = None
        /\ r.commit = None /\ r.heard = None /\ r.tree = None
    BY ZenonT(60), <1>1, NoWrapType DEF NoWrap, Wraps
  <1>3. Wrapped(h, w) = IF h.x[w].surface = None THEN f ELSE Attach(f, w)
    BY DEF Wrapped, PutWrap
  <1> HIDE DEF r
  <1>4. Only(h, f, w) /\ f.wrap[w] = r /\ f.x = h.x /\ f \in Worlds
    BY <1>2, OnlyPut DEF Only
  <1> HIDE DEF f
  <1>5. CASE h.x[w].surface = None
    BY <1>2, <1>3, <1>4, <1>5
  <1>6. CASE h.x[w].surface # None
    <2> DEFINE d == Attach(f, w)
    <2>1. /\ Only(f, d, w)
          /\ d.wrap[w].heard = f.x[w].surface /\ d.wrap[w].tree = f.x[w].surface
          /\ d.wrap[w].kind = r.kind /\ d.wrap[w].out = r.out
          /\ d.wrap[w].mapped = r.mapped /\ d.wrap[w].listed = r.listed /\ d.wrap[w].commit = r.commit
      BY <1>2, <1>4, AttachKeeps
    <2>2. Only(h, d, w)
      BY <1>4, <2>1, OnlyTrans
    <2> HIDE DEF d
    <2> QED
      BY <1>2, <1>3, <1>4, <1>6, <2>1, <2>2 DEF d
  <1> QED
    BY <1>5, <1>6

\* hikari_server_adopt_xwayland_surface() ends with a sound wrapper, mapped or not.
LEMMA AdoptIsOk ==
    ASSUME NEW h \in Worlds, NEW w \in Windows, Lit(h, h.ws), h.x[w].alive,
           h.x[w].surface = None => ~h.x[w].mapped, NEW g \in Adopt(h, w)
    PROVE  Only(h, g, w) /\ Ok(g, w)
  <1> DEFINE k == Wrapped(h, w)
  <1>1. /\ Only(h, k, w) /\ k \in Worlds
        /\ k.wrap[w].heard = h.x[w].surface /\ k.wrap[w].tree = h.x[w].surface
        /\ k.wrap[w].kind = IF h.x[w].override THEN "unmanaged" ELSE "managed"
        /\ k.wrap[w].out = h.ws
        /\ ~k.wrap[w].mapped /\ k.wrap[w].listed = None /\ k.wrap[w].commit = None
    BY WrappedKeeps DEF Only
  <1> HIDE DEF k
  <1>2. Lit(k, k.ws) /\ Lit(k, k.wrap[w].out)
    BY <1>1, LitKept DEF Only
  <1>3. SameX(h.x[w], k.x[w]) /\ h.x[w] \in XStates
    BY <1>1 DEF Only, Worlds
  <1>4. CASE h.x[w].mapped
    <2>1. g \in MapWrap(k, w)
      BY <1>4 DEF Adopt, k
    <2>2. MappedTo(k, g, w)
      BY <1>1, <1>2, <2>1, MapWrapKeeps
    <2>3. Only(h, g, w) /\ SameX(h.x[w], g.x[w])
      BY <1>1, <2>2, OnlyTrans DEF MappedTo, Only
    <2> QED
      BY <1>1, <1>3, <1>4, <2>2, <2>3 DEF MappedTo, Ok, SameX, XStates
  <1>5. CASE ~h.x[w].mapped
    <2>1. g = k
      BY <1>5 DEF Adopt, k
    <2>2. k.wrap[w].mapped = FALSE /\ k.x[w].mapped = FALSE /\ k.x[w].alive
      BY <1>1, <1>3, <1>5 DEF SameX, Worlds, Wraps, XStates
    <2> QED
      BY <2>2, <1>1, <1>2, <1>3, <1>5, <2>1 DEF Ok, SameX, XStates
  <1> QED
    BY <1>4, <1>5

-----------------------------------------------------------------------------
(* The whole state                                                         *)

ScreensOk(h) ==
    /\ h \in Worlds /\ ~h.fault /\ Lit(h, h.ws) /\ Lit(h, Fallback)
    /\ \A o \in Outputs : h.out[o].on => h.out[o].plugged

Sound(h) == ScreensOk(h) /\ \A w \in Windows : Ok(h, w)

\* The state with one window in the middle of a handler.
Rest(h, w) == ScreensOk(h) /\ \A v \in Windows \ {w} : Ok(h, v)

WrappersOk == Sound(World) /\ awake \in BOOLEAN

\* A wrapper stays sound while others change.
LEMMA OkKept ==
    ASSUME NEW h, NEW g, NEW w \in Windows, Ok(h, w), SameScreens(h, g),
           SameWrap(h.wrap[w], g.wrap[w]), SameX(h.x[w], g.x[w])
    PROVE  Ok(g, w)
  BY DEF Ok, SameWrap, SameX, Lit, SameScreens

\* The outputs stay as they are while wrappers change.
LEMMA ScreensKept ==
    ASSUME NEW h, NEW g, ScreensOk(h), g \in Worlds, g.ws = h.ws, g.fault = h.fault, SameScreens(h, g)
    PROVE  ScreensOk(g)
  BY LitKept DEF ScreensOk, SameScreens, Everywhere

\* A handler that ends with its window sound ends with all sound.
LEMMA RestIsSound ==
    ASSUME NEW h, NEW g, NEW w \in Windows, Rest(h, w), Only(h, g, w), Ok(g, w)
    PROVE  Sound(g)
  BY ScreensKept, OkKept DEF Rest, Only, Sound

\* Moving windows about disturbs nothing.
LEMMA SameIsSound ==
    ASSUME NEW h, NEW g, Sound(h), Same(h, g)
    PROVE  Sound(g)
  BY ScreensKept, OkKept DEF Same, Sound

\* What X reports of a window concerns no other.
LEMMA PutXRests ==
    ASSUME NEW h, NEW w \in Windows, NEW r \in XStates, Sound(h)
    PROVE  /\ Rest(PutX(h, w, r), w) /\ PutX(h, w, r) \in Worlds
           /\ PutX(h, w, r).x[w] = r /\ PutX(h, w, r).wrap = h.wrap
           /\ PutX(h, w, r).ws = h.ws /\ SameScreens(h, PutX(h, w, r))
  <1> DEFINE d == PutX(h, w, r)
  <1>1. h \in Worlds
    BY DEF Sound, ScreensOk
  <1>2. /\ d \in Worlds /\ d.wrap = h.wrap /\ d.out = h.out /\ d.ws = h.ws /\ d.fault = h.fault
        /\ d.x[w] = r /\ \A v \in Windows \ {w} : d.x[v] = h.x[v]
    BY <1>1, PutXType
  <1> HIDE DEF d
  <1>3. SameScreens(h, d)
    BY <1>2 DEF SameScreens
  <1>4. ScreensOk(d)
    BY <1>2, <1>3, ScreensKept DEF Sound
  <1>5. \A v \in Windows \ {w} : Ok(d, v)
    BY <1>2, <1>3, OkKept DEF Sound, SameWrap, SameX
  <1> QED
    BY <1>2, <1>3, <1>4, <1>5 DEF Rest, d

\* A handler's end is the next state.
LEMMA Became == \A h \in Worlds : Becomes(h) => World' = h /\ awake' = awake
  BY DEF Becomes, World, Worlds

\* A handler that ends in a sound world is a good step.
LEMMA SoundStep == \A h : WrappersOk /\ Sound(h) /\ Becomes(h) => WrappersOk'
  <1> SUFFICES ASSUME NEW h, WrappersOk, Sound(h), Becomes(h)
               PROVE  WrappersOk'
    OBVIOUS
  <1>1. World' = h /\ awake' = awake
    BY Became DEF Sound, ScreensOk
  <1>2. Sound(World')
    BY <1>1
  <1> QED
    BY <1>1, <1>2 DEF WrappersOk

\* Without windows all is sound.
LEMMA InitOk == Init => WrappersOk
  <1> SUFFICES ASSUME Init
               PROVE  WrappersOk
    OBVIOUS
  <1>1. NoWindow \in XStates /\ NoWrap \in Wraps
    BY NoWrapType DEF NoWindow, XStates
  <1>2. World \in Worlds
    <2>1. x \in [Windows -> XStates] /\ wrap \in [Windows -> Wraps]
      BY <1>1 DEF Init
    <2>2. out \in [Everywhere -> Screens]
      BY DEF Init, Screens
    <2>3. ws \in Everywhere /\ fault \in BOOLEAN
      BY DEF Init, Everywhere
    <2> QED
      BY <2>1, <2>2, <2>3 DEF World, Worlds
  <1>3. ScreensOk(World)
    BY <1>2, NoneAssumption DEF Init, World, ScreensOk, Lit, Everywhere
  <1>4. \A w \in Windows : Ok(World, w)
    BY DEF Init, World, Ok, NoWindow, NoWrap
  <1> QED
    BY <1>3, <1>4 DEF Sound, WrappersOk, Init

\* What every window and the screens have, at the start of a handler.
LEMMA AtFirst ==
    ASSUME WrappersOk, NEW w \in Windows
    PROVE  /\ World \in Worlds /\ Sound(World) /\ Ok(World, w)
           /\ World.x = x /\ World.wrap = wrap /\ World.out = out /\ World.ws = ws /\ World.fault = fault
           /\ x[w] \in XStates /\ wrap[w] \in Wraps
           /\ Lit(World, ws) /\ HiddenIsOut(wrap[w])
           /\ x[w].alive => Lit(World, wrap[w].out)
  <1>1. World \in Worlds /\ Sound(World) /\ Ok(World, w)
    BY DEF WrappersOk, Sound, ScreensOk
  <1>2. World.x = x /\ World.wrap = wrap /\ World.out = out /\ World.ws = ws /\ World.fault = fault
    BY DEF World
  <1>3. x[w] \in XStates /\ wrap[w] \in Wraps
    BY <1>1, <1>2 DEF Worlds
  <1>4. HiddenIsOut(wrap[w])
    BY <1>1, <1>2 DEF Ok, HiddenIsOut
  <1>5. x[w].alive => Lit(World, wrap[w].out)
    BY <1>1, <1>2, <1>3 DEF Ok, XStates
  <1> QED
    BY <1>1, <1>2, <1>3, <1>4, <1>5 DEF Sound, ScreensOk

-----------------------------------------------------------------------------
(* X clients                                                               *)

\* new_xwayland_surface_handler().
LEMMA NewKeeps ==
    ASSUME WrappersOk, NEW w \in Windows, NEW override \in BOOLEAN,
           NEW s \in Surfaces \cup {None}, New(w, override, s)
    PROVE  WrappersOk'
  <1>1. PICK a \in Spots : \E g \in Adopt([World EXCEPT !.x[w] =
                [NoWindow EXCEPT !.alive = TRUE, !.override = override, !.surface = s, !.at = a]], w) :
                Becomes(g)
    BY DEF New
  <1> DEFINE r == [NoWindow EXCEPT !.alive = TRUE, !.override = override, !.surface = s, !.at = a]
             h == PutX(World, w, r)
  <1>2. a \in Int
    BY SpotIsInt
  <1>3. r \in XStates /\ r.alive /\ ~r.mapped
    BY <1>2 DEF XStates, NoWindow
  <1>4. PICK g \in Adopt(h, w) : Becomes(g)
    BY <1>1 DEF PutX
  <1> HIDE DEF r
  <1>5. /\ Rest(h, w) /\ h \in Worlds /\ h.x[w] = r /\ Lit(h, h.ws)
    BY <1>3, AtFirst, PutXRests DEF Rest, ScreensOk
  <1> HIDE DEF h
  <1>6. Only(h, g, w) /\ Ok(g, w)
    BY <1>3, <1>4, <1>5, AdoptIsOk
  <1> QED
    BY <1>4, <1>5, <1>6, RestIsSound, SoundStep

\* associate_handler().
LEMMA AssociateKeeps ==
    ASSUME WrappersOk, NEW w \in Windows, NEW s \in Surfaces, Associate(w, s)
    PROVE  WrappersOk'
  <1> DEFINE r == [x[w] EXCEPT !.surface = s]
             h == PutX(World, w, r)
             d == Attach(h, w)
  <1>1. /\ x[w].alive /\ x[w].surface = None /\ x[w] \in XStates /\ Ok(World, w)
        /\ World.x = x /\ World.wrap = wrap /\ World \in Worlds /\ Sound(World)
    BY AtFirst DEF Associate
  <1>2. r \in XStates /\ r.alive = x[w].alive /\ r.override = x[w].override
        /\ r.mapped = x[w].mapped /\ r.surface = s
    BY <1>1 DEF XStates
  <1>3. [World EXCEPT !.x[w].surface = s] = h
    BY <1>1 DEF PutX, Worlds, XStates
  <1>4. Becomes(d)
    BY <1>3 DEF Associate
  <1> HIDE DEF r
  <1>5. Rest(h, w) /\ h \in Worlds /\ h.x[w] = r /\ h.wrap = wrap /\ SameScreens(World, h)
    BY <1>1, <1>2, PutXRests
  <1> HIDE DEF h
  <1>6. /\ Only(h, d, w)
        /\ d.wrap[w].heard = s
        /\ d.wrap[w].tree = IF wrap[w].tree = None THEN s ELSE wrap[w].tree
        /\ d.wrap[w].kind = wrap[w].kind /\ d.wrap[w].out = wrap[w].out
        /\ d.wrap[w].mapped = wrap[w].mapped /\ d.wrap[w].listed = wrap[w].listed
        /\ d.wrap[w].commit = wrap[w].commit
    BY <1>2, <1>5, AttachKeeps
  <1> HIDE DEF d
  <1>7. wrap[w].tree = None /\ ~wrap[w].mapped /\ Lit(World, wrap[w].out) /\ wrap[w] \in Wraps
    BY <1>1, AtFirst DEF Ok, XStates
  <1>8. Lit(d, wrap[w].out)
    BY <1>5, <1>6, <1>7, LitKept DEF Only
  <1>9. Ok(d, w)
    BY <1>1, <1>2, <1>5, <1>6, <1>7, <1>8, NoneAssumption DEF Ok, Only, SameX
  <1> QED
    BY <1>4, <1>5, <1>6, <1>9, RestIsSound, SoundStep

\* map_handler().
LEMMA MapXKeeps ==
    ASSUME WrappersOk, NEW w \in Windows, MapX(w)
    PROVE  WrappersOk'
  <1> DEFINE r == [x[w] EXCEPT !.mapped = TRUE]
             h == PutX(World, w, r)
  <1>1. /\ x[w].surface # None /\ ~x[w].mapped /\ x[w] \in XStates /\ Ok(World, w)
        /\ World.x = x /\ World.wrap = wrap /\ World.ws = ws /\ World \in Worlds /\ Sound(World)
        /\ wrap[w] \in Wraps
    BY AtFirst DEF MapX
  <1>2. r \in XStates /\ r.alive = x[w].alive /\ r.override = x[w].override
        /\ r.mapped /\ r.surface = x[w].surface
    BY <1>1 DEF XStates
  <1>3. [World EXCEPT !.x[w].mapped = TRUE] = h
    BY <1>1 DEF PutX, Worlds, XStates
  <1>4. x[w].alive /\ wrap[w].heard = x[w].surface /\ ~wrap[w].mapped /\ Lit(World, wrap[w].out)
    BY <1>1, AtFirst DEF Ok, XStates
  <1>5. PICK g \in MapWrap(h, w) : Becomes(g)
    BY <1>3, <1>4 DEF MapX
  <1> HIDE DEF r
  <1>6. Rest(h, w) /\ h \in Worlds /\ h.x[w] = r /\ h.wrap = wrap /\ SameScreens(World, h) /\ h.ws = ws
    BY <1>1, <1>2, PutXRests
  <1> HIDE DEF h
  <1>7. Lit(h, h.ws) /\ Lit(h, h.wrap[w].out)
    BY <1>1, <1>4, <1>6, LitKept, AtFirst
  <1>8. MappedTo(h, g, w)
    BY <1>4, <1>5, <1>6, <1>7, MapWrapKeeps
  <1>9. Ok(g, w)
    BY <1>1, <1>2, <1>4, <1>6, <1>8 DEF Ok, MappedTo, Only, SameX, XStates, Worlds
  <1> QED
    BY <1>5, <1>6, <1>8, <1>9, RestIsSound, SoundStep DEF MappedTo

\* unmap_handler().
LEMMA UnmapXKeeps ==
    ASSUME WrappersOk, NEW w \in Windows, UnmapX(w)
    PROVE  WrappersOk'
  <1> DEFINE r == [x[w] EXCEPT !.mapped = FALSE]
             h == PutX(World, w, r)
             g == UnmapWrap(h, w)
  <1>1. /\ x[w].mapped /\ x[w] \in XStates /\ Ok(World, w)
        /\ World.x = x /\ World.wrap = wrap /\ World \in Worlds /\ Sound(World)
        /\ wrap[w] \in Wraps /\ HiddenIsOut(wrap[w])
    BY AtFirst DEF UnmapX
  <1>2. r \in XStates /\ r.alive = x[w].alive /\ r.override = x[w].override
        /\ ~r.mapped /\ r.surface = x[w].surface
    BY <1>1 DEF XStates
  <1>3. [World EXCEPT !.x[w].mapped = FALSE] = h
    BY <1>1 DEF PutX, Worlds, XStates
  <1>4. x[w].alive /\ wrap[w].heard = x[w].surface /\ Lit(World, wrap[w].out)
    BY <1>1, AtFirst DEF Ok, XStates
  <1>5. Becomes(g)
    BY <1>3, <1>4 DEF UnmapX
  <1> HIDE DEF r
  <1>6. Rest(h, w) /\ h \in Worlds /\ h.x[w] = r /\ h.wrap = wrap /\ SameScreens(World, h)
    BY <1>1, <1>2, PutXRests
  <1> HIDE DEF h
  <1>7. Lit(h, h.wrap[w].out)
    BY <1>1, <1>4, <1>6, LitKept
  <1>8. UnmappedTo(h, g, w)
    BY <1>1, <1>6, <1>7, UnmapWrapKeeps
  <1> HIDE DEF g
  <1>9. Lit(g, wrap[w].out) /\ g \in Worlds /\ g.wrap[w] \in Wraps /\ g.x[w] \in XStates
    BY <1>6, <1>7, <1>8, LitKept DEF UnmappedTo, Only, Worlds
  <1>10. Ok(g, w)
    BY <1>1, <1>2, <1>4, <1>6, <1>8, <1>9 DEF Ok, UnmappedTo, Only, SameX, XStates, Wraps
  <1> QED
    BY <1>5, <1>6, <1>8, <1>10, RestIsSound, SoundStep DEF UnmappedTo

\* dissociate_handler().
LEMMA DissociateKeeps ==
    ASSUME WrappersOk, NEW w \in Windows, Dissociate(w)
    PROVE  WrappersOk'
  <1> DEFINE u == UnmapWrap(World, w)
             q == [u.wrap[w] EXCEPT !.heard = None, !.tree = None]
             k == PutWrap(u, w, q)
             r == [k.x[w] EXCEPT !.surface = None, !.mapped = FALSE]
             g == PutX(k, w, r)
  <1>1. /\ x[w].surface # None /\ x[w] \in XStates /\ Ok(World, w)
        /\ World.x = x /\ World.wrap = wrap /\ World \in Worlds /\ Sound(World)
        /\ wrap[w] \in Wraps /\ HiddenIsOut(wrap[w])
    BY AtFirst DEF Dissociate
  <1>2. x[w].alive /\ Lit(World, wrap[w].out)
    BY <1>1, AtFirst DEF Ok, XStates
  <1>3. UnmappedTo(World, u, w)
    BY <1>1, <1>2, UnmapWrapKeeps
  <1>4. Becomes([[u EXCEPT !.wrap[w].heard = None, !.wrap[w].tree = None]
                    EXCEPT !.x[w].surface = None, !.x[w].mapped = FALSE])
    BY DEF Dissociate, Dissociated
  <1> HIDE DEF u
  <1>5. u \in Worlds /\ u.wrap[w] \in Wraps
    BY <1>3 DEF UnmappedTo, Only, Worlds
  <1>6. [u EXCEPT !.wrap[w].heard = None, !.wrap[w].tree = None] = k
    BY <1>5 DEF PutWrap, Worlds, Wraps
  <1>7. /\ q \in Wraps /\ q.heard = None /\ q.tree = None /\ q.kind = u.wrap[w].kind
        /\ q.out = u.wrap[w].out /\ q.mapped = u.wrap[w].mapped /\ q.listed = u.wrap[w].listed
        /\ q.commit = u.wrap[w].commit
    BY <1>5 DEF Wraps
  <1> HIDE DEF q
  <1>8. Only(u, k, w) /\ k.wrap[w] = q /\ k.x = u.x /\ k \in Worlds
    BY <1>5, <1>7, OnlyPut DEF Only
  <1> HIDE DEF k
  <1>9. Only(World, k, w) /\ SameX(x[w], k.x[w]) /\ k.x[w] \in XStates
    BY <1>1, <1>3, <1>8, OnlyTrans DEF UnmappedTo, Only, Worlds
  <1>10. [k EXCEPT !.x[w].surface = None, !.x[w].mapped = FALSE] = g
    BY <1>8, <1>9 DEF PutX, Worlds, XStates
  <1>11. Becomes(g)
    BY <1>4, <1>6, <1>10
  <1>12. /\ r \in XStates /\ r.surface = None /\ ~r.mapped
         /\ r.alive = x[w].alive /\ r.override = x[w].override
    BY <1>9 DEF XStates, SameX
  <1> HIDE DEF r
  <1>13. /\ g \in Worlds /\ g.wrap = k.wrap /\ g.out = k.out /\ g.ws = k.ws /\ g.fault = k.fault
         /\ g.x[w] = r /\ \A v \in Windows \ {w} : g.x[v] = k.x[v]
    BY <1>8, <1>12, PutXType
  <1> HIDE DEF g
  <1>14. SameScreens(World, g)
    BY <1>9, <1>13 DEF Only, SameScreens
  <1>15. ScreensOk(g)
    BY <1>1, <1>9, <1>13, <1>14, ScreensKept DEF Sound, Only
  <1>16. \A v \in Windows \ {w} : Ok(g, v)
    BY <1>1, <1>9, <1>13, <1>14, OkKept DEF Sound, Only
  <1>17. Lit(g, wrap[w].out)
    BY <1>2, <1>14, LitKept
  <1>18. Ok(g, w)
    <2>1. q.mapped = FALSE /\ r.mapped = FALSE /\ q.commit = None /\ q.listed = None
      BY <1>3, <1>5, <1>7, <1>12 DEF UnmappedTo, Wraps, XStates
    <2>2. q.kind = wrap[w].kind /\ q.out = wrap[w].out
      BY <1>1, <1>3, <1>7 DEF UnmappedTo
    <2> QED
      BY ZenonT(60), <1>1, <1>2, <1>7, <1>8, <1>12, <1>13, <1>17, <2>1, <2>2 DEF Ok
  <1>19. Sound(g)
    BY <1>15, <1>16, <1>18 DEF Sound
  <1> QED
    BY <1>11, <1>19, SoundStep

\* destroy_handler().
LEMMA DestroyKeeps ==
    ASSUME WrappersOk, NEW w \in Windows, Destroy(w)
    PROVE  WrappersOk'
  <1> DEFINE k == DestroyWrap(World, w)
             g == PutX(k, w, NoWindow)
  <1>1. /\ Lit(World, wrap[w].out) /\ World.wrap = wrap /\ World \in Worlds /\ Sound(World)
        /\ HiddenIsOut(wrap[w])
    BY AtFirst DEF Destroy
  <1>2. Only(World, k, w) /\ k.wrap[w] = NoWrap /\ k \in Worlds
    BY <1>1, DestroyWrapKeeps DEF Only
  <1>3. Becomes(g)
    BY DEF Destroy, PutX
  <1> HIDE DEF k
  <1>4. NoWindow \in XStates
    BY DEF NoWindow, XStates
  <1>5. /\ g \in Worlds /\ g.wrap = k.wrap /\ g.out = k.out /\ g.ws = k.ws /\ g.fault = k.fault
        /\ g.x[w] = NoWindow /\ \A v \in Windows \ {w} : g.x[v] = k.x[v]
    BY <1>2, <1>4, PutXType
  <1> HIDE DEF g
  <1>6. SameScreens(World, g)
    BY <1>2, <1>5 DEF Only, SameScreens
  <1>7. ScreensOk(g)
    BY <1>1, <1>2, <1>5, <1>6, ScreensKept DEF Sound, Only
  <1>8. \A v \in Windows \ {w} : Ok(g, v)
    BY <1>1, <1>2, <1>5, <1>6, OkKept DEF Sound, Only
  <1>9. Ok(g, w)
    <2>1. /\ NoWrap.kind = "none" /\ NoWrap.heard = None /\ NoWrap.tree = None
          /\ NoWrap.commit = None /\ NoWrap.listed = None /\ NoWrap.mapped = FALSE
      BY DEF NoWrap
    <2>2. NoWindow.alive = FALSE /\ NoWindow.surface = None /\ NoWindow.mapped = FALSE
      BY DEF NoWindow
    <2> QED
      BY <1>2, <1>5, <2>1, <2>2 DEF Ok
  <1>10. Sound(g)
    BY <1>7, <1>8, <1>9 DEF Sound
  <1> QED
    BY <1>3, <1>10, SoundStep

\* set_override_redirect_handler().
LEMMA SetOverrideKeeps ==
    ASSUME WrappersOk, NEW w \in Windows, SetOverride(w)
    PROVE  WrappersOk'
  <1> DEFINE r == [x[w] EXCEPT !.override = ~x[w].override]
             h == PutX(World, w, r)
             k == DestroyWrap(h, w)
  <1>1. /\ x[w].alive /\ x[w] \in XStates /\ Ok(World, w) /\ Lit(World, wrap[w].out)
        /\ World.x = x /\ World.wrap = wrap /\ World.ws = ws /\ World \in Worlds /\ Sound(World)
        /\ HiddenIsOut(wrap[w]) /\ Lit(World, ws)
    BY AtFirst DEF SetOverride
  <1>2. /\ r \in XStates /\ r.alive /\ r.mapped = x[w].mapped /\ r.surface = x[w].surface
    BY <1>1 DEF XStates
  <1>3. [World EXCEPT !.x[w].override = ~@] = h
    BY <1>1 DEF PutX, Worlds, XStates
  <1>4. PICK g \in Adopt(k, w) : Becomes(g)
    BY <1>3 DEF SetOverride
  <1> HIDE DEF r
  <1>5. Rest(h, w) /\ h \in Worlds /\ h.x[w] = r /\ h.wrap = wrap /\ SameScreens(World, h) /\ h.ws = ws
    BY <1>1, <1>2, PutXRests
  <1> HIDE DEF h
  <1>6. Lit(h, h.wrap[w].out) /\ Lit(h, ws)
    BY <1>1, <1>5, LitKept
  <1>7. Only(h, k, w) /\ k \in Worlds
    BY <1>1, <1>5, <1>6, DestroyWrapKeeps DEF Only
  <1> HIDE DEF k
  <1>8. Lit(k, k.ws) /\ k.x[w].alive /\ (k.x[w].surface = None => ~k.x[w].mapped)
    BY <1>1, <1>2, <1>5, <1>6, <1>7, LitKept DEF Only, SameX, Ok
  <1>9. Only(k, g, w) /\ Ok(g, w)
    BY <1>4, <1>7, <1>8, AdoptIsOk
  <1>10. Only(h, g, w)
    BY <1>7, <1>9, OnlyTrans
  <1> QED
    BY <1>4, <1>5, <1>9, <1>10, RestIsSound, SoundStep

\* request_configure_handler().
LEMMA ConfigureKeeps ==
    ASSUME WrappersOk, NEW w \in Windows, NEW a \in Spots, Configure(w, a)
    PROVE  WrappersOk'
  <1> DEFINE o == IF wrap[w].known THEN wrap[w].out ELSE ws
             kept == out[o].at + Constrain(o, a - out[o].at)
             p == [x[w] EXCEPT !.at = a]
             r == [x[w] EXCEPT !.at = kept]
             q == [wrap[w] EXCEPT !.owes = TRUE]
             h == PutX(World, w, r)
  <1>1. /\ x[w].alive /\ x[w] \in XStates /\ wrap[w] \in Wraps /\ Lit(World, wrap[w].out)
        /\ World.x = x /\ World.wrap = wrap /\ World.ws = ws /\ World.out = out /\ World.fault = fault
        /\ World \in Worlds /\ Sound(World) /\ Lit(World, ws)
    BY AtFirst DEF Configure
  <1>2. Lit(World, o) /\ out[o].at \in Int /\ a \in Int /\ fault = FALSE /\ out[o].plugged
    BY <1>1, SpotIsInt DEF Lit, Worlds, Screens, Sound, ScreensOk
  <1>3. kept \in Int
    BY <1>2, ConstrainIsInt
  <1>4. CASE wrap[w].kind # "managed"
    <2>1. Becomes(PutX(World, w, p))
      <3>1. [World EXCEPT !.x[w].at = a] = PutX(World, w, p)
        BY <1>1 DEF PutX, Worlds, XStates
      <3> QED
        BY <1>4, <3>1 DEF Configure
    <2>2. p \in XStates /\ SameX(x[w], p)
      BY <1>1, <1>2 DEF XStates, SameX
    <2> HIDE DEF p
    <2>3. Same(World, PutX(World, w, p))
      BY <1>1, <2>2, SamePutX
    <2> QED
      BY <1>1, <2>1, <2>3, SameIsSound, SoundStep
  <1>5. CASE wrap[w].kind = "managed"
    <2>1. Becomes(PutWrap(h, w, q))
      <3>1. Becomes([World EXCEPT !.x[w].at = kept, !.wrap[w].owes = TRUE,
                                  !.fault = @ \/ ~out[o].plugged])
        BY <1>5 DEF Configure
      <3>2. (World.fault \/ ~out[o].plugged) = World.fault
        BY <1>1, <1>2
      <3> HIDE DEF o, kept
      <3>3. [World EXCEPT !.x[w].at = kept, !.wrap[w].owes = TRUE,
                          !.fault = @ \/ ~out[o].plugged] = PutWrap(h, w, q)
        BY <1>1, <3>2 DEF PutX, PutWrap, Worlds, XStates, Wraps
      <3> QED
        BY <3>1, <3>3
    <2> HIDE DEF kept
    <2>2. r \in XStates /\ SameX(x[w], r) /\ q \in Wraps /\ SameWrap(wrap[w], q)
      BY <1>1, <1>3 DEF XStates, SameX, Wraps, SameWrap
    <2> HIDE DEF r, q
    <2>3. Same(World, h) /\ h.wrap = wrap /\ h \in Worlds
      BY <1>1, <2>2, SamePutX, PutXType
    <2> HIDE DEF h
    <2>4. Same(World, PutWrap(h, w, q))
      BY <2>2, <2>3, SamePut, SameTrans
    <2> QED
      BY <1>1, <2>1, <2>4, SameIsSound, SoundStep
  <1> QED
    BY <1>4, <1>5

\* commit_handler(): a commit only moves the window.
LEMMA CommitKeeps ==
    ASSUME WrappersOk, NEW w \in Windows, Commit(w)
    PROVE  WrappersOk'
  <1> DEFINE r == wrap[w]
             g == IF r.pending # None THEN r.pending.geo ELSE x[w].at - Origin(World, w)
  <1>1. /\ x[w].surface # None /\ x[w] \in XStates /\ Ok(World, w) /\ wrap[w] \in Wraps
        /\ World.x = x /\ World.wrap = wrap /\ World \in Worlds /\ Sound(World)
    BY AtFirst DEF Commit
  <1>2. x[w].alive /\ Lit(World, wrap[w].out)
    BY <1>1, AtFirst DEF Ok, XStates
  <1>3. wrap[w].out # None
    BY <1>2, NoneAssumption DEF Lit, Everywhere
  <1>4. Follow(World, w) = World
    BY <1>1, <1>2, FollowKeeps
  <1>5. Origin(World, w) \in Int /\ x[w].at \in Int /\ x[w].at - Origin(World, w) \in Int
    BY <1>1, <1>3, OriginIsInt DEF XStates
  <1>6. g \in Int
    BY <1>1, <1>5 DEF Wraps
  <1>7. ASSUME NEW resized \in BOOLEAN, NEW may \in BOOLEAN
        PROVE  Same(World, ViewCommitted(World, w, resized, may))
    <2> DEFINE owes == r.owes /\ r.pending # None
               q == [r EXCEPT !.pending = None, !.owes = owes]
               seen == PutWrap(World, w, q)
    <2>1. owes \in BOOLEAN
      BY <1>1 DEF Wraps
    <2>2. [Follow(World, w) EXCEPT !.wrap[w].pending = None,
                                   !.wrap[w].owes = @ /\ r.pending # None] = seen
      BY ZenonT(60), <1>1, <1>4 DEF PutWrap, Worlds, Wraps
    <2>3. ViewCommitted(World, w, resized, may) =
            IF r.pending = None /\ g = r.geo /\ ~resized THEN seen ELSE Refresh(seen, w, g, may)
      BY <1>1, <2>2 DEF ViewCommitted
    <2> HIDE DEF owes, g
    <2>4. q \in Wraps /\ SameWrap(r, q)
      BY ZenonT(60), <1>1, <2>1 DEF Wraps, SameWrap
    <2> HIDE DEF q
    <2>5. Same(World, seen) /\ seen \in Worlds /\ seen.wrap[w] = q
      BY <1>1, <2>4, SamePut, PutWrapType
    <2> HIDE DEF seen
    <2>6. Same(seen, Refresh(seen, w, g, may))
      BY <1>3, <1>6, <2>4, <2>5, RefreshKeeps DEF SameWrap
    <2> QED
      BY <2>3, <2>5, <2>6, SameTrans
  <1>8. Same(World, MenuCommitted(World, w))
    <2> DEFINE at == x[w].at
               geo == at - Origin(World, w)
               q == [r EXCEPT !.geo = geo, !.node = at]
    <2>1. [World EXCEPT !.wrap[w].geo = geo, !.wrap[w].node = at] = PutWrap(World, w, q)
      <3> HIDE DEF geo, at
      <3> QED
        BY <1>1 DEF PutWrap, Worlds, Wraps
    <2>2. MenuCommitted(World, w) \in {World, PutWrap(World, w, q)}
      BY <1>1, <1>4, <2>1 DEF MenuCommitted
    <2> HIDE DEF geo, at
    <2>3. q \in Wraps /\ SameWrap(r, q)
      BY <1>1, <1>5 DEF Wraps, SameWrap, geo, at
    <2> QED
      BY <1>1, <2>2, <2>3, SamePut, SameSelf
  <1> QED
    BY <1>1, <1>7, <1>8, SameIsSound, SoundStep DEF Commit

-----------------------------------------------------------------------------
(* The user and the layout                                                 *)

\* An operation in flight and what X is told of it leave the wrappers as they are.
LEMMA TargetKeeps ==
    ASSUME NEW h \in Worlds, NEW w \in Windows,
           NEW p \in {None} \cup [geo : Int, own : BOOLEAN], NEW a \in Int
    PROVE  Same(h, [h EXCEPT !.wrap[w].pending = p, !.x[w].at = a])
  <1> DEFINE q == [h.wrap[w] EXCEPT !.pending = p]
             r == [h.x[w] EXCEPT !.at = a]
             k == PutWrap(h, w, q)
  <1>1. [h EXCEPT !.wrap[w].pending = p, !.x[w].at = a] = PutX(k, w, r)
    BY DEF PutX, PutWrap, Worlds, Wraps, XStates
  <1>2. q \in Wraps /\ SameWrap(h.wrap[w], q)
    <2>1. h.wrap[w] \in Wraps
      BY DEF Worlds
    <2> QED
      BY <2>1 DEF Wraps, SameWrap
  <1>3. r \in XStates /\ SameX(h.x[w], r)
    <2>1. h.x[w] \in XStates
      BY DEF Worlds
    <2> QED
      BY <2>1 DEF XStates, SameX
  <1> HIDE DEF q, r
  <1>4. Same(h, k) /\ k \in Worlds /\ k.x = h.x
    BY <1>2, SamePut, PutWrapType
  <1> HIDE DEF k
  <1>5. Same(k, PutX(k, w, r))
    BY <1>3, <1>4, SamePutX
  <1> QED
    BY <1>1, <1>4, <1>5, SameTrans

\* A window the user sees is on an output that exists.
LEMMA ShownIsLit ==
    ASSUME WrappersOk, NEW w \in Windows, Shown(w)
    PROVE  /\ x[w].alive /\ Lit(World, wrap[w].out) /\ wrap[w].out # None
           /\ wrap[w].mapped /\ wrap[w].kind = "managed"
           /\ Origin(World, w) \in Int /\ World.out[wrap[w].out].at \in Int
  <1>1. /\ Ok(World, w) /\ World.x = x /\ World.wrap = wrap /\ World \in Worlds
        /\ wrap[w].kind = "managed" /\ wrap[w].mapped
    BY AtFirst DEF Shown
  <1>2. x[w].alive /\ Lit(World, wrap[w].out)
    BY <1>1 DEF Ok
  <1>3. wrap[w].out # None
    BY <1>2, NoneAssumption DEF Lit, Everywhere
  <1> QED
    BY <1>1, <1>2, <1>3, OriginIsInt DEF Origin

\* move_view().
LEMMA MoveKeeps ==
    ASSUME WrappersOk, NEW w \in Windows, NEW g \in Int, Move(w, g)
    PROVE  WrappersOk'
  <1> DEFINE op == wrap[w].pending
             follows == IF op # None /\ op.own THEN [op EXCEPT !.geo = g] ELSE op
             at == out[wrap[w].out].at + g
             h == [World EXCEPT !.wrap[w].pending = follows, !.x[w].at = at]
  <1>1. /\ World \in Worlds /\ Sound(World) /\ World.wrap = wrap /\ World.out = out
        /\ wrap[w] \in Wraps /\ wrap[w].out # None /\ out[wrap[w].out].at \in Int
    BY AtFirst, ShownIsLit DEF Move
  <1>2. PICK may \in BOOLEAN : Becomes(Refresh(h, w, g, may))
    BY DEF Move
  <1>3. at \in Int /\ follows \in {None} \cup [geo : Int, own : BOOLEAN]
    BY <1>1 DEF Wraps
  <1> HIDE DEF at, follows
  <1>4. Same(World, h)
    BY <1>1, <1>3, TargetKeeps
  <1> HIDE DEF h
  <1>5. h \in Worlds /\ h.wrap[w].out # None
    BY <1>1, <1>4 DEF Same, SameWrap
  <1>6. Same(World, Refresh(h, w, g, may))
    BY <1>4, <1>5, RefreshKeeps, SameTrans
  <1> QED
    BY <1>1, <1>2, <1>6, SameIsSound, SoundStep

\* resize(), which waits for the client.
LEMMA QueueKeeps ==
    ASSUME WrappersOk, NEW w \in Windows, NEW g \in Int, NEW own \in BOOLEAN, Queue(w, g, own)
    PROVE  WrappersOk'
  <1> DEFINE p == [geo |-> g, own |-> own]
             at == Origin(World, w) + g
  <1>1. /\ World \in Worlds /\ Sound(World) /\ Origin(World, w) \in Int
    BY AtFirst, ShownIsLit DEF Queue
  <1>2. Becomes([World EXCEPT !.wrap[w].pending = p, !.x[w].at = at])
    BY DEF Queue
  <1>3. p \in {None} \cup [geo : Int, own : BOOLEAN] /\ at \in Int
    BY <1>1
  <1> HIDE DEF p, at
  <1> QED
    BY <1>1, <1>2, <1>3, TargetKeeps, SameIsSound, SoundStep

\* queue_tile(), queue_reset() of a window that has the size.
LEMMA SettleKeeps ==
    ASSUME WrappersOk, NEW w \in Windows, NEW g \in Int, Settle(w, g)
    PROVE  WrappersOk'
  <1> DEFINE q == [wrap[w] EXCEPT !.pending = None]
             h == PutWrap(World, w, q)
  <1>1. /\ World \in Worlds /\ Sound(World) /\ World.wrap = wrap
        /\ wrap[w] \in Wraps /\ wrap[w].out # None
    BY AtFirst, ShownIsLit DEF Settle
  <1>2. PICK may \in BOOLEAN : Becomes(Refresh([World EXCEPT !.wrap[w].pending = None], w, g, may))
    BY DEF Settle
  <1>3. [World EXCEPT !.wrap[w].pending = None] = h
    BY <1>1 DEF PutWrap, Worlds, Wraps
  <1>4. q \in Wraps /\ SameWrap(wrap[w], q)
    BY <1>1 DEF Wraps, SameWrap
  <1> HIDE DEF q
  <1>5. Same(World, h) /\ h \in Worlds /\ h.wrap[w].out # None
    <2>1. SameWrap(World.wrap[w], q)
      BY <1>1, <1>4
    <2>2. Same(World, h)
      BY <1>1, <1>4, <2>1, SamePut
    <2> QED
      BY <1>1, <2>2 DEF Same, SameWrap
  <1> HIDE DEF h
  <1>6. Same(World, Refresh(h, w, g, may))
    BY <1>5, RefreshKeeps, SameTrans
  <1> QED
    BY <1>1, <1>2, <1>3, <1>6, SameIsSound, SoundStep

\* hikari_view_migrate() takes a window from one list to another.
LEMMA MigratedIsSound ==
    ASSUME WrappersOk, NEW w \in Windows, Shown(w), NEW o \in Outputs, out[o].on, NEW g \in Int,
           NEW op \in {None} \cup [geo : Int, own : BOOLEAN]
    PROVE  Sound(Migrated(World, w, o, g, op))
  <1> DEFINE k == Cancel(World, w)
             q == [k.wrap[w] EXCEPT !.out = o, !.listed = o, !.geo = g]
             u == PutWrap(k, w, q)
             at == World.out[o].at + g
             there == [u EXCEPT !.wrap[w].pending = op, !.x[w].at = at]
  <1>1. /\ World \in Worlds /\ Sound(World) /\ Ok(World, w) /\ World.wrap = wrap /\ World.x = x
        /\ World.out = out /\ wrap[w] \in Wraps /\ x[w] \in XStates /\ wrap[w].out # None
        /\ wrap[w].mapped /\ wrap[w].kind = "managed"
    BY AtFirst, ShownIsLit
  <1>2. Lit(World, o) /\ at \in Int /\ o \in Everywhere
    BY <1>1 DEF Sound, ScreensOk, Lit, Everywhere, Worlds, Screens
  <1>3. Same(World, k) /\ k \in Worlds /\ k.wrap[w] \in Wraps
    BY <1>1, CancelKeeps DEF Same, Worlds
  <1>4. Migrated(World, w, o, g, op) = IF op = None THEN Snap(there, w, g) ELSE there
    <2> DEFINE d == [k EXCEPT !.wrap[w].out = o, !.wrap[w].listed = o, !.wrap[w].geo = g,
                              !.wrap[w].pending = op, !.x[w].at = at]
    <2>1. Migrated(World, w, o, g, op) = IF op = None THEN Snap(d, w, g) ELSE d
      BY DEF Migrated
    <2> HIDE DEF at, k
    <2>2. [k EXCEPT !.wrap[w].out = o, !.wrap[w].listed = o, !.wrap[w].geo = g] = u
      BY ZenonT(60), <1>3 DEF PutWrap, Worlds, Wraps
    <2>3. [k EXCEPT !.wrap[w].out = o, !.wrap[w].listed = o, !.wrap[w].geo = g,
                    !.wrap[w].pending = op, !.x[w].at = at]
          = [[k EXCEPT !.wrap[w].out = o, !.wrap[w].listed = o, !.wrap[w].geo = g]
                EXCEPT !.wrap[w].pending = op, !.x[w].at = at]
      OBVIOUS
    <2> QED
      BY <2>1, <2>2, <2>3
  <1> HIDE DEF at, k
  <1>5. /\ q \in Wraps /\ q.out = o /\ q.listed = o /\ q.kind = k.wrap[w].kind
        /\ q.mapped = k.wrap[w].mapped /\ q.heard = k.wrap[w].heard /\ q.tree = k.wrap[w].tree
        /\ q.commit = k.wrap[w].commit
    BY <1>2, <1>3 DEF Wraps
  <1> HIDE DEF q
  <1>6. Only(k, u, w) /\ u.wrap[w] = q /\ u.x = k.x /\ u \in Worlds
    BY <1>3, <1>5, OnlyPut DEF Only
  <1> HIDE DEF u
  <1>7. Same(u, there)
    BY <1>2, <1>6, TargetKeeps
  <1> HIDE DEF there
  <1>8. Only(World, there, w) /\ there \in Worlds /\ SameWrap(q, there.wrap[w])
    <2>1. Only(World, u, w)
      BY <1>3, <1>6, SameIsOnly, OnlyTrans
    <2>2. Only(u, there, w) /\ SameWrap(q, there.wrap[w])
      BY <1>6, <1>7, SameIsOnly
    <2> QED
      BY <2>1, <2>2, OnlyTrans DEF Only
  <1>9. Lit(there, o)
    BY <1>2, <1>8, LitKept DEF Only
  <1>10. SameWrap(wrap[w], k.wrap[w]) /\ SameX(x[w], there.x[w])
    BY <1>1, <1>3, <1>8 DEF Same, Only
  <1>11. Ok(there, w)
    <2>1. /\ there.wrap[w].out = o /\ there.wrap[w].listed = o
          /\ there.wrap[w].kind = wrap[w].kind /\ there.wrap[w].mapped = wrap[w].mapped
          /\ there.wrap[w].heard = wrap[w].heard /\ there.wrap[w].tree = wrap[w].tree
          /\ there.wrap[w].commit = wrap[w].commit
      BY <1>5, <1>8, <1>10 DEF SameWrap
    <2> QED
      BY <1>1, <1>9, <1>10, <2>1 DEF Ok, SameX
  <1>12. Sound(there)
    BY <1>1, <1>8, <1>11, RestIsSound DEF Rest, Sound
  <1>13. there.wrap[w].out # None
    BY <1>2, <1>5, <1>8, NoneAssumption DEF SameWrap
  <1> QED
    BY <1>4, <1>8, <1>12, <1>13, SnapKeeps, SameIsSound

\* A migrating window, waited for or not.
LEMMA MigrateKeeps ==
    ASSUME WrappersOk, NEW w \in Windows, NEW g \in Int, NEW o \in Outputs, out[o].on, Migrate(w, o, g)
    PROVE  WrappersOk'
  <1>1. Shown(w)
    BY DEF Migrate
  <1>2. PICK op \in {None} \cup [geo : Int, own : BOOLEAN] : Becomes(Migrated(World, w, o, g, op))
    <2>1. [geo |-> g, own |-> TRUE] \in [geo : Int, own : BOOLEAN]
      OBVIOUS
    <2> QED
      BY <2>1 DEF Migrate
  <1> QED
    BY <1>1, <1>2, MigratedIsSound, SoundStep

\* Any output that may have wrappers may have the focus.
LEMMA FocusIsSound ==
    ASSUME NEW h, Sound(h), NEW o, Lit(h, o)
    PROVE  /\ Sound([h EXCEPT !.ws = o])
           /\ LET g == [h EXCEPT !.ws = o] IN
              g.x = h.x /\ g.wrap = h.wrap /\ g.out = h.out /\ g.fault = h.fault /\ g.ws = o
  <1> DEFINE g == [h EXCEPT !.ws = o]
  <1>1. h \in Worlds /\ o \in Everywhere
    BY DEF Sound, ScreensOk, Lit
  <1>2. /\ g \in Worlds /\ g.x = h.x /\ g.wrap = h.wrap /\ g.out = h.out
        /\ g.fault = h.fault /\ g.ws = o
    BY <1>1 DEF Worlds
  <1> HIDE DEF g
  <1>3. \A p : Lit(h, p) => Lit(g, p)
    BY <1>2 DEF Lit
  <1>4. ScreensOk(g)
    BY <1>2, <1>3 DEF Sound, ScreensOk
  <1>5. \A w \in Windows : Ok(g, w)
    BY <1>2, <1>3 DEF Sound, Ok
  <1> QED
    BY <1>2, <1>4, <1>5 DEF Sound, g

\* The user goes to another output.
LEMMA FocusOutputKeeps ==
    ASSUME WrappersOk, NEW o \in Outputs, FocusOutput(o)
    PROVE  WrappersOk'
  <1>1. Sound(World) /\ World.out = out
    BY DEF WrappersOk, World
  <1>2. Lit(World, o)
    BY <1>1 DEF FocusOutput, Sound, ScreensOk, Lit, Everywhere
  <1>3. World' = [World EXCEPT !.ws = o]
    BY DEF FocusOutput, World
  <1>4. Sound(World')
    BY <1>1, <1>2, <1>3, FocusIsSound
  <1> QED
    BY <1>4 DEF WrappersOk, FocusOutput

-----------------------------------------------------------------------------
(* Outputs                                                                 *)

\* Nothing and nobody is on an output.
Clear(h, o) == h.ws # o /\ \A w \in Windows : h.wrap[w].kind # "none" => h.wrap[w].out # o

\* An output may change its state, and go dark once it is clear.
LEMMA ScreenIsSound ==
    ASSUME NEW h, Sound(h), NEW o \in Outputs, NEW s \in Screens, s.on => s.plugged,
           s.on \/ Clear(h, o)
    PROVE  Sound([h EXCEPT !.out[o] = s])
  <1> DEFINE g == [h EXCEPT !.out[o] = s]
  <1>1. h \in Worlds /\ o \in Everywhere /\ o # Fallback /\ h.ws \in Everywhere
    BY NoneAssumption DEF Sound, ScreensOk, Everywhere, Worlds
  <1>2. /\ g \in Worlds /\ g.x = h.x /\ g.wrap = h.wrap /\ g.ws = h.ws /\ g.fault = h.fault
        /\ g.out[o] = s /\ \A p \in Everywhere \ {o} : g.out[p] = h.out[p]
    BY <1>1, PutOutType
  <1> HIDE DEF g
  <1>3. ASSUME NEW p, Lit(h, p), p # o \/ s.on
        PROVE  Lit(g, p)
    BY <1>1, <1>2, <1>3 DEF Lit
  <1>4. ScreensOk(g)
    <2>1. Lit(g, h.ws)
      BY <1>3 DEF Clear, Sound, ScreensOk
    <2>2. Lit(g, Fallback)
      BY <1>1, <1>3 DEF Sound, ScreensOk
    <2>3. \A p \in Outputs : g.out[p].on => g.out[p].plugged
      BY <1>2 DEF Sound, ScreensOk, Everywhere
    <2> QED
      BY <1>2, <2>1, <2>2, <2>3 DEF Sound, ScreensOk
  <1>5. ASSUME NEW w \in Windows
        PROVE  Ok(g, w)
    <2>1. Ok(h, w)
      BY DEF Sound
    <2>2. h.wrap[w].kind # "none" => Lit(g, h.wrap[w].out)
      BY <1>3, <2>1 DEF Ok, Clear
    <2> QED
      BY <1>2, <2>1, <2>2 DEF Ok
  <1> QED
    BY <1>4, <1>5 DEF Sound, g

\* hikari_output_rearrange_xwayland_views() only moves windows.
LEMMA LayoutChangedIsSound ==
    ASSUME NEW h, Sound(h)
    PROVE  Sound(LayoutChanged(h))
  <1> DEFINE there == {w \in Windows : /\ h.wrap[w].kind = "managed" /\ h.wrap[w].listed \in Outputs
                                       /\ h.out[h.wrap[w].listed].on}
             told(w) == Origin(h, w) + h.wrap[w].geo
             fw == [w \in Windows |-> IF w \in there THEN [h.wrap[w] EXCEPT !.node = told(w)] ELSE h.wrap[w]]
             fx == [w \in Windows |-> IF w \in there THEN [h.x[w] EXCEPT !.at = told(w)] ELSE h.x[w]]
             g == [h EXCEPT !.wrap = fw, !.x = fx]
  <1>1. h \in Worlds
    BY DEF Sound, ScreensOk
  <1>2. LayoutChanged(h) = g
    BY <1>1 DEF LayoutChanged
  <1>3. ASSUME NEW w \in there
        PROVE  told(w) \in Int
    <2>1. h.wrap[w].out # None
      BY <1>3, NoneAssumption DEF Sound, Ok, Lit, Everywhere
    <2>2. Origin(h, w) \in Int /\ h.wrap[w].geo \in Int
      BY <1>1, <2>1, OriginIsInt DEF Worlds, Wraps
    <2> QED
      BY <2>2
  <1> HIDE DEF told
  <1>4. ASSUME NEW w \in Windows
        PROVE  fw[w] \in Wraps /\ fx[w] \in XStates /\ SameWrap(h.wrap[w], fw[w]) /\ SameX(h.x[w], fx[w])
    <2>1. h.wrap[w] \in Wraps /\ h.x[w] \in XStates
      BY <1>1 DEF Worlds
    <2>2. CASE w \in there
      <3>1. told(w) \in Int
        BY <1>3, <2>2
      <3> DEFINE q == [h.wrap[w] EXCEPT !.node = told(w)]
                 r == [h.x[w] EXCEPT !.at = told(w)]
      <3>2. q \in Wraps /\ SameWrap(h.wrap[w], q)
        BY <2>1, <3>1 DEF Wraps, SameWrap
      <3>3. r \in XStates /\ SameX(h.x[w], r)
        BY <2>1, <3>1 DEF XStates, SameX
      <3>4. fw[w] = q /\ fx[w] = r
        BY <2>2
      <3> QED
        BY <3>2, <3>3, <3>4
    <2>3. CASE w \notin there
      BY <2>1, <2>3 DEF SameWrap, SameX
    <2> QED
      BY <2>2, <2>3
  <1>5. fw \in [Windows -> Wraps] /\ fx \in [Windows -> XStates]
    BY <1>4
  <1> HIDE DEF fw, fx
  <1>6. /\ g \in Worlds /\ g.wrap = fw /\ g.x = fx /\ g.out = h.out
        /\ g.ws = h.ws /\ g.fault = h.fault
    BY <1>1, <1>5 DEF Worlds
  <1> HIDE DEF g
  <1>7. Same(h, g)
    BY <1>4, <1>6 DEF Same, SameScreens
  <1> QED
    BY <1>2, <1>7, SameIsSound

\* Where an evacuated wrapper is.
EvacuatedTo(r, q, to) ==
    /\ q \in Wraps /\ q.out = to /\ q.listed = to
    /\ q.kind = r.kind /\ q.mapped = r.mapped
    /\ q.heard = r.heard /\ q.commit = r.commit /\ q.tree = r.tree

\* hikari_view_evacuate().
LEMMA ViewEvacuatedKeeps ==
    ASSUME NEW h \in Worlds, NEW w \in Windows, h.wrap[w].out # None, NEW to \in Everywhere
    PROVE  EvacuatedTo(h.wrap[w], ViewEvacuated(h, w, to).wrap[w], to)
  <1> DEFINE k == Cancel(h, w)
             at == h.out[to].at + h.wrap[w].geo
             q == [k.wrap[w] EXCEPT !.out = to, !.listed = to, !.node = at]
  <1>1. Same(h, k) /\ k \in Worlds /\ k.wrap[w] \in Wraps /\ SameWrap(h.wrap[w], k.wrap[w])
    BY CancelKeeps DEF Same, Worlds
  <1>2. at \in Int
    BY DEF Worlds, Wraps, Screens
  <1>3. ViewEvacuated(h, w, to) = [k EXCEPT !.wrap[w].out = to, !.wrap[w].listed = to, !.wrap[w].node = at]
    BY DEF ViewEvacuated
  <1> HIDE DEF k, at
  <1>4. ViewEvacuated(h, w, to) = PutWrap(k, w, q)
    BY ZenonT(60), <1>1, <1>3 DEF PutWrap, Worlds, Wraps
  <1>5. /\ q \in Wraps /\ q.out = to /\ q.listed = to /\ q.kind = k.wrap[w].kind
        /\ q.mapped = k.wrap[w].mapped /\ q.heard = k.wrap[w].heard
        /\ q.commit = k.wrap[w].commit /\ q.tree = k.wrap[w].tree
    BY <1>1, <1>2 DEF Wraps
  <1> HIDE DEF q
  <1>6. PutWrap(k, w, q).wrap[w] = q
    BY <1>1, <1>5, PutWrapType
  <1> QED
    BY <1>1, <1>4, <1>5, <1>6 DEF EvacuatedTo, SameWrap

\* hikari_xwayland_unmanaged_evacuate().
LEMMA MenuEvacuatedKeeps ==
    ASSUME NEW h \in Worlds, NEW w \in Windows, NEW to \in Everywhere
    PROVE  EvacuatedTo(h.wrap[w], MenuEvacuated(h, w, to).wrap[w], to)
  <1> DEFINE geo == h.x[w].at - h.out[to].at
             q == [h.wrap[w] EXCEPT !.out = to, !.listed = to, !.geo = geo]
  <1>1. h.wrap[w] \in Wraps /\ h.x[w].at \in Int /\ h.out[to].at \in Int
    BY DEF Worlds, XStates, Screens
  <1>2. geo \in Int
    BY <1>1
  <1>3. MenuEvacuated(h, w, to) = [h EXCEPT !.wrap[w].out = to, !.wrap[w].listed = to, !.wrap[w].geo = geo]
    BY DEF MenuEvacuated
  <1> HIDE DEF geo
  <1>4. MenuEvacuated(h, w, to) = PutWrap(h, w, q)
    BY ZenonT(60), <1>1, <1>3 DEF PutWrap, Worlds, Wraps
  <1>5. /\ q \in Wraps /\ q.out = to /\ q.listed = to /\ q.kind = h.wrap[w].kind
        /\ q.mapped = h.wrap[w].mapped /\ q.heard = h.wrap[w].heard
        /\ q.commit = h.wrap[w].commit /\ q.tree = h.wrap[w].tree
    BY <1>1, <1>2 DEF Wraps
  <1> HIDE DEF q
  <1>6. PutWrap(h, w, q).wrap[w] = q
    BY <1>5, PutWrapType
  <1> QED
    BY <1>4, <1>5, <1>6 DEF EvacuatedTo

\* hikari_workspace_merge() leaves no mapped window behind.
LEMMA MergeIsSound ==
    ASSUME NEW h, Sound(h), NEW from \in Everywhere, NEW to, Lit(h, to), to # from
    PROVE  /\ Sound(Merge(h, from, to))
           /\ Merge(h, from, to).ws = h.ws /\ Merge(h, from, to).out = h.out
           /\ \A w \in Windows : /\ Merge(h, from, to).wrap[w].out = from => h.wrap[w].out = from
                                 /\ h.wrap[w].out = from /\ h.wrap[w].mapped
                                       => Merge(h, from, to).wrap[w].out = to
  <1> DEFINE moves == {w \in Windows : h.wrap[w].listed = from}
             after == [w \in Windows |-> IF h.wrap[w].kind = "managed" THEN ViewEvacuated(h, w, to)
                                         ELSE MenuEvacuated(h, w, to)]
             fw == [w \in Windows |-> IF w \in moves THEN after[w].wrap[w] ELSE h.wrap[w]]
             g == [h EXCEPT !.wrap = fw]
  <1>1. h \in Worlds /\ to \in Everywhere /\ from # None
    BY NoneAssumption DEF Sound, ScreensOk, Lit, Everywhere
  <1>2. Merge(h, from, to) = g
    BY <1>1 DEF Merge
  <1>3. ASSUME NEW w \in moves
        PROVE  h.wrap[w].mapped /\ h.wrap[w].out = from /\ EvacuatedTo(h.wrap[w], fw[w], to)
    <2>1. h.wrap[w].mapped /\ h.wrap[w].out = from
      BY <1>1, <1>3 DEF Sound, Ok
    <2>2. EvacuatedTo(h.wrap[w], after[w].wrap[w], to)
      BY <1>1, <1>3, <2>1, ViewEvacuatedKeeps, MenuEvacuatedKeeps
    <2> QED
      BY <2>1, <2>2
  <1>4. ASSUME NEW w \in Windows, w \notin moves
        PROVE  fw[w] = h.wrap[w] /\ ~(h.wrap[w].mapped /\ h.wrap[w].out = from)
    BY <1>4 DEF Sound, Ok
  <1>5. fw \in [Windows -> Wraps]
    BY <1>1, <1>3, <1>4 DEF EvacuatedTo, Worlds
  <1> HIDE DEF fw
  <1>6. /\ g \in Worlds /\ g.wrap = fw /\ g.x = h.x /\ g.out = h.out
        /\ g.ws = h.ws /\ g.fault = h.fault
    BY <1>1, <1>5 DEF Worlds
  <1> HIDE DEF g
  <1>7. \A p : Lit(h, p) => Lit(g, p)
    BY <1>6 DEF Lit
  <1>8. ScreensOk(g)
    BY <1>6, ScreensKept DEF Sound, SameScreens
  <1>9. ASSUME NEW w \in Windows
        PROVE  Ok(g, w)
    <2>1. Ok(h, w)
      BY DEF Sound
    <2>2. CASE w \in moves
      BY <1>3, <1>6, <1>7, <2>1, <2>2 DEF Ok, EvacuatedTo
    <2>3. CASE w \notin moves
      BY <1>4, <1>6, <1>7, <2>1, <2>3 DEF Ok
    <2> QED
      BY <2>2, <2>3
  <1>10. \A w \in Windows : /\ g.wrap[w].out = from => h.wrap[w].out = from
                            /\ h.wrap[w].out = from /\ h.wrap[w].mapped => g.wrap[w].out = to
    BY <1>3, <1>4, <1>6 DEF EvacuatedTo
  <1> QED
    BY <1>2, <1>6, <1>8, <1>9, <1>10 DEF Sound

\* hikari_workspace_next() finds an output that stays.
LEMMA RefugesAreLit ==
    ASSUME WrappersOk, NEW o \in Outputs, NEW to \in Refuges(o)
    PROVE  Lit(World, to) /\ to # o
  BY NoneAssumption DEF WrappersOk, Sound, ScreensOk, Lit, World, Refuges, Everywhere

\* evacuate_output() clears an output.
LEMMA EvacuatedIsSound ==
    ASSUME WrappersOk, "withdrawn" \notin Races, NEW o \in Outputs, MayLeave(o), NEW to \in Refuges(o)
    PROVE  LET g == Evacuated(World, o, to) IN Sound(g) /\ Clear(g, o) /\ g.out = out
  <1> DEFINE m == Merge(World, o, to)
  <1>1. Sound(World) /\ Lit(World, to) /\ to # o /\ o \in Everywhere /\ World.out = out /\ World.wrap = wrap
    BY RefugesAreLit DEF WrappersOk, Everywhere, World
  <1>2. /\ Sound(m) /\ m.out = out
        /\ \A w \in Windows : /\ m.wrap[w].out = o => wrap[w].out = o
                              /\ wrap[w].out = o /\ wrap[w].mapped => m.wrap[w].out = to
    BY <1>1, MergeIsSound
  <1>3. \A w \in Windows : m.wrap[w].out # o
    BY <1>1, <1>2 DEF MayLeave
  <1>4. Evacuated(World, o, to) = [m EXCEPT !.ws = to]
    BY DEF Evacuated
  <1> HIDE DEF m
  <1>5. Lit(m, to)
    BY <1>1, <1>2 DEF Lit
  <1> QED
    BY <1>1, <1>2, <1>3, <1>4, <1>5, FocusIsSound DEF Clear

\* Nobody is on an output that is off.
LEMMA DarkIsClear ==
    ASSUME WrappersOk, NEW o \in Outputs, ~out[o].on
    PROVE  Clear(World, o)
  BY NoneAssumption DEF WrappersOk, Sound, ScreensOk, Ok, Lit, Clear, World

\* hikari_output_fini().
LEMMA UnplugKeeps ==
    ASSUME WrappersOk, "withdrawn" \notin Races, NEW o \in Outputs, Unplug(o)
    PROVE  WrappersOk'
  <1>1. PICK to \in Refuges(o) :
           LET g == [IF out[o].on THEN Evacuated(World, o, to) ELSE World
                        EXCEPT !.out[o] = [plugged |-> FALSE, on |-> FALSE, due |-> FALSE, at |-> out[o].at]]
           IN  Becomes(IF out[o].on THEN LayoutChanged(g) ELSE g)
    BY DEF Unplug
  <1> DEFINE s == [plugged |-> FALSE, on |-> FALSE, due |-> FALSE, at |-> out[o].at]
             k == IF out[o].on THEN Evacuated(World, o, to) ELSE World
             g == [k EXCEPT !.out[o] = s]
  <1>2. s \in Screens /\ ~s.on
    BY DEF WrappersOk, Sound, ScreensOk, World, Worlds, Screens, Everywhere
  <1>3. Sound(k) /\ Clear(k, o)
    <2>1. MayLeave(o) /\ Sound(World)
      BY DEF Unplug, WrappersOk
    <2> QED
      BY <2>1, EvacuatedIsSound, DarkIsClear
  <1>4. Becomes(IF out[o].on THEN LayoutChanged(g) ELSE g)
    BY <1>1
  <1> HIDE DEF s, k
  <1>5. Sound(g)
    BY <1>2, <1>3, ScreenIsSound
  <1> HIDE DEF g
  <1> QED
    BY <1>4, <1>5, LayoutChangedIsSound, SoundStep

\* hikari_output_set_wants_enabled(FALSE).
LEMMA SwitchOffKeeps ==
    ASSUME WrappersOk, "withdrawn" \notin Races, NEW o \in Outputs, SwitchOff(o)
    PROVE  WrappersOk'
  <1>1. PICK to \in Refuges(o) :
           Becomes(LayoutChanged([Evacuated(World, o, to) EXCEPT !.out[o].on = FALSE, !.out[o].due = FALSE]))
    BY DEF SwitchOff
  <1> DEFINE k == Evacuated(World, o, to)
             s == [k.out[o] EXCEPT !.on = FALSE, !.due = FALSE]
             g == [k EXCEPT !.out[o] = s]
  <1>2. Sound(k) /\ Clear(k, o)
    BY EvacuatedIsSound DEF SwitchOff
  <1>3. k \in Worlds /\ k.out[o] \in Screens
    BY <1>2 DEF Sound, ScreensOk, Worlds, Everywhere
  <1> HIDE DEF k
  <1>4. s \in Screens /\ ~s.on
    BY <1>3 DEF Screens
  <1>5. [k EXCEPT !.out[o].on = FALSE, !.out[o].due = FALSE] = g
    BY <1>3 DEF Worlds, Screens, Everywhere
  <1>6. Becomes(LayoutChanged(g))
    BY <1>1, <1>5 DEF k
  <1> HIDE DEF s
  <1>7. Sound(g)
    BY <1>2, <1>4, ScreenIsSound
  <1> HIDE DEF g
  <1> QED
    BY <1>6, <1>7, LayoutChangedIsSound, SoundStep

\* hikari_output_set_wants_enabled(TRUE).
LEMMA SwitchOnKeeps ==
    ASSUME WrappersOk, NEW o \in Outputs, SwitchOn(o)
    PROVE  WrappersOk'
  <1> DEFINE s == [out[o] EXCEPT !.on = TRUE]
             g == [World EXCEPT !.out[o] = s]
  <1>1. /\ Sound(World) /\ World \in Worlds /\ World.out = out /\ out[o] \in Screens /\ out[o].plugged
    BY DEF SwitchOn, WrappersOk, Sound, ScreensOk, World, Worlds, Everywhere
  <1>2. s \in Screens /\ s.plugged /\ s.on
    BY <1>1 DEF Screens
  <1>3. [World EXCEPT !.out[o].on = TRUE] = g
    BY <1>1 DEF Worlds, Screens, Everywhere
  <1>4. Becomes(LayoutChanged(g))
    BY <1>3 DEF SwitchOn
  <1> HIDE DEF s
  <1>5. Sound(g)
    BY <1>1, <1>2, ScreenIsSound
  <1> HIDE DEF g
  <1> QED
    BY <1>4, <1>5, LayoutChangedIsSound, SoundStep

\* hikari_output_init().
LEMMA PlugKeeps ==
    ASSUME WrappersOk, NEW o \in Outputs, NEW p \in Places, Plug(o, p)
    PROVE  WrappersOk'
  <1> DEFINE s == [plugged |-> TRUE, on |-> TRUE, due |-> FALSE, at |-> p]
             g == [World EXCEPT !.out[o] = s]
             there == LayoutChanged(g)
             k == Merge(there, Fallback, o)
  <1>1. Sound(World) /\ s \in Screens /\ s.plugged /\ s.on
    BY SpaceAssumption DEF WrappersOk, Screens
  <1>2. Becomes(there) \/ Becomes(Evacuated(there, Fallback, o))
    BY DEF Plug
  <1>3. g.out[o] = s
    BY DEF WrappersOk, Sound, ScreensOk, World, Worlds, Everywhere
  <1> HIDE DEF s
  <1>4. Sound(g)
    BY <1>1, ScreenIsSound
  <1>5. there.out = g.out
    <2>1. g \in Worlds
      BY <1>4 DEF Sound, ScreensOk
    <2> HIDE DEF g
    <2> QED
      BY <2>1 DEF LayoutChanged, Worlds
  <1> HIDE DEF g
  <1>6. Sound(there)
    BY <1>4, LayoutChangedIsSound
  <1> HIDE DEF there
  <1>7. Lit(there, o) /\ o # Fallback /\ Fallback \in Everywhere
    BY <1>1, <1>3, <1>5, NoneAssumption DEF Lit, Everywhere
  <1>8. Sound(k) /\ k.out = there.out
    BY <1>6, <1>7, MergeIsSound
  <1>9. Evacuated(there, Fallback, o) = [k EXCEPT !.ws = o]
    BY DEF Evacuated
  <1> HIDE DEF k
  <1>10. Sound(Evacuated(there, Fallback, o))
    BY <1>7, <1>8, <1>9, FocusIsSound DEF Lit
  <1> QED
    BY <1>2, <1>6, <1>10, SoundStep

\* hikari_output_move().
LEMMA MoveOutputKeeps ==
    ASSUME WrappersOk, NEW o \in Outputs, NEW p \in Places, MoveOutput(o, p)
    PROVE  WrappersOk'
  <1> DEFINE s == [out[o] EXCEPT !.at = p]
             g == [World EXCEPT !.out[o] = s]
  <1>1. /\ Sound(World) /\ World \in Worlds /\ World.out = out /\ out[o] \in Screens
        /\ out[o].plugged /\ out[o].on
    BY DEF MoveOutput, WrappersOk, Sound, ScreensOk, World, Worlds, Everywhere
  <1>2. s \in Screens /\ s.plugged /\ s.on
    BY <1>1, SpaceAssumption DEF Screens
  <1>3. [World EXCEPT !.out[o].at = p] = g
    BY <1>1 DEF Worlds, Screens, Everywhere
  <1>4. Becomes(LayoutChanged(g))
    BY <1>3 DEF MoveOutput
  <1> HIDE DEF s
  <1>5. Sound(g)
    BY <1>1, <1>2, ScreenIsSound
  <1> HIDE DEF g
  <1> QED
    BY <1>4, <1>5, LayoutChangedIsSound, SoundStep

\* hikari_configuration_reload().
LEMMA ReloadKeeps ==
    ASSUME WrappersOk, Reload
    PROVE  WrappersOk'
  <1>1. Sound(World) /\ World \in Worlds /\ World.wrap = wrap /\ World.out = out /\ World.x = x
        /\ World.ws = ws /\ World.fault = fault
    BY DEF WrappersOk, Sound, ScreensOk, World
  <1>2. PICK may \in BOOLEAN :
           LET all == {w \in Windows : Shown(w) /\ wrap[w].listed \in Outputs}
               after == [w \in Windows |-> Refresh(World, w, wrap[w].geo, may)]
           IN  Becomes([World EXCEPT !.wrap = [w \in Windows |-> IF w \in all THEN after[w].wrap[w] ELSE @[w]],
                                     !.out = [o \in Everywhere |->
                                        [out[o] EXCEPT !.due = out[o].due \/ \E w \in all : after[w].out[o].due]]])
    BY DEF Reload
  <1> DEFINE all == {w \in Windows : Shown(w) /\ wrap[w].listed \in Outputs}
             after == [w \in Windows |-> Refresh(World, w, wrap[w].geo, may)]
             due(o) == out[o].due \/ \E w \in all : after[w].out[o].due
             fw == [w \in Windows |-> IF w \in all THEN after[w].wrap[w] ELSE wrap[w]]
             fo == [o \in Everywhere |-> [out[o] EXCEPT !.due = due(o)]]
             g == [World EXCEPT !.wrap = fw, !.out = fo]
  <1>3. Becomes(g)
    BY <1>1, <1>2
  <1>4. ASSUME NEW w \in Windows
        PROVE  fw[w] \in Wraps /\ SameWrap(wrap[w], fw[w])
    <2>1. wrap[w] \in Wraps /\ wrap[w].geo \in Int
      BY <1>1 DEF Worlds, Wraps
    <2>2. CASE w \in all
      <3>1. Same(World, after[w])
        BY <1>1, <2>1, <2>2, ShownIsLit, RefreshKeeps
      <3> HIDE DEF after
      <3> QED
        BY <1>1, <2>2, <3>1 DEF Same, Worlds
    <2>3. CASE w \notin all
      BY <2>1, <2>3 DEF SameWrap
    <2> QED
      BY <2>2, <2>3
  <1>5. ASSUME NEW o \in Everywhere
        PROVE  fo[o] \in Screens /\ fo[o].plugged = out[o].plugged /\ fo[o].on = out[o].on
    <2>1. out[o] \in Screens
      BY <1>1 DEF Worlds
    <2>2. due(o) \in BOOLEAN
      BY <2>1 DEF Screens
    <2> HIDE DEF due
    <2> QED
      BY <2>1, <2>2 DEF Screens
  <1> HIDE DEF fw, fo
  <1>6. /\ g \in Worlds /\ g.wrap = fw /\ g.out = fo /\ g.x = x /\ g.ws = ws /\ g.fault = fault
    <2>1. fw \in [Windows -> Wraps] /\ fo \in [Everywhere -> Screens]
      BY <1>4, <1>5 DEF fw, fo
    <2> QED
      BY <1>1, <2>1 DEF Worlds
  <1> HIDE DEF g
  <1>7. Same(World, g)
    BY <1>1, <1>4, <1>5, <1>6 DEF Same, SameScreens, SameX
  <1> QED
    BY <1>1, <1>3, <1>7, SameIsSound, SoundStep

\* frame_handler().
LEMMA FrameKeeps ==
    ASSUME WrappersOk, NEW o \in Outputs, Frame(o)
    PROVE  WrappersOk'
  <1>1. /\ Sound(World) /\ World \in Worlds /\ World.wrap = wrap /\ World.out = out /\ World.x = x
        /\ World.ws = ws /\ World.fault = fault
        /\ out[o] \in Screens /\ o \in Everywhere /\ out[o].on /\ out[o].plugged
    BY DEF WrappersOk, Sound, ScreensOk, World, Worlds, Everywhere, Frame
  <1>2. ASSUME NEW due \in BOOLEAN
        PROVE  LET s == [out[o] EXCEPT !.due = due] IN s \in Screens /\ s.on /\ s.plugged
    BY <1>1 DEF Screens
  <1>3. CASE ~awake
    <2> DEFINE s == [out[o] EXCEPT !.due = FALSE]
    <2>1. [World EXCEPT !.out[o].due = FALSE] = [World EXCEPT !.out[o] = s]
      BY <1>1 DEF Worlds, Screens
    <2>2. Becomes([World EXCEPT !.out[o] = s])
      BY <1>3, <2>1 DEF Frame
    <2>3. s \in Screens /\ s.on /\ s.plugged
      BY <1>2
    <2> HIDE DEF s
    <2> QED
      BY <1>1, <2>2, <2>3, ScreenIsSound, SoundStep
  <1>4. CASE awake
    <2>1. PICK may \in BOOLEAN, committed \in BOOLEAN, age \in [Flying(o) -> 1 .. Duration] :
             LET after == [w \in Flying(o) |-> Ticked(World, w, age[w], may).wrap[w]]
                 running == \E w \in Flying(o) : after[w].motion.flying
             IN  Becomes([World EXCEPT
                    !.wrap = [w \in Windows |-> IF w \in Flying(o) THEN after[w] ELSE @[w]],
                    !.out[o].due = Reschedule(running, committed)])
      BY <1>4 DEF Frame
    <2> DEFINE after == [w \in Flying(o) |-> Ticked(World, w, age[w], may).wrap[w]]
               due == Reschedule(\E w \in Flying(o) : after[w].motion.flying, committed)
               fw == [w \in Windows |-> IF w \in Flying(o) THEN after[w] ELSE wrap[w]]
               k == [World EXCEPT !.wrap = fw]
               s == [out[o] EXCEPT !.due = due]
               g == [k EXCEPT !.out[o] = s]
    <2>2. Becomes([World EXCEPT !.wrap = fw, !.out[o].due = due])
      BY <1>1, <2>1
    <2>3. due \in BOOLEAN
      BY DEF Reschedule
    <2> HIDE DEF due
    <2>4. s \in Screens /\ s.on /\ s.plugged
      BY <1>2, <2>3
    <2>5. ASSUME NEW w \in Windows
          PROVE  fw[w] \in Wraps /\ SameWrap(wrap[w], fw[w])
      <3>1. wrap[w] \in Wraps
        BY <1>1 DEF Worlds
      <3>2. CASE w \in Flying(o)
        <4>1. wrap[w].out # None
          BY <1>1, <3>2, NoneAssumption DEF Sound, Ok, Flying, Everywhere
        <4>2. age[w] \in 1 .. Duration
          BY <3>2
        <4>3. Same(World, Ticked(World, w, age[w], may))
          BY <1>1, <4>1, <4>2, TickedKeeps
        <4> DEFINE t == Ticked(World, w, age[w], may)
        <4>4. fw[w] = t.wrap[w]
          BY <3>2
        <4> HIDE DEF t
        <4>5. Same(World, t)
          BY <4>3 DEF t
        <4> QED
          BY <1>1, <4>4, <4>5 DEF Same, Worlds
      <3>3. CASE w \notin Flying(o)
        BY <3>1, <3>3 DEF SameWrap
      <3> QED
        BY <3>2, <3>3
    <2> HIDE DEF fw
    <2>6. /\ k \in Worlds /\ k.wrap = fw /\ k.out = out /\ k.x = x /\ k.ws = ws /\ k.fault = fault
      <3>1. fw \in [Windows -> Wraps]
        BY <2>5 DEF fw
      <3> QED
        BY <1>1, <3>1 DEF Worlds
    <2>7. [World EXCEPT !.wrap = fw, !.out[o].due = due] = g
      BY <1>1 DEF Worlds, Screens
    <2> HIDE DEF k, s
    <2>8. Same(World, k)
      BY <1>1, <2>5, <2>6 DEF Same, SameScreens, SameX
    <2>9. Sound(g)
      BY <1>1, <2>4, <2>8, SameIsSound, ScreenIsSound
    <2> HIDE DEF g
    <2> QED
      BY <2>2, <2>7, <2>9, SoundStep
  <1> QED
    BY <1>3, <1>4

\* session_active_handler().
LEMMA SwitchSessionKeeps ==
    ASSUME WrappersOk, SwitchSession
    PROVE  WrappersOk'
  <1>1. /\ Sound(World) /\ World \in Worlds /\ World.wrap = wrap /\ World.out = out /\ World.x = x
        /\ World.ws = ws /\ World.fault = fault /\ awake \in BOOLEAN
    BY DEF WrappersOk, Sound, ScreensOk, World
  <1>2. out \in [Everywhere -> Screens]
    BY <1>1 DEF Worlds
  <1>3. out' \in [Everywhere -> Screens]
        /\ \A o \in Everywhere : out'[o].plugged = out[o].plugged /\ out'[o].on = out[o].on
    <2> DEFINE due(o) == out[o].due \/ (~awake /\ out[o].on)
    <2>1. out' = [o \in Everywhere |-> [out[o] EXCEPT !.due = due(o)]]
      BY DEF SwitchSession
    <2>2. \A o \in Everywhere : out[o] \in Screens /\ due(o) \in BOOLEAN
      BY <1>1, <1>2 DEF Screens
    <2> HIDE DEF due
    <2> QED
      BY <2>1, <2>2 DEF Screens
  <1>4. Same(World, World')
    BY <1>1, <1>3 DEF SwitchSession, World, Worlds, Same, SameScreens, SameWrap, SameX
  <1>5. Sound(World')
    BY <1>1, <1>4, SameIsSound
  <1> QED
    BY <1>1, <1>5 DEF WrappersOk, SwitchSession

-----------------------------------------------------------------------------
(* The theorem                                                             *)

\* The invariant is inductive.
LEMMA NextKeeps ==
    ASSUME WrappersOk, "withdrawn" \notin Races, [Next]_vars
    PROVE  WrappersOk'
  <1>1. ASSUME NEW w \in Windows, XClient(w)
        PROVE  WrappersOk'
    BY <1>1, NewKeeps, AssociateKeeps, MapXKeeps, UnmapXKeeps, DissociateKeeps, DestroyKeeps,
       SetOverrideKeeps, ConfigureKeeps, CommitKeeps DEF XClient
  <1>2. ASSUME NEW w \in Windows, User(w)
        PROVE  WrappersOk'
    <2>1. PICK g \in 0 .. Width - 1 :
             \/ Move(w, g) \/ Settle(w, g)
             \/ \E own \in BOOLEAN : Queue(w, g, own)
             \/ \E o \in {p \in Outputs : out[p].on} : Migrate(w, o, g)
      BY <1>2 DEF User
    <2>2. g \in Int
      BY SpaceAssumption
    <2> QED
      BY <2>1, <2>2, MoveKeeps, SettleKeeps, QueueKeeps, MigrateKeeps
  <1>3. ASSUME NEW o \in Outputs, Monitor(o)
        PROVE  WrappersOk'
    BY <1>3, UnplugKeeps, SwitchOffKeeps, SwitchOnKeeps, FocusOutputKeeps, FrameKeeps,
       PlugKeeps, MoveOutputKeeps DEF Monitor
  <1>4. CASE Reload \/ SwitchSession
    BY <1>4, ReloadKeeps, SwitchSessionKeeps
  <1>5. CASE UNCHANGED vars
    <2>1. World' = World /\ awake' = awake
      BY <1>5 DEF vars, World
    <2> QED
      BY <2>1 DEF WrappersOk
  <1> QED
    BY <1>1, <1>2, <1>3, <1>4, <1>5 DEF Next

\* Sound states are well typed.
LEMMA WellTyped ==
    ASSUME WrappersOk
    PROVE  TypeOK
  <1>1. /\ World \in Worlds /\ World.x = x /\ World.wrap = wrap /\ World.out = out
        /\ World.ws = ws /\ World.fault = fault /\ awake \in BOOLEAN
    BY DEF WrappersOk, Sound, ScreensOk, World
  <1>2. ASSUME NEW w \in Windows
        PROVE  x[w] \in XStates /\ wrap[w] \in Wraps /\ wrap[w].motion \in Motions
    BY <1>1 DEF Worlds, Wraps
  <1>3. ASSUME NEW o \in Everywhere
        PROVE  out[o] \in Screens
    BY <1>1 DEF Worlds
  <1>4. ws \in Everywhere /\ fault \in BOOLEAN
    BY <1>1 DEF Worlds
  <1>5. ASSUME NEW w \in Windows
        PROVE  /\ x[w].alive \in BOOLEAN /\ x[w].override \in BOOLEAN /\ x[w].mapped \in BOOLEAN
               /\ x[w].surface \in Surfaces \cup {None} /\ x[w].at \in Int
    BY <1>2 DEF XStates
  <1>6. ASSUME NEW w \in Windows
        PROVE  /\ wrap[w].kind \in {"none", "managed", "unmanaged"}
               /\ wrap[w].out \in Everywhere \cup {None} /\ wrap[w].listed \in Everywhere \cup {None}
               /\ {wrap[w].heard, wrap[w].commit, wrap[w].tree} \subseteq Surfaces \cup {None}
               /\ {wrap[w].known, wrap[w].mapped, wrap[w].owes} \subseteq BOOLEAN
               /\ wrap[w].geo \in Int /\ wrap[w].node \in Int
    BY <1>2 DEF Wraps
  <1>7. ASSUME NEW w \in Windows
        PROVE  /\ wrap[w].motion.from \in Int /\ wrap[w].motion.drawn \in Int
               /\ wrap[w].motion.flying \in BOOLEAN /\ wrap[w].motion.placed \in BOOLEAN
               /\ wrap[w].motion.age \in 0 .. Duration - 1
    BY <1>2 DEF Motions
  <1>8. ASSUME NEW o \in Everywhere
        PROVE  {out[o].plugged, out[o].on, out[o].due} \subseteq BOOLEAN
    BY <1>3 DEF Screens
  <1> QED
    BY <1>1, <1>4, <1>5, <1>6, <1>7, <1>8 DEF TypeOK

\* The invariant implies the property.
LEMMA SoundIsEnough ==
    ASSUME WrappersOk
    PROVE  WrappersAreSound
  <1>1. TypeOK
    BY WellTyped
  <1>2. /\ World.x = x /\ World.wrap = wrap /\ World.out = out /\ World.fault = fault
        /\ ~World.fault /\ \A w \in Windows : Ok(World, w)
    BY DEF WrappersOk, Sound, ScreensOk, World
  <1>3. SignalsAreLive /\ NothingIsLost
    BY <1>2 DEF Ok, SignalsAreLive, NothingIsLost
  <1>4. ListsAreLive
    BY <1>1, <1>2 DEF Ok, Lit, ListsAreLive
  <1> QED
    BY <1>3, <1>4 DEF WrappersAreSound

\* For any windows, surfaces and outputs, any places, width and duration: whatever X clients,
\* the user and the monitors do, every window of X has the wrapper it asks for, which hears and
\* shows the surface it has, is shown when X maps it, and is listed on the output it is on, which
\* exists (xwayland_view.c:676, xwayland_unmanaged_view.c:437, server.c:650); unless an output
\* goes while a window that is not mapped is on it (output.c:972).
THEOREM WrappersStaySound ==
    ASSUME "withdrawn" \notin Races
    PROVE  Spec => []WrappersAreSound
  <1>1. Init => WrappersOk
    BY InitOk
  <1>2. WrappersOk /\ [Next]_vars => WrappersOk'
    BY NextKeeps
  <1>3. WrappersOk => WrappersAreSound
    BY SoundIsEnough
  <1> QED
    BY <1>1, <1>2, <1>3, PTL DEF Spec
-----------------------------------------------------------------------------
(***************************************************************************)
(* A second theorem: where windows are, without the orders                 *)
(* of events that `Races' names.                                            *)
(*                                                                         *)
(* The invariant says of each window that its node is where its box is, but *)
(* for its motion (`Hit'), and that X has been told where it is or is to be *)
(* (`Told'); `Shape' is what these rest on: what is in flight belongs to a  *)
(* window that is shown, and what travels has been placed before.  A        *)
(* handler of a window touches no other (`Alone'), and its window sits      *)
(* where the handler put it (`Sits'); a handler of an output leaves every   *)
(* window placed already or for the layout to tell (`Ready').               *)
(***************************************************************************)

\* Where a window is to be once the operation in flight has landed.
Target(r) == IF r.pending = None THEN r.geo ELSE r.pending.geo

\* What a wrapper must be like for it to be anywhere.
Shape(h, w) ==
    LET r == h.wrap[w] IN
    /\ r.pending # None => r.mapped /\ r.known
    /\ r.motion.flying => r.motion.placed /\ r.mapped
    /\ r.motion.placed => r.known
    /\ r.motion.placed /\ ~r.motion.flying => r.motion.drawn = r.geo
    /\ r.known => r.kind = "managed"
    /\ r.kind = "managed" /\ r.mapped => r.known
    /\ r.known \/ r.mapped => r.out \in Everywhere

\* The node is where the box is, but for the motion.
Hit(h, w) ==
    LET r == h.wrap[w] IN
    r.known \/ r.mapped => r.node = Origin(h, w) + r.geo + Offset(h, w)

\* X has been told where the window is, or is to be.
Told(h, w) ==
    LET r == h.wrap[w] IN
    r.known /\ r.out # Fallback /\ ~r.owes => h.x[w].at = Origin(h, w) + Target(r)

Placed(h, w) == Shape(h, w) /\ Hit(h, w) /\ Told(h, w)

\* A window that travels after a step has set off from where it was, or travels on: as before, or
\* a frame has left it where it is to be at a later time of the same motion.
Glides(r, q) ==
    q.motion.flying =>
       \/ q.node = r.node /\ q.motion = r.motion /\ q.geo = r.geo
       \/ q.node = r.node /\ q.motion.age = 0 /\ q.motion.drawn = q.motion.from
       \/ /\ r.motion.flying /\ q.geo = r.geo
          /\ q.motion.from = r.motion.from /\ q.motion.age > r.motion.age
          /\ q.motion.drawn = Position(q.motion, q.geo)

\* Every window does in a step.
Steady == \A w \in Windows : Glides(wrap[w], wrap'[w])

\* The outputs are where they were, and so are the other windows.
SameAts(h, d) == \A o \in Everywhere : d.out[o].at = h.out[o].at
Alone(h, d, w) ==
    /\ SameAts(h, d)
    /\ \A v \in Windows \ {w} : d.wrap[v] = h.wrap[v] /\ d.x[v] = h.x[v]

\* What became of a window that was given the place g.
Sits(h, d, w, g) ==
    LET r == h.wrap[w]
        q == d.wrap[w]
    IN  /\ Alone(h, d, w) /\ d \in Worlds /\ d.x = h.x
        /\ q.kind = r.kind /\ q.out = r.out /\ q.known = r.known /\ q.mapped = r.mapped
        /\ q.pending = r.pending /\ q.owes = r.owes
        /\ q.geo = g
        /\ q.motion.flying => q.motion.placed /\ r.mapped
        /\ q.motion.placed => r.known
        /\ q.motion.placed /\ ~q.motion.flying => q.motion.drawn = g
        /\ q.node = Origin(h, w) + g + Offset(d, w)
        /\ Glides(r, q)

\* `Alone' is transitive.
LEMMA AloneTrans ==
    ASSUME NEW g, NEW h, NEW d, NEW w \in Windows, Alone(g, h, w), Alone(h, d, w)
    PROVE  Alone(g, d, w)
  BY DEF Alone, SameAts

\* A wrapper is one window's.
LEMMA AlonePut ==
    ASSUME NEW h \in Worlds, NEW w \in Windows, NEW r \in Wraps
    PROVE  LET d == PutWrap(h, w, r) IN
           Alone(h, d, w) /\ d \in Worlds /\ d.x = h.x /\ d.out = h.out /\ d.ws = h.ws /\ d.wrap[w] = r
  BY PutWrapType DEF Alone, SameAts

\* And so is what X knows of a window.
LEMMA AlonePutX ==
    ASSUME NEW h \in Worlds, NEW w \in Windows, NEW r \in XStates
    PROVE  LET d == PutX(h, w, r) IN
           Alone(h, d, w) /\ d \in Worlds /\ d.wrap = h.wrap /\ d.out = h.out /\ d.ws = h.ws /\ d.x[w] = r
  BY PutXType DEF Alone, SameAts

\* Where a window is depends on itself and its output.
LEMMA PlacedKept ==
    ASSUME NEW h, NEW d, NEW w \in Windows, Placed(h, w),
           SameAts(h, d), d.wrap[w] = h.wrap[w], d.x[w].at = h.x[w].at
    PROVE  Placed(d, w)
  <1>1. CASE h.wrap[w].known \/ h.wrap[w].mapped
    <2>1. h.wrap[w].out \in Everywhere
      BY <1>1 DEF Placed, Shape
    <2>2. Origin(d, w) = Origin(h, w) /\ Offset(d, w) = Offset(h, w)
      BY <2>1 DEF Origin, Offset, SameAts
    <2> QED
      BY <2>2 DEF Placed, Shape, Hit, Told
  <1>2. CASE ~(h.wrap[w].known \/ h.wrap[w].mapped)
    BY <1>2 DEF Placed, Shape, Hit, Told
  <1> QED
    BY <1>1, <1>2

\* A window that sits where X was told is placed.
LEMMA SitsIsPlaced ==
    ASSUME NEW h \in Worlds, NEW d, NEW w \in Windows, NEW g, Sits(h, d, w, g), Shape(h, w),
           LET r == h.wrap[w] IN
           r.known /\ r.out # Fallback /\ ~r.owes =>
               h.x[w].at = Origin(h, w) + (IF r.pending = None THEN g ELSE r.pending.geo)
    PROVE  Placed(d, w)
  <1>1. Shape(d, w)
    BY DEF Sits, Shape
  <1>2. CASE h.wrap[w].known \/ h.wrap[w].mapped
    <2>1. h.wrap[w].out \in Everywhere
      BY <1>2 DEF Shape
    <2>2. Origin(d, w) = Origin(h, w)
      BY <2>1 DEF Origin, Sits, Alone, SameAts
    <2>3. Hit(d, w) /\ Told(d, w)
      BY <2>2 DEF Sits, Hit, Told, Target
    <2> QED
      BY <1>1, <2>3 DEF Placed
  <1>3. CASE ~(h.wrap[w].known \/ h.wrap[w].mapped)
    BY <1>1, <1>3 DEF Placed, Sits, Hit, Told
  <1> QED
    BY <1>2, <1>3

-----------------------------------------------------------------------------
(* Motion                                                                  *)

\* hikari_animation_move() that declines.
LEMMA SnapSits ==
    ASSUME NEW h \in Worlds, NEW w \in Windows, NEW g \in Int, h.wrap[w].out # None,
           h.wrap[w].known
    PROVE  Sits(h, Snap(h, w, g), w, g) /\ Snap(h, w, g).out = h.out
           /\ ~Snap(h, w, g).wrap[w].motion.flying
  <1>1. Origin(h, w) \in Int /\ Origin(h, w) + g \in Int
    BY OriginIsInt
  <1> DEFINE m == [flying |-> FALSE, placed |-> TRUE, from |-> g, drawn |-> g, age |-> 0]
             at == Origin(h, w) + g
             r == [h.wrap[w] EXCEPT !.geo = g, !.node = at, !.motion = m]
             d == PutWrap(h, w, r)
  <1>2. m \in Motions /\ m.flying = FALSE /\ m.drawn = g
    BY StartOfClock DEF Motions
  <1>3. Snap(h, w, g) = d
    BY DEF Snap, PutWrap, Worlds, Wraps
  <1>4. h.wrap[w] \in Wraps
    BY DEF Worlds
  <1> HIDE DEF m, at
  <1>5. /\ r \in Wraps /\ r.kind = h.wrap[w].kind /\ r.out = h.wrap[w].out /\ r.known = h.wrap[w].known
        /\ r.mapped = h.wrap[w].mapped /\ r.pending = h.wrap[w].pending /\ r.owes = h.wrap[w].owes
        /\ r.geo = g /\ r.node = at /\ r.motion = m
    BY <1>1, <1>2, <1>4 DEF Wraps, at
  <1> HIDE DEF r
  <1>6. Alone(h, d, w) /\ d \in Worlds /\ d.x = h.x /\ d.out = h.out /\ d.wrap[w] = r
    BY <1>5, AlonePut
  <1> HIDE DEF d
  <1>7. at = Origin(h, w) + g + Offset(d, w)
    BY <1>1, <1>2, <1>5, <1>6 DEF Offset, at
  <1> QED
    BY <1>2, <1>3, <1>5, <1>6, <1>7 DEF Sits, Glides

\* hikari_output_add_damage() moves nothing.
LEMMA ScheduledAlone ==
    ASSUME NEW h \in Worlds, NEW o \in Everywhere
    PROVE  LET d == Scheduled(h, o) IN d \in Worlds /\ SameAts(h, d) /\ d.x = h.x /\ d.wrap = h.wrap
  <1> DEFINE s == [h.out[o] EXCEPT !.due = @ \/ h.out[o].on]
             d == [h EXCEPT !.out[o] = s]
  <1>1. h.out[o] \in Screens
    BY DEF Worlds
  <1>2. Scheduled(h, o) = d
    BY DEF Scheduled, Worlds, Screens
  <1>3. s \in Screens /\ s.at = h.out[o].at
    BY <1>1 DEF Screens
  <1> HIDE DEF s
  <1>4. d \in Worlds /\ d.wrap = h.wrap /\ d.x = h.x /\ d.out[o] = s
        /\ \A p \in Everywhere \ {o} : d.out[p] = h.out[p]
    BY <1>3, PutOutType
  <1> HIDE DEF d
  <1> QED
    BY <1>2, <1>3, <1>4 DEF SameAts

\* A window sets off from where it is drawn.
LEMMA FlySits ==
    ASSUME NEW h \in Worlds, NEW w \in Windows, NEW g \in Int, Shape(h, w), Hit(h, w),
           h.wrap[w].out # None, h.wrap[w].mapped, h.wrap[w].known, h.wrap[w].motion.placed
    PROVE  Sits(h, Fly(h, w, g), w, g)
  <1> DEFINE o == h.wrap[w].out
             k == Scheduled(h, o)
             m == [h.wrap[w].motion EXCEPT !.flying = TRUE, !.from = h.wrap[w].motion.drawn, !.age = 0]
             r == [h.wrap[w] EXCEPT !.geo = g, !.motion = m]
             d == PutWrap(k, w, r)
  <1>1. /\ h.wrap[w] \in Wraps /\ h.wrap[w].motion \in Motions /\ o \in Everywhere
        /\ Origin(h, w) \in Int /\ h.wrap[w].geo \in Int /\ h.wrap[w].motion.drawn \in Int
    BY OriginIsInt DEF Worlds, Wraps, Motions
  <1>2. /\ m \in Motions /\ m.flying /\ m.drawn = h.wrap[w].motion.drawn
        /\ m.placed = h.wrap[w].motion.placed /\ m.from = m.drawn /\ m.age = 0
    BY <1>1, StartOfClock DEF Motions
  <1>3. k \in Worlds /\ SameAts(h, k) /\ k.x = h.x /\ k.wrap = h.wrap
    BY <1>1, ScheduledAlone
  <1>4. Fly(h, w, g) = d
    <2>1. Fly(h, w, g) = [k EXCEPT !.wrap[w].geo = g, !.wrap[w].motion = m]
      BY DEF Fly
    <2> HIDE DEF m, k
    <2> QED
      BY ZenonT(60), <1>1, <1>3, <2>1 DEF PutWrap, Worlds, Wraps
  <1>5. h.wrap[w].node = Origin(h, w) + h.wrap[w].motion.drawn
    <2>1. h.wrap[w].node = Origin(h, w) + h.wrap[w].geo + Offset(h, w)
      BY DEF Hit
    <2>2. CASE h.wrap[w].motion.flying
      BY <1>1, <2>1, <2>2 DEF Offset
    <2>3. CASE ~h.wrap[w].motion.flying
      BY <1>1, <2>1, <2>3 DEF Offset, Shape
    <2> QED
      BY <2>2, <2>3
  <1> HIDE DEF m, k
  <1>6. /\ r \in Wraps /\ r.kind = h.wrap[w].kind /\ r.out = h.wrap[w].out /\ r.known = h.wrap[w].known
        /\ r.mapped = h.wrap[w].mapped /\ r.pending = h.wrap[w].pending /\ r.owes = h.wrap[w].owes
        /\ r.geo = g /\ r.node = h.wrap[w].node /\ r.motion = m
    BY <1>1, <1>2 DEF Wraps
  <1> HIDE DEF r
  <1>7. Alone(k, d, w) /\ d \in Worlds /\ d.x = k.x /\ d.wrap[w] = r
    BY <1>3, <1>6, AlonePut
  <1> HIDE DEF d
  <1>8. Alone(h, d, w)
    BY <1>3, <1>7 DEF Alone, SameAts
  <1>9. h.wrap[w].node = Origin(h, w) + g + Offset(d, w)
    BY <1>1, <1>2, <1>5, <1>6, <1>7 DEF Offset
  <1> QED
    BY <1>2, <1>3, <1>4, <1>6, <1>7, <1>8, <1>9 DEF Sits, Glides

\* hikari_view_refresh_geometry(), whether the window travels or not.
LEMMA RefreshSits ==
    ASSUME NEW h \in Worlds, NEW w \in Windows, NEW g \in Int, Shape(h, w), Hit(h, w),
           h.wrap[w].out # None, h.wrap[w].mapped, h.wrap[w].known, NEW may \in BOOLEAN
    PROVE  Sits(h, Refresh(h, w, g, may), w, g)
  <1> DEFINE at == Origin(h, w) + g
             r == [h.wrap[w] EXCEPT !.node = at]
             d == PutWrap(h, w, r)
  <1>1. at \in Int /\ h.wrap[w] \in Wraps /\ Origin(h, w) \in Int
    BY OriginIsInt DEF Worlds
  <1>2. [h EXCEPT !.wrap[w].node = Origin(h, w) + g] = d
    BY DEF PutWrap, Worlds, Wraps
  <1> HIDE DEF at
  <1>3. /\ r \in Wraps /\ r.kind = h.wrap[w].kind /\ r.out = h.wrap[w].out /\ r.known = h.wrap[w].known
        /\ r.mapped = h.wrap[w].mapped /\ r.pending = h.wrap[w].pending /\ r.owes = h.wrap[w].owes
        /\ r.geo = h.wrap[w].geo /\ r.node = at /\ r.motion = h.wrap[w].motion
    BY <1>1 DEF Wraps
  <1> HIDE DEF r
  <1>4. Alone(h, d, w) /\ d \in Worlds /\ d.x = h.x /\ d.out = h.out /\ d.wrap[w] = r
    BY <1>3, AlonePut
  <1> HIDE DEF d
  <1>5. ASSUME h.wrap[w].geo = g, ~h.wrap[w].motion.flying
        PROVE  Sits(h, d, w, g)
    <2>1. at = Origin(h, w) + g + Offset(d, w)
      BY <1>1, <1>3, <1>4, <1>5 DEF Offset, at
    <2> QED
      BY <1>3, <1>4, <1>5, <2>1 DEF Sits, Shape, Glides
  <1> QED
    BY <1>2, <1>5, FlySits, SnapSits DEF Refresh

\* hikari_animation_cancel() touches one window's node and motion.
LEMMA CancelAlone ==
    ASSUME NEW h \in Worlds, NEW w \in Windows, h.wrap[w].out # None
    PROVE  LET d == Cancel(h, w)
               r == h.wrap[w]
               q == d.wrap[w]
           IN  /\ Alone(h, d, w) /\ d \in Worlds /\ d.x = h.x /\ d.out = h.out
               /\ q.kind = r.kind /\ q.out = r.out /\ q.known = r.known /\ q.mapped = r.mapped
               /\ q.pending = r.pending /\ q.owes = r.owes /\ q.geo = r.geo /\ q.motion = Still
               /\ q.node = IF r.motion.flying THEN Origin(h, w) + r.geo ELSE r.node
  <1> DEFINE at == IF h.wrap[w].motion.flying THEN Origin(h, w) + h.wrap[w].geo ELSE h.wrap[w].node
             r == [h.wrap[w] EXCEPT !.node = at, !.motion = Still]
             d == PutWrap(h, w, r)
  <1>1. h.wrap[w] \in Wraps /\ Origin(h, w) \in Int
    BY OriginIsInt DEF Worlds
  <1>2. at \in Int
    BY <1>1 DEF Wraps
  <1>3. Cancel(h, w) = d
    BY DEF Cancel, PutWrap, Worlds, Wraps
  <1>4. Still \in Motions
    BY StartOfClock DEF Still, Motions
  <1> HIDE DEF at
  <1>5. /\ r \in Wraps /\ r.kind = h.wrap[w].kind /\ r.out = h.wrap[w].out /\ r.known = h.wrap[w].known
        /\ r.mapped = h.wrap[w].mapped /\ r.pending = h.wrap[w].pending /\ r.owes = h.wrap[w].owes
        /\ r.geo = h.wrap[w].geo /\ r.node = at /\ r.motion = Still
    BY <1>1, <1>2, <1>4 DEF Wraps
  <1> HIDE DEF r
  <1>6. Alone(h, d, w) /\ d \in Worlds /\ d.x = h.x /\ d.out = h.out /\ d.wrap[w] = r
    BY <1>5, AlonePut
  <1> HIDE DEF d
  <1> QED
    BY <1>3, <1>5, <1>6 DEF at

\* A window whose motion is cancelled is where it was going.
LEMMA CancelSits ==
    ASSUME NEW h \in Worlds, NEW w \in Windows, h.wrap[w].out # None, Hit(h, w),
           h.wrap[w].known \/ h.wrap[w].mapped
    PROVE  /\ Sits(h, Cancel(h, w), w, h.wrap[w].geo)
           /\ Cancel(h, w).out = h.out /\ Cancel(h, w).wrap[w].motion = Still
  <1>1. h.wrap[w] \in Wraps /\ Origin(h, w) \in Int /\ h.wrap[w].geo \in Int
    BY OriginIsInt DEF Worlds, Wraps
  <1>2. Still.flying = FALSE /\ Still.placed = FALSE
    BY DEF Still
  <1> DEFINE d == Cancel(h, w)
  <1>3. /\ Alone(h, d, w) /\ d \in Worlds /\ d.x = h.x /\ d.out = h.out
        /\ d.wrap[w].kind = h.wrap[w].kind /\ d.wrap[w].out = h.wrap[w].out
        /\ d.wrap[w].known = h.wrap[w].known /\ d.wrap[w].mapped = h.wrap[w].mapped
        /\ d.wrap[w].pending = h.wrap[w].pending /\ d.wrap[w].owes = h.wrap[w].owes
        /\ d.wrap[w].geo = h.wrap[w].geo /\ d.wrap[w].motion = Still
        /\ d.wrap[w].node = IF h.wrap[w].motion.flying THEN Origin(h, w) + h.wrap[w].geo
                            ELSE h.wrap[w].node
    BY CancelAlone
  <1> HIDE DEF d
  <1>4. d.wrap[w].node = Origin(h, w) + h.wrap[w].geo + Offset(d, w)
    BY <1>1, <1>2, <1>3 DEF Hit, Offset
  <1> QED
    BY <1>2, <1>3, <1>4 DEF Sits, Glides, d

\* A frame leaves a window where its motion says, or where it is to be.
LEMMA TickedSits ==
    ASSUME NEW h \in Worlds, NEW w \in Windows, h.wrap[w].out # None, Shape(h, w),
           h.wrap[w].motion.flying, NEW age \in 1 .. Duration, age > h.wrap[w].motion.age, NEW may \in BOOLEAN
    PROVE  Sits(h, Ticked(h, w, age, may), w, h.wrap[w].geo)
  <1> DEFINE m == [h.wrap[w].motion EXCEPT !.age = age]
             landed == ~may \/ age = Duration
             here == IF landed THEN h.wrap[w].geo ELSE Position(m, h.wrap[w].geo)
             after == IF landed THEN [m EXCEPT !.flying = FALSE, !.drawn = here, !.from = here, !.age = 0]
                      ELSE [m EXCEPT !.drawn = here]
             at == Origin(h, w) + here
             r == [h.wrap[w] EXCEPT !.node = at, !.motion = after]
             d == PutWrap(h, w, r)
  <1>1. h.wrap[w] \in Wraps /\ h.wrap[w].motion \in Motions /\ h.wrap[w].geo \in Int /\ Origin(h, w) \in Int
    BY OriginIsInt DEF Worlds, Wraps
  <1>2. here \in Int
    BY <1>1, PositionIsInt
  <1>3. Ticked(h, w, age, may) = d
    <2>1. Ticked(h, w, age, may) = [h EXCEPT !.wrap[w].node = at, !.wrap[w].motion = after]
      BY DEF Ticked
    <2> HIDE DEF at, after
    <2> QED
      BY <2>1 DEF PutWrap, Worlds, Wraps
  <1>4. landed => here = h.wrap[w].geo
    OBVIOUS
  <1>10. ~landed => /\ after.from = h.wrap[w].motion.from /\ after.age = age
                    /\ here = Position(after, h.wrap[w].geo)
    <2>1. m.from = h.wrap[w].motion.from /\ m.age = age
      BY <1>1 DEF Motions
    <2>2. ~landed => after = [m EXCEPT !.drawn = here] /\ here = Position(m, h.wrap[w].geo)
      OBVIOUS
    <2> HIDE DEF here
    <2>3. ~landed => after.from = m.from /\ after.age = m.age
      BY <1>1, <2>2 DEF Motions
    <2> QED
      BY <2>1, <2>2, <2>3 DEF Position
  <1> HIDE DEF here
  <1>5. at \in Int
    BY <1>1, <1>2
  <1>6. /\ after \in Motions /\ after.placed = h.wrap[w].motion.placed /\ after.drawn = here
        /\ IF landed THEN after.flying = FALSE ELSE after.flying
    <2>1. CASE landed
      BY <1>1, <1>2, <2>1, StartOfClock DEF Motions
    <2>2. CASE ~landed
      <3>1. age \in 0 .. Duration - 1
        BY <2>2, SpaceAssumption
      <3> QED
        BY <1>1, <1>2, <2>2, <3>1 DEF Motions
    <2> QED
      BY <2>1, <2>2
  <1> HIDE DEF at, after, landed
  <1>7. /\ r \in Wraps /\ r.kind = h.wrap[w].kind /\ r.out = h.wrap[w].out /\ r.known = h.wrap[w].known
        /\ r.mapped = h.wrap[w].mapped /\ r.pending = h.wrap[w].pending /\ r.owes = h.wrap[w].owes
        /\ r.geo = h.wrap[w].geo /\ r.node = at /\ r.motion = after
    BY <1>1, <1>5, <1>6 DEF Wraps
  <1> HIDE DEF r
  <1>8. Alone(h, d, w) /\ d \in Worlds /\ d.x = h.x /\ d.out = h.out /\ d.wrap[w] = r
    BY <1>7, AlonePut
  <1> HIDE DEF d
  <1>9. at = Origin(h, w) + h.wrap[w].geo + Offset(d, w)
    BY <1>1, <1>2, <1>4, <1>6, <1>7, <1>8 DEF Offset, at
  <1>11. Glides(h.wrap[w], d.wrap[w])
    BY <1>6, <1>7, <1>8, <1>10 DEF Glides
  <1> QED
    BY <1>3, <1>4, <1>6, <1>7, <1>8, <1>9, <1>11 DEF Sits, Shape

-----------------------------------------------------------------------------
(* Wrappers                                                                *)

\* A wrapper that has never been anywhere.
Bare(r) == ~r.known /\ ~r.mapped /\ r.pending = None /\ r.motion = Still

\* It is nowhere it should not be.
LEMMA BareIsPlaced ==
    ASSUME NEW h \in Worlds, NEW w \in Windows, Bare(h.wrap[w])
    PROVE  Placed(h, w) /\ ~h.wrap[w].motion.flying
  <1>1. h.wrap[w] \in Wraps
    BY DEF Worlds
  <1>2. Still.flying = FALSE /\ Still.placed = FALSE
    BY DEF Still
  <1> QED
    BY <1>1, <1>2 DEF Bare, Placed, Shape, Hit, Told, Wraps

\* A surface that is heard moves at most the tree of a menu.
LEMMA AttachAlone ==
    ASSUME NEW h \in Worlds, NEW w \in Windows
    PROVE  LET d == Attach(h, w)
               r == h.wrap[w]
               q == d.wrap[w]
           IN  /\ Alone(h, d, w) /\ d \in Worlds /\ d.x = h.x /\ d.out = h.out /\ d.ws = h.ws
               /\ q.kind = r.kind /\ q.out = r.out /\ q.known = r.known /\ q.mapped = r.mapped
               /\ q.pending = r.pending /\ q.owes = r.owes /\ q.geo = r.geo /\ q.motion = r.motion
               /\ r.kind = "managed" => q.node = r.node
  <1> DEFINE s == h.x[w].surface
             tree == IF h.wrap[w].tree = None THEN s ELSE h.wrap[w].tree
             node == IF h.wrap[w].tree = None THEN h.x[w].at ELSE h.wrap[w].node
             q == [h.wrap[w] EXCEPT !.heard = s, !.tree = tree]
             f == PutWrap(h, w, q)
             r == [q EXCEPT !.node = node]
             d == PutWrap(f, w, r)
  <1>1. h.wrap[w] \in Wraps /\ h.x[w] \in XStates
    BY DEF Worlds
  <1>2. s \in Surfaces \cup {None} /\ tree \in Surfaces \cup {None} /\ node \in Int
    BY <1>1 DEF Wraps, XStates
  <1>3. AttachView(h, w) = f
    BY DEF AttachView, PutWrap, Worlds, Wraps
  <1>4. AttachMenu(h, w) = [f EXCEPT !.wrap[w].node = IF h.wrap[w].tree = None THEN h.x[w].at ELSE @]
    BY <1>3 DEF AttachMenu
  <1> HIDE DEF s, tree, node
  <1>5. /\ q \in Wraps /\ q.kind = h.wrap[w].kind /\ q.out = h.wrap[w].out /\ q.known = h.wrap[w].known
        /\ q.mapped = h.wrap[w].mapped /\ q.pending = h.wrap[w].pending /\ q.owes = h.wrap[w].owes
        /\ q.geo = h.wrap[w].geo /\ q.motion = h.wrap[w].motion /\ q.node = h.wrap[w].node
    BY ZenonT(60), <1>1, <1>2 DEF Wraps
  <1> HIDE DEF q
  <1>6. Alone(h, f, w) /\ f \in Worlds /\ f.x = h.x /\ f.out = h.out /\ f.ws = h.ws /\ f.wrap[w] = q
    BY <1>5, AlonePut
  <1> HIDE DEF f
  <1>7. /\ r \in Wraps /\ r.kind = q.kind /\ r.out = q.out /\ r.known = q.known
        /\ r.mapped = q.mapped /\ r.pending = q.pending /\ r.owes = q.owes
        /\ r.geo = q.geo /\ r.motion = q.motion
    BY <1>2, <1>5 DEF Wraps
  <1>8. AttachMenu(h, w) = d
    BY <1>4, <1>5, <1>6 DEF PutWrap, Worlds, Wraps, node
  <1> HIDE DEF r
  <1>9. Alone(f, d, w) /\ d \in Worlds /\ d.x = f.x /\ d.out = f.out /\ d.ws = f.ws /\ d.wrap[w] = r
    BY <1>6, <1>7, AlonePut
  <1> HIDE DEF d
  <1>10. Alone(h, d, w)
    BY <1>6, <1>9, AloneTrans
  <1>11. Attach(h, w) = IF h.wrap[w].kind = "managed" THEN f ELSE d
    BY <1>3, <1>8 DEF Attach
  <1> QED
    BY <1>5, <1>6, <1>7, <1>9, <1>10, <1>11

\* A new wrapper has not been anywhere.
LEMMA WrappedIsBare ==
    ASSUME NEW h \in Worlds, NEW w \in Windows
    PROVE  LET d == Wrapped(h, w) IN
           Alone(h, d, w) /\ d \in Worlds /\ d.x = h.x /\ Bare(d.wrap[w])
  <1> DEFINE kind == IF h.x[w].override THEN "unmanaged" ELSE "managed"
             r == [NoWrap EXCEPT !.kind = kind, !.out = h.ws]
             f == PutWrap(h, w, r)
  <1>1. h.ws \in Everywhere
    BY DEF Worlds
  <1>2. r \in Wraps /\ ~r.known /\ ~r.mapped /\ r.pending = None /\ r.motion = Still
    BY ZenonT(60), <1>1, NoWrapType DEF NoWrap, Wraps
  <1>3. Wrapped(h, w) = IF h.x[w].surface = None THEN f ELSE Attach(f, w)
    BY DEF Wrapped, PutWrap
  <1> HIDE DEF r
  <1>4. Alone(h, f, w) /\ f \in Worlds /\ f.x = h.x /\ f.wrap[w] = r
    BY <1>2, AlonePut
  <1> HIDE DEF f
  <1> DEFINE d == Attach(f, w)
  <1>5. /\ Alone(f, d, w) /\ d \in Worlds /\ d.x = f.x /\ d.wrap[w].known = r.known
        /\ d.wrap[w].mapped = r.mapped /\ d.wrap[w].pending = r.pending /\ d.wrap[w].motion = r.motion
    BY <1>4, AttachAlone
  <1> HIDE DEF d
  <1>6. Alone(h, d, w)
    BY <1>4, <1>5, AloneTrans
  <1> QED
    BY <1>2, <1>3, <1>4, <1>5, <1>6 DEF Bare, d

\* first_map(): the window goes where it was put, and X is told.
LEMMA FirstMapPlaces ==
    ASSUME NEW h \in Worlds, NEW w \in Windows, Lit(h, h.ws), Lit(h, h.wrap[w].out), Shape(h, w),
           h.wrap[w].kind = "managed", ~h.wrap[w].mapped, NEW g \in FirstMap(h, w)
    PROVE  /\ Alone(h, g, w) /\ g \in Worlds /\ Placed(g, w) /\ g.out = h.out
           /\ g.wrap[w].known /\ g.wrap[w].kind = "managed" /\ g.wrap[w].out = h.ws
           /\ ~g.wrap[w].motion.flying
  <1>1. Follow(h, w) = h
    BY FollowKeeps
  <1>2. h.wrap[w] \in Wraps /\ h.x[w] \in XStates /\ h.ws \in Everywhere /\ h.out[h.ws].at \in Int
    BY DEF Worlds, Screens
  <1> DEFINE r == [h.wrap[w] EXCEPT !.known = TRUE, !.out = h.ws, !.owes = FALSE]
             f == PutWrap(h, w, r)
  <1>3. PICK d \in 0 .. Width - 1 :
           g = Snap([h EXCEPT !.wrap[w].known = TRUE, !.wrap[w].out = h.ws, !.wrap[w].owes = FALSE,
                              !.x[w].at = h.out[h.ws].at + Constrain(h.ws, d)], w, Constrain(h.ws, d))
    BY <1>1 DEF FirstMap
  <1> DEFINE a == Constrain(h.ws, d)
             at == h.out[h.ws].at + a
             c == [h.x[w] EXCEPT !.at = at]
             k == PutX(f, w, c)
  <1>4. a \in Int /\ at \in Int
    BY <1>2, ConstrainIsInt
  <1>5. g = Snap([h EXCEPT !.wrap[w].known = TRUE, !.wrap[w].out = h.ws, !.wrap[w].owes = FALSE,
                           !.x[w].at = at], w, a)
    BY <1>3
  <1> HIDE DEF a, at
  <1>6. [h EXCEPT !.wrap[w].known = TRUE, !.wrap[w].out = h.ws, !.wrap[w].owes = FALSE,
                  !.x[w].at = at] = k
    BY ZenonT(60) DEF PutX, PutWrap, Worlds, Wraps, XStates
  <1>7. /\ r \in Wraps /\ r.known = TRUE /\ r.out = h.ws /\ r.owes = FALSE /\ r.kind = h.wrap[w].kind
        /\ r.mapped = h.wrap[w].mapped /\ r.pending = h.wrap[w].pending /\ r.geo = h.wrap[w].geo
        /\ r.motion = h.wrap[w].motion
    BY <1>2 DEF Wraps
  <1>8. c \in XStates /\ c.at = at
    BY <1>2, <1>4 DEF XStates
  <1> HIDE DEF r, c
  <1>9. Alone(h, f, w) /\ f \in Worlds /\ f.x = h.x /\ f.out = h.out /\ f.wrap[w] = r
    BY <1>7, AlonePut
  <1> HIDE DEF f
  <1>10. Alone(f, k, w) /\ k \in Worlds /\ k.wrap = f.wrap /\ k.out = f.out /\ k.x[w] = c
    BY <1>8, <1>9, AlonePutX
  <1> HIDE DEF k
  <1>11. Alone(h, k, w) /\ k.wrap[w] = r /\ k.out = h.out
    BY <1>9, <1>10, AloneTrans
  <1>12. Shape(k, w)
    BY <1>2, <1>7, <1>11 DEF Shape
  <1>13. Origin(k, w) + a = at
    BY <1>7, <1>11 DEF Origin, at
  <1>14. h.ws # None
    BY <1>2, NoneAssumption DEF Everywhere
  <1>15. Sits(k, g, w, a) /\ g.out = k.out /\ ~g.wrap[w].motion.flying
    BY ZenonT(60), <1>4, <1>5, <1>6, <1>7, <1>10, <1>11, <1>14, SnapSits
  <1>16. k.x[w].at = Origin(k, w) + (IF k.wrap[w].pending = None THEN a ELSE k.wrap[w].pending.geo)
    BY <1>7, <1>8, <1>10, <1>11, <1>13 DEF Shape
  <1>17. Placed(g, w)
    BY <1>10, <1>12, <1>15, <1>16, SitsIsPlaced
  <1>18. Alone(k, g, w) /\ g \in Worlds /\ g.wrap[w].known /\ g.wrap[w].kind = "managed"
         /\ g.wrap[w].out = h.ws
    BY <1>7, <1>11, <1>15 DEF Sits
  <1> QED
    BY <1>11, <1>15, <1>17, <1>18, AloneTrans

\* map() of a view, which is where it was if it has been mapped before.
LEMMA MapViewPlaces ==
    ASSUME NEW h \in Worlds, NEW w \in Windows, Lit(h, h.ws), Lit(h, h.wrap[w].out), Placed(h, w),
           h.wrap[w].kind = "managed", ~h.wrap[w].mapped, NEW g \in MapView(h, w)
    PROVE  Alone(h, g, w) /\ g \in Worlds /\ Placed(g, w) /\ ~g.wrap[w].motion.flying
  <1>1. PICK k \in IF h.wrap[w].known THEN {h} ELSE FirstMap(h, w) :
           g = [Follow(k, w) EXCEPT !.wrap[w].commit = k.x[w].surface, !.wrap[w].mapped = TRUE,
                                    !.wrap[w].listed = k.wrap[w].out]
    BY DEF MapView
  <1>2. /\ Alone(h, k, w) /\ k \in Worlds /\ Placed(k, w) /\ k.wrap[w].known
        /\ k.wrap[w].kind = "managed" /\ Lit(k, k.wrap[w].out) /\ ~k.wrap[w].motion.flying
    <2>1. CASE h.wrap[w].known
      BY <1>1, <2>1 DEF Alone, SameAts, Placed, Shape
    <2>2. CASE ~h.wrap[w].known
      BY <1>1, <2>2, FirstMapPlaces DEF Placed, Lit
    <2> QED
      BY <2>1, <2>2
  <1>3. Follow(k, w) = k
    BY <1>2, FollowKeeps
  <1> DEFINE r == [k.wrap[w] EXCEPT !.commit = k.x[w].surface, !.mapped = TRUE, !.listed = k.wrap[w].out]
             d == PutWrap(k, w, r)
  <1>4. g = d
    BY ZenonT(60), <1>1, <1>2, <1>3 DEF PutWrap, Worlds, Wraps
  <1>5. k.wrap[w] \in Wraps /\ k.x[w].surface \in Surfaces \cup {None} /\ k.wrap[w].out \in Everywhere
    BY <1>2 DEF Worlds, XStates, Lit
  <1>6. /\ r \in Wraps /\ r.known = k.wrap[w].known /\ r.out = k.wrap[w].out /\ r.owes = k.wrap[w].owes
        /\ r.kind = k.wrap[w].kind /\ r.mapped /\ r.pending = k.wrap[w].pending
        /\ r.geo = k.wrap[w].geo /\ r.motion = k.wrap[w].motion /\ r.node = k.wrap[w].node
    BY <1>5 DEF Wraps
  <1> HIDE DEF r
  <1>7. Alone(k, d, w) /\ d \in Worlds /\ d.x = k.x /\ d.out = k.out /\ d.wrap[w] = r
    BY <1>2, <1>6, AlonePut
  <1> HIDE DEF d
  <1>8. Origin(d, w) = Origin(k, w) /\ Offset(d, w) = Offset(k, w)
    BY <1>6, <1>7 DEF Origin, Offset
  <1>9. Shape(d, w)
    BY <1>2, <1>5, <1>6, <1>7 DEF Placed, Shape
  <1>10. Hit(d, w) /\ Told(d, w)
    BY <1>2, <1>6, <1>7, <1>8 DEF Placed, Hit, Told, Target
  <1> QED
    BY <1>2, <1>4, <1>6, <1>7, <1>9, <1>10, AloneTrans DEF Placed

\* map_unmanaged(): the box and the tree are where X has the menu.
LEMMA MapMenuPlaces ==
    ASSUME NEW h \in Worlds, NEW w \in Windows, Lit(h, h.wrap[w].out), Placed(h, w),
           h.wrap[w].kind # "managed", ~h.wrap[w].mapped, NEW g \in MapMenu(h, w)
    PROVE  Alone(h, g, w) /\ g \in Worlds /\ Placed(g, w) /\ ~g.wrap[w].motion.flying
  <1> DEFINE at == h.x[w].at
             s == h.x[w].surface
             o == h.wrap[w].out
             geo == at - Origin(h, w)
             q == [h.wrap[w] EXCEPT !.commit = s, !.mapped = TRUE, !.listed = o]
             k == PutWrap(h, w, q)
             r == [q EXCEPT !.geo = geo, !.node = at]
             d == PutWrap(k, w, r)
  <1>1. h.wrap[w] \in Wraps /\ h.x[w] \in XStates /\ h.wrap[w].out # None
    BY NoneAssumption DEF Worlds, Lit, Everywhere
  <1>2. geo \in Int /\ at \in Int /\ s \in Surfaces \cup {None} /\ o \in Everywhere /\ Origin(h, w) \in Int
        /\ at = Origin(h, w) + geo
    BY <1>1, OriginIsInt DEF XStates, Lit
  <1>3. g = [[h EXCEPT !.wrap[w].commit = s, !.wrap[w].mapped = TRUE, !.wrap[w].listed = o]
                EXCEPT !.wrap[w].geo = geo, !.wrap[w].node = at]
    <2>1. Follow(h, w) = h
      BY FollowKeeps
    <2> QED
      BY <2>1 DEF MapMenu
  <1> HIDE DEF geo, at, s
  <1>4. [h EXCEPT !.wrap[w].commit = s, !.wrap[w].mapped = TRUE, !.wrap[w].listed = o] = k
    BY DEF PutWrap, Worlds, Wraps
  <1>5. /\ q \in Wraps /\ q.known = h.wrap[w].known /\ q.out = h.wrap[w].out /\ q.mapped
        /\ q.kind = h.wrap[w].kind /\ q.pending = h.wrap[w].pending /\ q.motion = h.wrap[w].motion
    BY <1>1, <1>2 DEF Wraps
  <1> HIDE DEF q
  <1>6. Alone(h, k, w) /\ k \in Worlds /\ k.x = h.x /\ k.out = h.out /\ k.wrap[w] = q
    BY <1>5, AlonePut
  <1> HIDE DEF k
  <1>7. [k EXCEPT !.wrap[w].geo = geo, !.wrap[w].node = at] = d
    BY ZenonT(60), <1>5, <1>6 DEF PutWrap, Worlds, Wraps
  <1>8. /\ r \in Wraps /\ r.known = q.known /\ r.out = q.out /\ r.mapped = q.mapped /\ r.kind = q.kind
        /\ r.pending = q.pending /\ r.motion = q.motion /\ r.geo = geo /\ r.node = at
    BY <1>2, <1>5 DEF Wraps
  <1> HIDE DEF r
  <1>9. Alone(k, d, w) /\ d \in Worlds /\ d.x = k.x /\ d.out = k.out /\ d.wrap[w] = r
    BY <1>6, <1>8, AlonePut
  <1> HIDE DEF d
  <1>10. /\ h.wrap[w].known = FALSE /\ h.wrap[w].pending = None
         /\ h.wrap[w].motion.flying = FALSE /\ h.wrap[w].motion.placed = FALSE
    <2>1. /\ h.wrap[w].known \in BOOLEAN
          /\ h.wrap[w].motion.flying \in BOOLEAN /\ h.wrap[w].motion.placed \in BOOLEAN
      BY <1>1 DEF Wraps, Motions
    <2> QED
      BY <2>1 DEF Placed, Shape
  <1>11. Origin(d, w) = Origin(h, w) /\ Offset(d, w) = 0
    BY <1>5, <1>6, <1>8, <1>9, <1>10 DEF Origin, Offset
  <1>12. Alone(h, d, w)
    BY <1>6, <1>9, AloneTrans
  <1>13. Shape(d, w)
    BY <1>2, <1>5, <1>8, <1>9, <1>10 DEF Placed, Shape, o
  <1>14. Hit(d, w)
    BY <1>2, <1>8, <1>9, <1>11 DEF Hit
  <1>15. Told(d, w)
    BY <1>5, <1>8, <1>9, <1>10 DEF Told
  <1>16. g = d
    BY <1>3, <1>4, <1>7
  <1> QED
    BY <1>5, <1>8, <1>9, <1>10, <1>12, <1>13, <1>14, <1>15, <1>16 DEF Placed

\* unmap() of a menu, and of a view that does not travel and waits for nothing.
LEMMA UnmapMenuAlone ==
    ASSUME NEW h \in Worlds, NEW w \in Windows, Lit(h, h.wrap[w].out)
    PROVE  LET d == UnmapMenu(h, w)
               r == h.wrap[w]
               q == d.wrap[w]
           IN  /\ Alone(h, d, w) /\ d \in Worlds /\ d.x = h.x /\ d.out = h.out
               /\ q.mapped = FALSE /\ q.kind = r.kind /\ q.out = r.out /\ q.known = r.known
               /\ q.pending = r.pending /\ q.owes = r.owes /\ q.geo = r.geo /\ q.node = r.node
               /\ q.motion = r.motion
  <1> DEFINE r == [h.wrap[w] EXCEPT !.mapped = FALSE, !.commit = None, !.listed = None]
             d == PutWrap(h, w, r)
  <1>1. h.wrap[w] \in Wraps
    BY DEF Worlds
  <1>2. CASE h.wrap[w].mapped
    <2>1. UnmapMenu(h, w) = d
      BY <1>2, FollowKeeps DEF UnmapMenu, PutWrap, Worlds, Wraps
    <2>2. /\ r \in Wraps /\ r.mapped = FALSE /\ r.kind = h.wrap[w].kind /\ r.out = h.wrap[w].out
          /\ r.known = h.wrap[w].known /\ r.pending = h.wrap[w].pending /\ r.owes = h.wrap[w].owes
          /\ r.geo = h.wrap[w].geo /\ r.node = h.wrap[w].node /\ r.motion = h.wrap[w].motion
      BY <1>1 DEF Wraps
    <2> HIDE DEF r
    <2>3. Alone(h, d, w) /\ d \in Worlds /\ d.x = h.x /\ d.out = h.out /\ d.wrap[w] = r
      BY <2>2, AlonePut
    <2> HIDE DEF d
    <2> QED
      BY <2>1, <2>2, <2>3
  <1>3. CASE ~h.wrap[w].mapped
    <2>1. h.wrap[w].mapped = FALSE
      BY <1>1, <1>3 DEF Wraps
    <2> QED
      BY <1>3, <2>1 DEF UnmapMenu, Alone, SameAts
  <1> QED
    BY <1>2, <1>3

\* A hidden menu is nowhere.
LEMMA UnmapMenuPlaces ==
    ASSUME NEW h \in Worlds, NEW w \in Windows, Lit(h, h.wrap[w].out), Placed(h, w),
           h.wrap[w].kind # "managed"
    PROVE  LET d == UnmapMenu(h, w) IN
           Alone(h, d, w) /\ d \in Worlds /\ d.x = h.x /\ Placed(d, w) /\ ~d.wrap[w].motion.flying
  <1> DEFINE d == UnmapMenu(h, w)
  <1>1. h.wrap[w].known = FALSE /\ h.wrap[w].pending = None /\ h.wrap[w].motion.placed = FALSE
        /\ h.wrap[w].motion.flying = FALSE
    <2>1. h.wrap[w] \in Wraps /\ h.wrap[w].motion \in Motions
      BY DEF Worlds, Wraps
    <2> QED
      BY <2>1 DEF Placed, Shape, Wraps, Motions
  <1>2. /\ Alone(h, d, w) /\ d \in Worlds /\ d.x = h.x /\ d.out = h.out
        /\ d.wrap[w].mapped = FALSE /\ d.wrap[w].kind = h.wrap[w].kind
        /\ d.wrap[w].known = FALSE /\ d.wrap[w].pending = None
        /\ d.wrap[w].motion = h.wrap[w].motion
    BY <1>1, UnmapMenuAlone
  <1> HIDE DEF d
  <1>3. Placed(d, w)
    BY <1>1, <1>2 DEF Placed, Shape, Hit, Told
  <1> QED
    BY <1>1, <1>2, <1>3 DEF d

\* unmap() of a view: it stays where it was going, and what X was told is owed.
LEMMA UnmapViewPlaces ==
    ASSUME NEW h \in Worlds, NEW w \in Windows, Lit(h, h.wrap[w].out), Placed(h, w)
    PROVE  LET d == UnmapView(h, w) IN
           /\ Alone(h, d, w) /\ d \in Worlds /\ d.x = h.x /\ ~d.wrap[w].motion.flying
           /\ h.wrap[w].kind = "managed" => Placed(d, w)
  <1> DEFINE k == Cancel(h, w)
             u == UnmapMenu(k, w)
             owes == u.wrap[w].owes \/ h.wrap[w].pending # None
             r == [u.wrap[w] EXCEPT !.pending = None, !.owes = owes]
             d == PutWrap(u, w, r)
  <1>1. h.wrap[w].out # None /\ h.wrap[w].out \in Everywhere
    BY NoneAssumption DEF Lit, Everywhere
  <1>2. /\ Alone(h, k, w) /\ k \in Worlds /\ k.x = h.x /\ k.out = h.out
        /\ k.wrap[w].kind = h.wrap[w].kind /\ k.wrap[w].out = h.wrap[w].out
        /\ k.wrap[w].known = h.wrap[w].known /\ k.wrap[w].mapped = h.wrap[w].mapped
        /\ k.wrap[w].owes = h.wrap[w].owes
        /\ k.wrap[w].geo = h.wrap[w].geo /\ k.wrap[w].motion = Still
        /\ k.wrap[w].node = IF h.wrap[w].motion.flying THEN Origin(h, w) + h.wrap[w].geo
                            ELSE h.wrap[w].node
    BY <1>1, CancelAlone
  <1> HIDE DEF k
  <1>3. Lit(k, k.wrap[w].out)
    BY <1>2 DEF Lit
  <1>4. /\ Alone(k, u, w) /\ u \in Worlds /\ u.x = k.x /\ u.out = k.out /\ u.wrap[w] \in Wraps
        /\ u.wrap[w].mapped = FALSE /\ u.wrap[w].kind = k.wrap[w].kind /\ u.wrap[w].out = k.wrap[w].out
        /\ u.wrap[w].known = k.wrap[w].known /\ u.wrap[w].owes = k.wrap[w].owes
        /\ u.wrap[w].geo = k.wrap[w].geo /\ u.wrap[w].node = k.wrap[w].node
        /\ u.wrap[w].motion = k.wrap[w].motion
    BY ZenonT(60), <1>2, <1>3, UnmapMenuAlone DEF Worlds
  <1>5. UnmapView(h, w) = d
    <2>1. UnmapView(h, w) = [u EXCEPT !.wrap[w].pending = None,
                                      !.wrap[w].owes = @ \/ h.wrap[w].pending # None]
      BY DEF UnmapView, k
    <2> HIDE DEF u
    <2> QED
      BY ZenonT(60), <1>4, <2>1 DEF PutWrap, Worlds, Wraps
  <1> HIDE DEF u
  <1>6. owes \in BOOLEAN /\ (~owes => ~h.wrap[w].owes /\ h.wrap[w].pending = None)
    BY <1>2, <1>4 DEF Wraps
  <1> HIDE DEF owes
  <1>7. /\ r \in Wraps /\ r.mapped = FALSE /\ r.kind = u.wrap[w].kind /\ r.out = u.wrap[w].out
        /\ r.known = u.wrap[w].known /\ r.owes = owes /\ r.pending = None
        /\ r.geo = u.wrap[w].geo /\ r.node = u.wrap[w].node /\ r.motion = u.wrap[w].motion
    BY <1>4, <1>6 DEF Wraps
  <1> HIDE DEF r
  <1>8. Alone(u, d, w) /\ d \in Worlds /\ d.x = u.x /\ d.out = u.out /\ d.wrap[w] = r
    BY <1>4, <1>7, AlonePut
  <1> HIDE DEF d
  <1>9. Alone(h, d, w) /\ d.x = h.x
    BY <1>2, <1>4, <1>8, AloneTrans
  <1>10. /\ d.wrap[w].mapped = FALSE /\ d.wrap[w].kind = h.wrap[w].kind /\ d.wrap[w].out = h.wrap[w].out
         /\ d.wrap[w].known = h.wrap[w].known /\ d.wrap[w].owes = owes /\ d.wrap[w].pending = None
         /\ d.wrap[w].geo = h.wrap[w].geo /\ d.wrap[w].node = k.wrap[w].node
         /\ d.wrap[w].motion = Still /\ d.out = h.out
    BY <1>2, <1>4, <1>7, <1>8
  <1>11. ASSUME h.wrap[w].kind = "managed"
         PROVE  Placed(d, w)
    <2>1. Still.flying = FALSE /\ Still.placed = FALSE
      BY DEF Still
    <2>2. Origin(d, w) = Origin(h, w) /\ Offset(d, w) = 0
      BY <1>10, <2>1 DEF Origin, Offset
    <2>3. Shape(d, w)
      BY <1>1, <1>10, <1>11, <2>1 DEF Shape
    <2>4. h.wrap[w].known => k.wrap[w].node = Origin(h, w) + h.wrap[w].geo
      <3>1. Origin(h, w) \in Int /\ h.wrap[w].geo \in Int
        BY <1>1, OriginIsInt DEF Worlds, Wraps
      <3> QED
        BY <1>2, <3>1 DEF Placed, Hit, Offset
    <2>5. Hit(d, w)
      <3>1. Origin(h, w) \in Int /\ h.wrap[w].geo \in Int
        BY <1>1, OriginIsInt DEF Worlds, Wraps
      <3> QED
        BY <1>10, <2>2, <2>4, <3>1 DEF Hit
    <2>6. Told(d, w)
      BY <1>6, <1>9, <1>10, <2>2 DEF Told, Placed, Target
    <2> QED
      BY <2>3, <2>5, <2>6 DEF Placed
  <1>12. Still.flying = FALSE
    BY DEF Still
  <1> QED
    BY <1>5, <1>8, <1>9, <1>10, <1>11, <1>12

\* Unmapping a wrapper of either kind.
LEMMA UnmapWrapPlaces ==
    ASSUME NEW h \in Worlds, NEW w \in Windows, Lit(h, h.wrap[w].out), Placed(h, w)
    PROVE  LET d == UnmapWrap(h, w) IN
           Alone(h, d, w) /\ d \in Worlds /\ d.x = h.x /\ Placed(d, w) /\ ~d.wrap[w].motion.flying
  BY UnmapMenuPlaces, UnmapViewPlaces DEF UnmapWrap

\* Mapping a wrapper of either kind.
LEMMA MapWrapPlaces ==
    ASSUME NEW h \in Worlds, NEW w \in Windows, Lit(h, h.ws), Lit(h, h.wrap[w].out), Placed(h, w),
           ~h.wrap[w].mapped, NEW g \in MapWrap(h, w)
    PROVE  Alone(h, g, w) /\ g \in Worlds /\ Placed(g, w) /\ ~g.wrap[w].motion.flying
  BY MapViewPlaces, MapMenuPlaces DEF MapWrap

\* A wrapper that is destroyed leaves nothing behind.
LEMMA DestroyWrapPlaces ==
    ASSUME NEW h \in Worlds, NEW w \in Windows, Lit(h, h.wrap[w].out), Placed(h, w)
    PROVE  LET d == DestroyWrap(h, w) IN
           Alone(h, d, w) /\ d \in Worlds /\ d.x = h.x /\ Bare(d.wrap[w])
  <1> DEFINE u == UnmapWrap(h, w)
             d == PutWrap(u, w, NoWrap)
  <1>1. Alone(h, u, w) /\ u \in Worlds /\ u.x = h.x
    BY UnmapWrapPlaces
  <1>2. DestroyWrap(h, w) = d
    BY DEF DestroyWrap, PutWrap
  <1> HIDE DEF u
  <1>3. Alone(u, d, w) /\ d \in Worlds /\ d.x = u.x /\ d.wrap[w] = NoWrap
    BY <1>1, NoWrapType, AlonePut
  <1> HIDE DEF d
  <1>4. Alone(h, d, w)
    BY <1>1, <1>3, AloneTrans
  <1> QED
    BY <1>1, <1>2, <1>3, <1>4 DEF Bare, NoWrap

\* hikari_server_adopt_xwayland_surface(): wherever the window was, its wrapper knows.
LEMMA AdoptPlaces ==
    ASSUME NEW h \in Worlds, NEW w \in Windows, Lit(h, h.ws), NEW g \in Adopt(h, w)
    PROVE  Alone(h, g, w) /\ g \in Worlds /\ Placed(g, w) /\ ~g.wrap[w].motion.flying
  <1> DEFINE k == Wrapped(h, w)
  <1>1. Alone(h, k, w) /\ k \in Worlds /\ Bare(k.wrap[w])
    BY WrappedIsBare
  <1>2. Lit(k, k.ws) /\ Lit(k, k.wrap[w].out)
    BY WrappedKeeps, LitKept DEF Only
  <1>3. h.x[w].mapped => g \in MapWrap(k, w)
    BY DEF Adopt
  <1>4. ~h.x[w].mapped => g = k
    BY DEF Adopt
  <1> HIDE DEF k
  <1>5. Placed(k, w) /\ ~k.wrap[w].motion.flying
    BY <1>1, BareIsPlaced
  <1>6. CASE h.x[w].mapped
    <2>1. Alone(k, g, w) /\ g \in Worlds /\ Placed(g, w) /\ ~g.wrap[w].motion.flying
      BY <1>1, <1>2, <1>3, <1>5, <1>6, MapWrapPlaces DEF Bare
    <2> QED
      BY <1>1, <2>1, AloneTrans
  <1> QED
    BY <1>1, <1>4, <1>5, <1>6

-----------------------------------------------------------------------------
(* X clients                                                               *)

PlacesOk == \A w \in Windows : Placed(World, w)

\* A handler that concerns one window, and leaves it placed.
LEMMA PlacesStep ==
    ASSUME PlacesOk, NEW d \in Worlds, NEW w \in Windows, Alone(World, d, w), Placed(d, w),
           Glides(wrap[w], d.wrap[w]), Becomes(d)
    PROVE  PlacesOk' /\ Steady
  <1>1. World' = d
    BY Became
  <1>2. \A v \in Windows : Placed(d, v)
    BY PlacedKept DEF Alone, PlacesOk
  <1>3. \A v \in Windows : Placed(World', v)
    BY <1>1, <1>2
  <1>4. wrap' = d.wrap /\ \A v \in Windows \ {w} : d.wrap[v] = wrap[v]
    BY DEF Becomes, Alone, World
  <1>5. \A v \in Windows : Glides(wrap[v], wrap'[v])
    BY <1>4 DEF Glides
  <1> QED
    BY <1>3, <1>5 DEF PlacesOk, Steady

\* What X says of a window, but for its place, moves nothing.
LEMMA PutXPlaces ==
    ASSUME NEW h \in Worlds, NEW w \in Windows, NEW r \in XStates, r.at = h.x[w].at, Placed(h, w)
    PROVE  LET d == PutX(h, w, r) IN
           /\ Alone(h, d, w) /\ d \in Worlds /\ Placed(d, w)
           /\ d.wrap = h.wrap /\ d.out = h.out /\ d.ws = h.ws /\ d.x[w] = r
  <1> DEFINE d == PutX(h, w, r)
  <1>1. Alone(h, d, w) /\ d \in Worlds /\ d.wrap = h.wrap /\ d.out = h.out /\ d.ws = h.ws /\ d.x[w] = r
    BY AlonePutX
  <1> HIDE DEF d
  <1>2. Placed(d, w)
    BY <1>1, PlacedKept DEF SameAts
  <1> QED
    BY <1>1, <1>2 DEF d

\* new_xwayland_surface_handler().
LEMMA NewPlaces ==
    ASSUME WrappersOk, PlacesOk, NEW w \in Windows, NEW override \in BOOLEAN,
           NEW s \in Surfaces \cup {None}, New(w, override, s)
    PROVE  PlacesOk' /\ Steady
  <1>1. PICK a \in Spots : \E g \in Adopt([World EXCEPT !.x[w] =
                [NoWindow EXCEPT !.alive = TRUE, !.override = override, !.surface = s, !.at = a]], w) :
                Becomes(g)
    BY DEF New
  <1> DEFINE r == [NoWindow EXCEPT !.alive = TRUE, !.override = override, !.surface = s, !.at = a]
             h == PutX(World, w, r)
  <1>2. a \in Int
    BY SpotIsInt
  <1>3. r \in XStates
    BY <1>2 DEF XStates, NoWindow
  <1>4. PICK g \in Adopt(h, w) : Becomes(g)
    BY <1>1 DEF PutX
  <1> HIDE DEF r
  <1>5. Alone(World, h, w) /\ h \in Worlds /\ Lit(h, h.ws)
    BY <1>3, AtFirst, AlonePutX DEF Lit
  <1> HIDE DEF h
  <1>6. Alone(h, g, w) /\ g \in Worlds /\ Placed(g, w) /\ ~g.wrap[w].motion.flying
    BY <1>4, <1>5, AdoptPlaces
  <1> QED
    BY <1>4, <1>5, <1>6, AloneTrans, PlacesStep DEF Glides

\* associate_handler(): the window is not mapped, so that a menu may be placed.
LEMMA AssociatePlaces ==
    ASSUME WrappersOk, PlacesOk, NEW w \in Windows, NEW s \in Surfaces, Associate(w, s)
    PROVE  PlacesOk' /\ Steady
  <1> DEFINE r == [x[w] EXCEPT !.surface = s]
             h == PutX(World, w, r)
             d == Attach(h, w)
  <1>1. /\ x[w].alive /\ x[w].surface = None /\ x[w] \in XStates /\ Ok(World, w)
        /\ World.x = x /\ World.wrap = wrap /\ World \in Worlds /\ Placed(World, w)
    BY AtFirst DEF Associate, PlacesOk
  <1>2. r \in XStates /\ r.at = x[w].at
    BY <1>1 DEF XStates
  <1>3. [World EXCEPT !.x[w].surface = s] = h
    BY <1>1 DEF PutX, Worlds, XStates
  <1>4. Becomes(d)
    BY <1>3 DEF Associate
  <1> HIDE DEF r
  <1>5. Alone(World, h, w) /\ h \in Worlds /\ Placed(h, w) /\ h.wrap = wrap
    BY <1>1, <1>2, PutXPlaces
  <1> HIDE DEF h
  <1>6. /\ Alone(h, d, w) /\ d \in Worlds /\ d.x = h.x /\ d.out = h.out
        /\ d.wrap[w].kind = wrap[w].kind /\ d.wrap[w].out = wrap[w].out
        /\ d.wrap[w].known = wrap[w].known /\ d.wrap[w].mapped = wrap[w].mapped
        /\ d.wrap[w].pending = wrap[w].pending /\ d.wrap[w].owes = wrap[w].owes
        /\ d.wrap[w].geo = wrap[w].geo /\ d.wrap[w].motion = wrap[w].motion
        /\ wrap[w].kind = "managed" => d.wrap[w].node = wrap[w].node
    BY <1>5, AttachAlone
  <1> HIDE DEF d
  <1>7. ~wrap[w].mapped
    BY <1>1 DEF Ok
  <1>8. Origin(d, w) = Origin(h, w) /\ Offset(d, w) = Offset(h, w)
    BY <1>5, <1>6 DEF Origin, Offset
  <1>9. Shape(d, w)
    BY <1>5, <1>6 DEF Placed, Shape
  <1>10. Hit(d, w)
    BY <1>5, <1>6, <1>7, <1>8 DEF Placed, Shape, Hit
  <1>11. Told(d, w)
    BY <1>5, <1>6, <1>8 DEF Placed, Told, Target
  <1>12. Placed(d, w) /\ Alone(World, d, w)
    BY <1>5, <1>6, <1>9, <1>10, <1>11, AloneTrans DEF Placed
  <1> QED
    BY <1>4, <1>5, <1>6, <1>7, <1>12, PlacesStep DEF Placed, Shape, Glides

\* map_handler().
LEMMA MapXPlaces ==
    ASSUME WrappersOk, PlacesOk, NEW w \in Windows, MapX(w)
    PROVE  PlacesOk' /\ Steady
  <1> DEFINE r == [x[w] EXCEPT !.mapped = TRUE]
             h == PutX(World, w, r)
  <1>1. /\ x[w].surface # None /\ ~x[w].mapped /\ x[w] \in XStates /\ Ok(World, w)
        /\ World.x = x /\ World.wrap = wrap /\ World.ws = ws /\ World \in Worlds /\ Placed(World, w)
    BY AtFirst DEF MapX, PlacesOk
  <1>2. r \in XStates /\ r.at = x[w].at
    BY <1>1 DEF XStates
  <1>3. [World EXCEPT !.x[w].mapped = TRUE] = h
    BY <1>1 DEF PutX, Worlds, XStates
  <1>4. x[w].alive /\ wrap[w].heard = x[w].surface /\ ~wrap[w].mapped
        /\ Lit(World, wrap[w].out) /\ Lit(World, ws)
    BY <1>1, AtFirst DEF Ok, XStates
  <1>5. PICK g \in MapWrap(h, w) : Becomes(g)
    BY <1>3, <1>4 DEF MapX
  <1> HIDE DEF r
  <1>6. Alone(World, h, w) /\ h \in Worlds /\ Placed(h, w) /\ h.wrap = wrap
        /\ h.out = World.out /\ h.ws = ws
    BY <1>1, <1>2, PutXPlaces
  <1> HIDE DEF h
  <1>7. Lit(h, h.ws) /\ Lit(h, h.wrap[w].out)
    BY <1>4, <1>6 DEF Lit
  <1>8. Alone(h, g, w) /\ g \in Worlds /\ Placed(g, w) /\ ~g.wrap[w].motion.flying
    BY <1>4, <1>5, <1>6, <1>7, MapWrapPlaces
  <1> QED
    BY <1>5, <1>6, <1>8, AloneTrans, PlacesStep DEF Glides

\* unmap_handler().
LEMMA UnmapXPlaces ==
    ASSUME WrappersOk, PlacesOk, NEW w \in Windows, UnmapX(w)
    PROVE  PlacesOk' /\ Steady
  <1> DEFINE r == [x[w] EXCEPT !.mapped = FALSE]
             h == PutX(World, w, r)
             g == UnmapWrap(h, w)
  <1>1. /\ x[w].mapped /\ x[w] \in XStates /\ Ok(World, w)
        /\ World.x = x /\ World.wrap = wrap /\ World \in Worlds /\ Placed(World, w)
    BY AtFirst DEF UnmapX, PlacesOk
  <1>2. r \in XStates /\ r.at = x[w].at
    BY <1>1 DEF XStates
  <1>3. [World EXCEPT !.x[w].mapped = FALSE] = h
    BY <1>1 DEF PutX, Worlds, XStates
  <1>4. x[w].alive /\ wrap[w].heard = x[w].surface /\ Lit(World, wrap[w].out)
    BY <1>1, AtFirst DEF Ok, XStates
  <1>5. Becomes(g)
    BY <1>3, <1>4 DEF UnmapX
  <1> HIDE DEF r
  <1>6. Alone(World, h, w) /\ h \in Worlds /\ Placed(h, w) /\ h.wrap = wrap /\ h.out = World.out
    BY <1>1, <1>2, PutXPlaces
  <1> HIDE DEF h
  <1>7. Lit(h, h.wrap[w].out)
    BY <1>4, <1>6 DEF Lit
  <1>8. Alone(h, g, w) /\ g \in Worlds /\ Placed(g, w) /\ ~g.wrap[w].motion.flying
    BY <1>6, <1>7, UnmapWrapPlaces
  <1> HIDE DEF g
  <1> QED
    BY <1>5, <1>6, <1>8, AloneTrans, PlacesStep DEF Glides

\* Nor does what a wrapper hears and shows.
LEMMA PlacedPut ==
    ASSUME NEW h \in Worlds, NEW w \in Windows, NEW r \in Wraps, Placed(h, w),
           LET q == h.wrap[w] IN
           /\ r.kind = q.kind /\ r.out = q.out /\ r.known = q.known /\ r.mapped = q.mapped
           /\ r.pending = q.pending /\ r.owes = q.owes /\ r.geo = q.geo /\ r.node = q.node
           /\ r.motion = q.motion
    PROVE  LET d == PutWrap(h, w, r) IN
           Alone(h, d, w) /\ d \in Worlds /\ d.x = h.x /\ Placed(d, w) /\ d.wrap[w] = r
  <1> DEFINE d == PutWrap(h, w, r)
  <1>1. Alone(h, d, w) /\ d \in Worlds /\ d.x = h.x /\ d.out = h.out /\ d.wrap[w] = r
    BY AlonePut
  <1> HIDE DEF d
  <1>2. Origin(d, w) = Origin(h, w) /\ Offset(d, w) = Offset(h, w)
    BY <1>1 DEF Origin, Offset
  <1>3. Shape(d, w) /\ Hit(d, w) /\ Told(d, w)
    BY <1>1, <1>2 DEF Placed, Shape, Hit, Told, Target
  <1> QED
    BY <1>1, <1>3 DEF Placed, d

\* dissociate_handler().
LEMMA DissociatePlaces ==
    ASSUME WrappersOk, PlacesOk, NEW w \in Windows, Dissociate(w)
    PROVE  PlacesOk' /\ Steady
  <1> DEFINE u == UnmapWrap(World, w)
             q == [u.wrap[w] EXCEPT !.heard = None, !.tree = None]
             k == PutWrap(u, w, q)
             r == [k.x[w] EXCEPT !.surface = None, !.mapped = FALSE]
             g == PutX(k, w, r)
  <1>1. /\ x[w].surface # None /\ x[w] \in XStates /\ Ok(World, w)
        /\ World.x = x /\ World.wrap = wrap /\ World \in Worlds /\ Placed(World, w)
    BY AtFirst DEF Dissociate, PlacesOk
  <1>2. x[w].alive /\ Lit(World, wrap[w].out)
    BY <1>1, AtFirst DEF Ok, XStates
  <1>3. Alone(World, u, w) /\ u \in Worlds /\ u.x = x /\ Placed(u, w) /\ ~u.wrap[w].motion.flying
    BY <1>1, <1>2, UnmapWrapPlaces
  <1>4. Becomes([[u EXCEPT !.wrap[w].heard = None, !.wrap[w].tree = None]
                    EXCEPT !.x[w].surface = None, !.x[w].mapped = FALSE])
    BY DEF Dissociate, Dissociated
  <1> HIDE DEF u
  <1>5. [u EXCEPT !.wrap[w].heard = None, !.wrap[w].tree = None] = k /\ u.wrap[w] \in Wraps
    BY <1>3 DEF PutWrap, Worlds, Wraps
  <1>6. /\ q \in Wraps /\ q.kind = u.wrap[w].kind /\ q.out = u.wrap[w].out
        /\ q.known = u.wrap[w].known /\ q.mapped = u.wrap[w].mapped
        /\ q.pending = u.wrap[w].pending /\ q.owes = u.wrap[w].owes
        /\ q.geo = u.wrap[w].geo /\ q.node = u.wrap[w].node /\ q.motion = u.wrap[w].motion
    BY <1>5 DEF Wraps
  <1> HIDE DEF q
  <1>7. Alone(u, k, w) /\ k \in Worlds /\ k.x = u.x /\ Placed(k, w) /\ k.wrap[w] = q
    BY <1>3, <1>6, PlacedPut
  <1> HIDE DEF k
  <1>8. [k EXCEPT !.x[w].surface = None, !.x[w].mapped = FALSE] = g
    BY <1>7 DEF PutX, Worlds, XStates
  <1>9. Becomes(g)
    BY <1>4, <1>5, <1>8
  <1>10. r \in XStates /\ r.at = k.x[w].at
    BY <1>1, <1>3, <1>7 DEF XStates
  <1> HIDE DEF r
  <1>11. Alone(k, g, w) /\ g \in Worlds /\ Placed(g, w) /\ g.wrap = k.wrap
    BY <1>7, <1>10, PutXPlaces
  <1> HIDE DEF g
  <1>12. Alone(World, g, w)
    BY <1>3, <1>7, <1>11, AloneTrans
  <1> QED
    BY <1>3, <1>6, <1>7, <1>9, <1>11, <1>12, PlacesStep DEF Glides

\* destroy_handler().
LEMMA DestroyPlaces ==
    ASSUME WrappersOk, PlacesOk, NEW w \in Windows, Destroy(w)
    PROVE  PlacesOk' /\ Steady
  <1> DEFINE k == DestroyWrap(World, w)
             g == PutX(k, w, NoWindow)
  <1>1. Lit(World, wrap[w].out) /\ World.wrap = wrap /\ World \in Worlds /\ Placed(World, w)
    BY AtFirst DEF Destroy, PlacesOk
  <1>2. Alone(World, k, w) /\ k \in Worlds /\ Bare(k.wrap[w])
    BY <1>1, DestroyWrapPlaces
  <1>3. Becomes(g)
    BY DEF Destroy, PutX
  <1> HIDE DEF k
  <1>4. NoWindow \in XStates
    BY DEF NoWindow, XStates
  <1>5. Alone(k, g, w) /\ g \in Worlds /\ g.wrap = k.wrap
    BY <1>2, <1>4, AlonePutX
  <1> HIDE DEF g
  <1>6. Alone(World, g, w) /\ Placed(g, w) /\ ~g.wrap[w].motion.flying
    BY <1>2, <1>5, BareIsPlaced, AloneTrans
  <1> QED
    BY <1>3, <1>5, <1>6, PlacesStep DEF Glides

\* set_override_redirect_handler(): the new wrapper is put where the window is.
LEMMA SetOverridePlaces ==
    ASSUME WrappersOk, PlacesOk, NEW w \in Windows, SetOverride(w)
    PROVE  PlacesOk' /\ Steady
  <1> DEFINE r == [x[w] EXCEPT !.override = ~x[w].override]
             h == PutX(World, w, r)
             k == DestroyWrap(h, w)
  <1>1. /\ x[w].alive /\ x[w] \in XStates /\ Lit(World, wrap[w].out) /\ Placed(World, w)
        /\ World.x = x /\ World.wrap = wrap /\ World.ws = ws /\ World \in Worlds
        /\ HiddenIsOut(wrap[w]) /\ Lit(World, ws)
    BY AtFirst DEF SetOverride, PlacesOk
  <1>2. r \in XStates /\ r.at = x[w].at
    BY <1>1 DEF XStates
  <1>3. [World EXCEPT !.x[w].override = ~@] = h
    BY <1>1 DEF PutX, Worlds, XStates
  <1>4. PICK g \in Adopt(k, w) : Becomes(g)
    BY <1>3 DEF SetOverride
  <1> HIDE DEF r
  <1>5. Alone(World, h, w) /\ h \in Worlds /\ Placed(h, w) /\ h.wrap = wrap
        /\ h.out = World.out /\ h.ws = ws
    BY <1>1, <1>2, PutXPlaces
  <1> HIDE DEF h
  <1>6. Lit(h, h.wrap[w].out) /\ Lit(h, h.ws) /\ HiddenIsOut(h.wrap[w])
    BY <1>1, <1>5 DEF Lit
  <1>7. Alone(h, k, w) /\ k \in Worlds
    BY <1>5, <1>6, DestroyWrapPlaces
  <1>8. Lit(k, k.ws)
    <2>1. Only(h, k, w)
      BY <1>5, <1>6, DestroyWrapKeeps
    <2> QED
      BY <1>6, <2>1, LitKept DEF Only
  <1> HIDE DEF k
  <1>9. Alone(k, g, w) /\ g \in Worlds /\ Placed(g, w) /\ ~g.wrap[w].motion.flying
    BY <1>4, <1>7, <1>8, AdoptPlaces
  <1>10. Alone(World, g, w)
    BY <1>5, <1>7, <1>9, AloneTrans
  <1> QED
    BY <1>4, <1>9, <1>10, PlacesStep DEF Glides

\* request_configure_handler(): a managed window owes a commit, a menu is placed by one.
LEMMA ConfigurePlaces ==
    ASSUME WrappersOk, PlacesOk, NEW w \in Windows, NEW a \in Spots, Configure(w, a)
    PROVE  PlacesOk' /\ Steady
  <1> DEFINE o == IF wrap[w].known THEN wrap[w].out ELSE ws
             kept == out[o].at + Constrain(o, a - out[o].at)
             p == [x[w] EXCEPT !.at = a]
             r == [x[w] EXCEPT !.at = kept]
             q == [wrap[w] EXCEPT !.owes = TRUE]
             h == PutX(World, w, r)
             k == PutX(World, w, p)
             g == PutWrap(h, w, q)
  <1>1. /\ x[w].alive /\ x[w] \in XStates /\ wrap[w] \in Wraps /\ Lit(World, wrap[w].out)
        /\ World.x = x /\ World.wrap = wrap /\ World.ws = ws /\ World.out = out /\ World.fault = fault
        /\ World \in Worlds /\ Sound(World) /\ Lit(World, ws) /\ Placed(World, w)
    BY AtFirst DEF Configure, PlacesOk
  <1>2. Lit(World, o) /\ out[o].at \in Int /\ a \in Int /\ fault = FALSE /\ out[o].plugged
    BY <1>1, SpotIsInt DEF Lit, Worlds, Screens, Sound, ScreensOk
  <1>3. kept \in Int
    BY <1>2, ConstrainIsInt
  <1>4. CASE wrap[w].kind # "managed"
    <2>1. Becomes(k)
      <3>1. [World EXCEPT !.x[w].at = a] = k
        BY <1>1 DEF PutX, Worlds, XStates
      <3> QED
        BY <1>4, <3>1 DEF Configure
    <2>2. p \in XStates
      BY <1>1, <1>2 DEF XStates
    <2> HIDE DEF p
    <2>3. Alone(World, k, w) /\ k \in Worlds /\ k.wrap = wrap /\ k.out = out
      BY <1>1, <2>2, AlonePutX
    <2> HIDE DEF k
    <2>4. Origin(k, w) = Origin(World, w) /\ Offset(k, w) = Offset(World, w)
      BY <1>1, <2>3 DEF Origin, Offset
    <2>5. Placed(k, w)
      BY <1>1, <1>4, <2>3, <2>4 DEF Placed, Shape, Hit, Told
    <2> QED
      BY <2>1, <2>3, <2>5, PlacesStep DEF Glides
  <1>5. CASE wrap[w].kind = "managed"
    <2>1. Becomes(g)
      <3>1. Becomes([World EXCEPT !.x[w].at = kept, !.wrap[w].owes = TRUE,
                                  !.fault = @ \/ ~out[o].plugged])
        BY <1>5 DEF Configure
      <3>2. (World.fault \/ ~out[o].plugged) = World.fault
        BY <1>1, <1>2
      <3> HIDE DEF o, kept
      <3>3. [World EXCEPT !.x[w].at = kept, !.wrap[w].owes = TRUE,
                          !.fault = @ \/ ~out[o].plugged] = g
        BY <1>1, <3>2 DEF PutX, PutWrap, Worlds, XStates, Wraps
      <3> QED
        BY <3>1, <3>3
    <2> HIDE DEF kept
    <2>2. r \in XStates
      BY <1>1, <1>3 DEF XStates
    <2>3. /\ q \in Wraps /\ q.kind = wrap[w].kind /\ q.out = wrap[w].out /\ q.known = wrap[w].known
          /\ q.mapped = wrap[w].mapped /\ q.pending = wrap[w].pending /\ q.owes
          /\ q.geo = wrap[w].geo /\ q.node = wrap[w].node /\ q.motion = wrap[w].motion
      BY <1>1 DEF Wraps
    <2> HIDE DEF r, q
    <2>4. Alone(World, h, w) /\ h \in Worlds /\ h.out = out /\ h.wrap = wrap
      BY <1>1, <2>2, AlonePutX
    <2> HIDE DEF h
    <2>5. Alone(h, g, w) /\ g \in Worlds /\ g.out = h.out /\ g.wrap[w] = q
      BY <2>3, <2>4, AlonePut
    <2> HIDE DEF g
    <2>6. Origin(g, w) = Origin(World, w) /\ Offset(g, w) = Offset(World, w)
      BY <1>1, <2>3, <2>4, <2>5 DEF Origin, Offset
    <2>7. Shape(g, w) /\ Hit(g, w) /\ Told(g, w)
      BY <1>1, <2>3, <2>4, <2>5, <2>6 DEF Placed, Shape, Hit, Told
    <2>8. Alone(World, g, w)
      BY <2>4, <2>5, AloneTrans
    <2> QED
      BY <2>1, <2>3, <2>5, <2>7, <2>8, PlacesStep DEF Placed, Glides
  <1> QED
    BY <1>4, <1>5

\* What X asks of a view, or answers, is where the view goes.
LEMMA ViewCommittedPlaces ==
    ASSUME WrappersOk, PlacesOk, NEW w \in Windows, wrap[w].mapped, wrap[w].kind = "managed",
           NEW resized \in BOOLEAN, NEW may \in BOOLEAN
    PROVE  LET d == ViewCommitted(World, w, resized, may) IN
           d \in Worlds /\ Alone(World, d, w) /\ Placed(d, w) /\ Glides(wrap[w], d.wrap[w])
  <1> DEFINE r == wrap[w]
             g == IF r.pending # None THEN r.pending.geo ELSE x[w].at - Origin(World, w)
             owes == r.owes /\ r.pending # None
             q == [r EXCEPT !.pending = None, !.owes = owes]
             seen == PutWrap(World, w, q)
             d == Refresh(seen, w, g, may)
  <1>1. /\ World.wrap = wrap /\ World.x = x /\ World.out = out /\ World \in Worlds /\ r \in Wraps
        /\ x[w] \in XStates /\ Placed(World, w) /\ Lit(World, r.out) /\ r.out # None
        /\ Origin(World, w) \in Int /\ x[w].at \in Int /\ r.geo \in Int
    <2>1. Shown(w)
      BY DEF Shown
    <2> QED
      BY <2>1, AtFirst, ShownIsLit DEF PlacesOk, XStates, Wraps
  <1>2. r.known /\ g \in Int /\ owes \in BOOLEAN
    BY <1>1 DEF Placed, Shape, Wraps
  <1>3. Follow(World, w) = World
    BY <1>1, FollowKeeps
  <1>4. [Follow(World, w) EXCEPT !.wrap[w].pending = None,
                                 !.wrap[w].owes = @ /\ r.pending # None] = seen
    BY ZenonT(60), <1>1, <1>3 DEF PutWrap, Worlds, Wraps
  <1>5. ViewCommitted(World, w, resized, may) =
          IF r.pending = None /\ g = r.geo /\ ~resized THEN seen ELSE d
    BY <1>1, <1>4 DEF ViewCommitted
  <1>6. owes => r.owes /\ r.pending # None
    OBVIOUS
  <1>7. ~owes /\ r.out # Fallback => x[w].at = Origin(World, w) + g
    <2>1. CASE r.pending = None
      BY <1>1, <2>1
    <2>2. CASE r.pending # None
      BY <1>1, <1>2, <2>2 DEF Placed, Told, Target
    <2> QED
      BY <2>1, <2>2
  <1>8. r.pending = None /\ g = r.geo => x[w].at = Origin(World, w) + r.geo
    BY <1>1
  <1> HIDE DEF owes, g
  <1>9. /\ q \in Wraps /\ q.kind = r.kind /\ q.out = r.out /\ q.known = r.known
        /\ q.mapped = r.mapped /\ q.pending = None /\ q.owes = owes
        /\ q.geo = r.geo /\ q.node = r.node /\ q.motion = r.motion
    BY <1>1, <1>2 DEF Wraps
  <1> HIDE DEF q
  <1>10. Alone(World, seen, w) /\ seen \in Worlds /\ seen.x = x /\ seen.out = out /\ seen.wrap[w] = q
    BY <1>1, <1>9, AlonePut
  <1> HIDE DEF seen
  <1>11. Origin(seen, w) = Origin(World, w) /\ Offset(seen, w) = Offset(World, w)
    BY <1>1, <1>9, <1>10 DEF Origin, Offset
  <1>12. Shape(seen, w) /\ Hit(seen, w)
    BY <1>1, <1>9, <1>10, <1>11 DEF Placed, Shape, Hit
  <1>13. CASE r.pending = None /\ g = r.geo /\ ~resized
    <2>1. Told(seen, w)
      BY <1>8, <1>9, <1>10, <1>11, <1>13 DEF Told, Target
    <2> QED
      BY <1>5, <1>9, <1>10, <1>12, <1>13, <2>1 DEF Placed, Glides
  <1>14. CASE ~(r.pending = None /\ g = r.geo /\ ~resized)
    <2>1. Sits(seen, d, w, g)
      BY <1>1, <1>2, <1>9, <1>10, <1>12, RefreshSits
    <2> HIDE DEF d
    <2>2. Placed(d, w)
      BY <1>7, <1>9, <1>10, <1>11, <1>12, <2>1, SitsIsPlaced
    <2>3. Alone(World, d, w) /\ d \in Worlds
      BY <1>10, <2>1, AloneTrans DEF Sits
    <2>4. Glides(r, d.wrap[w])
      BY <1>9, <1>10, <2>1 DEF Sits, Glides
    <2> QED
      BY <1>5, <1>14, <2>2, <2>3, <2>4
  <1> QED
    BY <1>13, <1>14

\* A menu's box and its tree go where X has it.
LEMMA MenuCommittedPlaces ==
    ASSUME WrappersOk, PlacesOk, NEW w \in Windows, x[w].alive, wrap[w].kind # "managed"
    PROVE  LET d == MenuCommitted(World, w) IN
           d \in Worlds /\ Alone(World, d, w) /\ Placed(d, w) /\ Glides(wrap[w], d.wrap[w])
  <1> DEFINE r == wrap[w]
             at == x[w].at
             geo == at - Origin(World, w)
             q == [r EXCEPT !.geo = geo, !.node = at]
             d == PutWrap(World, w, q)
  <1>1. /\ World.wrap = wrap /\ World.x = x /\ World.out = out /\ World \in Worlds /\ r \in Wraps
        /\ x[w] \in XStates /\ Placed(World, w) /\ Lit(World, r.out)
    BY AtFirst DEF PlacesOk
  <1>2. r.out # None
    BY <1>1, NoneAssumption DEF Lit, Everywhere
  <1>3. Origin(World, w) \in Int /\ at \in Int /\ geo \in Int /\ at = Origin(World, w) + geo
    BY <1>1, <1>2, OriginIsInt DEF XStates
  <1>4. MenuCommitted(World, w) = IF geo = r.geo THEN World ELSE d
    <2>1. Follow(World, w) = World
      BY <1>1, FollowKeeps
    <2>2. MenuCommitted(World, w) =
             IF geo = r.geo THEN World
             ELSE [World EXCEPT !.wrap[w].geo = geo, !.wrap[w].node = at]
      BY <1>1, <2>1 DEF MenuCommitted
    <2> HIDE DEF geo, at
    <2>3. [World EXCEPT !.wrap[w].geo = geo, !.wrap[w].node = at] = d
      BY <1>1 DEF PutWrap, Worlds, Wraps
    <2> QED
      BY <2>2, <2>3
  <1> HIDE DEF geo, at
  <1>5. /\ q \in Wraps /\ q.kind = r.kind /\ q.out = r.out /\ q.known = r.known
        /\ q.mapped = r.mapped /\ q.pending = r.pending /\ q.geo = geo /\ q.node = at
        /\ q.motion = r.motion
    BY <1>1, <1>3 DEF Wraps
  <1> HIDE DEF q
  <1>6. Alone(World, d, w) /\ d \in Worlds /\ d.x = x /\ d.out = out /\ d.wrap[w] = q
    BY <1>1, <1>5, AlonePut
  <1> HIDE DEF d
  <1>7. r.known = FALSE /\ r.motion.flying = FALSE /\ r.motion.placed = FALSE
    <2>1. r.motion \in Motions
      BY <1>1 DEF Wraps
    <2> QED
      BY <1>1, <2>1 DEF Placed, Shape, Wraps, Motions
  <1>8. Origin(d, w) = Origin(World, w) /\ Offset(d, w) = 0
    BY <1>1, <1>5, <1>6, <1>7 DEF Origin, Offset
  <1>9. Shape(d, w)
    BY <1>1, <1>5, <1>6, <1>7 DEF Placed, Shape
  <1>10. Hit(d, w)
    BY <1>3, <1>5, <1>6, <1>8 DEF Hit
  <1>11. Told(d, w)
    BY <1>5, <1>6, <1>7 DEF Told
  <1>12. Glides(r, d.wrap[w]) /\ Glides(r, r)
    BY <1>5, <1>6, <1>7 DEF Glides
  <1> QED
    BY <1>1, <1>4, <1>6, <1>9, <1>10, <1>11, <1>12 DEF Placed, Alone, SameAts

\* commit_handler() of both kinds.
LEMMA CommitPlaces ==
    ASSUME WrappersOk, PlacesOk, NEW w \in Windows, Commit(w)
    PROVE  PlacesOk' /\ Steady
  <1>1. x[w].surface # None /\ wrap[w].commit = x[w].surface /\ Ok(World, w)
        /\ World.x = x /\ World.wrap = wrap /\ x[w] \in XStates
    BY AtFirst DEF Commit
  <1>2. wrap[w].mapped /\ x[w].alive
    BY <1>1 DEF Ok, XStates
  <1>3. PICK resized, may \in BOOLEAN :
           Becomes(IF wrap[w].kind = "managed" THEN ViewCommitted(World, w, resized, may)
                                               ELSE MenuCommitted(World, w))
    BY DEF Commit
  <1> DEFINE v == ViewCommitted(World, w, resized, may)
             m == MenuCommitted(World, w)
  <1>4. wrap[w].kind = "managed" => v \in Worlds /\ Alone(World, v, w) /\ Placed(v, w) /\ Glides(wrap[w], v.wrap[w])
    BY <1>2, ViewCommittedPlaces
  <1>5. wrap[w].kind # "managed" => m \in Worlds /\ Alone(World, m, w) /\ Placed(m, w) /\ Glides(wrap[w], m.wrap[w])
    BY <1>2, MenuCommittedPlaces
  <1> HIDE DEF v, m
  <1>6. Becomes(IF wrap[w].kind = "managed" THEN v ELSE m)
    BY <1>3 DEF v, m
  <1> QED
    BY <1>4, <1>5, <1>6, PlacesStep

-----------------------------------------------------------------------------
(* The user                                                                *)

\* X is told of a place, and of an operation or of none.
Aim(h, w, p, a) == [h EXCEPT !.wrap[w].pending = p, !.x[w].at = a]

\* What becomes of a window that X is told of.
Aimed(h, d, w, p, a) ==
    LET r == h.wrap[w]
        q == d.wrap[w]
    IN  /\ Alone(h, d, w) /\ d \in Worlds /\ d.out = h.out /\ d.x[w].at = a
        /\ q.kind = r.kind /\ q.out = r.out /\ q.known = r.known /\ q.mapped = r.mapped
        /\ q.pending = p /\ q.owes = r.owes /\ q.geo = r.geo /\ q.node = r.node
        /\ q.motion = r.motion

\* An operation in flight, and what X is told, move nothing yet.
LEMMA TargetAlone ==
    ASSUME NEW h \in Worlds, NEW w \in Windows,
           NEW p \in {None} \cup [geo : Int, own : BOOLEAN], NEW a \in Int
    PROVE  Aimed(h, Aim(h, w, p, a), w, p, a)
  <1> DEFINE q == [h.wrap[w] EXCEPT !.pending = p]
             r == [h.x[w] EXCEPT !.at = a]
             k == PutWrap(h, w, q)
             d == PutX(k, w, r)
  <1>1. Aim(h, w, p, a) = d
    BY DEF Aim, PutX, PutWrap, Worlds, Wraps, XStates
  <1>2. h.wrap[w] \in Wraps /\ h.x[w] \in XStates
    BY DEF Worlds
  <1>3. /\ q \in Wraps /\ q.kind = h.wrap[w].kind /\ q.out = h.wrap[w].out
        /\ q.known = h.wrap[w].known /\ q.mapped = h.wrap[w].mapped
        /\ q.pending = p /\ q.owes = h.wrap[w].owes
        /\ q.geo = h.wrap[w].geo /\ q.node = h.wrap[w].node /\ q.motion = h.wrap[w].motion
    BY <1>2 DEF Wraps
  <1>4. r \in XStates /\ r.at = a
    BY <1>2 DEF XStates
  <1> HIDE DEF q, r
  <1>5. Alone(h, k, w) /\ k \in Worlds /\ k.out = h.out /\ k.wrap[w] = q
    BY <1>3, AlonePut
  <1> HIDE DEF k
  <1>6. Alone(k, d, w) /\ d \in Worlds /\ d.out = k.out /\ d.wrap = k.wrap /\ d.x[w] = r
    BY <1>4, <1>5, AlonePutX
  <1> HIDE DEF d
  <1>7. Alone(h, d, w)
    BY <1>5, <1>6, AloneTrans
  <1> QED
    BY <1>1, <1>3, <1>4, <1>5, <1>6, <1>7 DEF Aimed

\* An operation is something.
LEMMA PendingIsSome ==
    ASSUME NEW p \in [geo : Int, own : BOOLEAN]
    PROVE  p # None
  BY NoneAssumption

\* A window the user sees is known to be where it is.
LEMMA ShownIsPlaced ==
    ASSUME WrappersOk, PlacesOk, NEW w \in Windows, Shown(w)
    PROVE  /\ World \in Worlds /\ World.wrap = wrap /\ World.x = x /\ World.out = out /\ World.ws = ws
           /\ Placed(World, w) /\ wrap[w] \in Wraps /\ x[w] \in XStates
           /\ wrap[w].mapped /\ wrap[w].known /\ wrap[w].kind = "managed"
           /\ wrap[w].out \in Everywhere /\ wrap[w].out # None
           /\ Origin(World, w) \in Int /\ Origin(World, w) = out[wrap[w].out].at
           /\ wrap[w].geo \in Int
  <1>1. /\ World \in Worlds /\ World.wrap = wrap /\ World.x = x /\ World.out = out /\ World.ws = ws
        /\ Placed(World, w) /\ wrap[w] \in Wraps /\ x[w] \in XStates
        /\ wrap[w].mapped /\ wrap[w].kind = "managed" /\ Lit(World, wrap[w].out)
        /\ wrap[w].out # None /\ Origin(World, w) \in Int
    BY AtFirst, ShownIsLit DEF PlacesOk
  <1>2. wrap[w].known /\ wrap[w].geo \in Int
    BY <1>1 DEF Placed, Shape, Wraps
  <1> QED
    BY <1>1, <1>2 DEF Lit, Origin

\* move_view(): an operation of the user's follows the window.
LEMMA MovePlaces ==
    ASSUME WrappersOk, PlacesOk, "drag" \notin Races, NEW w \in Windows, NEW g \in Int, Move(w, g)
    PROVE  PlacesOk' /\ Steady
  <1> DEFINE op == wrap[w].pending
             follows == IF op # None /\ op.own THEN [op EXCEPT !.geo = g] ELSE op
             at == out[wrap[w].out].at + g
             h == Aim(World, w, follows, at)
  <1>1. /\ World \in Worlds /\ World.wrap = wrap /\ World.x = x /\ World.out = out
        /\ Placed(World, w) /\ wrap[w] \in Wraps
        /\ wrap[w].mapped /\ wrap[w].known /\ wrap[w].out # None
        /\ Origin(World, w) \in Int /\ Origin(World, w) = out[wrap[w].out].at
    BY ShownIsPlaced DEF Move
  <1>2. PICK may \in BOOLEAN : Becomes(Refresh(h, w, g, may))
    BY DEF Move, Aim
  <1>3. at \in Int /\ at = Origin(World, w) + g
    BY <1>1
  <1>4. follows \in {None} \cup [geo : Int, own : BOOLEAN]
    BY <1>1 DEF Wraps
  <1>5. /\ follows # None => follows.geo = g
        /\ follows = None <=> op = None
    <2>1. op = None \/ (op \in [geo : Int, own : BOOLEAN] /\ op.own)
      BY <1>1 DEF Move, Wraps
    <2>2. op # None => follows.geo = g /\ follows \in [geo : Int, own : BOOLEAN]
      BY <2>1
    <2>3. op # None => follows # None
      BY <2>1, PendingIsSome
    <2> QED
      BY <2>2, <2>3
  <1> HIDE DEF at, follows
  <1> DEFINE d == Refresh(h, w, g, may)

  <1>6. /\ Alone(World, h, w) /\ h \in Worlds /\ h.out = out /\ h.x[w].at = at
        /\ h.wrap[w].kind = wrap[w].kind /\ h.wrap[w].out = wrap[w].out
        /\ h.wrap[w].known = wrap[w].known /\ h.wrap[w].mapped = wrap[w].mapped
        /\ h.wrap[w].pending = follows /\ h.wrap[w].owes = wrap[w].owes
        /\ h.wrap[w].geo = wrap[w].geo /\ h.wrap[w].node = wrap[w].node
        /\ h.wrap[w].motion = wrap[w].motion
    <2>1. Aimed(World, h, w, follows, at)
      BY <1>1, <1>3, <1>4, TargetAlone
    <2> HIDE DEF h
    <2> QED
      BY <1>1, <2>1 DEF Aimed
  <1>7. Becomes(d)
    BY <1>2
  <1> HIDE DEF h
  <1>8. Origin(h, w) = Origin(World, w) /\ Offset(h, w) = Offset(World, w)
    BY <1>1, <1>6 DEF Origin, Offset
  <1>9. Shape(h, w) /\ Hit(h, w)
    BY <1>1, <1>6, <1>8 DEF Placed, Shape, Hit
  <1>10. Sits(h, d, w, g)
    BY <1>1, <1>6, <1>9, RefreshSits
  <1> HIDE DEF d
  <1>11. Placed(d, w)
    BY <1>3, <1>5, <1>6, <1>8, <1>9, <1>10, SitsIsPlaced
  <1>12. Alone(World, d, w) /\ d \in Worlds
    BY <1>6, <1>10, AloneTrans DEF Sits
  <1>13. Glides(wrap[w], d.wrap[w])
    BY <1>6, <1>10 DEF Sits, Glides
  <1> QED
    BY <1>7, <1>11, <1>12, <1>13, PlacesStep

\* resize(): X is told at once.
LEMMA QueuePlaces ==
    ASSUME WrappersOk, PlacesOk, NEW w \in Windows, NEW g \in Int, NEW own \in BOOLEAN, Queue(w, g, own)
    PROVE  PlacesOk' /\ Steady
  <1> DEFINE p == [geo |-> g, own |-> own]
             at == Origin(World, w) + g
             d == Aim(World, w, p, at)
  <1>1. /\ World \in Worlds /\ World.wrap = wrap /\ World.x = x /\ World.out = out
        /\ Placed(World, w) /\ wrap[w] \in Wraps
        /\ wrap[w].mapped /\ wrap[w].known /\ wrap[w].out \in Everywhere
        /\ Origin(World, w) \in Int
    BY ShownIsPlaced DEF Queue
  <1>2. Becomes(d)
    BY DEF Queue, Aim
  <1>3. p \in {None} \cup [geo : Int, own : BOOLEAN] /\ at \in Int /\ at = Origin(World, w) + g
        /\ p.geo = g /\ p # None
    BY <1>1, PendingIsSome
  <1> HIDE DEF p, at
  <1>4. /\ Alone(World, d, w) /\ d \in Worlds /\ d.out = out /\ d.x[w].at = at
        /\ d.wrap[w].kind = wrap[w].kind /\ d.wrap[w].out = wrap[w].out
        /\ d.wrap[w].known = wrap[w].known /\ d.wrap[w].mapped = wrap[w].mapped
        /\ d.wrap[w].pending = p /\ d.wrap[w].owes = wrap[w].owes
        /\ d.wrap[w].geo = wrap[w].geo /\ d.wrap[w].node = wrap[w].node
        /\ d.wrap[w].motion = wrap[w].motion
    <2>1. Aimed(World, d, w, p, at)
      BY <1>1, <1>3, TargetAlone
    <2> HIDE DEF d
    <2> QED
      BY <1>1, <2>1 DEF Aimed
  <1> HIDE DEF d
  <1>5. Origin(d, w) = Origin(World, w) /\ Offset(d, w) = Offset(World, w)
    BY <1>1, <1>4 DEF Origin, Offset
  <1>6. Shape(d, w) /\ Hit(d, w)
    BY <1>1, <1>4, <1>5 DEF Placed, Shape, Hit
  <1>7. Told(d, w)
    BY <1>3, <1>4, <1>5 DEF Told, Target
  <1> QED
    BY <1>2, <1>4, <1>6, <1>7, PlacesStep DEF Placed, Glides

\* queue_tile(), queue_reset() of a window that is there already, as X was told.
LEMMA SettlePlaces ==
    ASSUME WrappersOk, PlacesOk, "equal" \notin Races, NEW w \in Windows, NEW g \in Int, Settle(w, g)
    PROVE  PlacesOk' /\ Steady
  <1> DEFINE q == [wrap[w] EXCEPT !.pending = None]
             h == PutWrap(World, w, q)
  <1>1. /\ World \in Worlds /\ World.wrap = wrap /\ World.x = x /\ World.out = out
        /\ Placed(World, w) /\ wrap[w] \in Wraps
        /\ wrap[w].mapped /\ wrap[w].known /\ wrap[w].out # None
        /\ Origin(World, w) \in Int /\ wrap[w].out \in Everywhere
    BY ShownIsPlaced DEF Settle
  <1>2. /\ g = wrap[w].geo
        /\ wrap[w].pending # None => wrap[w].pending.geo = g
    BY DEF Settle
  <1>3. PICK may \in BOOLEAN : Becomes(Refresh([World EXCEPT !.wrap[w].pending = None], w, g, may))
    BY DEF Settle
  <1>4. [World EXCEPT !.wrap[w].pending = None] = h
    BY <1>1 DEF PutWrap, Worlds, Wraps
  <1>5. /\ q \in Wraps /\ q.kind = wrap[w].kind /\ q.out = wrap[w].out /\ q.known = wrap[w].known
        /\ q.mapped = wrap[w].mapped /\ q.pending = None /\ q.owes = wrap[w].owes
        /\ q.geo = wrap[w].geo /\ q.node = wrap[w].node /\ q.motion = wrap[w].motion
    BY <1>1 DEF Wraps
  <1> HIDE DEF q
  <1>6. Alone(World, h, w) /\ h \in Worlds /\ h.x = x /\ h.out = out /\ h.wrap[w] = q
    BY <1>1, <1>5, AlonePut
  <1> HIDE DEF h
  <1> DEFINE d == Refresh(h, w, g, may)
  <1>7. Becomes(d)
    BY <1>3, <1>4
  <1>8. Origin(h, w) = Origin(World, w) /\ Offset(h, w) = Offset(World, w)
    BY <1>1, <1>5, <1>6 DEF Origin, Offset
  <1>9. Shape(h, w) /\ Hit(h, w)
    BY <1>1, <1>5, <1>6, <1>8 DEF Placed, Shape, Hit
  <1>10. Sits(h, d, w, g)
    BY <1>1, <1>5, <1>6, <1>9, RefreshSits
  <1> HIDE DEF d
  <1>11. wrap[w].known /\ wrap[w].out # Fallback /\ ~wrap[w].owes => x[w].at = Origin(World, w) + g
    BY <1>1, <1>2 DEF Placed, Told, Target
  <1>12. Placed(d, w)
    BY <1>5, <1>6, <1>8, <1>9, <1>10, <1>11, SitsIsPlaced
  <1>13. Alone(World, d, w) /\ d \in Worlds
    BY <1>6, <1>10, AloneTrans DEF Sits
  <1>14. Glides(wrap[w], d.wrap[w])
    BY <1>5, <1>6, <1>10 DEF Sits, Glides
  <1> QED
    BY <1>7, <1>12, <1>13, <1>14, PlacesStep

\* hikari_view_migrate() of a window that has the size it is to have there.
LEMMA MigratePlaces ==
    ASSUME WrappersOk, PlacesOk, "answer" \notin Races, NEW w \in Windows, NEW g \in Int,
           NEW o \in Outputs, out[o].on, Migrate(w, o, g)
    PROVE  PlacesOk' /\ Steady
  <1> DEFINE k == Cancel(World, w)
             at == World.out[o].at + g
             q == [k.wrap[w] EXCEPT !.out = o, !.listed = o, !.geo = g]
             u == PutWrap(k, w, q)
             there == Aim(u, w, None, at)
             d == Snap(there, w, g)
  <1>1. /\ World \in Worlds /\ World.wrap = wrap /\ World.x = x /\ World.out = out
        /\ Placed(World, w) /\ wrap[w] \in Wraps
        /\ wrap[w].mapped /\ wrap[w].known /\ wrap[w].kind = "managed" /\ wrap[w].out # None
    BY ShownIsPlaced DEF Migrate
  <1>2. at \in Int /\ o \in Everywhere /\ o # None
    BY <1>1, NoneAssumption DEF Everywhere, Worlds, Screens
  <1>3. /\ Alone(World, k, w) /\ k \in Worlds /\ k.x = x /\ k.out = out /\ k.wrap[w] \in Wraps
        /\ k.wrap[w].kind = wrap[w].kind /\ k.wrap[w].known = wrap[w].known
        /\ k.wrap[w].mapped = wrap[w].mapped /\ k.wrap[w].owes = wrap[w].owes
        /\ k.wrap[w].motion = Still
    <2>1. /\ Alone(World, k, w) /\ k \in Worlds /\ k.x = x /\ k.out = out
          /\ k.wrap[w].kind = wrap[w].kind /\ k.wrap[w].known = wrap[w].known
          /\ k.wrap[w].mapped = wrap[w].mapped /\ k.wrap[w].owes = wrap[w].owes
          /\ k.wrap[w].motion = Still
      BY <1>1, CancelAlone
    <2> HIDE DEF k
    <2>2. k.wrap[w] \in Wraps
      BY <2>1 DEF Worlds
    <2> QED
      BY <2>1, <2>2
  <1>4. Becomes(d)
    <2>1. Becomes(Migrated(World, w, o, g, None))
      BY DEF Migrate
    <2>2. Migrated(World, w, o, g, None) =
             Snap([k EXCEPT !.wrap[w].out = o, !.wrap[w].listed = o, !.wrap[w].geo = g,
                            !.wrap[w].pending = None, !.x[w].at = at], w, g)
      BY DEF Migrated
    <2> HIDE DEF at, k
    <2>3. [k EXCEPT !.wrap[w].out = o, !.wrap[w].listed = o, !.wrap[w].geo = g] = u
      BY ZenonT(60), <1>3 DEF PutWrap, Worlds, Wraps
    <2>4. [k EXCEPT !.wrap[w].out = o, !.wrap[w].listed = o, !.wrap[w].geo = g,
                    !.wrap[w].pending = None, !.x[w].at = at]
          = [[k EXCEPT !.wrap[w].out = o, !.wrap[w].listed = o, !.wrap[w].geo = g]
                EXCEPT !.wrap[w].pending = None, !.x[w].at = at]
      OBVIOUS
    <2> QED
      BY <2>1, <2>2, <2>3, <2>4 DEF Aim
  <1> HIDE DEF k
  <1>5. /\ q \in Wraps /\ q.out = o /\ q.geo = g /\ q.kind = k.wrap[w].kind
        /\ q.known = k.wrap[w].known /\ q.mapped = k.wrap[w].mapped /\ q.owes = k.wrap[w].owes
        /\ q.motion = k.wrap[w].motion
    BY <1>2, <1>3 DEF Wraps
  <1> HIDE DEF q
  <1>6. Alone(k, u, w) /\ u \in Worlds /\ u.x = k.x /\ u.out = k.out /\ u.wrap[w] = q
    BY <1>3, <1>5, AlonePut
  <1> HIDE DEF u, at
  <1>7. /\ Alone(u, there, w) /\ there \in Worlds /\ there.out = u.out /\ there.x[w].at = at
        /\ there.wrap[w].kind = q.kind /\ there.wrap[w].out = q.out
        /\ there.wrap[w].known = q.known /\ there.wrap[w].mapped = q.mapped
        /\ there.wrap[w].pending = None /\ there.wrap[w].owes = q.owes
        /\ there.wrap[w].motion = q.motion
    <2>1. Aimed(u, there, w, None, at)
      BY <1>2, <1>6, TargetAlone
    <2> HIDE DEF there
    <2> QED
      BY <1>6, <2>1 DEF Aimed
  <1> HIDE DEF there
  <1>8. Sits(there, d, w, g) /\ ~d.wrap[w].motion.flying
    BY <1>1, <1>2, <1>3, <1>5, <1>7, SnapSits
  <1> HIDE DEF d
  <1>9. Origin(there, w) + g = at
    BY <1>1, <1>3, <1>5, <1>6, <1>7 DEF Origin, at
  <1>10. Shape(there, w)
    <2>1. Still.flying = FALSE /\ Still.placed = FALSE
      BY DEF Still
    <2> QED
      BY <1>1, <1>2, <1>3, <1>5, <1>7, <2>1 DEF Shape
  <1>11. Placed(d, w)
    BY <1>7, <1>8, <1>9, <1>10, SitsIsPlaced
  <1>12. Alone(World, d, w) /\ d \in Worlds
    BY <1>3, <1>6, <1>7, <1>8, AloneTrans DEF Sits
  <1> QED
    BY <1>4, <1>8, <1>11, <1>12, PlacesStep DEF Glides

\* The user goes to another output; nothing moves.
LEMMA FocusOutputPlaces ==
    ASSUME PlacesOk, NEW o \in Outputs, FocusOutput(o)
    PROVE  PlacesOk' /\ Steady
  <1>1. World'.wrap = World.wrap /\ World'.x = World.x /\ World'.out = World.out
    BY DEF FocusOutput, World
  <1>2. \A w \in Windows : Placed(World', w)
    BY <1>1, PlacedKept DEF PlacesOk, SameAts
  <1>3. wrap' = wrap
    BY DEF FocusOutput
  <1> QED
    BY <1>2, <1>3 DEF PlacesOk, Steady, Glides

-----------------------------------------------------------------------------
(* Outputs.  What the layout knows of is told its place; the rest must have *)
(* it already.                                                              *)

\* hikari_output_rearrange_xwayland_views() finds the window.
There(h, w) ==
    h.wrap[w].kind = "managed" /\ h.wrap[w].listed \in Outputs /\ h.out[h.wrap[w].listed].on

\* Nothing travels, and no operation is in flight.
Quiet(h) == \A w \in Windows : h.wrap[w].pending = None /\ ~h.wrap[w].motion.flying

\* The layout may be told to the windows.
Ready(h) ==
    Quiet(h) /\ \A w \in Windows : Shape(h, w) /\ (Placed(h, w) \/ There(h, w))

\* A world in which all windows are placed.
AllPlaced(h) == h \in Worlds /\ \A w \in Windows : Placed(h, w)

\* A handler that leaves all windows placed.
LEMMA PlacedStep ==
    ASSUME NEW d, AllPlaced(d), \A w \in Windows : Glides(wrap[w], d.wrap[w]), Becomes(d)
    PROVE  PlacesOk' /\ Steady
  <1>1. World' = d
    BY Became DEF AllPlaced
  <1>2. \A w \in Windows : Placed(World', w)
    BY <1>1 DEF AllPlaced
  <1>3. wrap' = d.wrap
    BY DEF Becomes
  <1> QED
    BY <1>2, <1>3 DEF PlacesOk, Steady

\* All windows stay placed while outputs stay where they are.
LEMMA AllKept ==
    ASSUME NEW h, NEW d \in Worlds, AllPlaced(h), SameAts(h, d), d.wrap = h.wrap, d.x = h.x
    PROVE  AllPlaced(d)
  BY PlacedKept DEF AllPlaced

\* And so they do in the state.
LEMMA WorldIsPlaced ==
    ASSUME WrappersOk, PlacesOk
    PROVE  /\ AllPlaced(World) /\ Sound(World) /\ World \in Worlds
           /\ World.x = x /\ World.wrap = wrap /\ World.out = out /\ World.ws = ws
           /\ \A w \in Windows : wrap[w] \in Wraps
           /\ \A o \in Everywhere : out[o] \in Screens
  <1>1. Sound(World) /\ World \in Worlds /\ World.wrap = wrap /\ World.out = out
        /\ World.x = x /\ World.ws = ws
    BY DEF WrappersOk, Sound, ScreensOk, World
  <1>2. \A w \in Windows : wrap[w] \in Wraps
    BY <1>1 DEF Worlds
  <1>3. \A o \in Everywhere : out[o] \in Screens
    BY <1>1 DEF Worlds
  <1> QED
    BY <1>1, <1>2, <1>3 DEF AllPlaced, PlacesOk

\* A window that is told is placed, and nothing else moves.
LEMMA LayoutPlaces ==
    ASSUME NEW h, Sound(h), Ready(h)
    PROVE  LET g == LayoutChanged(h) IN
           /\ AllPlaced(g) /\ Quiet(g) /\ g.out = h.out
           /\ \A w \in Windows : g.wrap[w].kind = h.wrap[w].kind /\ g.wrap[w].listed = h.wrap[w].listed
           /\ \A w \in Windows : h.wrap[w].kind # "managed" => g.wrap[w] = h.wrap[w] /\ g.x[w] = h.x[w]
  <1> DEFINE there == {w \in Windows : /\ h.wrap[w].kind = "managed" /\ h.wrap[w].listed \in Outputs
                                       /\ h.out[h.wrap[w].listed].on}
             told(w) == Origin(h, w) + h.wrap[w].geo
             fw == [w \in Windows |-> IF w \in there THEN [h.wrap[w] EXCEPT !.node = told(w)] ELSE h.wrap[w]]
             fx == [w \in Windows |-> IF w \in there THEN [h.x[w] EXCEPT !.at = told(w)] ELSE h.x[w]]
             d == [h EXCEPT !.wrap = fw, !.x = fx]
             g == LayoutChanged(h)
  <1>1. h \in Worlds
    BY DEF Sound, ScreensOk
  <1>2. g = d
    BY <1>1 DEF LayoutChanged
  <1>3. \A w \in Windows : w \in there <=> There(h, w)
    BY DEF There
  <1>4. d.wrap = fw /\ d.x = fx /\ d.out = h.out
    BY <1>1 DEF Worlds
  <1>5. g \in Worlds
    BY LayoutChangedIsSound DEF Sound, ScreensOk
  <1> HIDE DEF g, there
  <1>6. ASSUME NEW w \in Windows, ~There(h, w)
        PROVE  d.wrap[w] = h.wrap[w] /\ d.x[w] = h.x[w] /\ Placed(d, w)
    <2>1. d.wrap[w] = h.wrap[w] /\ d.x[w] = h.x[w]
      BY <1>3, <1>4, <1>6
    <2> HIDE DEF d
    <2>2. SameAts(h, d)
      BY <1>4 DEF SameAts
    <2> QED
      BY <1>6, <2>1, <2>2, PlacedKept DEF Ready
  <1>7. ASSUME NEW w \in Windows, There(h, w)
        PROVE  /\ d.wrap[w].kind = h.wrap[w].kind /\ d.wrap[w].listed = h.wrap[w].listed
               /\ d.wrap[w].pending = None /\ ~d.wrap[w].motion.flying /\ Placed(d, w)
    <2> DEFINE q == [h.wrap[w] EXCEPT !.node = told(w)]
               r == [h.x[w] EXCEPT !.at = told(w)]
    <2>1. d.wrap[w] = q /\ d.x[w] = r
      BY <1>3, <1>4, <1>7
    <2>2. h.wrap[w] \in Wraps /\ h.x[w] \in XStates /\ h.wrap[w].out # None
      BY <1>1, <1>7, NoneAssumption DEF Sound, Ok, There, Lit, Everywhere, Worlds
    <2>3. told(w) \in Int /\ told(w) = Origin(h, w) + h.wrap[w].geo
      BY <1>1, <2>2, OriginIsInt DEF Wraps
    <2> HIDE DEF told
    <2>4. /\ q.kind = h.wrap[w].kind /\ q.out = h.wrap[w].out /\ q.known = h.wrap[w].known
          /\ q.mapped = h.wrap[w].mapped /\ q.pending = h.wrap[w].pending /\ q.owes = h.wrap[w].owes
          /\ q.geo = h.wrap[w].geo /\ q.node = told(w) /\ q.motion = h.wrap[w].motion
          /\ q.listed = h.wrap[w].listed
      BY <2>2 DEF Wraps
    <2>5. r.at = told(w)
      BY <2>2 DEF XStates
    <2> HIDE DEF q, r, d
    <2>6. Shape(h, w) /\ h.wrap[w].pending = None /\ ~h.wrap[w].motion.flying
      BY DEF Ready, Quiet
    <2>7. Origin(d, w) = Origin(h, w) /\ Offset(d, w) = 0
      BY <1>4, <2>1, <2>4, <2>6 DEF Origin, Offset
    <2>8. Shape(d, w)
      BY <2>1, <2>4, <2>6 DEF Shape
    <2>9. Hit(d, w)
      BY <2>1, <2>3, <2>4, <2>7 DEF Hit
    <2>10. Told(d, w)
      BY <2>1, <2>3, <2>4, <2>5, <2>6, <2>7 DEF Told, Target
    <2> QED
      BY <2>1, <2>4, <2>6, <2>8, <2>9, <2>10 DEF Placed
  <1> HIDE DEF d
  <1>8. AllPlaced(d)
    BY <1>2, <1>5, <1>6, <1>7 DEF AllPlaced
  <1>9. Quiet(d)
    BY <1>6, <1>7 DEF Ready, Quiet
  <1>10. \A w \in Windows : h.wrap[w].kind # "managed" => d.wrap[w] = h.wrap[w] /\ d.x[w] = h.x[w]
    BY <1>6 DEF There
  <1>11. \A w \in Windows : d.wrap[w].kind = h.wrap[w].kind /\ d.wrap[w].listed = h.wrap[w].listed
    BY <1>6, <1>7
  <1> QED
    BY <1>2, <1>4, <1>8, <1>9, <1>10, <1>11 DEF g

\* hikari_view_evacuate(): the node goes where the window is to be.
LEMMA ViewEvacuatedPlaces ==
    ASSUME NEW h \in Worlds, NEW w \in Windows, h.wrap[w].out # None, NEW to \in Everywhere
    PROVE  LET q == ViewEvacuated(h, w, to).wrap[w]
               r == h.wrap[w]
           IN  /\ q.out = to /\ q.listed = to /\ q.node = h.out[to].at + r.geo
               /\ q.kind = r.kind /\ q.known = r.known /\ q.mapped = r.mapped
               /\ q.pending = r.pending /\ q.owes = r.owes /\ q.geo = r.geo /\ q.motion = Still
  <1> DEFINE k == Cancel(h, w)
             at == h.out[to].at + h.wrap[w].geo
             q == [k.wrap[w] EXCEPT !.out = to, !.listed = to, !.node = at]
             d == PutWrap(k, w, q)
  <1>1. /\ k \in Worlds
        /\ k.wrap[w].kind = h.wrap[w].kind /\ k.wrap[w].known = h.wrap[w].known
        /\ k.wrap[w].mapped = h.wrap[w].mapped /\ k.wrap[w].pending = h.wrap[w].pending
        /\ k.wrap[w].owes = h.wrap[w].owes /\ k.wrap[w].geo = h.wrap[w].geo
        /\ k.wrap[w].motion = Still
    BY CancelAlone
  <1>2. at \in Int
    BY DEF Worlds, Wraps, Screens
  <1>3. ViewEvacuated(h, w, to) = [k EXCEPT !.wrap[w].out = to, !.wrap[w].listed = to, !.wrap[w].node = at]
    BY DEF ViewEvacuated
  <1> HIDE DEF k
  <1>4. k.wrap[w] \in Wraps
    BY <1>1 DEF Worlds
  <1>5. ViewEvacuated(h, w, to) = d
    <2> HIDE DEF at
    <2>1. [k EXCEPT !.wrap[w].out = to, !.wrap[w].listed = to, !.wrap[w].node = at] = d
      BY ZenonT(60), <1>1, <1>4 DEF PutWrap, Worlds, Wraps
    <2> HIDE DEF d
    <2> QED
      BY <1>3, <2>1
  <1>6. /\ q \in Wraps /\ q.out = to /\ q.listed = to /\ q.node = at
        /\ q.kind = k.wrap[w].kind /\ q.known = k.wrap[w].known /\ q.mapped = k.wrap[w].mapped
        /\ q.pending = k.wrap[w].pending /\ q.owes = k.wrap[w].owes
        /\ q.geo = k.wrap[w].geo /\ q.motion = k.wrap[w].motion
    <2> HIDE DEF at
    <2> QED
      BY <1>2, <1>4 DEF Wraps
  <1> HIDE DEF q
  <1>7. d.wrap[w] = q
    BY <1>1, <1>6, AlonePut
  <1> HIDE DEF d
  <1> QED
    BY <1>1, <1>5, <1>6, <1>7

\* hikari_xwayland_unmanaged_evacuate(): the box is computed anew, the node stays.
LEMMA MenuEvacuatedPlaces ==
    ASSUME NEW h \in Worlds, NEW w \in Windows, NEW to \in Everywhere
    PROVE  LET q == MenuEvacuated(h, w, to).wrap[w]
               r == h.wrap[w]
           IN  /\ q.out = to /\ q.listed = to /\ q.geo = h.x[w].at - h.out[to].at
               /\ q.kind = r.kind /\ q.known = r.known /\ q.mapped = r.mapped
               /\ q.pending = r.pending /\ q.owes = r.owes /\ q.node = r.node /\ q.motion = r.motion
  <1> DEFINE geo == h.x[w].at - h.out[to].at
             q == [h.wrap[w] EXCEPT !.out = to, !.listed = to, !.geo = geo]
             d == PutWrap(h, w, q)
  <1>1. h.wrap[w] \in Wraps /\ geo \in Int
    BY DEF Worlds, XStates, Screens
  <1>2. MenuEvacuated(h, w, to) = [h EXCEPT !.wrap[w].out = to, !.wrap[w].listed = to, !.wrap[w].geo = geo]
    BY DEF MenuEvacuated
  <1>3. MenuEvacuated(h, w, to) = d
    <2> HIDE DEF geo
    <2> QED
      BY ZenonT(60), <1>1, <1>2 DEF PutWrap, Worlds, Wraps
  <1>4. /\ q \in Wraps /\ q.out = to /\ q.listed = to /\ q.geo = geo
        /\ q.kind = h.wrap[w].kind /\ q.known = h.wrap[w].known /\ q.mapped = h.wrap[w].mapped
        /\ q.pending = h.wrap[w].pending /\ q.owes = h.wrap[w].owes
        /\ q.node = h.wrap[w].node /\ q.motion = h.wrap[w].motion
    <2> HIDE DEF geo
    <2> QED
      BY <1>1 DEF Wraps
  <1> HIDE DEF q
  <1>5. d.wrap[w] = q
    BY <1>4, AlonePut
  <1> HIDE DEF d
  <1> QED
    BY <1>3, <1>4, <1>5

\* hikari_workspace_merge(): menus are placed, views are if nobody needs to be told, or will be.
LEMMA MergePlaces ==
    ASSUME NEW h, Sound(h), AllPlaced(h), Quiet(h), NEW from \in Everywhere, NEW to, Lit(h, to), to # from,
           \A w \in Windows : h.wrap[w].listed = from /\ h.wrap[w].kind = "unmanaged" =>
               h.x[w].at = h.wrap[w].node
    PROVE  LET m == Merge(h, from, to) IN
           /\ m \in Worlds /\ m.x = h.x /\ m.out = h.out /\ Quiet(m)
           /\ \A w \in Windows : /\ Shape(m, w)
                                 /\ \/ Placed(m, w)
                                    \/ /\ h.wrap[w].kind = "managed" /\ h.wrap[w].listed = from
                                       /\ m.wrap[w].kind = "managed" /\ m.wrap[w].listed = to
                                       /\ to # Fallback
  <1> DEFINE moves == {w \in Windows : h.wrap[w].listed = from}
             after == [w \in Windows |-> IF h.wrap[w].kind = "managed" THEN ViewEvacuated(h, w, to)
                                         ELSE MenuEvacuated(h, w, to)]
             fw == [w \in Windows |-> IF w \in moves THEN after[w].wrap[w] ELSE h.wrap[w]]
             d == [h EXCEPT !.wrap = fw]
             m == Merge(h, from, to)
  <1>1. h \in Worlds /\ to \in Everywhere /\ from # None /\ to # None
    BY NoneAssumption DEF Sound, ScreensOk, Lit, Everywhere
  <1>2. m = d
    BY <1>1 DEF Merge
  <1>3. d.wrap = fw /\ d.x = h.x /\ d.out = h.out
    BY <1>1 DEF Worlds
  <1>4. m \in Worlds
    BY MergeIsSound DEF Sound, ScreensOk
  <1> HIDE DEF m
  <1>5. ASSUME NEW w \in Windows
        PROVE  /\ h.wrap[w] \in Wraps /\ h.wrap[w].motion \in Motions /\ h.wrap[w].geo \in Int
               /\ Shape(h, w) /\ Hit(h, w) /\ Told(h, w) /\ Ok(h, w)
               /\ h.wrap[w].pending = None /\ ~h.wrap[w].motion.flying
    BY <1>1 DEF AllPlaced, Placed, Sound, Quiet, Worlds, Wraps
  <1>6. ASSUME NEW w \in Windows, h.wrap[w].listed # from
        PROVE  d.wrap[w] = h.wrap[w] /\ Placed(d, w)
    <2>1. d.wrap[w] = h.wrap[w] /\ d.x[w] = h.x[w]
      BY <1>3, <1>6
    <2> HIDE DEF d
    <2>2. SameAts(h, d)
      BY <1>3 DEF SameAts
    <2> QED
      BY <2>1, <2>2, PlacedKept DEF AllPlaced
  <1>7. ASSUME NEW w \in Windows, h.wrap[w].listed = from, h.wrap[w].kind = "managed"
        PROVE  /\ d.wrap[w].pending = None /\ ~d.wrap[w].motion.flying /\ Shape(d, w)
               /\ d.wrap[w].kind = "managed" /\ d.wrap[w].listed = to
               /\ to = Fallback => Placed(d, w)
    <2> DEFINE r == h.wrap[w]
               q == ViewEvacuated(h, w, to).wrap[w]
    <2>1. d.wrap[w] = q
      BY <1>3, <1>7
    <2>2. r.out # None
      BY <1>1, <1>5, <1>7 DEF Ok
    <2>3. /\ q.out = to /\ q.listed = to /\ q.node = h.out[to].at + r.geo
          /\ q.kind = r.kind /\ q.known = r.known /\ q.mapped = r.mapped
          /\ q.pending = r.pending /\ q.owes = r.owes /\ q.geo = r.geo /\ q.motion = Still
      BY <1>1, <2>2, ViewEvacuatedPlaces
    <2> HIDE DEF q, d
    <2>4. Still.flying = FALSE /\ Still.placed = FALSE
      BY DEF Still
    <2>5. Shape(d, w)
      BY <1>1, <1>5, <2>1, <2>3, <2>4 DEF Shape
    <2>6. Origin(d, w) = h.out[to].at /\ Offset(d, w) = 0 /\ h.out[to].at \in Int
      BY <1>1, <1>3, <2>1, <2>3, <2>4 DEF Origin, Offset, Worlds, Screens
    <2>7. Hit(d, w)
      BY <1>5, <2>1, <2>3, <2>6 DEF Hit
    <2>8. to = Fallback => Told(d, w)
      BY <2>1, <2>3 DEF Told
    <2> QED
      BY <1>5, <1>7, <2>1, <2>3, <2>4, <2>5, <2>7, <2>8 DEF Placed
  <1>8. ASSUME NEW w \in Windows, h.wrap[w].listed = from, h.wrap[w].kind # "managed"
        PROVE  d.wrap[w].pending = None /\ ~d.wrap[w].motion.flying /\ Placed(d, w)
    <2> DEFINE r == h.wrap[w]
               q == MenuEvacuated(h, w, to).wrap[w]
    <2>1. d.wrap[w] = q
      BY <1>3, <1>8
    <2>2. /\ q.out = to /\ q.listed = to /\ q.geo = h.x[w].at - h.out[to].at
          /\ q.kind = r.kind /\ q.known = r.known /\ q.mapped = r.mapped
          /\ q.pending = r.pending /\ q.owes = r.owes /\ q.node = r.node /\ q.motion = r.motion
      BY <1>1, MenuEvacuatedPlaces
    <2>3. r.kind = "unmanaged" /\ h.x[w] \in XStates
      <3>1. r.mapped /\ h.x[w] \in XStates
        BY <1>1, <1>5, <1>8 DEF Ok, Worlds
      <3> QED
        BY <1>5, <1>8, <3>1 DEF Ok, XStates
    <2>4. h.x[w].at = r.node
      BY <1>8, <2>3
    <2>5. r.known = FALSE /\ r.motion.placed = FALSE
      BY <1>5, <1>8 DEF Shape, Wraps, Motions
    <2> HIDE DEF q, d
    <2>6. Shape(d, w)
      BY <1>1, <1>5, <1>8, <2>1, <2>2, <2>5 DEF Shape
    <2>7. Origin(d, w) = h.out[to].at /\ Offset(d, w) = 0 /\ h.out[to].at \in Int /\ h.x[w].at \in Int
      BY <1>1, <1>3, <1>5, <2>1, <2>2, <2>3 DEF Origin, Offset, Worlds, Screens, XStates
    <2>8. Hit(d, w)
      BY <2>1, <2>2, <2>4, <2>7 DEF Hit
    <2>9. Told(d, w)
      BY <2>1, <2>2, <2>5 DEF Told
    <2> QED
      BY <1>5, <2>1, <2>2, <2>6, <2>8, <2>9 DEF Placed
  <1> HIDE DEF d
  <1>9. Quiet(d)
    BY <1>5, <1>6, <1>7, <1>8 DEF Quiet
  <1>10. ASSUME NEW w \in Windows
         PROVE  /\ Shape(d, w)
                /\ \/ Placed(d, w)
                   \/ /\ h.wrap[w].kind = "managed" /\ h.wrap[w].listed = from
                      /\ d.wrap[w].kind = "managed" /\ d.wrap[w].listed = to
                      /\ to # Fallback
    BY <1>6, <1>7, <1>8 DEF Placed
  <1> QED
    BY <1>2, <1>3, <1>4, <1>9, <1>10 DEF m

\* The output's state changes, and what is placed elsewhere stays placed.
LEMMA ScreenPlaces ==
    ASSUME NEW h \in Worlds, NEW o \in Outputs, NEW s \in Screens
    PROVE  LET g == [h EXCEPT !.out[o] = s] IN
           /\ g \in Worlds /\ g.x = h.x /\ g.wrap = h.wrap /\ g.ws = h.ws
           /\ g.out[o] = s /\ \A p \in Everywhere \ {o} : g.out[p] = h.out[p]
           /\ \A w \in Windows : h.wrap[w].out # o \/ s.at = h.out[o].at =>
                 /\ Shape(h, w) => Shape(g, w)
                 /\ Placed(h, w) => Placed(g, w)
  <1> DEFINE g == [h EXCEPT !.out[o] = s]
  <1>1. o \in Everywhere
    BY DEF Everywhere
  <1>2. /\ g \in Worlds /\ g.wrap = h.wrap /\ g.x = h.x /\ g.ws = h.ws
        /\ g.out[o] = s /\ \A p \in Everywhere \ {o} : g.out[p] = h.out[p]
    BY <1>1, PutOutType
  <1> HIDE DEF g
  <1>3. ASSUME NEW w \in Windows, h.wrap[w].out # o \/ s.at = h.out[o].at
        PROVE  /\ Shape(h, w) => Shape(g, w)
               /\ Placed(h, w) => Placed(g, w)
    <2>1. Shape(h, w) => Shape(g, w)
      BY <1>2 DEF Shape
    <2>2. ASSUME h.wrap[w].out \in Everywhere
          PROVE  Origin(g, w) = Origin(h, w) /\ Offset(g, w) = Offset(h, w)
      BY <1>1, <1>2, <1>3, <2>2 DEF Origin, Offset
    <2>3. Placed(h, w) => Hit(g, w) /\ Told(g, w)
      BY <1>2, <2>2 DEF Placed, Shape, Hit, Told, Target
    <2> QED
      BY <2>1, <2>3 DEF Placed
  <1> QED
    BY <1>2, <1>3 DEF g

\* What is on an output that goes is placed, or the layout will tell it.
LEMMA EvacuatedPlaces ==
    ASSUME WrappersOk, PlacesOk, {"layout", "asked", "withdrawn"} \cap Races = {},
           NEW o \in Outputs, MayLeave(o), NEW to \in Refuges(o)
    PROVE  LET g == Evacuated(World, o, to) IN
           /\ Sound(g) /\ Clear(g, o) /\ g.out = out /\ Quiet(g)
           /\ \A w \in Windows : /\ Shape(g, w)
                                 /\ \/ Placed(g, w)
                                    \/ g.wrap[w].kind = "managed" /\ g.wrap[w].listed = to /\ to # Fallback
  <1> DEFINE m == Merge(World, o, to)
             g == Evacuated(World, o, to)
  <1>1. AllPlaced(World) /\ Sound(World) /\ World.wrap = wrap /\ World.x = x /\ World.out = out
    BY WorldIsPlaced
  <1>2. Lit(World, to) /\ to # o /\ o \in Everywhere
    BY RefugesAreLit DEF Everywhere
  <1>3. Quiet(World)
    BY <1>1 DEF MayLeave, MayRearrange, Quiet
  <1>4. \A w \in Windows : World.wrap[w].listed = o /\ World.wrap[w].kind = "unmanaged" =>
            World.x[w].at = World.wrap[w].node
    BY <1>1 DEF MayLeave
  <1>5. /\ m \in Worlds /\ m.x = x /\ m.out = out /\ Quiet(m)
        /\ \A w \in Windows : /\ Shape(m, w)
                              /\ \/ Placed(m, w)
                                 \/ m.wrap[w].kind = "managed" /\ m.wrap[w].listed = to /\ to # Fallback
    BY <1>1, <1>2, <1>3, <1>4, MergePlaces
  <1>6. g = [m EXCEPT !.ws = to]
    BY DEF Evacuated
  <1>7. Sound(g) /\ Clear(g, o) /\ g.out = out
    BY EvacuatedIsSound
  <1> HIDE DEF m, g
  <1>8. g.wrap = m.wrap /\ g.x = m.x /\ g.out = m.out
    BY <1>5, <1>6 DEF Worlds
  <1>9. Quiet(g) /\ SameAts(m, g)
    BY <1>5, <1>8 DEF Quiet, SameAts
  <1>10. ASSUME NEW w \in Windows
         PROVE  Shape(g, w) /\ (Placed(m, w) => Placed(g, w))
    <2>1. Shape(g, w)
      BY <1>5, <1>8 DEF Shape
    <2> QED
      BY <1>8, <1>9, <2>1, PlacedKept
  <1> QED
    BY <1>5, <1>7, <1>8, <1>9, <1>10 DEF g

\* An output goes dark, and the layout is told.
LEMMA LeavePlaces ==
    ASSUME WrappersOk, PlacesOk, {"layout", "asked", "withdrawn"} \cap Races = {},
           NEW o \in Outputs, MayLeave(o), NEW to \in Refuges(o),
           NEW s \in Screens, ~s.on, s.at = out[o].at
    PROVE  LET d == LayoutChanged([Evacuated(World, o, to) EXCEPT !.out[o] = s]) IN AllPlaced(d) /\ Quiet(d)
  <1> DEFINE k == Evacuated(World, o, to)
             g == [k EXCEPT !.out[o] = s]
  <1>1. /\ Sound(k) /\ Clear(k, o) /\ k.out = out /\ Quiet(k)
        /\ \A w \in Windows : /\ Shape(k, w)
                              /\ \/ Placed(k, w)
                                 \/ k.wrap[w].kind = "managed" /\ k.wrap[w].listed = to /\ to # Fallback
    BY EvacuatedPlaces
  <1> HIDE DEF k
  <1>2. Sound(g)
    BY <1>1, ScreenIsSound
  <1>3. /\ g.x = k.x /\ g.wrap = k.wrap
        /\ \A p \in Everywhere \ {o} : g.out[p] = out[p]
        /\ \A w \in Windows : (Shape(k, w) => Shape(g, w)) /\ (Placed(k, w) => Placed(g, w))
    BY <1>1, ScreenPlaces DEF Sound, ScreensOk
  <1> HIDE DEF g
  <1>4. Quiet(g)
    BY <1>1, <1>3 DEF Quiet
  <1>5. to # Fallback => to \in Outputs /\ g.out[to].on
    <2>1. to # Fallback => to \in Outputs \ {o} /\ out[to].on
      BY DEF Refuges
    <2> QED
      BY <1>3, <2>1 DEF Everywhere
  <1>6. Ready(g)
    BY <1>1, <1>3, <1>4, <1>5 DEF Ready, There
  <1>7. AllPlaced(LayoutChanged(g)) /\ Quiet(LayoutChanged(g))
    BY <1>2, <1>6, LayoutPlaces
  <1> QED
    BY <1>7 DEF g, k

\* hikari_output_fini().
LEMMA UnplugPlaces ==
    ASSUME WrappersOk, PlacesOk, {"layout", "asked", "withdrawn"} \cap Races = {},
           NEW o \in Outputs, Unplug(o)
    PROVE  PlacesOk' /\ Steady
  <1>1. PICK to \in Refuges(o) :
           LET g == [IF out[o].on THEN Evacuated(World, o, to) ELSE World
                        EXCEPT !.out[o] = [plugged |-> FALSE, on |-> FALSE, due |-> FALSE, at |-> out[o].at]]
           IN  Becomes(IF out[o].on THEN LayoutChanged(g) ELSE g)
    BY DEF Unplug
  <1> DEFINE s == [plugged |-> FALSE, on |-> FALSE, due |-> FALSE, at |-> out[o].at]
             k == Evacuated(World, o, to)
             d == LayoutChanged([k EXCEPT !.out[o] = s])
             e == [World EXCEPT !.out[o] = s]
  <1>2. AllPlaced(World) /\ World \in Worlds /\ World.out = out /\ out[o] \in Screens /\ MayLeave(o)
    BY WorldIsPlaced DEF Unplug, Everywhere
  <1>3. s \in Screens /\ ~s.on /\ s.at = out[o].at
    BY <1>2 DEF Screens
  <1>4. IF out[o].on THEN Becomes(d) ELSE Becomes(e)
    BY <1>1
  <1> HIDE DEF s
  <1>5. AllPlaced(d) /\ Quiet(d)
    BY <1>2, <1>3, LeavePlaces
  <1>6. AllPlaced(e) /\ e.wrap = wrap
    BY <1>2, <1>3, ScreenPlaces, WorldIsPlaced DEF AllPlaced
  <1> HIDE DEF d, e
  <1> QED
    BY <1>4, <1>5, <1>6, PlacedStep DEF Quiet, Glides

\* hikari_output_set_wants_enabled(FALSE).
LEMMA SwitchOffPlaces ==
    ASSUME WrappersOk, PlacesOk, {"layout", "asked", "withdrawn"} \cap Races = {},
           NEW o \in Outputs, SwitchOff(o)
    PROVE  PlacesOk' /\ Steady
  <1>1. PICK to \in Refuges(o) :
           Becomes(LayoutChanged([Evacuated(World, o, to) EXCEPT !.out[o].on = FALSE, !.out[o].due = FALSE]))
    BY DEF SwitchOff
  <1> DEFINE k == Evacuated(World, o, to)
             s == [k.out[o] EXCEPT !.on = FALSE, !.due = FALSE]
             g == [k EXCEPT !.out[o] = s]
             d == LayoutChanged(g)
  <1>2. MayLeave(o)
    BY DEF SwitchOff
  <1>3. Sound(k) /\ k.out = out
    BY <1>2, EvacuatedPlaces
  <1>4. k \in Worlds /\ k.out[o] \in Screens
    BY <1>3 DEF Sound, ScreensOk, Worlds, Everywhere
  <1> HIDE DEF k
  <1>5. s \in Screens /\ ~s.on /\ s.at = out[o].at
    BY <1>3, <1>4 DEF Screens
  <1>6. [k EXCEPT !.out[o].on = FALSE, !.out[o].due = FALSE] = g
    BY <1>4 DEF Worlds, Screens, Everywhere
  <1>7. Becomes(d)
    BY <1>1, <1>6 DEF k
  <1> HIDE DEF s
  <1>8. AllPlaced(d) /\ Quiet(d)
    BY <1>2, <1>5, LeavePlaces DEF k
  <1> HIDE DEF d
  <1> QED
    BY <1>7, <1>8, PlacedStep DEF Quiet, Glides

\* hikari_output_set_wants_enabled(TRUE).
LEMMA SwitchOnPlaces ==
    ASSUME WrappersOk, PlacesOk, "layout" \notin Races, NEW o \in Outputs, SwitchOn(o)
    PROVE  PlacesOk' /\ Steady
  <1> DEFINE s == [out[o] EXCEPT !.on = TRUE]
             g == [World EXCEPT !.out[o] = s]
             d == LayoutChanged(g)
  <1>1. /\ AllPlaced(World) /\ Sound(World) /\ World \in Worlds /\ World.wrap = wrap
        /\ World.out = out /\ out[o] \in Screens /\ out[o].plugged
    BY WorldIsPlaced DEF SwitchOn, Everywhere
  <1>2. s \in Screens /\ s.plugged /\ s.on /\ s.at = out[o].at
    BY <1>1 DEF Screens
  <1>3. [World EXCEPT !.out[o].on = TRUE] = g
    BY <1>1 DEF Worlds, Screens, Everywhere
  <1>4. Becomes(d)
    BY <1>3 DEF SwitchOn
  <1> HIDE DEF s
  <1>5. Sound(g)
    BY <1>1, <1>2, ScreenIsSound
  <1>6. g.wrap = wrap /\ \A w \in Windows : Placed(g, w)
    BY <1>1, <1>2, ScreenPlaces DEF AllPlaced
  <1> HIDE DEF g
  <1>7. Ready(g)
    BY <1>6 DEF SwitchOn, MayRearrange, Ready, Quiet, Placed
  <1>8. AllPlaced(d) /\ Quiet(d)
    BY <1>5, <1>7, LayoutPlaces
  <1> HIDE DEF d
  <1> QED
    BY <1>4, <1>8, PlacedStep DEF Quiet, Glides

\* A window of an output that does not exist is nowhere.
LEMMA UnpluggedIsEmpty ==
    ASSUME WrappersOk, NEW w \in Windows, Shape(World, w), ~out[wrap[w].out].plugged
    PROVE  ~wrap[w].known /\ ~wrap[w].mapped
  <1>1. Ok(World, w) /\ World.wrap = wrap /\ World.x = x /\ World.out = out /\ x[w] \in XStates
    BY AtFirst
  <1>2. ~x[w].alive
    BY <1>1 DEF Ok, Lit, XStates
  <1> QED
    BY <1>1, <1>2 DEF Ok, Shape

\* An output comes, and what was on the fallback is placed on it.
LEMMA PlugPlaces ==
    ASSUME WrappersOk, PlacesOk, {"layout", "first"} \cap Races = {},
           NEW o \in Outputs, NEW p \in Places, Plug(o, p)
    PROVE  PlacesOk' /\ Steady
  <1> DEFINE s == [plugged |-> TRUE, on |-> TRUE, due |-> FALSE, at |-> p]
             g == [World EXCEPT !.out[o] = s]
             there == LayoutChanged(g)
             m == Merge(there, Fallback, o)
             e == Evacuated(there, Fallback, o)
             first == \A q \in Outputs : ~out[q].plugged
  <1>1. /\ AllPlaced(World) /\ Sound(World) /\ World \in Worlds /\ World.wrap = wrap /\ World.x = x
        /\ World.out = out /\ ~out[o].plugged
    BY WorldIsPlaced DEF Plug
  <1>2. s \in Screens /\ s.plugged /\ s.on
    BY SpaceAssumption DEF Screens
  <1>3. /\ IF first THEN Becomes(e) ELSE Becomes(there)
        /\ first => \A w \in Windows : wrap[w].listed = Fallback => wrap[w].kind = "unmanaged"
                                                                    /\ x[w].at = wrap[w].node
    BY DEF Plug
  <1> HIDE DEF s, first
  <1>4. Sound(g)
    BY <1>1, <1>2, ScreenIsSound
  <1>5. /\ g \in Worlds /\ g.wrap = wrap /\ g.x = x /\ g.out[o] = s
        /\ \A w \in Windows : wrap[w].out # o => Placed(g, w)
    BY <1>1, <1>2, ScreenPlaces DEF AllPlaced
  <1> HIDE DEF g
  <1>6. ASSUME NEW w \in Windows, wrap[w].out = o
        PROVE  Placed(g, w)
    <2>1. Shape(World, w)
      BY <1>1 DEF AllPlaced, Placed
    <2>2. ~wrap[w].known /\ ~wrap[w].mapped
      BY <1>1, <1>6, <2>1, UnpluggedIsEmpty
    <2> QED
      BY <1>1, <1>5, <2>1, <2>2 DEF Placed, Shape, Hit, Told
  <1>7. Ready(g)
    BY <1>5, <1>6 DEF Plug, MayRearrange, Ready, Quiet, Placed
  <1>8. /\ AllPlaced(there) /\ Quiet(there) /\ Sound(there) /\ there.out = g.out
        /\ \A w \in Windows : there.wrap[w].listed = wrap[w].listed /\ there.wrap[w].kind = wrap[w].kind
        /\ \A w \in Windows : wrap[w].kind # "managed" => there.wrap[w] = wrap[w] /\ there.x[w] = x[w]
    BY <1>4, <1>5, <1>7, LayoutPlaces, LayoutChangedIsSound
  <1>9. e = [m EXCEPT !.ws = o]
    BY DEF Evacuated
  <1> HIDE DEF there, e
  <1>10. CASE first
    <2>1. Lit(there, o) /\ o # Fallback /\ Fallback \in Everywhere /\ o \in Everywhere
      BY <1>2, <1>5, <1>8, NoneAssumption DEF Lit, Everywhere
    <2>2. \A w \in Windows : there.wrap[w].listed = Fallback =>
              there.wrap[w].kind # "managed" /\ there.x[w].at = there.wrap[w].node
      BY <1>3, <1>8, <1>10
    <2>3. m \in Worlds /\ Quiet(m) /\ \A w \in Windows : Placed(m, w)
      BY <1>8, <2>1, <2>2, MergePlaces
    <2> HIDE DEF m
    <2>4. e \in Worlds /\ SameAts(m, e) /\ e.wrap = m.wrap /\ e.x = m.x
      BY <1>9, <2>1, <2>3 DEF Worlds, SameAts
    <2>5. AllPlaced(e)
      BY <2>3, <2>4, AllKept DEF AllPlaced
    <2>6. \A w \in Windows : Glides(wrap[w], e.wrap[w])
      BY <2>3, <2>4 DEF Quiet, Glides
    <2> QED
      BY <1>3, <1>10, <2>5, <2>6, PlacedStep
  <1>11. CASE ~first
    BY <1>3, <1>8, <1>11, PlacedStep DEF Quiet, Glides
  <1> QED
    BY <1>10, <1>11

\* hikari_output_move(): what is on it is told.
LEMMA MoveOutputPlaces ==
    ASSUME WrappersOk, PlacesOk, {"layout", "moved"} \cap Races = {},
           NEW o \in Outputs, NEW p \in Places, MoveOutput(o, p)
    PROVE  PlacesOk' /\ Steady
  <1> DEFINE s == [out[o] EXCEPT !.at = p]
             g == [World EXCEPT !.out[o] = s]
             d == LayoutChanged(g)
  <1>1. /\ AllPlaced(World) /\ Sound(World) /\ World \in Worlds /\ World.wrap = wrap
        /\ World.out = out /\ out[o] \in Screens /\ out[o].on /\ out[o].plugged /\ o \in Everywhere
    BY WorldIsPlaced DEF MoveOutput, Sound, ScreensOk, Everywhere
  <1>2. s \in Screens /\ s.plugged /\ s.on
    BY <1>1, SpaceAssumption DEF Screens
  <1>3. [World EXCEPT !.out[o].at = p] = g
    BY <1>1 DEF Worlds, Screens
  <1>4. Becomes(d)
    BY <1>3 DEF MoveOutput
  <1> HIDE DEF s
  <1>5. Sound(g)
    BY <1>1, <1>2, ScreenIsSound
  <1>6. /\ g.wrap = wrap /\ g.out[o] = s
        /\ \A w \in Windows : wrap[w].out # o => Placed(g, w)
    BY <1>1, <1>2, ScreenPlaces DEF AllPlaced
  <1> HIDE DEF g
  <1>7. ASSUME NEW w \in Windows, wrap[w].out = o
        PROVE  Shape(g, w) /\ There(g, w)
    <2>1. Shape(World, w) /\ Ok(World, w)
      BY <1>1 DEF AllPlaced, Placed, Sound
    <2>2. wrap[w].kind = "managed" /\ wrap[w].mapped
      BY <1>7 DEF MoveOutput
    <2>3. wrap[w].listed = o
      BY <1>1, <1>7, <2>1, <2>2 DEF Ok
    <2> QED
      BY <1>1, <1>2, <1>6, <2>1, <2>2, <2>3 DEF Shape, There
  <1>8. Ready(g)
    BY <1>6, <1>7 DEF MoveOutput, MayRearrange, Ready, Quiet, Placed
  <1>9. AllPlaced(d) /\ Quiet(d)
    BY <1>5, <1>8, LayoutPlaces
  <1> HIDE DEF d
  <1> QED
    BY <1>4, <1>9, PlacedStep DEF Quiet, Glides

\* A window that is refreshed where it is to be, and what X was told, agree.
LEMMA SatIsPlaced ==
    ASSUME NEW h \in Worlds, NEW d, NEW w \in Windows, Placed(h, w), Sits(h, d, w, h.wrap[w].geo)
    PROVE  Placed(d, w)
  <1>1. LET r == h.wrap[w] IN
        r.known /\ r.out # Fallback /\ ~r.owes =>
            h.x[w].at = Origin(h, w) + (IF r.pending = None THEN r.geo ELSE r.pending.geo)
    BY DEF Placed, Told, Target
  <1> QED
    BY <1>1, SitsIsPlaced DEF Placed

\* hikari_configuration_reload(): a window stays where it is to be, and may set off once more.
LEMMA ReloadPlaces ==
    ASSUME WrappersOk, PlacesOk, Reload
    PROVE  PlacesOk' /\ Steady
  <1>1. AllPlaced(World) /\ World \in Worlds /\ World.wrap = wrap /\ World.out = out /\ World.x = x
    BY WorldIsPlaced
  <1>2. PICK may \in BOOLEAN :
           LET all == {w \in Windows : Shown(w) /\ wrap[w].listed \in Outputs}
               after == [w \in Windows |-> Refresh(World, w, wrap[w].geo, may)]
           IN  Becomes([World EXCEPT !.wrap = [w \in Windows |-> IF w \in all THEN after[w].wrap[w] ELSE @[w]],
                                     !.out = [o \in Everywhere |->
                                        [out[o] EXCEPT !.due = out[o].due \/ \E w \in all : after[w].out[o].due]]])
    BY DEF Reload
  <1> DEFINE all == {w \in Windows : Shown(w) /\ wrap[w].listed \in Outputs}
             after == [w \in Windows |-> Refresh(World, w, wrap[w].geo, may)]
             due(o) == out[o].due \/ \E w \in all : after[w].out[o].due
             fw == [w \in Windows |-> IF w \in all THEN after[w].wrap[w] ELSE wrap[w]]
             fo == [o \in Everywhere |-> [out[o] EXCEPT !.due = due(o)]]
             g == [World EXCEPT !.wrap = fw, !.out = fo]
  <1>3. Becomes(g)
    BY <1>1, <1>2
  <1>4. ASSUME NEW w \in all
        PROVE  Placed(after[w], w) /\ after[w].x = x /\ after[w].wrap[w] \in Wraps /\ SameAts(World, after[w])
               /\ Glides(wrap[w], after[w].wrap[w])
    <2>1. /\ Placed(World, w) /\ wrap[w].mapped /\ wrap[w].known /\ wrap[w].out # None
          /\ wrap[w].geo \in Int
      BY ShownIsPlaced
    <2>2. Sits(World, after[w], w, wrap[w].geo)
      BY <1>1, <2>1, RefreshSits DEF Placed
    <2> HIDE DEF after
    <2>3. Placed(after[w], w)
      BY <1>1, <2>1, <2>2, SatIsPlaced
    <2> QED
      BY <1>1, <2>2, <2>3 DEF Sits, Alone, Worlds
  <1>5. ASSUME NEW o \in Everywhere
        PROVE  fo[o] \in Screens /\ fo[o].at = out[o].at
    <2>1. out[o] \in Screens
      BY <1>1 DEF Worlds
    <2>2. due(o) \in BOOLEAN
      BY <2>1 DEF Screens
    <2> HIDE DEF due
    <2> QED
      BY <2>1, <2>2 DEF Screens
  <1> HIDE DEF fo, after, all
  <1>6. ASSUME NEW w \in Windows
        PROVE  fw[w] \in Wraps
    BY <1>1, <1>4 DEF Worlds
  <1>7. /\ g \in Worlds /\ g.wrap = fw /\ g.out = fo /\ g.x = x
    <2>1. fw \in [Windows -> Wraps] /\ fo \in [Everywhere -> Screens]
      BY <1>5, <1>6 DEF fo
    <2> HIDE DEF fw
    <2> QED
      BY <1>1, <2>1 DEF Worlds
  <1> HIDE DEF g
  <1>8. SameAts(World, g)
    BY <1>1, <1>5, <1>7 DEF SameAts
  <1>9. ASSUME NEW w \in Windows
        PROVE  Placed(g, w)
    <2>1. CASE w \in all
      <3>1. SameAts(after[w], g) /\ g.wrap[w] = after[w].wrap[w] /\ g.x[w].at = after[w].x[w].at
        BY <1>4, <1>7, <1>8, <2>1 DEF SameAts
      <3> QED
        BY <1>4, <2>1, <3>1, PlacedKept
    <2>2. CASE w \notin all
      BY <1>1, <1>7, <1>8, <2>2, PlacedKept DEF AllPlaced
    <2> QED
      BY <2>1, <2>2
  <1>10. \A w \in Windows : Glides(wrap[w], g.wrap[w])
    <2>1. \A w \in Windows : g.wrap[w] = IF w \in all THEN after[w].wrap[w] ELSE wrap[w]
      BY <1>7
    <2> HIDE DEF fw
    <2>2. \A w \in Windows : Glides(wrap[w], wrap[w])
      BY DEF Glides
    <2> QED
      BY <1>4, <2>1, <2>2
  <1> QED
    BY <1>3, <1>7, <1>9, <1>10, PlacedStep DEF AllPlaced

\* frame_handler(): what travels on the output advances, and the rest stays.
LEMMA FramePlaces ==
    ASSUME WrappersOk, PlacesOk, NEW o \in Outputs, Frame(o)
    PROVE  PlacesOk' /\ Steady
  <1>1. /\ AllPlaced(World) /\ Sound(World) /\ World \in Worlds /\ World.wrap = wrap /\ World.out = out
        /\ World.x = x /\ out[o] \in Screens /\ o \in Everywhere
    BY WorldIsPlaced DEF Everywhere
  <1>2. ASSUME NEW due \in BOOLEAN
        PROVE  LET s == [out[o] EXCEPT !.due = due] IN s \in Screens /\ s.at = out[o].at
    BY <1>1 DEF Screens
  <1>3. CASE ~awake
    <2> DEFINE s == [out[o] EXCEPT !.due = FALSE]
               d == [World EXCEPT !.out[o] = s]
    <2>1. [World EXCEPT !.out[o].due = FALSE] = d
      BY <1>1 DEF Worlds, Screens
    <2>2. Becomes(d)
      BY <1>3, <2>1 DEF Frame
    <2>3. s \in Screens /\ s.at = out[o].at
      BY <1>2
    <2> HIDE DEF s
    <2>4. AllPlaced(d) /\ d.wrap = wrap
      BY <1>1, <2>3, ScreenPlaces DEF AllPlaced
    <2> HIDE DEF d
    <2>5. \A w \in Windows : Glides(wrap[w], d.wrap[w])
      BY <2>4 DEF Glides
    <2> QED
      BY <2>2, <2>4, <2>5, PlacedStep
  <1>4. CASE awake
    <2>1. PICK may \in BOOLEAN, committed \in BOOLEAN, age \in [Flying(o) -> 1 .. Duration] :
             /\ \A w \in Flying(o) : age[w] > wrap[w].motion.age
             /\ LET after == [w \in Flying(o) |-> Ticked(World, w, age[w], may).wrap[w]]
                    running == \E w \in Flying(o) : after[w].motion.flying
                IN  Becomes([World EXCEPT
                       !.wrap = [w \in Windows |-> IF w \in Flying(o) THEN after[w] ELSE @[w]],
                       !.out[o].due = Reschedule(running, committed)])
      BY <1>4 DEF Frame
    <2> DEFINE t(w) == Ticked(World, w, age[w], may)
               after == [w \in Flying(o) |-> t(w).wrap[w]]
               due == Reschedule(\E w \in Flying(o) : after[w].motion.flying, committed)
               fw == [w \in Windows |-> IF w \in Flying(o) THEN after[w] ELSE wrap[w]]
               k == [World EXCEPT !.wrap = fw]
               s == [out[o] EXCEPT !.due = due]
               g == [k EXCEPT !.out[o] = s]
    <2>2. Becomes([World EXCEPT !.wrap = fw, !.out[o].due = due])
      BY <1>1, <2>1
    <2>3. due \in BOOLEAN
      BY DEF Reschedule
    <2> HIDE DEF due
    <2>4. s \in Screens /\ s.at = out[o].at
      BY <1>2, <2>3
    <2>5. ASSUME NEW w \in Flying(o)
          PROVE  Placed(t(w), w) /\ t(w).x = x /\ t(w).wrap[w] \in Wraps /\ SameAts(World, t(w))
                 /\ Glides(wrap[w], t(w).wrap[w])
      <3>1. wrap[w].out # None /\ w \in Windows
        BY <1>1, NoneAssumption DEF Sound, Ok, Flying, Everywhere
      <3>2. age[w] \in 1 .. Duration /\ age[w] > wrap[w].motion.age /\ wrap[w].motion.flying /\ Placed(World, w)
        BY <1>1, <2>1 DEF Flying, AllPlaced
      <3>3. Sits(World, t(w), w, wrap[w].geo)
        BY <1>1, <3>1, <3>2, TickedSits DEF Placed
      <3> HIDE DEF t
      <3>4. Placed(t(w), w)
        BY <1>1, <3>1, <3>2, <3>3, SatIsPlaced
      <3> QED
        BY <1>1, <3>1, <3>3, <3>4 DEF Sits, Alone, Worlds
    <2> HIDE DEF t
    <2>6. ASSUME NEW w \in Windows
          PROVE  fw[w] \in Wraps
      BY <1>1, <2>5 DEF Worlds
    <2>7. ASSUME NEW w \in Windows
          PROVE  fw[w] = IF w \in Flying(o) THEN t(w).wrap[w] ELSE wrap[w]
      OBVIOUS
    <2> HIDE DEF after
    <2>8. /\ k \in Worlds /\ k.wrap = fw /\ k.out = out /\ k.x = x
      <3>1. fw \in [Windows -> Wraps]
        BY <2>6
      <3> HIDE DEF fw
      <3> QED
        BY <1>1, <3>1 DEF Worlds
    <2> HIDE DEF fw
    <2>9. [World EXCEPT !.wrap = fw, !.out[o].due = due] = g
      BY <1>1 DEF Worlds, Screens
    <2> HIDE DEF k, s
    <2>10. SameAts(World, k)
      BY <1>1, <2>8 DEF SameAts
    <2>11. ASSUME NEW w \in Windows
           PROVE  Placed(k, w)
      <3>1. CASE w \in Flying(o)
        <4>1. SameAts(t(w), k) /\ k.wrap[w] = t(w).wrap[w] /\ k.x[w].at = t(w).x[w].at
          BY <2>5, <2>7, <2>8, <2>10, <3>1 DEF SameAts
        <4> QED
          BY <2>5, <3>1, <4>1, PlacedKept
      <3>2. CASE w \notin Flying(o)
        <4>1. k.wrap[w] = World.wrap[w] /\ k.x[w].at = World.x[w].at
          BY <1>1, <2>7, <2>8, <3>2
        <4> QED
          BY <1>1, <2>10, <4>1, PlacedKept DEF AllPlaced
      <3> QED
        BY <3>1, <3>2
    <2>12. AllPlaced(g) /\ g.wrap = k.wrap
      BY <2>4, <2>8, <2>11, ScreenPlaces DEF AllPlaced
    <2> HIDE DEF g
    <2>13. \A w \in Windows : Glides(wrap[w], g.wrap[w])
      <3>1. \A w \in Windows : g.wrap[w] = IF w \in Flying(o) THEN t(w).wrap[w] ELSE wrap[w]
        BY <2>7, <2>8, <2>12
      <3>2. \A w \in Windows : Glides(wrap[w], wrap[w])
        BY DEF Glides
      <3> QED
        BY <2>5, <3>1, <3>2
    <2> QED
      BY <2>2, <2>9, <2>12, <2>13, PlacedStep
  <1> QED
    BY <1>3, <1>4

\* session_active_handler(): nothing moves.
LEMMA SwitchSessionPlaces ==
    ASSUME WrappersOk, PlacesOk, SwitchSession
    PROVE  PlacesOk' /\ Steady
  <1>1. World.wrap = wrap /\ World.x = x /\ World.out = out /\ out \in [Everywhere -> Screens]
    BY DEF WrappersOk, Sound, ScreensOk, World, Worlds
  <1>2. \A o \in Everywhere : out'[o].at = out[o].at
    BY <1>1 DEF SwitchSession, Screens
  <1>3. World'.wrap = World.wrap /\ World'.x = World.x /\ SameAts(World, World')
    BY <1>1, <1>2 DEF SwitchSession, World, SameAts
  <1>4. \A w \in Windows : Placed(World', w)
    BY <1>3, PlacedKept DEF PlacesOk
  <1>5. wrap' = wrap
    BY DEF SwitchSession
  <1> QED
    BY <1>4, <1>5 DEF PlacesOk, Steady, Glides

-----------------------------------------------------------------------------
(* The theorem                                                             *)

\* Without windows nothing is out of place.
LEMMA InitPlaces == Init => PlacesOk
  <1> SUFFICES ASSUME Init
               PROVE  PlacesOk
    OBVIOUS
  <1>1. World \in Worlds
    BY InitOk DEF WrappersOk, Sound, ScreensOk
  <1>2. \A w \in Windows : Bare(World.wrap[w])
    BY DEF Init, World, NoWrap, Bare
  <1> QED
    BY <1>1, <1>2, BareIsPlaced DEF PlacesOk

\* The invariant is inductive, given that the wrappers are sound.
LEMMA NextPlaces ==
    ASSUME WrappersOk, PlacesOk, Races = {}, [Next]_vars
    PROVE  PlacesOk' /\ Steady
  <1>1. ASSUME NEW w \in Windows, XClient(w)
        PROVE  PlacesOk' /\ Steady
    BY <1>1, NewPlaces, AssociatePlaces, MapXPlaces, UnmapXPlaces, DissociatePlaces, DestroyPlaces,
       SetOverridePlaces, ConfigurePlaces, CommitPlaces DEF XClient
  <1>2. ASSUME NEW w \in Windows, User(w)
        PROVE  PlacesOk' /\ Steady
    <2>1. PICK g \in 0 .. Width - 1 :
             \/ Move(w, g) \/ Settle(w, g)
             \/ \E own \in BOOLEAN : Queue(w, g, own)
             \/ \E o \in {p \in Outputs : out[p].on} : Migrate(w, o, g)
      BY <1>2 DEF User
    <2>2. g \in Int
      BY SpaceAssumption
    <2> QED
      BY <2>1, <2>2, MovePlaces, SettlePlaces, QueuePlaces, MigratePlaces
  <1>3. ASSUME NEW o \in Outputs, Monitor(o)
        PROVE  PlacesOk' /\ Steady
    BY <1>3, UnplugPlaces, SwitchOffPlaces, SwitchOnPlaces, FocusOutputPlaces, FramePlaces,
       PlugPlaces, MoveOutputPlaces DEF Monitor
  <1>4. CASE Reload \/ SwitchSession
    BY <1>4, ReloadPlaces, SwitchSessionPlaces
  <1>5. CASE UNCHANGED vars
    <2>1. World' = World
      BY <1>5 DEF vars, World
    <2> QED
      BY <1>5, <2>1 DEF PlacesOk, vars, Steady, Glides
  <1> QED
    BY <1>1, <1>2, <1>3, <1>4, <1>5 DEF Next

\* The invariant implies the property.
LEMMA PlacesAreEnough ==
    ASSUME WrappersOk, PlacesOk
    PROVE  PlacesAgree
  <1>1. World.x = x /\ World.wrap = wrap /\ World.out = out /\ \A w \in Windows : Placed(World, w)
    BY DEF World, PlacesOk
  <1>2. HitIsDrawn
    BY <1>1 DEF Placed, Hit, HitIsDrawn
  <1>3. XIsTold
    BY <1>1 DEF Placed, Shape, Told, Target, Shown, XIsTold
  <1> QED
    BY <1>2, <1>3 DEF PlacesAgree

\* For any windows, surfaces and outputs, any places, width and duration: the node of a mapped
\* window is where its box is, or where its motion has got to, and X has been told where it is,
\* or is to be once it answers (xwayland_view.c:91, xwayland_unmanaged_view.c:60, animation.c:185,
\* output.c:1166), but for the orders of events that `Races' names.
THEOREM PlacesStayAgreed ==
    ASSUME Races = {}
    PROVE  Spec => []PlacesAgree
  <1> DEFINE Inv == WrappersOk /\ PlacesOk
  <1>1. Init => Inv
    BY InitOk, InitPlaces
  <1>2. Inv /\ [Next]_vars => Inv'
    BY NextKeeps, NextPlaces
  <1>3. Inv => PlacesAgree
    BY PlacesAreEnough
  <1> QED
    BY <1>1, <1>2, <1>3, PTL DEF Spec
-----------------------------------------------------------------------------
(***************************************************************************)
(* A third theorem: how windows travel.                                    *)
(*                                                                         *)
(* What travels is where its motion says (`Straight'), a step leaves it     *)
(* there or advances the motion (`Steady'), and a motion that advances has  *)
(* less of its way to go (`Nearer').  A window that does not travel after a *)
(* step is where it is to be, as the second theorem says (`Hit').           *)
(***************************************************************************)

\* Half way is where current_position() says, at the motion's time.
Straight(r) == r.motion.flying => r.motion.drawn = Position(r.motion, r.geo)

StraightOk == \A w \in Windows : Straight(wrap[w])

\* Division by a positive number keeps the order.
LEMMA DivGrows ==
    ASSUME NEW a \in Nat, NEW b \in Nat, a <= b, NEW d \in Nat \ {0}
    PROVE  /\ a \div d \in Nat /\ b \div d \in Nat
           /\ a \div d <= b \div d
  <1> DEFINE q == a \div d
             p == b \div d
  <1>1. /\ q \in Int /\ p \in Int
        /\ d * q <= a /\ a < d * q + d
        /\ d * p <= b /\ b < d * p + d
    OBVIOUS
  <1> HIDE DEF q, p
  <1>2. ASSUME NEW u \in Int, NEW v \in Int, d * u < d * v + d
        PROVE  u <= v
    <2>1. SUFFICES ASSUME v + 1 <= u
                   PROVE  FALSE
      OBVIOUS
    <2>2. PICK k \in Nat : u = v + 1 + k
      <3>1. u - v - 1 \in Nat /\ u = v + 1 + (u - v - 1)
        BY <2>1
      <3> QED
        BY <3>1
    <2>3. d * u = d * v + d + d * k
      BY <2>2
    <2>4. d * k >= 0 /\ d * k \in Int /\ d * v \in Int
      BY <2>2
    <2> QED
      BY <1>2, <2>3, <2>4
  <1>3. d * q \in Int /\ d * p \in Int
    BY <1>1
  <1>4. q <= p
    BY <1>1, <1>2, <1>3
  <1>5. ASSUME NEW u \in Int, NEW c \in Nat, c < d * u + d
        PROVE  u \in Nat
    <2>1. d * 0 = 0 /\ d * (-1) = -d /\ d * u \in Int
      OBVIOUS
    <2>2. d * (-1) < d * u
      BY <1>5, <2>1
    <2>3. d * (-1) < d * u => -1 < u
      <3>1. ASSUME u <= -1
            PROVE  d * u <= d * (-1)
        <4>1. PICK k \in Nat : u = -1 - k
          <5>1. -1 - u \in Nat /\ u = -1 - (-1 - u)
            BY <3>1
          <5> QED
            BY <5>1
        <4>2. d * u = d * (-1) - d * k /\ d * k >= 0 /\ d * k \in Int
          BY <4>1
        <4> QED
          BY <2>1, <4>2
      <3> QED
        BY <2>1, <3>1
    <2> QED
      BY <2>2, <2>3
  <1>6. q \in Nat /\ p \in Nat
    BY <1>1, <1>5
  <1> QED
    BY <1>4, <1>6 DEF q, p

\* The part of the way d that has been travelled by the time `age'.
Part(d, age) == (d * age) \div Duration

\* It grows with the time, and is never more than the way.
LEMMA PartGrows ==
    ASSUME NEW d \in Nat, NEW a \in 0 .. Duration, NEW b \in 0 .. Duration, a <= b
    PROVE  /\ Part(d, a) \in Nat /\ Part(d, b) \in Nat
           /\ Part(d, a) <= Part(d, b) /\ Part(d, b) <= d
  <1>1. Duration \in Nat \ {0} /\ a \in Nat /\ b \in Nat
    BY SpaceAssumption
  <1>2. ASSUME NEW u \in Nat, NEW v \in Nat, u <= v
        PROVE  d * u \in Nat /\ d * v \in Nat /\ d * u <= d * v
    <2>1. v - u \in Nat /\ v = u + (v - u)
      BY <1>2
    <2>2. d * (v - u) \in Nat /\ d * v = d * u + d * (v - u)
      BY <2>1
    <2>3. d * u \in Nat /\ d * v \in Nat
      OBVIOUS
    <2> QED
      BY <2>2, <2>3
  <1>3. d * a \in Nat /\ d * b \in Nat /\ d * Duration \in Nat
        /\ d * a <= d * b /\ d * b <= d * Duration
    BY <1>1, <1>2
  <1>4. Part(d, a) \in Nat /\ Part(d, b) \in Nat /\ Part(d, a) <= Part(d, b)
    BY <1>1, <1>3, DivGrows DEF Part
  <1>5. Part(d, b) <= (d * Duration) \div Duration
    BY <1>1, <1>3, DivGrows DEF Part
  <1>6. (d * Duration) \div Duration = d
    BY <1>1
  <1> QED
    BY <1>4, <1>5, <1>6

\* current_position() at a later time of a motion is no farther from its end.
LEMMA Nearer ==
    ASSUME NEW m \in Motions, NEW k \in Motions, k.from = m.from, m.age <= k.age, NEW to \in Int
    PROVE  /\ Position(m, to) \in Int /\ Position(k, to) \in Int
           /\ Away(Position(k, to), to) <= Away(Position(m, to), to)
  <1> DEFINE d == to - m.from
  <1>1. m.from \in Int /\ d \in Int /\ m.age \in 0 .. Duration /\ k.age \in 0 .. Duration
    BY SpaceAssumption DEF Motions
  <1>2. CASE d >= 0
    <2>1. d \in Nat
      BY <1>1, <1>2
    <2>2. Position(m, to) = m.from + Part(d, m.age) /\ Position(k, to) = m.from + Part(d, k.age)
      BY <1>2 DEF Position, Part
    <2>3. /\ Part(d, m.age) \in Nat /\ Part(d, k.age) \in Nat
          /\ Part(d, m.age) <= Part(d, k.age) /\ Part(d, k.age) <= d
      BY <1>1, <2>1, PartGrows
    <2> QED
      BY <1>1, <2>2, <2>3 DEF Away
  <1>3. CASE ~(d >= 0)
    <2>1. -d \in Nat
      BY <1>1, <1>3
    <2>2. Position(m, to) = m.from - Part(-d, m.age) /\ Position(k, to) = m.from - Part(-d, k.age)
      BY <1>3 DEF Position, Part
    <2>3. /\ Part(-d, m.age) \in Nat /\ Part(-d, k.age) \in Nat
          /\ Part(-d, m.age) <= Part(-d, k.age) /\ Part(-d, k.age) <= -d
      BY <1>1, <2>1, PartGrows
    <2> QED
      BY <1>1, <2>2, <2>3 DEF Away
  <1> QED
    BY <1>2, <1>3

\* A motion that begins is where it comes from.
LEMMA SetsOff ==
    ASSUME NEW m \in Motions, m.age = 0, NEW to \in Int
    PROVE  Position(m, to) = m.from
  <1>1. m.from \in Int /\ to - m.from \in Int /\ -(to - m.from) \in Int /\ Duration \in Nat \ {0}
    BY SpaceAssumption DEF Motions
  <1>2. (to - m.from) * 0 = 0 /\ (-(to - m.from)) * 0 = 0 /\ 0 \div Duration = 0
    BY <1>1
  <1> QED
    BY <1>1, <1>2 DEF Position

\* The wrappers of a sound state.
LEMMA WrapsAreTyped ==
    ASSUME WrappersOk, NEW w \in Windows
    PROVE  wrap[w] \in Wraps /\ wrap[w].motion \in Motions /\ wrap[w].geo \in Int /\ wrap[w].node \in Int
  <1>1. wrap[w] \in Wraps
    BY DEF WrappersOk, Sound, ScreensOk, World, Worlds
  <1> QED
    BY <1>1 DEF Wraps

\* Without windows nothing travels.
LEMMA InitIsStraight == Init => StraightOk
  BY DEF Init, StraightOk, Straight, NoWrap, Still

\* What glides goes on being where its motion says.
LEMMA StraightKept ==
    ASSUME StraightOk, Steady, WrappersOk'
    PROVE  StraightOk'
  <1> SUFFICES ASSUME NEW w \in Windows
               PROVE  Straight(wrap'[w])
    BY DEF StraightOk
  <1>1. wrap'[w].motion \in Motions /\ wrap'[w].geo \in Int
    <2>1. wrap'[w] \in Wraps
      BY DEF WrappersOk, Sound, ScreensOk, World, Worlds
    <2> QED
      BY <2>1 DEF Wraps
  <1>2. Glides(wrap[w], wrap'[w]) /\ Straight(wrap[w])
    BY DEF Steady, StraightOk
  <1>3. wrap'[w].motion.age = 0 => Position(wrap'[w].motion, wrap'[w].geo) = wrap'[w].motion.from
    BY <1>1, SetsOff
  <1> QED
    BY <1>2, <1>3 DEF Glides, Straight

\* A step in which no window jumps.
Calm ==
    \A w \in Windows :
       LET to == out'[wrap'[w].out].at + wrap'[w].geo IN
       /\ wrap[w].kind = "managed" /\ wrap[w].mapped /\ wrap'[w].mapped
       /\ wrap'[w].out = wrap[w].out /\ out'[wrap[w].out].at = out[wrap[w].out].at
       => Away(wrap'[w].node, to) <= Away(wrap[w].node, to)

\* Steps that keep the invariants are such.
LEMMA StepsAreCalm ==
    ASSUME WrappersOk, PlacesOk, StraightOk, Steady, WrappersOk', PlacesOk', StraightOk'
    PROVE  Calm
  <1> SUFFICES ASSUME NEW w \in Windows,
                      wrap[w].kind = "managed", wrap[w].mapped, wrap'[w].mapped,
                      wrap'[w].out = wrap[w].out, out'[wrap[w].out].at = out[wrap[w].out].at
               PROVE  LET to == out'[wrap'[w].out].at + wrap'[w].geo IN
                      Away(wrap'[w].node, to) <= Away(wrap[w].node, to)
    BY DEF Calm
  <1> DEFINE r == wrap[w]
             q == wrap'[w]
             o == out[wrap[w].out].at
             to == o + q.geo
  <1> SUFFICES Away(q.node, to) <= Away(r.node, to)
    OBVIOUS
  <1>1. r.motion \in Motions /\ r.geo \in Int /\ r.node \in Int
    BY WrapsAreTyped
  <1>2. q.motion \in Motions /\ q.geo \in Int /\ q.node \in Int
    <2>1. q \in Wraps
      BY DEF WrappersOk, Sound, ScreensOk, World, Worlds
    <2> QED
      BY <2>1 DEF Wraps
  <1>3. o \in Int
    <2>1. Shown(w)
      BY DEF Shown
    <2> QED
      BY <2>1, ShownIsPlaced
  <1>4. r.node = o + r.geo + (IF r.motion.flying THEN r.motion.drawn - r.geo ELSE 0)
    <2>1. Hit(World, w) /\ World.wrap = wrap /\ World.out = out
      BY DEF PlacesOk, Placed, World
    <2> QED
      BY <2>1 DEF Hit, Origin, Offset
  <1>5. q.node = o + q.geo + (IF q.motion.flying THEN q.motion.drawn - q.geo ELSE 0)
    <2>1. Hit(World', w) /\ World'.wrap = wrap' /\ World'.out = out'
      BY DEF PlacesOk, Placed, World
    <2> QED
      BY <2>1 DEF Hit, Origin, Offset
  <1>6. Glides(r, q) /\ Straight(r)
    BY DEF Steady, StraightOk
  <1> HIDE DEF r, q, o
  <1>7. CASE ~q.motion.flying
    <2>1. q.node = to
      BY <1>2, <1>3, <1>5, <1>7
    <2> QED
      BY <1>1, <1>2, <1>3, <2>1 DEF Away
  <1>8. CASE q.motion.flying
    <2>1. CASE q.node = r.node
      BY <1>1, <1>2, <1>3, <2>1 DEF Away
    <2>2. CASE /\ r.motion.flying /\ q.geo = r.geo
               /\ q.motion.from = r.motion.from /\ q.motion.age > r.motion.age
               /\ q.motion.drawn = Position(q.motion, q.geo)
      <3> DEFINE a == Position(r.motion, q.geo)
                 b == Position(q.motion, q.geo)
      <3>1. r.motion.age <= q.motion.age
        BY <1>1, <1>2, <2>2, SpaceAssumption DEF Motions
      <3>2. a \in Int /\ b \in Int /\ Away(b, q.geo) <= Away(a, q.geo)
        BY <1>1, <1>2, <2>2, <3>1, Nearer
      <3>3. r.motion.drawn = a /\ q.motion.drawn = b
        BY <1>6, <2>2 DEF Straight
      <3> HIDE DEF a, b
      <3>4. r.node = o + a /\ q.node = o + b
        BY <1>2, <1>3, <1>4, <1>5, <1>8, <2>2, <3>2, <3>3
      <3> QED
        BY <1>2, <1>3, <3>2, <3>4 DEF Away
    <2> QED
      BY <1>6, <1>8, <2>1, <2>2 DEF Glides
  <1> QED
    BY <1>7, <1>8

\* For any windows, surfaces and outputs, any places, width and duration: on its output a managed
\* window never moves away from where it is to be, not by a frame, nor when it gets another target
\* half way, or the same one again by a reload (animation.c:185), but for the
\* orders of events that `Races' names.
THEOREM WindowsNeverJump ==
    ASSUME Races = {}
    PROVE  Spec => NeverJumps
  <1> DEFINE Inv == WrappersOk /\ PlacesOk /\ StraightOk
  <1>1. Init => Inv
    BY InitOk, InitPlaces, InitIsStraight
  <1>2. Inv /\ [Next]_vars => Inv' /\ Calm
    BY NextKeeps, NextPlaces, StraightKept, StepsAreCalm
  <1>3. Inv /\ [Next]_vars => [Calm]_vars
    BY <1>2
  <1>4. Spec => [][Calm]_vars
    <2> HIDE DEF Inv
    <2> QED
      BY <1>1, <1>2, <1>3, PTL DEF Spec
  <1> QED
    BY <1>4 DEF NeverJumps, Calm
=============================================================================
