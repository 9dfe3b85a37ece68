--------------------------- MODULE OperationsProofs ---------------------------
(***************************************************************************)
(* Theorems about Operations, for any views, outputs, sheets, requests and *)
(* keys, without the orders of events that `Races' names: each tile is at  *)
(* home, no assertion fails, no queued sheet is forgotten, and an          *)
(* operation in flight gives way to a reset only.                          *)
(*                                                                         *)
(* The queue and commit functions take one view to one view, and so do     *)
(* the lemmas: `Local' is the invariant of one view by itself, `Step' what *)
(* a handler may do to it.  The layouts, the monitors and the queue of     *)
(* reflow.c come in with the actions.                                      *)
(***************************************************************************)
EXTENDS Operations, TLAPS

\* The tile a view has or waits for is on the sheet of the view, and it is freed once; the
\* commit of what is pending will find what it asserts.
Core(r) ==
    /\ Dirty(r) => r.mapped
    /\ r.mapped => r.place \in Place
    /\ r.tile \in Place => r.mapped /\ r.place = r.tile /\ r.flags = {} /\ r.op # "reset"
    /\ r.pending \in Place => r.mapped /\ r.place = r.pending /\ r.flags = {}
    /\ r.tile = Loose => r.op = "reset"
    /\ r.pending # Nowhere <=> Tiling(r)
    /\ {r.op, r.maximized} # {"vertical", "horizontal"}

\* GeometryIsLive of a view.
Live(r) ==
    /\ r.current = "tile" => Tiled(r)
    /\ r.current = "maximized" => r.maximized # "no"

Local(r) == r \in ViewState /\ Core(r) /\ Live(r) /\ ~r.fault

\* The layout of a tile exists, and the sheet of a view is on a monitor that does.
Home(r, ls, os) ==
    /\ {r.tile, r.pending} \cap Place \subseteq ls
    /\ r.place # Nowhere => r.place.out \in os

AllHome(w, ls, os) ==
    /\ w \in [Views -> ViewState]
    /\ \A v \in Views : Local(w[v]) /\ Home(w[v], ls, os)

\* A queued sheet is woken by the idle source, the end of a drag, or a view on its monitor.
Heard(w, o) == \E v \in Views : Dirty(w[v]) /\ w[v].place.out = o

Awake(w, q, a, m) == \A p \in q : a \/ m \/ Heard(w, p.out)

Sane ==
    /\ displayed \in [Outputs -> Sheets]
    /\ outputs \in (SUBSET Outputs) \ {{}}
    /\ layouts \subseteq Place
    /\ queued \subseteq Place
    /\ armed \in BOOLEAN
    /\ moving \in BOOLEAN

IInv == Sane /\ AllHome(view, layouts, outputs) /\ Awake(view, queued, armed, moving)
-----------------------------------------------------------------------------
(* One view.                                                               *)

\* What stays where it is while an operation is queued or takes effect.
Stays(r, s) ==
    /\ s.mapped = r.mapped /\ s.place = r.place /\ s.flags = r.flags

\* What a handler may do to a view: no new tile, and what was asked of the client is still
\* asked, unless the view is reset, or the operation took effect.
Step(r, s) ==
    /\ Local(s) /\ Stays(r, s)
    /\ {s.tile, s.pending} \cap Place \subseteq {r.tile, r.pending}
    /\ Dirty(r) => s.op \in {r.op, "none", "reset"}

\* A handler that answers nothing and resets nothing.
Quiet(r, s) == Step(r, s) /\ (Dirty(r) => s.op = r.op)

\* An operation on what is not there is not on a sheet.
LEMMA NoPlace == Nowhere \notin Place /\ Loose \notin Place /\ Nowhere # Loose
  BY OutputAssumption DEF Nowhere, Loose, Place

\* An assertion that holds changes nothing.
LEMMA FailNot ==
    ASSUME NEW r \in ViewState, ~r.fault, NEW wrong, ~wrong
    PROVE  Fail(r, wrong) = r
  <1>1. (r.fault \/ wrong) = FALSE /\ r.fault = FALSE
    BY DEF ViewState
  <1>2. Fail(r, wrong) = [r EXCEPT !.fault = FALSE]
    BY <1>1 DEF Fail
  <1> QED
    BY <1>1, <1>2 DEF ViewState

\* The view is no longer hidden, or it is.
LEMMA HiddenStep ==
    ASSUME NEW r, Local(r), NEW b \in BOOLEAN
    PROVE  LET s == [r EXCEPT !.hidden = b] IN
           Quiet(r, s) /\ s.hidden = b /\ s.tile = r.tile /\ s.pending = r.pending /\ s.op = r.op
           /\ s.fullscreen = r.fullscreen /\ s.maximized = r.maximized
  <1> DEFINE s == [r EXCEPT !.hidden = b]
  <1>1. s \in ViewState /\ s.hidden = b
    BY DEF Local, ViewState
  <1>2. Stays(r, s) /\ s.tile = r.tile /\ s.pending = r.pending /\ s.op = r.op
        /\ s.maximized = r.maximized /\ s.current = r.current /\ s.fault = r.fault
        /\ s.fullscreen = r.fullscreen
    BY DEF Local, ViewState, Stays
  <1> HIDE DEF s
  <1>3. Core(s) /\ Live(s)
    BY <1>2 DEF Core, Live, Stays, Local, Tiled, Tiling, Dirty
  <1>4. Quiet(r, s)
    BY <1>1, <1>2, <1>3 DEF Quiet, Step, Local, Dirty
  <1> QED
    BY <1>1, <1>2, <1>4 DEF s

\* refresh_geometry() leaves the pointer at something that is there.
LEMMA RefreshLive ==
    ASSUME NEW r \in ViewState
    PROVE  LET s == Refresh(r) IN
           /\ s \in ViewState /\ Live(s) /\ Stays(r, s) /\ s.tile = r.tile /\ s.pending = r.pending
           /\ s.op = r.op /\ s.maximized = r.maximized /\ s.fullscreen = r.fullscreen
           /\ s.fault = r.fault /\ s.hidden = r.hidden /\ s.parked = r.parked
  <1> DEFINE b == Box(r)
             s == [r EXCEPT !.current = b]
  <1>1. b \in {"own", "tile", "maximized", "fullscreen"} /\ (b = "tile" => Tiled(r))
        /\ (b = "maximized" => r.maximized # "no")
    BY DEF Box
  <1> HIDE DEF b
  <1>2. s \in ViewState /\ s.current = b
    BY <1>1 DEF ViewState
  <1>3. Stays(r, s) /\ s.tile = r.tile /\ s.pending = r.pending /\ s.op = r.op
        /\ s.maximized = r.maximized /\ s.fullscreen = r.fullscreen
        /\ s.fault = r.fault /\ s.hidden = r.hidden /\ s.parked = r.parked
    BY <1>1 DEF ViewState, Stays
  <1>4. Live(s)
    BY <1>1, <1>2, <1>3 DEF Live, Tiled
  <1>5. Refresh(r) = s
    BY DEF Refresh, b
  <1> QED
    BY <1>2, <1>3, <1>4, <1>5

\* The same, with the view shown on a sheet that is.
LEMMA PresentLive ==
    ASSUME NEW r \in ViewState
    PROVE  LET s == Present(r) IN
           /\ s \in ViewState /\ Live(s) /\ Stays(r, s) /\ s.tile = r.tile /\ s.pending = r.pending
           /\ s.op = r.op /\ s.maximized = r.maximized /\ s.fullscreen = r.fullscreen
           /\ s.fault = r.fault /\ s.parked = r.parked
  <1> DEFINE b == r.hidden /\ ~Shown(r.place)
             q == [r EXCEPT !.hidden = b]
  <1>1. b \in BOOLEAN
    OBVIOUS
  <1>2. Present(r) = Refresh(q)
    BY DEF Present
  <1> HIDE DEF b
  <1>3. q \in ViewState /\ Stays(r, q) /\ q.tile = r.tile /\ q.pending = r.pending /\ q.op = r.op
        /\ q.maximized = r.maximized /\ q.fullscreen = r.fullscreen
        /\ q.fault = r.fault /\ q.parked = r.parked
    BY <1>1 DEF ViewState, Stays
  <1> HIDE DEF q
  <1> QED
    BY <1>2, <1>3, RefreshLive DEF Stays
-----------------------------------------------------------------------------
(* An operation takes effect.                                              *)

\* What an operation that took effect leaves: nothing pending, and no tile but the one that was.
Done(r, s) ==
    /\ Step(r, s) /\ ~Dirty(s) /\ s.parked = r.parked /\ s.pending = Nowhere

\* A tile that a view may keep: none, or one it had, or waited for, in a layout.
MayKeep(r, t) == t = Nowhere \/ (t \in Place /\ t \in {r.tile, r.pending} /\ r.op # "reset")

\* The slot is cleared.
Idle(q) == [q EXCEPT !.op = "none"]

\* The end of every commit function: the slot is cleared.
LEMMA CommitEnds ==
    ASSUME NEW r, Local(r), NEW q \in ViewState, Live(q), Stays(r, q), ~q.fault,
           q.parked = r.parked, q.pending = Nowhere, r.mapped,
           MayKeep(r, q.tile)
    PROVE  Done(r, Idle(q))
  <1> DEFINE s == Idle(q)
  <1>1. s \in ViewState /\ s.op = "none"
    BY DEF ViewState, Kinds, Idle
  <1>2. Stays(q, s) /\ s.tile = q.tile /\ s.pending = q.pending /\ s.maximized = q.maximized
        /\ s.current = q.current /\ s.fault = q.fault /\ s.parked = q.parked
    BY DEF ViewState, Stays, Idle
  <1> HIDE DEF s
  <1>3. Stays(r, s) /\ r.place \in Place /\ Live(s)
    BY <1>2 DEF Stays, Local, Core, Live, Tiled
  <1>4. q.tile \in Place => s.place = q.tile /\ s.flags = {} /\ s.mapped
    BY <1>2, <1>3, NoPlace DEF Local, Core, Stays, MayKeep
  <1>5. {s.op, s.maximized} # {"vertical", "horizontal"}
    BY <1>1
  <1>6. Core(s)
    BY <1>1, <1>2, <1>3, <1>4, <1>5, NoPlace DEF MayKeep, Core, Dirty, Tiling, Stays
  <1>7. {s.tile, s.pending} \cap Place \subseteq {r.tile, r.pending}
    BY <1>2, NoPlace DEF MayKeep
  <1>8. Local(s) /\ Step(r, s)
    BY <1>1, <1>2, <1>3, <1>6, <1>7 DEF Local, Step
  <1> QED
    BY <1>1, <1>2, <1>8 DEF Done, Dirty, s

\* commit_reset() finds no tile in a layout, and frees the one detached.
LEMMA ResetCommitted ==
    ASSUME NEW r, Local(r), r.op = "reset"
    PROVE  Done(r, Idle(CommitReset(r)))
  <1> DEFINE u == Unshadow(r)
             q == [u EXCEPT !.tile = Nowhere, !.maximized = "no"]
  <1>1. u \in ViewState /\ Stays(r, u) /\ u.tile = r.tile /\ u.pending = r.pending
        /\ u.op = r.op /\ u.fault = r.fault /\ u.parked = r.parked
    BY DEF Unshadow, ViewState, Local, Stays
  <1>2. ~Attached(r) /\ r.mapped /\ r.pending = Nowhere
    BY DEF Attached, Local, Core, Dirty, Tiling
  <1> HIDE DEF u
  <1>3. Fail(u, Attached(r)) = u
    BY <1>1, <1>2, FailNot DEF Local
  <1>4. CommitReset(r) = Present(q)
    BY <1>3 DEF CommitReset, u
  <1>5. q \in ViewState /\ Stays(u, q) /\ q.tile = Nowhere /\ q.pending = u.pending
        /\ q.fault = u.fault /\ q.parked = u.parked
    BY <1>1 DEF ViewState, Stays
  <1> HIDE DEF q
  <1>6. Stays(r, q) /\ ~q.fault /\ q.parked = r.parked /\ q.pending = Nowhere
    BY <1>1, <1>2, <1>5 DEF Stays, Local
  <1> DEFINE p == Present(q)
  <1>7. p \in ViewState /\ Live(p) /\ Stays(r, p) /\ ~p.fault /\ p.parked = r.parked
        /\ p.pending = Nowhere /\ p.tile = Nowhere
    BY <1>5, <1>6, PresentLive DEF Stays
  <1> HIDE DEF p
  <1>8. MayKeep(r, p.tile)
    BY <1>7 DEF MayKeep
  <1>9. Done(r, Idle(p))
    BY <1>2, <1>7, <1>8, CommitEnds
  <1> QED
    BY <1>4, <1>9 DEF p

\* commit_tile() finds its tile, and none that is detached.
LEMMA TileCommitted ==
    ASSUME NEW r, Local(r), r.op = "tile"
    PROVE  Done(r, Idle(CommitTile(r)))
  <1> DEFINE u == Unshadow(r)
             q == [u EXCEPT !.maximized = "no", !.tile = r.pending, !.pending = Nowhere]
  <1>1. u \in ViewState /\ Stays(r, u) /\ u.tile = r.tile /\ u.pending = r.pending
        /\ u.op = r.op /\ u.fault = r.fault /\ u.parked = r.parked
    BY DEF Unshadow, ViewState, Local, Stays
  <1>2. r.pending \in Place /\ r.tile # Loose /\ r.mapped /\ r.pending # Nowhere
    BY DEF Local, Core, Dirty, Tiling, ViewState
  <1> HIDE DEF u
  <1>3. Fail(u, r.pending = Nowhere \/ r.tile = Loose) = u
    BY <1>1, <1>2, FailNot DEF Local
  <1>4. CommitTile(r) = Refresh(q)
    BY <1>3 DEF CommitTile, u
  <1>5. q \in ViewState /\ Stays(u, q) /\ q.tile = r.pending /\ q.pending = Nowhere
        /\ q.fault = u.fault /\ q.parked = u.parked
    BY <1>1, <1>2 DEF ViewState, Stays
  <1> HIDE DEF q
  <1>6. Stays(r, q) /\ ~q.fault /\ q.parked = r.parked
    BY <1>1, <1>2, <1>5 DEF Stays, Local
  <1> DEFINE p == Refresh(q)
  <1>7. p \in ViewState /\ Live(p) /\ Stays(r, p) /\ ~p.fault /\ p.parked = r.parked
        /\ p.pending = Nowhere /\ p.tile = r.pending
    BY <1>5, <1>6, RefreshLive DEF Stays
  <1> HIDE DEF p
  <1>8. MayKeep(r, p.tile)
    BY <1>2, <1>7 DEF MayKeep
  <1>9. Done(r, Idle(p))
    BY <1>2, <1>7, <1>8, CommitEnds
  <1> QED
    BY <1>4, <1>9 DEF p

\* The other commit functions leave the tile alone.
LEMMA BoxCommitted ==
    ASSUME NEW r, Local(r), r.op \in Kinds \ {"reset", "tile"},
           NEW q \in ViewState, Stays(r, q), q.tile = r.tile, q.pending = r.pending,
           q.fault = r.fault, q.parked = r.parked
    PROVE  Done(r, Idle(Present(q)))
  <1>1. r.pending = Nowhere /\ r.tile # Loose /\ r.mapped /\ r.tile \in Place \cup {Nowhere}
    BY DEF Local, Core, Dirty, Tiling, ViewState, Kinds
  <1> DEFINE p == Present(q)
  <1>2. p \in ViewState /\ Live(p) /\ Stays(r, p) /\ ~p.fault /\ p.parked = r.parked
        /\ p.pending = Nowhere /\ p.tile = r.tile
    BY <1>1, PresentLive DEF Stays, Local
  <1> HIDE DEF p
  <1>3. MayKeep(r, p.tile)
    BY <1>1, <1>2 DEF MayKeep
  <1>4. Done(r, Idle(p))
    BY <1>1, <1>2, <1>3, CommitEnds
  <1> QED
    BY <1>4 DEF p

\* The answer of the client: hikari_view_commit_pending_operation().
LEMMA Committed ==
    ASSUME NEW r, Local(r), Dirty(r)
    PROVE  Done(r, Commit(r))
  <1>1. r \in ViewState /\ r.op \in Kinds
    BY DEF Local, Dirty, ViewState
  <1>2. CASE r.op = "reset"
    BY <1>2, ResetCommitted DEF Commit, Idle
  <1>3. CASE r.op = "tile"
    BY <1>3, TileCommitted DEF Commit, Idle
  <1>4. CASE r.op = "resize"
    <2>1. Done(r, Idle(Present(r)))
      BY <1>1, <1>4, BoxCommitted DEF Stays, Kinds
    <2> QED
      BY <1>4, <2>1 DEF Commit, Idle
  <1>5. CASE r.op = "unmaximize"
    <2> DEFINE q == [Unshadow(r) EXCEPT !.maximized = "no"]
    <2>1. q \in ViewState /\ Stays(r, q) /\ q.tile = r.tile /\ q.pending = r.pending
          /\ q.fault = r.fault /\ q.parked = r.parked
      BY <1>1 DEF Unshadow, ViewState, Stays
    <2> HIDE DEF q
    <2>2. Done(r, Idle(Present(q)))
      BY <1>5, <2>1, BoxCommitted DEF Kinds
    <2>3. CommitUnmaximize(r) = Present(q)
      BY DEF CommitUnmaximize, q
    <2> QED
      BY <1>5, <2>2, <2>3 DEF Commit, Idle
  <1>6. CASE r.op = "fullscreen"
    <2> DEFINE q == [r EXCEPT !.fullscreen = TRUE]
    <2>1. q \in ViewState /\ Stays(r, q) /\ q.tile = r.tile /\ q.pending = r.pending
          /\ q.fault = r.fault /\ q.parked = r.parked
      BY <1>1 DEF ViewState, Stays
    <2> HIDE DEF q
    <2>2. Done(r, Idle(Present(q)))
      BY <1>6, <2>1, BoxCommitted DEF Kinds
    <2>3. CommitFullscreen(r) = Present(q)
      BY DEF CommitFullscreen, q
    <2> QED
      BY <1>6, <2>2, <2>3 DEF Commit, Idle
  <1>7. CASE r.op \in {"full", "vertical", "horizontal"}
    <2> DEFINE q == [r EXCEPT !.maximized = r.op]
    <2>1. q \in ViewState /\ Stays(r, q) /\ q.tile = r.tile /\ q.pending = r.pending
          /\ q.fault = r.fault /\ q.parked = r.parked
      BY <1>1, <1>7 DEF ViewState, Stays
    <2> HIDE DEF q
    <2>2. Done(r, Idle(Present(q)))
      BY <1>7, <2>1, BoxCommitted DEF Kinds
    <2>3. Fail(r, {r.op, r.maximized} = {"vertical", "horizontal"}) = r
      BY FailNot DEF Local, Core
    <2>4. CommitMaximize(r) = Present(q)
      BY <2>3 DEF CommitMaximize, q
    <2> QED
      BY <1>7, <2>2, <2>4 DEF Commit, Idle
  <1> QED
    BY <1>1, <1>2, <1>3, <1>4, <1>5, <1>6, <1>7 DEF Kinds
-----------------------------------------------------------------------------
(* An operation is queued.                                                 *)

\* A view that may be reset: its tile may be on a sheet that it has just left.
Resettable(r) ==
    /\ r \in ViewState /\ Live(r) /\ ~r.fault /\ r.mapped /\ r.place \in Place
    /\ r.pending # Nowhere => Tiling(r)

\* A view after queue_reset(): no layout has its tile, and none will.
WasReset(r, s, fits) ==
    /\ Local(s) /\ Stays(r, s) /\ s.tile \notin Place /\ s.pending = Nowhere
    /\ s.parked = r.parked
    /\ fits => ~Dirty(s)
    /\ ~fits => s.op = "reset"

\* queue_reset() cancels the tile that waits and detaches the one there is, before anything else.
LEMMA Reset ==
    ASSUME NEW r, Resettable(r), NEW fits \in BOOLEAN
    PROVE  WasReset(r, QueueReset(r, fits), fits)
  <1> DEFINE c == CancelTile(r)
             d == Detach(c)
             q == Queue(d, "reset")
  <1>1. c \in ViewState /\ Stays(r, c) /\ c.tile = r.tile /\ c.pending = Nowhere
        /\ c.fault = r.fault /\ c.parked = r.parked /\ c.current = r.current
        /\ c.maximized = r.maximized
    BY ZenonT(60) DEF CancelTile, Resettable, ViewState, Stays
  <1> HIDE DEF c
  <1>2. d \in ViewState /\ Stays(c, d) /\ d.tile \notin Place /\ d.pending = c.pending
        /\ d.fault = c.fault /\ d.parked = c.parked /\ d.current = c.current
        /\ d.maximized = c.maximized /\ (c.tile # Nowhere => d.tile # Nowhere)
    BY <1>1, NoPlace DEF Detach, Attached, ViewState, Stays
  <1> HIDE DEF d
  <1>3. q \in ViewState /\ Stays(d, q) /\ q.tile = d.tile /\ q.pending = d.pending
        /\ q.fault = d.fault /\ q.parked = d.parked /\ q.current = d.current
        /\ q.maximized = d.maximized /\ q.op = "reset"
    BY <1>2 DEF Queue, ViewState, Stays, Kinds
  <1> HIDE DEF q
  <1>4. Stays(r, q) /\ q.tile \notin Place /\ q.pending = Nowhere /\ ~q.fault /\ q.parked = r.parked
        /\ q.mapped /\ q.place \in Place
    BY <1>1, <1>2, <1>3 DEF Stays, Resettable
  <1>5. Live(q)
    BY <1>1, <1>2, <1>3 DEF Live, Resettable, Tiled
  <1>6. Core(q)
    BY <1>3, <1>4, NoPlace DEF Core, Dirty, Tiling
  <1>7. Local(q) /\ Dirty(q)
    BY <1>3, <1>4, <1>5, <1>6 DEF Local, Dirty
  <1>8. QueueReset(r, fits) = IF fits THEN Commit(q) ELSE q
    BY DEF QueueReset, q, d, c
  <1>9. CASE ~fits
    BY <1>3, <1>4, <1>7, <1>8, <1>9 DEF WasReset
  <1>10. CASE fits
    <2>1. Done(q, Commit(q))
      BY <1>7, Committed
    <2> DEFINE e == Commit(q)
    <2> HIDE DEF e
    <2>2. Local(e) /\ Stays(q, e) /\ e.pending = Nowhere /\ e.parked = q.parked /\ ~Dirty(e)
      BY <2>1 DEF Done, Step, e
    <2>3. e.tile \notin Place
      BY <2>1, <1>4, NoPlace DEF Done, Step, e
    <2>4. Stays(r, e)
      BY <2>2, <1>4 DEF Stays
    <2>5. QueueReset(r, fits) = e
      BY <1>8, <1>10 DEF e
    <2> QED
      BY <1>4, <1>10, <2>2, <2>3, <2>4, <2>5 DEF WasReset
  <1> QED
    BY <1>9, <1>10

\* A view that is sound by itself may be reset.
LEMMA MayReset ==
    ASSUME NEW r, Local(r), r.mapped
    PROVE  Resettable(r)
  BY DEF Resettable, Local, Core

\* ... and then has done a step.
LEMMA ResetStep ==
    ASSUME NEW r, Local(r), r.mapped, NEW fits \in BOOLEAN
    PROVE  Step(r, QueueReset(r, fits))
  <1>1. WasReset(r, QueueReset(r, fits), fits)
    BY Reset, MayReset
  <1> QED
    BY <1>1, NoPlace DEF WasReset, Step, Dirty

\* A view after queue_tile() for the layout of a sheet.
WasTiled(r, s, p) ==
    /\ Local(s) /\ Stays(r, s) /\ {s.tile, s.pending} \cap Place \subseteq {r.tile, p}

\* queue_tile() finds the slot free, and puts the new tile in it.
LEMMA TileQueued ==
    ASSUME NEW r, Local(r), r.mapped, NEW p, r.place = p, r.flags = {}, ~Dirty(r),
           NEW fits \in BOOLEAN
    PROVE  WasTiled(r, QueueTile(r, p, fits), p)
  <1>1. p \in Place /\ Tileable(r) /\ r.pending = Nowhere /\ r.tile # Loose
    BY DEF Local, Core, Tileable, Dirty, Tiling
  <1> DEFINE c == [r EXCEPT !.pending = p]
             q == Queue(c, "tile")
  <1>2. Fail(r, ~Tileable(r)) = r
    BY <1>1, FailNot DEF Local
  <1>3. QueueTile(r, p, fits) = IF fits THEN Commit(q) ELSE q
    BY <1>2 DEF QueueTile
  <1>4. c \in ViewState /\ Stays(r, c) /\ c.tile = r.tile /\ c.pending = p
        /\ c.fault = r.fault /\ c.parked = r.parked /\ c.current = r.current
        /\ c.maximized = r.maximized
    BY <1>1 DEF Local, ViewState, Stays
  <1> HIDE DEF c
  <1>5. q \in ViewState /\ Stays(c, q) /\ q.tile = c.tile /\ q.pending = c.pending
        /\ q.fault = c.fault /\ q.current = c.current /\ q.maximized = c.maximized /\ q.op = "tile"
    BY <1>4 DEF Queue, ViewState, Stays, Kinds
  <1> HIDE DEF q
  <1>6. Core(q)
    BY <1>1, <1>4, <1>5, NoPlace DEF Core, Dirty, Tiling, Stays, Local
  <1>7. Local(q) /\ Dirty(q) /\ Stays(r, q)
    BY <1>4, <1>5, <1>6 DEF Local, Live, Tiled, Stays, Dirty
  <1>8. CASE ~fits
    BY <1>3, <1>4, <1>5, <1>7, <1>8 DEF WasTiled
  <1>9. CASE fits
    <2>1. Done(q, Commit(q))
      BY <1>7, Committed
    <2> QED
      BY <1>3, <1>4, <1>5, <1>7, <1>9, <2>1 DEF Done, Step, Stays, WasTiled
  <1> QED
    BY <1>8, <1>9
-----------------------------------------------------------------------------
(* What the client and the user ask for.                                   *)

\* A view before and after its client is asked for something: where it is stays.
Same(r, s) ==
    /\ Stays(r, s) /\ s.hidden = r.hidden /\ s.parked = r.parked
    /\ s.maximized = r.maximized /\ s.tile = r.tile /\ s.pending = r.pending

\* fullscreen is left aside.
LEMMA Unshadowed ==
    ASSUME NEW r, Local(r)
    PROVE  LET s == Unshadow(r) IN
           Local(s) /\ Same(r, s) /\ s.op = r.op /\ s.fullscreen = FALSE
  <1> DEFINE s == Unshadow(r)
  <1>1. s \in ViewState /\ Same(r, s) /\ s.op = r.op /\ s.fullscreen = FALSE
        /\ s.current = r.current /\ s.fault = r.fault
    BY DEF Local, Unshadow, ViewState, Same, Stays
  <1> HIDE DEF s
  <1>2. Core(s) /\ Live(s)
    BY <1>1 DEF Local, Core, Live, Dirty, Tiling, Tiled, Same, Stays
  <1> QED
    BY <1>1, <1>2 DEF Local, s

\* resize() with a new operation in a free slot.
LEMMA Queued ==
    ASSUME NEW r, Local(r), r.mapped, ~Dirty(r), NEW kind \in Kinds \ {"reset", "tile"},
           {kind, r.maximized} # {"vertical", "horizontal"}
    PROVE  LET s == Queue(r, kind) IN
           Local(s) /\ Same(r, s) /\ s.op = kind /\ s.fullscreen = r.fullscreen
  <1> DEFINE s == Queue(r, kind)
  <1>1. s \in ViewState /\ Same(r, s) /\ s.op = kind /\ s.fullscreen = r.fullscreen
        /\ s.current = r.current /\ s.fault = r.fault
    BY DEF Local, Queue, ViewState, Same, Stays
  <1> HIDE DEF s
  <1>2. Core(s) /\ Live(s)
    BY <1>1, NoPlace DEF Local, Core, Live, Dirty, Tiling, Tiled, Same, Stays, Kinds
  <1> QED
    BY <1>1, <1>2 DEF Local, s

\* ... which asserts that the view is not hidden.
LEMMA QueuedShown ==
    ASSUME NEW r, Local(r), r.mapped, ~r.hidden, ~Dirty(r), NEW kind \in Kinds \ {"reset", "tile"},
           {kind, r.maximized} # {"vertical", "horizontal"}
    PROVE  LET s == QueueShown(r, kind) IN
           Local(s) /\ Same(r, s) /\ s.op = kind /\ s.fullscreen = r.fullscreen
  <1>1. QueueShown(r, kind) = Queue(r, kind)
    BY FailNot DEF QueueShown, Local
  <1> QED
    BY <1>1, Queued

\* Either the slot was free, or nothing was done.
Asked(r, s) == Local(s) /\ Same(r, s) /\ (Dirty(r) => s.op = r.op)

LEMMA AskedStep ==
    ASSUME NEW r, NEW s, Asked(r, s)
    PROVE  Quiet(r, s)
  BY DEF Asked, Quiet, Step, Same

\* hikari_view_toggle_full_maximize() of a view that is shown.
LEMMA FullToggled ==
    ASSUME NEW r, Local(r), r.mapped, ~r.hidden
    PROVE  LET s == ToggleFull(r) IN Asked(r, s) /\ s.fullscreen = r.fullscreen
  <1>1. CASE Dirty(r)
    BY <1>1 DEF ToggleFull, Asked, Same, Stays
  <1>2. CASE ~Dirty(r)
    <2> DEFINE kind == IF r.maximized = "full" THEN "unmaximize" ELSE "full"
    <2>1. kind \in Kinds \ {"reset", "tile"} /\ {kind, r.maximized} # {"vertical", "horizontal"}
      BY DEF Kinds
    <2> HIDE DEF kind
    <2>2. LET s == QueueShown(r, kind) IN Local(s) /\ Same(r, s) /\ s.fullscreen = r.fullscreen
      BY <1>2, <2>1, QueuedShown
    <2>3. ToggleFull(r) = QueueShown(r, kind)
      BY <1>2 DEF ToggleFull, kind
    <2> QED
      BY <1>2, <2>2, <2>3 DEF Asked
  <1> QED
    BY <1>1, <1>2

\* The vertical and the horizontal toggle, in a free slot.
LEMMA AxisQueued ==
    ASSUME NEW r, Local(r), r.mapped, ~r.hidden, ~Dirty(r), NEW axis \in {"vertical", "horizontal"}
    PROVE  Asked(r, QueueAxis(r, axis))
  <1> DEFINE u == Unshadow(r)
             other == IF axis = "vertical" THEN "horizontal" ELSE "vertical"
             kind == CASE r.maximized = "no"   -> axis
                       [] r.maximized = "full" -> other
                       [] r.maximized = axis   -> "unmaximize"
                       [] OTHER                -> "full"
  <1>1. Local(u) /\ Same(r, u) /\ u.op = r.op
    BY Unshadowed
  <1>2. kind \in Kinds \ {"reset", "tile"}
    BY DEF Kinds
  <1>3. {kind, r.maximized} # {"vertical", "horizontal"}
    <2>1. r.maximized \in {"no", "full", "vertical", "horizontal"}
      BY DEF Local, ViewState
    <2>2. CASE r.maximized \in {"no", "full"}
      BY <2>2
    <2>3. CASE r.maximized = axis
      BY <2>3
    <2>4. CASE r.maximized = other
      BY <2>4
    <2> QED
      BY <2>1, <2>2, <2>3, <2>4
  <1>4. QueueAxis(r, axis) = QueueShown(u, kind)
    BY DEF QueueAxis
  <1> HIDE DEF u, kind
  <1>5. u.mapped /\ ~u.hidden /\ ~Dirty(u) /\ u.maximized = r.maximized
    BY <1>1 DEF Same, Stays, Dirty
  <1>6. LET s == QueueShown(u, kind) IN Local(s) /\ Same(u, s)
    BY <1>1, <1>2, <1>3, <1>5, QueuedShown
  <1> QED
    BY <1>1, <1>4, <1>6 DEF Asked, Same, Stays

\* A request for fullscreen that was carried out, or is what the client is asked for.
Carried(s, on) == s.fullscreen = on \/ (on /\ s.op = "fullscreen")

\* hikari_view_request_fullscreen() and queue_unfullscreen().
LEMMA FullscreenSet ==
    ASSUME NEW r, Local(r), NEW on \in BOOLEAN
    PROVE  LET s == SetFullscreen(r, on) IN
           Asked(r, s) /\ (~Dirty(r) /\ r.mapped /\ ~r.hidden => Carried(s, on))
  <1>1. CASE ~r.mapped \/ r.hidden \/ Dirty(r) \/ on = r.fullscreen
    BY <1>1 DEF SetFullscreen, Asked, Same, Stays, Carried
  <1>2. CASE r.mapped /\ ~r.hidden /\ ~Dirty(r) /\ on # r.fullscreen /\ on
    <2>1. LET s == QueueShown(r, "fullscreen") IN Local(s) /\ Same(r, s) /\ s.op = "fullscreen"
      BY <1>2, QueuedShown DEF Kinds
    <2>2. SetFullscreen(r, on) = QueueShown(r, "fullscreen")
      BY <1>2 DEF SetFullscreen
    <2> QED
      BY <1>2, <2>1, <2>2 DEF Asked, Carried
  <1>3. CASE r.mapped /\ ~r.hidden /\ ~Dirty(r) /\ on # r.fullscreen /\ ~on
    <2> DEFINE u == Unshadow(r)
               kind == IF r.maximized = "no" THEN "resize" ELSE r.maximized
    <2>1. Local(u) /\ Same(r, u) /\ u.op = r.op /\ u.fullscreen = FALSE
      BY Unshadowed
    <2>2. kind \in Kinds \ {"reset", "tile"} /\ {kind, r.maximized} # {"vertical", "horizontal"}
      BY DEF Kinds, Local, ViewState
    <2>3. SetFullscreen(r, on) = QueueShown(u, kind)
      BY <1>3 DEF SetFullscreen, QueueUnfullscreen
    <2> HIDE DEF u, kind
    <2>4. u.mapped /\ ~u.hidden /\ ~Dirty(u) /\ u.maximized = r.maximized
      BY <1>3, <2>1 DEF Same, Stays, Dirty
    <2>5. LET s == QueueShown(u, kind) IN Local(s) /\ Same(u, s) /\ s.fullscreen = FALSE
      BY <2>1, <2>2, <2>4, QueuedShown
    <2> QED
      BY <1>3, <2>1, <2>3, <2>5 DEF Asked, Same, Stays, Carried
  <1> QED
    BY <1>1, <1>2, <1>3
-----------------------------------------------------------------------------
(* What waits until the operation in flight is done.                       *)

\* A request is parked, or no longer is.
LEMMA ParkedStep ==
    ASSUME NEW r, Local(r), NEW what, NEW word \in {"no", "on", "off"}
    PROVE  LET s == Park(r, what, word) IN
           Local(s) /\ Quiet(r, s) /\ s.op = r.op /\ s.hidden = r.hidden
           /\ s.fullscreen = r.fullscreen /\ s.mapped = r.mapped /\ s.maximized = r.maximized
  <1> DEFINE k == [r.parked EXCEPT ![what] = word]
             s == [r EXCEPT !.parked = k]
  <1>1. k \in [Asks -> {"no", "on", "off"}]
    BY DEF Local, ViewState
  <1>2. Park(r, what, word) = s
    BY DEF Park
  <1> HIDE DEF k
  <1>3. s \in ViewState /\ Stays(r, s) /\ s.op = r.op /\ s.hidden = r.hidden
        /\ s.fullscreen = r.fullscreen /\ s.tile = r.tile /\ s.pending = r.pending
        /\ s.maximized = r.maximized /\ s.current = r.current /\ s.fault = r.fault
    BY <1>1 DEF Local, ViewState, Stays
  <1> HIDE DEF s
  <1>4. Local(s)
    BY <1>3 DEF Local, Core, Live, Dirty, Tiling, Tiled, Stays
  <1>5. Quiet(r, s)
    BY <1>3, <1>4 DEF Quiet, Step, Dirty
  <1> QED
    BY <1>2, <1>3, <1>4, <1>5 DEF Stays

\* One quiet step after another, if the first one is not from a free slot.
LEMMA QuietTwice ==
    ASSUME NEW r, NEW s, NEW t, Quiet(r, s), Quiet(s, t)
    PROVE  Quiet(r, t)
  BY DEF Quiet, Step, Stays, Dirty

\* apply_requested_fullscreen()
LEMMA FullscreenApplied ==
    ASSUME NEW r, Local(r), NEW on \in BOOLEAN
    PROVE  LET s == ApplyFullscreen(r, on) IN
           /\ Quiet(r, s) /\ s.hidden = r.hidden
           /\ ~Dirty(r) /\ r.mapped /\ ~r.hidden => Carried(s, on)
  <1> DEFINE s == SetFullscreen(r, on)
             word == IF s.mapped /\ on # s.fullscreen THEN Word(on) ELSE "no"
  <1>1. Asked(r, s) /\ (~Dirty(r) /\ r.mapped /\ ~r.hidden => Carried(s, on))
    BY FullscreenSet
  <1>2. word \in {"no", "on", "off"} /\ ApplyFullscreen(r, on) = Park(s, "fullscreen", word)
    BY DEF Word, ApplyFullscreen
  <1> HIDE DEF s, word
  <1>3. Quiet(r, s) /\ Local(s) /\ s.hidden = r.hidden
    BY <1>1, AskedStep DEF Asked, Same
  <1> DEFINE t == Park(s, "fullscreen", word)
  <1>4. Quiet(s, t) /\ t.op = s.op /\ t.hidden = s.hidden /\ t.fullscreen = s.fullscreen
    BY <1>2, <1>3, ParkedStep
  <1> HIDE DEF t
  <1>5. Quiet(r, t)
    BY <1>3, <1>4, QuietTwice
  <1>6. ~Dirty(r) /\ r.mapped /\ ~r.hidden => Carried(t, on)
    BY <1>1, <1>4 DEF Carried
  <1> QED
    BY <1>2, <1>3, <1>4, <1>5, <1>6 DEF t

\* apply_requested_maximized()
LEMMA MaximizedApplied ==
    ASSUME NEW r, Local(r), NEW on \in BOOLEAN
    PROVE  LET s == ApplyMaximized(r, on) IN
           Quiet(r, s) /\ s.hidden = r.hidden /\ s.fullscreen = r.fullscreen
  <1>1. Word(on) \in {"no", "on", "off"}
    BY DEF Word
  <1>2. \A word \in {"no", "on", "off"} :
            LET s == Park(r, "maximized", word) IN
            Quiet(r, s) /\ s.hidden = r.hidden /\ s.fullscreen = r.fullscreen
    BY ParkedStep
  <1> DEFINE still == IF r.parked["maximized"] = "no" THEN "no" ELSE Word(on)
             differs == r.mapped /\ on # (r.maximized = "full")
             waits == r.fullscreen \/ (differs /\ (r.hidden \/ Dirty(r)))
  <1>3. still \in {"no", "on", "off"}
    BY <1>1
  <1>4. CASE waits
    <2>1. ApplyMaximized(r, on) = Park(r, "maximized", Word(on))
      BY <1>4 DEF ApplyMaximized
    <2> QED
      BY <1>1, <1>2, <2>1
  <1>5. CASE ~waits /\ ~differs
    <2>1. ApplyMaximized(r, on) = Park(r, "maximized", still)
      BY <1>5 DEF ApplyMaximized
    <2> HIDE DEF still
    <2> QED
      BY <1>2, <1>3, <2>1
  <1>6. CASE ~waits /\ differs
    <2> DEFINE t == ToggleFull(r)
               s == Park(t, "maximized", "no")
    <2>1. ApplyMaximized(r, on) = s
      BY <1>6 DEF ApplyMaximized
    <2>2. r.mapped /\ ~r.hidden
      BY <1>6
    <2>3. Asked(r, t) /\ t.fullscreen = r.fullscreen
      BY <2>2, FullToggled
    <2> HIDE DEF t
    <2>4. Quiet(r, t) /\ Local(t) /\ t.hidden = r.hidden
      BY <2>3, AskedStep DEF Asked, Same
    <2>5. Quiet(t, s) /\ s.hidden = t.hidden /\ s.fullscreen = t.fullscreen
      BY <2>4, ParkedStep
    <2> HIDE DEF s
    <2>6. Quiet(r, s)
      BY <2>4, <2>5, QuietTwice
    <2> QED
      BY <2>1, <2>3, <2>4, <2>5, <2>6
  <1> QED
    BY <1>4, <1>5, <1>6

LEMMA Applied ==
    ASSUME NEW r, Local(r), NEW what, NEW on \in BOOLEAN
    PROVE  LET s == Apply(r, what, on) IN Quiet(r, s) /\ s.hidden = r.hidden
  BY FullscreenApplied, MaximizedApplied DEF Apply

\* A parked request is taken up: nothing else is touched, and fullscreen only by its own.
LEMMA Unparked ==
    ASSUME NEW r, Local(r), NEW what
    PROVE  LET s == Unpark(r, what) IN
           /\ Quiet(r, s) /\ s.hidden = r.hidden
           /\ what # "fullscreen" => s.fullscreen = r.fullscreen
           /\ /\ what = "fullscreen" /\ what \in Asks /\ ~Dirty(r) /\ r.parked[what] # "no"
              /\ r.mapped /\ ~r.hidden
              => Carried(s, r.parked[what] = "on")
  <1>1. CASE what \notin Asks \/ Dirty(r) \/ r.parked[what] = "no"
    <2>1. Unpark(r, what) = r
      BY <1>1 DEF Unpark
    <2>2. Quiet(r, r)
      BY DEF Quiet, Step, Stays
    <2> QED
      BY <1>1, <2>1, <2>2
  <1>2. CASE what \in Asks /\ ~Dirty(r) /\ r.parked[what] # "no"
    <2> DEFINE k == Park(r, what, "no")
               on == r.parked[what] = "on"
               s == Apply(k, what, on)
    <2>1. Local(k) /\ Quiet(r, k) /\ k.op = r.op /\ k.hidden = r.hidden
          /\ k.fullscreen = r.fullscreen /\ k.mapped = r.mapped
      BY ParkedStep
    <2>2. Unpark(r, what) = s
      BY <1>2 DEF Unpark
    <2>3. on \in BOOLEAN
      OBVIOUS
    <2> HIDE DEF k, on
    <2>4. Quiet(k, s) /\ s.hidden = k.hidden
      BY <2>1, <2>3, Applied
    <2>5. what # "fullscreen" => s.fullscreen = k.fullscreen
      BY <2>1, <2>3, MaximizedApplied DEF Apply
    <2>6. what = "fullscreen" /\ r.mapped /\ ~r.hidden => Carried(s, on)
      <3> SUFFICES ASSUME what = "fullscreen", r.mapped, ~r.hidden PROVE Carried(s, on)
        OBVIOUS
      <3>1. ~Dirty(k) /\ k.mapped /\ ~k.hidden
        BY <1>2, <2>1 DEF Dirty
      <3>2. Carried(ApplyFullscreen(k, on), on)
        BY <2>1, <2>3, <3>1, FullscreenApplied
      <3> QED
        BY <3>2 DEF Apply
    <2> HIDE DEF s
    <2>7. Quiet(r, s)
      BY <2>1, <2>4, QuietTwice
    <2> QED
      BY <2>1, <2>2, <2>4, <2>5, <2>6, <2>7 DEF on
  <1> QED
    BY <1>1, <1>2

\* drain_pending_state()
LEMMA Drained ==
    ASSUME NEW r, Local(r)
    PROVE  LET s == DrainPending(r) IN
           /\ Quiet(r, s) /\ s.hidden = r.hidden
           /\ /\ "fullscreen" \in Asks /\ ~Dirty(r) /\ r.parked["fullscreen"] # "no"
              /\ r.mapped /\ ~r.hidden
              => Carried(s, r.parked["fullscreen"] = "on")
  <1> DEFINE f == Unpark(r, "fullscreen")
             s == Unpark(f, "maximized")
  <1>1. Quiet(r, f) /\ f.hidden = r.hidden
    BY Unparked
  <1>2. /\ "fullscreen" \in Asks /\ ~Dirty(r) /\ r.parked["fullscreen"] # "no"
        /\ r.mapped /\ ~r.hidden
        => Carried(f, r.parked["fullscreen"] = "on")
    BY Unparked
  <1> HIDE DEF f
  <1>3. Local(f)
    BY <1>1 DEF Quiet, Step
  <1>4. Quiet(f, s) /\ s.hidden = f.hidden /\ s.fullscreen = f.fullscreen
    BY <1>3, Unparked
  <1> HIDE DEF s
  <1>5. Quiet(r, s)
    BY <1>1, <1>4, QuietTwice
  <1>6. \A on \in BOOLEAN : Carried(f, on) => Carried(s, on)
    BY <1>4 DEF Carried, Quiet, Dirty
  <1>7. DrainPending(r) = s
    BY DEF DrainPending, f, s
  <1> QED
    BY <1>1, <1>2, <1>4, <1>5, <1>6, <1>7
-----------------------------------------------------------------------------
(* A view comes, goes and is sent elsewhere.                               *)

\* A view that is not mapped has no operation and no tile.
LEMMA NothingUnmapped ==
    ASSUME NEW r, Local(r), ~r.mapped
    PROVE  r.op = "none" /\ r.tile = Nowhere /\ r.pending = Nowhere
  BY NoPlace DEF Local, Core, Dirty, Tiling, ViewState

\* hikari_view_unmap() leaves neither tile nor operation, and no pointer into them.
LEMMA UnmappedLocal ==
    ASSUME NEW r, Local(r), r.mapped
    PROVE  LET s == Unmapped(r) IN
           Local(s) /\ s.place = r.place /\ s.op = "none" /\ s.tile = Nowhere /\ s.pending = Nowhere
  <1> DEFINE c == CancelTile(Unshadow(r))
             u == [c EXCEPT !.mapped = FALSE, !.hidden = TRUE, !.op = "none"]
             n == [u EXCEPT !.tile = Nowhere]
             s == Unmapped(r)
  <1>1. Local(Unshadow(r)) /\ Same(r, Unshadow(r)) /\ Unshadow(r).op = r.op
    BY Unshadowed
  <1>2. c \in ViewState /\ c.place = r.place /\ c.tile = r.tile /\ c.pending = Nowhere
        /\ c.current = Unshadow(r).current /\ c.maximized = r.maximized /\ ~c.fault
    BY <1>1 DEF CancelTile, Local, Core, Tiling, Same, Stays, ViewState
  <1>3. Live(Unshadow(r))
    BY <1>1 DEF Local
  <1>4. s = IF Tiled(u) THEN Refresh(n) ELSE u
    BY DEF Unmapped
  <1> HIDE DEF c
  <1>5. u \in ViewState /\ u.place = r.place /\ u.tile = r.tile /\ u.pending = Nowhere
        /\ u.current = Unshadow(r).current /\ u.maximized = r.maximized /\ ~u.fault
        /\ ~u.mapped /\ u.op = "none"
    BY <1>2 DEF ViewState
  <1> HIDE DEF u
  <1>6. Live(u)
    BY <1>1, <1>3, <1>5 DEF Live, Same, Tiled
  <1>7. n \in ViewState /\ n.place = u.place /\ n.tile = Nowhere /\ n.pending = Nowhere
        /\ n.maximized = u.maximized /\ ~n.fault /\ ~n.mapped /\ n.op = "none"
    BY <1>5 DEF ViewState
  <1> HIDE DEF n
  <1>8. s \in ViewState /\ s.place = r.place /\ s.tile = Nowhere /\ s.pending = Nowhere
        /\ Live(s) /\ ~s.fault /\ ~s.mapped /\ s.op = "none"
    <2>1. CASE Tiled(u)
      BY <2>1, <1>4, <1>5, <1>7, RefreshLive DEF Stays
    <2>2. CASE ~Tiled(u)
      BY <2>2, <1>4, <1>5, <1>6 DEF Tiled
    <2> QED
      BY <2>1, <2>2
  <1> HIDE DEF s
  <1>9. Core(s)
    BY <1>8, NoPlace DEF Core, Dirty, Tiling
  <1> QED
    BY <1>8, <1>9 DEF Local, s

\* A view that is mapped, on the sheet and with the flags of its first time.
Appears(r, p, F) ==
    [r EXCEPT !.mapped = TRUE, !.hidden = FALSE, !.place = p, !.flags = F]

\* first_map() and map_handler(), before what the client asks for is applied.
LEMMA MappedLocal ==
    ASSUME NEW r, Local(r), ~r.mapped, NEW p \in Place, NEW F \in SUBSET {"floating", "invisible"}
    PROVE  LET m == Appears(r, p, F) IN
           Local(m) /\ m.place = p /\ m.tile = Nowhere /\ m.pending = Nowhere
  <1> DEFINE m == Appears(r, p, F)
  <1>1. r.op = "none" /\ r.tile = Nowhere /\ r.pending = Nowhere
    BY NothingUnmapped
  <1>2. m \in ViewState /\ m.place = p /\ m.flags = F /\ m.mapped /\ m.op = r.op
        /\ m.tile = r.tile /\ m.pending = r.pending
        /\ m.maximized = r.maximized /\ m.current = r.current /\ m.fault = r.fault
    BY DEF Local, ViewState, Appears
  <1> HIDE DEF m
  <1>3. Core(m)
    BY <1>1, <1>2, NoPlace DEF Core, Dirty, Tiling
  <1>4. Live(m)
    BY <1>1, <1>2 DEF Live, Local, Tiled
  <1> QED
    BY <1>1, <1>2, <1>3, <1>4 DEF Local, m

LEMMA UnmanagedLocal == Local(Unmanaged)
  <1>1. Unmanaged \in ViewState
    BY DEF Unmanaged, ViewState
  <1> QED
    BY <1>1, NoPlace DEF Unmanaged, Local, Core, Live, Dirty, Tiling, Tiled

\* The flags of a view that has no tile in a layout.
LEMMA FlagsLocal ==
    ASSUME NEW r, Local(r), r.tile \notin Place, r.pending = Nowhere,
           NEW F \in SUBSET {"floating", "invisible"}
    PROVE  LET s == [r EXCEPT !.flags = F] IN
           Local(s) /\ s.place = r.place /\ s.tile = r.tile /\ s.pending = r.pending /\ s.op = r.op
  <1> DEFINE s == [r EXCEPT !.flags = F]
  <1>1. s \in ViewState /\ s.place = r.place /\ s.flags = F /\ s.mapped = r.mapped /\ s.op = r.op
        /\ s.tile = r.tile /\ s.pending = r.pending
        /\ s.maximized = r.maximized /\ s.current = r.current /\ s.fault = r.fault
    BY DEF Local, ViewState
  <1> HIDE DEF s
  <1>2. Core(s) /\ Live(s)
    BY <1>1, NoPlace DEF Local, Core, Live, Dirty, Tiling, Tiled
  <1> QED
    BY <1>1, <1>2 DEF Local, s

\* A view that is put on a sheet.
PutOn(r, p, b) == [r EXCEPT !.place = p, !.hidden = b]

\* A view on another sheet keeps a tile of the one it left until it is reset.
LEMMA PlacedElsewhere ==
    ASSUME NEW r, Local(r), r.mapped, NEW p \in Place, NEW b \in BOOLEAN
    PROVE  LET s == PutOn(r, p, b) IN
           /\ Resettable(s) /\ s.place = p /\ s.op = r.op
           /\ s.tile = r.tile /\ s.pending = r.pending /\ s.maximized = r.maximized
           /\ p = r.place \/ (r.tile \notin Place /\ r.pending = Nowhere) => Local(s)
  <1> DEFINE s == PutOn(r, p, b)
  <1>1. s \in ViewState /\ s.place = p /\ s.flags = r.flags /\ s.mapped /\ s.op = r.op
        /\ s.tile = r.tile /\ s.pending = r.pending
        /\ s.maximized = r.maximized /\ s.current = r.current /\ s.fault = r.fault
    BY DEF Local, ViewState, PutOn
  <1> HIDE DEF s
  <1>2. Live(s)
    BY <1>1 DEF Local, Live, Tiled
  <1>3. Resettable(s)
    BY <1>1, <1>2 DEF Resettable, Local, Core, Tiling
  <1>4. p = r.place \/ (r.tile \notin Place /\ r.pending = Nowhere) => Core(s)
    BY <1>1, NoPlace DEF Local, Core, Dirty, Tiling
  <1> QED
    BY <1>1, <1>2, <1>3, <1>4 DEF Local, s

\* A view that is sent to a sheet, or given a flag: its tiles are gone or as they were.
Sent(r, s, p) ==
    /\ Local(s) /\ s.place = p
    /\ {s.tile, s.pending} \cap Place \subseteq {r.tile, r.pending}
    /\ Dirty(r) => s.op \in {r.op, "none", "reset"}

LEMMA ResetSent ==
    ASSUME NEW r, NEW s, NEW t, NEW fits \in BOOLEAN, WasReset(s, t, fits)
    PROVE  Sent(r, t, s.place) /\ (~fits => Dirty(t))
  BY NoPlace DEF WasReset, Sent, Stays, Dirty

\* A view without a tile, and not about to get its first one.
LEMMA NoTile ==
    ASSUME NEW r, Local(r), ~Tiled(r), ~FirstTiling(r)
    PROVE  r.tile \notin Place /\ r.pending = Nowhere
  BY NoPlace DEF Local, Core, Tiled, FirstTiling

\* hikari_view_toggle_floating() and hikari_view_toggle_invisible()
LEMMA FlagGiven ==
    ASSUME NEW r, Local(r), r.mapped, ~FirstTiling(r), NEW flag \in {"floating", "invisible"},
           NEW fits \in BOOLEAN
    PROVE  LET u == Untile(r, fits)
               s == [u EXCEPT !.flags = @ \cup {flag}] IN
           Sent(r, s, r.place) /\ (~(fits /\ Tiled(r)) /\ Dirty(r) => Dirty(s))
  <1> DEFINE u == Untile(r, fits)
             F == u.flags \cup {flag}
             s == [u EXCEPT !.flags = F]
  <1>1. /\ Local(u) /\ u.tile \notin Place /\ u.pending = Nowhere /\ u.place = r.place
        /\ Dirty(r) => u.op \in {r.op, "none", "reset"}
        /\ ~(fits /\ Tiled(r)) /\ Dirty(r) => Dirty(u)
    <2>1. CASE Tiled(r)
      <3>1. WasReset(r, u, fits)
        BY <2>1, Reset, MayReset DEF Untile
      <3> QED
        BY <2>1, <3>1 DEF WasReset, Stays, Dirty
    <2>2. CASE ~Tiled(r)
      BY <2>2, NoTile DEF Untile
    <2> QED
      BY <2>1, <2>2
  <1> HIDE DEF u
  <1>2. F \in SUBSET {"floating", "invisible"}
    BY <1>1 DEF Local, ViewState
  <1> HIDE DEF F
  <1>3. Local(s) /\ s.place = u.place /\ s.tile = u.tile /\ s.pending = u.pending /\ s.op = u.op
    BY <1>1, <1>2, FlagsLocal
  <1> HIDE DEF s
  <1>4. Sent(r, s, r.place) /\ (~(fits /\ Tiled(r)) /\ Dirty(r) => Dirty(s))
    BY <1>1, <1>3, NoPlace DEF Sent, Dirty
  <1> QED
    BY <1>4 DEF s, F, u

\* hikari_view_pin_to_sheet()
LEMMA PinnedSent ==
    ASSUME NEW r, Local(r), r.mapped, ~FirstTiling(r), NEW p \in Place, NEW fits \in BOOLEAN
    PROVE  LET s == Pinned(r, p, fits) IN
           Sent(r, s, p) /\ (~(fits /\ Tiled(r) /\ p # r.place) /\ Dirty(r) => Dirty(s))
  <1> DEFINE b == ~Shown(p)
             u == PutOn(r, p, b)
             s == Pinned(r, p, fits)
  <1>1. b \in BOOLEAN
    BY DEF Shown
  <1>2. s = IF p = r.place THEN u ELSE Untile(u, fits)
    BY DEF Pinned, PutOn
  <1> HIDE DEF b
  <1>3. /\ Resettable(u) /\ u.place = p /\ u.op = r.op
        /\ u.tile = r.tile /\ u.pending = r.pending
        /\ p = r.place \/ (r.tile \notin Place /\ r.pending = Nowhere) => Local(u)
    BY <1>1, PlacedElsewhere
  <1> HIDE DEF u
  <1>4. CASE p = r.place \/ ~Tiled(r)
    <2>1. s = u
      BY <1>2, <1>3, <1>4 DEF Untile, Tiled
    <2>2. Local(u)
      BY <1>3, <1>4, NoTile
    <2> QED
      BY <1>3, <2>1, <2>2 DEF Sent, Dirty
  <1>5. CASE p # r.place /\ Tiled(r)
    <2>1. s = QueueReset(u, fits)
      BY <1>2, <1>3, <1>5 DEF Untile, Tiled
    <2>2. WasReset(u, s, fits)
      BY <1>3, <2>1, Reset
    <2> QED
      BY <1>3, <1>5, <2>2, ResetSent
  <1> QED
    BY <1>4, <1>5

\* hikari_view_migrate(): the view is shown where it comes to.
LEMMA MigratedSent ==
    ASSUME NEW r, Local(r), r.mapped, NEW p \in Place, NEW fits \in BOOLEAN
    PROVE  Sent(r, [QueueReset([r EXCEPT !.place = p], fits) EXCEPT !.hidden = FALSE], p)
  <1> DEFINE u == [r EXCEPT !.place = p]
             q == QueueReset(u, fits)
  <1>1. u = PutOn(r, p, r.hidden) /\ r.hidden \in BOOLEAN
    BY DEF Local, ViewState, PutOn
  <1> HIDE DEF u
  <1>2. Resettable(u) /\ u.place = p
    BY <1>1, PlacedElsewhere
  <1>3. WasReset(u, q, fits)
    BY <1>2, Reset
  <1> HIDE DEF q
  <1>4. Sent(r, q, p) /\ Local(q)
    BY <1>2, <1>3, ResetSent DEF Sent
  <1>5. Quiet(q, [q EXCEPT !.hidden = FALSE])
    BY <1>4, HiddenStep
  <1>6. [q EXCEPT !.hidden = FALSE].tile = q.tile /\ [q EXCEPT !.hidden = FALSE].pending = q.pending
        /\ [q EXCEPT !.hidden = FALSE].op = q.op
    BY <1>4, HiddenStep
  <1>7. Sent(r, [q EXCEPT !.hidden = FALSE], p)
    BY <1>4, <1>5, <1>6 DEF Sent, Quiet, Step, Stays
  <1> QED
    BY <1>7 DEF q, u

\* hikari_view_evacuate(): a view with a tile or a maximized state is reset.
LEMMA EvacuatedSent ==
    ASSUME NEW r, Local(r), r.mapped, FirstTiling(r) => r.maximized # "no", NEW p \in Place,
           NEW fits \in BOOLEAN
    PROVE  Sent(r, Evacuated(r, p, fits), p)
  <1> DEFINE n == Unshadow(r)
             b == n.hidden \/ ~Shown(p)
             u == PutOn(n, p, b)
             s == Evacuated(r, p, fits)
  <1>1. Local(n) /\ n.mapped /\ n.tile = r.tile /\ n.pending = r.pending /\ n.op = r.op
        /\ n.maximized = r.maximized
    BY Unshadowed DEF Same, Stays
  <1>2. b \in BOOLEAN
    BY DEF Shown
  <1>3. s = IF Tiled(u) \/ u.maximized # "no" THEN QueueReset(u, fits) ELSE u
    BY DEF Evacuated, PutOn
  <1> HIDE DEF n, b
  <1>4. /\ Resettable(u) /\ u.place = p /\ u.op = r.op
        /\ u.tile = r.tile /\ u.pending = r.pending /\ u.maximized = r.maximized
        /\ r.tile \notin Place /\ r.pending = Nowhere => Local(u)
    BY <1>1, <1>2, PlacedElsewhere
  <1> HIDE DEF u
  <1>5. CASE Tiled(r) \/ r.maximized # "no"
    <2>1. s = QueueReset(u, fits)
      BY <1>3, <1>4, <1>5 DEF Tiled
    <2>2. WasReset(u, s, fits)
      BY <1>4, <2>1, Reset
    <2> QED
      BY <1>4, <2>2, ResetSent
  <1>6. CASE ~Tiled(r) /\ r.maximized = "no"
    <2>1. s = u
      BY <1>3, <1>4, <1>6 DEF Tiled
    <2>2. Local(u)
      BY <1>4, <1>6, NoTile
    <2> QED
      BY <1>4, <2>1, <2>2 DEF Sent
  <1> QED
    BY <1>5, <1>6
-----------------------------------------------------------------------------
(* The layouts and the queue of reflow.c.                                  *)

\* The last tile to leave a layout takes it along; a layout with a tile stays.
LEMMA LayoutsStay ==
    ASSUME NEW w, NEW named, NEW os, AllHome(w, layouts \cup named, os)
    PROVE  AllHome(w, (layouts \ Vacated(w)) \cup named, os)
  <1>1. ASSUME NEW v \in Views, NEW p \in {w[v].tile, w[v].pending} \cap Place
        PROVE  p \in (layouts \ Vacated(w)) \cup named
    <2>1. p \in layouts \cup named
      BY <1>1 DEF AllHome, Home
    <2>2. v \in TiledAt(w, p)
      BY <1>1 DEF TiledAt
    <2> QED
      BY <2>1, <2>2 DEF Vacated
  <1>2. \A v \in Views : Home(w[v], (layouts \ Vacated(w)) \cup named, os)
    BY <1>1 DEF AllHome, Home
  <1> QED
    BY <1>2 DEF AllHome

LEMMA LayoutsStayAlone ==
    ASSUME NEW w, NEW os, AllHome(w, layouts, os)
    PROVE  AllHome(w, layouts \ Vacated(w), os)
  <1>1. layouts \cup {} = layouts /\ (layouts \ Vacated(w)) \cup {} = layouts \ Vacated(w)
    OBVIOUS
  <1> QED
    BY <1>1, LayoutsStay

\* Every operation in flight is still, on the same monitor.
StillDirty(w) ==
    \A v \in Views : Dirty(view[v]) => Dirty(w[v]) /\ w[v].place.out = view[v].place.out

\* hikari_reflow_schedule() and hikari_reflow_settle() queue sheets only.
LEMMA ReflowType ==
    ASSUME Sane, NEW ps \in SUBSET Place, NEW settles \in BOOLEAN, Reflow(ps, settles)
    PROVE  queued' \subseteq Place /\ armed' \in BOOLEAN
  BY DEF Sane, Reflow

\* A sheet that is queued wakes the idle source; one that was has what it had.
LEMMA ReflowAwake ==
    ASSUME Sane, Awake(view, queued, armed, moving), NEW ps, NEW settles \in BOOLEAN,
           Reflow(ps, settles), moving' = moving, settles \/ StillDirty(view')
    PROVE  Awake(view', queued', armed', moving')
  <1> SUFFICES ASSUME NEW p \in queued', ~armed', ~moving' PROVE Heard(view', p.out)
    BY DEF Awake
  <1>1. ps \subseteq queued /\ ~armed /\ ~moving /\ (settles => queued' = {})
    BY DEF Reflow, Sane
  <1>2. p \in queued /\ ~settles
    BY <1>1 DEF Reflow
  <1>3. Heard(view, p.out)
    BY <1>1, <1>2 DEF Awake
  <1> QED
    BY <1>2, <1>3 DEF Heard, StillDirty

LEMMA QuietAwake ==
    ASSUME Awake(view, queued, armed, moving), UNCHANGED <<queued, armed, moving>>,
           StillDirty(view')
    PROVE  Awake(view', queued', armed', moving')
  BY DEF Awake, Heard, StillDirty

\* What was asked of a client is still asked, unless the view is reset or it took effect.
SlotKept(w) == \A v \in Views : Dirty(view[v]) => w[v].op \in {view[v].op, "none", "reset"}

\* One view changes, and takes no tile.
LEMMA OneHome ==
    ASSUME AllHome(view, layouts, outputs), NEW v \in Views, NEW s, Sent(view[v], s, s.place),
           s.place # Nowhere => s.place.out \in outputs, Changes(v, s)
    PROVE  AllHome(view', layouts', outputs) /\ layouts' \subseteq layouts /\ SlotKept(view')
  <1> DEFINE w == [view EXCEPT ![v] = s]
  <1>1. w \in [Views -> ViewState] /\ w[v] = s /\ \A u \in Views \ {v} : w[u] = view[u]
    BY DEF AllHome, Sent, Local
  <1>2. view' = w /\ layouts' = layouts \ Vacated(w)
    BY DEF Changes, Becomes
  <1> HIDE DEF w
  <1>3. Home(s, layouts, outputs)
    BY DEF AllHome, Home, Sent
  <1>4. \A u \in Views : Local(w[u]) /\ Home(w[u], layouts, outputs)
    BY <1>1, <1>3 DEF AllHome, Sent
  <1>5. AllHome(w, layouts \ Vacated(w), outputs)
    BY <1>1, <1>4, LayoutsStayAlone DEF AllHome
  <1>6. SlotKept(w)
    BY <1>1 DEF SlotKept, Sent
  <1> QED
    BY <1>2, <1>5, <1>6

LEMMA OneStill ==
    ASSUME AllHome(view, layouts, outputs), NEW v \in Views, NEW s, Changes(v, s),
           Dirty(view[v]) => Dirty(s) /\ s.place.out = view[v].place.out
    PROVE  StillDirty(view')
  BY DEF AllHome, Changes, Becomes, StillDirty

\* A handler of one view that leaves the queue alone.
LEMMA QuietView ==
    ASSUME IInv, NEW v \in Views, NEW s, Changes(v, s), Quietly, Sent(view[v], s, s.place),
           s.place # Nowhere => s.place.out \in outputs,
           Dirty(view[v]) => Dirty(s) /\ s.place.out = view[v].place.out
    PROVE  IInv' /\ SlotKept(view')
  <1>1. AllHome(view, layouts, outputs) /\ Awake(view, queued, armed, moving) /\ Sane
    BY DEF IInv
  <1>2. AllHome(view', layouts', outputs) /\ layouts' \subseteq layouts /\ SlotKept(view')
    BY <1>1, OneHome
  <1>3. UNCHANGED <<displayed, outputs, queued, armed, moving>>
    BY DEF Quietly
  <1>4. Awake(view', queued', armed', moving')
    BY <1>1, <1>3, OneStill, QuietAwake
  <1> QED
    BY <1>1, <1>2, <1>3, <1>4 DEF IInv, Sane

\* A handler of one view that queues sheets, or settles.
LEMMA ReflowView ==
    ASSUME IInv, NEW v \in Views, NEW s, Changes(v, s), NEW ps \in SUBSET Place,
           NEW settles \in BOOLEAN, Reflow(ps, settles), UNCHANGED <<displayed, outputs, moving>>,
           Sent(view[v], s, s.place), s.place # Nowhere => s.place.out \in outputs,
           settles \/ (Dirty(view[v]) => Dirty(s) /\ s.place.out = view[v].place.out)
    PROVE  IInv' /\ SlotKept(view')
  <1>1. AllHome(view, layouts, outputs) /\ Awake(view, queued, armed, moving) /\ Sane
    BY DEF IInv
  <1>2. AllHome(view', layouts', outputs) /\ layouts' \subseteq layouts /\ SlotKept(view')
    BY <1>1, OneHome
  <1>3. settles \/ StillDirty(view')
    BY <1>1, OneStill
  <1>4. Awake(view', queued', armed', moving')
    BY <1>1, <1>3, ReflowAwake
  <1>5. queued' \subseteq Place /\ armed' \in BOOLEAN
    BY <1>1, ReflowType
  <1> QED
    BY <1>1, <1>2, <1>4, <1>5 DEF IInv, Sane
-----------------------------------------------------------------------------
(* The handlers of one view.                                               *)

LEMMA ViewSound ==
    ASSUME IInv, NEW v \in Views
    PROVE  /\ Local(view[v]) /\ view[v] \in ViewState
           /\ view[v].place # Nowhere => view[v].place.out \in outputs
           /\ view[v].mapped => view[v].place \in Place /\ view[v].place.out \in outputs
  BY NoPlace DEF IInv, AllHome, Home, Local, Core

\* A quiet step of a view is a quiet step of the desktop.
LEMMA QuietKeeps ==
    ASSUME IInv, NEW v \in Views, NEW s, Quiet(view[v], s), Changes(v, s), Quietly
    PROVE  IInv' /\ SlotKept(view')
  <1>1. Sent(view[v], s, s.place) /\ s.place = view[v].place /\ (Dirty(view[v]) => Dirty(s))
    BY DEF Quiet, Step, Sent, Stays, Dirty
  <1>2. s.place # Nowhere => s.place.out \in outputs
    BY <1>1, ViewSound
  <1> QED
    BY <1>1, <1>2, QuietView

\* map_handler()
LEMMA MapKeeps ==
    ASSUME IInv, NEW v \in Views, Map(v)
    PROVE  IInv' /\ SlotKept(view')
  <1> DEFINE r == view[v]
  <1>1. ~r.mapped /\ Local(r)
    BY ViewSound DEF Map
  <1>2. PICK p \in IF r.place = Nowhere THEN {q \in Place : q.out \in outputs} ELSE {r.place},
             F \in IF r.place = Nowhere THEN SUBSET ({"floating", "invisible"} \cap Keys)
                   ELSE {r.flags},
             asked \in SUBSET Asks :
        LET m == [r EXCEPT !.mapped = TRUE, !.hidden = FALSE, !.place = p, !.flags = F]
            a == IF "fullscreen" \in asked THEN ApplyFullscreen(m, TRUE) ELSE m
        IN  /\ Changes(v, IF ("maximized" \in asked) # (a.maximized = "full")
                          THEN ApplyMaximized(a, "maximized" \in asked) ELSE a)
            /\ Reflow({p}, FALSE)
    BY DEF Map
  <1> DEFINE m == Appears(r, p, F)
             a == IF "fullscreen" \in asked THEN ApplyFullscreen(m, TRUE) ELSE m
             s == IF ("maximized" \in asked) # (a.maximized = "full")
                  THEN ApplyMaximized(a, "maximized" \in asked) ELSE a
  <1>3. p \in Place /\ p.out \in outputs /\ F \in SUBSET {"floating", "invisible"}
    BY <1>1, <1>2, ViewSound DEF Local, ViewState
  <1>4. Changes(v, s) /\ Reflow({p}, FALSE)
    BY <1>2 DEF Appears
  <1>5. Local(m) /\ m.place = p /\ m.tile = Nowhere /\ m.pending = Nowhere
    BY <1>1, <1>3, MappedLocal
  <1> HIDE DEF m
  <1>6. Quiet(m, m) /\ Quiet(m, a) /\ Local(a)
    BY <1>5, FullscreenApplied DEF Quiet, Step, Stays
  <1> HIDE DEF a
  <1>7. Quiet(a, s)
    <2>1. Quiet(a, a) /\ ("maximized" \in asked) \in BOOLEAN
      BY <1>6 DEF Quiet, Step, Stays
    <2>2. Quiet(a, ApplyMaximized(a, "maximized" \in asked))
      BY <1>6, <2>1, MaximizedApplied
    <2> QED
      BY <2>1, <2>2
  <1> HIDE DEF s
  <1>8. Local(s) /\ s.place = p /\ {s.tile, s.pending} \cap Place = {}
    BY <1>5, <1>6, <1>7, NoPlace DEF Quiet, Step, Stays
  <1>9. ~Dirty(r)
    BY <1>1, NothingUnmapped DEF Dirty
  <1>10. Sent(r, s, s.place)
    BY <1>8, <1>9 DEF Sent
  <1>11. {p} \in SUBSET Place /\ UNCHANGED <<displayed, outputs, moving>>
    BY <1>3 DEF Map
  <1> QED
    BY <1>3, <1>4, <1>8, <1>9, <1>10, <1>11, ReflowView

\* The sheet a window leaves is tiled again, if the policy says so.
LEMMA ClosesPlace ==
    ASSUME IInv, NEW v \in Views, view[v].mapped, Closes(v)
    PROVE  \E ps \in SUBSET Place : Reflow(ps, TRUE)
  BY ViewSound DEF Closes

\* hikari_view_unmap()
LEMMA UnmapKeeps ==
    ASSUME IInv, NEW v \in Views, Unmap(v)
    PROVE  IInv' /\ SlotKept(view')
  <1> DEFINE r == view[v]
             s == Unmapped(r)
  <1>1. r.mapped /\ Changes(v, s) /\ Closes(v) /\ UNCHANGED <<displayed, outputs, moving>>
    BY DEF Unmap
  <1>2. Local(s) /\ s.place = r.place /\ s.op = "none" /\ s.tile = Nowhere /\ s.pending = Nowhere
    BY <1>1, ViewSound, UnmappedLocal
  <1> HIDE DEF s
  <1>3. Sent(r, s, s.place)
    BY <1>2, NoPlace DEF Sent
  <1>4. PICK ps \in SUBSET Place : Reflow(ps, TRUE)
    BY <1>1, ClosesPlace
  <1>5. s.place # Nowhere => s.place.out \in outputs
    BY <1>2, ViewSound
  <1> QED
    BY <1>1, <1>3, <1>4, <1>5, ReflowView

\* destroy_handler()
LEMMA DestroyKeeps ==
    ASSUME IInv, NEW v \in Views, Destroy(v)
    PROVE  IInv' /\ SlotKept(view')
  <1> DEFINE r == view[v]
  <1>1. Sent(r, Unmanaged, Unmanaged.place) /\ Unmanaged.place = Nowhere
    BY UnmanagedLocal, NoPlace DEF Sent, Unmanaged
  <1>2. Changes(v, Unmanaged)
    BY DEF Destroy
  <1>3. CASE r.mapped
    <2>1. Closes(v) /\ UNCHANGED <<displayed, outputs, moving>>
      BY <1>3 DEF Destroy
    <2>2. PICK ps \in SUBSET Place : Reflow(ps, TRUE)
      BY <1>3, <2>1, ClosesPlace
    <2> QED
      BY <1>1, <1>2, <2>1, <2>2, ReflowView
  <1>4. CASE ~r.mapped
    <2>1. Quietly
      BY <1>4 DEF Destroy, Quietly
    <2>2. ~Dirty(r)
      BY <1>4, ViewSound, NothingUnmapped DEF Dirty
    <2> QED
      BY <1>1, <1>2, <2>1, <2>2, QuietView
  <1> QED
    BY <1>3, <1>4

\* commit_handler() with the serial of the pending operation: the one handler after which a
\* client may be asked for something else.
LEMMA AnswerKeeps ==
    ASSUME IInv, NEW v \in Views, Answer(v)
    PROVE  IInv' /\ \A u \in Views \ {v} :
                Dirty(view[u]) => view'[u].op \in {view[u].op, "none", "reset"}
  <1> DEFINE r == view[v]
             c == Commit(r)
             s == DrainPending(c)
             w == [view EXCEPT ![v] = s]
  <1>1. Changes(v, s) /\ Reflow({}, TRUE) /\ UNCHANGED <<displayed, outputs, moving>>
    BY DEF Answer
  <1>2. Done(r, c)
    BY ViewSound, Committed DEF Answer
  <1> HIDE DEF c
  <1>3. Quiet(c, s)
    BY <1>2, Drained DEF Done, Step
  <1> HIDE DEF s
  <1>4. Local(s) /\ s.place = r.place /\ {s.tile, s.pending} \cap Place \subseteq {r.tile, r.pending}
    BY <1>2, <1>3, NoPlace DEF Done, Quiet, Step, Stays
  <1>5. AllHome(view, layouts, outputs) /\ Awake(view, queued, armed, moving) /\ Sane
    BY DEF IInv
  <1>6. w \in [Views -> ViewState] /\ w[v] = s /\ \A u \in Views \ {v} : w[u] = view[u]
    BY <1>4, <1>5 DEF AllHome, Local
  <1>7. view' = w /\ layouts' = layouts \ Vacated(w)
    BY <1>1 DEF Changes, Becomes
  <1> HIDE DEF w
  <1>8. Home(s, layouts, outputs)
    BY <1>4, <1>5 DEF AllHome, Home
  <1>9. AllHome(w, layouts, outputs)
    BY <1>4, <1>5, <1>6, <1>8 DEF AllHome
  <1>10. AllHome(w, layouts \ Vacated(w), outputs)
    BY <1>9, LayoutsStayAlone
  <1>11. Awake(view', queued', armed', moving')
    BY <1>1, <1>5, ReflowAwake
  <1>12. queued' \subseteq Place /\ armed' \in BOOLEAN
    BY <1>1, <1>5, ReflowType
  <1> QED
    BY <1>1, <1>5, <1>6, <1>7, <1>10, <1>11, <1>12 DEF IInv, Sane

\* commit_handler() without a serial
LEMMA AdoptKeeps ==
    ASSUME IInv, NEW v \in Views, Adopt(v)
    PROVE  IInv' /\ SlotKept(view')
  <1> DEFINE r == view[v]
             s == Refresh(r)
  <1>1. Changes(v, s) /\ Quietly
    BY DEF Adopt, Quietly
  <1>2. Local(r)
    BY ViewSound
  <1>3. s \in ViewState /\ Live(s) /\ Stays(r, s) /\ s.tile = r.tile /\ s.pending = r.pending
        /\ s.op = r.op /\ s.maximized = r.maximized /\ s.fault = r.fault
    BY <1>2, RefreshLive DEF Local
  <1> HIDE DEF s
  <1>4. Core(s)
    BY <1>2, <1>3 DEF Local, Core, Stays, Dirty, Tiling
  <1>5. Quiet(r, s)
    BY <1>2, <1>3, <1>4 DEF Quiet, Step, Local
  <1> QED
    BY <1>1, <1>5, QuietKeeps

\* The requests of the client, and those of a panel.
LEMMA RequestKeeps ==
    ASSUME IInv, NEW v \in Views, NEW what, Request(v, what)
    PROVE  IInv' /\ SlotKept(view')
  <1>1. PICK on \in BOOLEAN : Changes(v, Apply(view[v], what, on))
    BY DEF Request
  <1>2. Quiet(view[v], Apply(view[v], what, on))
    BY ViewSound, Applied
  <1> QED
    BY <1>1, <1>2, QuietKeeps DEF Request

LEMMA PanelFullscreenKeeps ==
    ASSUME IInv, NEW v \in Views, PanelFullscreen(v)
    PROVE  IInv' /\ SlotKept(view')
  <1>1. PICK on \in BOOLEAN : Changes(v, SetFullscreen(view[v], on))
    BY DEF PanelFullscreen
  <1>2. Quiet(view[v], SetFullscreen(view[v], on))
    BY ViewSound, FullscreenSet, AskedStep
  <1> QED
    BY <1>1, <1>2, QuietKeeps DEF PanelFullscreen
-----------------------------------------------------------------------------
(* The user and one view.                                                  *)

\* A key, or a panel's maximize request.
LEMMA MaximizeKeeps ==
    ASSUME IInv, NEW v \in Views, Maximize(v)
    PROVE  IInv' /\ SlotKept(view')
  <1>1. Local(view[v]) /\ view[v].mapped /\ ~view[v].hidden
    BY ViewSound DEF Maximize, Visible
  <1>2. Quiet(view[v], ToggleFull(view[v]))
    BY <1>1, FullToggled, AskedStep
  <1> QED
    BY <1>2, QuietKeeps DEF Maximize

\* The axis keys: the horizontal one does not look for an operation in flight, see Races.
LEMMA ToggleAxisKeeps ==
    ASSUME IInv, Races = {}, NEW v \in Views, NEW axis \in {"vertical", "horizontal"},
           ToggleAxis(v, axis)
    PROVE  IInv' /\ SlotKept(view')
  <1>1. Local(view[v]) /\ view[v].mapped /\ ~view[v].hidden /\ ~Dirty(view[v])
    BY ViewSound DEF ToggleAxis, Visible
  <1>2. Quiet(view[v], QueueAxis(view[v], axis))
    BY <1>1, AxisQueued, AskedStep
  <1> QED
    BY <1>2, QuietKeeps DEF ToggleAxis

\* queue_resize()
LEMMA ResizeKeeps ==
    ASSUME IInv, NEW v \in Views, Resize(v)
    PROVE  IInv' /\ SlotKept(view')
  <1> DEFINE s == Queue(view[v], "resize")
  <1>1. Local(view[v]) /\ view[v].mapped /\ ~Dirty(view[v]) /\ Changes(v, s) /\ Quietly
    BY ViewSound DEF Resize, Visible
  <1>2. "resize" \in Kinds \ {"reset", "tile"}
        /\ {"resize", view[v].maximized} # {"vertical", "horizontal"}
    BY DEF Kinds
  <1>3. Local(s) /\ Same(view[v], s)
    BY <1>1, <1>2, Queued
  <1>4. Quiet(view[v], s)
    BY <1>1, <1>3, AskedStep DEF Asked
  <1> QED
    BY <1>1, <1>4, QuietKeeps

LEMMA HideKeeps ==
    ASSUME IInv, NEW v \in Views, Hide(v) \/ Show(v)
    PROVE  IInv' /\ SlotKept(view')
  <1>1. PICK b \in BOOLEAN : Changes(v, [view[v] EXCEPT !.hidden = b]) /\ Quietly
    BY DEF Hide, Show
  <1>2. Quiet(view[v], [view[v] EXCEPT !.hidden = b])
    BY ViewSound, HiddenStep
  <1> QED
    BY <1>1, <1>2, QuietKeeps

\* hikari_view_reset_geometry()
LEMMA ResetGeometryKeeps ==
    ASSUME IInv, NEW v \in Views, ResetGeometry(v)
    PROVE  IInv' /\ SlotKept(view')
  <1> DEFINE r == view[v]
  <1>1. PICK fits \in BOOLEAN : Changes(v, QueueReset(r, fits)) /\ Reflow({}, fits)
    BY DEF ResetGeometry
  <1>2. Local(r) /\ r.mapped /\ r.place.out \in outputs /\ UNCHANGED <<displayed, outputs, moving>>
    BY ViewSound DEF ResetGeometry, Visible
  <1> DEFINE s == QueueReset(r, fits)
  <1>3. WasReset(r, s, fits)
    BY <1>2, Reset, MayReset
  <1>4. Changes(v, s)
    BY <1>1
  <1> HIDE DEF s
  <1>5. s.place = r.place /\ Local(s) /\ s.tile \notin Place /\ s.pending = Nowhere
        /\ s.op \in {"none", "reset"} /\ (~fits => Dirty(s))
    BY <1>3 DEF WasReset, Stays, Dirty
  <1>6. Sent(r, s, s.place)
    BY <1>5, NoPlace DEF Sent
  <1> QED
    BY <1>1, <1>2, <1>4, <1>5, <1>6, ReflowView

\* hikari_view_toggle_floating() and hikari_view_toggle_invisible()
LEMMA ToggleFlagKeeps ==
    ASSUME IInv, Races = {}, NEW v \in Views, NEW flag \in {"floating", "invisible"},
           ToggleFlag(v, flag)
    PROVE  IInv' /\ SlotKept(view')
  <1> DEFINE r == view[v]
  <1>1. Local(r) /\ r.mapped /\ r.place.out \in outputs /\ ~FirstTiling(r)
        /\ UNCHANGED <<displayed, outputs, moving>>
    BY ViewSound DEF ToggleFlag, Visible
  <1>2. PICK fits \in BOOLEAN :
            IF flag \in r.flags
            THEN Changes(v, [r EXCEPT !.flags = @ \ {flag}]) /\ Reflow({}, FALSE)
            ELSE /\ Changes(v, [Untile(r, fits) EXCEPT !.flags = @ \cup {flag}])
                 /\ Reflow({}, fits /\ Tiled(r))
    BY DEF ToggleFlag
  <1>3. CASE flag \in r.flags
    <2> DEFINE F == r.flags \ {flag}
               s == [r EXCEPT !.flags = F]
    <2>1. Changes(v, s) /\ Reflow({}, FALSE)
      BY <1>2, <1>3
    <2>2. F \in SUBSET {"floating", "invisible"} /\ r.tile \notin Place /\ r.pending = Nowhere
      BY <1>1, <1>3, NoPlace DEF Local, Core, ViewState
    <2> HIDE DEF F
    <2>3. Local(s) /\ s.place = r.place /\ s.tile = r.tile /\ s.pending = r.pending /\ s.op = r.op
      BY <1>1, <2>2, FlagsLocal
    <2> HIDE DEF s
    <2>4. Sent(r, s, s.place) /\ (Dirty(r) => Dirty(s))
      BY <2>2, <2>3 DEF Sent, Dirty
    <2> QED
      BY <1>1, <2>1, <2>3, <2>4, ReflowView
  <1>4. CASE flag \notin r.flags
    <2> DEFINE u == Untile(r, fits)
               s == [u EXCEPT !.flags = @ \cup {flag}]
               settles == fits /\ Tiled(r)
    <2>1. Changes(v, s) /\ Reflow({}, settles)
      BY <1>2, <1>4
    <2>2. Sent(r, s, r.place) /\ (~settles /\ Dirty(r) => Dirty(s))
      BY <1>1, FlagGiven
    <2>3. settles \in BOOLEAN
      BY DEF Tiled
    <2> HIDE DEF u, s, settles
    <2>4. s.place = r.place
      BY <2>2 DEF Sent
    <2> QED
      BY <1>1, <2>1, <2>2, <2>3, <2>4, ReflowView
  <1> QED
    BY <1>3, <1>4

\* The sheets of a monitor are places.
LEMMA PlaceIs ==
    ASSUME NEW o \in Outputs, NEW n \in Sheets
    PROVE  LET p == [out |-> o, nr |-> n] IN p \in Place /\ p.out = o
  BY DEF Place

\* hikari_view_pin_to_sheet()
LEMMA PinKeeps ==
    ASSUME IInv, Races = {}, NEW v \in Views, NEW n \in Sheets, Pin(v, n)
    PROVE  IInv' /\ SlotKept(view')
  <1> DEFINE r == view[v]
             p == [r.place EXCEPT !.nr = n]
  <1>1. Local(r) /\ r.mapped /\ r.place \in Place /\ r.place.out \in outputs /\ ~FirstTiling(r)
        /\ UNCHANGED <<displayed, outputs, moving>>
    BY ViewSound DEF Pin, Visible
  <1>2. p \in Place /\ p.out = r.place.out
    BY <1>1 DEF Place
  <1>3. PICK fits \in BOOLEAN :
            Changes(v, Pinned(r, p, fits)) /\ Reflow({}, fits /\ Tiled(r) /\ p # r.place)
    BY DEF Pin
  <1> HIDE DEF p
  <1> DEFINE s == Pinned(r, p, fits)
             settles == fits /\ Tiled(r) /\ p # r.place
  <1>4. Sent(r, s, p) /\ (~settles /\ Dirty(r) => Dirty(s))
    BY <1>1, <1>2, PinnedSent
  <1>5. settles \in BOOLEAN /\ Changes(v, s) /\ Reflow({}, settles)
    BY <1>3 DEF Tiled
  <1> HIDE DEF s, settles
  <1>6. s.place = p
    BY <1>4 DEF Sent
  <1> QED
    BY <1>1, <1>2, <1>4, <1>5, <1>6, ReflowView

\* hikari_view_migrate()
LEMMA MigrateKeeps ==
    ASSUME IInv, NEW v \in Views, NEW o \in Outputs, Migrate(v, o)
    PROVE  IInv' /\ SlotKept(view')
  <1> DEFINE r == view[v]
             p == [out |-> o, nr |-> displayed[o]]
             ps == {p} \cup (IF OnClose THEN {r.place} ELSE {})
  <1>1. Local(r) /\ r.mapped /\ r.place \in Place /\ o \in outputs
        /\ UNCHANGED <<displayed, outputs, moving>>
    BY ViewSound DEF Migrate, Visible
  <1>2. p \in Place /\ p.out = o
    BY PlaceIs DEF IInv, Sane
  <1>3. PICK fits \in BOOLEAN :
            Changes(v, [QueueReset([r EXCEPT !.place = p], fits) EXCEPT !.hidden = FALSE])
    BY DEF Migrate
  <1>4. Reflow(ps, TRUE)
    BY DEF Migrate
  <1>5. ps \in SUBSET Place
    BY <1>1, <1>2
  <1> HIDE DEF p, ps
  <1> DEFINE s == [QueueReset([r EXCEPT !.place = p], fits) EXCEPT !.hidden = FALSE]
  <1>6. Sent(r, s, p) /\ Changes(v, s)
    BY <1>1, <1>2, <1>3, MigratedSent
  <1> HIDE DEF s
  <1>7. s.place = p
    BY <1>6 DEF Sent
  <1> QED
    BY <1>1, <1>2, <1>4, <1>5, <1>6, <1>7, ReflowView
-----------------------------------------------------------------------------
(* A sheet is laid out.                                                    *)

AllLocal(w) == w \in [Views -> ViewState] /\ \A v \in Views : Local(w[v])

\* A view is hidden, shown or tiled for the sheet p, where it is; what it was asked is still asked.
Laid(r, x, p) ==
    /\ Local(x) /\ x.place = r.place
    /\ {x.tile, x.pending} \cap Place \subseteq {r.tile, r.pending, p}
    /\ Dirty(r) => x.op = r.op

AllLaid(w, x, p) == x \in [Views -> ViewState] /\ \A v \in Views : Laid(w[v], x[v], p)

LEMMA LaidLocal ==
    ASSUME NEW w, NEW x, NEW p, AllLaid(w, x, p)
    PROVE  AllLocal(x)
  BY DEF AllLaid, AllLocal, Laid

LEMMA LaidSame ==
    ASSUME NEW w, NEW p, AllLocal(w)
    PROVE  AllLaid(w, w, p)
  BY DEF AllLaid, AllLocal, Laid

LEMMA LaidTwice ==
    ASSUME NEW w, NEW x, NEW y, NEW p, AllLaid(w, x, p), AllLaid(x, y, p)
    PROVE  AllLaid(w, y, p)
  <1>1. ASSUME NEW v \in Views PROVE Laid(w[v], y[v], p)
    <2>1. Laid(w[v], x[v], p) /\ Laid(x[v], y[v], p)
      BY DEF AllLaid
    <2> QED
      BY <2>1 DEF Laid, Dirty
  <1> QED
    BY <1>1 DEF AllLaid

LEMMA QuietLaid ==
    ASSUME NEW r, NEW s, NEW p, Quiet(r, s)
    PROVE  Laid(r, s, p)
  BY DEF Quiet, Step, Stays, Laid

\* hikari_sheet_show() and its like.
LEMMA UnhideLaid ==
    ASSUME NEW w, AllLocal(w), NEW vs, NEW p
    PROVE  AllLaid(w, Unhide(w, vs), p)
  <1> DEFINE x == Unhide(w, vs)
  <1>1. ASSUME NEW v \in Views PROVE Laid(w[v], x[v], p) /\ x[v] \in ViewState
    <2>1. x[v] = IF v \in vs THEN [w[v] EXCEPT !.hidden = FALSE] ELSE w[v]
      BY DEF Unhide
    <2>2. Local(w[v])
      BY DEF AllLocal
    <2>3. Quiet(w[v], [w[v] EXCEPT !.hidden = FALSE]) /\ Quiet(w[v], w[v])
      BY <2>2, HiddenStep DEF Quiet, Step, Stays
    <2>4. Quiet(w[v], x[v])
      BY <2>1, <2>3
    <2> QED
      BY <2>4, QuietLaid DEF Laid, Local
  <1>2. x \in [Views -> ViewState]
    BY <1>1 DEF Unhide
  <1> QED
    BY <1>1, <1>2 DEF AllLaid

\* display_sheet()
LEMMA DisplayLaid ==
    ASSUME NEW w, AllLocal(w), NEW q, NEW p
    PROVE  AllLaid(w, DisplaySheet(w, q), p)
  <1> DEFINE x == DisplaySheet(w, q)
  <1>1. ASSUME NEW v \in Views PROVE Laid(w[v], x[v], p) /\ x[v] \in ViewState
    <2> DEFINE b == w[v].hidden /\ "invisible" \in w[v].flags
    <2>1. x[v] = IF ~w[v].mapped \/ w[v].place.out # q.out THEN w[v]
                 ELSE IF w[v].place.nr \notin {q.nr, 0} THEN [w[v] EXCEPT !.hidden = TRUE]
                 ELSE [w[v] EXCEPT !.hidden = b]
      BY DEF DisplaySheet
    <2>2. Local(w[v])
      BY DEF AllLocal
    <2>3. b \in BOOLEAN
      OBVIOUS
    <2> HIDE DEF b
    <2>4. Quiet(w[v], [w[v] EXCEPT !.hidden = b])
      BY <2>2, <2>3, HiddenStep
    <2>5. Quiet(w[v], [w[v] EXCEPT !.hidden = TRUE]) /\ Quiet(w[v], w[v])
      BY <2>2, HiddenStep DEF Quiet, Step, Stays
    <2>6. Quiet(w[v], x[v])
      BY <2>1, <2>4, <2>5
    <2> QED
      BY <2>6, QuietLaid DEF Laid, Local
  <1>2. x \in [Views -> ViewState]
    BY <1>1 DEF DisplaySheet
  <1> QED
    BY <1>1, <1>2 DEF AllLaid

\* queue_tile() of a view on the sheet that is laid out.
LEMMA TiledLaid ==
    ASSUME NEW r, Local(r), r.mapped, NEW p, r.place = p, r.flags = {}, ~Dirty(r),
           NEW fits \in BOOLEAN
    PROVE  Laid(r, QueueTile(r, p, fits), p)
  <1>1. WasTiled(r, QueueTile(r, p, fits), p)
    BY TileQueued
  <1> QED
    BY <1>1 DEF WasTiled, Laid, Stays

\* hikari_sheet_apply_split(): a view that waits for an answer is passed over.
LEMMA SplitLaid ==
    ASSUME NEW w, AllLocal(w), NEW p, NEW take, NEW fit
    PROVE  AllLaid(w, ApplySplit(w, p, take, fit), p)
  <1> DEFINE wanted == {v \in On(w, p) : w[v].flags = {}}
             s == Unhide(w, wanted)
             x == [v \in Views |-> IF v \in take /\ v \in wanted /\ ~Dirty(w[v])
                                   THEN QueueTile(s[v], p, v \in fit) ELSE s[v]]
  <1>1. ApplySplit(w, p, take, fit) = IF \E v \in TiledAt(w, p) : Dirty(w[v]) THEN w ELSE x
    BY DEF ApplySplit
  <1>2. AllLaid(w, s, p)
    BY UnhideLaid
  <1>3. ASSUME NEW v \in Views PROVE Laid(w[v], x[v], p) /\ x[v] \in ViewState
    <2>1. Laid(w[v], s[v], p) /\ Local(s[v])
      BY <1>2 DEF AllLaid, Laid
    <2>2. CASE ~(v \in take /\ v \in wanted /\ ~Dirty(w[v]))
      BY <2>1, <2>2 DEF Local
    <2>3. CASE v \in take /\ v \in wanted /\ ~Dirty(w[v])
      <3>1. w[v].mapped /\ w[v].place = p /\ w[v].flags = {} /\ Local(w[v])
        BY <2>3 DEF On, AllLocal
      <3>2. s[v] = [w[v] EXCEPT !.hidden = FALSE]
        BY <2>3 DEF Unhide
      <3> DEFINE q == [w[v] EXCEPT !.hidden = FALSE]
      <3>3. Quiet(w[v], q) /\ q.op = w[v].op /\ q.tile = w[v].tile /\ q.pending = w[v].pending
        BY <3>1, HiddenStep
      <3> HIDE DEF q
      <3>4. Quiet(w[v], s[v]) /\ s[v].op = w[v].op /\ s[v].tile = w[v].tile
            /\ s[v].pending = w[v].pending
        BY <3>2, <3>3 DEF q
      <3>5. s[v].mapped /\ s[v].place = p /\ s[v].flags = {} /\ ~Dirty(s[v])
        BY <2>3, <3>1, <3>4 DEF Quiet, Step, Stays, Dirty
      <3>6. (v \in fit) \in BOOLEAN
        OBVIOUS
      <3>7. x[v] = QueueTile(s[v], p, v \in fit)
        BY <2>3
      <3> HIDE DEF s, x
      <3>8. Laid(s[v], x[v], p)
        BY <2>1, <3>5, <3>6, <3>7, TiledLaid
      <3> QED
        BY <2>3, <3>1, <3>4, <3>5, <3>8 DEF Laid, Local
    <2> QED
      BY <2>2, <2>3
  <1>4. x \in [Views -> ViewState]
    BY <1>3
  <1> HIDE DEF x
  <1>5. AllLaid(w, x, p)
    BY <1>3, <1>4 DEF AllLaid
  <1> QED
    BY <1>1, <1>5, LaidSame

\* What raise_prependable() would raise on a sheet is on the screen.
Raisable(w, p) == \A v \in Prependable(w, p) : ~w[v].hidden

\* hikari_view_raise() of views that are on the screen.
LEMMA RaiseNothing ==
    ASSUME NEW w \in [Views -> ViewState], NEW vs, \A v \in vs : ~w[v].hidden
    PROVE  Raise(w, vs) = w
  <1>1. ASSUME NEW v \in Views PROVE Raise(w, vs)[v] = w[v]
    <2>1. CASE v \in vs
      <3>1. Raise(w, vs)[v] = [w[v] EXCEPT !.fault = w[v].fault \/ w[v].hidden]
        BY <2>1 DEF Raise, Fail
      <3>2. w[v] \in ViewState /\ w[v].hidden = FALSE
        BY <2>1 DEF ViewState
      <3>3. w[v].fault \in BOOLEAN /\ (w[v].fault \/ w[v].hidden) = w[v].fault
        BY <3>2 DEF ViewState
      <3>4. [w[v] EXCEPT !.fault = w[v].fault] = w[v]
        BY <3>2 DEF ViewState
      <3> QED
        BY <3>1, <3>3, <3>4
    <2> QED
      BY <2>1 DEF Raise
  <1> QED
    BY <1>1 DEF Raise

\* The views that restack() shows have a tile: none is added to those that are raised.
LEMMA UnhideRaisable ==
    ASSUME NEW w \in [Views -> ViewState], NEW vs, NEW p, Raisable(w, p)
    PROVE  Raisable(Unhide(w, vs), p)
  <1> SUFFICES ASSUME NEW v \in Prependable(Unhide(w, vs), p)
               PROVE  ~Unhide(w, vs)[v].hidden
    BY DEF Raisable
  <1> DEFINE s == Unhide(w, vs)[v]
  <1>1. v \in Views /\ s.mapped /\ s.place = p /\ ~Tiled(s) /\ Tileable(s)
    BY DEF Prependable, On
  <1>2. s = IF v \in vs THEN [w[v] EXCEPT !.hidden = FALSE] ELSE w[v]
    BY <1>1 DEF Unhide
  <1>3. w[v] \in ViewState
    BY <1>1
  <1> HIDE DEF s
  <1>4. /\ s.mapped = w[v].mapped /\ s.place = w[v].place /\ s.tile = w[v].tile
        /\ s.flags = w[v].flags /\ s.op = w[v].op
        /\ s.hidden => w[v].hidden
    BY <1>2, <1>3 DEF ViewState
  <1>5. v \in Prependable(w, p)
    BY <1>1, <1>4 DEF Prependable, On, Tiled, Tileable, Dirty
  <1>6. ~s.hidden
    BY <1>4, <1>5 DEF Raisable
  <1> QED
    BY <1>6 DEF s

\* hikari_layout_restack_append() and hikari_layout_restack_prepend(), of a sheet whose views are
\* on the screen if they are raised.
LEMMA RestackLaid ==
    ASSUME NEW w, AllLocal(w), NEW p, NEW insert, NEW take, NEW fit,
           insert = "append" \/ Raisable(w, p)
    PROVE  AllLaid(w, Restack(w, p, insert, take, fit), p)
  <1> DEFINE u == Unhide(w, TiledAt(w, p))
  <1>1. AllLaid(w, u, p)
    BY UnhideLaid
  <1>2. AllLocal(u)
    BY <1>1, LaidLocal
  <1>3. insert = "append" \/ Raisable(u, p)
    BY UnhideRaisable DEF AllLocal
  <1>4. Restack(w, p, insert, take, fit)
            = ApplySplit(IF insert = "prepend" THEN Raise(u, Prependable(u, p)) ELSE u, p, take, fit)
    BY DEF Restack
  <1> HIDE DEF u
  <1>5. (IF insert = "prepend" THEN Raise(u, Prependable(u, p)) ELSE u) = u
    BY <1>2, <1>3, RaiseNothing DEF AllLocal, Raisable
  <1>6. AllLaid(u, ApplySplit(u, p, take, fit), p)
    BY <1>2, SplitLaid
  <1> QED
    BY <1>1, <1>4, <1>5, <1>6, LaidTwice

LEMMA ExtendLaid ==
    ASSUME NEW w, AllLocal(w), NEW p, NEW insert, NEW take, NEW fit,
           p \in layouts => insert = "append" \/ Raisable(w, p)
    PROVE  AllLaid(w, Extend(w, p, insert, take, fit), p)
  BY SplitLaid, RestackLaid DEF Extend

\* display_sheet() leaves no view hidden that the layout of the sheet could take in.
LEMMA DisplayRaisable ==
    ASSUME NEW w \in [Views -> ViewState], NEW p
    PROVE  Raisable(DisplaySheet(w, p), p)
  <1> SUFFICES ASSUME NEW v \in Prependable(DisplaySheet(w, p), p)
               PROVE  ~DisplaySheet(w, p)[v].hidden
    BY DEF Raisable
  <1> DEFINE s == DisplaySheet(w, p)[v]
             b == w[v].hidden /\ "invisible" \in w[v].flags
  <1>1. v \in Views /\ s.mapped /\ s.place = p /\ s.flags = {}
    BY DEF Prependable, On, Tileable
  <1>2. s = IF ~w[v].mapped \/ w[v].place.out # p.out THEN w[v]
            ELSE IF w[v].place.nr \notin {p.nr, 0} THEN [w[v] EXCEPT !.hidden = TRUE]
            ELSE [w[v] EXCEPT !.hidden = b]
    BY <1>1 DEF DisplaySheet
  <1>3. w[v] \in ViewState
    BY <1>1
  <1> HIDE DEF s, b
  <1>4. s.mapped = w[v].mapped /\ s.place = w[v].place /\ s.flags = w[v].flags
    BY <1>2, <1>3 DEF ViewState
  <1>5. s = [w[v] EXCEPT !.hidden = b]
    BY <1>1, <1>2, <1>4
  <1>6. ~b
    BY <1>1, <1>4 DEF b
  <1>7. ~s.hidden
    BY <1>3, <1>5, <1>6 DEF ViewState
  <1> QED
    BY <1>7 DEF s

\* Views that are laid out on a sheet with a layout are at home.
LEMMA LaidHome ==
    ASSUME AllHome(view, layouts, outputs), NEW x \in [Views -> ViewState], NEW named,
           \A v \in Views : \/ x[v] = view[v]
                           \/ \E p : Laid(view[v], x[v], p) /\ p \in layouts \cup named
    PROVE  AllHome(x, layouts \cup named, outputs) /\ StillDirty(x) /\ SlotKept(x)
  <1>1. ASSUME NEW v \in Views
        PROVE  /\ Local(x[v]) /\ Home(x[v], layouts \cup named, outputs)
               /\ Dirty(view[v]) => x[v].op = view[v].op
               /\ x[v].place = view[v].place
    <2>1. Home(view[v], layouts, outputs) /\ Local(view[v])
      BY DEF AllHome
    <2>2. CASE x[v] = view[v]
      BY <2>1, <2>2 DEF Home
    <2>3. CASE x[v] # view[v]
      <3>1. PICK p : Laid(view[v], x[v], p) /\ p \in layouts \cup named
        BY <2>3
      <3> QED
        BY <2>1, <3>1 DEF Laid, Home
    <2> QED
      BY <2>2, <2>3
  <1> QED
    BY <1>1 DEF AllHome, StillDirty, SlotKept, Dirty

\* An action of the desktop, as far as the invariant is concerned.
LEMMA DeskKeeps ==
    ASSUME IInv, NEW x, NEW named \in SUBSET Place, AllHome(x, layouts \cup named, outputs),
           view' = x, layouts' = (layouts \ Vacated(x)) \cup named,
           NEW ps \in SUBSET Place, NEW settles \in BOOLEAN, Reflow(ps, settles),
           settles \/ StillDirty(x), UNCHANGED <<outputs, moving>>,
           displayed' \in [Outputs -> Sheets]
    PROVE  IInv'
  <1>1. Sane /\ Awake(view, queued, armed, moving)
    BY DEF IInv
  <1>2. AllHome(view', layouts', outputs')
    BY LayoutsStay
  <1>3. queued' \subseteq Place /\ armed' \in BOOLEAN
    BY <1>1, ReflowType
  <1>4. Awake(view', queued', armed', moving')
    BY <1>1, ReflowAwake
  <1> QED
    BY <1>1, <1>2, <1>3, <1>4 DEF IInv, Sane
-----------------------------------------------------------------------------
(* The handlers of many views.                                             *)

\* hikari_view_exchange()
LEMMA ExchangeKeeps ==
    ASSUME IInv, NEW v \in Views, NEW w \in Views, Exchange(v, w)
    PROVE  IInv' /\ SlotKept(view')
  <1> DEFINE p == view[v].tile
  <1>1. v # w /\ ~Dirty(view[v]) /\ ~Dirty(view[w]) /\ p \in Place /\ view[w].tile = p
        /\ UNCHANGED <<displayed, outputs, moving>>
    BY DEF Exchange, Attached
  <1>2. PICK fit \in SUBSET {v, w} :
            /\ Becomes([view EXCEPT ![v] = QueueTile(@, p, v \in fit),
                                    ![w] = QueueTile(@, p, w \in fit)])
            /\ Reflow({}, fit # {})
    BY DEF Exchange
  <1>3. IInv => AllHome(view, layouts, outputs) /\ Sane
    BY DEF IInv
  <1>4. ASSUME NEW u \in {v, w}
        PROVE  Laid(view[u], QueueTile(view[u], p, u \in fit), p)
    <2>1. Local(view[u]) /\ view[u].tile = p /\ ~Dirty(view[u])
      BY <1>1, ViewSound
    <2>2. view[u].mapped /\ view[u].place = p /\ view[u].flags = {}
      BY <1>1, <2>1 DEF Local, Core
    <2>3. (u \in fit) \in BOOLEAN
      OBVIOUS
    <2> QED
      BY <2>1, <2>2, <2>3, TiledLaid
  <1>5. p \in layouts
    BY <1>1, <1>3 DEF AllHome, Home
  <1> DEFINE a == QueueTile(view[v], p, v \in fit)
             b == QueueTile(view[w], p, w \in fit)
             x == [view EXCEPT ![v] = a, ![w] = b]
  <1>6. x = [view EXCEPT ![v] = QueueTile(@, p, v \in fit), ![w] = QueueTile(@, p, w \in fit)]
    BY <1>1
  <1>7. Laid(view[v], a, p) /\ Laid(view[w], b, p)
    BY <1>4
  <1> HIDE DEF a, b
  <1>8. x \in [Views -> ViewState] /\ x[v] = a /\ x[w] = b
        /\ \A u \in Views \ {v, w} : x[u] = view[u]
    BY <1>1, <1>3, <1>7 DEF AllHome, Laid, Local
  <1>9. view' = x /\ layouts' = (layouts \ Vacated(x)) \cup {}
    BY <1>2, <1>6 DEF Becomes
  <1> HIDE DEF x, p
  <1>10. \A u \in Views : Laid(view[u], x[u], p)
    BY <1>3, <1>7, <1>8 DEF AllHome, Laid
  <1>11. AllHome(x, layouts \cup {}, outputs) /\ StillDirty(x) /\ SlotKept(x)
    BY <1>3, <1>5, <1>8, <1>10, LaidHome
  <1>12. (fit # {}) \in BOOLEAN /\ {} \in SUBSET Place /\ displayed' \in [Outputs -> Sheets]
    BY <1>1, <1>3 DEF Sane
  <1> QED
    BY <1>1, <1>2, <1>9, <1>11, <1>12, DeskKeeps

\* hikari_layout_reset() of the displayed sheet.
LEMMA ResetLayoutKeeps ==
    ASSUME IInv, NEW o \in Outputs, ResetLayout(o)
    PROVE  IInv' /\ SlotKept(view')
  <1> DEFINE p == [out |-> o, nr |-> displayed[o]]
             reset == {v \in On(view, p) : Tiled(view[v])}
  <1>1. PICK fit \in SUBSET reset :
            /\ Becomes([v \in Views |-> IF v \in reset THEN QueueReset(view[v], v \in fit)
                                        ELSE view[v]])
            /\ Reflow({}, fit # {})
    BY DEF ResetLayout
  <1> DEFINE x == [v \in Views |-> IF v \in reset THEN QueueReset(view[v], v \in fit)
                                   ELSE view[v]]
  <1>2. AllHome(view, layouts, outputs) /\ Sane /\ UNCHANGED <<displayed, outputs, moving>>
    BY DEF IInv, ResetLayout
  <1>3. ASSUME NEW v \in Views
        PROVE  /\ Local(x[v]) /\ x[v].place = view[v].place
               /\ {x[v].tile, x[v].pending} \cap Place \subseteq {view[v].tile, view[v].pending}
               /\ Dirty(view[v]) => x[v].op \in {view[v].op, "none", "reset"}
               /\ v \notin fit /\ Dirty(view[v]) => Dirty(x[v])
    <2>1. Local(view[v])
      BY ViewSound
    <2>2. CASE v \notin reset
      BY <2>1, <2>2
    <2>3. CASE v \in reset
      <3>1. view[v].mapped /\ (v \in fit) \in BOOLEAN
        BY <2>3 DEF On
      <3>2. x[v] = QueueReset(view[v], v \in fit)
        BY <2>3
      <3> HIDE DEF x, reset
      <3>3. WasReset(view[v], x[v], v \in fit)
        BY <2>1, <3>1, <3>2, Reset, MayReset
      <3> QED
        BY <3>3, NoPlace DEF WasReset, Stays, Dirty
    <2> QED
      BY <2>2, <2>3
  <1>4. x \in [Views -> ViewState]
    BY <1>3 DEF Local
  <1>5. view' = x /\ layouts' = (layouts \ Vacated(x)) \cup {}
    BY <1>1 DEF Becomes
  <1> HIDE DEF x, reset
  <1>6. ASSUME NEW v \in Views PROVE Home(x[v], layouts \cup {}, outputs)
    <2>1. Home(view[v], layouts, outputs)
      BY <1>2 DEF AllHome
    <2> QED
      BY <1>3, <2>1 DEF Home
  <1>7. AllHome(x, layouts \cup {}, outputs)
    BY <1>3, <1>4, <1>6 DEF AllHome
  <1>8. (fit # {} \/ StillDirty(x)) /\ SlotKept(x)
    BY <1>3 DEF StillDirty, SlotKept
  <1>9. (fit # {}) \in BOOLEAN /\ {} \in SUBSET Place /\ displayed' \in [Outputs -> Sheets]
    BY <1>2 DEF Sane
  <1> QED
    BY <1>1, <1>2, <1>5, <1>7, <1>8, <1>9, DeskKeeps

\* The displayed sheet of a monitor is laid out, whatever it was before.
LEMMA LayOutHome ==
    ASSUME IInv, NEW x, NEW p \in Place, AllLaid(view, x, p)
    PROVE  AllHome(x, layouts \cup {p}, outputs) /\ StillDirty(x) /\ SlotKept(x)
  <1>1. AllHome(view, layouts, outputs)
    BY DEF IInv
  <1>2. x \in [Views -> ViewState] /\ \A v \in Views : Laid(view[v], x[v], p)
    BY DEF AllLaid
  <1>3. p \in layouts \cup {p}
    OBVIOUS
  <1> QED
    BY <1>1, <1>2, <1>3, LaidHome

\* hikari_workspace_apply_split() and the restack keys.
LEMMA LayOutKeeps ==
    ASSUME IInv, Races = {}, NEW o \in Outputs, LayOut(o)
    PROVE  IInv' /\ SlotKept(view')
  <1> DEFINE p == [out |-> o, nr |-> displayed[o]]
             shown == DisplaySheet(view, p)
  <1>1. PICK take \in SUBSET Views : \E fit \in SUBSET take :
            /\ \/ /\ \E w \in FocusRaised(p) : view' = ApplySplit(DisplaySheet(w, p), p, take, fit)
                  /\ Reflow({p}, fit # {})
               \/ /\ p \in layouts
                  /\ \E insert \in Inserts : view' = Restack(shown, p, insert, take, fit)
                  /\ Reflow({p}, fit # {})
               \/ p \notin layouts /\ view' = ApplySplit(view, p, take, fit) /\ Reflow({}, fit # {})
            /\ layouts' = (layouts \ Vacated(view')) \cup {p}
    BY DEF LayOut
  <1>2. PICK fit \in SUBSET take :
            /\ \/ /\ \E w \in FocusRaised(p) : view' = ApplySplit(DisplaySheet(w, p), p, take, fit)
                  /\ Reflow({p}, fit # {})
               \/ /\ p \in layouts
                  /\ \E insert \in Inserts : view' = Restack(shown, p, insert, take, fit)
                  /\ Reflow({p}, fit # {})
               \/ p \notin layouts /\ view' = ApplySplit(view, p, take, fit) /\ Reflow({}, fit # {})
            /\ layouts' = (layouts \ Vacated(view')) \cup {p}
    BY <1>1
  <1>3. AllHome(view, layouts, outputs) /\ Sane /\ UNCHANGED <<displayed, outputs, moving>>
    BY DEF IInv, LayOut
  <1>4. p \in Place
    BY <1>3, PlaceIs DEF Sane
  <1>5. AllLocal(view)
    BY <1>3 DEF AllHome, AllLocal
  <1> HIDE DEF p
  <1>6. AllLaid(view, shown, p) /\ AllLocal(shown)
    BY <1>5, DisplayLaid, LaidLocal
  <1>7. AllLaid(view, view', p)
    <2>1. FocusRaised(p) = {view}
      BY DEF FocusRaised
    <2>2. Raisable(shown, p)
      BY <1>5, DisplayRaisable DEF AllLocal
    <2>3. AllLaid(view, ApplySplit(shown, p, take, fit), p)
      <3> HIDE DEF shown
      <3> QED
        BY <1>6, SplitLaid, LaidTwice
    <2>4. ASSUME NEW insert PROVE AllLaid(view, Restack(shown, p, insert, take, fit), p)
      <3> HIDE DEF shown
      <3>1. AllLaid(shown, Restack(shown, p, insert, take, fit), p)
        BY <1>6, <2>2, RestackLaid
      <3> QED
        BY <1>6, <3>1, LaidTwice
    <2>5. AllLaid(view, ApplySplit(view, p, take, fit), p)
      BY <1>5, SplitLaid
    <2> QED
      BY <1>2, <2>1, <2>3, <2>4, <2>5
  <1> HIDE DEF shown
  <1>8. PICK ps \in {{}, {p}} : Reflow(ps, fit # {})
    BY <1>2
  <1> DEFINE x == view'
  <1>9. AllHome(x, layouts \cup {p}, outputs) /\ StillDirty(x) /\ SlotKept(x)
    BY <1>4, <1>7, LayOutHome
  <1>10. layouts' = (layouts \ Vacated(x)) \cup {p} /\ (fit # {}) \in BOOLEAN
         /\ ps \in SUBSET Place /\ {p} \in SUBSET Place /\ displayed' \in [Outputs -> Sheets]
    BY <1>2, <1>3, <1>4 DEF Sane
  <1>11. view' = x
    OBVIOUS
  <1> HIDE DEF x
  <1>12. IInv'
    BY <1>3, <1>8, <1>9, <1>10, <1>11, DeskKeeps
  <1> QED
    BY <1>9, <1>11, <1>12

\* hikari_workspace_switch_sheet()
LEMMA SwitchSheetKeeps ==
    ASSUME IInv, NEW o \in Outputs, NEW n \in Sheets, SwitchSheet(o, n)
    PROVE  IInv' /\ SlotKept(view')
  <1> DEFINE p == [out |-> o, nr |-> n]
             x == DisplaySheet(view, p)
  <1>1. p \in Place
    BY PlaceIs
  <1>2. AllHome(view, layouts, outputs) /\ Sane /\ UNCHANGED <<outputs, moving>>
        /\ displayed' = [displayed EXCEPT ![o] = n] /\ Becomes(x) /\ Reflow({p}, FALSE)
    BY DEF IInv, SwitchSheet
  <1>3. AllLocal(view)
    BY <1>2 DEF AllHome, AllLocal
  <1> HIDE DEF p
  <1>4. \A q : AllLaid(view, x, q)
    BY <1>3, DisplayLaid
  <1> HIDE DEF x
  <1>5. ASSUME NEW v \in Views
        PROVE  /\ Local(x[v]) /\ Home(x[v], layouts, outputs) /\ x[v].place = view[v].place
               /\ Dirty(view[v]) => x[v].op = view[v].op
    <2>1. Laid(view[v], x[v], Nowhere) /\ Home(view[v], layouts, outputs)
      BY <1>2, <1>4 DEF AllLaid, AllHome
    <2> QED
      BY <2>1, NoPlace DEF Laid, Home
  <1>6. x \in [Views -> ViewState] /\ layouts \cup {} = layouts
    BY <1>4 DEF AllLaid
  <1>7. AllHome(x, layouts \cup {}, outputs) /\ StillDirty(x) /\ SlotKept(x)
    BY <1>5, <1>6 DEF AllHome, StillDirty, SlotKept, Dirty
  <1>8. view' = x /\ layouts' = (layouts \ Vacated(x)) \cup {}
    BY <1>2 DEF Becomes
  <1>9. {p} \in SUBSET Place /\ {} \in SUBSET Place /\ displayed' \in [Outputs -> Sheets]
    BY <1>1, <1>2 DEF Sane
  <1>10. IInv'
    BY <1>2, <1>7, <1>8, <1>9, DeskKeeps
  <1> QED
    BY <1>7, <1>8, <1>10
-----------------------------------------------------------------------------
(* The monitors and the event loop.                                        *)

\* hikari_output_fini(): every view of the monitor is reset or has no tile, and is on another.
LEMMA UnplugKeeps ==
    ASSUME IInv, Races = {}, NEW o \in Outputs, Unplug(o)
    PROVE  IInv' /\ SlotKept(view')
  <1> DEFINE leaving == {v \in Views : view[v].place.out = o}
             its     == {p \in Place : p.out = o}
  <1>1. PICK into \in outputs \ {o}, fit \in SUBSET leaving :
            view' = [v \in Views |->
                IF v \in leaving
                THEN Evacuated(view[v], [view[v].place EXCEPT !.out = into], v \in fit)
                ELSE view[v]]
    BY DEF Unplug
  <1> DEFINE x == [v \in Views |->
                IF v \in leaving
                THEN Evacuated(view[v], [view[v].place EXCEPT !.out = into], v \in fit)
                ELSE view[v]]
  <1>2. /\ \A v \in leaving : view[v].mapped
        /\ \A v \in leaving : FirstTiling(view[v]) => view[v].maximized # "no"
        /\ layouts' = layouts \ (Vacated(view') \cup its) /\ outputs' = outputs \ {o}
        /\ displayed' = [displayed EXCEPT ![o] = 1] /\ queued' = queued \ its
        /\ armed' \in {armed, ~moving \/ armed} /\ moving' = moving
    BY DEF Unplug
  <1>3. AllHome(view, layouts, outputs) /\ Sane /\ Awake(view, queued, armed, moving)
    BY DEF IInv
  <1>4. ASSUME NEW v \in leaving
        PROVE  /\ Local(x[v]) /\ x[v].place.out = into
               /\ {x[v].tile, x[v].pending} \cap Place = {}
               /\ Dirty(view[v]) => x[v].op \in {view[v].op, "none", "reset"}
    <2> DEFINE p == [view[v].place EXCEPT !.out = into]
    <2>1. Local(view[v]) /\ view[v].mapped /\ view[v].place \in Place /\ view[v].place.out = o
      BY <1>2, <1>4, ViewSound
    <2>2. p \in Place /\ p.out = into
      BY <1>3, <2>1 DEF Place, Sane
    <2>3. x[v] = Evacuated(view[v], p, v \in fit) /\ (v \in fit) \in BOOLEAN
      BY <1>4
    <2>4. FirstTiling(view[v]) => view[v].maximized # "no"
      BY <1>2, <1>4
    <2> HIDE DEF p, x
    <2>5. Sent(view[v], Evacuated(view[v], p, v \in fit), p)
      BY <2>1, <2>2, <2>3, <2>4, EvacuatedSent
    <2>6. Sent(view[v], x[v], p)
      BY <2>3, <2>5
    <2>7. {view[v].tile, view[v].pending} \cap Place \subseteq {view[v].place}
      BY <2>1 DEF Local, Core
    <2>8. {x[v].tile, x[v].pending} \cap Place \subseteq {p}
      BY <2>6 DEF Sent, Local, Core
    <2>9. view[v].place # p
      BY <2>1, <2>2
    <2> QED
      BY <2>2, <2>6, <2>7, <2>8, <2>9 DEF Sent
  <1>5. ASSUME NEW v \in Views \ leaving PROVE x[v] = view[v]
    BY <1>5
  <1>6. view' = x
    BY <1>1
  <1>7. x \in [Views -> ViewState]
    <2>1. ASSUME NEW v \in Views PROVE x[v] \in ViewState
      BY <1>3, <1>4, <1>5 DEF AllHome, Local
    <2> QED
      BY <2>1
  <1> HIDE DEF x
  <1>8. ASSUME NEW v \in Views PROVE Local(x[v]) /\ Home(x[v], layouts, outputs \ {o})
    <2>1. CASE v \in leaving
      BY <1>4, <2>1 DEF Home
    <2>2. CASE v \notin leaving
      BY <1>3, <1>5, <2>2 DEF Home, AllHome
    <2> QED
      BY <2>1, <2>2
  <1>9. AllHome(x, layouts, outputs \ {o})
    BY <1>7, <1>8 DEF AllHome
  <1>10. AllHome(x, layouts \ Vacated(x), outputs \ {o})
    BY <1>9, LayoutsStayAlone
  <1>11. ASSUME NEW v \in Views PROVE {x[v].tile, x[v].pending} \cap its = {}
    <2>1. Local(x[v]) /\ Home(x[v], layouts, outputs \ {o})
      BY <1>8
    <2>2. \A p \in {x[v].tile, x[v].pending} \cap Place : p = x[v].place /\ p # Nowhere
      BY <2>1, NoPlace DEF Local, Core
    <2> QED
      BY <2>1, <2>2 DEF Home
  <1>12. AllHome(view', layouts', outputs')
    <2>1. ASSUME NEW v \in Views PROVE Home(x[v], layouts \ (Vacated(x) \cup its), outputs \ {o})
      BY <1>10, <1>11 DEF AllHome, Home
    <2> QED
      BY <1>2, <1>6, <1>10, <2>1 DEF AllHome
  <1>13. Awake(view', queued', armed', moving')
    <2> SUFFICES ASSUME NEW p \in queued', ~armed', ~moving' PROVE Heard(view', p.out)
      BY DEF Awake
    <2>1. p \in queued /\ p \in Place /\ p.out # o /\ ~armed /\ ~moving
      BY <1>2, <1>3 DEF Sane
    <2>2. PICK v \in Views : Dirty(view[v]) /\ view[v].place.out = p.out
      BY <1>3, <2>1 DEF Awake, Heard
    <2>3. x[v] = view[v]
      BY <1>5, <2>1, <2>2
    <2> QED
      BY <1>6, <2>2, <2>3 DEF Heard
  <1>14. SlotKept(x)
    BY <1>4, <1>5 DEF SlotKept
  <1>15. Sane'
    <2>1. displayed' \in [Outputs -> Sheets]
      BY <1>2, <1>3, SheetAssumption DEF Sane
    <2>2. outputs' \in (SUBSET Outputs) \ {{}}
      BY <1>2, <1>3 DEF Sane
    <2>3. armed' \in BOOLEAN
      BY <1>2, <1>3 DEF Sane
    <2> QED
      BY <1>2, <1>3, <2>1, <2>2, <2>3 DEF Sane
  <1> QED
    BY <1>6, <1>12, <1>13, <1>14, <1>15 DEF IInv

\* A monitor comes.
LEMMA PlugKeeps ==
    ASSUME IInv, NEW o \in Outputs, Plug(o)
    PROVE  IInv' /\ SlotKept(view')
  <1>1. outputs' = outputs \cup {o} /\ UNCHANGED <<view, displayed, layouts, queued, armed, moving>>
    BY DEF Plug
  <1>2. AllHome(view, layouts, outputs) /\ Sane /\ Awake(view, queued, armed, moving)
    BY DEF IInv
  <1>3. AllHome(view', layouts', outputs')
    BY <1>1, <1>2 DEF AllHome, Home
  <1>4. Sane'
    <2>1. outputs' \subseteq Outputs /\ outputs' # {}
      BY <1>1, <1>2 DEF Sane
    <2> QED
      BY <1>1, <1>2, <2>1 DEF Sane
  <1>5. Awake(view', queued', armed', moving') /\ SlotKept(view')
    BY <1>1, <1>2 DEF SlotKept
  <1> QED
    BY <1>3, <1>4, <1>5 DEF IInv

\* hikari_reflow_output() of a monitor whose usable area changes.
LEMMA ReserveKeeps ==
    ASSUME IInv, NEW o \in Outputs, Reserve(o)
    PROVE  IInv' /\ SlotKept(view')
  <1> DEFINE p == [out |-> o, nr |-> displayed[o]]
  <1>1. AllHome(view, layouts, outputs) /\ Sane /\ Awake(view, queued, armed, moving)
    BY DEF IInv
  <1>2. p \in Place
    BY <1>1, PlaceIs DEF Sane
  <1>3. Reflow({p}, FALSE) /\ UNCHANGED <<view, displayed, outputs, layouts, moving>>
    BY DEF Reserve
  <1> HIDE DEF p
  <1>4. StillDirty(view') /\ SlotKept(view') /\ {p} \in SUBSET Place
    BY <1>2, <1>3 DEF StillDirty, SlotKept
  <1>5. queued' \subseteq Place /\ armed' \in BOOLEAN
    BY <1>1, <1>3, <1>4, ReflowType
  <1>6. Awake(view', queued', armed', moving')
    BY <1>1, <1>3, <1>4, ReflowAwake
  <1> QED
    BY <1>1, <1>3, <1>4, <1>5, <1>6 DEF IInv, Sane

\* The move mode holds the idle source back, and its end sets it off.
LEMMA MoveKeeps ==
    ASSUME IInv, StartMove \/ EndMove
    PROVE  IInv' /\ SlotKept(view')
  <1>1. UNCHANGED <<view, displayed, outputs, layouts, queued>> /\ moving' \in BOOLEAN
        /\ armed' \in BOOLEAN
    BY DEF StartMove, EndMove, IInv, Sane
  <1>2. Awake(view', queued', armed', moving')
    BY DEF StartMove, EndMove, IInv, Sane, Awake
  <1> QED
    BY <1>1, <1>2 DEF IInv, Sane, SlotKept

\* drain(): a sheet is laid out, or waits for a view that is settling.
LEMMA DrainKeeps ==
    ASSUME IInv, Races = {}, Drain
    PROVE  IInv' /\ SlotKept(view')
  <1> DEFINE stays == {p \in queued : Shown(p) /\ Settling(p)}
             ready == {p \in queued : Shown(p)} \ stays
  <1>1. AllHome(view, layouts, outputs) /\ Sane /\ Awake(view, queued, armed, moving)
        /\ UNCHANGED <<displayed, outputs, moving>>
    BY DEF IInv, Drain
  <1>2. CASE moving
    <2>1. armed' = FALSE /\ UNCHANGED <<view, layouts, queued>>
      BY <1>2 DEF Drain
    <2>2. Awake(view', queued', armed', moving')
      BY <1>1, <1>2 DEF Awake
    <2> QED
      BY <1>1, <2>1, <2>2 DEF IInv, Sane, SlotKept
  <1>3. CASE ~moving
    <2>1. PICK named \in SUBSET (ready \ layouts), take \in SUBSET Views, insert \in Inserts,
               fit \in SUBSET Views :
            /\ \A p \in ready \cap layouts : MayRestack(view, p, insert)
            /\ view' = [v \in Views |->
                    IF view[v].place \in (ready \cap layouts) \cup named
                    THEN Extend(view, view[v].place, insert, take, fit)[v]
                    ELSE view[v]]
            /\ layouts' = (layouts \ Vacated(view')) \cup named
            /\ queued' = stays
            /\ armed' \in BOOLEAN
      <3>1. PICK named \in SUBSET (ready \ layouts), take \in SUBSET Views, insert \in Inserts :
                \E fit \in SUBSET take :
                    /\ \A p \in ready \cap layouts : MayRestack(view, p, insert)
                    /\ view' = [v \in Views |->
                            IF view[v].place \in (ready \cap layouts) \cup named
                            THEN Extend(view, view[v].place, insert, take, fit)[v]
                            ELSE view[v]]
                    /\ layouts' = (layouts \ Vacated(view')) \cup named
                    /\ queued' = stays
                    /\ armed' \in IF fit # {} /\ Cardinality(queued) > 1 THEN BOOLEAN
                                  ELSE {FALSE}
        BY <1>3 DEF Drain
      <3> HIDE DEF stays, ready
      <3> QED
        BY <3>1
    <2> DEFINE done == (ready \cap layouts) \cup named
               x == [v \in Views |-> IF view[v].place \in done
                                     THEN Extend(view, view[v].place, insert, take, fit)[v]
                                     ELSE view[v]]
    <2>2. view' = x
      BY <2>1
    <2>3. AllLocal(view)
      BY <1>1 DEF AllHome, AllLocal
    <2>4. ASSUME NEW v \in Views, view[v].place \in done
          PROVE  Laid(view[v], x[v], view[v].place) /\ view[v].place \in layouts \cup named
      <3> DEFINE p == view[v].place
      <3>1. p \in layouts => p \in ready \cap layouts
        BY <2>1, <2>4
      <3>2. p \in layouts => insert = "append" \/ Raisable(view, p)
        BY <2>1, <3>1 DEF MayRestack, Raisable
      <3> HIDE DEF p
      <3>3. AllLaid(view, Extend(view, p, insert, take, fit), p)
        BY <2>3, <3>2, ExtendLaid
      <3> QED
        BY <2>4, <3>3 DEF AllLaid, p
    <2>5. ASSUME NEW v \in Views, view[v].place \notin done PROVE x[v] = view[v]
      BY <2>5
    <2>6. named \in SUBSET Place /\ stays \subseteq queued /\ stays \cap done = {}
      <3>1. ready \subseteq queued /\ stays \cap ready = {} /\ stays \subseteq queued
        OBVIOUS
      <3> QED
        BY <1>1, <2>1, <3>1 DEF Sane
    <2>7. \A p \in stays : \E v \in Views : Dirty(view[v]) /\ view[v].place = p
      BY DEF Settling, On
    <2> HIDE DEF stays, done
    <2>8. x \in [Views -> ViewState]
      <3>1. ASSUME NEW v \in Views PROVE x[v] \in ViewState
        BY <2>3, <2>4, <2>5 DEF AllLocal, Laid, Local
      <3> QED
        BY <3>1
    <2> HIDE DEF x
    <2>9. \A v \in Views : \/ x[v] = view[v]
                           \/ \E p : Laid(view[v], x[v], p) /\ p \in layouts \cup named
      BY <2>4, <2>5
    <2>10. AllHome(x, layouts \cup named, outputs) /\ SlotKept(x)
      BY <1>1, <2>8, <2>9, LaidHome
    <2>11. AllHome(x, (layouts \ Vacated(x)) \cup named, outputs)
      BY <2>10, LayoutsStay
    <2>12. Awake(x, stays, armed', moving')
      <3> SUFFICES ASSUME NEW p \in stays PROVE Heard(x, p.out)
        BY DEF Awake
      <3>1. PICK v \in Views : Dirty(view[v]) /\ view[v].place = p
        BY <2>7
      <3>2. x[v] = view[v]
        BY <2>5, <2>6, <3>1
      <3> QED
        BY <3>1, <3>2 DEF Heard
    <2> QED
      BY <1>1, <2>1, <2>2, <2>6, <2>10, <2>11, <2>12 DEF IInv, Sane
  <1> QED
    BY <1>2, <1>3
-----------------------------------------------------------------------------
(* The theorems.                                                           *)

\* Nothing is mapped, laid out or queued at the start.
LEMMA InitSane == Init => IInv
  <1> SUFFICES ASSUME Init PROVE IInv
    OBVIOUS
  <1>1. Sane
    BY OutputAssumption, SheetAssumption DEF Init, Sane
  <1>2. AllHome(view, layouts, outputs)
    <2>1. \A v \in Views : view[v] = Unmanaged
      BY DEF Init
    <2>2. Local(Unmanaged) /\ Unmanaged \in ViewState
      BY UnmanagedLocal DEF Local
    <2>3. Home(Unmanaged, layouts, outputs)
      BY NoPlace DEF Home, Unmanaged
    <2>4. view \in [Views -> ViewState]
      BY <2>2 DEF Init
    <2> QED
      BY <2>1, <2>2, <2>3, <2>4 DEF AllHome
  <1>3. Awake(view, queued, armed, moving)
    BY DEF Init, Awake
  <1> QED
    BY <1>1, <1>2, <1>3 DEF IInv

\* What a step does to the views that are waiting for their client.
Waited == \A v \in Views :
    Dirty(view[v]) /\ view'[v].op \notin {view[v].op, "none", "reset"} => Answer(v)

LEMMA KeptWaited ==
    ASSUME SlotKept(view')
    PROVE  Waited
  BY DEF SlotKept, Waited

\* Every handler keeps the invariant, and takes the slot of an operation by a reset only.
LEMMA StepKeeps ==
    ASSUME IInv, Races = {}, [Next]_vars
    PROVE  IInv' /\ Waited
  <1>1. ASSUME NEW v \in Views, Client(v) PROVE IInv' /\ Waited
    <2>1. CASE Map(v)
      BY <2>1, MapKeeps, KeptWaited
    <2>2. CASE Unmap(v)
      BY <2>2, UnmapKeeps, KeptWaited
    <2>3. CASE Destroy(v)
      BY <2>3, DestroyKeeps, KeptWaited
    <2>4. CASE Answer(v)
      BY <2>4, AnswerKeeps DEF Waited
    <2>5. CASE Adopt(v)
      BY <2>5, AdoptKeeps, KeptWaited
    <2>6. CASE PanelFullscreen(v)
      BY <2>6, PanelFullscreenKeeps, KeptWaited
    <2>7. CASE \E what \in Asks : Request(v, what)
      BY <2>7, RequestKeeps, KeptWaited
    <2> QED
      BY <1>1, <2>1, <2>2, <2>3, <2>4, <2>5, <2>6, <2>7 DEF Client
  <1>2. ASSUME NEW v \in Views, User(v) PROVE IInv' /\ Waited
    <2>1. CASE Maximize(v)
      BY <2>1, MaximizeKeeps, KeptWaited
    <2>2. CASE Resize(v)
      BY <2>2, ResizeKeeps, KeptWaited
    <2>3. CASE ResetGeometry(v)
      BY <2>3, ResetGeometryKeeps, KeptWaited
    <2>4. CASE Hide(v) \/ Show(v)
      BY <2>4, HideKeeps, KeptWaited
    <2>5. CASE \E axis \in {"vertical", "horizontal"} : ToggleAxis(v, axis)
      BY <2>5, ToggleAxisKeeps, KeptWaited
    <2>6. CASE \E flag \in {"floating", "invisible"} : ToggleFlag(v, flag)
      BY <2>6, ToggleFlagKeeps, KeptWaited
    <2>7. CASE \E n \in Sheets : Pin(v, n)
      BY <2>7, PinKeeps, KeptWaited
    <2>8. CASE \E w \in Views : Exchange(v, w)
      BY <2>8, ExchangeKeeps, KeptWaited
    <2>9. CASE \E o \in Outputs : Migrate(v, o)
      BY <2>9, MigrateKeeps, KeptWaited
    <2> QED
      BY <1>2, <2>1, <2>2, <2>3, <2>4, <2>5, <2>6, <2>7, <2>8, <2>9 DEF User
  <1>3. ASSUME NEW o \in Outputs, Desk(o) PROVE IInv' /\ Waited
    <2>1. CASE ResetLayout(o)
      BY <2>1, ResetLayoutKeeps, KeptWaited
    <2>2. CASE LayOut(o)
      BY <2>2, LayOutKeeps, KeptWaited
    <2>3. CASE Unplug(o)
      BY <2>3, UnplugKeeps, KeptWaited
    <2>4. CASE Plug(o)
      BY <2>4, PlugKeeps, KeptWaited
    <2>5. CASE Reserve(o)
      BY <2>5, ReserveKeeps, KeptWaited
    <2>6. CASE \E n \in Sheets : SwitchSheet(o, n)
      BY <2>6, SwitchSheetKeeps, KeptWaited
    <2> QED
      BY <1>3, <2>1, <2>2, <2>3, <2>4, <2>5, <2>6 DEF Desk
  <1>4. CASE StartMove \/ EndMove
    BY <1>4, MoveKeeps, KeptWaited
  <1>5. CASE Drain
    BY <1>5, DrainKeeps, KeptWaited
  <1>6. CASE UNCHANGED vars
    <2>1. UNCHANGED <<view, displayed, outputs, layouts, queued, armed, moving>>
      BY <1>6 DEF vars
    <2>2. Sane' /\ AllHome(view', layouts', outputs') /\ Awake(view', queued', armed', moving')
      BY <2>1 DEF IInv, Sane
    <2> QED
      BY <2>1, <2>2 DEF IInv, Waited
  <1> QED
    BY <1>1, <1>2, <1>3, <1>4, <1>5, <1>6 DEF Next

\* The invariant, without the orders of events that break it.
THEOREM ArrangementStaysSound ==
    ASSUME Races = {}
    PROVE  Spec => []IInv
  <1>1. Init => IInv
    BY InitSane
  <1>2. IInv /\ [Next]_vars => IInv'
    BY StepKeeps
  <1> QED
    BY <1>1, <1>2, PTL DEF Spec

\* The invariant says more than the three properties of the runs.
LEMMA SoundIsEnough ==
    ASSUME IInv
    PROVE  TilesHome /\ AssertionsHold /\ NoLostReflow
  <1>1. Sane /\ AllHome(view, layouts, outputs) /\ Awake(view, queued, armed, moving)
    BY DEF IInv
  <1>2. TilesHome
    <2> SUFFICES ASSUME NEW v \in Views
                 PROVE  LET r == view[v] IN
                        /\ \A p \in {r.tile, r.pending} \cap Place :
                            /\ r.mapped /\ r.place = p /\ r.flags = {}
                            /\ p \in layouts /\ p.out \in outputs
                        /\ r.tile = Loose => r.op = "reset"
                        /\ r.pending # Nowhere <=> Tiling(r)
      BY DEF TilesHome
    <2>1. Core(view[v]) /\ Home(view[v], layouts, outputs)
      BY <1>1 DEF AllHome, Local
    <2> QED
      BY <2>1, NoPlace DEF Core, Home
  <1>3. AssertionsHold
    <2>1. TypeOK
      BY <1>1 DEF TypeOK, Sane, AllHome
    <2>2. GeometryIsLive /\ \A v \in Views : ~view[v].fault
      BY <1>1 DEF AllHome, Local, Live, GeometryIsLive
    <2> QED
      BY <2>1, <2>2 DEF AssertionsHold
  <1>4. NoLostReflow
    BY <1>1 DEF NoLostReflow, Awake, Heard
  <1> QED
    BY <1>2, <1>3, <1>4

\* Each tile is in the layout of the sheet its window is on, there is that layout, on a monitor
\* that is there, and the tile of an operation in flight is committed or cancelled once.
THEOREM TilesStayHome ==
    ASSUME Races = {}
    PROVE  Spec => []TilesHome
  BY ArrangementStaysSound, SoundIsEnough, PTL

\* No assert() fails of the queue and commit functions of view.c, nor of those that raise what a
\* layout takes in (hikari_view_raise(), hikari_workspace_apply_split()), and current_geometry
\* never points into a tile or a maximized state that was freed.  Left out are the orders of events
\* that Races names, "raise" and "below" of the latter asserts.
THEOREM NoAssertionFails ==
    ASSUME Races = {}
    PROVE  Spec => []AssertionsHold
  BY ArrangementStaysSound, SoundIsEnough, PTL

\* reflow.c forgets no sheet.
THEOREM NoReflowIsLost ==
    ASSUME Races = {}
    PROVE  Spec => []NoLostReflow
  BY ArrangementStaysSound, SoundIsEnough, PTL

\* What the client has not answered gives way to a reset only: the slot of the pending operation
\* is not overwritten.
THEOREM SlotStaysKept ==
    ASSUME Races = {}
    PROVE  Spec => SlotIsKept
  <1>1. IInv /\ [Next]_vars => [\A v \in Views :
            Dirty(view[v]) /\ view'[v].op \notin {view[v].op, "none", "reset"} => Answer(v)]_vars
    BY StepKeeps DEF Waited
  <1> QED
    BY <1>1, ArrangementStaysSound, PTL DEF Spec, SlotIsKept

\* The answer of a client, when its own request for fullscreen waits for it.
LEMMA AnswerCarries ==
    ASSUME IInv, "fullscreen" \in Asks, NEW v \in Views, Answer(v),
           view[v].parked["fullscreen"] # "no", ~view'[v].hidden
    PROVE  \/ Word(view'[v].fullscreen) = view[v].parked["fullscreen"]
           \/ view'[v].op = "fullscreen"
  <1> DEFINE r == view[v]
             c == Commit(r)
             s == DrainPending(c)
             word == r.parked["fullscreen"]
  <1>1. Local(r) /\ r.mapped /\ Dirty(r) /\ Changes(v, s)
    BY ViewSound DEF Answer
  <1>2. view'[v] = s
    BY <1>1 DEF Changes, Becomes, IInv, AllHome
  <1>3. Done(r, c)
    BY <1>1, Committed
  <1> HIDE DEF c
  <1>4. Local(c) /\ ~Dirty(c) /\ c.parked = r.parked /\ c.mapped
    BY <1>1, <1>3 DEF Done, Step, Stays
  <1>5. s.hidden = c.hidden
    BY <1>4, Drained
  <1>6. c.mapped /\ ~c.hidden /\ c.parked["fullscreen"] # "no"
    BY <1>2, <1>4, <1>5
  <1>7. Carried(s, word = "on")
    BY <1>4, <1>6, Drained
  <1>8. word \in {"on", "off"} /\ s.fullscreen \in BOOLEAN
    <2>1. r.parked \in [Asks -> {"no", "on", "off"}]
      BY <1>1 DEF Local, ViewState
    <2>2. Local(s)
      BY <1>4, Drained DEF Quiet, Step
    <2> QED
      BY <2>1, <2>2 DEF Local, ViewState
  <1> HIDE DEF s, word
  <1>9. Word(s.fullscreen) = word \/ s.op = "fullscreen"
    BY <1>7, <1>8 DEF Carried, Word
  <1> QED
    BY <1>2, <1>9 DEF word

\* A request for fullscreen that had to wait is carried out with the answer, or asked of the client
\* next, before a maximize request that waits beside it.
THEOREM ParkedStaysApplied ==
    ASSUME Races = {}, "fullscreen" \in Asks
    PROVE  Spec => ParkedIsApplied
  <1>1. IInv /\ [Next]_vars => [\A v \in Views :
            Answer(v) /\ view[v].parked["fullscreen"] # "no" /\ ~view'[v].hidden
                => \/ Word(view'[v].fullscreen) = view[v].parked["fullscreen"]
                   \/ view'[v].op = "fullscreen"]_vars
    BY AnswerCarries
  <1> QED
    BY <1>1, ArrangementStaysSound, PTL DEF Spec, ParkedIsApplied
=============================================================================
