------------------------------ MODULE Layouts -------------------------------
(***************************************************************************)
(* What a layout makes of a sheet (src/src/{split,sheet,geometry}.c), and  *)
(* what the user does to its windows in between: the boxes the splits and  *)
(* the six tiling algorithms hand out, the order the windows are tiled in, *)
(* and the moves, snaps and resizes that go through the same arithmetic.   *)
(*                                                                         *)
(* One sheet, and clients that answer a configure at once (Operations has  *)
(* the asynchronous half).  Scales are tenths.  Every window is shown:     *)
(* hikari_sheet_apply_split() first shows the hidden ones it tiles.        *)
(***************************************************************************)
EXTENDS Integers, Sequences, FiniteSets, SequencesExt, TLC

CONSTANTS
    Views,
    Areas,      \* usable areas a monitor may have
    Cramped,    \* those too small for the layouts, where clamps overlap boxes
    Tiny,       \* those too small for a split, whose share of them is no pixel
    Layouts,    \* the configured layouts: names to splits
    Sizes,      \* sizes of a new window
    Steps,      \* width and height changes of a resize
    Shoves,     \* horizontal and vertical parts of a move
    Spots,      \* the named places a window is moved to, of the nine there are
    Gap, Border,
    Races       \* uses of a layout known to break a property and let in

ASSUME GapAssumption == Gap \in Nat /\ Border \in Nat /\ Border < 2 * Gap
ASSUME AreaAssumption == Cramped \subseteq Areas /\ Tiny \subseteq Cramped
ASSUME SpotAssumption == Spots \subseteq {"left", "middle", "right"} \X {"top", "center", "bottom"}
ASSUME RaceAssumption ==
    Races \subseteq {"overfull",  \* a grid that may hold fewer views than there are
                     "limited",   \* a layout that holds fewer views than have a tile
                     "turned",    \* a dynamic scale whose dominant side is the second
                     "narrow"}    \* a layout that splits a tiny area

VARIABLES
    area,    \* usable_area of the output, which Panels has change
    order,   \* sheet->views, the top of the stack first
    box,     \* hikari_view_geometry() of a view
    layout,  \* sheet->layout->split by name, or None
    tiles,   \* sheet->layout->tiles: each a view and its tile_geometry
    last,    \* a layout was just applied, or re-tiled: for the properties
    fault    \* an assert() of split.c has failed

vars == <<area, order, box, layout, tiles, last, fault>>

None == "none"
NoBox == [x |-> 0, y |-> 0, w |-> 1, h |-> 1]
Onsheet == ToSet(order)
Tiled == {tiles[i].view : i \in DOMAIN tiles}
Least(n) == IF n < 1 THEN 1 ELSE n
Between(lo, hi, n) == IF n > hi THEN hi ELSE IF n < lo THEN lo ELSE n

\* The int of a double product: towards zero.
Tenths(n, s) == IF n * s >= 0 THEN (n * s) \div 10 ELSE -((-n * s) \div 10)
-----------------------------------------------------------------------------
(* Splits                                                                  *)

\* hikari_split_*_init(): the scale of a split whose second half is filled
\* first is turned round, when the configuration is read ...
Flip(t) == [t EXCEPT !.min = 10 - @, !.max = 10 - @]
RECURSIVE Inited(_)
Inited(t) ==
    IF t.kind = "container" THEN t
    ELSE LET u == [t EXCEPT !.first = Inited(@), !.second = Inited(@)]
         IN IF t.dominant = "second" THEN Flip(u) ELSE u

\* ... and again by hikari_split_copy(), which every layout is made with.
Installed == [name \in DOMAIN Layouts |-> Inited(Inited(Layouts[name]))]

\* Mutant: a gap is kept on either side of the cut.
ShareBetweenGaps(t, len, first) ==
    IF t.kind = "fixed" THEN Tenths(len - 2 * Gap, t.min)
    ELSE LET lo == Tenths(len - 2 * Gap, t.min)
             hi == Tenths(len - 2 * Gap, t.max)
         IN IF first < lo THEN lo ELSE IF first > hi THEN hi ELSE first

\* split_scale_{width,height}(): of a fixed scale min = max.  The share is asserted not to be 0,
\* see Lay; a negative one is left to the clamps.
Share(t, len, first) ==
    IF t.kind = "fixed" THEN Tenths(len - Gap, t.min)
    ELSE LET lo == Tenths(len - Gap, t.min)
             hi == Tenths(len - Gap, t.max)
         IN IF first < lo THEN lo ELSE IF first > hi THEN hi ELSE first

Shrink(b, g) == [x |-> b.x + g, y |-> b.y + g, w |-> Least(b.w - 2 * g), h |-> Least(b.h - 2 * g)]

\* Mutant: the second half starts where the first ends.
CutClose(b, axis, size, gap) ==
    IF axis = "x"
    THEN <<[b EXCEPT !.w = size], [b EXCEPT !.x = @ + size, !.w = @ - gap - size]>>
    ELSE <<[b EXCEPT !.h = size], [b EXCEPT !.y = @ + size, !.h = @ - gap - size]>>

\* hikari_geometry_split_{vertical,horizontal}(): of the two only the vertical
\* one cuts the width.
Cut(b, axis, size, gap) ==
    IF axis = "x"
    THEN <<[b EXCEPT !.w = size], [b EXCEPT !.x = @ + size + gap, !.w = @ - gap - size]>>
    ELSE <<[b EXCEPT !.h = size], [b EXCEPT !.y = @ + size + gap, !.h = @ - gap - size]>>

\* Mutant: a border is paid for every cell, the last included.
SpansPerCell(at, len, n) ==
    LET room == LET left == len - (n - 1) * Gap - n * 2 * Border
                IN IF left < n THEN n ELSE left
        each == room \div n
        rest == room - each * n
    IN [i \in 1 .. n |->
           IF i = 1 THEN [at |-> at, len |-> each + rest]
           ELSE [at |-> at + rest + (i - 1) * (each + 2 * Border + Gap), len |-> each]]

\* The n spans a length is divided into; the first has the remainder.
Spans(at, len, n) ==
    LET room == LET left == len - (n - 1) * (2 * Border + Gap)
                IN IF left < n THEN n ELSE left
        each == room \div n
        rest == room - each * n
    IN [i \in 1 .. n |->
           IF i = 1 THEN [at |-> at, len |-> each + rest]
           ELSE [at |-> at + rest + (i - 1) * (each + 2 * Border + Gap), len |-> each]]
Queue(b, n) == LET s == Spans(b.x, b.w, n) IN [i \in 1 .. n |-> [b EXCEPT !.x = s[i].at, !.w = s[i].len]]
Stack(b, n) == LET s == Spans(b.y, b.h, n) IN [i \in 1 .. n |-> [b EXCEPT !.y = s[i].at, !.h = s[i].len]]

Columns(n) == CHOOSE c \in 1 .. n : c * c >= n /\ (c - 1) * (c - 1) < n
Rows(n) == IF (Columns(n) - 1) * Columns(n) >= n THEN Columns(n) - 1 ELSE Columns(n)
Cells(n) == Columns(n) * Rows(n)
Grid(b, n) ==
    LET across == Spans(b.x, b.w, Columns(n))
        down   == Spans(b.y, b.h, Rows(n))
    IN [i \in 1 .. Cells(n) |->
           LET c == across[((i - 1) % Columns(n)) + 1]
               r == down[((i - 1) \div Columns(n)) + 1]
           IN [x |-> c.at, y |-> r.at, w |-> c.len, h |-> r.len]]

\* SubSeq only has TLC evaluate the sequence once.
Fitted(vs, bs) == SubSeq([k \in DOMAIN vs |-> [view |-> vs[k], box |-> bs[k]]], 1, Len(vs))

\* A container takes views from the i-th on; next is the first it leaves.  A
\* grid fills its last row though there is a limit, and passes over the view
\* after it.
Fill(t, b, i, o) ==
    LET left == Len(o) + 1 - i
        n == IF left > t.max THEN t.max ELSE left
        Take(boxes, next) ==
            [tiled |-> Fitted(SubSeq(o, i, i + Len(boxes) - 1), boxes), next |-> next,
             starved |-> FALSE]
    IN CASE t.layout = "empty"  -> Take(<<>>, i)
         [] t.layout = "single" -> Take(<<b>>, i + 1)
         [] t.layout = "full"   -> Take([k \in 1 .. n |-> b], i + n)
         [] t.layout = "queue"  -> Take(Queue(b, n), i + n)
         [] t.layout = "stack"  -> Take(Stack(b, n), i + n)
         [] t.layout = "grid"   -> IF left <= Cells(n) THEN Take(SubSeq(Grid(b, n), 1, left), i + left)
                                   ELSE Take(Grid(b, n), i + Cells(n) + IF n = 1 THEN 0 ELSE 1)

\* apply_split(); starved: a split that was reached has a share of 0, which split_scale_*() asserts
\* it has not.
RECURSIVE Lay(_, _, _, _, _)
Lay(t, b, i, o, now) ==
    IF i > Len(o) THEN [tiled |-> <<>>, next |-> i, starved |-> FALSE]
    ELSE IF t.kind = "container" THEN Fill(t, b, i, o)
    ELSE LET first == now[o[i]]
             size  == IF t.axis = "x" THEN Share(t, b.w, first.w) ELSE Share(t, b.h, first.h)
             part  == Cut(b, t.axis, size, Gap + 2 * Border)
             one   == IF t.dominant = "first" THEN Lay(t.first, part[1], i, o, now)
                                              ELSE Lay(t.second, part[2], i, o, now)
             two   == IF t.dominant = "first" THEN Lay(t.second, part[2], one.next, o, now)
                                              ELSE Lay(t.first, part[1], one.next, o, now)
         IN [tiled |-> one.tiled \o two.tiled, next |-> two.next,
             starved |-> size = 0 \/ one.starved \/ two.starved]

\* hikari_split_apply(), every box through the clamp of hikari_view_tile().
Clamped(b) == [b EXCEPT !.w = Least(@), !.h = Least(@)]
Laid(name, a, o, now) ==
    LET lay == Lay(Installed[name], Shrink(a, Gap + Border), 1, o, now)
        all == lay.tiled
    IN [lay EXCEPT !.tiled = Fitted([i \in DOMAIN all |-> all[i].view],
                                    [i \in DOMAIN all |-> Clamped(all[i].box)])]

\* Every view tiled gets a new tile at the end of the list and loses its old one.
NewTiles(laid) == SelectSeq(tiles, LAMBDA t : \A i \in DOMAIN laid : laid[i].view # t.view) \o laid
NewBoxes(laid) ==
    [v \in Views |-> IF \E i \in DOMAIN laid : laid[i].view = v
                     THEN laid[CHOOSE i \in DOMAIN laid : laid[i].view = v].box ELSE box[v]]
-----------------------------------------------------------------------------
(* The limits of a layout, which the excluded uses go past                 *)

RECURSIVE Containers(_)
Containers(t) == IF t.kind = "container" THEN {t} ELSE Containers(t.first) \cup Containers(t.second)

Overfull(name) == \E t \in Containers(Layouts[name]) : t.layout = "grid" /\ t.max < Len(order)
Misses(laid) == \E v \in Tiled : \A i \in DOMAIN laid : laid[i].view # v
Turned(t) == t.kind = "dynamic" /\ t.dominant = "second"
Narrow(t) == t.kind # "container" /\ area \in Tiny /\ order # <<>>
Allowed(name, laid) ==
    /\ Overfull(name) => "overfull" \in Races
    /\ Misses(laid) => "limited" \in Races
    /\ Turned(Layouts[name]) => "turned" \in Races
    /\ Narrow(Layouts[name]) => "narrow" \in Races
-----------------------------------------------------------------------------
(* The sheet                                                               *)

Raised(o, v) == <<v>> \o Remove(o, v)

\* Mutant: the far edges forget the part that must stay in view.
ConstrainedLoosely(b, x, y) ==
    LET keep == 2 * Gap - Border
    IN [b EXCEPT !.x = Between(area.x - b.w + keep, area.x + area.w, x),
                 !.y = Between(area.y - b.h + keep, area.y + area.h, y)]

\* The box of a window as hikari_geometry_constrain_relative() leaves it.
Constrained(b, x, y) ==
    LET keep == 2 * Gap - Border
    IN [b EXCEPT !.x = Between(area.x - b.w + keep, area.x + area.w - keep, x),
                 !.y = Between(area.y - b.h + keep, area.y + area.h - keep, y)]

\* hikari_geometry_position_*() of the box with its border.
Place(b, h, v) ==
    LET w == b.w + 2 * Border
        t == b.h + 2 * Border
    IN [x |-> CASE h = "left"   -> area.x
                [] h = "middle" -> area.x + area.w \div 2 - w \div 2
                [] h = "right"  -> area.x + area.w - w + Border,
        y |-> CASE v = "top"    -> area.y
                [] v = "center" -> area.y + area.h \div 2 - t \div 2
                [] v = "bottom" -> area.y + area.h - t + Border]

\* A view is mapped on top of the sheet, at the place its configuration names.
Open(v, s) ==
    /\ v \notin Onsheet
    /\ order' = <<v>> \o order
    /\ LET b == [x |-> 0, y |-> 0, w |-> s.w, h |-> s.h]
           p == Place(b, "middle", "center")
       IN box' = [box EXCEPT ![v] = Constrained(b, p.x, p.y)]
    /\ UNCHANGED <<area, layout, tiles, fault>> /\ last' = "none"

\* hikari_tile_detach() frees the layout with its last tile.
Close(v) ==
    /\ v \in Onsheet
    /\ order' = Remove(order, v)
    /\ tiles' = SelectSeq(tiles, LAMBDA t : t.view # v)
    /\ layout' = IF v \in Tiled /\ tiles' = <<>> THEN None ELSE layout
    /\ box' = [box EXCEPT ![v] = NoBox]
    /\ UNCHANGED <<area, fault>> /\ last' = "none"

\* hikari_sheet_apply_split(); without a view to tile the layout is set all the same.
Applies(name, o) ==
    LET laid == Laid(name, area, o, box)
    IN /\ UNCHANGED area
       /\ order' = o
       /\ layout' = name
       /\ Allowed(name, laid.tiled)
       /\ tiles' = NewTiles(laid.tiled)
       /\ box' = NewBoxes(laid.tiled)
       /\ fault' = (fault \/ laid.starved)

\* hikari_workspace_apply_split(): the focused view becomes the first.
ApplySplit(name) ==
    /\ \/ Applies(name, order)
       \/ \E v \in Onsheet : Applies(name, Raised(order, v))
    /\ last' = "applied"

\* Mutant: the tiles are raised from the first to the last.
TiledLast == [i \in DOMAIN tiles |-> tiles[Len(tiles) + 1 - i].view]

\* hikari_layout_restack_*(): the tiled views are raised from the last to the
\* first, and with the policy "prepend" the others above them.
TiledFirst == [i \in DOMAIN tiles |-> tiles[i].view]
Newcomers == SelectSeq(order, LAMBDA v : v \notin Tiled)
Restacked(policy) == IF policy = "append" THEN TiledFirst \o Newcomers ELSE Newcomers \o TiledFirst
Restack(policy) ==
    /\ layout # None
    /\ Applies(layout, Restacked(policy))
    /\ last' = "restacked"

Raise(v) == /\ v \in Onsheet /\ order' = Raised(order, v)
            /\ UNCHANGED <<area, box, layout, tiles, fault>> /\ last' = "none"
Lower(v) == /\ v \in Onsheet /\ order' = Append(Remove(order, v), v)
            /\ UNCHANGED <<area, box, layout, tiles, fault>> /\ last' = "none"

\* Mutant: the views take each other's geometry and keep their places in the list.
ExchangedInPlace(i, j) ==
    [k \in DOMAIN tiles |->
        IF k = i THEN [view |-> tiles[i].view, box |-> tiles[j].box]
        ELSE IF k = j THEN [view |-> tiles[j].view, box |-> tiles[i].box] ELSE tiles[k]]

\* hikari_view_exchange(): the two tiles change places in the list, and the
\* views take each other's tile_geometry.
Exchanged(i, j) ==
    [k \in DOMAIN tiles |->
        IF k = i THEN [view |-> tiles[j].view, box |-> tiles[i].box]
        ELSE IF k = j THEN [view |-> tiles[i].view, box |-> tiles[j].box] ELSE tiles[k]]
Exchange(i, j) ==
    /\ i < j
    /\ tiles' = Exchanged(i, j)
    /\ box' = NewBoxes(<<tiles'[i], tiles'[j]>>)
    /\ last' = IF last = "none" THEN "none" ELSE "applied"
    /\ UNCHANGED <<area, order, layout, fault>>

MoveTo(v, x, y) == /\ box' = [box EXCEPT ![v] = Constrained(@, x, y)]
                   /\ UNCHANGED <<area, order, layout, tiles, fault>> /\ last' = "none"
Move(v, dx, dy) == v \in Onsheet /\ MoveTo(v, box[v].x + dx, box[v].y + dy)
MoveNamed(v, h, e) == v \in Onsheet /\ LET p == Place(box[v], h, e) IN MoveTo(v, p.x, p.y)

\* hikari_view_resize(): the client accepts no size below one.
Resize(v, dw, dh) ==
    /\ v \in Onsheet
    /\ LET b == [box[v] EXCEPT !.w = Least(@ + dw), !.h = Least(@ + dh)]
       IN box' = [box EXCEPT ![v] = Constrained(b, b.x, b.y)]
    /\ UNCHANGED <<area, order, layout, tiles, fault>> /\ last' = "none"

Abreast(at1, len1, at2, len2) ==
    (at1 + len1 >= at2 /\ at2 >= at1) \/ (at2 + len2 >= at1 /\ at1 >= at2)

\* hikari_workspace_snap_view_*(): beside the first view in stacking order
\* that lies that way, or at the edge of the usable area.
Beside(b, dir) ==
    {u \in Onsheet :
        CASE dir = "up"    -> box[u].y + box[u].h + Border < b.y - Border - Gap
                              /\ Abreast(b.x, b.w, box[u].x, box[u].w)
          [] dir = "down"  -> box[u].y > b.y + b.h + Border + Gap
                              /\ Abreast(b.x, b.w, box[u].x, box[u].w)
          [] dir = "left"  -> box[u].x + box[u].w + Border < b.x - Gap - Border
                              /\ Abreast(b.y, b.h, box[u].y, box[u].h)
          [] dir = "right" -> box[u].x > b.x + b.w + Gap + Border
                              /\ Abreast(b.y, b.h, box[u].y, box[u].h)}
SnapTo(b, dir, found, c) ==
    CASE dir = "up"    -> [x |-> b.x, y |-> IF found THEN c.y + Gap + c.h + Border ELSE Border + area.y]
      [] dir = "down"  -> [x |-> b.x, y |-> IF found THEN c.y - Gap - Border - b.h
                                            ELSE area.y + area.h - b.h - Border]
      [] dir = "left"  -> [y |-> b.y, x |-> IF found THEN c.x + c.w + Gap + Border ELSE Border + area.x]
      [] dir = "right" -> [y |-> b.y, x |-> IF found THEN c.x - Gap - b.w - Border
                                            ELSE area.x + area.w - b.w - Border]
Snap(v, dir) ==
    /\ v \in Onsheet
    /\ LET near == SelectSeq(order, LAMBDA u : u # v /\ u \in Beside(box[v], dir))
           p == SnapTo(box[v], dir, near # <<>>, IF near = <<>> THEN box[v] ELSE box[near[1]])
       IN MoveTo(v, p.x, p.y)

-----------------------------------------------------------------------------
Init ==
    /\ area \in Areas
    /\ order = <<>>
    /\ box = [v \in Views |-> NoBox]
    /\ layout = None
    /\ tiles = <<>>
    /\ last = "none"
    /\ fault = FALSE

ByHand ==
    \/ \E v \in Views, d \in Steps : Resize(v, d[1], d[2])
    \/ \E v \in Views, p \in Spots : MoveNamed(v, p[1], p[2])
    \/ \E v \in Views, d \in Shoves : Move(v, d[1], d[2])
    \/ \E v \in Views, dir \in {"up", "down", "left", "right"} : Snap(v, dir)

Next ==
    \/ \E v \in Views, s \in Sizes : Open(v, s)
    \/ \E v \in Views : Close(v)
    \/ \E name \in DOMAIN Layouts : ApplySplit(name)
    \/ \E policy \in {"append", "prepend"} : Restack(policy)
    \/ \E v \in Views : Raise(v) \/ Lower(v)
    \/ \E i, j \in DOMAIN tiles : Exchange(i, j)
    \/ ByHand

Spec == Init /\ [][Next]_vars
-----------------------------------------------------------------------------
(* Properties                                                              *)

Boxes == [x : Int, y : Int, w : Nat \ {0}, h : Nat \ {0}]
TypeOK ==
    /\ area \in Areas
    /\ order \in Seq(Views) /\ Len(order) = Cardinality(Onsheet)
    /\ \A v \in Views : box[v] \in Boxes
    /\ layout \in DOMAIN Layouts \cup {None}
    /\ last \in {"none", "applied", "restacked"}
    /\ fault \in BOOLEAN
    /\ Tiled \subseteq Onsheet /\ Len(tiles) = Cardinality(Tiled)

Apart(b, c) ==
    LET d == 2 * Border + Gap
    IN \/ b.x + b.w + d <= c.x \/ c.x + c.w + d <= b.x
       \/ b.y + b.h + d <= c.y \/ c.y + c.h + d <= b.y
Inside(b, f) == b.x >= f.x /\ b.y >= f.y /\ b.x + b.w <= f.x + f.w /\ b.y + b.h <= f.y + f.h

\* A dynamic scale reads the width of one view: it repeats itself where that
\* view is as wide as the half it was put in.
Spanned(t, axis) ==
    t.kind = "container" /\ t.layout \in {"single", "full", IF axis = "x" THEN "stack" ELSE "queue"}
RECURSIVE Steady(_)
Steady(t) ==
    \/ t.kind = "container"
    \/ /\ t.kind = "dynamic" => Spanned(t.first, t.axis)
       /\ Steady(t.first) /\ Steady(t.second)

\* What a layout just applied has made of the sheet, exchanges included: every
\* view is tiled and in the frame, a border and a gap from every other, a single
\* container is filled to its last row and column, and to apply the layout
\* again, as every re-tile does, moves nothing.
Tidy ==
    LET frame == Shrink(area, Gap + Border)
        root  == Layouts[layout]
        again == Laid(layout, area, TiledFirst, box).tiled
        piles == \E t \in Containers(root) : t.layout = "full"
    IN /\ area \notin Cramped =>
            /\ (\E t \in Containers(root) : t.max >= Cardinality(Views)) => Tiled = Onsheet
            /\ \A v \in Tiled : Inside(box[v], frame)
            /\ \A u, v \in Tiled : u = v \/ Apart(box[u], box[v]) \/ (piles /\ box[u] = box[v])
            /\ root.kind = "container" /\ tiles # <<>> =>
                  /\ \E v \in Tiled : box[v].x + box[v].w = frame.x + frame.w
                  /\ \E v \in Tiled : box[v].y + box[v].h = frame.y + frame.h
       /\ Steady(root) => \A i \in DOMAIN again : box[again[i].view] = again[i].box

Rank(v) == CHOOSE i \in DOMAIN tiles : tiles[i].view = v

\* A re-tile keeps the views that have a tile in their order, whatever was
\* raised, lowered or opened since, and puts all the others behind or before.
KeepsOrder ==
    /\ \A u, v \in Tiled : Rank(u) < Rank(v) => Rank(u)' < Rank(v)'
    /\ \/ \A u \in Tiled, v \in Tiled' \ Tiled : Rank(u)' < Rank(v)'
       \/ \A u \in Tiled, v \in Tiled' \ Tiled : Rank(v)' < Rank(u)'

\* Some part of the window can be reached, the width of two gaps at least.
InReach(b) ==
    LET keep == 2 * Gap - Border
    IN /\ b.x + keep <= area.x + area.w /\ b.x + b.w >= area.x + keep
       /\ b.y + keep <= area.y + area.h /\ b.y + b.h >= area.y + keep

\* Layouts are sound (split.c, sheet.c, geometry.c, view.c): no box is empty; a
\* layout is tidy whenever it has been applied, in whatever order windows were
\* opened, closed, raised, exchanged and resized before; no split of a layout is left without a
\* pixel to give (split.c:52), cramped as the area may be; a re-tile keeps
\* everyone's place; and no move, snap or resize takes a window out of reach.
LayoutsAreSound ==
    /\ []TypeOK
    /\ []~fault
    /\ [](last # "none" => Tidy)
    /\ [][last' = "restacked" => KeepsOrder]_vars
    /\ [][\A v \in Onsheet' :
             area \notin Cramped /\ box'[v] # box[v] => InReach(box'[v])]_vars
=============================================================================
