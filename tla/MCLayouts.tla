----------------------------- MODULE MCLayouts ------------------------------
(***************************************************************************)
(* An instance of Layouts: a roomy monitor, a cramped one, where the       *)
(* clamps make boxes overlap and a split has a pixel to give, and a tiny   *)
(* one, narrower than its gaps, where it has none.                         *)
(***************************************************************************)
EXTENDS Layouts

Box(l, n) == [kind |-> "container", layout |-> l, max |-> n]
Split(k, a, d, lo, hi, f, s) ==
    [kind |-> k, axis |-> a, dominant |-> d, min |-> lo, max |-> hi, first |-> f, second |-> s]

MCAreas == {[x |-> 0, y |-> 2, w |-> 60, h |-> 41], [x |-> 0, y |-> 2, w |-> 14, h |-> 16],
            [x |-> 0, y |-> 2, w |-> 9, h |-> 7]}
MCCramped == {a \in MCAreas : a.w < 20}
MCTiny == {a \in MCAreas : a.w < 10}
MCSizes == {[w |-> 12, h |-> 9]}
MCSteps == {<<-30, 0>>}
MCShoves == {<<70, 50>>, <<-70, 0>>}
MCSpots == {<<"right", "bottom">>}
MCLayouts ==
    [grid   |-> Box("grid", 256),
     main   |-> Split("fixed", "x", "second", 4, 4, Box("stack", 256), Box("single", 1)),
     wide   |-> Split("dynamic", "x", "first", 3, 7, Box("single", 1),
                      Split("fixed", "y", "first", 2, 2, Box("empty", 0), Box("full", 256)))]

\* At most one window is neither on its tile nor where it was opened, in the
\* middle of the area; none in a cramped area, nor beside a newcomer.
Fresh(b) == \E s \in MCSizes :
    b = [x |-> area.x + area.w \div 2 - (s.w + 2) \div 2,
         y |-> area.y + area.h \div 2 - (s.h + 2) \div 2, w |-> s.w, h |-> s.h]
Moved == {v \in Onsheet : ~Fresh(box[v]) /\ \A i \in DOMAIN tiles : tiles[i] # [view |-> v, box |-> box[v]]}
OneByHand ==
    \/ Moved = {}
    \/ Cardinality(Moved) = 1 /\ area \notin MCCramped /\ Onsheet \ Tiled \subseteq Moved

Symmetry == Permutations(Views)
=============================================================================
