------------------------------ MODULE MCPanels ------------------------------
(* Instances of Panels for TLC: monitors are alike, panels and popups.       *)
EXTENDS Panels, TLC

Symmetry == Permutations(Monitors) \cup Permutations(Panels) \cup Permutations(Popups)

MCZones == {-1, 1}

\* Popups meet the rest of the model where their panel goes: while one is open nobody has the
\* keyboard and no reflow is due.
Apart ==
    (\E q \in Popups : popup[q] # NoPopup) =>
        /\ seat.keyboard = Nothing /\ \A o \in Monitors : ~monitor[o].pending
=============================================================================
