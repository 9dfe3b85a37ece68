SPECIFICATION PanelsSpec
CONSTANTS
    Monitors = {o1, o2}
    Panels = {p1, p2}
    Popups = {q1, q2}
    Interactive = {p1, p2}
    Layers = 2
    Zones <- MCZones
    Heights = {3}
    BarHeight = 1
    Nothing = Nothing
    PanelRaces = {}
SYMMETRY Symmetry
INVARIANT PanelsAreSound
CONSTRAINT Apart
