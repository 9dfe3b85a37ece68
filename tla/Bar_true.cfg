SPECIFICATION Spec
CONSTANTS
    Outputs = {o1, o2}
    Views = {v1}
    Texts = {1, 2}
    Caps = {0, 1}
    Separators = {1}
    Colours = {1}
    Spots = {0}
    Widths = {1}
    MaxPipe = 3
    MaxLine = 3
    None = None
    Races = {}
SYMMETRY Symmetry
INVARIANT BarIsTrue
CONSTRAINT Apart
