SPECIFICATION Spec
CONSTANTS
    Views = {v1, v2}
    Outputs = {o1, o2}
    Sheets = {1}
    Asks = {}
    Keys = {"invisible", "full"}
    OnClose = TRUE
    Races = {}
SYMMETRY Symmetry
INVARIANT TilesHome
INVARIANT AssertionsHold
INVARIANT NoLostReflow
