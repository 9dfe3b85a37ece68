SPECIFICATION Spec
CONSTANTS
    Views = {v1}
    Outputs = {o1}
    Sheets = {0, 1}
    Asks = {"fullscreen", "maximized"}
    Keys = {"vertical", "horizontal", "resize"}
    OnClose = TRUE
    Races = {}
INVARIANT AssertionsHold
PROPERTY SlotIsKept
PROPERTY ParkedIsApplied
