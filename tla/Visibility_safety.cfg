SPECIFICATION Spec
CONSTANTS
    Views = {v1, v2}
    Outputs = {o1, o2}
    Noop = Noop
    None = None
    Sheets = {0, 1}
    Races = {}
SYMMETRY Symmetry
INVARIANT Linkage
INVARIANT DesktopRestored
INVARIANT LockScreenIsPublic
INVARIANT FocusIsLive
INVARIANT AssertionsHold
PROPERTY UnlockRestores
