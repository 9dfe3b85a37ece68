SPECIFICATION Spec
CONSTANTS
    Contacts = {f1, f2, f3, f4}
    Devices = {d1, d2}
    Touching = {ct}
    Others = {cp}
    None = None
    MaxPoints = 3
    MinFingers = 2
    MaxUpdates = 1
    Races = {}
SYMMETRY Symmetry
INVARIANT ClientsHearTheEnd
INVARIANT PressesArePaired
INVARIANT ScreenIsNotDeaf
INVARIANT PadReplaysWhatWasMade
