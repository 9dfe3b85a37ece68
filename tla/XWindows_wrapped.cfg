SPECIFICATION FairSpec
CONSTANTS
    Outputs = {o1, o2}
    Windows = {w1}
    Surfaces = {s1}
    Fallback = fallback
    Places = {0, 2}
    Width = 2
    Duration = 2
    None = None
    Races = {}
INVARIANT WrappersAreSound
INVARIANT PlacesAgree
PROPERTY NeverJumps
PROPERTY Lands
