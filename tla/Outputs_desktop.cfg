SPECIFICATION OutputsSpec
CONSTANTS
    Outputs = {o1, o2}
    Noop = noop
    MaxX = 1
    OutputFaults = {"commit", "scene", "apply", "publish"}
    Races = {}
SYMMETRY Symmetry
VIEW View
INVARIANT PublishedIsCurrent
INVARIANT DesktopConsistent
INVARIANT DarkStaysDark
PROPERTY WholeOrNothing
