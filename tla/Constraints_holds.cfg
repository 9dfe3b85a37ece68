SPECIFICATION Spec
CONSTANTS
    v1 = v1
    v2 = v2
    p1 = p1
    Tops = {v1, v2}
    Popups = {p1}
    None = None
    Races = {}
    Parent <- PopupOfFirst
    Kinds <- AllKinds
INVARIANT ClientAndCompositorAgree
INVARIANT HoldIsOnScreen
