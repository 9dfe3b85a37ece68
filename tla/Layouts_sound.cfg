SPECIFICATION Spec
CONSTANTS
    Views = {v1, v2, v3}
    Areas <- MCAreas
    Cramped <- MCCramped
    Tiny <- MCTiny
    Layouts <- MCLayouts
    Sizes <- MCSizes
    Steps <- MCSteps
    Shoves <- MCShoves
    Spots <- MCSpots
    Gap = 3
    Border = 1
    Races = {}
SYMMETRY Symmetry
CONSTRAINT OneByHand
PROPERTY LayoutsAreSound
