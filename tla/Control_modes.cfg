SPECIFICATION Spec
CONSTANTS
    Views = {v1, v2}
    Outputs = {o1, o2}
    Names = {n1, n2}
    Marks = {m1, m2}
    Clients = {c1}
    MaxClients = 1
    None = None
    Freed = Freed
    Races = {}
SYMMETRY Symmetry
INVARIANT ModesAreSound
INVARIANT NamesAgree
