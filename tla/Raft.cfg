CONSTANTS
    n1 = n1
    n2 = n2
    n3 = n3
    Nodes = {n1, n2, n3}
    None = None
    MaxElections = 3
    MaxBoots = 4
SYMMETRY Symmetry
SPECIFICATION Spec
INVARIANTS
    NoneElected
    OneGrantee
    NoGrantAfterStanding
CHECK_DEADLOCK FALSE
