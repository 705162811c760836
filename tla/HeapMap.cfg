SPECIFICATION Spec
CONSTANTS
    Key = {k1, k2, k3, k4, k5}
    Time = {0, 1}
    Index = {0, 1, 2, 3, 4, 5}
SYMMETRY Symmetry
INVARIANTS Consistent EntriesMatch
PROPERTY ImplementsDeadlineMap
