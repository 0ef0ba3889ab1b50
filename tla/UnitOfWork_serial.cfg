SPECIFICATION Spec
CONSTANTS
    Units = {u1, u2, u3}
    MaxWrites = 2
    MaxNest = 3
    Overlap = FALSE
SYMMETRY Symmetry
CHECK_DEADLOCK FALSE
INVARIANT AllOrNothing
