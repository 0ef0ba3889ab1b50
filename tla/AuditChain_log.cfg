SPECIFICATION LogSpec
CONSTANTS
    Writers = {w1, w2, w3}
    Events = {e1, e2}
    MaxEvents = 4
SYMMETRY Symmetry
CHECK_DEADLOCK FALSE
INVARIANTS ChainVerifies TamperEvident
PROPERTY CommittedRowsStay
