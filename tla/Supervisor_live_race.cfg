SPECIFICATION Spec
CONSTANTS
    Keys = {k1, k2}
    Workers = {w1, w2}
    Receipts = {r1, r2, r3}
    NoKey = NoKey
    NoReceipt = NoReceipt
    LiveSweep = TRUE
    MaxCrashes = 1
SYMMETRY Symmetry
CHECK_DEADLOCK FALSE
INVARIANT SweptFailureIsSafe
