SPECIFICATION FairSpec
CONSTANTS
    Keys = {k1, k2}
    Workers = {w1, w2}
    Receipts = {r1, r2}
    NoKey = NoKey
    NoReceipt = NoReceipt
    LiveSweep = FALSE
    MaxCrashes = 2
CHECK_DEADLOCK FALSE
INVARIANTS
    AtMostOneInvocation
    ReceiptBeforeInvoke
    CompletedMeansDone
    SweptFailureIsSafe
PROPERTIES
    ImplementsOneShot
    StuckReceiptsSettle
