SPECIFICATION FairSpec
CONSTANTS
    Requests = {r1, r2}
    MaxCrashes = 1
    MaxSweeps = 1
INVARIANTS ReadyHasPlan NeverPreAnswered OnlyOutageStrands
PROPERTY RestartUnstrands
CHECK_DEADLOCK FALSE
