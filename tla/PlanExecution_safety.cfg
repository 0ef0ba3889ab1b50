SPECIFICATION Spec
CONSTANTS
    NumSteps = 2
    k1 = k1
    k2 = k2
    Keys = {k1, k2}
    StepKey <- DistinctKeys
    NeedsAck = {1}
    Runners = {r1, r2}
    Callers = {c1}
    MaxAttempts = 2
    MaxRuns = 3
    MaxCrashes = 2
    HaltOnInjection = TRUE
    LiveReconcile = TRUE
SYMMETRY Symmetry
CHECK_DEADLOCK FALSE
INVARIANTS EffectAtMostOnce CompletedMeansAllVerified SkippedStepsAreVerified ConsumedMeansSuccess
PROPERTY RestartSettlesTask
