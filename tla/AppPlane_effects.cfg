SPECIFICATION FairSpec
CONSTANTS
    MaxRedirects = 2
    MaxMeddles = 1
    WithFilesystem = TRUE
INVARIANTS TypeOK FailureIsKnown ReconciledFailureIsSafe EveryHopChecked
PROPERTIES EveryContractEnds
