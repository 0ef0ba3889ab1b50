SPECIFICATION FairSpec
CONSTANTS
    MaxRedirects = 2
    MaxMeddles = 1
    WithFilesystem = FALSE
INVARIANT PermittedCallReachesHandler
