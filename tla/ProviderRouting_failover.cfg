SPECIFICATION Spec
CONSTANTS
    NumProviders = 3
    Profile <- MCProfile
    Requirements <- MCRequirements
    Callers = {c1, c2}
    Preferences <- MCPreferences
    WindowSize = 3
    MaxCalls = 4
INVARIANT ExhaustedMeansTried
CHECK_DEADLOCK FALSE
