SPECIFICATION FairSpec
CONSTANTS
    NumProviders = 3
    Profile <- MCProfile
    Requirements <- MCRequirements
    Callers = {c1}
    Preferences <- MCPreferences
    WindowSize = 3
    MaxCalls = 0
PROPERTY OutagesEnd
