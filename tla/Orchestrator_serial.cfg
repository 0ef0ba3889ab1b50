SPECIFICATION Spec
CONSTANTS
    Callers = {c1}
    Plans = {p1, p2}
    NoPlan = NoPlan
    MaxTrail = 9
INVARIANT TrailReplays
PROPERTY TerminalStays
