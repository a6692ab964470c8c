SPECIFICATION Spec
CONSTANTS
    d1 = d1
    d2 = d2
    d3 = d3
    Decisions = {d1, d2, d3}
    Size <- MCSize
    Cap = 3
    MaxCrashes = 0
    MayRaise = FALSE
    NoDecision = NoDecision
CHECK_DEADLOCK FALSE
INVARIANT OutstandingWithinCap
