SPECIFICATION Spec
CONSTANTS
    s1 = s1
    s2 = s2
    pA = pA
    Signals = {s1, s2}
    Pairs = {pA}
    NoPair = NoPair
    NoSignal = NoSignal
    PairOf <- MCOnePair
    Defaults <- MCDryAuto
    Commands <- MCNone
    MaxCommands = 0
    MaxCrashes = 1
    MaxLimit = 2
    MayRaise = TRUE
INVARIANTS AtMostOneEntry ReportedIsProtected
