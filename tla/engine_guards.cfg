SPECIFICATION Spec
CONSTANTS
    s1 = s1
    s2 = s2
    pA = pA
    Signals = {s1}
    Pairs = {pA}
    NoPair = NoPair
    NoSignal = NoSignal
    PairOf <- MCOnePair
    Defaults <- MCDryAuto
    Commands <- MCGuarded
    MaxCommands = 3
    MaxCrashes = 1
    MaxLimit = 1
    MayRaise = FALSE
INVARIANTS KillSwitchBound RateBound FreedOnce
