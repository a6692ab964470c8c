SPECIFICATION Spec
CONSTANTS
    s1 = s1
    s2 = s2
    pA = pA
    Signals = {s1}
    Pairs = {pA}
    NoPair = NoPair
    NoSignal = NoSignal
    PairOf <- MCOnePair
    Defaults <- MCLiveApproval
    Commands <- MCDesk
    MaxCommands = 2
    MaxCrashes = 0
    MaxLimit = 1
    MayRaise = FALSE
INVARIANTS SettingsFollowLog ModeFresh
