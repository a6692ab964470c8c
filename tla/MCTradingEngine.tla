-------------------------- MODULE MCTradingEngine --------------------------
(***************************************************************************)
(* Constants of TradingEngine for TLC.                                     *)
(***************************************************************************)
EXTENDS TradingEngine

CONSTANTS s1, s2, pA

MCOnePair == [s \in Signals |-> pA]

MCConfig(mode, auto) ==
    [mode |-> mode, enabled |-> TRUE, auto |-> auto, limit |-> MaxLimit]
MCLiveAuto == MCConfig("live", TRUE)
MCLiveApproval == MCConfig("live", FALSE)
MCDryAuto == MCConfig("dry_run", TRUE)

MCKill(on) == [cmd |-> "set_kill_switch", enabled |-> on]
MCAuto(on) == [cmd |-> "set_auto_trading", enabled |-> on]
MCMode(m) == [cmd |-> "set_mode", mode |-> m]
MCCaps(n) == [cmd |-> "set_caps", limit |-> n]
MCManual(p, over) == [cmd |-> "manual_order", pair |-> p, overCap |-> over]
MCOn(name, s) == [cmd |-> name, sig |-> s]
MCAdjust(s, legs) == [cmd |-> "adjust_sltp", sig |-> s, legs |-> legs]

MCNone == {}
MCGuarded == {MCKill(FALSE), MCKill(TRUE), MCManual(pA, FALSE)}
MCDesk == {MCOn("approve_opportunity", s1), MCOn("reject_opportunity", s1),
           MCOn("close_position", s1), MCAdjust(s1, {"sl", "tp"}),
           MCManual(pA, TRUE), MCManual(NoPair, FALSE), MCMode("dry_run"),
           MCKill(FALSE), MCAuto(TRUE), MCCaps(0)}
MCAutoOffClose == {MCAuto(FALSE), MCOn("close_position", s1)}
=============================================================================
