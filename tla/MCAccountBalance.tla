-------------------------- MODULE MCAccountBalance --------------------------
(***************************************************************************)
(* Constants of AccountBalance for TLC: one open trade.                    *)
(***************************************************************************)
EXTENDS AccountBalance

MCTrades == {[symbol |-> "a", size |-> 40, protected |-> FALSE]}
MCPriceOf == [a |-> 120]
=============================================================================
