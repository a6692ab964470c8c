----------------------------- MODULE MCPollLoop -----------------------------
(***************************************************************************)
(* Constants of PollLoop for TLC: a channel in which nothing is posted.    *)
(***************************************************************************)
EXTENDS PollLoop

CONSTANT c1

MCNone == {}
MCNoPosts == [c \in Channels |-> 0]
=============================================================================
