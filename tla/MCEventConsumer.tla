-------------------------- MODULE MCEventConsumer --------------------------
(***************************************************************************)
(* Constants of EventConsumer for TLC.                                     *)
(***************************************************************************)
EXTENDS EventConsumer

CONSTANTS r1, r2
=============================================================================
