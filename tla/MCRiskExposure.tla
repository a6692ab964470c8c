--------------------------- MODULE MCRiskExposure ---------------------------
(***************************************************************************)
(* Constants of RiskExposure for TLC: a portfolio of three shares, and     *)
(* decisions of one, two and three.                                        *)
(***************************************************************************)
EXTENDS RiskExposure

CONSTANTS d1, d2, d3

MCSize == [d \in Decisions |-> IF d = d1 THEN 2 ELSE IF d = d2 THEN 1 ELSE 3]
=============================================================================
