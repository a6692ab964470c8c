-------------------------------- MODULE Faults --------------------------------
(***************************************************************************)
(* The bound on what goes wrong in a behaviour: an action that fails, or a *)
(* process that ends, takes one of MaxFaults.  Each module that extends    *)
(* this one names the faults it counts.                                    *)
(***************************************************************************)
EXTENDS Integers

CONSTANT MaxFaults   \* bound: faults of a behaviour
VARIABLE faults

ASSUME FaultsAssumption == MaxFaults \in Nat

Fault == faults < MaxFaults /\ faults' = faults + 1
=============================================================================
