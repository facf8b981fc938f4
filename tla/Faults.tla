-------------------------------- MODULE Faults --------------------------------
(***************************************************************************)
(* One budget for everything that goes wrong in the modules that extend    *)
(* this one, so that what is explored stays finite however many they are.  *)
(***************************************************************************)
EXTENDS Integers

CONSTANT MaxFaults   \* bound on faults and disturbances

ASSUME FaultsAssumption == MaxFaults \in Nat

VARIABLE faults      \* faults so far

FaultsTypeOK == faults \in 0..MaxFaults

FaultsInit == faults = 0

Fault ==
    /\ faults < MaxFaults
    /\ faults' = faults + 1
=============================================================================
