---------------------------- MODULE MCLockedQueue ----------------------------
(* Values for the constants of LockedQueue that a cfg cannot write down. *)
EXTENDS LockedQueue

CONSTANTS v1, v2

FirstIsUrgent == [v \in Vcpus |-> IF v = v1 THEN 0 ELSE 1]
=============================================================================
