---------------------------- MODULE MCFcfsQueue ----------------------------
(* Values for the constants of FcfsQueue that a cfg cannot write down. *)
EXTENDS FcfsQueue

CONSTANTS v1, v2, v3

FirstIsUrgent == [v \in Vcpus |-> IF v = v1 THEN 0 ELSE 1]
OneLevel      == [v \in Vcpus |-> 0]
=============================================================================
