---------------------------- MODULE MCVcpuSched ----------------------------
(* Values for the constants of VcpuSched that a cfg cannot write down. *)
EXTENDS VcpuSched

CONSTANTS v1, v2, v3

TwoLevels == [v \in Vcpus |-> IF v = v1 THEN 0 ELSE 1]
OneLevel  == [v \in Vcpus |-> 0]
=============================================================================
