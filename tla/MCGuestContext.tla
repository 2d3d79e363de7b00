--------------------------- MODULE MCGuestContext ---------------------------
(* Values for the constants of GuestContext that a cfg cannot write down. *)
EXTENDS GuestContext

CONSTANTS v1, v2

TwoLevels == [v \in Vcpus |-> IF v = v1 THEN 0 ELSE 1]
OneLongProgram == [v \in Vcpus |-> IF v = v1 THEN 1 ELSE 0]
=============================================================================
