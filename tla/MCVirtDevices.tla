----------------------------- MODULE MCVirtDevices -----------------------------
(* A small instance of VirtDevices.  Its VMs are interchangeable.          *)
EXTENDS VirtDevices, TLC

CONSTANTS v1, v2, p1, p2

MCVcpus     == {v1, v2}
MCPins      == {p1, p2}
MCBanks     == {{p1}}
MCSelectors == {<<p1, p2>>}

VmSymmetry == Permutations(MCVcpus)

(* Nothing reads the interrupt contexts of CoreIntc, saved and savedMbox,  *)
(* and only the step that writes them reads last: states that differ in    *)
(* these three alone have the same future.                                 *)
WithoutContexts ==
  <<control, mbox, running, current, pc, claimVars, enabled, gpioVars>>
=============================================================================
