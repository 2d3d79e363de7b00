----------------------------- MODULE IntcHistory -----------------------------
(***************************************************************************)
(* CoreIntc with a memory of what each guest wrote last to its timer       *)
(* control register, to state what a context switch ought to do.           *)
(***************************************************************************)
EXTENDS CoreIntc

VARIABLE wanted  \* the bits that each guest wrote last

historyVars == <<vars, wanted>>

Remember(c) ==
  /\ WriteTimerControl(c)
  /\ wanted' = [wanted EXCEPT ![current[c]] = saved'[current[c]]]

HistoryInit == Init /\ wanted = [v \in Vcpus |-> {}]

HistoryNext ==
  \E c \in Cpus :
    \/ Remember(c)
    \/ CpuStep(c) /\ UNCHANGED wanted
    \/ \E v \in Vcpus : Pick(c, v) /\ UNCHANGED wanted

HistorySpec == HistoryInit /\ [][HistoryNext]_historyVars
-----------------------------------------------------------------------------
(* "we need to switch ... virt mmio registers, too" (vcpu_context_switch): *)
(* the interrupts a guest enabled are enabled on the core it runs on.      *)
EnablesFollowTheGuest ==
  \A c \in Cpus : pc[c] = "guest" => wanted[current[c]] \subseteq control[c]
=============================================================================
