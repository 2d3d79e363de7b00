------------------------------ MODULE CoreIntc ------------------------------
(***************************************************************************)
(* The per-core interrupt controller of the BCM2836 as virq.c shares it    *)
(* among guests and the hypervisor timer: writes of guests, save and reset *)
(* at context switches and in idle CPUs, and the bit of _hyp_timer_core_   *)
(* start.  Each VM has one vcpu (vm_create), so a guest reaches the        *)
(* registers of its own virtual core 0 only; a write to another core's     *)
(* register is refused and is a plain trap.                                *)
(*                                                                         *)
(* Scheduling is reduced to what moves the registers: a CPU that enters    *)
(* the hypervisor keeps its vcpu, takes another one after the vcpu went to *)
(* sleep or was switched off (which are not told apart), or goes idle.     *)
(* hyp_timer_stop has no action: it runs in the timer interrupt of a CPU   *)
(* without events, the primary's usage event adds itself again, and the    *)
(* interrupt of another CPU's timer is never delivered.                    *)
(***************************************************************************)
EXTENDS Naturals

CONSTANTS Cpus, Primary, Vcpus, None

ASSUME IntcAssumption ==
  Primary \in Cpus /\ None \notin Cpus \cup Vcpus

(* The bits of a COREn_TIMER_INT_CONTROL register: the two of CNTHPIRQ,    *)
(* and all the others, which a guest may write.                            *)
Bits == {"hyp", "guest"}

VARIABLES
  control,    \* COREn_TIMER_INT_CONTROL of each core
  mbox,       \* COREn_MAILBOX_INT_CONTROL # 0
  saved,      \* vic.core_timer_intr_enable
  savedMbox,  \* vic.core_mbox_intr_enable # 0
  running,    \* hyp_tiemr_is_running
  current,    \* phys_cpu->current_vcpu
  last,       \* phys_cpu->last_vcpu
  pc          \* "boot", "start" (init.c's last lines), "guest", "hyp" or "idle"

registers == <<control, mbox>>
contexts  == <<saved, savedMbox>>
vars      == <<registers, contexts, running, current, last, pc>>

Goto(c, place) == pc' = [pc EXCEPT ![c] = place]

Enter(c) == last' = [last EXCEPT ![c] = current[c]]

-----------------------------------------------------------------------------
ZeroedVcpu == [c \in Cpus |-> 0]

(* current_phys_cpu_core_init: NULL is not zero here. *)
NoVcpu == [c \in Cpus |-> None]

Init ==
  /\ control   = [c \in Cpus |-> {}]
  /\ mbox      = [c \in Cpus |-> FALSE]
  /\ saved     = [v \in Vcpus |-> {}]
  /\ savedMbox = [v \in Vcpus |-> FALSE]
  /\ running   = [c \in Cpus |-> FALSE]
  /\ current   = NoVcpu
  /\ last      = NoVcpu
  /\ pc        = [c \in Cpus |-> "boot"]

(* _hyp_timer_core_start writes core 0's register, whole. *)
Started(c) == [control EXCEPT ![Primary] = {"hyp"}]

(* Every caller passes its own CPU, so no request goes by mailbox.         *)
hyp_timer_start(c) ==
  /\ control' = Started(c)
  /\ running' = [running EXCEPT ![c] = TRUE]

timer_event_add(c) ==
  IF running[c] THEN UNCHANGED <<control, running>> ELSE hyp_timer_start(c)

(* start_primary arms the CPU-usage event; the others wait for it. *)
Boot(c) ==
  /\ pc[c] = "boot"
  /\ IF c = Primary THEN timer_event_add(c)
                    ELSE running[Primary] /\ UNCHANGED <<control, running>>
  /\ Goto(c, "start")
  /\ UNCHANGED <<mbox, contexts, current, last>>

-----------------------------------------------------------------------------
(* Guests. *)

(* value & 0b10111011 *)
GuestBits(value) == value \ {"hyp"}

KeepsOnlyNew(value) == [control EXCEPT ![Primary] = GuestBits(value)]

(* The sum of cpu_id*4 and the address is masked as a whole, so the write  *)
(* reaches core 0; it can set bits and never clears one.                   *)
ControlWith(value) == [control EXCEPT ![Primary] = @ \cup GuestBits(value)]

(* bcm2836_ic_reg_write of a CORE_TIMER_INT_CONTROL register.  The vcpu is *)
(* the writer itself, which runs, so the test of its state always holds.   *)
WriteTimerControl(c) ==
  /\ pc[c] = "guest"
  /\ \E value \in SUBSET Bits :
       /\ control' = ControlWith(value)
       /\ saved'   = [saved EXCEPT ![current[c]] = GuestBits(value)]
  /\ Enter(c)
  /\ Goto(c, "hyp")
  /\ UNCHANGED <<mbox, savedMbox, running, current>>

(* bcm2836_ic_reg_write of a MAILBOX_INT_CONTROL register. *)
WriteMailboxControl(c) ==
  /\ pc[c] = "guest"
  /\ \E on \in BOOLEAN :
       /\ mbox'      = [mbox EXCEPT ![Primary] = on]
       /\ savedMbox' = [savedMbox EXCEPT ![current[c]] = on]
  /\ Enter(c)
  /\ Goto(c, "hyp")
  /\ UNCHANGED <<control, saved, running, current>>

(* Any other trap.  The core timer's control, prescaler and count take a   *)
(* guest's value as it is (their effect, a clock that stops, is in         *)
(* VcpuSched and HypTimer); no register of this module changes.            *)
Trap(c) ==
  /\ pc[c] = "guest"
  /\ Enter(c)
  /\ Goto(c, "hyp")
  /\ UNCHANGED <<registers, contexts, running, current>>

(* A read of a guest gives it its saved context, or a register as it is,   *)
(* and changes neither.  At an address without a register its VM is shut   *)
(* down, and the CPU has no vcpu any more.                                 *)
bcm2836_ic_reg_read(c) ==
  /\ pc[c] = "guest"
  /\ Enter(c)
  /\ UNCHANGED current \/ current' = [current EXCEPT ![c] = None]
  /\ Goto(c, "hyp")
  /\ UNCHANGED <<registers, contexts, running>>

(* vcpu_sleep; emulate_vtimer may start the timer of this CPU. *)
Sleep(c) ==
  /\ pc[c] = "guest"
  /\ Enter(c)
  /\ current' = [current EXCEPT ![c] = None]
  /\ timer_event_add(c) \/ UNCHANGED <<control, running>>
  /\ Goto(c, "hyp")
  /\ UNCHANGED <<mbox, contexts>>

(* The hypervisor timer interrupts the idle loop. *)
Wake(c) ==
  /\ pc[c] = "idle"
  /\ running[c]
  /\ "hyp" \in control[c]
  /\ Enter(c)
  /\ Goto(c, "hyp")
  /\ UNCHANGED <<registers, contexts, running, current>>

-----------------------------------------------------------------------------
(* The way out of the hypervisor. *)

(* bcm2836_ic_reg_save, called by vcpu_context_switch for the next vcpu. *)
bcm2836_ic_reg_save(c, v) ==
  /\ saved'     = [saved EXCEPT ![v] = control[c] \cap {"hyp"}]
  /\ savedMbox' = [savedMbox EXCEPT ![v] = mbox[c]]

vcpu_context_switch(c, v) ==
  IF last[c] = v THEN UNCHANGED contexts ELSE bcm2836_ic_reg_save(c, v)

Pick(c, v) ==
  /\ pc[c] \in {"start", "hyp"}
  /\ current[c] = None
  /\ \A d \in Cpus : current[d] # v
  /\ current' = [current EXCEPT ![c] = v]
  /\ vcpu_context_switch(c, v)
  /\ Goto(c, "guest")
  /\ UNCHANGED <<registers, running, last>>

Return(c) ==
  /\ pc[c] = "hyp"
  /\ current[c] # None
  /\ vcpu_context_switch(c, current[c])
  /\ Goto(c, "guest")
  /\ UNCHANGED <<registers, running, current, last>>

ResetOwnCore(c) == [control EXCEPT ![c] = @ \cap {"hyp"}]

(* &= 0b01000100 on each core *)
ResetControl(c) == [d \in Cpus |-> control[d] \cap {"hyp"}]

bcm2836_ic_reg_reset(c) ==
  /\ control' = ResetControl(c)
  /\ mbox'    = [d \in Cpus |-> FALSE]

(* The idle loops of start_primary and start_secondary do not reset. *)
IdleFromStart(c) ==
  /\ pc[c] = "start"
  /\ Goto(c, "idle")
  /\ UNCHANGED <<registers, contexts, running, current, last>>

(* The idle paths of the exception entries reset the devices. *)
Idle(c) ==
  /\ pc[c] = "hyp"
  /\ current[c] = None
  /\ bcm2836_ic_reg_reset(c)
  /\ Goto(c, "idle")
  /\ UNCHANGED <<contexts, running, current, last>>

(* What a CPU does besides choosing a vcpu and writing a timer control.    *)
CpuStep(c) ==
  \/ Boot(c) \/ WriteMailboxControl(c) \/ bcm2836_ic_reg_read(c) \/ Trap(c)
  \/ Sleep(c) \/ Wake(c) \/ Return(c) \/ IdleFromStart(c) \/ Idle(c)

Next ==
  \E c \in Cpus :
    CpuStep(c) \/ WriteTimerControl(c) \/ \E v \in Vcpus : Pick(c, v)

Spec == Init /\ [][Next]_vars
-----------------------------------------------------------------------------
(* Properties. *)

(* Every variable holds a value of its C type. *)
TypeOK ==
  /\ control   \in [Cpus -> SUBSET Bits]
  /\ mbox      \in [Cpus -> BOOLEAN]
  /\ saved     \in [Vcpus -> SUBSET Bits]
  /\ savedMbox \in [Vcpus -> BOOLEAN]
  /\ running   \in [Cpus -> BOOLEAN]
  /\ current   \in [Cpus -> Vcpus \cup {None}]
  /\ last      \in [Cpus -> Vcpus \cup {None}]
  /\ pc        \in [Cpus -> {"boot", "start", "guest", "hyp", "idle"}]

(* The register is shared, yet no write of a guest, no reset by an idle    *)
(* CPU and no other CPU's timer takes the hypervisor's own interrupt from  *)
(* core 0 once its timer runs.                                             *)
HypTimerStaysEnabled == running[Primary] => "hyp" \in control[Primary]

(* An interrupt of a guest's device in an idle CPU is fatal (VcpuSched,    *)
(* IdleDeviceIrq).  When every CPU is idle no timer or mailbox of a guest  *)
(* is enabled on any core, whatever the guests wrote before.  (The GPU's   *)
(* interrupts are: the BCM2835 has no reset hook.)                         *)
IdleIsQuiet ==
  (\A c \in Cpus : pc[c] = "idle") =>
    \A c \in Cpus : "guest" \notin control[c] /\ ~mbox[c]
=============================================================================
