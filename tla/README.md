# A TLA+ model of Semzhu-Visor

Semzhu-Visor is a small type-1 hypervisor for the Raspberry Pi 3 (AArch64, EL2).
It partitions the machine at start-up: `init_vm_create` creates a fixed list of
VMs, each with one virtual CPU, and from then on everything happens in exception
handlers. This directory holds TLA+ modules translated from its C sources, TLC
configurations that check them on small instances, and TLAPS proofs of the main
results for every size. Source references are `file.c:line` under `src/`.

## 1. The system

### Components

| component | state | operations | what must be right |
|---|---|---|---|
| fcfs scheduler (`fcfs_schedule.c`, `schedule.c`) | `ready_vcpu[]` (a linked list per priority), `schedule_is_needed` of each CPU, `scheduler_locked` | `fcfs_scheduler_add`, `_remove`, `fcfs_schedule`, `do_schedule` | a READY vcpu is in exactly one list and will be found; no vcpu on two CPUs; most urgent first |
| vcpu life cycle (`vcpu.c`, `asm_func.S`) | `state`, `phys_cpu`, saved registers, pending flags, `current_vcpu` / `last_vcpu` of each CPU | `vcpu_ready`, `_active`, `_sleep`, `_off`, `vcpu_context_switch`, `set_vintr` | a guest always resumes its newest context, and its own; a vcpu that is off stays off; a virtual interrupt reaches its guest |
| exception handlers (`interrupt.c`, `vector.S`, `hyp_call.c`, `hyp_security.c`, `hyp_security_fast.S`) | `sp_el2`, which tells the frame the next exception fills | entry, dispatch, emulation, `do_schedule`, way out or idle loop | every path leaves the CPU with a vcpu or idle; a frame belongs to the guest that runs |
| start-up (`init.c`, `guest_vm.c`, `phys_cpu_setting.c`) | `primary_start_finished` | `start_primary`, `start_secondary` | VMs exist before any CPU schedules |
| hypervisor timer (`hyp_timer.c`, `pmu.c`, `vtimer.c`) | `timer_event_table`, `hyp_tiemr_is_running` | `timer_event_add`, `timer_event_intr`, callbacks | no event lost or doubled, none off by more than a quantum; ticking while armed |
| interrupt controllers (`virq.c`) | BCM2836 control registers, BCM2835 enables, `vcpu->vic`, `irq_vec_table` | emulated reads and writes, save, reset; claims of GPU interrupts | the hypervisor's interrupt survives the guests; a guest's enables follow it; an enabled interrupt has one owner |
| stage-2 memory (`hyp_mmu.c`, `malloc.c`, `vm.c`, `virt_mmio.c`) | `page_tables`, `bottom_index`, `free_top_index`, `vttbr` | `map_page_table`, `alloc_ttbl`, `malloc`, `excl_mmio_assign` | isolation of VMs, complete mappings |
| emulated devices (`virt_mmio.c`, `virt_gpio.c`, `virt_bcm2835_*.c`) | `gpio_used`, `assigned_gpio`, the GPIO registers | register access filtered by owner, assignment | a pin belongs to one VM, and no other VM drives it |
| spin lock (`spinlock.c`) | lock word, exclusive monitor, `intr_state` of each CPU | `spin_lock`, `spin_unlock` | one holder; interrupts stay masked in a handler, though nested locks share one field; no circular wait |
| log (`log.c`, `print.c`) | `count`, `ser_locked` | `log_vprintf`, `hyp_panic` | a panic under a lock does not wait for itself |
| round-robin and no-op schedulers | lists of their own | same interface | same |
| library, UART, SD drivers, sample guest | - | - | not part of the model |

### How they interact

An exception saves the guest's registers, sets `last_vcpu`, runs a handler with
interrupts masked, calls `do_schedule`, and leaves through `vcpu_context_switch`
or into a `wfe` loop with interrupts enabled. Handlers call `vcpu_sleep` (which
arms a timer event through `emulate_vtimer`) and `vcpu_off`; timer callbacks call
`vcpu_do_virq`, which makes a sleeping vcpu ready again and adds it to a list.
CPUs communicate only through shared memory: the lists, `schedule_is_needed` and
the register block of the interrupt controller, which exists once. Cross-CPU
notification (`smp_send_mailbox`) is an empty function, so nobody is ever woken.

### What is hard

- CPUs 0, 2 and 3 share one scheduler. The list is taken from under
  `scheduler_locked` but added to and removed from without it. An add raises the flags of
  all CPUs before it links the vcpu, and `fcfs_schedule` clears its flag before it goes
  through the levels one by one: another CPU's add can fall in between.
- A timer callback adds to the very table that the handler walks, with the lock
  dropped, and can be decremented in the same pass.
- `vcpu_context_switch` restores nothing when the vcpu was the last one to run
  here, although handlers change the saved context in the meantime. The general
  registers, `ELR_EL2`, the floating-point and the system registers of a guest are
  saved and restored in different places, some at every exception, some lazily, and
  the fast path of the control-flow checks skips all but the first.
- Every lock of a CPU saves the interrupt mask in one field, and locks are nested;
  a log message may end in a panic while its caller holds a lock.
- VMs write the same GPIO registers from several CPUs, through one filter, and the
  function selectors through none that protects other VMs' pins.
- The log is finite (`LOG_NUM_MAX`): sooner or later every CPU ends in a panic, perhaps with
  a lock; and guests can stop the clock that all wake-ups depend on.
- The interrupt control registers are shared by guests and the hypervisor timer,
  and most writes land in core 0's register whichever core was meant.
- Table and block limits are reached in the middle of creating a VM.
- `NULL` is `0xFFFFFFFF` (`typedef.h:4`), so cleared memory is not a null pointer.

`PROJECT.json` lists each hazard with its line and the properties that watch it.

## 2. The modules

| module | models | granularity of a step |
|---|---|---|
| `VcpuSched` | life cycle, handlers, start-up, scheduler, wake-up events, all CPUs | one handler phase, one flag or link of an add, one level of a scan |
| `ReadyQueue` | abstract: one FIFO queue for each priority | one add, take or removal |
| `FcfsQueue` | the same lists, pointer by pointer | one access to shared memory |
| `LockedQueue` | `FcfsQueue` under the spin lock, with nested locks, the interrupt mask and start-up | one instruction of the lock, one access to a list |
| `GuestContext` | `VcpuSched` with the registers of guests and CPUs, exception frames and virtual interrupts | that of `VcpuSched`, and one guest instruction |
| `GuestMachine` | abstract: each guest has a machine of its own | one guest instruction |
| `HypTimer` | one CPU's row of the timer table, `timer_event_intr` and the timer's counter | one table slot, one millisecond |
| `CoreIntc` | the shared BCM2836 control registers | one handler |
| `IntcHistory` | `CoreIntc` with a memory of what each guest wrote | one handler |
| `VirtDevices` | `CoreIntc` with several VMs, their claims in `vm_create`, GPIO and the BCM2835 enables | one handler, one shift of a selector |
| `AddressSpaces` | abstract: one partial page map for each VM | one page |
| `Stage2Mmu` | `vm_create`, `malloc`, stage-2 tables as flat words, exclusive devices | one page or region |
| `VcpuSched_proofs`, `GuestContext_proofs`, `FcfsQueue_proofs`, `LockedQueue_proofs`, `HypTimer_proofs`, `CoreIntc_proofs`, `VirtDevices_proofs`, `Stage2Mmu_proofs` | theorems | |
| `MCVcpuSched`, `MCGuestContext`, `MCFcfsQueue`, `MCLockedQueue`, `MCHypTimer`, `MCVirtDevices`, `MCStage2Mmu` | values for TLC's constants | |

Variables and actions keep the names of the C fields and functions where they
can. The `map` of `PROJECT.json` names the lines each definition stands for.

**VcpuSched.** `pc[c]` says where a CPU is: `boot`, `wait`, `guest`, `timer`
(between two callbacks of `timer_event_intr`), `sched` (handler done,
`do_schedule` next), `scan` (in `fcfs_schedule`), `idle`, `panic`. A guest's exception is
one action (`Trap`, `SecurityTrap`, `GuestPanic`, `Wfi`, `Shutdown`) that makes every call
the handler makes up to `do_schedule`. What other CPUs can see halfway is taken apart:

- `fcfs_scheduler_add` only notes what is to be done (`adding[c]`, `flagging[c]`); a step
  `RaiseFlag` for each CPU and a step `Link` follow, without a lock, while other CPUs go on.
- `StartScan` takes `scheduler_locked` (`holder`) and clears the CPU's flag, `NextLevel`
  passes an empty level (`level`), and `ScheduleNext`, `Resume` or `GoIdle` ends the scan.
  From the take of a vcpu to the unlock and the switch is one step: nobody else can touch
  the vcpu or reads what changes.

`LogPanic` and `PanicInSwitch` are the limit of the log, in a handler, under the lock or
after it; the lock then stays taken. The constant `LogEnds` says whether it is ever reached.
`clock` is FALSE while a guest of `ClockWriters` has the core timer stopped
(`virq.c:388-394`): no `Tick` comes then. Contents
of registers are abstracted to `loaded[c]`, the vcpu whose *newest* context is in
the registers of `c`: saving, restoring and changing the saved copy update it, so
a skipped restore becomes visible. `armed[v]` abstracts the timer table to the CPU
whose row holds the wake-up of `v`. `HypFault` is a fault of the hypervisor itself,
which ends in `hyp_panic` or `cpu_hlt` whatever its syndrome was. `IrqCpus` is `{Primary}`
because the timer interrupt is enabled in core 0's register only (`hyp_timer.c:88`).

A link is one step and so is an unlink. This is true of the code when no two vcpus share a
list or one CPU does everything, and `ListAssumption` says so; beyond it, finding 4
(`fifo_race`) shows that the lists break.

**FcfsQueue** opens the list operations that are one step in `VcpuSched`: the test
of `head`, the write through `tail`, the new `tail` and the cleared `next` are
separate steps, and so are the scan, the read of `head->next` and the unlink.
Removal is one step and only runs where the configuration allows it (a READY vcpu
is switched off by its own CPU only). Sequential consistency is assumed; the weaker
ordering of the hardware can only add behaviours to those of `fifo_race`.

**GuestContext** conjoins to each action of `VcpuSched` what its handler does to
registers. `reg[c]` is what a CPU holds, `saved[v]` is `vcpu->reg` and
`vcpu->sysreg`, `sp[c]` is the frame that the next exception fills: `Stack` while the
hypervisor runs. A context has five parts because the code treats them in five ways:
`x` (general registers, saved by `vector.S` at every entry), `pc` (`ELR_EL2`), `fp` (V0 to V31),
`timer`, which stands for the system registers, and `par`, which is `PAR_EL1`: saved and
restored with them, but overwritten by the hypervisor's own address translations
(`hyp_security_fast.S:47,84,136`, `interrupt.c:121`), in some handlers before the save and in
others after it. `FPCR` and `FPSR` are outside: nothing saves them (`vcpu.h:25`).
Register values are the addresses
of a small guest program, because `ret` and `blr` jump to the contents of a register;
`fp` and `par` are the name of the guest, so that a value from another guest shows, and
`Walk(v)` is the hypervisor's result for `v` in `par`; `Old` marks a
copy that its guest has changed since. `pend[v]` and `line[c]` are the pending flags of
`vcpu->vic` and the bits of `HCR_EL2` with the vcpu they were raised for. A handler
that advances the saved `pc` by four, emulates a load or answers a hypervisor call is
an instruction of the guest; `sec_ret` and `sec_blr`, which the fast path of the
control-flow checks handles (`hyp_security_fast.S`), take their target from the frame.
The slow path finds a call in no state: those it looks for have been handled or refused
before (`hyp_security_check`). A load that is refused with its register already written
(`LateRefusal`) shows in `GuestMachine` as `Refused`: a new value, the same `pc`, and an
SError on its way.

`GuestMachine` names what the code does to a guest besides: `TimerFires`; `ParOverwritten`, a
result of a walk for *that* guest in `PAR_EL1`; and `CallFromEl1`, a checked call of a kernel
(`El1Callers`) whose link register is one word too far. A plain `Call`, from EL0, links to the
next word and to nothing else.

**LockedQueue** gives each CPU a script `todo[c]`, the rest of the code it executes
until it leaves the hypervisor: `spin_lock` is mask, `ldaxr`, `stxr`; `spin_unlock` is
the store and the restored mask. The scripts are the handlers with their locks nested as
the callers nest them: logs under `hyp_timer_spinlock` and `scheduler_locked`, callbacks
that add events, panics inside logs. `stxr` may fail for no reason, as the architecture
allows. Which vcpu runs where is left open, so any handler may run on any CPU whose
interrupts are enabled; before `primary_start_finished` none comes, because no interrupt
source has been enabled and no guest runs.

**HypTimer** has one CPU, since a CPU touches its own row only. `tval` counts a quantum down
(`TimePasses`), so an event may be added at any moment of it, although the next tick takes the
whole quantum from it. No time passes in the handler. `WriteClock` is a guest's write to the
core timer, on this CPU or another: `clean` is FALSE from then on, and nothing is said of time
any more. `LogPanic` may end any part of the handler that logs (`halted`). `asked`, `age`
(interrupts) and `waited` (msec) are history for the timing properties. A `msec` is 62,500
counts of the timer, as `hyp_timer.c` and `vtimer.c` have it, whatever its frequency is.

**CoreIntc** reduces scheduling to what moves the registers. A register is a set of
two kinds of bits: `hyp` (the CNTHPIRQ bits, `0b01000100`) and `guest` (the rest).
`control[Primary]` receives every emulated write because of the precedence of `+`
and `&` in `virq.c:429`. `hyp_timer_stop` cannot run there (see the module). `IdleIsQuiet` speaks
of a machine whose CPUs are all idle. While core 0 idles and a guest on another core enables one of core
0's interrupts it says nothing: that interrupt is the `IdleDeviceIrq` of `VcpuSched`, and fatal.
**IntcHistory** adds what each guest wrote last, which the code does not remember and the
property of `intc_switch` speaks of.

**VirtDevices** extends `CoreIntc` with the creation of VMs on the primary and with the
GPIO registers, one set of pins for each register. A write is cut down to the pins of the
VM (`value & vcpu->vm->assigned_gpio`) and then stored or OR-ed as the code does. A VM
may ask for any pins; `gpio_assign` panics when one is taken. `virt_device_intr_set` walks
the interrupts until the first it cannot have. `enabled` is what the guests' writes to the
BCM2835 enable and disable registers leave, number 0 included; the loops over `irq_vec_table`
start at 1 (`Claimable`), so its first word keeps the zero of `.bss`, which is not `NULL`.
`driven` is the set of pins whose function is not input. A write to GPFSELn replaces all
fields of the register (`WriteSelector`); a read shifts the register once for each pin
(`ReadSelector`, then `ShiftSelector`, a step each, as other CPUs may write in between).
`fiq_index`, which only the search of `virt_intr_handler` reads, is left out. A VM that is
granted the GPIO page itself
as an exclusive device goes around the filter; the VMs of the model are not.

**Stage2Mmu** has `page_tables` as one array of words, so that the unmasked reads of
`map_ttbl` can run out of a table. A panic in the middle of a page keeps the tables
that were already linked.

**How they are composed.** `VcpuSched` uses lists as sequences; `FcfsQueue` is shown
to implement `ReadyQueue`, whose operations are those of `VcpuSched` (on one CPU;
across CPUs `fifo_levels` checks what `VcpuSched` relies on, and `fifo_race` shows
where it stops being true). `FcfsQueue` takes `scheduler_locked` in one step;
`LockedQueue` implements `FcfsQueue` with the real lock. `GuestContext` is `VcpuSched`
plus registers (its steps are steps of `VcpuSched`, by proof) and implements
`GuestMachine`, through the mapping `View(v)`: the registers of the CPU that executes
`v`, or else its saved copy. `VirtDevices` is `CoreIntc` plus devices (by proof again).
`Stage2Mmu` implements `AddressSpaces`. `VcpuSched` lets an armed event fire at some
later tick, and `HypTimer` shows that it does; `HypTimer` in turn lets a vcpu sleep only
when it has no event armed, which is `TimerMatchesSleep` of `VcpuSched`. `IdleDeviceIrq`
of `VcpuSched` may happen in any idle CPU; `CoreIntc` shows how far the registers prevent
it.

## 3. What TLC checks

| run | bounds | what it shows |
|---|---|---|
| `sched_smp` | `GuestContext`; 2 CPUs, 2 guests of 2 priorities, programs of 2 and 1 words, virtual SErrors; the clock is left alone and the log endless; 764,493 states | lists, states, running CPUs, register contexts, frames, pending interrupts and wake-up events stay consistent in every interleaving of flags, links and scans; shutdown is final; a more urgent vcpu is passed over only if its adder decides next; each guest sees a machine of its own |
| `sched_boot` | `VcpuSched`; 3 CPUs, 1 vcpu (the shipped configuration), which may stop the clock, a log that may be full, fairness; 8,016 states | the vcpu is never lost; while it is READY a CPU is on its way to it; a sleep on the primary ends |
| `fifo_single` | 1 CPU, 4 vcpus, 2 priorities; 5,458 states | the pointers implement the FIFO queues, with removals of head, middle and tail |
| `fifo_levels` | `LockedQueue`; 2 CPUs from start-up, a vcpu for each of 2 priorities, 3 locks; 757,116 states | the lock instructions give the lock that `FcfsQueue` assumes; handlers run masked to their end; no circular wait; unlocked adds and locked takes lose nothing when no two vcpus have one priority |
| `timer_events` | 4 slots, 2 sleepers, the periodic event, a quantum of 2, guests that write to the core timer, a log that may be full, fairness; 407,412 states | one slot for each event, never full, within a quantum of its time, never stopped too soon; every event fires unless the log is full or a guest has touched the clock |
| `intc_shared` | `VirtDevices`; 2 CPUs, 2 VMs that ask for any of 2 pins, which share a selector, 3 GPU interrupts, VMs symmetric; 840,856 states | the hypervisor timer keeps its interrupt; idle machines are quiet; a pin has one owner and only it drives it; claims are whole and every enabled interrupt but number 0 has an owner |
| `mmu_vms` | tables of 3 words, 10 tables, 9 blocks, 2 VMs of 3 layouts, any subset of 3 devices; 7,433 states | the tables implement one page map for each VM; memory is private, complete and inside what was granted |
| `sched_preempt`, `sched_shutdown`, `sched_secondary`, `fifo_race`, `intc_switch` | smallest that show it | the findings below |

**Why the bounds are enough.** Two CPUs give every race between two handlers, and two
guests every mix-up of two contexts: one that runs while the other is saved, both
running, both moved. A program of two words tells an instruction's address from its
successor's. Lists of length two while a third vcpu runs are beyond `sched_smp` now that
it carries the registers; they occur in `fifo_single` and `sched_preempt` and in the
proofs, which hold for any number. One kind of virtual interrupt suffices in `sched_smp`:
at most one is ever pending for a vcpu, which is proved for all kinds (`LineInvariance`), so
the order of the tests in `set_vintr` cannot be seen. What the log and the clock add are stops,
which `sched_boot` has; here they would only cut behaviours short. Two pins in `intc_shared`
share a selector, the one place where a pin has to do with another; guests write the bit
registers (GPSET, GPREN and so on) of the first only, because those treat their bits alike.
Of three GPU interrupts the first cannot be claimed and a claim may stop between the others.
The `VIEW` of that run leaves out three variables of `CoreIntc`, `saved`, `savedMbox` and
`last`: no step of this run reads the first two, and only the steps that write them read the
third. Four list entries let a removal hit head, middle
and tail. The timer's slots are the vcpus plus two, the number `NeverFull` says is
needed; `Quantum`, `Period` and `Sleeps` are scaled so that events are added at the start, in the
middle and at the end of a quantum and are due at, before and between ticks. In `mmu_vms` one layout crosses a level-3 table, one has a hole and
a message page, devices overlap as CM_GP and CPRMAN do, and tables run out during the
second VM. IPAs stay below 1 GB, where all memory and devices of the board are;
above it the unmasked reads of `map_ttbl` would leave their table.

**Deadlock** is not checked for `VcpuSched` and `GuestContext` (all CPUs may idle or
panic), `HypTimer` (the CPU stops when the log is full) and `Stage2Mmu` (creation ends); it
is for the others, where a CPU that has
panicked stays in `cpu_hlt` as a step of its own. In `LockedQueue` the check alone would
say little, because a spinning `ldaxr` is a step too: `LocksAreOrdered` says it.

**Fairness.** Hypervisor code runs on with interrupts masked, hence weak
fairness of `Add`, `do_schedule`, `TimerDone` and the handler steps. `do_schedule` is weakly
fair only, so a CPU that finds the lock taken again and again may wait for ever. The primary's timer
keeps ticking because the usage event re-arms itself (`HypTimer`), and, while the clock counts, a
pending interrupt is taken whenever the CPU is out of the hypervisor, possibly again and
again between traps: strong fairness of `Tick`. Each tick brings an event nearer, so it
cannot be passed over for ever: strong fairness of `TimerEvent`. In `HypTimer` the counter
counts only until a guest has written to it (`clean /\ TimePasses`).

Three things are *not* assumed away, and stand in the properties instead: the log may be full
at any message (`LogPanic`, `PanicInSwitch`), perhaps with `scheduler_locked` held, so
`SleeperRunsAgain` promises nothing once a CPU has panicked; a guest may stop the clock, so it
promises nothing while `~clock`; and `EveryWakeUpFires` and `UsageGoesOn` promise nothing
`OutOfService`. Since every tick logs, the end of the log does come: the report goes on until
then, not for ever. Guests, and the timer
interrupts of other cores, which are never enabled, are given no fairness. The spin lock is not
fair (a CPU may lose the exclusive store for ever), so no liveness is claimed of
`LockedQueue`.

Each property of a passing run has a mutant of the code in `PROJECT.json` (a dropped
test, a forgotten unlink, an off-by-one) under which TLC finds it violated.

## 4. What is proved

Each proof module proves an inductive invariant, `Init => IInv` and `IInv /\ [Next]_vars => IInv'`,
for every value of the constants that the assumptions of the modules allow, and the stated
properties from it. The stated invariants are seldom inductive themselves; what had to be
added to them says why the code works.

**`VcpuSched_proofs`** (any number of priorities; any CPUs with one vcpu to a priority, or one
CPU with any vcpus: `ListAssumption`): `TypeOK`, `QueueMatchesState`, `RunnerIsUnique`,
`FreshResume`, `TimerMatchesSleep`, `ShutdownIsFinal`, `MostUrgentFirst`. `IInv` adds four parts:

- `LoadedIsCurrent`: the registers of a CPU hold its current vcpu's newest context
  during a handler too, not only when the guest runs.
- `InterruptedStaysPut`: while an exception is handled, the interrupted vcpu is still
  this CPU's, or off, or asleep with an event only this CPU can fire. Hence the list
  cannot contain `last_vcpu` when `fcfs_schedule` takes from it, and skipping the
  restore is safe. This is where `TimerMatchesSleep` is needed: a wake-up fires on the
  CPU that armed it, so it cannot come while that CPU is between sleep and decision.
- `BootOrder`: who may be where before the secondaries are released, and where an add is made.
- `OneScan`: the CPU that scans holds the lock.

There is one lemma for each group of actions (`WfiIInv`, `TimerEventIInv`,
`TakeIInv`, ...) over four lemmas about the lists (`QueueAdd`, `QueueLink`, `QueueTake`,
`QueueKeep`). The vcpu that is between its flags and its link counts as on its way
(`AddedOnce`): one CPU adds it, and no list has it yet.

`MostUrgentFirst` needs more, since a scan *can* pass a vcpu over. `DecisionInv` says that who adds a vcpu
will decide after that (`AddersDecide`: its flag is raised, or it has yet to raise it), and that a
READY vcpu below the level of a scan is one that such a CPU added (`PassedIsAwaited`).

`NoVcpuLost` and `IdleOnlyWithoutWork` are refuted in general (findings 1 and 2; the second also
with one vcpu, see below). Under `OneVcpu`, the configuration of `init_vm_create`, and for any
number of CPUs, `NoVcpuLost` is a theorem (`TheVcpuIsNotLost`), and so is what is left of the
other: `WorkIsAwaited` (`TheVcpuIsAwaited`), by which a CPU may idle past the vcpu but never without
another one that has yet to look. For any number of vcpus `LostByPreemptionOnly` says
that finding 1 is the only way to lose a running vcpu.

**`GuestContext_proofs`** (programs of any length, any kinds of virtual interrupt that
include the SError):

- `ImplementsSched`: every step of `GuestContext` is one of `VcpuSched` or changes no
  variable of it, so `IInv` holds here too (`SchedInvariance`).
- `FramesRight`: `FrameMatchesGuest`, inductive together with `IInv` and the type of `sp`.
- `InterruptsRight`: `InterruptsFollowGuests`, from `LineInv`, which adds that at most one
  interrupt is pending for a vcpu: a handler records one only for the vcpu that trapped,
  which had none, or for a sleeper, which has none because it could not have slept.
- `GuestsAreIsolated`: `ContextSpec` implements `GuestMachine`. The inductive invariant is
  `IInv`, `FrameInv` and `MachineInv`: the saved copy of a vcpu that does not execute is its
  whole newest context, and, while a CPU handles an exception, the parts it restores lazily
  (`fp`, `timer`, `pc`) agree with the saved copy of its current vcpu, and `par` does or is the
  hypervisor's walk for that vcpu (`SameContext`). The step
  simulation has one lemma for each handler: a step of the hypervisor leaves every `View(v)`
  as it was, but for `PAR_EL1`, except that the trapped guest advances by the instruction that was
  emulated, or is refused one and is due an SError; the latter needs `LineInv`. The theorem does
  not say that `PAR_EL1` is preserved, because it is not, and it says nothing of `FPCR` and `FPSR`.

**`FcfsQueue_proofs`**. `OneScheduler` (two CPUs are never in `fcfs_schedule` at once) holds
without a hypothesis. The other results need one, because adds take no lock and `fifo_race`
refutes them in general. There are two safe situations, for any number of vcpus and
priorities:

- `OnePerPriority`: no two vcpus have one priority, nobody removes, any number of CPUs add and
  take. `LevelsTypeCorrect`, `LevelsLoseNoVcpu` (`ReadyIsReachable`) and `LevelsTakeOnce`
  (`TakenOnce`). A list is empty or holds its one vcpu, so no add ever writes through `tail`
  (`HeadsInv`); one CPU at a time is about to add a vcpu, and no other is about to take it
  (`NewInv`).
- `OneCpu`: lists of any length, with removals. `QueueTypeCorrect`, `QueueTailRight`
  (`TailIsLast`), `QueueLosesNoVcpu` and `PointersImplementQueue`, the refinement of
  `ReadyQueue`. The invariant speaks of a sequence for each list that the pointers lead along
  (`Chained`) and says what is in it in the middle of each operation (`Placed`, `Tailed`,
  `Working`). `List`, which reads the sequence off the pointers, is shown to give the one chain there is
  (`ListIsChain`), from the principle that a set of numbers has a least one, which comes from
  the well-foundedness of finite sets and not from an induction rule.

**`LockedQueue_proofs`** (any CPUs and vcpus, without a hypothesis but where it is
named): `HandlersStayMasked` (`HandlersRunMasked`), `OneHolder` (one CPU holds a lock),
`NoCircle` (`LocksAreOrdered`) and `LockImplementsQueue` (`ImplementsFcfsQueue`), hence
`LockedLoseNoVcpu` and `LockedTakeOnce` under `OnePerPriority`. The difficulty is that a
script is a sequence built by concatenation. `Orderly` says of every step in a script
how it fits to what follows (a `ldaxr` before its `stxr`, no lock inside `ser_locked`,
...), and each script is shown to be orderly from its last step to its first. `Open(s)`,
the locks that a script still has to unlock without taking them first, is what a CPU
holds (`HoldsIsOpen`); `WordInv` relates it to the lock words and to the exclusive
monitors, and `MaskInv` to the interrupt mask: a nested `spin_lock` saves "masked" over
the field of the outer one, and this is harmless because the field already said so.

**`HypTimer_proofs`** (any size of the table, any finite set of vcpus, any times): `TypeOK`,
`OneSlotEach`, `TickingWhileArmed`, `NeverFull`, `WakesInTime` and `UsageWithinOneTick`.
`TableInv` adds to the properties that a used block has a callback and that the handler works
on a used block (`RowInv`). `NeverFull` follows by the pigeonhole principle: a full table of
`Cardinality(Vcpus) + 2` blocks would hold one event twice when an event is added, and
`OneSlotEach` allows that only while the old block waits to be cleared, when nothing adds.
`WakesInTime` rests on two invariants. `TimeInv`: in each block, `msec` is what was asked minus one quantum
for each interrupt that has already reached it in the current pass or before. `ClockInv`: while no
guest has written to the core timer, the time since an event was added is a quantum for each
interrupt but the first, which came after what `tval` was then. The difference of
the two is less than a quantum on either side. The periodic
event (`UsageInv`) may have lost one quantum more, when its callback put it into a
block behind its own and the same pass came by, and for a moment it has two blocks.

**`CoreIntc_proofs`** (any CPUs and guests): `TypeOK`, `HypTimerStaysEnabled`, `IdleIsQuiet`.
`IdleIsQuiet` is not inductive, because the idle loops of `init.c` do not reset the
controller: the strengthening `Quiet` says that only a CPU that is awake after running a guest
can have left an enabled interrupt.

**`VirtDevices_proofs`** (any pins, banks, selectors, interrupts and VMs): `VirtDevices` implements
`CoreIntc` (`ImplementsIntc`), so that the three results hold with devices and several VMs
(`DevicesAreQuiet`); and, from `ClaimInv` (claims have their types, only created VMs run, pins,
claims and enables are as stated), `PinsBelongToOne`, `ClaimsAreWhole` and
`OnlyTheOwnerDrives`. The last needs that only created VMs run: the pins that a VM asked for
are stored before `gpio_assign` refuses it, so a VM whose creation panicked would drive another's
pins. `ClaimsAreWhole` is about the numbers that can be claimed: it does not hold of number 0.
`OnlyTheOwnerDrives` does not say that a driven pin stays driven, nor that it keeps its function
while a selector is read: neither is true.

**`Stage2Mmu_proofs`** (tables of any size, any number of them, any pool, layouts and
devices): `TypeOK`, `GuestsStayInside` (`GuestsAreConfined`), `MemoryIsPrivate`
(`GuestsAreIsolated`), `WholeMemoryMapped` (`MemoryIsMapped`) and the refinement of
`AddressSpaces` (`TablesImplementSpaces`). The tables are one array of words that the code
computes indices into. `TreeInv` says that they are trees: each table in use is linked once, by
one word of one VM, and no link leads above `bottom_index`. From it one lemma (`WalkStep`)
derives what an iteration of `map_page_table` does to every walk of every VM: one page of the VM
that is being created changes, or none. The other parts are arithmetic of the allocator
(`BlockInv`: no page of the pool is given out twice) and of the loop (`MapInv`,
`MappedOrAhead`: a page of a region is mapped already, or the loop has yet to reach it).

**Assumptions.** Those of the modules, which TLC evaluates on every run: constants have their
types, `None` and other marks are not values of what they stand beside, `Primary` is a CPU
(`CpuAssumption`, `VcpuAssumption`, `PriorityAssumption`, `ContextAssumption`,
`IntcAssumption`, `DeviceAssumption`, `LockedAssumption`); finitely many vcpus
(`QueueAssumption`, `TimerAssumption`); no two vcpus in one list, or one CPU
(`ListAssumption`), without which a link is not one step; a positive quantum and period, as `hyp_timer.c` and
`pmu.c` have them; tables and the pool are not empty, and pool and device pages are disjoint
(`SizeAssumption`, `RegionAssumption`); the regions of a VM do not overlap
(`DisjointAssumption`), as in the tables of `guest_vm.c`, used by `WholeMemoryMapped` only.

**Only model-checked**, and why:

- Liveness (`SleeperRunsAgain`, `EveryWakeUpFires`, `UsageGoesOn`): out of the prover's
  reach.
- The four invariants of `FcfsQueue` in configurations between the two hypotheses above, such
  as several CPUs of which only one adds.

## 5. Findings

1. `sched_preempt`: `fcfs_schedule` (`fcfs_schedule.c:137`) overwrites `current_vcpu`
   and puts the running vcpu nowhere; after any wake-up on its CPU it never runs again.
   The shipped configuration has one VM and is not affected.
2. `sched_shutdown`: `vcpu_off` (`vcpu.c:114`) does not set `schedule_is_needed`, so a
   CPU idles while a READY vcpu waits. (With several CPUs there is another way: a CPU clears its
   flag between another one's flags and link, finds nothing and idles. The adder decides next, so
   the vcpu is taken all the same: `WorkIsAwaited`.)
3. `sched_secondary`: `_hyp_timer_core_start` (`hyp_timer.c:88`) always enables core
   0's timer interrupt; a vcpu that sleeps on another CPU never wakes. The shipped
   configuration *is* affected when a secondary CPU wins the race at start-up.
4. `fifo_race`: `fcfs_scheduler_add` (`fcfs_schedule.c:73`) without the lock can link a
   vcpu behind one that has just been taken.
5. `intc_switch`: `vcpu_context_switch` (`vcpu.c:356`) saves device registers where it
   should restore them; with the reset in the idle loop a guest loses the interrupts it
   enabled at its first sleep.

Noted while reading, without a run:

- `exclusive_devices[i].vm` is never written (`virt_mmio.c:57`), so two VMs may be given
  the same device.
- The search for a pending GPU interrupt panics at the first number that is not pending
  (`virq.c:571`); bit 8 of the source register makes the test of `virq.c:550` true, and
  the interrupt goes to the VM that runs on core 0.
- `vm_create` assigns all GPU interrupts to every VM and ignores `excl_intr_opt`
  (`vm.c:82`): the first VM claims all of them, a second one none, and yet it may enable and
  disable all of them (`ClaimsAreWhole` checks the claims).
- GPFSELn: a read (`virt_gpio.c:93`) shifts the hardware register itself, ten times, and
  builds its result in an uninitialised variable; a write (`virt_gpio.c:185`) clears the functions of
  all pins of the register that are not the writer's. Either contradicts `virt_gpio.c:4`, "exclusive
  manege each gpio pin": another VM's output becomes an input, or has its neighbour's function
  for a while (modelled, `WriteSelector`, `ShiftSelector`). GPREN and the other detect registers are
  written whole, so another VM's bits are cleared (modelled).
- Interrupt number 0 of the BCM2835 can be enabled by every guest (`virq.c:241` with `vm.c:82`),
  but the claims and their initialisation start at 1 (`virq.c:513,523`). It belongs to nobody, and
  `irq_vec_table[0]` is zero and not `NULL` at `virq.c:561` (modelled but for the search).
- A guest's writes to CORE_TIMER_CONTROL, PRESCALER, LS and MS go to the hardware as they are,
  under the comment "Do not allowed to write these register." (`virq.c:388-393`): one guest can
  stop the clock of all CPUs (modelled, `Trap` of `VcpuSched`, `WriteClock`).
- `PAR_EL1` is saved and restored as the guest's (`vcpu.c:269,307`), but the hypervisor's own
  translations overwrite it and the lazy switch does not restore it; a guest that is trapped
  between its `at` and its `mrs` reads the hypervisor's result (modelled, `ParOverwritten`). `FPCR` and
  `FPSR` are not saved at all, as the TODO of `vcpu.h:25-29` admits (not modelled).
- A checked call (`sec_blr`) from EL1 links to the address of its HVC plus eight:
  `hyp_security_fast.S:174-176` adds four to a pc that is past the HVC already, where the comment
  says "$LR = $PC + 4" (`hyp_security_fast.S:173`) of an emulated "normal blr instruction" (171) and the slow
  path takes the pc as it is (`hyp_security.c:67-68`). From EL0 the pc is that of the instruction and
  the link is right (modelled, `CallFromEl1`).
- An event loses `DEFAULT_TIMER_MSEC` at the next tick, however late in the quantum it was added
  (`hyp_timer.c:241`), so a guest may be woken up to a quantum before its time (modelled,
  `WakesInTime`).
- A device interrupt of the GPU in an idle CPU is fatal. `virt_mmio_reg_reset` does not
  disable GPU interrupts, so `IdleIsQuiet` covers the BCM2836 registers only.
- `vcpu_num` greater than one leaves `vcpu[1]` unset in `vm_create`.
- `bcm2835_ic_reg_read` writes the destination and then falls through to its refusal
  (`virq.c:194`), so a guest that reads a pending or enable register gets the value and an
  SError for it; `bcm2836_ic_reg_read` and `_write` end without a return value, so their
  callers may take any access for refused (modelled, `LateRefusal`).
- The vectors for FIQs lead to the handler of synchronous exceptions (`vector.S:150`).
- After `LOG_NUM_MAX` messages `log_vprintf` panics, possibly with `scheduler_locked` held;
  the other CPUs then spin at their next `do_schedule` (modelled). Each tick logs three messages and
  more, so the machine gets there in time whatever its guests do. A comment in `hyp_panic` has it as
  "TODO: Also stop another cpus".

A reading that matters: the first `if` of `vcpu_sleep` (`vcpu.c:129`) opens a brace
that is never closed, so the file cannot be compiled as it stands. The model follows the
indentation: two tests that end in a panic, one after the other, and then the rest of
the function.

## 6. Not modelled

Decoding of syndromes and instructions, formatting, UART; the contents of
emulated registers other than those of `CoreIntc` and `VirtDevices`: CPRMAN, which reads zero and ignores writes, and the route and FIQ selection of GPU
interrupts (`gpu_irq_route`, `fiq_index`), and the search of `virt_intr_handler`; `FPCR` and `FPSR`; the two mailbox devices, which are commented out of the device tables;
FIQs, which nothing enables unless a guest asks for one of its core timer; memory barriers
and TLB maintenance; `mmu_init` and the EL3/EL2 set-up (straight-line register writes);
`timer_event_remove`, `hyp_timer_core_init`, `virt_mmio_reg_context_restore`, which
have no callers in the running system; `rr_schedule.c` and `no_schedule.c`: no VM of
`guest_vm.c` belongs to CPU 1, whose round-robin list therefore stays empty, and no CPU has the
no-op scheduler; `sd.c`, `sdhost.c`, `arm_timer.c`; the sample
guest, which appears as the free choices of a vcpu. A memory model weaker than sequential
consistency is not modelled either: lists are written without barriers outside the lock, which
can only add to what `fifo_race` shows.

## 7. Plan

Done: every module of section 2, and for each of them the proofs of section 4.

Left, in this order:

1. `FcfsQueue` with several CPUs of which one adds to each priority: the chain of `OneCpu` with
   a vcpu that is being taken at its front while another is added at its end.
2. The route of GPU interrupts (`virt_intr_handler`, `virt_device_intr_route`) on top of
   `VirtDevices`, if the search of `virq.c:571` is completed.
