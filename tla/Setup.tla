------------------------------- MODULE Setup --------------------------------
(***************************************************************************)
(* Setting up a processor to take exceptions and interrupts, and changing  *)
(* gates while it takes them: init_arch_early (src/c/start.c),             *)
(* smp_register_ap (src/c/smp.c) with what it calls in src/c/gdt.c,        *)
(* src/asm/gdt.asm, src/c/interrupt.c, src/c/apic/local.c, src/c/context.c *)
(* and src/c/generic_isrs.c, and interrupt_set at run time.                *)
(*                                                                         *)
(* An exception or NMI may come between any two steps, and reaches its     *)
(* handler only if the GDT, the IDT, the TSS and the gate agree then.  The *)
(* boot processor has registered before an application processor starts,   *)
(* and these come one after another (module Smp).                          *)
(***************************************************************************)
EXTENDS Integers, FiniteSets

CONSTANTS
  Bsp, Aps,
  Cpuids,      \* the features the processors may have, all the same ones
  Listings,    \* the features the bootstrapper may list, whether it has found them or not
  Exceptions,  \* vectors below 32
  Devices,     \* vectors above 32
  Handlers,    \* for the devices' gates
  Idle         \* no interrupt_set is going on

TimerVector == 32
Processors  == {Bsp} \union Aps
Irqs        == {TimerVector} \union Devices
Vectors     == Exceptions \union Irqs

\* Features that CR4 enables (OSFXSR, OSXSAVE, PCIDE); what a descriptor lists; and
\* what cpuid reports, of which AESNI is bit 25 of ECX, as SSE is of EDX.
InCr4    == {"FXSAVE", "XSAVE", "PCID"}
Features == InCr4 \union {"SSE1"}
CpuFeatures == InCr4 \union {"AESNI"}

\* Gates, and the calls of interrupt_set.
HandlerNames == {"none", "junk", "stub", "torn", "sched_timer_hook"} \union Handlers
Gates == [handler : HandlerNames, segment : {0, 8, 24}, present : BOOLEAN, ist : {0, 1}]
Jobs  == [vector : Irqs, gate : Gates, enabled : BOOLEAN,
          at : {"offset", "segment", "attrs", "ist", "end"}]

ASSUME SetupAssumption ==
  /\ Bsp \notin Aps /\ IsFiniteSet(Aps)
  /\ Cpuids \subseteq SUBSET CpuFeatures
  /\ Listings \subseteq SUBSET Features
  /\ Exceptions \subseteq 0..31 /\ Exceptions # {}
  /\ Devices \subseteq 33..255
  /\ Idle \notin Jobs
  /\ Handlers \intersect {"torn", "none", "junk", "stub"} = {}

VARIABLES
  \* The processor.
  cpuid,     \* its features
  gdt,       \* whose GDT is loaded: the bootstrapper's or the trampoline's, or its own
  limit,     \* the number of gates in the IDT that is loaded
  tr,        \* the TSS is loaded
  gs,        \* the GS base leads to its descriptor
  ie,        \* interrupts are enabled
  cr4,       \* the features CR4 enables
  timer,     \* the entry for the timer in the local APIC's vector table
  pending,   \* interrupts the local APIC holds
  \* Its descriptor.
  gates,     \* idt_entries
  features,
  ist1,      \* the top of the stack in the TSS
  \* The program.
  at,        \* the step a processor is at
  counter,   \* Arc_ProcessorCounter
  job,       \* the interrupt_set it is in
  frames,    \* the interrupt frames that are on the IST1 stack
  routed     \* the devices whose interrupts go to the boot processor

memory   == <<gates, features, ist1>>
tables   == <<gdt, limit, tr, gs>>
program  == <<counter, job, frames, routed>>
setupVars == <<cpuid, tables, ie, cr4, timer, pending, memory, at, program>>

-----------------------------------------------------------------------------
(* Gates *)

EarlyKernelCs == 24
KernelCs      == 8
UserCs        == 24

NoGate == [handler |-> "none", segment |-> 0, present |-> FALSE, ist |-> 0]
Junk   == [handler |-> "junk", segment |-> KernelCs, present |-> TRUE, ist |-> 0]

\* install_idt_gate
Gate(handler, segment, ist) ==
  [handler |-> handler, segment |-> segment, present |-> TRUE, ist |-> ist]

\* interrupt_set: a gate for the kernel runs on IST1, one for a user on the stack of
\* the TSS and in the segment USER_CS.
GateOf(handler, kernel) ==
  Gate(handler, IF kernel THEN KernelCs ELSE UserCs, IF kernel THEN 1 ELSE 0)

\* What a selector means: the GDT before, and the one init_static_gdt makes.
Segment(table, selector) ==
  CASE table = "early" /\ selector = 24 -> "kernel code"
    [] table = "own" /\ selector = 8    -> "kernel code"
    [] table = "own" /\ selector = 16   -> "kernel data"
    [] table = "own" /\ selector = 24   -> "user data"
    [] table = "own" /\ selector = 32   -> "user code"
    [] OTHER                            -> "none"

\* The processor reaches the handler of a gate of its own table.
Delivers(p, v) ==
  LET g == gates[p][v] IN
  /\ v < limit[p]
  /\ g.present
  /\ Segment(gdt[p], g.segment) = "kernel code"
  /\ g.ist = 1 => tr[p] /\ ist1[p] = "stack"

-----------------------------------------------------------------------------
(* Memory that alloc returns is not cleared: an application processor's    *)
(* table of gates and its features hold anything, or nothing.              *)

SetupInit ==
  /\ cpuid \in Cpuids
  /\ gdt = [p \in Processors |-> "early"]
  /\ limit = [p \in Processors |-> 0]
  /\ tr = [p \in Processors |-> FALSE]
  /\ gs = [p \in Processors |-> FALSE]
  /\ ie = [p \in Processors |-> FALSE]
  /\ cr4 = [p \in Processors |-> {}]
  /\ timer = [p \in Processors |-> "off"]
  /\ pending = [p \in Processors |-> {}]
  /\ \E junk \in SUBSET Aps :
       /\ gates = [p \in Processors |-> [v \in Vectors |-> IF p \in junk THEN Junk ELSE NoGate]]
       /\ features = [p \in Processors |-> IF p \in junk THEN Features ELSE {}]
  /\ ist1 = [p \in Processors |-> "none"]
  /\ at = [p \in Processors |-> IF p = Bsp THEN "boot" ELSE "halted"]
  /\ counter = 0
  /\ job = [p \in Processors |-> Idle]
  /\ frames = [p \in Processors |-> 0]
  /\ routed = {}

Go(p, step) == at' = [at EXCEPT ![p] = step]
Step(p, from, to) == at[p] = from /\ Go(p, to)

-----------------------------------------------------------------------------
(* init_arch_early *)

\* internal_init_early_exceptions
ExceptionGates(p, segment, ist) ==
  [v \in Vectors |-> IF v \in Exceptions THEN Gate("stub", segment, ist) ELSE gates[p][v]]

\* The features are copied from what the bootstrapper lists.
EarlyGates ==
  /\ Step(Bsp, "boot", "early")
  /\ \E meta \in Listings : features' = [features EXCEPT ![Bsp] = meta]
  /\ gates' = [gates EXCEPT ![Bsp] = ExceptionGates(Bsp, EarlyKernelCs, 0)]
  /\ UNCHANGED <<cpuid, tables, ie, cr4, timer, pending, ist1, program>>

EarlyLoad ==
  /\ Step(Bsp, "early", "loaded")
  /\ limit' = [limit EXCEPT ![Bsp] = 32]
  /\ UNCHANGED <<cpuid, gdt, tr, gs, ie, cr4, timer, pending, memory, program>>

EarlyDescriptor ==
  /\ Step(Bsp, "loaded", "enter")
  /\ gs' = [gs EXCEPT ![Bsp] = TRUE]
  /\ UNCHANGED <<cpuid, gdt, limit, tr, ie, cr4, timer, pending, memory, program>>

-----------------------------------------------------------------------------
(* smp_register_ap *)

\* smp_init_ap: the trampoline jumps to an application processor's entry, and the boot
\* processor waits until it is done.
StartAp(p) ==
  /\ at[Bsp] = "starting"
  /\ \A q \in Aps : at[q] \in {"halted", "held"}
  /\ Step(p, "halted", "enter")
  /\ UNCHANGED <<cpuid, tables, ie, cr4, timer, pending, memory, program>>

\* The stacks, which nobody checks, the TSS and the GDT, in the descriptor.
Prepare(p) ==
  /\ Step(p, "enter", "gdt")
  /\ \E top \in {"stack", "nothing"} : ist1' = [ist1 EXCEPT ![p] = top]
  /\ UNCHANGED <<cpuid, tables, ie, cr4, timer, pending, gates, features, program>>

LoadGdt(p) ==
  /\ Step(p, "gdt", "tss")
  /\ gdt' = [gdt EXCEPT ![p] = "own"]
  /\ ie' = [ie EXCEPT ![p] = FALSE]
  /\ UNCHANGED <<cpuid, limit, tr, gs, cr4, timer, pending, memory, program>>

UseTss(p) ==
  /\ Step(p, "tss", "descriptor")
  /\ tr' = [tr EXCEPT ![p] = TRUE]
  /\ UNCHANGED <<cpuid, gdt, limit, gs, ie, cr4, timer, pending, memory, program>>

SetDescriptor(p) ==
  /\ Step(p, "descriptor", "features")
  /\ gs' = [gs EXCEPT ![p] = TRUE]
  /\ UNCHANGED <<cpuid, gdt, limit, tr, ie, cr4, timer, pending, memory, program>>

EnabledFeatures == cpuid \intersect InCr4
ListedFeatures  == EnabledFeatures \union (IF "AESNI" \in cpuid THEN {"SSE1"} ELSE {})

\* context_set_proc_features adds to what the descriptor holds, and to CR4.
SetFeatures(p) ==
  /\ Step(p, "features", "lapic")
  /\ features' = [features EXCEPT ![p] = @ \union ListedFeatures]
  /\ cr4' = [cr4 EXCEPT ![p] = @ \union EnabledFeatures]
  /\ UNCHANGED <<cpuid, tables, ie, timer, pending, gates, ist1, program>>

\* While the local APIC is off, its timer would stay masked.
InitLapic(p) ==
  /\ Step(p, "lapic", "gates")
  /\ timer' = [timer EXCEPT ![p] = "masked"]
  /\ UNCHANGED <<cpuid, tables, ie, cr4, pending, memory, program>>

\* Faulty: in the bootstrapper's code segment.
InitGatesEarly(p) ==
  /\ Step(p, "gates", "idt")
  /\ gates' = [gates EXCEPT ![p] = ExceptionGates(p, EarlyKernelCs, 1)]
  /\ UNCHANGED <<cpuid, tables, ie, cr4, timer, pending, features, ist1, program>>

InitGates(p) ==
  /\ Step(p, "gates", "idt")
  /\ gates' = [gates EXCEPT ![p] = ExceptionGates(p, KernelCs, 1)]
  /\ UNCHANGED <<cpuid, tables, ie, cr4, timer, pending, features, ist1, program>>

LoadIdt(p) ==
  /\ Step(p, "idt", "syscall")
  /\ limit' = [limit EXCEPT ![p] = 256]
  /\ UNCHANGED <<cpuid, gdt, tr, gs, ie, cr4, timer, pending, memory, program>>

\* The stack for system calls is the one that is checked.
InitSyscall(p) ==
  /\ at[p] = "syscall"
  /\ Go(p, "timer") \/ Go(p, "hung")
  /\ UNCHANGED <<cpuid, tables, ie, cr4, timer, pending, memory, program>>

\* The first processor has the timer.
ArmTimer(p) ==
  /\ Step(p, "timer", "gate")
  /\ timer' = IF counter = 0 /\ timer[p] = "masked" THEN [timer EXCEPT ![p] = "armed"] ELSE timer
  /\ UNCHANGED <<cpuid, tables, ie, cr4, pending, memory, program>>

-----------------------------------------------------------------------------
(* interrupt_set: the flag is saved, interrupts are disabled, and the gate *)
(* is written store by store.                                              *)

\* Faulty: interrupts stay as they are.
BeginEnabled(p, v, gate) ==
  /\ job[p] = Idle
  /\ job' = [job EXCEPT ![p] = [vector |-> v, gate |-> gate, enabled |-> ie[p], at |-> "offset"]]
  /\ UNCHANGED ie

Begin(p, v, gate) ==
  /\ job[p] = Idle
  /\ job' = [job EXCEPT ![p] = [vector |-> v, gate |-> gate, enabled |-> ie[p], at |-> "offset"]]
  /\ ie' = [ie EXCEPT ![p] = FALSE]

\* The offset is three stores, one handler's half and the other's between them; a gate
\* is cleared by a memset.
Stored(old, j) ==
  CASE j.at = "offset"  -> IF j.gate = NoGate THEN NoGate ELSE [old EXCEPT !.handler = "torn"]
    [] j.at = "segment" -> [old EXCEPT !.handler = j.gate.handler, !.segment = j.gate.segment]
    [] j.at = "attrs"   -> [old EXCEPT !.present = TRUE]
    [] j.at = "ist"     -> j.gate
NextStore(j) ==
  CASE j.at = "offset" -> IF j.gate = NoGate THEN "end" ELSE "segment"
    [] j.at = "segment" -> "attrs" [] j.at = "attrs" -> "ist" [] j.at = "ist" -> "end"

Store(p) ==
  /\ job[p] # Idle /\ job[p].at # "end"
  /\ gates' = [gates EXCEPT ![p][job[p].vector] = Stored(@, job[p])]
  /\ job' = [job EXCEPT ![p].at = NextStore(job[p])]
  /\ UNCHANGED <<cpuid, tables, ie, cr4, timer, pending, features, ist1, at, counter, frames, routed>>

\* Faulty: interrupts are enabled whether they were or not.
Enabled(j) == TRUE
Restored(j) == j.enabled

End(p) ==
  /\ job[p] # Idle /\ job[p].at = "end"
  /\ ie' = [ie EXCEPT ![p] = Restored(job[p])]
  /\ job' = [job EXCEPT ![p] = Idle]
  /\ UNCHANGED <<cpuid, tables, cr4, timer, pending, memory, at, counter, frames, routed>>

SetTimerGate(p) ==
  /\ Step(p, "gate", "count")
  /\ Begin(p, TimerVector, GateOf("sched_timer_hook", TRUE))
  /\ UNCHANGED <<cpuid, tables, cr4, timer, pending, memory, counter, frames, routed>>

\* Faulty: the boot processor's entry is counted like the others', and by itself.
CountTwice(p) ==
  /\ at[p] = "count" /\ job[p] = Idle
  /\ counter' = IF p = Bsp THEN counter + 2 ELSE counter + 1
  /\ IF p = Bsp THEN Go(p, "starting") ELSE Go(p, "held")
  /\ UNCHANGED <<cpuid, tables, ie, cr4, timer, pending, memory, job, frames, routed>>

\* The boot processor goes on to the others; these disable interrupts and halt.
Count(p) ==
  /\ at[p] = "count" /\ job[p] = Idle
  /\ counter' = counter + 1
  /\ IF p = Bsp THEN Go(p, "starting") /\ UNCHANGED ie
                ELSE Go(p, "held") /\ ie' = [ie EXCEPT ![p] = FALSE]
  /\ UNCHANGED <<cpuid, tables, cr4, timer, pending, memory, job, frames, routed>>

\* init_arch returns.
FinishInit ==
  /\ \A p \in Aps : at[p] = "held"
  /\ Step(Bsp, "starting", "running")
  /\ UNCHANGED <<cpuid, tables, ie, cr4, timer, pending, memory, program>>

Register(p) ==
  \/ p \in Aps /\ StartAp(p)
  \/ Prepare(p) \/ LoadGdt(p) \/ UseTss(p) \/ SetDescriptor(p) \/ SetFeatures(p)
  \/ InitLapic(p) \/ InitGates(p) \/ LoadIdt(p) \/ InitSyscall(p) \/ ArmTimer(p)
  \/ SetTimerGate(p) \/ Store(p) \/ End(p) \/ Count(p)

-----------------------------------------------------------------------------
(* The boot processor at run time.  The kernel, whose code is elsewhere,   *)
(* enables interrupts outside handlers, has a device's interrupts sent to  *)
(* the processor once its gate is set, and clears the gate only when no    *)
(* more of them can come.                                                  *)

Running == at[Bsp] = "running"
Thread  == Running /\ frames[Bsp] = 0 /\ job[Bsp] = Idle
NoPc    == <<cpuid, tables, cr4, features, ist1, at, counter>>

SwitchInterrupts ==
  /\ Thread
  /\ ie' = [ie EXCEPT ![Bsp] = ~@]
  /\ UNCHANGED <<NoPc, timer, pending, gates, job, frames, routed>>

\* In a thread or in a handler, for a device; without a handler the gate is cleared.
InterruptSet ==
  /\ Running
  /\ \E v \in Devices :
       \/ \E h \in Handlers : Begin(Bsp, v, GateOf(h, TRUE))
       \/ v \notin routed \union pending[Bsp] /\ Begin(Bsp, v, NoGate)
  /\ UNCHANGED <<NoPc, timer, pending, gates, frames, routed>>

Route ==
  /\ Running /\ job[Bsp] = Idle
  /\ \E v \in Devices :
       \/ gates[Bsp][v] # NoGate /\ routed' = routed \union {v}
       \/ routed' = routed \ {v}
  /\ UNCHANGED <<NoPc, ie, timer, pending, gates, job, frames>>

\* lapic_timer_mask
MaskTimer ==
  /\ Running
  /\ \E mask \in BOOLEAN : timer' = [timer EXCEPT ![Bsp] = IF mask THEN "masked" ELSE "armed"]
  /\ UNCHANGED <<NoPc, ie, pending, gates, job, frames, routed>>

\* An interrupt arrives at the local APIC, at any time since its source is on.
Raise ==
  /\ \E v \in routed \union (IF timer[Bsp] = "armed" THEN {TimerVector} ELSE {}) :
       pending' = [pending EXCEPT ![Bsp] = @ \union {v}]
  /\ UNCHANGED <<NoPc, ie, timer, gates, job, frames, routed>>

\* A gate clears the flag; all kernel gates share one stack.  MaxFrames cuts off
\* what a second frame on it leads to.
MaxFrames == 2
Interrupt ==
  /\ ie[Bsp] /\ frames[Bsp] < MaxFrames
  /\ \E v \in pending[Bsp] :
       /\ Delivers(Bsp, v)
       /\ pending' = [pending EXCEPT ![Bsp] = @ \ {v}]
  /\ ie' = [ie EXCEPT ![Bsp] = FALSE]
  /\ frames' = [frames EXCEPT ![Bsp] = @ + 1]
  /\ UNCHANGED <<NoPc, timer, gates, job, routed>>

\* interrupt_end, and the iretq of the stub: the flag is that of the frame.
Return ==
  /\ frames[Bsp] > 0 /\ job[Bsp] = Idle
  /\ frames' = [frames EXCEPT ![Bsp] = @ - 1]
  /\ ie' = [ie EXCEPT ![Bsp] = TRUE]
  /\ UNCHANGED <<NoPc, timer, pending, gates, job, routed>>

Run == \/ SwitchInterrupts \/ InterruptSet \/ Route \/ MaskTimer
       \/ Raise \/ Interrupt \/ Return

SetupNext ==
  \/ EarlyGates \/ EarlyLoad \/ EarlyDescriptor
  \/ \E p \in Processors : Register(p)
  \/ FinishInit \/ Run

SetupSpec == SetupInit /\ [][SetupNext]_setupVars

-----------------------------------------------------------------------------
(* Properties *)

Registering == {"enter", "gdt", "tss", "descriptor", "features", "lapic", "gates", "idt",
                "syscall", "timer", "gate", "count"}
Steps == Registering \union {"boot", "early", "loaded", "halted", "starting", "running", "held", "hung"}

\* The type of every variable; only what was never cleared holds junk.
SetupTypeOK ==
  /\ cpuid \in Cpuids
  /\ gdt \in [Processors -> {"early", "own"}]
  /\ limit \in [Processors -> {0, 32, 256}]
  /\ tr \in [Processors -> BOOLEAN]
  /\ gs \in [Processors -> BOOLEAN]
  /\ ie \in [Processors -> BOOLEAN]
  /\ cr4 \in [Processors -> SUBSET InCr4]
  /\ timer \in [Processors -> {"off", "masked", "armed"}]
  /\ pending \in [Processors -> SUBSET Irqs]
  /\ gates \in [Processors -> [Vectors -> Gates]]
  /\ features \in [Processors -> SUBSET Features]
  /\ ist1 \in [Processors -> {"none", "stack", "nothing"}]
  /\ at \in [Processors -> Steps]
  /\ counter \in 0..Cardinality(Processors)
  /\ job \in [Processors -> Jobs \union {Idle}]
  /\ frames \in [Processors -> 0..MaxFrames]
  /\ routed \subseteq Devices

\* The times at which no exception reaches a handler that finds its descriptor: before
\* the first IDT is loaded and the GS base is written; on the boot processor also from the load of the GDT, in which the selector of its
\* early gates is a data segment, until the gates are made again.
Blind(p) ==
  \/ at[p] \in {"boot", "early", "loaded", "halted"}
  \/ p # Bsp /\ at[p] \in {"enter", "gdt"}
  \/ at[p] \in {"tss", "descriptor", "features", "lapic", "gates"}
  \/ p # Bsp /\ at[p] = "idt"

\* Outside these times, and only then, every exception reaches its handler, with the
\* descriptor that handlers use - unless there was no memory for the stack of IST1,
\* which nobody notices.
TrapsAreDelivered ==
  \A p \in Processors :
    ist1[p] # "nothing" =>
      ((\A v \in Exceptions : Delivers(p, v)) /\ gs[p] <=> ~Blind(p))

\* Whatever interrupt the processor can take now has a whole gate that is delivered:
\* the timer, which is armed before its gate is set; a device whose gate is being
\* changed or cleared; one that was held back.
InterruptsFindGates ==
  \A p \in Processors :
    ie[p] /\ ist1[p] # "nothing" =>
      \A v \in pending[p] :
        Delivers(p, v) /\ gates[p][v].ist = 1 /\ gates[p][v].handler \notin {"none", "junk", "torn"}

\* All gates share the stack of IST1, which starts at its top for every interrupt: a
\* second one, inside a handler, would overwrite the frame of the first.
FramesAreKept == \A p \in Processors : frames[p] <= 1
=============================================================================
