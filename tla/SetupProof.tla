----------------------------- MODULE SetupProof -----------------------------
(***************************************************************************)
(* The inductive invariant of Setup, for any number of processors,         *)
(* devices and handlers.  ContextsProof extends it to contexts and states  *)
(* the theorems.                                                           *)
(*                                                                         *)
(* The argument: what a trap needs is a function of the step a processor   *)
(* is at.  Only the boot processor, when it runs, enables interrupts, and  *)
(* it does so neither in a handler nor in interrupt_set; so an interrupt   *)
(* never meets a frame on the stack or a gate that is half written, and    *)
(* an interrupt_set called by a handler leaves interrupts disabled.        *)
(***************************************************************************)
EXTENDS Setup, FiniteSetTheorems, TLAPS

Bootstrap == {"boot", "early", "loaded"}
Unloaded  == Bootstrap \union {"halted", "enter", "gdt"}
OwnGates  == {"idt", "syscall", "timer", "gate", "count", "starting", "running", "held", "hung"}
OwnIdt    == OwnGates \ {"idt"}

\* What is loaded, and made, when a processor is at a step.
Stage(p) ==
  /\ p = Bsp => at[p] \notin {"halted", "held"}
  /\ p # Bsp => at[p] \notin Bootstrap \union {"starting", "running"}
  /\ limit[p] = IF at[p] \in OwnIdt THEN 256
                ELSE IF p = Bsp /\ at[p] \notin {"boot", "early"} THEN 32 ELSE 0
  /\ gdt[p] = IF at[p] \in Unloaded THEN "early" ELSE "own"
  /\ tr[p] <=> at[p] \notin Unloaded \union {"tss"}
  /\ gs[p] <=> IF p = Bsp THEN at[p] \notin Bootstrap
               ELSE at[p] \notin Unloaded \union {"tss", "descriptor"}
  /\ ist1[p] \in IF at[p] \in Bootstrap \union {"halted", "enter"}
                   THEN {"none"} ELSE {"stack", "nothing"}
  /\ at[p] \in OwnGates =>
       \A v \in Exceptions : gates[p][v] = Gate("stub", KernelCs, 1)
  /\ p = Bsp /\ at[p] \notin OwnGates \union {"boot"} =>
       \A v \in Exceptions : gates[p][v] = Gate("stub", EarlyKernelCs, 0)
StageOK == \A p \in Processors : Stage(p)

\* Interrupts are disabled where a frame is on the stack or a gate is being written, and
\* interrupt_set will find that they were disabled in a handler.
Quiet(p) ==
  /\ frames[p] \in {0, 1}
  /\ frames[p] = 1 => ~ie[p]
  /\ job[p] # Idle => ~ie[p]
  /\ job[p] # Idle /\ frames[p] = 1 => ~job[p].enabled
QuietOK == \A p \in Processors : Quiet(p)

\* Only the boot processor, when it runs, takes interrupts.
BspOnlyOK ==
  /\ \A p \in Aps : pending[p] = {}
  /\ frames[Bsp] > 0 => at[Bsp] = "running"
  /\ at[Bsp] # "running" => ~ie[Bsp] /\ (job[Bsp] # Idle => ~job[Bsp].enabled)

\* Gates as interrupt_set makes them for the kernel.
Whole == {GateOf(h, TRUE) : h \in {"sched_timer_hook"} \union Handlers}

Writing(v) == job[Bsp] # Idle /\ job[Bsp].vector = v

\* Interrupts that may come: their gates must not be cleared.
MayCome(v) ==
  \/ v = TimerVector /\ at[Bsp] \in {"count", "starting", "running"}
  \/ v \in Devices /\ (v \in routed \/ v \in pending[Bsp])

\* A gate that nobody is writing is clear or whole, and whole if it is live; one that is
\* being written will be.
IrqGate(v) ==
  /\ ~Writing(v) => /\ gates[Bsp][v] \in Whole \union {NoGate}
                    /\ MayCome(v) => gates[Bsp][v] \in Whole
  /\ Writing(v) => /\ job[Bsp].gate \in Whole \union {NoGate}
                   /\ MayCome(v) => job[Bsp].gate \in Whole
                   /\ job[Bsp].at = "end" => gates[Bsp][v] = job[Bsp].gate
GatesOK == \A v \in Irqs : IrqGate(v)

\* Once they are set, the features that the processor has are listed, beside what the
\* bootstrapper lists, and enabled.
FeaturesOK ==
  at[Bsp] \notin Unloaded \union {"tss", "descriptor", "features"} =>
    ListedFeatures \subseteq features[Bsp] /\ EnabledFeatures \subseteq cr4[Bsp]

Counted == {p \in Processors : at[p] \in {"starting", "running", "held"}}
CountedOK == counter = Cardinality(Counted)

SetupInv ==
  /\ SetupTypeOK
  /\ StageOK /\ QuietOK /\ BspOnlyOK
  /\ GatesOK /\ FeaturesOK /\ CountedOK

-----------------------------------------------------------------------------
(* The sets *)

LEMMA ProcessorsFinite == IsFiniteSet(Processors)
BY SetupAssumption, FS_Singleton, FS_Union, Zenon DEF Processors

LEMMA BspIsProcessor == Bsp \in Processors /\ Bsp \notin Aps /\ Aps \subseteq Processors
BY SetupAssumption DEF Processors

\* Vectors of exceptions and of interrupts are apart.
LEMMA VectorTypes ==
  /\ Exceptions \intersect Irqs = {} /\ Exceptions \subseteq Vectors /\ Irqs \subseteq Vectors
  /\ \A v \in Vectors : v \in 0..255
  /\ \A v \in Exceptions : v < 32
  /\ TimerVector \in Irqs /\ TimerVector \notin Devices /\ Devices \subseteq Irqs
BY SetupAssumption, SMT DEF Vectors, Irqs, TimerVector

LEMMA GateTypes ==
  /\ Whole \subseteq Gates /\ NoGate \in Gates /\ Junk \in Gates
  /\ Gate("stub", KernelCs, 1) \in Gates /\ Gate("stub", EarlyKernelCs, 0) \in Gates
  /\ NoGate \notin Whole
  /\ \A h \in {"sched_timer_hook"} \union Handlers : GateOf(h, TRUE) \in Whole
<1>1. \A h : GateOf(h, TRUE) = [handler |-> h, segment |-> 8, present |-> TRUE, ist |-> 1]
  BY SMT DEF GateOf, Gate, KernelCs
<1>2. Whole \subseteq Gates
  <2>1. \A h \in {"sched_timer_hook"} \union Handlers :
          [handler |-> h, segment |-> 8, present |-> TRUE, ist |-> 1] \in Gates
    BY SMT DEF Gates, HandlerNames
  <2> QED BY <1>1, <2>1, Zenon DEF Whole
<1>3. NoGate \notin Whole
  <2> SUFFICES ASSUME NEW h, GateOf(h, TRUE) = NoGate PROVE FALSE
    BY Zenon DEF Whole
  <2>1. GateOf(h, TRUE).segment = 8
    BY SMT DEF GateOf, Gate, KernelCs
  <2>2. NoGate.segment # 8
    BY SMT DEF NoGate
  <2> QED BY <2>1, <2>2, Zenon
<1>4. /\ NoGate \in Gates /\ Junk \in Gates
      /\ Gate("stub", KernelCs, 1) \in Gates /\ Gate("stub", EarlyKernelCs, 0) \in Gates
  BY SMT DEF Gates, Gate, NoGate, Junk, HandlerNames, KernelCs, EarlyKernelCs
<1> QED BY <1>2, <1>3, <1>4 DEF Whole

\* What a call of interrupt_set begins with.
LEMMA BeginFacts ==
  ASSUME SetupTypeOK, NEW p \in Processors, NEW v \in Irqs, NEW gate \in Gates, Begin(p, v, gate)
  PROVE  /\ job' \in [Processors -> Jobs \union {Idle}]
         /\ ie' \in [Processors -> BOOLEAN]
         /\ job[p] = Idle /\ job'[p] # Idle
         /\ job'[p] = [vector |-> v, gate |-> gate, enabled |-> ie[p], at |-> "offset"]
         /\ ~ie'[p]
         /\ \A q \in Processors \ {p} : job'[q] = job[q] /\ ie'[q] = ie[q]
<1> DEFINE j == [vector |-> v, gate |-> gate, enabled |-> ie[p], at |-> "offset"]
<1>1. j \in Jobs /\ j # Idle
  BY SetupAssumption, SMT DEF SetupTypeOK, Jobs
<1> HIDE DEF j
<1>2. job' = [job EXCEPT ![p] = j] /\ ie' = [ie EXCEPT ![p] = FALSE] /\ job[p] = Idle
  BY DEF Begin, j
<1>3. job' \in [Processors -> Jobs \union {Idle}] /\ ie' \in [Processors -> BOOLEAN]
  BY <1>1, <1>2, SMT DEF SetupTypeOK
<1>4. job'[p] = j /\ ~ie'[p] /\ \A q \in Processors \ {p} : job'[q] = job[q] /\ ie'[q] = ie[q]
  BY <1>2, SMT DEF SetupTypeOK
<1> QED BY <1>1, <1>2, <1>3 DEF j

\* Every store leaves a gate, and the last one the gate that was asked for.
LEMMA StoredFacts ==
  ASSUME NEW g \in Gates, NEW j \in Jobs, j.at # "end"
  PROVE  /\ Stored(g, j) \in Gates
         /\ NextStore(j) \in {"segment", "attrs", "ist", "end"}
         /\ NextStore(j) = "end" => Stored(g, j) = j.gate
<1>1. j.at \in {"offset", "segment", "attrs", "ist"} /\ j.gate \in Gates
  BY SMT DEF Jobs
<1>2. CASE j.at = "offset"
  <2>1. Stored(g, j) = IF j.gate = NoGate THEN NoGate ELSE [g EXCEPT !.handler = "torn"]
    BY <1>2 DEF Stored
  <2>2. [g EXCEPT !.handler = "torn"] \in Gates
    BY SMT DEF Gates, HandlerNames
  <2> QED BY <1>2, <2>1, <2>2, GateTypes, SMT DEF NextStore
<1>3. CASE j.at = "segment"
  <2>1. Stored(g, j) = [g EXCEPT !.handler = j.gate.handler, !.segment = j.gate.segment]
    BY <1>3, SMT DEF Stored
  <2> DEFINE g1 == [g EXCEPT !.handler = j.gate.handler]
  <2>a. g1 \in Gates
    BY <1>1, SMT DEF Gates
  <2>b. Stored(g, j) = [g1 EXCEPT !.segment = j.gate.segment]
    BY <2>1
  <2> HIDE DEF g1
  <2>2. [g1 EXCEPT !.segment = j.gate.segment] \in Gates
    BY <1>1, <2>a, SMT DEF Gates
  <2>3. NextStore(j) = "attrs"
    BY <1>3, SMT DEF NextStore
  <2> QED BY <2>b, <2>2, <2>3
<1>4. CASE j.at = "attrs"
  <2>1. Stored(g, j) = [g EXCEPT !.present = TRUE]
    BY <1>4, SMT DEF Stored
  <2>2. [g EXCEPT !.present = TRUE] \in Gates
    <3> DEFINE yes == TRUE
    <3>1. yes \in BOOLEAN
      OBVIOUS
    <3> HIDE DEF yes
    <3>2. [g EXCEPT !.present = yes] \in Gates
      BY <3>1, SMT DEF Gates
    <3> QED BY <3>2 DEF yes
  <2>3. NextStore(j) = "ist"
    BY <1>4, SMT DEF NextStore
  <2> QED BY <2>1, <2>2, <2>3
<1>5. CASE j.at = "ist"
  BY <1>1, <1>5, SMT DEF Stored, NextStore
<1> QED BY <1>1, <1>2, <1>3, <1>4, <1>5

\* A step that counts nobody.
LEMMA SameCount ==
  ASSUME SetupInv, Counted' = Counted, counter' = counter
  PROVE  CountedOK'
BY DEF SetupInv, CountedOK

LEMMA InitInv == SetupInit => SetupInv
<1> SUFFICES ASSUME SetupInit PROVE SetupInv
  OBVIOUS
<1>1. SetupTypeOK
  BY ProcessorsFinite, FS_CardinalityType, GateTypes, SMT DEF SetupInit, SetupTypeOK, Steps,
     MaxFrames
<1>2. StageOK
  BY SMT DEF SetupInit, StageOK, Stage, Bootstrap, Unloaded, OwnGates, OwnIdt
<1>3. QuietOK /\ BspOnlyOK
  BY BspIsProcessor, SMT DEF SetupInit, QuietOK, Quiet, BspOnlyOK
<1>4. GatesOK
  BY BspIsProcessor, VectorTypes, SMT DEF SetupInit, GatesOK, IrqGate, Writing, MayCome
<1>5. FeaturesOK
  BY BspIsProcessor, SMT DEF SetupInit, FeaturesOK, Unloaded, Bootstrap
<1>6. CountedOK
  <2>1. Counted = {}
    BY SMT DEF SetupInit, Counted
  <2> QED BY <2>1, FS_EmptySet DEF SetupInit, CountedOK
<1> QED BY <1>1, <1>2, <1>3, <1>4, <1>5, <1>6 DEF SetupInv

-----------------------------------------------------------------------------
(* The steps, one action at a time. *)

LEMMA EarlyGatesInv ==
  ASSUME SetupInv, EarlyGates
  PROVE  SetupInv'
<1>1. SetupTypeOK'
  BY BspIsProcessor, GateTypes, SetupAssumption, SMT
     DEF EarlyGates, SetupInv, tables, program, SetupTypeOK, Steps, Step, Go, ExceptionGates
<1>2. StageOK'
  BY VectorTypes, SMT DEF EarlyGates, SetupInv, tables, SetupTypeOK, StageOK, Stage,
     Bootstrap, Unloaded, OwnGates, OwnIdt, Step, Go, ExceptionGates
<1>3. QuietOK'
  BY SMT DEF EarlyGates, SetupInv, program, QuietOK, Quiet
<1>4. BspOnlyOK'
  BY SMT DEF EarlyGates, SetupInv, program, BspOnlyOK, Step
<1>5. GatesOK'
  BY VectorTypes, SMT DEF EarlyGates, SetupInv, program, GatesOK, IrqGate, Writing, MayCome,
     Step, Go, ExceptionGates
<1>6. FeaturesOK'
  BY BspIsProcessor, SMT DEF EarlyGates, SetupInv, SetupTypeOK, FeaturesOK, Step, Go,
     Unloaded, Bootstrap
<1>7. Counted' = Counted /\ counter' = counter
  BY SMT DEF EarlyGates, program, Counted, Step, Go
<1> QED BY <1>1, <1>2, <1>3, <1>4, <1>5, <1>6, <1>7, SameCount DEF SetupInv

LEMMA EarlyLoadInv ==
  ASSUME SetupInv, EarlyLoad
  PROVE  SetupInv'
<1>1. SetupTypeOK'
  BY BspIsProcessor, SMT DEF EarlyLoad, SetupInv, memory, program, SetupTypeOK, Steps,
     Registering, Step, Go
<1>2. StageOK'
  BY SMT DEF EarlyLoad, SetupInv, memory, SetupTypeOK, StageOK, Stage, Bootstrap, Unloaded,
     OwnGates, OwnIdt, Step, Go
<1>3. QuietOK'
  BY SMT DEF EarlyLoad, SetupInv, program, QuietOK, Quiet
<1>4. BspOnlyOK'
  BY SMT DEF EarlyLoad, SetupInv, program, BspOnlyOK, Step
<1>5. GatesOK'
  BY SMT DEF EarlyLoad, SetupInv, memory, program, GatesOK, IrqGate, Writing, MayCome, Step,
     Go
<1>6. FeaturesOK'
  BY SMT DEF EarlyLoad, SetupInv, memory, FeaturesOK, Step, Go, Unloaded, Bootstrap
<1>7. Counted' = Counted /\ counter' = counter
  BY SMT DEF EarlyLoad, program, Counted, Step, Go
<1> QED BY <1>1, <1>2, <1>3, <1>4, <1>5, <1>6, <1>7, SameCount DEF SetupInv

LEMMA EarlyDescriptorInv ==
  ASSUME SetupInv, EarlyDescriptor
  PROVE  SetupInv'
<1>1. SetupTypeOK'
  BY BspIsProcessor, SMT DEF EarlyDescriptor, SetupInv, memory, program, SetupTypeOK, Steps,
     Registering, Step, Go
<1>2. StageOK'
  BY SMT DEF EarlyDescriptor, SetupInv, memory, SetupTypeOK, StageOK, Stage, Bootstrap, Unloaded,
     OwnGates, OwnIdt, Step, Go
<1>3. QuietOK'
  BY SMT DEF EarlyDescriptor, SetupInv, program, QuietOK, Quiet
<1>4. BspOnlyOK'
  BY SMT DEF EarlyDescriptor, SetupInv, program, BspOnlyOK, Step
<1>5. GatesOK'
  BY SMT DEF EarlyDescriptor, SetupInv, memory, program, GatesOK, IrqGate, Writing, MayCome, Step,
     Go
<1>6. FeaturesOK'
  BY SMT DEF EarlyDescriptor, SetupInv, memory, FeaturesOK, Step, Go, Unloaded, Bootstrap
<1>7. Counted' = Counted /\ counter' = counter
  BY SMT DEF EarlyDescriptor, program, Counted, Step, Go
<1> QED BY <1>1, <1>2, <1>3, <1>4, <1>5, <1>6, <1>7, SameCount DEF SetupInv

LEMMA StartApInv ==
  ASSUME SetupInv, NEW p \in Aps, StartAp(p)
  PROVE  SetupInv'
<1>1. SetupTypeOK'
  BY BspIsProcessor, SMT DEF StartAp, SetupInv, tables, memory, program, SetupTypeOK, Steps,
     Registering, Step, Go
<1>2. StageOK'
  BY SMT DEF StartAp, SetupInv, tables, memory, StageOK, Stage, Bootstrap, Unloaded,
     OwnGates, OwnIdt, Step, Go
<1>3. QuietOK'
  BY SMT DEF StartAp, SetupInv, program, QuietOK, Quiet
<1>4. BspOnlyOK'
  BY SMT DEF StartAp, SetupInv, program, BspOnlyOK
<1>5. GatesOK'
  BY SMT DEF StartAp, SetupInv, memory, program, GatesOK, IrqGate, Writing, MayCome
<1>6. FeaturesOK'
  BY SMT DEF StartAp, SetupInv, memory, FeaturesOK, Step, Go, EnabledFeatures,
     ListedFeatures
<1>7. Counted' = Counted /\ counter' = counter
  BY SMT DEF StartAp, program, Counted, Step, Go
<1> QED BY <1>1, <1>2, <1>3, <1>4, <1>5, <1>6, <1>7, SameCount DEF SetupInv

LEMMA PrepareInv ==
  ASSUME SetupInv, NEW p \in Processors, Prepare(p)
  PROVE  SetupInv'
<1>1. SetupTypeOK'
  BY SMT DEF Prepare, SetupInv, tables, program, SetupTypeOK, Steps, Registering, Step, Go
<1>2. StageOK'
  BY SMT DEF Prepare, SetupInv, tables, SetupTypeOK, StageOK, Stage, Bootstrap, Unloaded,
     OwnGates, OwnIdt, Step, Go
<1>3. QuietOK'
  BY SMT DEF Prepare, SetupInv, program, QuietOK, Quiet
<1>4. BspOnlyOK'
  BY SMT DEF Prepare, SetupInv, program, BspOnlyOK, Step, Go
<1>5. GatesOK'
  BY SMT DEF Prepare, SetupInv, program, GatesOK, IrqGate, Writing, MayCome, Step, Go
<1>6. FeaturesOK'
  BY SMT DEF Prepare, SetupInv, FeaturesOK, Step, Go, Unloaded, EnabledFeatures,
     ListedFeatures
<1>7. Counted' = Counted /\ counter' = counter
  BY SMT DEF Prepare, program, Counted, Step, Go
<1> QED BY <1>1, <1>2, <1>3, <1>4, <1>5, <1>6, <1>7, SameCount DEF SetupInv

LEMMA LoadGdtInv ==
  ASSUME SetupInv, NEW p \in Processors, LoadGdt(p)
  PROVE  SetupInv'
<1>1. SetupTypeOK'
  BY SMT DEF LoadGdt, SetupInv, memory, program, SetupTypeOK, Steps, Registering, Step, Go
<1>2. StageOK'
  BY SMT DEF LoadGdt, SetupInv, memory, SetupTypeOK, StageOK, Stage, Bootstrap, Unloaded,
     OwnGates, OwnIdt, Step, Go
<1>3. QuietOK'
  BY SMT DEF LoadGdt, SetupInv, program, QuietOK, Quiet
<1>4. BspOnlyOK'
  BY SMT DEF LoadGdt, SetupInv, program, BspOnlyOK, Step, Go
<1>5. GatesOK'
  BY SMT DEF LoadGdt, SetupInv, memory, program, GatesOK, IrqGate, Writing, MayCome, Step,
     Go
<1>6. FeaturesOK'
  BY SMT DEF LoadGdt, SetupInv, memory, FeaturesOK, Step, Go, Unloaded, EnabledFeatures,
     ListedFeatures
<1>7. Counted' = Counted /\ counter' = counter
  BY SMT DEF LoadGdt, program, Counted, Step, Go
<1> QED BY <1>1, <1>2, <1>3, <1>4, <1>5, <1>6, <1>7, SameCount DEF SetupInv

LEMMA UseTssInv ==
  ASSUME SetupInv, NEW p \in Processors, UseTss(p)
  PROVE  SetupInv'
<1>1. SetupTypeOK'
  BY SMT DEF UseTss, SetupInv, memory, program, SetupTypeOK, Steps, Registering, Step, Go
<1>2. StageOK'
  BY SMT DEF UseTss, SetupInv, memory, SetupTypeOK, StageOK, Stage, Bootstrap, Unloaded,
     OwnGates, OwnIdt, Step, Go
<1>3. QuietOK'
  BY SMT DEF UseTss, SetupInv, program, QuietOK, Quiet
<1>4. BspOnlyOK'
  BY SMT DEF UseTss, SetupInv, program, BspOnlyOK, Step, Go
<1>5. GatesOK'
  BY SMT DEF UseTss, SetupInv, memory, program, GatesOK, IrqGate, Writing, MayCome, Step, Go
<1>6. FeaturesOK'
  BY SMT DEF UseTss, SetupInv, memory, FeaturesOK, Step, Go, EnabledFeatures, ListedFeatures
<1>7. Counted' = Counted /\ counter' = counter
  BY SMT DEF UseTss, program, Counted, Step, Go
<1> QED BY <1>1, <1>2, <1>3, <1>4, <1>5, <1>6, <1>7, SameCount DEF SetupInv

LEMMA SetDescriptorInv ==
  ASSUME SetupInv, NEW p \in Processors, SetDescriptor(p)
  PROVE  SetupInv'
<1>1. SetupTypeOK'
  BY SMT DEF SetDescriptor, SetupInv, memory, program, SetupTypeOK, Steps, Registering,
     Step, Go
<1>2. StageOK'
  BY SMT DEF SetDescriptor, SetupInv, memory, program, SetupTypeOK, StageOK, Stage,
     Bootstrap, Unloaded, OwnGates, OwnIdt, Step, Go
<1>3. QuietOK'
  BY SMT DEF SetDescriptor, SetupInv, program, QuietOK, Quiet
<1>4. BspOnlyOK'
  BY SMT DEF SetDescriptor, SetupInv, program, BspOnlyOK, Step, Go
<1>5. GatesOK'
  BY SMT DEF SetDescriptor, SetupInv, memory, program, GatesOK, IrqGate, Writing, MayCome,
     Step, Go
<1>6. FeaturesOK'
  BY SMT DEF SetDescriptor, SetupInv, memory, FeaturesOK, Step, Go, EnabledFeatures,
     ListedFeatures
<1>7. Counted' = Counted /\ counter' = counter
  BY SMT DEF SetDescriptor, program, Counted, Step, Go
<1> QED BY <1>1, <1>2, <1>3, <1>4, <1>5, <1>6, <1>7, SameCount DEF SetupInv

LEMMA SetFeaturesInv ==
  ASSUME SetupInv, NEW p \in Processors, SetFeatures(p)
  PROVE  SetupInv'
<1>1. SetupTypeOK'
  BY SMT DEF SetFeatures, SetupInv, tables, program, SetupTypeOK, Steps, Registering,
     Features, Step, Go, EnabledFeatures, ListedFeatures
<1>2. StageOK'
  BY SMT DEF SetFeatures, SetupInv, tables, StageOK, Stage, Bootstrap, Unloaded, OwnGates,
     OwnIdt, Step, Go
<1>3. QuietOK'
  BY SMT DEF SetFeatures, SetupInv, program, QuietOK, Quiet
<1>4. BspOnlyOK'
  BY SMT DEF SetFeatures, SetupInv, program, BspOnlyOK, Step, Go
<1>5. GatesOK'
  BY SMT DEF SetFeatures, SetupInv, program, GatesOK, IrqGate, Writing, MayCome, Step, Go
<1>6. FeaturesOK'
  BY SetupAssumption, SMT DEF SetFeatures, SetupInv, SetupTypeOK, FeaturesOK, Step, Go,
     Unloaded, Bootstrap, EnabledFeatures, ListedFeatures, Features, CpuFeatures
<1>7. Counted' = Counted /\ counter' = counter
  BY SMT DEF SetFeatures, program, Counted, Step, Go
<1> QED BY <1>1, <1>2, <1>3, <1>4, <1>5, <1>6, <1>7, SameCount DEF SetupInv

LEMMA InitLapicInv ==
  ASSUME SetupInv, NEW p \in Processors, InitLapic(p)
  PROVE  SetupInv'
<1>1. SetupTypeOK'
  BY SMT DEF InitLapic, SetupInv, tables, memory, program, SetupTypeOK, Steps, Registering,
     Step, Go
<1>2. StageOK'
  BY SMT DEF InitLapic, SetupInv, tables, memory, StageOK, Stage, Bootstrap, Unloaded,
     OwnGates, OwnIdt, Step, Go
<1>3. QuietOK'
  BY SMT DEF InitLapic, SetupInv, program, QuietOK, Quiet
<1>4. BspOnlyOK'
  BY SMT DEF InitLapic, SetupInv, program, BspOnlyOK, Step, Go
<1>5. GatesOK'
  BY SMT DEF InitLapic, SetupInv, memory, program, GatesOK, IrqGate, Writing, MayCome, Step,
     Go
<1>6. FeaturesOK'
  BY SMT DEF InitLapic, SetupInv, memory, FeaturesOK, Step, Go, Unloaded, Bootstrap,
     EnabledFeatures, ListedFeatures
<1>7. Counted' = Counted /\ counter' = counter
  BY SMT DEF InitLapic, program, Counted, Step, Go
<1> QED BY <1>1, <1>2, <1>3, <1>4, <1>5, <1>6, <1>7, SameCount DEF SetupInv

LEMMA InitGatesInv ==
  ASSUME SetupInv, NEW p \in Processors, InitGates(p)
  PROVE  SetupInv'
<1>1. SetupTypeOK'
  BY GateTypes, SMT DEF InitGates, SetupInv, tables, program, SetupTypeOK, Steps,
     Registering, Step, Go, ExceptionGates
<1>2. StageOK'
  BY VectorTypes, SMT DEF InitGates, SetupInv, tables, SetupTypeOK, StageOK, Stage,
     Bootstrap, Unloaded, OwnGates, OwnIdt, Step, Go, ExceptionGates
<1>3. QuietOK'
  BY SMT DEF InitGates, SetupInv, program, QuietOK, Quiet
<1>4. BspOnlyOK'
  BY SMT DEF InitGates, SetupInv, program, BspOnlyOK, Step, Go
<1>5. GatesOK'
  BY VectorTypes, SMT DEF InitGates, SetupInv, program, GatesOK, IrqGate, Writing, MayCome,
     Step, Go, ExceptionGates
<1>6. FeaturesOK'
  BY SMT DEF InitGates, SetupInv, FeaturesOK, Step, Go, Unloaded, Bootstrap,
     EnabledFeatures, ListedFeatures
<1>7. Counted' = Counted /\ counter' = counter
  BY SMT DEF InitGates, program, Counted, Step, Go
<1> QED BY <1>1, <1>2, <1>3, <1>4, <1>5, <1>6, <1>7, SameCount DEF SetupInv

LEMMA LoadIdtInv ==
  ASSUME SetupInv, NEW p \in Processors, LoadIdt(p)
  PROVE  SetupInv'
<1>1. SetupTypeOK'
  BY SMT DEF LoadIdt, SetupInv, memory, program, SetupTypeOK, Steps, Registering, Step, Go
<1>2. StageOK'
  BY SMT DEF LoadIdt, SetupInv, memory, SetupTypeOK, StageOK, Stage, Bootstrap, Unloaded,
     OwnGates, OwnIdt, Step, Go
<1>3. QuietOK'
  BY SMT DEF LoadIdt, SetupInv, program, QuietOK, Quiet
<1>4. BspOnlyOK'
  BY SMT DEF LoadIdt, SetupInv, program, BspOnlyOK, Step, Go
<1>5. GatesOK'
  BY SMT DEF LoadIdt, SetupInv, memory, program, GatesOK, IrqGate, Writing, MayCome, Step,
     Go
<1>6. FeaturesOK'
  BY SMT DEF LoadIdt, SetupInv, memory, FeaturesOK, Step, Go, Unloaded, Bootstrap,
     EnabledFeatures, ListedFeatures
<1>7. Counted' = Counted /\ counter' = counter
  BY SMT DEF LoadIdt, program, Counted, Step, Go
<1> QED BY <1>1, <1>2, <1>3, <1>4, <1>5, <1>6, <1>7, SameCount DEF SetupInv

LEMMA InitSyscallInv ==
  ASSUME SetupInv, NEW p \in Processors, InitSyscall(p)
  PROVE  SetupInv'
<1>1. SetupTypeOK'
  BY SetupAssumption, VectorTypes, GateTypes, SMT DEF InitSyscall, SetupInv, tables, memory,
     program, SetupTypeOK, Steps, Registering, Go
<1>2. StageOK'
  BY VectorTypes, GateTypes, SMT DEF InitSyscall, SetupInv, tables, memory, SetupTypeOK,
     StageOK, Stage, Bootstrap, Unloaded, OwnGates, OwnIdt, Go
<1>3. QuietOK'
  BY SMT DEF InitSyscall, SetupInv, program, QuietOK, Quiet
<1>4. BspOnlyOK'
  BY BspIsProcessor, SMT DEF InitSyscall, SetupInv, program, SetupTypeOK, BspOnlyOK, Go
<1>5. GatesOK'
  BY BspIsProcessor, SMT DEF InitSyscall, SetupInv, memory, program, SetupTypeOK, GatesOK,
     IrqGate, Writing, MayCome, Go
<1>6. FeaturesOK'
  BY BspIsProcessor, SMT DEF InitSyscall, SetupInv, memory, SetupTypeOK, FeaturesOK, Go,
     Unloaded, Bootstrap, EnabledFeatures, ListedFeatures
<1>7. Counted' = Counted /\ counter' = counter
  BY SMT DEF InitSyscall, SetupInv, program, SetupTypeOK, Counted, Go
<1> QED BY <1>1, <1>2, <1>3, <1>4, <1>5, <1>6, <1>7, SameCount DEF SetupInv

LEMMA ArmTimerInv ==
  ASSUME SetupInv, NEW p \in Processors, ArmTimer(p)
  PROVE  SetupInv'
<1>1. SetupTypeOK'
  BY SMT DEF ArmTimer, SetupInv, tables, memory, program, SetupTypeOK, Steps, Registering,
     Step, Go
<1>2. StageOK'
  BY SMT DEF ArmTimer, SetupInv, tables, memory, StageOK, Stage, Bootstrap, Unloaded,
     OwnGates, OwnIdt, Step, Go
<1>3. QuietOK'
  BY SMT DEF ArmTimer, SetupInv, program, QuietOK, Quiet
<1>4. BspOnlyOK'
  BY SMT DEF ArmTimer, SetupInv, program, BspOnlyOK, Step, Go
<1>5. GatesOK'
  BY SMT DEF ArmTimer, SetupInv, memory, program, GatesOK, IrqGate, Writing, MayCome, Step,
     Go
<1>6. FeaturesOK'
  BY SMT DEF ArmTimer, SetupInv, memory, FeaturesOK, Step, Go, Unloaded, Bootstrap,
     EnabledFeatures, ListedFeatures
<1>7. Counted' = Counted /\ counter' = counter
  BY SMT DEF ArmTimer, program, Counted, Step, Go
<1> QED BY <1>1, <1>2, <1>3, <1>4, <1>5, <1>6, <1>7, SameCount DEF SetupInv

\* interrupt_set for the timer: its interrupt may be pending, but interrupts are disabled.
LEMMA SetTimerGateInv ==
  ASSUME SetupInv, NEW p \in Processors, SetTimerGate(p)
  PROVE  SetupInv'
<1>0. /\ at[p] = "gate" /\ Go(p, "count")
      /\ TimerVector \in Irqs /\ GateOf("sched_timer_hook", TRUE) \in Whole \intersect Gates
      /\ Begin(p, TimerVector, GateOf("sched_timer_hook", TRUE))
  BY VectorTypes, GateTypes DEF SetTimerGate, Step
<1> DEFINE gate == GateOf("sched_timer_hook", TRUE)
<1>g. gate \in Whole
  BY <1>0
<1> HIDE DEF gate
<1>b. /\ job' \in [Processors -> Jobs \union {Idle}]
      /\ ie' \in [Processors -> BOOLEAN]
      /\ job[p] = Idle /\ job'[p] # Idle
      /\ job'[p] = [vector |-> TimerVector, gate |-> gate, enabled |-> ie[p], at |-> "offset"]
      /\ ~ie'[p]
      /\ \A q \in Processors \ {p} : job'[q] = job[q] /\ ie'[q] = ie[q]
  BY <1>0, BeginFacts DEF SetupInv, gate
<1>s. UNCHANGED <<cpuid, tables, cr4, timer, pending, memory, counter, frames, routed>>
  BY DEF SetTimerGate
<1>1. SetupTypeOK'
  <2>1. at' \in [Processors -> Steps]
    BY <1>0, SMT DEF Go, SetupInv, SetupTypeOK, Steps, Registering
  <2> QED BY <1>b, <1>s, <2>1, SMT DEF SetupInv, SetupTypeOK, tables, memory
<1>2. StageOK'
  BY SMT DEF SetTimerGate, SetupInv, tables, memory, StageOK, Stage, Bootstrap, Unloaded,
     OwnGates, OwnIdt, Step, Go
<1>3. QuietOK'
  BY <1>b, <1>s, SMT DEF SetupInv, QuietOK, Quiet
<1>4. BspOnlyOK'
  BY <1>0, <1>b, <1>s, BspIsProcessor, SMT DEF Go, SetupInv, BspOnlyOK
<1>5. GatesOK'
  <2> SUFFICES ASSUME NEW v \in Irqs PROVE IrqGate(v)'
    BY DEF GatesOK
  <2>1. gates'[Bsp][v] = gates[Bsp][v] /\ (v # TimerVector => MayCome(v)' = MayCome(v))
    BY <1>s, SMT DEF memory, MayCome
  <2>2. CASE p = Bsp /\ v = TimerVector
    BY <1>b, <1>g, <2>2, SMT DEF IrqGate, Writing
  <2>3. CASE p = Bsp /\ v # TimerVector
    BY <1>b, <2>1, <2>3, SMT DEF SetupInv, GatesOK, IrqGate, Writing
  <2>4. CASE p # Bsp
    <3>1. job'[Bsp] = job[Bsp] /\ at'[Bsp] = at[Bsp]
      BY <1>0, <1>b, <2>4, BspIsProcessor, SMT DEF Go
    <3>2. MayCome(v)' <=> MayCome(v)
      BY <1>s, <3>1 DEF MayCome
    <3> QED BY <2>1, <3>1, <3>2, SMT DEF SetupInv, GatesOK, IrqGate, Writing
  <2> QED BY <2>2, <2>3, <2>4
<1>6. FeaturesOK'
  BY SMT DEF SetTimerGate, SetupInv, memory, FeaturesOK, Step, Go, Unloaded, Bootstrap,
     EnabledFeatures, ListedFeatures
<1>7. Counted' = Counted /\ counter' = counter
  BY SMT DEF SetTimerGate, Counted, Step, Go
<1> QED BY <1>1, <1>2, <1>3, <1>4, <1>5, <1>6, <1>7, SameCount DEF SetupInv

LEMMA StoreInv ==
  ASSUME SetupInv, NEW p \in Processors, Store(p)
  PROVE  SetupInv'
<1> DEFINE v == job[p].vector
<1> DEFINE g == Stored(gates[p][v], job[p])
<1>0. job[p] \in Jobs /\ job[p] # Idle /\ job[p].at # "end" /\ v \in Irqs /\ v \in Vectors
  BY VectorTypes, SMT DEF Store, SetupInv, SetupTypeOK, Jobs
<1>a. gates \in [Processors -> [Vectors -> Gates]] /\ gates[p] \in [Vectors -> Gates]
      /\ gates[p][v] \in Gates
  <2>1. gates \in [Processors -> [Vectors -> Gates]]
    BY ZenonT(40) DEF SetupInv, SetupTypeOK
  <2> QED BY <1>0, <2>1
<1>b. /\ g \in Gates
      /\ NextStore(job[p]) \in {"segment", "attrs", "ist", "end"}
      /\ NextStore(job[p]) = "end" => g = job[p].gate
  BY <1>0, <1>a, StoredFacts
<1>s. /\ gates' = [gates EXCEPT ![p] = [gates[p] EXCEPT ![v] = g]]
      /\ job' = [job EXCEPT ![p] = [job[p] EXCEPT !.at = NextStore(job[p])]]
      /\ UNCHANGED <<cpuid, tables, ie, cr4, timer, pending, features, ist1, at, counter,
                     frames, routed>>
  <2>1. gates' = [gates EXCEPT ![p] = [gates[p] EXCEPT ![v] = g]]
    BY SMT DEF Store
  <2>2. job' = [job EXCEPT ![p] = [job[p] EXCEPT !.at = NextStore(job[p])]]
    BY SMT DEF Store
  <2> QED BY DEF Store
<1>c. [job[p] EXCEPT !.at = NextStore(job[p])] \in Jobs
  BY <1>0, <1>b, SMT DEF Jobs
<1>d. [job[p] EXCEPT !.at = NextStore(job[p])] # Idle
  BY <1>c, SetupAssumption
<1>e. /\ \A q \in Processors \ {p} : job'[q] = job[q] /\ gates'[q] = gates[q]
      /\ gates'[p] = [gates[p] EXCEPT ![v] = g]
      /\ job'[p] = [job[p] EXCEPT !.at = NextStore(job[p])]
  BY <1>s, SMT DEF SetupInv, SetupTypeOK
<1>f. /\ gates'[p][v] = g
      /\ \A w \in Vectors \ {v} : gates'[p][w] = gates[p][w]
  BY <1>0, <1>a, <1>e, SMT
<1>g. job'[p] # Idle /\ job'[p].vector = v /\ job'[p].gate = job[p].gate
      /\ job'[p].enabled = job[p].enabled /\ job'[p].at = NextStore(job[p])
  BY <1>d, <1>e, SMT
<1> HIDE DEF v, g
<1>1. SetupTypeOK'
  <2>1. job' \in [Processors -> Jobs \union {Idle}]
    BY <1>c, <1>s, SMT DEF SetupInv, SetupTypeOK
  <2>2. [gates[p] EXCEPT ![v] = g] \in [Vectors -> Gates]
    BY <1>a, <1>b
  <2>3. gates' \in [Processors -> [Vectors -> Gates]]
    BY <1>a, <1>s, <2>2, SMT
  <2> QED BY <1>s, <2>1, <2>3, SMT DEF SetupInv, SetupTypeOK, tables
<1>2. StageOK'
  <2>1. \A q \in Processors, x \in Exceptions : gates'[q][x] = gates[q][x]
    <3>1. \A x \in Exceptions : x \in Vectors \ {v}
      BY <1>0, VectorTypes
    <3> QED BY <1>e, <1>f, <3>1
  <2> QED BY <1>s, <2>1, SMT DEF SetupInv, StageOK, Stage, tables
<1>3. QuietOK'
  BY <1>0, <1>s, SMT DEF SetupInv, QuietOK, Quiet
<1>4. BspOnlyOK'
  BY <1>0, <1>s, SMT DEF SetupInv, BspOnlyOK
<1>5. GatesOK'
  <2> SUFFICES ASSUME NEW w \in Irqs PROVE IrqGate(w)'
    BY DEF GatesOK
  <2>1. IrqGate(w) /\ (MayCome(w)' <=> MayCome(w))
    BY <1>s DEF SetupInv, GatesOK, MayCome
  <2>2. CASE p = Bsp
    <3>1. Writing(w)' <=> Writing(w)
      BY <1>0, <1>g, <2>2, SMT DEF Writing, v
    <3>2. CASE w = v
      BY <1>b, <1>f, <1>g, <2>1, <2>2, <3>1, <3>2, SMT DEF IrqGate, Writing
    <3>3. CASE w # v
      <4>1. gates'[Bsp][w] = gates[Bsp][w]
        BY <1>f, <2>2, <3>3, VectorTypes
      <4> QED BY <1>g, <2>1, <2>2, <3>1, <3>3, <4>1, SMT DEF IrqGate, Writing
    <3> QED BY <3>2, <3>3
  <2>3. CASE p # Bsp
    <3>1. job'[Bsp] = job[Bsp] /\ gates'[Bsp] = gates[Bsp]
      BY <1>e, <2>3, BspIsProcessor
    <3> QED BY <2>1, <3>1, SMT DEF IrqGate, Writing
  <2> QED BY <2>2, <2>3
<1>6. FeaturesOK'
  BY SMT DEF Store, SetupInv, FeaturesOK, EnabledFeatures, ListedFeatures
<1>7. Counted' = Counted /\ counter' = counter
  BY SMT DEF Store, Counted
<1> QED BY <1>1, <1>2, <1>3, <1>4, <1>5, <1>6, <1>7, SameCount DEF SetupInv

LEMMA EndInv ==
  ASSUME SetupInv, NEW p \in Processors, End(p)
  PROVE  SetupInv'
<1>0. /\ job[p] # Idle /\ job[p].at = "end" /\ job[p] \in Jobs
      /\ ie' = [ie EXCEPT ![p] = job[p].enabled] /\ job' = [job EXCEPT ![p] = Idle]
      /\ UNCHANGED <<cpuid, tables, cr4, timer, pending, memory, at, counter, frames, routed>>
  BY SMT DEF End, Restored, SetupInv, SetupTypeOK
<1>b. /\ job[p].enabled \in BOOLEAN
      /\ \A q \in Processors : /\ ie'[q] = IF q = p THEN job[p].enabled ELSE ie[q]
                              /\ job'[q] = IF q = p THEN Idle ELSE job[q]
  BY <1>0, SMT DEF Jobs, SetupInv, SetupTypeOK
<1>1. SetupTypeOK'
  <2>1. job' \in [Processors -> Jobs \union {Idle}] /\ ie' \in [Processors -> BOOLEAN]
    BY <1>0, <1>b, SMT DEF SetupInv, SetupTypeOK
  <2> QED BY <1>0, <2>1, SMT DEF SetupInv, SetupTypeOK, tables, memory
<1>2. StageOK'
  BY SMT DEF End, SetupInv, tables, memory, StageOK, Stage
<1>3. QuietOK'
  <2> SUFFICES ASSUME NEW q \in Processors PROVE Quiet(q)'
    BY DEF QuietOK
  <2>1. Quiet(q) /\ frames' = frames
    BY <1>0 DEF SetupInv, QuietOK
  <2>2. CASE q = p
    BY <1>0, <1>b, <2>1, Zenon DEF Quiet
  <2>3. CASE q # p
    BY <1>b, <2>1, <2>3, Zenon DEF Quiet
  <2> QED BY <2>2, <2>3
<1>4. BspOnlyOK'
  BY <1>0, <1>b, BspIsProcessor, Zenon DEF SetupInv, BspOnlyOK
<1>5. GatesOK'
  BY SMT DEF End, SetupInv, memory, GatesOK, IrqGate, Writing, MayCome
<1>6. FeaturesOK'
  BY SMT DEF End, SetupInv, memory, FeaturesOK, EnabledFeatures, ListedFeatures
<1>7. Counted' = Counted /\ counter' = counter
  BY SMT DEF End, Counted
<1> QED BY <1>1, <1>2, <1>3, <1>4, <1>5, <1>6, <1>7, SameCount DEF SetupInv

LEMMA CountInv ==
  ASSUME SetupInv, NEW p \in Processors, Count(p)
  PROVE  SetupInv'
<1>0. CountedOK'
  <2>1. Counted' = Counted \union {p} /\ p \notin Counted
    BY SMT DEF Count, Go, SetupInv, SetupTypeOK, Counted
  <2>2. IsFiniteSet(Counted)
    BY ProcessorsFinite, FS_Subset DEF Counted
  <2>3. Cardinality(Counted \union {p}) = Cardinality(Counted) + 1
    BY <2>1, <2>2, FS_AddElement, Zenon
  <2> QED BY <2>1, <2>3 DEF Count, SetupInv, CountedOK
<1>1. SetupTypeOK'
  <2>1. at' \in [Processors -> Steps]
    <3>1. \E step \in {"starting", "held"} : at' = [at EXCEPT ![p] = step]
      BY Zenon DEF Count, Go
    <3>2. at \in [Processors -> Steps] /\ {"starting", "held"} \subseteq Steps
      BY DEF SetupInv, SetupTypeOK, Steps
    <3> QED BY <3>1, <3>2, SMT
  <2>t. ie' \in [Processors -> BOOLEAN]
    <3>1. CASE p = Bsp
      BY Zenon DEF Count, SetupInv, SetupTypeOK
    <3>2. CASE p # Bsp
      <4>1. ie' = [ie EXCEPT ![p] = FALSE] /\ ie \in [Processors -> BOOLEAN]
        BY <3>2 DEF Count, SetupInv, SetupTypeOK
      <4> QED BY <4>1
    <3> QED BY <3>1, <3>2
  <2>2. counter' \in 0..Cardinality(Processors)
    BY <1>0, ProcessorsFinite, FS_CardinalityType, FS_Subset, SMT DEF CountedOK, Counted
  <2> QED BY <2>1, <2>2, <2>t, SMT DEF Count, SetupInv, SetupTypeOK, tables, memory
<1>2. StageOK'
  BY SMT DEF Count, SetupInv, tables, memory, SetupTypeOK, StageOK, Stage, Bootstrap,
     Unloaded, OwnGates, OwnIdt, Go
<1>3. QuietOK'
  BY BspIsProcessor, SMT DEF Count, SetupInv, memory, SetupTypeOK, QuietOK, Quiet
<1>4. BspOnlyOK'
  BY BspIsProcessor, SMT DEF Count, SetupInv, SetupTypeOK, BspOnlyOK, Go
<1>5. GatesOK'
  BY BspIsProcessor, SMT DEF Count, SetupInv, memory, SetupTypeOK, GatesOK, IrqGate,
     Writing, MayCome, Go
<1>6. FeaturesOK'
  BY BspIsProcessor, SMT DEF Count, SetupInv, memory, SetupTypeOK, FeaturesOK, Go, Unloaded,
     Bootstrap, EnabledFeatures, ListedFeatures
<1>7. CountedOK'
  BY <1>0
<1> QED BY <1>1, <1>2, <1>3, <1>4, <1>5, <1>6, <1>7 DEF SetupInv

LEMMA FinishInitInv ==
  ASSUME SetupInv, FinishInit
  PROVE  SetupInv'
<1>1. SetupTypeOK'
  BY BspIsProcessor, SMT DEF FinishInit, SetupInv, tables, memory, program, SetupTypeOK,
     Steps, Step, Go
<1>2. StageOK'
  BY SMT DEF FinishInit, SetupInv, tables, memory, StageOK, Stage, Bootstrap, Unloaded,
     OwnGates, OwnIdt, Step, Go
<1>3. QuietOK'
  BY SMT DEF FinishInit, SetupInv, program, QuietOK, Quiet
<1>4. BspOnlyOK'
  BY BspIsProcessor, SMT DEF FinishInit, SetupInv, SetupTypeOK, BspOnlyOK, Step, Go
<1>5. GatesOK'
  BY SMT DEF FinishInit, SetupInv, memory, program, GatesOK, IrqGate, Writing, MayCome, Step
<1>6. FeaturesOK'
  BY SMT DEF FinishInit, SetupInv, memory, FeaturesOK, Step, Go, Unloaded, Bootstrap,
     EnabledFeatures, ListedFeatures
<1>7. Counted' = Counted /\ counter' = counter
  BY SMT DEF FinishInit, program, Counted, Step, Go
<1> QED BY <1>1, <1>2, <1>3, <1>4, <1>5, <1>6, <1>7, SameCount DEF SetupInv

LEMMA SwitchInterruptsInv ==
  ASSUME SetupInv, SwitchInterrupts
  PROVE  SetupInv'
<1>1. SetupTypeOK'
  BY BspIsProcessor, SMT DEF SwitchInterrupts, SetupInv, tables, NoPc, SetupTypeOK
<1>2. StageOK'
  BY SMT DEF SwitchInterrupts, SetupInv, tables, NoPc, StageOK, Stage
<1>3. QuietOK'
  BY SMT DEF SwitchInterrupts, SetupInv, QuietOK, Quiet, Thread
<1>4. BspOnlyOK'
  BY SMT DEF SwitchInterrupts, SetupInv, NoPc, BspOnlyOK, Running, Thread
<1>5. GatesOK'
  BY SMT DEF SwitchInterrupts, SetupInv, GatesOK, IrqGate, Writing, MayCome, Running, Thread
<1>6. FeaturesOK'
  BY SMT DEF SwitchInterrupts, SetupInv, NoPc, FeaturesOK, EnabledFeatures, ListedFeatures
<1>7. Counted' = Counted /\ counter' = counter
  BY SMT DEF SwitchInterrupts, NoPc, Counted
<1> QED BY <1>1, <1>2, <1>3, <1>4, <1>5, <1>6, <1>7, SameCount DEF SetupInv

LEMMA InterruptSetInv ==
  ASSUME SetupInv, InterruptSet
  PROVE  SetupInv'
<1>0. /\ Running
      /\ UNCHANGED <<cpuid, tables, cr4, features, ist1, at, counter, timer, pending, gates,
                     frames, routed>>
  BY DEF InterruptSet, NoPc
<1>p. PICK v \in Devices, gate \in Whole \union {NoGate} :
        /\ Begin(Bsp, v, gate)
        /\ v \in routed \union pending[Bsp] => gate # NoGate
  BY GateTypes DEF InterruptSet
<1>b. /\ job' \in [Processors -> Jobs \union {Idle}]
      /\ ie' \in [Processors -> BOOLEAN]
      /\ job[Bsp] = Idle /\ job'[Bsp] # Idle
      /\ job'[Bsp] = [vector |-> v, gate |-> gate, enabled |-> ie[Bsp], at |-> "offset"]
      /\ ~ie'[Bsp]
      /\ \A q \in Processors \ {Bsp} : job'[q] = job[q] /\ ie'[q] = ie[q]
  BY <1>p, BeginFacts, BspIsProcessor, VectorTypes, GateTypes DEF SetupInv
<1>1. SetupTypeOK'
  BY <1>0, <1>b, SMT DEF SetupInv, SetupTypeOK, tables
<1>2. StageOK'
  BY SMT DEF InterruptSet, SetupInv, tables, NoPc, StageOK, Stage
<1>3. QuietOK'
  BY <1>0, <1>b, SMT DEF SetupInv, QuietOK, Quiet
<1>4. BspOnlyOK'
  BY <1>0, <1>b, SMT DEF SetupInv, BspOnlyOK
<1>5. GatesOK'
  <2> SUFFICES ASSUME NEW w \in Irqs PROVE IrqGate(w)'
    BY DEF GatesOK
  <2>1. IrqGate(w) /\ (MayCome(w)' <=> MayCome(w)) /\ gates'[Bsp][w] = gates[Bsp][w]
    BY <1>0 DEF SetupInv, GatesOK, MayCome
  <2>2. CASE w = v
    <3>1. MayCome(v) => gate # NoGate
      <4>1. v # TimerVector
        BY VectorTypes
      <4> QED BY <1>p, <4>1, Zenon DEF MayCome
    <3> QED BY <1>b, <2>1, <3>1, SMT DEF IrqGate, Writing
  <2>3. CASE w # v
    BY <1>b, <2>1, <2>3, SMT DEF IrqGate, Writing
  <2> QED BY <2>2, <2>3
<1>6. FeaturesOK'
  BY SMT DEF InterruptSet, SetupInv, NoPc, FeaturesOK, EnabledFeatures, ListedFeatures
<1>7. Counted' = Counted /\ counter' = counter
  BY SMT DEF InterruptSet, NoPc, Counted
<1> QED BY <1>1, <1>2, <1>3, <1>4, <1>5, <1>6, <1>7, SameCount DEF SetupInv

LEMMA RouteInv ==
  ASSUME SetupInv, Route
  PROVE  SetupInv'
<1>0. UNCHANGED <<cpuid, tables, cr4, features, ist1, at, counter, ie, timer, pending, gates,
                  job, frames>>
  BY DEF Route, NoPc
<1>p. PICK v \in Devices : \/ gates[Bsp][v] # NoGate /\ routed' = routed \union {v}
                          \/ routed' = routed \ {v}
  BY DEF Route
<1>b. job[Bsp] = Idle
  BY DEF Route
<1>1. SetupTypeOK'
  <2>1. routed' \subseteq Devices
    <3>1. routed \subseteq Devices
      BY ZenonT(40) DEF SetupInv, SetupTypeOK
    <3> QED BY <1>p, <3>1, Zenon
  <2> QED BY <1>0, <2>1, SMT DEF SetupInv, SetupTypeOK, tables
<1>2. StageOK'
  BY SMT DEF Route, SetupInv, tables, NoPc, StageOK, Stage
<1>3. QuietOK'
  BY SMT DEF Route, SetupInv, QuietOK, Quiet
<1>4. BspOnlyOK'
  BY SMT DEF Route, SetupInv, NoPc, BspOnlyOK
<1>5. GatesOK'
  <2> SUFFICES ASSUME NEW w \in Irqs PROVE IrqGate(w)'
    BY DEF GatesOK
  <2>1. IrqGate(w) /\ ~Writing(w) /\ ~Writing(w)' /\ gates'[Bsp][w] = gates[Bsp][w]
    BY <1>0, <1>b DEF SetupInv, GatesOK, Writing
  <2>2. MayCome(w)' => MayCome(w) \/ gates[Bsp][w] # NoGate
    <3>1. w \in routed' => w \in routed \/ gates[Bsp][w] # NoGate
      BY <1>p
    <3> QED BY <1>0, <3>1, Zenon DEF MayCome
  <2> QED BY <2>1, <2>2 DEF IrqGate
<1>6. FeaturesOK'
  BY SMT DEF Route, SetupInv, NoPc, FeaturesOK, EnabledFeatures, ListedFeatures
<1>7. Counted' = Counted /\ counter' = counter
  BY SMT DEF Route, NoPc, Counted
<1> QED BY <1>1, <1>2, <1>3, <1>4, <1>5, <1>6, <1>7, SameCount DEF SetupInv

LEMMA MaskTimerInv ==
  ASSUME SetupInv, MaskTimer
  PROVE  SetupInv'
<1>1. SetupTypeOK'
  BY BspIsProcessor, SMT DEF MaskTimer, SetupInv, tables, NoPc, SetupTypeOK
<1>2. StageOK'
  BY SMT DEF MaskTimer, SetupInv, tables, NoPc, StageOK, Stage
<1>3. QuietOK'
  BY SMT DEF MaskTimer, SetupInv, QuietOK, Quiet
<1>4. BspOnlyOK'
  BY SMT DEF MaskTimer, SetupInv, NoPc, BspOnlyOK
<1>5. GatesOK'
  BY SMT DEF MaskTimer, SetupInv, GatesOK, IrqGate, Writing, MayCome, Running
<1>6. FeaturesOK'
  BY SMT DEF MaskTimer, SetupInv, NoPc, FeaturesOK, EnabledFeatures, ListedFeatures
<1>7. Counted' = Counted /\ counter' = counter
  BY SMT DEF MaskTimer, NoPc, Counted
<1> QED BY <1>1, <1>2, <1>3, <1>4, <1>5, <1>6, <1>7, SameCount DEF SetupInv

LEMMA RaiseInv ==
  ASSUME SetupInv, Raise
  PROVE  SetupInv'
<1>1. SetupTypeOK'
  BY BspIsProcessor, VectorTypes, SMT DEF Raise, SetupInv, tables, NoPc, SetupTypeOK
<1>2. StageOK'
  BY SMT DEF Raise, SetupInv, tables, NoPc, StageOK, Stage
<1>3. QuietOK'
  BY SMT DEF Raise, SetupInv, QuietOK, Quiet
<1>4. BspOnlyOK'
  BY BspIsProcessor, SMT DEF Raise, SetupInv, NoPc, BspOnlyOK
<1>5. GatesOK'
  <2> SUFFICES ASSUME NEW w \in Irqs PROVE IrqGate(w)'
    BY DEF GatesOK
  <2>1. IrqGate(w) /\ (Writing(w)' <=> Writing(w)) /\ gates' = gates /\ job' = job
    BY DEF Raise, SetupInv, GatesOK, Writing
  <2>2. MayCome(w)' => MayCome(w)
    BY VectorTypes, SMT DEF Raise, NoPc, MayCome
  <2> QED BY <2>1, <2>2 DEF IrqGate
<1>6. FeaturesOK'
  BY SMT DEF Raise, SetupInv, NoPc, FeaturesOK, EnabledFeatures, ListedFeatures
<1>7. Counted' = Counted /\ counter' = counter
  BY SMT DEF Raise, NoPc, Counted
<1> QED BY <1>1, <1>2, <1>3, <1>4, <1>5, <1>6, <1>7, SameCount DEF SetupInv

LEMMA InterruptInv ==
  ASSUME SetupInv, Interrupt
  PROVE  SetupInv'
<1>1. SetupTypeOK'
  BY SetupAssumption, BspIsProcessor, SMT DEF Interrupt, SetupInv, tables, NoPc,
     SetupTypeOK, Steps, MaxFrames
<1>2. StageOK'
  BY SMT DEF Interrupt, SetupInv, tables, NoPc, StageOK, Stage
<1>3. QuietOK'
  BY SMT DEF Interrupt, SetupInv, SetupTypeOK, QuietOK, Quiet
<1>4. BspOnlyOK'
  BY SMT DEF Interrupt, SetupInv, NoPc, BspOnlyOK
<1>5. GatesOK'
  <2> SUFFICES ASSUME NEW w \in Irqs PROVE IrqGate(w)'
    BY DEF GatesOK
  <2>1. IrqGate(w) /\ (Writing(w)' <=> Writing(w)) /\ gates' = gates /\ job' = job
    BY DEF Interrupt, SetupInv, GatesOK, Writing
  <2>2. MayCome(w)' => MayCome(w)
    BY SMT DEF Interrupt, NoPc, MayCome
  <2> QED BY <2>1, <2>2 DEF IrqGate
<1>6. FeaturesOK'
  BY SMT DEF Interrupt, SetupInv, NoPc, FeaturesOK, EnabledFeatures, ListedFeatures
<1>7. Counted' = Counted /\ counter' = counter
  BY SMT DEF Interrupt, NoPc, Counted
<1> QED BY <1>1, <1>2, <1>3, <1>4, <1>5, <1>6, <1>7, SameCount DEF SetupInv

LEMMA ReturnInv ==
  ASSUME SetupInv, Return
  PROVE  SetupInv'
<1>1. SetupTypeOK'
  BY BspIsProcessor, SMT DEF Return, SetupInv, tables, NoPc, SetupTypeOK, MaxFrames
<1>2. StageOK'
  BY SMT DEF Return, SetupInv, tables, NoPc, StageOK, Stage
<1>3. QuietOK'
  BY SMT DEF Return, SetupInv, SetupTypeOK, QuietOK, Quiet
<1>4. BspOnlyOK'
  <2>1. at[Bsp] = "running"
    BY SMT DEF Return, SetupInv, BspOnlyOK
  <2> QED BY SMT DEF Return, NoPc, SetupInv, BspOnlyOK
<1>5. GatesOK'
  BY SMT DEF Return, SetupInv, GatesOK, IrqGate, Writing, MayCome, BspOnlyOK
<1>6. FeaturesOK'
  BY SMT DEF Return, SetupInv, NoPc, FeaturesOK, EnabledFeatures, ListedFeatures
<1>7. Counted' = Counted /\ counter' = counter
  BY SMT DEF Return, NoPc, Counted
<1> QED BY <1>1, <1>2, <1>3, <1>4, <1>5, <1>6, <1>7, SameCount DEF SetupInv

\* No step at all.
LEMMA StutterInv == SetupInv /\ UNCHANGED setupVars => SetupInv'
<1> SUFFICES ASSUME SetupInv, UNCHANGED setupVars PROVE SetupInv'
  OBVIOUS
<1>1. SetupTypeOK'
  BY Zenon DEF SetupInv, SetupTypeOK, setupVars, tables, memory, program
<1>2. StageOK'
  <2>1. UNCHANGED <<limit, at, gdt, tr, gs, ist1, gates>>
    BY DEF setupVars, tables, memory, program
  <2>2. ASSUME NEW p \in Processors PROVE Stage(p)'
    <3>1. Stage(p)
      BY DEF SetupInv, StageOK
    <3> QED BY <2>1, <3>1 DEF Stage
  <2> QED BY <2>2 DEF StageOK
<1>3. QuietOK' /\ BspOnlyOK'
  BY Zenon DEF SetupInv, QuietOK, Quiet, BspOnlyOK, setupVars, program
<1>4. GatesOK'
  BY Zenon DEF SetupInv, GatesOK, IrqGate, Writing, MayCome, setupVars, memory, program
<1>5. FeaturesOK'
  BY Zenon DEF SetupInv, FeaturesOK, ListedFeatures, EnabledFeatures, setupVars, memory
<1>6. CountedOK'
  BY Zenon DEF SetupInv, CountedOK, Counted, setupVars, program
<1> QED BY <1>1, <1>2, <1>3, <1>4, <1>5, <1>6 DEF SetupInv

LEMMA NextInv == SetupInv /\ SetupNext => SetupInv'
<1> SUFFICES ASSUME SetupInv, SetupNext PROVE SetupInv'
  OBVIOUS
<1>1. ASSUME EarlyGates PROVE SetupInv'
  BY <1>1, EarlyGatesInv
<1>2. ASSUME EarlyLoad \/ EarlyDescriptor PROVE SetupInv'
  BY <1>2, EarlyLoadInv, EarlyDescriptorInv
<1>3. ASSUME NEW p \in Processors, Register(p) PROVE SetupInv'
  BY <1>3, StartApInv, PrepareInv, LoadGdtInv, UseTssInv, SetDescriptorInv, SetFeaturesInv,
     InitLapicInv, InitGatesInv, LoadIdtInv, InitSyscallInv, ArmTimerInv, SetTimerGateInv,
     StoreInv, EndInv, CountInv DEF Register
<1>4. ASSUME FinishInit PROVE SetupInv'
  BY <1>4, FinishInitInv
<1>5. ASSUME Run PROVE SetupInv'
  BY <1>5, SwitchInterruptsInv, InterruptSetInv, RouteInv, MaskTimerInv, RaiseInv,
     InterruptInv, ReturnInv DEF Run
<1> QED BY <1>1, <1>2, <1>3, <1>4, <1>5 DEF SetupNext

-----------------------------------------------------------------------------
(* What follows from the invariant. *)

\* Once the boot processor runs, it keeps running, with the features it has listed and
\* enabled.
LEMMA RunningKeeps ==
  ASSUME SetupInv, Running, SetupNext
  PROVE  /\ Running' /\ cpuid' = cpuid
         /\ features'[Bsp] = features[Bsp] /\ cr4'[Bsp] = cr4[Bsp]
<1> DEFINE Keeps == /\ Running' /\ cpuid' = cpuid
                    /\ features'[Bsp] = features[Bsp] /\ cr4'[Bsp] = cr4[Bsp]
<1>1. at \in [Processors -> Steps] /\ at[Bsp] = "running"
  BY DEF SetupInv, SetupTypeOK, Running
<1>2. cr4 \in [Processors -> SUBSET InCr4] /\ features \in [Processors -> SUBSET Features]
  BY DEF SetupInv, SetupTypeOK
<1>3. ~EarlyGates /\ ~EarlyLoad /\ ~EarlyDescriptor /\ ~FinishInit
  BY <1>1 DEF EarlyGates, EarlyLoad, EarlyDescriptor, FinishInit, Step
<1>4. ASSUME NEW p \in Processors, Register(p) PROVE Keeps
  <2>1. ~StartAp(p)
    BY <1>1 DEF StartAp
  <2>2. ASSUME Store(p) \/ End(p) PROVE Keeps
    BY <2>2 DEF Store, End, memory, Running
  <2>3. ASSUME Prepare(p) \/ LoadGdt(p) \/ UseTss(p) \/ SetDescriptor(p) \/ InitLapic(p)
               \/ InitGates(p) \/ LoadIdt(p) \/ InitSyscall(p) \/ ArmTimer(p)
               \/ SetTimerGate(p) \/ Count(p)
        PROVE  Keeps
    <3>1. p # Bsp
      BY <1>1, <2>3 DEF Prepare, LoadGdt, UseTss, SetDescriptor, InitLapic, InitGates,
         LoadIdt, InitSyscall, ArmTimer, SetTimerGate, Count, Step
    <3>2. at'[Bsp] = at[Bsp]
      <4>1. \E step : at' = [at EXCEPT ![p] = step]
        BY <2>3, Zenon DEF Prepare, LoadGdt, UseTss, SetDescriptor, InitLapic, InitGates,
           LoadIdt, InitSyscall, ArmTimer, SetTimerGate, Count, Step, Go
      <4> QED BY <3>1, <4>1, SMT
    <3>3. UNCHANGED <<cpuid, features, cr4>>
      BY <2>3, Zenon DEF Prepare, LoadGdt, UseTss, SetDescriptor, InitLapic, InitGates,
         LoadIdt, InitSyscall, ArmTimer, SetTimerGate, Count, memory
    <3> QED BY <3>2, <3>3 DEF Running
  <2>4. ASSUME SetFeatures(p) PROVE Keeps
    <3>1. p # Bsp
      BY <1>1, <2>4 DEF SetFeatures, Step
    <3> QED BY <2>4, SMT DEF SetFeatures, Step, Go, Running
  <2> QED BY <1>4, <2>1, <2>2, <2>3, <2>4 DEF Register
<1>5. ASSUME Run PROVE Keeps
  BY <1>5 DEF Run, SwitchInterrupts, InterruptSet, Route, MaskTimer, Raise, Interrupt,
     Return, NoPc, Running
<1> QED BY <1>3, <1>4, <1>5 DEF SetupNext

\* While it runs, it lists the features it has, and CR4 enables them.
LEMMA RunningLists ==
  ASSUME SetupInv, Running
  PROVE  ListedFeatures \subseteq features[Bsp] /\ EnabledFeatures \subseteq cr4[Bsp]
BY DEF SetupInv, FeaturesOK, Running, Unloaded, Bootstrap

\* What the selectors of the code select.
LEMMA Segments ==
  /\ Segment("early", 24) = "kernel code" /\ Segment("own", 8) = "kernel code"
  /\ Segment("own", 24) # "kernel code"
BY DEF Segment

\* A trap reaches its handler, or not, as the step of the processor says.
LEMMA Delivered == SetupInv => TrapsAreDelivered
<1> SUFFICES ASSUME SetupInv, NEW p \in Processors, ist1[p] # "nothing"
             PROVE  (\A v \in Exceptions : Delivers(p, v)) /\ gs[p] <=> ~Blind(p)
  BY DEF TrapsAreDelivered
<1>1. Stage(p) /\ at[p] \in Steps
  BY DEF SetupInv, StageOK, SetupTypeOK
<1>2. CASE limit[p] = 0
  <2>1. Blind(p)
    BY <1>1, <1>2, SMT DEF Stage, Blind, OwnIdt, OwnGates, Bootstrap, Steps, Registering
  <2>2. \A v \in Exceptions : ~Delivers(p, v)
    <3>1. \A v \in Exceptions : ~(v < 0)
      BY SetupAssumption, SMT
    <3> QED BY <1>2, <3>1, Zenon DEF Delivers
  <2> QED BY <2>1, <2>2, SetupAssumption
<1>3. CASE p = Bsp /\ at[p] \in {"enter", "gdt"}
  <2>1. gs[p] /\ ~Blind(p) /\ limit[p] = 32 /\ gdt[p] = "early"
    BY <1>1, <1>3, SMT DEF Stage, Blind, OwnIdt, OwnGates, Unloaded, Bootstrap
  <2>2. \A v \in Exceptions : gates[p][v] = [handler |-> "stub", segment |-> 24,
                                             present |-> TRUE, ist |-> 0]
    BY <1>1, <1>3 DEF Stage, OwnGates, Gate, EarlyKernelCs
  <2>3. ASSUME NEW v \in Exceptions PROVE Delivers(p, v)
    <3>1. gates[p][v].present /\ gates[p][v].segment = 24 /\ gates[p][v].ist = 0
      BY <2>2, SMT
    <3>2. Delivers(p, v) <=> /\ v < limit[p]
                             /\ Segment(gdt[p], 24) = "kernel code"
                             /\ gates[p][v].ist = 1 => tr[p] /\ ist1[p] = "stack"
      BY <3>1, Zenon DEF Delivers
    <3>3. v < limit[p] /\ gates[p][v].ist # 1
      BY <2>1, <3>1, VectorTypes, SMT
    <3>4. Segment(gdt[p], 24) = "kernel code"
      BY <2>1, Segments
    <3> QED BY <3>2, <3>3, <3>4
  <2> QED BY <2>1, <2>3
<1>4. CASE p = Bsp /\ at[p] \in {"tss", "descriptor", "features", "lapic", "gates"}
  <2>1. Blind(p) /\ gdt[p] = "own"
    BY <1>1, <1>4, SMT DEF Stage, Blind, Unloaded, Bootstrap
  <2>2. \A v \in Exceptions : gates[p][v] = [handler |-> "stub", segment |-> 24,
                                             present |-> TRUE, ist |-> 0]
    BY <1>1, <1>4 DEF Stage, OwnGates, Gate, EarlyKernelCs
  <2>3. ASSUME NEW v \in Exceptions PROVE ~Delivers(p, v)
    <3>1. gates[p][v].present /\ gates[p][v].segment = 24 /\ gates[p][v].ist = 0
      BY <2>2, SMT
    <3>2. Delivers(p, v) <=> /\ v < limit[p]
                             /\ Segment(gdt[p], 24) = "kernel code"
                             /\ gates[p][v].ist = 1 => tr[p] /\ ist1[p] = "stack"
      BY <3>1, Zenon DEF Delivers
    <3>3. Segment(gdt[p], 24) # "kernel code"
      BY <2>1, Segments
    <3> QED BY <3>2, <3>3
  <2> QED BY <2>1, <2>3, SetupAssumption
<1>5. CASE at[p] \in OwnIdt \/ (p = Bsp /\ at[p] = "idt")
  <2>1. gs[p] /\ ~Blind(p) /\ limit[p] \in {32, 256} /\ gdt[p] = "own" /\ tr[p] /\ ist1[p] = "stack"
    BY <1>1, <1>5, SMT DEF Stage, Blind, OwnIdt, OwnGates, Unloaded, Bootstrap
  <2>2. \A v \in Exceptions : gates[p][v] = [handler |-> "stub", segment |-> 8,
                                             present |-> TRUE, ist |-> 1]
    BY <1>1, <1>5 DEF Stage, OwnGates, OwnIdt, Gate, KernelCs
  <2>3. ASSUME NEW v \in Exceptions PROVE Delivers(p, v)
    <3>1. gates[p][v].present /\ gates[p][v].segment = 8 /\ gates[p][v].ist = 1
      BY <2>2, SMT
    <3>2. Delivers(p, v) <=> /\ v < limit[p]
                             /\ Segment(gdt[p], 8) = "kernel code"
                             /\ gates[p][v].ist = 1 => tr[p] /\ ist1[p] = "stack"
      BY <3>1, Zenon DEF Delivers
    <3>3. v < limit[p]
      BY <2>1, VectorTypes, SMT
    <3>4. Segment(gdt[p], 8) = "kernel code"
      BY <2>1, Segments
    <3> QED BY <2>1, <3>2, <3>3, <3>4
  <2> QED BY <2>1, <2>3
<1>6. CASE p = Bsp /\ at[p] = "loaded"
  BY <1>1, <1>6, SetupAssumption, SMT DEF Stage, Blind, Bootstrap
<1> QED BY <1>1, <1>2, <1>3, <1>4, <1>5, <1>6, SMT
        DEF Stage, OwnIdt, OwnGates, Bootstrap, Steps, Registering

\* An interrupt that is enabled comes to the boot processor while it runs, from a source
\* whose gate is whole.
LEMMA Found == SetupInv => InterruptsFindGates
<1> SUFFICES ASSUME SetupInv, NEW p \in Processors, ie[p], ist1[p] # "nothing", NEW v \in pending[p]
             PROVE  /\ Delivers(p, v) /\ gates[p][v].ist = 1
                    /\ gates[p][v].handler \notin {"none", "junk", "torn"}
  BY DEF InterruptsFindGates
<1>1. p = Bsp /\ at[Bsp] = "running" /\ v \in Irqs /\ job[Bsp] = Idle
  BY SMT DEF SetupInv, SetupTypeOK, BspOnlyOK, QuietOK, Quiet, Processors
<1>2. MayCome(v)
  BY <1>1 DEF MayCome, Irqs
<1>3. gates[p][v] \in Whole
  BY <1>1, <1>2 DEF SetupInv, GatesOK, IrqGate, Writing
<1>4. PICK h \in {"sched_timer_hook"} \union Handlers :
        gates[p][v] = [handler |-> h, segment |-> 8, present |-> TRUE, ist |-> 1]
  BY <1>3 DEF Whole, GateOf, Gate, KernelCs
<1>5. h \notin {"none", "junk", "torn"}
  BY SetupAssumption, SMT
<1>6. limit[p] = 256 /\ gdt[p] = "own" /\ tr[p] /\ ist1[p] = "stack"
  BY <1>1, SMT DEF SetupInv, StageOK, Stage, OwnIdt, OwnGates, Unloaded, Bootstrap
<1>7. v < 256
  BY <1>1, VectorTypes, SMT
<1>8. /\ gates[p][v].present /\ gates[p][v].segment = 8
      /\ gates[p][v].handler = h /\ gates[p][v].ist = 1
  BY <1>4, SMT
<1>9. Delivers(p, v)
  <2>1. Segment(gdt[p], 8) = "kernel code" /\ v < limit[p]
    BY <1>6, <1>7, Segments
  <2>2. Delivers(p, v) <=> /\ v < limit[p]
                           /\ Segment(gdt[p], 8) = "kernel code"
                           /\ gates[p][v].ist = 1 => tr[p] /\ ist1[p] = "stack"
    BY <1>8, Zenon DEF Delivers
  <2> QED BY <1>6, <2>1, <2>2
<1> QED BY <1>5, <1>8, <1>9

\* A second frame on the stack of IST1 would overwrite the first.
LEMMA OneFrame == SetupInv => FramesAreKept
BY SMT DEF SetupInv, QuietOK, Quiet, FramesAreKept
=============================================================================
