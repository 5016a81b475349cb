---------------------------- MODULE ContextsProof ----------------------------
(***************************************************************************)
(* The theorems about Setup and Contexts, for any number of processors,    *)
(* devices and threads.                                                    *)
(*                                                                         *)
(* The argument: contexts are made only while the boot processor runs, and *)
(* from then on the features it lists, from which every size and check is  *)
(* taken, no longer change; CR4 does change, to that of a context, which   *)
(* enables what was listed when it was made.                               *)
(***************************************************************************)
EXTENDS Contexts, SetupProof

\* No context is made, and no thread runs, before the boot processor does.
BeforeRunning == Running \/ (Live = {} /\ current = None)

\* A context is as the features that are listed now would make it.
MadeOf(t) ==
  /\ ctx[t].area = AreaSize
  /\ ctx[t].needed = Needed(ctx[t].floats)
  /\ EnabledFeatures \subseteq ctx[t].cr4
MadeOK == \A t \in Live : MadeOf(t)

\* What is in a thread's context, when the thread does not run, or in the registers, when it
\* does, is what it has put there.
OwnValue(t, part) == IF part \in used[t] THEN t ELSE Fresh
ValuesOK ==
  /\ current \in Live \union {None}
  /\ \A t \in Live \ {current} : \A part \in Kept : ctx[t].regs[part] = OwnValue(t, part)
  /\ current # None => \A part \in Kept : fpu[part] = OwnValue(current, part)
  /\ \A t \in Threads \ Live : used[t] = {}

ContextsInv ==
  /\ SetupInv /\ TypeOK
  /\ BeforeRunning /\ MadeOK /\ ValuesOK

-----------------------------------------------------------------------------
(* The sets, and what the listed features decide. *)

LEMMA PartTypes ==
  /\ Kept \subseteq Parts
  /\ AreaSize \in {0, 512, 576} /\ Written = AreaSize
  /\ \A floats \in BOOLEAN : Needed(floats) \in SUBSET Features
BY ContextsAssumption, SMT DEF Kept, AreaSize, Written, Needed, Instruction, Features, InCr4

LEMMA LiveFacts ==
  ASSUME TypeOK
  PROVE  /\ Live \in SUBSET Threads
         /\ \A t \in Live : ctx[t] \in ContextType
         /\ \A c \in ContextType : c # None
         /\ None \notin Live
BY ContextsAssumption DEF TypeOK, Live

\* What the listed features decide stays as long as they do.
LEMMA SameDecisions ==
  ASSUME features'[Bsp] = features[Bsp], cpuid' = cpuid
  PROVE  /\ Kept' = Kept /\ AreaSize' = AreaSize
         /\ EnabledFeatures' = EnabledFeatures
         /\ \A floats : Needed(floats)' = Needed(floats)
<1>1. Instruction' = Instruction
  BY DEF Instruction
<1> QED BY <1>1 DEF Kept, AreaSize, EnabledFeatures, Needed

LEMMA ContextsInit == Init => ContextsInv
<1> SUFFICES ASSUME Init PROVE ContextsInv
  OBVIOUS
<1>1. SetupInv
  BY InitInv DEF Init
<1>2. Live = {} /\ current = None
  BY DEF Init, Live
<1>5. TypeOK
  <2>1. ctx \in [Threads -> ContextType \union {None}] /\ used \in [Threads -> SUBSET Parts]
    BY DEF Init
  <2>2. fpu \in Registers
    BY DEF Init, Registers
  <2> QED BY <1>1, <1>2, <2>1, <2>2, SMT DEF TypeOK, SetupInv
<1>6. BeforeRunning /\ MadeOK
  BY <1>2 DEF BeforeRunning, MadeOK
<1>7. ValuesOK
  BY <1>2 DEF Init, ValuesOK
<1> QED BY <1>1, <1>5, <1>6, <1>7 DEF ContextsInv

-----------------------------------------------------------------------------
(* The steps. *)

\* A step of Setup while there is no context, or while what is listed stays.
LEMMA SetupSteps ==
  ASSUME ContextsInv, SetupInv', UNCHANGED ctxVars,
         Live = {} \/ (Running /\ Running' /\ features'[Bsp] = features[Bsp] /\ cpuid' = cpuid)
  PROVE  ContextsInv'
<1>1. Live' = Live /\ current' = current
  BY DEF ctxVars, Live
<1>2. TypeOK'
  BY DEF ContextsInv, SetupInv, TypeOK, ctxVars
<1>4. CASE Live = {}
  <2>1. current = None
    BY <1>4 DEF ContextsInv, ValuesOK
  <2>2. BeforeRunning' /\ MadeOK'
    BY <1>1, <1>4, <2>1 DEF BeforeRunning, MadeOK
  <2>3. ValuesOK'
    BY <1>1, <1>4, <2>1 DEF ContextsInv, ValuesOK, ctxVars
  <2> QED BY <1>2, <2>2, <2>3 DEF ContextsInv
<1>5. CASE Running' /\ features'[Bsp] = features[Bsp] /\ cpuid' = cpuid
  <2>1. BeforeRunning'
    BY <1>5 DEF BeforeRunning
  <2>2. MadeOK'
    <3> SUFFICES ASSUME NEW t \in Live' PROVE MadeOf(t)'
      BY DEF MadeOK
    <3>1. MadeOf(t) /\ ctx' = ctx
      BY <1>1 DEF ContextsInv, MadeOK, ctxVars
    <3> QED BY <1>5, <3>1, SameDecisions DEF MadeOf, Needed, Instruction
  <2>3. ValuesOK'
    BY <1>1, <1>5, SameDecisions DEF ContextsInv, ValuesOK, OwnValue, ctxVars
  <2> QED BY <1>2, <2>1, <2>2, <2>3 DEF ContextsInv
<1> QED BY <1>4, <1>5

LEMMA SetupNextInv ==
  ASSUME ContextsInv, SetupNext, UNCHANGED ctxVars
  PROVE  ContextsInv'
<1>1. SetupInv'
  BY NextInv DEF ContextsInv
<1> QED BY <1>1, SetupSteps, RunningKeeps DEF ContextsInv, BeforeRunning

LEMMA ContextsStutter ==
  ASSUME ContextsInv, UNCHANGED vars
  PROVE  ContextsInv'
<1>1. SetupInv' /\ UNCHANGED ctxVars
  BY StutterInv DEF ContextsInv, vars
<1>2. features' = features /\ cpuid' = cpuid /\ at' = at
  BY DEF vars, setupVars, memory
<1> QED BY <1>1, <1>2, SetupSteps DEF ContextsInv, BeforeRunning, Running

\* The context is made for what is listed, and enables what CR4 enables.
LEMMA InitContextInv ==
  ASSUME ContextsInv, NEW t \in Threads, InitContext(t)
  PROVE  ContextsInv'
<1>1. SetupInv' /\ features' = features /\ cpuid' = cpuid /\ at' = at /\ cr4' = cr4
  BY StutterInv DEF ContextsInv, InitContext, setupVars, memory
<1>2. Running /\ Running' /\ ctx[t] = None /\ UNCHANGED <<fpu, used, current>>
  BY <1>1 DEF InitContext, Running
<1>5. ASSUME NEW floats \in BOOLEAN,
             ctx' = [ctx EXCEPT ![t] =
                      [area |-> AreaSize, cr4 |-> InitialCr4, floats |-> floats,
                       needed |-> Needed(floats), regs |-> [part \in Parts |-> Fresh]]]
      PROVE  ContextsInv'
  <2> DEFINE new == [area |-> AreaSize, cr4 |-> InitialCr4, floats |-> floats,
                     needed |-> Needed(floats), regs |-> [part \in Parts |-> Fresh]]
  <2>1. new \in ContextType
    <3>1. [part \in Parts |-> Fresh] \in Registers
      BY DEF Registers
    <3>2. cr4[Bsp] \in SUBSET InCr4
      BY BspIsProcessor DEF ContextsInv, SetupInv, SetupTypeOK
    <3> QED BY <3>1, <3>2, PartTypes DEF ContextType, InitialCr4
  <2>2. /\ new.area = AreaSize /\ new.cr4 = cr4[Bsp] /\ new.floats = floats
        /\ new.needed = Needed(floats) /\ \A part \in Parts : new.regs[part] = Fresh
    BY SMT DEF InitialCr4
  <2> HIDE DEF new
  <2>3. /\ ctx' = [ctx EXCEPT ![t] = new] /\ ctx'[t] = new
        /\ \A u \in Threads \ {t} : ctx'[u] = ctx[u]
    BY <1>5, SMT DEF ContextsInv, TypeOK, new
  <2>4. new # None /\ t \notin Live /\ t # current
    BY <1>2, <2>1, LiveFacts, ContextsAssumption DEF Live, ContextsInv, ValuesOK
  <2>5. Live' = Live \union {t}
    BY <2>3, <2>4 DEF Live
  <2>8. TypeOK'
    <3>3. ctx' \in [Threads -> ContextType \union {None}]
      BY <2>1, <2>3 DEF ContextsInv, TypeOK
    <3> QED BY <1>1, <1>2, <3>3 DEF ContextsInv, TypeOK, SetupInv
  <2>9. MadeOK'
    <3> SUFFICES ASSUME NEW u \in Live' PROVE MadeOf(u)'
      BY DEF MadeOK
    <3>1. MadeOf(u) \/ u = t
      BY <2>5 DEF ContextsInv, MadeOK
    <3>2. CASE u = t
      BY <1>1, <1>2, <2>2, <2>3, <3>2, SameDecisions, RunningLists
         DEF MadeOf, ContextsInv, Needed, Instruction
    <3>3. CASE u # t
      <4>1. MadeOf(u) /\ ctx'[u] = ctx[u]
        BY <2>3, <3>1, <3>3 DEF Live
      <4> QED BY <1>1, <4>1, SameDecisions DEF MadeOf, Needed, Instruction
    <3> QED BY <3>2, <3>3
  <2>10. ValuesOK'
    <3>1. Kept' = Kept /\ Kept \subseteq Parts
      BY <1>1, SameDecisions, PartTypes
    <3>2. ASSUME NEW u \in Live' \ {current'}, NEW part \in Kept'
          PROVE  ctx'[u].regs[part] = OwnValue(u, part)'
      <4>1. CASE u = t
        <5>1. used[t] = {}
          BY <2>4 DEF ContextsInv, ValuesOK
        <5> QED BY <1>2, <2>2, <2>3, <3>1, <4>1, <5>1 DEF OwnValue
      <4>2. CASE u # t
        BY <1>2, <2>3, <2>5, <3>1, <4>2 DEF ContextsInv, ValuesOK, OwnValue, Live
      <4> QED BY <4>1, <4>2
    <3>3. current' # None => \A part \in Kept' : fpu'[part] = OwnValue(current, part)'
      BY <1>2, <3>1 DEF ContextsInv, ValuesOK, OwnValue
    <3>4. current' \in Live' \union {None} /\ \A u \in Threads \ Live' : used'[u] = {}
      BY <1>2, <2>5 DEF ContextsInv, ValuesOK
    <3> QED BY <3>2, <3>3, <3>4 DEF ValuesOK
  <2> QED BY <1>1, <1>2, <2>8, <2>9, <2>10 DEF ContextsInv, BeforeRunning
<1> QED BY <1>5 DEF InitContext

LEMMA UninitContextInv ==
  ASSUME ContextsInv, NEW t \in Threads, UninitContext(t)
  PROVE  ContextsInv'
<1>1. SetupInv' /\ features' = features /\ cpuid' = cpuid /\ at' = at /\ cr4' = cr4
  BY StutterInv DEF ContextsInv, UninitContext, setupVars, memory
<1>2. Running /\ Running' /\ t \in Live /\ t # current /\ UNCHANGED <<fpu, current>>
  BY <1>1 DEF UninitContext, Running
<1>3. /\ ctx' = [ctx EXCEPT ![t] = None] /\ used' = [used EXCEPT ![t] = {}]
  BY DEF UninitContext
<1>4. /\ ctx'[t] = None /\ \A u \in Threads \ {t} : ctx'[u] = ctx[u]
      /\ used'[t] = {} /\ \A u \in Threads \ {t} : used'[u] = used[u]
  BY <1>3, SMT DEF ContextsInv, TypeOK
<1>5. Live' = Live \ {t}
  BY <1>4 DEF Live
<1>8. TypeOK'
  <2>3. ctx' \in [Threads -> ContextType \union {None}] /\ used' \in [Threads -> SUBSET Parts]
    BY <1>3 DEF ContextsInv, TypeOK
  <2> QED BY <1>1, <1>2, <2>3 DEF ContextsInv, TypeOK, SetupInv
<1>9. MadeOK'
  <2> SUFFICES ASSUME NEW u \in Live' PROVE MadeOf(u)'
    BY DEF MadeOK
  <2>1. MadeOf(u) /\ ctx'[u] = ctx[u]
    BY <1>4, <1>5 DEF ContextsInv, MadeOK, Live
  <2> QED BY <1>1, <2>1, SameDecisions DEF MadeOf, Needed, Instruction
<1>10. ValuesOK'
  <2>1. Kept' = Kept
    BY <1>1, SameDecisions
  <2>2. ASSUME NEW u \in Live' \ {current'}, NEW part \in Kept'
        PROVE  ctx'[u].regs[part] = OwnValue(u, part)'
    BY <1>2, <1>4, <1>5, <2>1 DEF ContextsInv, ValuesOK, OwnValue, Live
  <2>3. current' # None => \A part \in Kept' : fpu'[part] = OwnValue(current, part)'
    BY <1>2, <1>4, <2>1 DEF ContextsInv, ValuesOK, OwnValue, Live
  <2>4. current' \in Live' \union {None} /\ \A u \in Threads \ Live' : used'[u] = {}
    BY <1>2, <1>4, <1>5 DEF ContextsInv, ValuesOK
  <2> QED BY <2>2, <2>3, <2>4 DEF ValuesOK
<1> QED BY <1>1, <1>2, <1>8, <1>9, <1>10 DEF ContextsInv, BeforeRunning

LEMMA UseInv ==
  ASSUME ContextsInv, Use
  PROVE  ContextsInv'
<1>1. SetupInv' /\ features' = features /\ cpuid' = cpuid /\ at' = at /\ cr4' = cr4
  BY StutterInv DEF ContextsInv, Use, setupVars, memory
<1>2. current \in Live /\ UNCHANGED <<ctx, current>> /\ Running
  BY DEF Use, ContextsInv, ValuesOK, Thread
<1>3. PICK part \in Parts : /\ fpu' = [fpu EXCEPT ![part] = current]
                            /\ used' = [used EXCEPT ![current] = used[current] \union {part}]
  BY DEF Use
<1>4. current \in Threads /\ current # None /\ Live' = Live
  BY <1>2, ContextsAssumption DEF Live
<1>5. /\ fpu'[part] = current /\ \A q \in Parts \ {part} : fpu'[q] = fpu[q]
      /\ used'[current] = used[current] \union {part}
      /\ \A u \in Threads \ {current} : used'[u] = used[u]
  BY <1>3, <1>4, SMT DEF ContextsInv, TypeOK, Registers
<1>6. TypeOK'
  <2>1. fpu' \in Registers
    BY <1>3, <1>4 DEF ContextsInv, TypeOK, Registers
  <2>2. used' \in [Threads -> SUBSET Parts]
    BY <1>3, <1>4 DEF ContextsInv, TypeOK
  <2> QED BY <1>1, <1>2, <2>1, <2>2 DEF ContextsInv, TypeOK, SetupInv
<1>7. BeforeRunning'
  BY <1>1, <1>2, <1>4 DEF ContextsInv, BeforeRunning, Running
<1>8. MadeOK'
  <2> SUFFICES ASSUME NEW u \in Live' PROVE MadeOf(u)'
    BY DEF MadeOK
  <2>1. MadeOf(u)
    BY <1>4 DEF ContextsInv, MadeOK
  <2> QED BY <1>1, <1>2, <2>1, SameDecisions DEF MadeOf, Needed, Instruction
<1>9. ValuesOK'
  <2>1. Kept' = Kept /\ Kept \subseteq Parts
    BY <1>1, SameDecisions, PartTypes
  <2>2. ASSUME NEW u \in Live' \ {current'}, NEW q \in Kept'
        PROVE  ctx'[u].regs[q] = OwnValue(u, q)'
    BY <1>2, <1>4, <1>5, <2>1 DEF ContextsInv, ValuesOK, OwnValue, Live
  <2>3. ASSUME NEW q \in Kept' PROVE fpu'[q] = OwnValue(current, q)'
    <3>1. q \in Parts /\ fpu[q] = OwnValue(current, q)
      BY <1>4, <2>1 DEF ContextsInv, ValuesOK
    <3> QED BY <1>2, <1>5, <3>1 DEF OwnValue
  <2>4. current' \in Live' \union {None} /\ \A u \in Threads \ Live' : used'[u] = {}
    BY <1>2, <1>4, <1>5 DEF ContextsInv, ValuesOK
  <2> QED BY <2>2, <2>3, <2>4 DEF ValuesOK
<1> QED BY <1>1, <1>6, <1>7, <1>8, <1>9 DEF ContextsInv

\* The handler leaves with the CR4 of the context it switches to.
LEMMA SwitchSetupInv ==
  ASSUME ContextsInv, Switch
  PROVE  SetupInv'
<1>1. /\ Running /\ job[Bsp] = Idle
      /\ UNCHANGED <<cpuid, tables, ie, timer, pending, memory, at, program>>
  BY DEF Switch
<1>2. PICK t \in Live \ {current} : cr4' = [cr4 EXCEPT ![Bsp] = ctx[t].cr4]
  BY DEF Switch
<1>3. ctx[t].cr4 \in SUBSET InCr4 /\ EnabledFeatures \subseteq ctx[t].cr4
  BY <1>2, LiveFacts DEF ContextsInv, MadeOK, MadeOf, ContextType
<1>4. cr4' \in [Processors -> SUBSET InCr4] /\ cr4'[Bsp] = ctx[t].cr4
  BY <1>2, <1>3, BspIsProcessor DEF ContextsInv, SetupInv, SetupTypeOK
<1>5. SetupTypeOK'
  BY <1>1, <1>4 DEF ContextsInv, SetupInv, SetupTypeOK, tables, memory, program
<1>6. StageOK'
  BY <1>1 DEF ContextsInv, SetupInv, StageOK, Stage, tables, memory
<1>7. QuietOK' /\ BspOnlyOK'
  BY <1>1 DEF ContextsInv, SetupInv, QuietOK, Quiet, BspOnlyOK, program
<1>8. GatesOK'
  BY <1>1 DEF ContextsInv, SetupInv, GatesOK, IrqGate, Writing, MayCome, memory, program
<1>9. FeaturesOK'
  <2>1. ListedFeatures \subseteq features[Bsp]
    BY <1>1, RunningLists DEF ContextsInv
  <2>2. at'[Bsp] = "running" /\ features'[Bsp] = features[Bsp] /\ cpuid' = cpuid
    BY <1>1 DEF Running, memory
  <2> QED BY <1>3, <1>4, <2>1, <2>2
          DEF FeaturesOK, ListedFeatures, EnabledFeatures
<1>10. CountedOK'
  BY <1>1 DEF ContextsInv, SetupInv, CountedOK, Counted, program
<1> QED BY <1>5, <1>6, <1>7, <1>8, <1>9, <1>10 DEF SetupInv

\* What the old thread has in the registers goes to its context, and the new one's comes back.
LEMMA SwitchInv ==
  ASSUME ContextsInv, Switch
  PROVE  ContextsInv'
<1>1. SetupInv' /\ features' = features /\ cpuid' = cpuid /\ at' = at
  BY SwitchSetupInv DEF Switch, memory
<1>2. PICK t \in Live \ {current} :
        /\ ctx' = IF current = None THEN ctx
                  ELSE [ctx EXCEPT ![current] = [ctx[current] EXCEPT !.regs = Saved(current),
                                                                     !.cr4 = cr4[Bsp]]]
        /\ fpu' = Loaded(t) /\ current' = t
  BY DEF Switch
<1>3. Running /\ Running' /\ UNCHANGED used /\ t \in Threads /\ t # None
  BY <1>1, <1>2, LiveFacts DEF Switch, Running, ContextsInv
<1>4. Kept' = Kept /\ Kept \subseteq Parts
  BY <1>1, SameDecisions, PartTypes
<1>5. /\ ctx' \in [Threads -> ContextType \union {None}]
      /\ \A u \in Threads \ {current} : ctx'[u] = ctx[u]
      /\ current # None =>
           /\ ctx'[current] # None
           /\ ctx'[current].area = ctx[current].area
           /\ ctx'[current].floats = ctx[current].floats
           /\ ctx'[current].needed = ctx[current].needed
           /\ ctx'[current].cr4 = cr4[Bsp]
           /\ \A part \in Kept : ctx'[current].regs[part] = fpu[part]
  <2>1. CASE current = None
    BY <1>2, <2>1, ContextsAssumption DEF ContextsInv, TypeOK
  <2>2. CASE current # None
    <3> DEFINE old == ctx[current]
    <3> DEFINE mid == [old EXCEPT !.regs = Saved(current)]
    <3> DEFINE new == [mid EXCEPT !.cr4 = cr4[Bsp]]
    <3>1. ctx' = [ctx EXCEPT ![current] = new]
      BY <1>2, <2>2
    <3>2. current \in Live /\ current \in Threads /\ old \in ContextType
      BY <2>2, LiveFacts DEF ContextsInv, ValuesOK
    <3>3. Saved(current) \in Registers /\ cr4[Bsp] \in SUBSET InCr4
      <4>1. ctx[current].regs \in Registers /\ fpu \in Registers
        BY <3>2 DEF ContextType, ContextsInv, TypeOK
      <4>2. Saved(current) \in Registers
        BY <4>1 DEF Saved, Registers
      <4> QED BY <4>2, BspIsProcessor DEF ContextsInv, SetupInv, SetupTypeOK
    <3>4. \A part \in Kept : Saved(current)[part] = fpu[part]
      BY <1>4 DEF Saved
    <3> HIDE DEF old
    <3>5. /\ mid \in ContextType /\ mid.area = old.area /\ mid.floats = old.floats
          /\ mid.needed = old.needed /\ mid.regs = Saved(current)
      BY <3>2, <3>3, SMT DEF ContextType
    <3> HIDE DEF mid
    <3>6. /\ new \in ContextType /\ new.area = mid.area /\ new.floats = mid.floats
          /\ new.needed = mid.needed /\ new.regs = mid.regs /\ new.cr4 = cr4[Bsp]
      BY <3>3, <3>5, SMT DEF ContextType
    <3> HIDE DEF new
    <3>7. /\ ctx' \in [Threads -> ContextType \union {None}] /\ ctx'[current] = new
          /\ \A u \in Threads \ {current} : ctx'[u] = ctx[u]
      BY <3>1, <3>2, <3>6 DEF ContextsInv, TypeOK
    <3> QED BY <3>4, <3>5, <3>6, <3>7, LiveFacts DEF ContextsInv, old
  <2> QED BY <2>1, <2>2
<1>6. Live' = Live
  BY <1>5, ContextsAssumption DEF Live, ContextsInv, ValuesOK
<1>7. TypeOK'
  <2>1. fpu' \in Registers
    <3>1. ctx[t].regs \in Registers /\ fpu \in Registers
      BY <1>2, LiveFacts DEF ContextType, ContextsInv, TypeOK
    <3> QED BY <1>2, <3>1 DEF Loaded, Registers
  <2> QED BY <1>1, <1>2, <1>3, <1>5, <2>1 DEF ContextsInv, SetupInv, TypeOK
<1>8. BeforeRunning'
  BY <1>3, <1>6 DEF ContextsInv, BeforeRunning
<1>9. MadeOK'
  <2> SUFFICES ASSUME NEW u \in Live' PROVE MadeOf(u)'
    BY DEF MadeOK
  <2>1. MadeOf(u) /\ u \in Threads
    BY <1>6 DEF ContextsInv, MadeOK, Live
  <2>2. ctx'[u].area = ctx[u].area /\ ctx'[u].needed = ctx[u].needed
        /\ ctx'[u].floats = ctx[u].floats
    BY <1>5, <1>6, <2>1, LiveFacts DEF ContextsInv
  <2>3. EnabledFeatures \subseteq ctx'[u].cr4
    BY <1>3, <1>5, <1>6, <2>1, LiveFacts, RunningLists DEF ContextsInv, MadeOf
  <2> QED BY <1>1, <2>1, <2>2, <2>3, SameDecisions DEF MadeOf, Needed, Instruction
<1>10. ValuesOK'
  <2>1. ASSUME NEW u \in Live' \ {current'}, NEW part \in Kept'
        PROVE  ctx'[u].regs[part] = OwnValue(u, part)'
    <3>1. CASE u = current
      BY <1>3, <1>4, <1>5, <1>6, <3>1, LiveFacts DEF ContextsInv, ValuesOK, OwnValue
    <3>2. CASE u # current
      BY <1>3, <1>4, <1>5, <1>6, <3>2 DEF ContextsInv, ValuesOK, OwnValue, Live
    <3> QED BY <3>1, <3>2
  <2>2. ASSUME NEW part \in Kept' PROVE fpu'[part] = OwnValue(current, part)'
    <3>1. fpu'[part] = ctx[t].regs[part]
      BY <1>2, <1>4 DEF Loaded
    <3> QED BY <1>2, <1>3, <1>4, <3>1 DEF ContextsInv, ValuesOK, OwnValue
  <2>3. current' \in Live' \union {None} /\ \A u \in Threads \ Live' : used'[u] = {}
    BY <1>2, <1>3, <1>6 DEF ContextsInv, ValuesOK
  <2> QED BY <2>1, <2>2, <2>3 DEF ValuesOK
<1> QED BY <1>1, <1>7, <1>8, <1>9, <1>10 DEF ContextsInv

-----------------------------------------------------------------------------
(* The theorems. *)

\* The invariant holds in every state of every behaviour: of the start of any number of
\* processors, of the traps and the changes of gates while they run, and of contexts.
THEOREM ContextsInvariance == Spec => []ContextsInv
<1>1. ContextsInv /\ [Next]_vars => ContextsInv'
  <2> SUFFICES ASSUME ContextsInv, [Next]_vars PROVE ContextsInv'
    OBVIOUS
  <2>1. CASE SetupNext /\ UNCHANGED ctxVars
    BY <2>1, SetupNextInv
  <2>2. ASSUME NEW t \in Threads, InitContext(t) \/ UninitContext(t) PROVE ContextsInv'
    BY <2>2, InitContextInv, UninitContextInv
  <2>3. CASE Use
    BY <2>3, UseInv
  <2>4. CASE Switch
    BY <2>4, SwitchInv
  <2>5. CASE UNCHANGED vars
    BY <2>5, ContextsStutter
  <2> QED BY <2>1, <2>2, <2>3, <2>4, <2>5 DEF Next
<1> QED BY <1>1, ContextsInit, PTL DEF Spec

\* Every variable, of the processors and of the contexts, keeps its type.
THEOREM ContextsTypes == Spec => []TypeOK
<1>1. ContextsInv => TypeOK
  BY DEF ContextsInv
<1> QED BY <1>1, ContextsInvariance, PTL

\* An exception that comes between any two steps of init_arch_early and smp_register_ap
\* reaches its handler, on every processor, except in the times that Blind names.
THEOREM NoTrapLost == Spec => []TrapsAreDelivered
<1>1. ContextsInv => TrapsAreDelivered
  BY Delivered DEF ContextsInv
<1> QED BY <1>1, ContextsInvariance, PTL

\* interrupt_set may change any gate at any time: an interrupt that the processor takes
\* finds a whole one.
THEOREM NoTornGate == Spec => []InterruptsFindGates
<1>1. ContextsInv => InterruptsFindGates
  BY Found DEF ContextsInv
<1> QED BY <1>1, ContextsInvariance, PTL

\* No handler is interrupted by a second one on the same stack, even one that calls
\* interrupt_set.
THEOREM NoNestedFrame == Spec => []FramesAreKept
<1>1. ContextsInv => FramesAreKept
  BY OneFrame DEF ContextsInv
<1> QED BY <1>1, ContextsInvariance, PTL

\* context_save and context_load keep apart the threads' registers that the instruction
\* writes, for any number of threads, any XCR0 and whatever the bootstrapper lists.
THEOREM KeptFloatsStayOwn == Spec => []KeptFloatsAreOwn
<1>1. ContextsInv => KeptFloatsAreOwn
  BY DEF ContextsInv, ValuesOK, OwnValue, KeptFloatsAreOwn
<1> QED BY <1>1, ContextsInvariance, PTL

\* The instruction that context_save uses writes no more than init_context has allocated,
\* for contexts that are made once the processor's features are listed.
THEOREM NothingPastArea == Spec => []AreasFit
<1>1. ContextsInv => AreasFit
  <2> SUFFICES ASSUME ContextsInv, NEW t \in Live PROVE Written <= ctx[t].area
    BY DEF AreasFit
  <2>1. ctx[t].area = AreaSize
    BY DEF ContextsInv, MadeOK, MadeOf
  <2> QED BY <2>1, PartTypes, SMT
<1> QED BY <1>1, ContextsInvariance, PTL

\* Every switch loads the CR4 of a context, and each of these enables what the descriptor
\* lists.
THEOREM ListedStaysEnabled == Spec => []SelectedIsEnabled
<1>1. ContextsInv => SelectedIsEnabled
  BY RunningLists DEF ContextsInv, SelectedIsEnabled, EnabledFeatures
<1> QED BY <1>1, ContextsInvariance, PTL
=============================================================================
