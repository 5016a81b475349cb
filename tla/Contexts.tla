------------------------------ MODULE Contexts ------------------------------
(***************************************************************************)
(* Contexts on the boot processor that module Setup has set up:            *)
(* init_context, uninit_context, context_check_features and the x87 and    *)
(* SSE registers in context_save and context_load (src/c/context.c).       *)
(*                                                                         *)
(* The size of a context's area is decided when it is made, by the         *)
(* features that are listed then; what is written to it, and what of the   *)
(* registers it keeps, when it is switched, by the features listed by then *)
(* and by what CR4 and XCR0 enable.  The general registers, the page       *)
(* tables and the TCB are in module Trap.                                  *)
(***************************************************************************)
EXTENDS Setup

CONSTANTS
  Threads,
  Xcr0,           \* the parts XCR0 enables; no code writes it, and it is {"x87"} at reset
  None, Fresh     \* no context or thread; registers as a thread finds them first

Parts == {"x87", "sse"}
Registers == [Parts -> Threads \union {Fresh}]
ContextType == [area : {0, 512, 576}, cr4 : SUBSET InCr4, floats : BOOLEAN,
                needed : SUBSET Features, regs : Registers]

ASSUME ContextsAssumption ==
  /\ Xcr0 \subseteq Parts
  /\ IsFiniteSet(Threads)
  /\ None \notin Threads /\ Fresh \notin Threads
  /\ None \notin ContextType

VARIABLES
  ctx,      \* every thread's context
  fpu,      \* whose values the parts hold
  used,     \* the parts a thread has put values into
  current   \* the thread that runs

ctxVars == <<ctx, fpu, used, current>>
vars    == <<setupVars, ctxVars>>

Init ==
  /\ SetupInit
  /\ ctx = [t \in Threads |-> None]
  /\ fpu = [part \in Parts |-> Fresh]
  /\ used = [t \in Threads |-> {}]
  /\ current = None

Live == {t \in Threads : ctx[t] # None}

-----------------------------------------------------------------------------
\* The instruction that saves and restores, for the features that are listed.
Instruction ==
  IF "XSAVE" \in features[Bsp] THEN "xsave"
  ELSE IF "FXSAVE" \in features[Bsp] THEN "fxsave" ELSE "none"

\* Faulty: without the header that xsave writes.
AreaWithoutHeader == IF Instruction = "none" THEN 0 ELSE 512
AreaSize ==
  CASE Instruction = "xsave" -> 512 + 64 [] Instruction = "fxsave" -> 512 [] OTHER -> 0

\* What the instruction keeps, and how much it writes.
Kept == CASE Instruction = "xsave" -> Xcr0 [] Instruction = "fxsave" -> Parts [] OTHER -> {}
Written == CASE Instruction = "xsave" -> 576 [] Instruction = "fxsave" -> 512 [] OTHER -> 0

\* The features a thread will need: those of its area, and SSE if it asks for floats.
Needed(floats) ==
  (CASE Instruction = "xsave" -> {"XSAVE"} [] Instruction = "fxsave" -> {"FXSAVE"} [] OTHER -> {})
    \union (IF floats THEN {"SSE1"} ELSE {})

\* context_check_features: those in one set only, of which those that are needed.
CheckFeatures(needed, avl) == ((needed \ avl) \union (avl \ needed)) \intersect needed = {}

\* Faulty: the frame starts with a CR4 of zeros.
ZeroCr4 == {}
InitialCr4 == cr4[Bsp]

\* The kernel makes contexts once init_arch has returned.  Both allocations may fail, and
\* then nothing is left; since the listed features no longer change, the size and CR4
\* may be taken in one step.
InitContext(t) ==
  /\ Running /\ ctx[t] = None
  /\ \E floats \in BOOLEAN :
       ctx' = [ctx EXCEPT ![t] =
                [area |-> AreaSize, cr4 |-> InitialCr4, floats |-> floats,
                 needed |-> Needed(floats), regs |-> [part \in Parts |-> Fresh]]]
  /\ UNCHANGED <<setupVars, fpu, used, current>>

UninitContext(t) ==
  /\ Running /\ t \in Live /\ t # current
  /\ ctx' = [ctx EXCEPT ![t] = None]
  /\ used' = [used EXCEPT ![t] = {}]
  /\ UNCHANGED <<setupVars, fpu, current>>

\* Programs compute with floats where their registers are kept.
Use ==
  /\ Thread /\ current # None
  /\ ctx[current].floats /\ Instruction # "none"
  /\ \E part \in Parts :
       /\ fpu' = [fpu EXCEPT ![part] = current]
       /\ used' = [used EXCEPT ![current] = @ \union {part}]
  /\ UNCHANGED <<setupVars, ctx, current>>

\* Faulty: the old thread's registers are not saved.
SavedNot(t) == ctx[t].regs

\* context_save and context_load; the way out of the handler loads CR4.
Saved(t) == [part \in Parts |-> IF part \in Kept THEN fpu[part] ELSE ctx[t].regs[part]]
Loaded(t) == [part \in Parts |-> IF part \in Kept THEN ctx[t].regs[part] ELSE fpu[part]]

\* The processor has the instruction that is selected, and CR4 enables it.
Works ==
  CASE Instruction = "xsave" -> "XSAVE" \in cr4[Bsp]
    [] Instruction = "fxsave" -> "FXSAVE" \in cpuid
    [] OTHER -> TRUE

\* In a handler, to a thread that may run on this processor; an instruction that does
\* not work ends in the handler of an exception, which hangs.
Switch ==
  /\ Running /\ frames[Bsp] > 0 /\ job[Bsp] = Idle
  /\ Works
  /\ \E t \in Live \ {current} :
       /\ CheckFeatures(ctx[t].needed, features[Bsp])
       /\ ctx' = IF current = None THEN ctx
                 ELSE [ctx EXCEPT ![current] = [@ EXCEPT !.regs = Saved(current), !.cr4 = cr4[Bsp]]]
       /\ fpu' = Loaded(t)
       /\ cr4' = [cr4 EXCEPT ![Bsp] = ctx[t].cr4]
       /\ current' = t
  /\ UNCHANGED <<cpuid, tables, ie, timer, pending, memory, at, program, used>>

Next ==
  \/ SetupNext /\ UNCHANGED ctxVars
  \/ \E t \in Threads : InitContext(t) \/ UninitContext(t)
  \/ Use \/ Switch

Spec == Init /\ [][Next]_vars

-----------------------------------------------------------------------------
(* Properties *)

\* The type of every variable.
TypeOK ==
  /\ SetupTypeOK
  /\ ctx \in [Threads -> ContextType \union {None}]
  /\ fpu \in Registers
  /\ used \in [Threads -> SUBSET Parts]
  /\ current \in Threads \union {None}

\* A thread finds in the registers that its instruction keeps what it has put there, and
\* nothing that another has, however it is interrupted, switched away, and whatever
\* memory its context was.  With the XCR0 of a reset, xsave keeps those of the x87 alone,
\* and nothing is said of the others: a thread finds what the last one left in them.
KeptFloatsAreOwn ==
  current # None =>
    \A part \in Kept : fpu[part] = IF part \in used[current] THEN current ELSE Fresh

\* No context is written past its area, or to none.
AreasFit == \A t \in Live : Written <= ctx[t].area

\* What the descriptor lists and the processor has is enabled in CR4, although every
\* return from a handler loads the CR4 of some context.
SelectedIsEnabled ==
  Running => features[Bsp] \intersect cpuid \intersect InCr4 \subseteq cr4[Bsp]
=============================================================================
