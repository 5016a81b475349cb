----------------------------- MODULE TrapProof -----------------------------
(***************************************************************************)
(* Proofs about Trap, for any threads, processes and number of system      *)
(* calls.                                                                  *)
(*                                                                         *)
(* The argument: swapgs is executed where the saved CS says so, and the    *)
(* saved CS tells which GS base is loaded for all code but the two windows *)
(* of the system-call entry.  The timer's hook needs the descriptor, so it *)
(* never gets to switch away from a thread in a window, and no context     *)
(* ever holds one: the frame it returns to can be trusted.  For registers, *)
(* the frame a system call has pushed stands in while its handler runs,    *)
(* but only for those that a C function keeps: the others are spoiled      *)
(* before they are pushed, and again after they are popped.                *)
(***************************************************************************)
EXTENDS Trap, TLAPS

\* Kernel code of a system call while the user's registers are pushed.
Pushed == {"handler", "tcb", "restore"}
\* ... and while they are in the registers.
Kept == {"user", "stack", "kpages", "top", "free", "leave"} \union Window
\* While no C function has been called yet.
Unspoiled == {"user", "entry", "stack"}

\* A thread's registers are its own, or those it has pushed are.
ThreadOK(t) ==
  LET r == RegistersOf(t) IN
  /\ r.mode = "user" <=> r.pc = "user"
  /\ r.cr3.of = ProcessOf[t]
  /\ r.pc \in Kept => r.saved = expect[t].left
  /\ r.pc \in Unspoiled => r.scratch = expect[t].given
  /\ r.pc \in Pushed => /\ pushed[t].mode = "kernel"
                        /\ pushed[t].cr3.of = ProcessOf[t]
                        /\ pushed[t].saved = expect[t].left

\* The descriptor is loaded, but in user code and in the windows; a handler has
\* it unless it interrupted a window.
GsOK ==
  gs = "descriptor" <=> /\ regs.pc \notin Window
                        /\ Running => regs.pc # "user"

\* No switched-out thread is in a window.
ParkedOK == \A t \in Threads : t # cur => ctx[t].frame.pc \notin Window

\* TCBs are their threads'.
TcbOK ==
  /\ fs.of = cur
  /\ \A t \in Threads : ctx[t].tcb.of = t

TrapInv ==
  /\ TypeOK
  /\ \A t \in Threads : ThreadOK(t)
  /\ GsOK
  /\ ParkedOK
  /\ TcbOK

-----------------------------------------------------------------------------
(* Types *)

LEMMA StartType == \A t \in Threads : Start(t) \in Regs
BY TrapAssumption, SMT DEF Start, Regs, Pcs, User, Kernel, TablePairs, Processes, Values

LEMMA KernelType == \A t \in Threads : Kernel(ProcessOf[t]) \in TablePairs
BY TrapAssumption, SMT DEF Kernel, TablePairs, Processes

\* A register file stays one when a field of it changes.
LEMMA GoType == \A r \in Regs, p \in Pcs : [r EXCEPT !.pc = p] \in Regs
BY SMT DEF Regs

LEMMA FieldTypes ==
  \A r \in Regs :
    /\ \A m \in {"user", "kernel"} : [r EXCEPT !.mode = m] \in Regs
    /\ \A c \in TablePairs : [r EXCEPT !.cr3 = c] \in Regs
    /\ \A v \in Values : [r EXCEPT !.saved = v] \in Regs
    /\ \A v \in Values : [r EXCEPT !.scratch = v] \in Regs
BY SMT DEF Regs

\* ... and when several do.
LEMMA GoInType ==
  ASSUME NEW pc \in Pcs, NEW mode \in {"user", "kernel"}, NEW cr3 \in TablePairs,
         regs \in Regs, GoIn(pc, mode, cr3)
  PROVE  regs' \in Regs
<1> DEFINE p == [regs EXCEPT !.pc = pc]
           m == [p EXCEPT !.mode = mode]
<1>1. m \in Regs
  BY GoType, FieldTypes
<1>2. [m EXCEPT !.cr3 = cr3] \in Regs
  BY <1>1, FieldTypes
<1> QED BY <1>2 DEF GoIn

LEMMA AfterCallType ==
  ASSUME NEW pc \in Pcs, NEW cr3 \in TablePairs, regs \in Regs, AfterCall(pc, cr3)
  PROVE  regs' \in Regs
<1>1. PICK v \in Values : regs' = [regs EXCEPT !.pc = pc, !.cr3 = cr3, !.scratch = v]
  BY DEF AfterCall
<1> DEFINE p == [regs EXCEPT !.pc = pc]
           c == [p EXCEPT !.cr3 = cr3]
<1>2. c \in Regs
  BY GoType, FieldTypes
<1>3. [c EXCEPT !.scratch = v] \in Regs
  BY <1>2, FieldTypes
<1> QED BY <1>1, <1>3

LEMMA ValuesType == \A r \in Regs, v \in Values : [r EXCEPT !.saved = v, !.scratch = v] \in Regs
<1> TAKE r \in Regs, v \in Values
<1> DEFINE q == [r EXCEPT !.saved = v]
<1>1. q \in Regs
  BY FieldTypes
<1>2. [q EXCEPT !.scratch = v] \in Regs
  BY <1>1, FieldTypes
<1> QED BY <1>2

LEMMA InitType == Init => TypeOK
<1> SUFFICES ASSUME Init PROVE TypeOK
  OBVIOUS
<1>1. regs \in Regs /\ cur \in Threads
  BY StartType DEF Init
<1>2. /\ gs \in {"descriptor", "user"}
      /\ fs \in Tcbs
      /\ trap \in {"none", "timer", "breakpoint", "fault", "hung"}
      /\ page \in Pages \union {NoPage}
  BY <1>1, SMT DEF Init, Tcb, Tcbs, Values
<1>3. /\ ctx \in [Threads -> [frame : Regs, tcb : Tcbs]]
      /\ pushed \in [Threads -> Regs]
  BY StartType, SMT DEF Init, Tcb, Tcbs, Values
<1>4. tables \in [Processes -> SUBSET {"hhdm", "user"}]
  BY SMT DEF Init
<1>5. stacks \in 0..MaxSyscalls /\ expect \in [Threads -> Expected]
  BY TrapAssumption, SMT DEF Init, Values, Expected
<1> QED BY <1>1, <1>2, <1>3, <1>4, <1>5 DEF TypeOK

LEMMA InitInv == Init => TrapInv
<1> SUFFICES ASSUME Init PROVE TrapInv
  OBVIOUS
<1>1. TypeOK
  BY InitType
<1>2. \A t \in Threads : RegistersOf(t) = Start(t)
  <2> TAKE t \in Threads
  <2>1. ctx[t].frame = Start(t)
    BY SMT DEF Init
  <2>2. t = cur => regs = Start(t)
    BY DEF Init
  <2> QED BY <2>1, <2>2 DEF RegistersOf
<1>3. \A t \in Threads : ThreadOK(t)
  <2> TAKE t \in Threads
  <2>1. Start(t).cr3.of = ProcessOf[t]
    BY SMT DEF Start, User, Kernel
  <2> QED BY <1>2, <2>1, SMT DEF Init, ThreadOK, Start, Kept, Unspoiled, Pushed, Window
<1>4. GsOK
  BY <1>1, SMT DEF Init, GsOK, Start, Window, Running, TypeOK
<1>5. ParkedOK
  BY SMT DEF Init, ParkedOK, Start, Window
<1>6. TcbOK
  BY SMT DEF Init, TcbOK, Tcb
<1> QED BY <1>1, <1>3, <1>4, <1>5, <1>6 DEF TrapInv

-----------------------------------------------------------------------------
(* The steps, one action at a time. *)

LEMMA TypeStep == TypeOK /\ Next => TypeOK'
<1> SUFFICES ASSUME TypeOK, Next PROVE TypeOK'
  OBVIOUS
<1> USE TrapAssumption DEF TypeOK
<1>1. CASE Compute
  <2>1. regs' \in Regs
    <3>1. PICK v \in Values : regs' = [regs EXCEPT !.saved = v, !.scratch = v]
      BY <1>1 DEF Compute
    <3> QED BY <3>1, ValuesType
  <2>2. expect' \in [Threads -> Expected]
    BY <1>1, SMT DEF Compute, Expected
  <2> QED BY <1>1, <2>1, <2>2, SMT DEF Compute
<1>2. CASE Syscall
  <2>1. "entry" \in Pcs /\ regs.cr3 \in TablePairs
    BY KernelType, SMT DEF Pcs, Window, Regs
  <2>2. regs' \in Regs
    BY <1>2, <2>1, GoInType DEF Syscall
  <2> QED BY <1>2, <2>2, SMT DEF Syscall
<1>3. CASE SysSwapGs
  <2>1. regs' \in Regs
    BY <1>3, GoType DEF SysSwapGs, Go, Pcs, Window
  <2> QED BY <1>3, <2>1, SMT DEF SysSwapGs, Swap
<1>4. CASE SysGetStack
  <2>1. regs' \in Regs
    BY <1>4, AfterCallType DEF SysGetStack, Pcs, Regs
  <2> QED BY <1>4, <2>1, SMT DEF SysGetStack
<1>5. CASE SysLoadTables
  <2>1. "top" \in Pcs /\ Kernel(ProcessOf[cur]) \in TablePairs
    BY KernelType, SMT DEF Pcs
  <2>2. regs' \in Regs
    BY <1>5, <2>1, AfterCallType DEF SysLoadTables
  <2> QED BY <1>5, <2>2, SMT DEF SysLoadTables
<1>6. CASE SysSave
  <2>1. regs' \in Regs
    BY <1>6, GoType DEF SysSave, Go, Pcs, Window
  <2> QED BY <1>6, <2>1, SMT DEF SysSave
<1>7. CASE SysWork
  <2>1. regs' \in Regs
    <3>1. PICK v \in Values : regs' = [regs EXCEPT !.saved = v, !.scratch = v]
      BY <1>7 DEF SysWork
    <3> QED BY <3>1, ValuesType
  <2> QED BY <1>7, <2>1, SMT DEF SysWork
<1>8. CASE SetTcbRegister
  <2>1. regs' \in Regs
    BY <1>8, GoType DEF SetTcbRegister, Go, Pcs, Window
  <2> QED BY <1>8, <2>1, SMT DEF SetTcbRegister, Tcb, Tcbs, Values
<1>9. CASE SetTcbContext
  <2>1. regs' \in Regs
    BY <1>9, GoType DEF SetTcbContext, Go, Pcs, Window
  <2> QED BY <1>9, <2>1, SMT DEF SetTcbContext, Tcb, Tcbs, Values
<1>10. CASE SysReturn
  <2>1. regs' \in Regs
    BY <1>10, GoType DEF SysReturn, Go, Pcs, Window
  <2> QED BY <1>10, <2>1, SMT DEF SysReturn
<1>11. CASE SysRestore
  <2>1. regs' \in Regs
    BY <1>11, SMT DEF Regs, Pcs, Window, SysRestore
  <2> QED BY <1>11, <2>1, SMT DEF SysRestore
<1>12. CASE SysFreeStack
  <2>1. "leave" \in Pcs /\ regs.cr3 \in TablePairs
    BY SMT DEF Pcs, Regs
  <2>2. regs' \in Regs
    BY <1>12, <2>1, AfterCallType DEF SysFreeStack
  <2> QED BY <1>12, <2>2, SMT DEF SysFreeStack
<1>13. CASE SysLeave
  <2>1. regs' \in Regs
    BY <1>13, GoType DEF SysLeave, Go, Pcs, Window
  <2> QED BY <1>13, <2>1, SMT DEF SysLeave, Swap
<1>14. CASE Sysret
  <2>1. "user" \in Pcs /\ regs.cr3 \in TablePairs
    BY KernelType, SMT DEF Pcs, Window, Regs
  <2>2. regs' \in Regs
    BY <1>14, <2>1, GoInType DEF Sysret
  <2>3. expect' \in [Threads -> Expected]
    <3>1. regs.scratch \in Values
      BY SMT DEF Regs
    <3>2. [expect[cur] EXCEPT !.given = regs.scratch] \in Expected
      BY <3>1, SMT DEF Expected
    <3>3. expect' = [expect EXCEPT ![cur] = [expect[cur] EXCEPT !.given = regs.scratch]]
      BY <1>14, SMT DEF Sysret
    <3> QED BY <3>2, <3>3, SMT
  <2> QED BY <1>14, <2>2, <2>3, SMT DEF Sysret
<1>15. CASE Timer
  BY <1>15, SMT DEF Timer, Enter, Swap
<1>16. CASE Breakpoint
  BY <1>16, SMT DEF Breakpoint, Enter, Swap
<1>17. CASE Fatal
  BY <1>17, SMT DEF Fatal, Enter, Swap
<1>18. CASE PageFault
  BY <1>18, SMT DEF PageFault, Enter, Swap, Touches, Pages
<1>19. CASE ServeFault
  <2>1. tables' \in [Processes -> SUBSET {"hhdm", "user"}]
    <3>1. Enters(page) \subseteq {"hhdm", "user"}
      BY <1>19, SMT DEF Enters, Pages
    <3>2. ProcessOf[cur] \in Processes
      BY SMT DEF Processes
    <3>3. tables[ProcessOf[cur]] \union Enters(page) \in SUBSET {"hhdm", "user"}
      BY <3>1, <3>2, SMT
    <3> QED BY <1>19, <3>2, <3>3, SMT DEF ServeFault
  <2> QED BY <1>19, <2>1, SMT DEF ServeFault, Leave, Swap
<1>20. CASE FailFault
  BY <1>20, SMT DEF FailFault
<1>21. CASE LeaveBreakpoint
  BY <1>21, SMT DEF LeaveBreakpoint, Leave, Swap
<1>22. CASE Switch
  BY <1>22, SMT DEF Switch, Leave, ContextSave, Swap
<1>23. CASE Astray
  BY <1>23, SMT DEF Astray
<1> QED BY <1>1, <1>2, <1>3, <1>4, <1>5, <1>6, <1>7, <1>8, <1>9, <1>10,
           <1>11, <1>12, <1>13, <1>14, <1>15, <1>16, <1>17, <1>18, <1>19,
           <1>20, <1>21, <1>22, <1>23
       DEF Next, ThreadStep, TrapStep

\* In the lemmas below an action that leaves alone what a conjunct is about keeps
\* it, and the others are looked at one by one.

\* Registers are saved, pushed, popped and loaded for their own threads.
LEMMA ThreadsStep == TrapInv /\ Next => \A t \in Threads : ThreadOK(t)'
<1> SUFFICES ASSUME TrapInv, Next PROVE \A t \in Threads : ThreadOK(t)'
  OBVIOUS
<1> USE DEF TrapInv, TypeOK, ThreadOK, RegistersOf, Kept, Unspoiled, Pushed, Window, Regs
<1>1. CASE UNCHANGED <<regs, cur, ctx, pushed, expect>>
  BY <1>1, SMT
<1>2. CASE Compute
  BY <1>2, SMT DEF Compute
<1>3. CASE Syscall
  BY <1>3, SMT DEF Syscall, GoIn
<1>4. CASE SysSwapGs
  BY <1>4, SMT DEF SysSwapGs, Go, Swap
<1>5. CASE SysGetStack
  BY <1>5, SMT DEF SysGetStack, AfterCall
<1>6. CASE SysLoadTables
  BY <1>6, SMT DEF SysLoadTables, AfterCall, Kernel
<1>7. CASE SysSave
  BY <1>7, SMT DEF SysSave, Go
<1>8. CASE SysWork
  BY <1>8, SMT DEF SysWork
<1>9. CASE SetTcbRegister
  BY <1>9, SMT DEF SetTcbRegister, Go
<1>10. CASE SetTcbContext
  BY <1>10, SMT DEF SetTcbContext, Go
<1>11. CASE SysReturn
  BY <1>11, SMT DEF SysReturn, Go
<1>12. CASE SysRestore
  BY <1>12, SMT DEF SysRestore
<1>13. CASE SysFreeStack
  BY <1>13, SMT DEF SysFreeStack, AfterCall
<1>14. CASE SysLeave
  BY <1>14, SMT DEF SysLeave, Go, Swap
<1>15. CASE Sysret
  BY <1>15, SMT DEF Sysret, GoIn
<1>16. CASE Switch
  BY <1>16, SMT DEF Switch, Leave, ContextSave, Swap
<1>17. CASE Timer \/ Breakpoint \/ Fatal \/ PageFault \/ ServeFault \/ FailFault \/
           LeaveBreakpoint \/ Astray
  BY <1>17, <1>1 DEF Timer, Breakpoint, Fatal, PageFault, ServeFault, FailFault,
          LeaveBreakpoint, Astray, Enter, Leave
<1> QED BY <1>2, <1>3, <1>4, <1>5, <1>6, <1>7, <1>8, <1>9, <1>10,
           <1>11, <1>12, <1>13, <1>14, <1>15, <1>16, <1>17
       DEF Next, ThreadStep, TrapStep

\* Every swapgs is matched, with the mode of the frame that is returned to.
LEMMA GsStep == TrapInv /\ Next => GsOK'
<1> SUFFICES ASSUME TrapInv, Next PROVE GsOK'
  OBVIOUS
<1> USE DEF TrapInv, TypeOK, ThreadOK, RegistersOf, Window, GsOK, Running, Regs
<1>1. CASE Compute
  BY <1>1, SMT DEF Compute
<1>2. CASE Syscall
  BY <1>2, SMT DEF Syscall, GoIn
<1>3. CASE SysSwapGs
  BY <1>3, SMT DEF SysSwapGs, Go, Swap
<1>4. CASE SysGetStack
  BY <1>4, SMT DEF SysGetStack, AfterCall
<1>5. CASE SysLoadTables
  BY <1>5, SMT DEF SysLoadTables, AfterCall, Kernel
<1>6. CASE SysSave
  BY <1>6, SMT DEF SysSave, Go
<1>7. CASE SysWork
  BY <1>7, SMT DEF SysWork
<1>8. CASE SetTcbRegister
  BY <1>8, SMT DEF SetTcbRegister, Go
<1>9. CASE SetTcbContext
  BY <1>9, SMT DEF SetTcbContext, Go
<1>10. CASE SysReturn
  BY <1>10, SMT DEF SysReturn, Go
<1>11. CASE SysRestore
  BY <1>11, SMT DEF SysRestore
<1>12. CASE SysFreeStack
  BY <1>12, SMT DEF SysFreeStack, AfterCall
<1>13. CASE SysLeave
  BY <1>13, SMT DEF SysLeave, Go, Swap
<1>14. CASE Sysret
  BY <1>14, SMT DEF Sysret, GoIn
<1>15. CASE Timer
  BY <1>15, SMT DEF Timer, Enter, Swap
<1>16. CASE Breakpoint
  BY <1>16, SMT DEF Breakpoint, Enter, Swap
<1>17. CASE Fatal
  BY <1>17, SMT DEF Fatal, Enter, Swap
<1>18. CASE PageFault
  BY <1>18, SMT DEF PageFault, Enter, Swap
<1>19. CASE ServeFault
  BY <1>19, SMT DEF ServeFault, Leave, Swap, Served
<1>20. CASE FailFault
  BY <1>20, SMT DEF FailFault
<1>21. CASE LeaveBreakpoint
  BY <1>21, SMT DEF LeaveBreakpoint, Leave, Swap
<1>22. CASE Switch
  BY <1>22, SMT DEF Switch, Leave, ContextSave, Swap, ParkedOK
<1>23. CASE Astray
  BY <1>23, SMT DEF Astray
<1> QED BY <1>1, <1>2, <1>3, <1>4, <1>5, <1>6, <1>7, <1>8, <1>9, <1>10,
           <1>11, <1>12, <1>13, <1>14, <1>15, <1>16, <1>17, <1>18, <1>19,
           <1>20, <1>21, <1>22, <1>23
       DEF Next, ThreadStep, TrapStep

\* The hook parks the current thread only when the descriptor is loaded.
LEMMA ParkedStep == TrapInv /\ Next => ParkedOK'
<1> SUFFICES ASSUME TrapInv, Next PROVE ParkedOK'
  OBVIOUS
<1> USE DEF TrapInv, TypeOK, ParkedOK, GsOK, Window
<1>1. CASE UNCHANGED <<cur, ctx>>
  BY <1>1, SMT
<1>2. CASE SetTcbContext
  BY <1>2, SMT DEF SetTcbContext, Go
<1>3. CASE Switch
  BY <1>3, SMT DEF Switch, Leave, ContextSave, Swap
<1>4. CASE Compute \/ Syscall \/ SysSwapGs \/ SysGetStack \/ SysLoadTables \/
           SysSave \/ SysWork \/ SetTcbRegister \/ SysReturn \/ SysRestore \/
           SysFreeStack \/ SysLeave \/ Sysret \/ Timer \/ Breakpoint \/ Fatal \/ PageFault \/
           ServeFault \/ FailFault \/ LeaveBreakpoint \/ Astray
  BY <1>4, <1>1 DEF Compute, Syscall, SysSwapGs, SysGetStack, SysLoadTables,
          SysSave, SysWork, SetTcbRegister, SysReturn, SysRestore,
          SysFreeStack, SysLeave, Sysret, Timer, Breakpoint, Fatal, PageFault,
          ServeFault, FailFault, LeaveBreakpoint, Astray
<1> QED BY <1>2, <1>3, <1>4
       DEF Next, ThreadStep, TrapStep

\* FS_BASE is set for the current thread, or loaded with the context.
LEMMA TcbStep == TrapInv /\ Next => TcbOK'
<1> SUFFICES ASSUME TrapInv, Next PROVE TcbOK'
  OBVIOUS
<1> USE DEF TrapInv, TypeOK, TcbOK, Tcb, Tcbs
<1>1. CASE UNCHANGED <<fs, cur, ctx>>
  BY <1>1, SMT
<1>2. CASE SetTcbRegister
  BY <1>2, SMT DEF SetTcbRegister, Go
<1>3. CASE SetTcbContext
  BY <1>3, SMT DEF SetTcbContext, Go
<1>4. CASE Switch
  BY <1>4, SMT DEF Switch, Leave, ContextSave, Swap
<1>5. CASE Compute \/ Syscall \/ SysSwapGs \/ SysGetStack \/ SysLoadTables \/
           SysSave \/ SysWork \/ SysReturn \/ SysRestore \/ SysFreeStack \/ SysLeave \/ Sysret \/
           Timer \/ Breakpoint \/ Fatal \/ PageFault \/ ServeFault \/ FailFault \/
           LeaveBreakpoint \/ Astray
  BY <1>5, <1>1 DEF Compute, Syscall, SysSwapGs, SysGetStack, SysLoadTables,
          SysSave, SysWork, SysReturn, SysRestore, SysFreeStack, SysLeave, Sysret,
          Timer, Breakpoint, Fatal, PageFault, ServeFault, FailFault,
          LeaveBreakpoint, Astray, Enter, Leave
<1> QED BY <1>2, <1>3, <1>4, <1>5
       DEF Next, ThreadStep, TrapStep

-----------------------------------------------------------------------------
(* The theorems *)

\* TrapInv holds in every state that the stubs, handlers, the system-call entry
\* and the context switch can reach.
THEOREM Invariance == Spec => []TrapInv
<1>1. Init => TrapInv
  BY InitInv
<1>2. TrapInv /\ [Next]_vars => TrapInv'
  <2> SUFFICES ASSUME TrapInv, [Next]_vars PROVE TrapInv'
    OBVIOUS
  <2>1. CASE Next
    BY <2>1, TypeStep, ThreadsStep, GsStep, ParkedStep, TcbStep DEF TrapInv
  <2>2. CASE UNCHANGED vars
    <3> USE <2>2 DEF TrapInv, vars
    <3>1. TypeOK'
      BY SMT DEF TypeOK
    <3>2. \A t \in Threads : ThreadOK(t)'
      BY SMT DEF ThreadOK, RegistersOf
    <3>3. GsOK' /\ ParkedOK' /\ TcbOK'
      BY SMT DEF GsOK, Running, ParkedOK, TcbOK
    <3> QED BY <3>1, <3>2, <3>3
  <2> QED BY <2>1, <2>2
<1> QED BY <1>1, <1>2, PTL DEF Spec

\* The variables keep their types.
THEOREM TypeCorrect == Spec => []TypeOK
BY Invariance, PTL DEF TrapInv

\* Whatever interrupts it, a user thread resumes with the registers it had: the
\* frames, the pushed registers and the contexts never get mixed up.  A system call
\* gives back those a C function keeps; the others are what it left in them.
THEOREM RegistersAreConserved == Spec => []RegistersConserved
<1>1. TrapInv => RegistersConserved
  BY SMT DEF TrapInv, RegistersConserved, ThreadOK, Kept, Unspoiled
<1> QED BY <1>1, Invariance, PTL

\* Every thread runs, and will resume, on its own process's page tables, for any
\* number of threads and processes.
THEOREM TablesAreOwn == Spec => []OwnTables
<1>1. TrapInv => OwnTables
  BY DEF TrapInv, OwnTables, ThreadOK
<1> QED BY <1>1, Invariance, PTL

\* swapgs stays balanced across traps, system calls and thread switches.
THEOREM GsBalanced == Spec => []GsFollowsMode
<1>1. TrapInv => GsFollowsMode
  BY SMT DEF TrapInv, TypeOK, Regs, GsOK, GsFollowsMode, ThreadOK, RegistersOf, Window
<1> QED BY <1>1, Invariance, PTL

\* A running thread has a TCB of its own in FS_BASE.
THEOREM TcbIsOwn == Spec => []OwnTcb
<1>1. TrapInv => OwnTcb
  BY DEF TrapInv, OwnTcb, TcbOK
<1> QED BY <1>1, Invariance, PTL
=============================================================================
