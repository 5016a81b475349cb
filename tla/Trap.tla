-------------------------------- MODULE Trap --------------------------------
(***************************************************************************)
(* Entering and leaving the kernel on one processor: the interrupt stubs   *)
(* (src/asm/idt.asm, interrupt.h), the handlers (src/c/generic_isrs.c),    *)
(* the system-call entry (src/asm/syscall.asm) and the thread contexts     *)
(* that the timer's handler saves and loads (src/c/context.c).             *)
(*                                                                         *)
(* A trap saves the interrupted registers in a frame, swaps the GS base if *)
(* it came from user mode, loads the kernel's own page tables and calls    *)
(* the handler; the handler may replace the frame; the way back is decided *)
(* by what the frame holds then.  Gates clear IF, so a handler is          *)
(* only interrupted by its own exceptions, all of which hang.  Everything  *)
(* else runs with interrupts on: threads start that way and IA32_FMASK is  *)
(* 0.                                                                      *)
(*                                                                         *)
(* The general registers a thread computes with are two values here: those *)
(* that a C function keeps for its caller (RBX, RBP, R12 to R15) and those *)
(* that it may spoil (RSI, RDI, R8 to R10).  RDX, which a system call      *)
(* spoils by its own account, and RAX, its result, are not among them.     *)
(* The C functions that the system-call entry calls are taken to leave     *)
(* RCX, RDX and R11 alone, in which it keeps what it needs.  The state of  *)
(* the FPU is no part of a frame and is left out.                          *)
(***************************************************************************)
EXTENDS Integers

CONSTANTS
  Threads,
  UserThreads,    \* those that run in user mode; the others are the kernel's
  ProcessOf,      \* the process of every thread
  NoPage,
  MaxSyscalls     \* bound: system calls in a behaviour

Processes == {ProcessOf[t] : t \in Threads}

ASSUME TrapAssumption ==
  /\ UserThreads \subseteq Threads
  /\ DOMAIN ProcessOf = Threads
  /\ MaxSyscalls \in Nat

VARIABLES
  regs,       \* the registers of the thread that runs; in a handler's frame while
              \* it is interrupted
  gs,         \* what GS_BASE holds; KERNEL_GS_BASE holds the other
  fs,         \* FS_BASE
  trap,       \* the handler that runs
  page,       \* the page of the fault that is handled
  cur,        \* the thread the scheduler runs, with its process in the descriptor
  ctx,        \* the context of every thread: frame and TCB
  pushed,     \* the frame a system call has pushed on its stack
  tables,     \* the pages of interest that the kernel tables of a process map
  stacks,     \* system-call stacks that were allocated and never freed
  expect      \* history: the registers as each user thread left them

vars == <<regs, gs, fs, trap, page, cur, ctx, pushed, tables, stacks, expect>>

-----------------------------------------------------------------------------
\* The two sets of page tables of a process; handlers run on a third,
\* Arc_KernelPageTables, and nothing of interest is mapped there.
User(p)   == [of |-> p, half |-> "user"]
Kernel(p) == [of |-> p, half |-> "kernel"]
TablePairs == [of : Processes, half : {"user", "kernel"}]

\* A page of the direct map, one of the process, and one that nobody has or that
\* lies in the kernel's image.
Pages == {"hhdm", "user", "absent"}

\* Between the syscall instruction and swapgs, and between swapgs and sysret.
Window == {"entry", "sysret"}
Pcs == {"user", "kernel", "stack", "kpages", "top", "handler", "tcb", "restore", "free",
        "leave"} \union Window

Values == 0..1
Regs == [pc : Pcs, mode : {"user", "kernel"}, cr3 : TablePairs,
         saved : Values, scratch : Values]
\* What a thread left in its registers; in those that C spoils, what its last
\* system call may have given it since.
Expected == [left : Values, given : Values]

\* context_setup_for_thread
Start(t) ==
  IF t \in UserThreads
    THEN [pc |-> "user", mode |-> "user", cr3 |-> User(ProcessOf[t]),
          saved |-> 0, scratch |-> 0]
    ELSE [pc |-> "kernel", mode |-> "kernel", cr3 |-> Kernel(ProcessOf[t]),
          saved |-> 0, scratch |-> 0]

\* The TCB of a thread, before and after it is set.
Tcb(t, n) == [of |-> t, set |-> n]
Tcbs == [of : Threads, set : Values]

Init ==
  /\ cur \in Threads
  /\ regs = Start(cur)
  /\ gs = IF regs.mode = "user" THEN "user" ELSE "descriptor"
  /\ fs = Tcb(cur, 0)
  /\ trap = "none"
  /\ page = NoPage
  /\ ctx = [t \in Threads |-> [frame |-> Start(t), tcb |-> Tcb(t, 0)]]
  /\ pushed = [t \in Threads |-> Start(t)]
  /\ tables \in [Processes -> {{}, {"user"}}]
  /\ stacks = 0
  /\ expect = [t \in Threads |-> [left |-> 0, given |-> 0]]

Swap(g) == IF g = "user" THEN "descriptor" ELSE "user"

Go(pc) == regs' = [regs EXCEPT !.pc = pc]
GoIn(pc, mode, cr3) ==
  regs' = [regs EXCEPT !.pc = pc, !.mode = mode, !.cr3 = cr3]
Running == trap = "none"

-----------------------------------------------------------------------------
(* Threads between traps *)

\* The tables a program runs on map page p: a process's user tables map what it
\* has, its kernel tables what has been entered in them.
Reaches(r, p) ==
  IF r.cr3.half = "user" THEN p # "absent" ELSE p \in tables[r.cr3.of]

\* User code computes, and leaves one value in both kinds of registers.
Compute ==
  /\ Running /\ regs.pc = "user" /\ Reaches(regs, "user")
  /\ \E v \in Values :
       /\ regs' = [regs EXCEPT !.saved = v, !.scratch = v]
       /\ expect' = [expect EXCEPT ![cur] = [left |-> v, given |-> v]]
  /\ UNCHANGED <<gs, fs, trap, page, cur, ctx, pushed, tables, stacks>>

\* The syscall instruction: kernel mode on the user's stack, tables and GS.
Syscall ==
  /\ Running /\ regs.pc = "user" /\ Reaches(regs, "user")
  /\ stacks < MaxSyscalls
  /\ GoIn("entry", "kernel", regs.cr3)
  /\ UNCHANGED <<gs, fs, trap, page, cur, ctx, pushed, tables, stacks, expect>>

SysSwapGs ==
  /\ Running /\ regs.pc = "entry"
  /\ gs' = Swap(gs)
  /\ Go("stack")
  /\ UNCHANGED <<fs, trap, page, cur, ctx, pushed, tables, stacks, expect>>

\* A C function returns: it may have spoiled the registers that are its to use.
AfterCall(pc, cr3) ==
  \E v \in Values : regs' = [regs EXCEPT !.pc = pc, !.cr3 = cr3, !.scratch = v]

\* syscall_get_stack is called before any register is saved.
SysGetStack ==
  /\ Running /\ regs.pc = "stack"
  /\ stacks < MaxSyscalls
  /\ stacks' = stacks + 1
  /\ AfterCall("kpages", regs.cr3)
  /\ UNCHANGED <<gs, fs, trap, page, cur, ctx, pushed, tables, expect>>

\* syscall_get_kpages finds the process through the GS base.
SysLoadTables ==
  /\ Running /\ regs.pc = "kpages" /\ gs = "descriptor"
  /\ AfterCall("top", Kernel(ProcessOf[cur]))
  /\ UNCHANGED <<gs, fs, trap, page, cur, ctx, pushed, tables, stacks, expect>>

\* The word on the user's stack is read on the kernel's tables, and the user's
\* registers are pushed on the new stack, in the direct map.  CR3 among them is
\* the kernel's by now.
SysSave ==
  /\ Running /\ regs.pc = "top"
  /\ Reaches(regs, "user") /\ Reaches(regs, "hhdm")
  /\ pushed' = [pushed EXCEPT ![cur] = regs]
  /\ Go("handler")
  /\ UNCHANGED <<gs, fs, trap, page, cur, ctx, tables, stacks, expect>>

\* The handler of the system call uses registers and reaches memory ...
SysWork ==
  /\ Running /\ regs.pc = "handler"
  /\ \E v \in Values : regs' = [regs EXCEPT !.saved = v, !.scratch = v]
  /\ UNCHANGED <<gs, fs, trap, page, cur, ctx, pushed, tables, stacks, expect>>

\* ... and may set the caller's TCB: context_set_tcb writes the register first.
SetTcbRegister ==
  /\ Running /\ regs.pc = "handler"
  /\ fs' = Tcb(cur, 1)
  /\ Go("tcb")
  /\ UNCHANGED <<gs, trap, page, cur, ctx, pushed, tables, stacks, expect>>

SetTcbContext ==
  /\ Running /\ regs.pc = "tcb"
  /\ ctx' = [ctx EXCEPT ![cur].tcb = Tcb(cur, 1)]
  /\ Go("restore")
  /\ UNCHANGED <<gs, fs, trap, page, cur, pushed, tables, stacks, expect>>

SysReturn ==
  /\ Running /\ regs.pc = "handler"
  /\ Go("restore")
  /\ UNCHANGED <<gs, fs, trap, page, cur, ctx, pushed, tables, stacks, expect>>

\* Faulty: the user's registers are not popped.
SysRestoreNot ==
  /\ Running /\ regs.pc = "restore"
  /\ Go("free")
  /\ UNCHANGED <<gs, fs, trap, page, cur, ctx, pushed, tables, stacks, expect>>

\* The registers are popped, CR3 as it was pushed.
SysRestore ==
  /\ Running /\ regs.pc = "restore"
  /\ regs' = [pushed[cur] EXCEPT !.pc = "free"]
  /\ UNCHANGED <<gs, fs, trap, page, cur, ctx, pushed, tables, stacks, expect>>

\* syscall_free_stack is called after that, with only RDI put aside.  It is given
\* RDX, the user's stack pointer: the stack of the call is not freed.
SysFreeStack ==
  /\ Running /\ regs.pc = "free"
  /\ AfterCall("leave", regs.cr3)
  /\ UNCHANGED <<gs, fs, trap, page, cur, ctx, pushed, tables, stacks, expect>>

SysLeave ==
  /\ Running /\ regs.pc = "leave"
  /\ gs' = Swap(gs)
  /\ Go("sysret")
  /\ UNCHANGED <<fs, trap, page, cur, ctx, pushed, tables, stacks, expect>>

Sysret ==
  /\ Running /\ regs.pc = "sysret"
  /\ GoIn("user", "user", regs.cr3)
  /\ expect' = [expect EXCEPT ![cur].given = regs.scratch]
  /\ UNCHANGED <<gs, fs, trap, page, cur, ctx, pushed, tables, stacks>>

-----------------------------------------------------------------------------
(* Traps *)

\* The stub's way in: the hardware's frame and PUSH_ALL, swapgs if the frame's CS
\* is not the kernel's, the kernel's tables.
Enter(t) ==
  /\ trap' = t
  /\ gs' = IF regs.mode = "user" THEN Swap(gs) ELSE gs

Timer ==
  /\ Running
  /\ Enter("timer")
  /\ UNCHANGED <<regs, fs, page, cur, ctx, pushed, tables, stacks, expect>>

\* int3 in kernel code, the gates' DPL being 0: its handler prints and returns.
Breakpoint ==
  /\ Running /\ regs.pc \in {"kernel", "handler"}
  /\ Enter("breakpoint")
  /\ UNCHANGED <<regs, fs, page, cur, ctx, pushed, tables, stacks, expect>>

\* The other exceptions print the registers and hang, in whatever code.
FatalVectors == (0..31) \ {3, 14}
Fatal ==
  /\ Running
  /\ \E v \in FatalVectors : Enter("hung")
  /\ UNCHANGED <<regs, fs, page, cur, ctx, pushed, tables, stacks, expect>>

\* The pages a program may touch next.
Touches(r) ==
  CASE r.pc = "user"                  -> {"user"}
    [] r.pc = "top"                   -> {"user", "hhdm"}
    [] r.pc \in {"kernel", "handler"} -> Pages
    [] OTHER                          -> {}

PageFault ==
  /\ Running
  /\ \E p \in Touches(regs) :
       /\ ~Reaches(regs, p)
       /\ page' = p
  /\ Enter("fault")
  /\ UNCHANGED <<regs, fs, cur, ctx, pushed, tables, stacks, expect>>

\* The page-fault handler serves kernel code on the kernel tables of the current
\* process, whichever thread's they are.
Served == regs.mode = "kernel" /\ regs.cr3 = Kernel(ProcessOf[cur])

\* Faulty: a clone of nothing is entered, too.
EntersAny(p) == {p}

\* What it enters: a page of the direct map, or a clone of the process's page.
\* Cloning a page the process has not got succeeds and enters nothing, and so
\* does a fault above the direct map: the thread faults again.
Enters(p) == {p} \intersect {"hhdm", "user"}

\* The stub's way out: swapgs if the frame's CS, as it is now, is not the
\* kernel's, POP_ALL and iretq.
Leave(f) ==
  /\ trap' = "none"
  /\ page' = NoPage
  /\ regs' = f
  /\ gs' = IF f.mode = "user" THEN Swap(gs) ELSE gs

ServeFault ==
  /\ trap = "fault" /\ gs = "descriptor" /\ Served
  /\ tables' = [tables EXCEPT ![ProcessOf[cur]] = @ \union Enters(page)]
  /\ Leave(regs)
  /\ UNCHANGED <<fs, cur, ctx, pushed, stacks, expect>>

\* A fault of user code, or one the pager has no memory for, is the end.
FailFault ==
  /\ trap = "fault"
  /\ trap' = "hung"
  /\ UNCHANGED <<regs, gs, fs, page, cur, ctx, pushed, tables, stacks, expect>>

LeaveBreakpoint ==
  /\ trap = "breakpoint"
  /\ Leave(regs)
  /\ UNCHANGED <<fs, cur, ctx, pushed, tables, stacks, expect>>

\* The timer's hook, the scheduler, is given the frame.  It finds the current
\* thread through the GS base, saves its context and loads the next one's.
ContextSave == [ctx EXCEPT ![cur].frame = regs]

\* Faulty: the TCB register keeps the last thread's.
SwitchFrameOnly ==
  /\ trap = "timer" /\ gs = "descriptor"
  /\ \E next \in Threads :
       /\ ctx' = ContextSave
       /\ fs' = fs
       /\ cur' = next
       /\ Leave(ctx'[next].frame)
  /\ UNCHANGED <<pushed, tables, stacks, expect>>

\* Faulty: the way out is decided by the frame that came in.
SwitchByOldMode ==
  /\ trap = "timer" /\ gs = "descriptor"
  /\ \E next \in Threads :
       /\ ctx' = ContextSave
       /\ fs' = ctx'[next].tcb
       /\ cur' = next
       /\ trap' = "none"
       /\ page' = NoPage
       /\ regs' = ctx'[next].frame
       /\ gs' = IF regs.mode = "user" THEN Swap(gs) ELSE gs
  /\ UNCHANGED <<pushed, tables, stacks, expect>>

\* Faulty: CR3 is not among the registers that are loaded.
SwitchKeepsTables ==
  /\ trap = "timer" /\ gs = "descriptor"
  /\ \E next \in Threads :
       /\ ctx' = ContextSave
       /\ fs' = ctx'[next].tcb
       /\ cur' = next
       /\ Leave([ctx'[next].frame EXCEPT !.cr3 = regs.cr3])
  /\ UNCHANGED <<pushed, tables, stacks, expect>>

Switch ==
  /\ trap = "timer" /\ gs = "descriptor"
  /\ \E next \in Threads :
       /\ ctx' = ContextSave
       /\ fs' = ctx'[next].tcb
       /\ cur' = next
       /\ Leave(ctx'[next].frame)
  /\ UNCHANGED <<pushed, tables, stacks, expect>>

\* A handler that uses the descriptor on the user's GS base reads what is no
\* descriptor.
Astray ==
  /\ trap \in {"timer", "fault"} /\ gs = "user"
  /\ trap' = "hung"
  /\ UNCHANGED <<regs, gs, fs, page, cur, ctx, pushed, tables, stacks, expect>>

ThreadStep ==
  \/ Compute \/ Syscall \/ SysSwapGs \/ SysGetStack \/ SysLoadTables \/ SysSave
  \/ SysWork \/ SetTcbRegister \/ SetTcbContext \/ SysReturn
  \/ SysRestore \/ SysFreeStack \/ SysLeave \/ Sysret

TrapStep ==
  \/ Timer \/ Breakpoint \/ Fatal \/ PageFault
  \/ ServeFault \/ FailFault \/ LeaveBreakpoint \/ Switch \/ Astray

Next == ThreadStep \/ TrapStep

Spec == Init /\ [][Next]_vars

-----------------------------------------------------------------------------
(* Properties *)

\* The type of every variable.
TypeOK ==
  /\ regs \in Regs
  /\ gs \in {"descriptor", "user"}
  /\ fs \in Tcbs
  /\ trap \in {"none", "timer", "breakpoint", "fault", "hung"}
  /\ page \in Pages \union {NoPage}
  /\ cur \in Threads
  /\ ctx \in [Threads -> [frame : Regs, tcb : Tcbs]]
  /\ pushed \in [Threads -> Regs]
  /\ tables \in [Processes -> SUBSET {"hhdm", "user"}]
  /\ stacks \in 0..MaxSyscalls
  /\ expect \in [Threads -> Expected]

\* The registers of thread t, running, interrupted or switched out.
RegistersOf(t) == IF t = cur THEN regs ELSE ctx[t].frame

\* Whatever interrupts a user thread - the timer with any switches, a fault of
\* its system call, a breakpoint - it finds its registers as it left them, those
\* that C functions spoil as it or its last system call left them.
RegistersConserved ==
  \A t \in Threads :
    RegistersOf(t).mode = "user" =>
      /\ RegistersOf(t).saved = expect[t].left
      /\ RegistersOf(t).scratch = expect[t].given

\* No code ever runs, or will resume, on the page tables of another process.
OwnTables ==
  \A t \in Threads : RegistersOf(t).cr3.of = ProcessOf[t]

\* User code has the user's GS base, kernel code outside the two windows the
\* processor's descriptor: swapgs is decided by the saved CS on the way in and by
\* the saved CS, of another thread perhaps, on the way out.
GsFollowsMode ==
  Running => (gs = "descriptor" <=> regs.mode = "kernel" /\ regs.pc \notin Window)

\* A thread never runs on another thread's TCB, though FS_BASE is not in the frame.
OwnTcb == Running => fs.of = cur

\* "The current processor descriptor" is what handlers find through the GS base.
HandlerSeesDescriptor == trap \in {"timer", "fault"} => gs = "descriptor"
=============================================================================
