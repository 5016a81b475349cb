# A verification of Karch-x86-64

TLA+ models of the x86-64 part of the Arctan kernel, model-checked with TLC and, most
of their safety properties, proved with TLAPS. Source paths are relative to the repository.

## The system

The repository is the architecture layer that the portable kernel calls and that
firmware, application processors and user programs enter. Memory management
(`pmm_alloc`, `pmm_fast_page_alloc`, `alloc`), the scheduler, ACPI and the spinlocks
are outside it and are modelled, where they matter, by how this code uses them.

| part | state | operations | what is hard |
|---|---|---|---|
| pager (`c/pager.c`) | page tables in memory, one PML4 per address space, a PCID in the low bits of its handle | create tables; map, unmap, fly-map, fly-unmap, set attributes, clone | no lock: two requests on one space interleave; the allocator may fail inside a walk; three page sizes; stale indices in the clone callback |
| PCIDs (`c/pcid.c`) | `pcid_bmp`, `pcid_last_free`, `mod_lock` | init, allocate, free | the scan is done without the lock; integer widths and macro text decide what is scanned, cleared and freed |
| start-up of processors (`c/smp.c`, `asm/smp.asm`, `c/apic.c`) | the record on the low page, `Arc_ProcessorList`, `Arc_ProcessorCounter` | loop over the MADT, INIT and start-up IPIs, trampoline, registration | two processors share a record and two flags; the page is freed as soon as the second is set; the order of the MADT decides who is first |
| traps (`asm/idt.asm`, `c/generic_isrs.c`, `interrupt.h`) | the saved frame, GS base, CR3 | stubs, 32 exception handlers, the page-fault handler | swapgs is decided twice in one trap; handlers may replace the frame; a fault changes page tables of a running process |
| system calls (`asm/syscall.asm`, `c/syscall.c`) | the pushed frame, the stack of the call | entry, handler, return | interrupts stay enabled in an entry that changes GS, stack and CR3 one after another |
| contexts (`c/context.c`) | frame, FPU state and TCB of a thread; feature bits | set-up, save, load, TCB, features | save and load must be each other's inverse for threads in any state; the TCB is kept beside the frame |
| local and I/O APIC (`c/apic/*.c`, `c/apic.c`) | device registers, lists of I/O APICs | IPIs, timer, EOI, routing of a GSI | index/data register pairs without a lock; which I/O APIC a GSI belongs to |
| GDT, TSS, IDT (`c/gdt.c`, `c/interrupt.c`) | tables of every processor | load, install gates, `interrupt_set` | an exception or interrupt may come between any two steps, and needs all of them to agree |
| start (`c/start.c`) | the boot processor's descriptor | `init_arch_early`, `init_arch` | the order of the steps above |
| entry stack (`c/convention/sysv.c`) | one stack | arguments, environment, auxiliary vector | pointer arithmetic |
| ports, control registers, `info.c` | none of their own | single instructions | none |

The parts meet like this. `pager_create_page_tables` calls `pcid_allocate` and puts
the result in the handle. The page-fault handler finds the process through the
descriptor at the GS base (which start-up set, and which swapgs must have loaded)
and calls `pager_map` or `pager_clone` on the process's kernel tables. The
scheduler's timer hook, which is outside, is entered through the IRQ stub with the
frame and calls `context_save` and `context_load` on it. System calls run with
interrupts on, so all of that may happen inside one. Application processors
run `smp_register_ap`, the boot processor's own code, while that one spins. That code
sets up everything a trap goes through: the GDT, the TSS with the stack of IST1, the
gates, the features; `init_context` sizes the area of a context by these
features, and `context_save` and `context_load` choose their instruction by them, at any
later time. `interrupts_map_gsi` sends a device's interrupts to a processor that has to
have a gate for them.

What correctness means, part by part: PCIDs have one owner; page tables are trees
without leaks and translate as the requests said; only one processor at a time uses the start-up
record and the list; a thread finds its registers, page tables, GS base and TCB
however it was interrupted; an interrupt finds a whole gate and a stack of its own; a
global system interrupt goes where its own request said; no context is written past its area.

## Modules

| module | models | state in the model and in the code |
|---|---|---|
| `Pcid` | `init_pcid`, `pcid_allocate`, `pcid_free`; a step is one access to shared state | `bmp`, `last`, `lock` are the three globals, `i`, `w`, `pcid` the locals of each thread; `live`, `calls`, `frees` are histories and bounds |
| `AddressSpace` | nothing in the code: what the pager promises | `space`, a mapping per page and address space, and `todo`, what is left of each request |
| `Pager` | every request of `pager.c`, its traversal, `get_page_table` and the six callbacks; a step is one access to a table | `mem` the frames as tables, `free` the allocator's, `root` and `pcid` the handle, `job` the traverse-info and the walk's position |
| `Smp` | the MADT loop, `smp_init_ap`, the trampoline, `smp_register_ap`, `smp_move_ap_high_mem` | `page` the record, `bsp` and `ap` the program counters, `counter`, `list`, `place` the globals and GS bases |
| `Trap` | stubs, handlers, system-call entry, context save and load, on one processor | `regs` what the frame or the processor holds, in registers a C function keeps and in those it may spoil, `expect` what a thread left there (a history), `gs`, `fs`, `ctx` the contexts, `pushed` the frame on a system-call stack, `tables` the pages of interest in each process's kernel tables |
| `Routing` | nothing in the code: what `interrupts_map_gsi` promises | `route`, both halves of every global system interrupt's route, and `todo`, what is left of each request |
| `Ioapic` | the loop of `init_apic` over the I/O APICs, `interrupts_map_gsi`, `init_ioapic`, reads and writes of a redirection entry; a step is one access to a register | `list` is `ioapic_list`, `sel` and `regs` the two registers in memory and those behind them, `job` the locals of a call |
| `Setup` | `init_arch_early`, `smp_register_ap` with all it calls, `interrupt_set` store by store, the timer's mask, interrupts of the boot processor | `gdt`, `limit`, `tr`, `gs`, `ie`, `cr4`, `timer`, `pending` are the processor's, `gates`, `features`, `ist1` its descriptor's, `at` the step it is at, `frames` what is on the IST1 stack |
| `Contexts`, which extends `Setup` | `init_context`, `uninit_context`, `context_check_features`, x87 and SSE in `context_save` and `context_load` | `ctx` the contexts, `fpu` whose values the registers hold; `used` is a history |
| `PcidProof`, `TrapProof`, `SmpProof`, `IoapicProof`; `PagerProof` and, on top of it, `PagerTreeProof`; `SetupProof` and, on top of it, `ContextsProof` | proofs | |
| `MCPcid`, `MCPager`, `MCSmp`, `MCTrap`, `MCIoapic`, `MCContexts` | instances for TLC | |

`Setup` and `Trap` look at the same traps from two sides: `Setup` asks whether one is
delivered, `Trap` what it does to the thread it interrupts. `Smp` has the order in which
processors start and register, `Setup` what registering does to one.

Operators marked "Faulty" in a module are variants with one plausible mistake. They
are not part of `Next`; each was put in the place of the operator next to it to see
that a property notices.

Decisions a reader of the code will want to know:

* `Pcid` uses the sizes the compiler computes: `2 << 12` is not parenthesised, so the
  scan is two words long (words 0 and 2), `memset` clears two bytes and `ffs`, taking an
  int, sees 32 bits of a word. Only 31 + 32 PCIDs can be handed out.
* `Pager` works in pages, with `Fanout` entries per table: at 2, "2 MiB" is two pages
  and "1 GiB" four. `Contract` names what callers must do because the code does not
  check it: ranges aligned to the page sizes that will be used, rights set on mapped
  pages only, `pager_fly_unmap` of less than a large page (its frames were entered
  as 4K pages). A clone may take a page out of a larger one of its source.
* Of the cache attributes `Pager` has what their bits do to rights and addresses, which is not
  what they are for: bit 0 of `ARC_PAGER_PAT` is or-ed into U/S (`pager.c:79`), and bit 2 into
  bit 12 (`:94`, `:106`), the lowest bit of a directory's address. What they do to caches,
  the accessed bit and `invlpg` are left out; there is no TLB in the model.
* `pager_fly_unmap_callback` frees a page and then clears its entry: `FlyUnmapFree` and `FlyUnmapClear`.
  Between the two a free frame is mapped, and another space's request may get it. `TreeShape` and
  `AddressSpace` except exactly the entries that are about to be cleared (`Clearing`, `Dropped`,
  `Dropping`); everything else has to be right in that window, too.
* `from` is `pager_clone`'s `virt_src`: the code stores it and never reads it. `AddressSpace` says what is
  copied, the page at the destination's address, whatever `from` is; a request of the `pager` run names another.
* A request of no size returns without a walk, as `while (info->size)` does.
* `Serialised` says whether callers keep off an address space that another request
  works on. Nothing in the repository makes them; `pager_race` shows what happens.
* The clone callback's walk of the source keeps `pml3e`..`pml1e` as the code does; a
  read through what is no table yields `Wild`, and the walk is lost.
* In `Smp` a processor that finds the counter at 0 crashes: it takes itself for the
  boot processor, whose descriptor is not where its GS base points.
  Nothing waits between INIT and the first start-up IPI, so a processor may miss
  either IPI, or both. A failed allocation in `smp_register_ap` hangs the processor (`HangBsp`,
  `HangAp`), and the boot processor then waits for it for ever.
* `Trap` folds the registers a program computes with into two values: `saved`, those a C function has
  to preserve, and `scratch`, those it may spoil. `_syscall` calls C functions before it pushes the user's
  registers and after it has popped them, and what these leave in `scratch` is any value. RDX and
  RAX, which a system call changes on purpose or by its comment, are in neither; RCX and
  R11 are taken to survive the calls, since the entry relies on it (`sysret` would go astray otherwise, and nothing
  could be said of what follows). FPU state is in `Contexts`.
  The handler of a system call is any code; it may call `context_set_tcb`.
  A handler that would use the descriptor on the user's GS base goes `Astray`.
* `Ioapic` reads the low half of an entry first: C leaves the order in
  `ioapic_read_redir_tbl` open. Nothing in the code makes callers take turns at an I/O
  APIC; `Serialised` says that they do. A GSI that no I/O APIC has ends at a NULL
  pointer, and its caller is `Lost`.
* `Setup`: the bootstrapper lists whatever it likes (`Listings`), found by `cpuid` or not, and `init_arch_early`
  copies it. Memory from `alloc` is not cleared, so an application processor's gates and
  features may hold junk. The stacks of the TSS are not checked for NULL; a processor
  without one (`ist1` is "nothing") is exempt from the properties about traps. `interrupt_set`
  is called for the processor's own table, with kernel gates (a user gate selects a
  data segment, see below), by a thread or a handler; a gate is cleared when none of its
  interrupts can come any more; handlers do not enable interrupts. These are the kernel's to keep.
* `Contexts`: contexts are made after `init_arch` has returned, on the boot
  processor. XCR0 is a parameter: nothing in the repository writes it, and the run has its value at reset, x87 alone.
  With it `xsave` does not keep the SSE registers; the model has that, and `KeptFloatsAreOwn`
  speaks of what is kept. An instruction that the processor lacks or CR4 does not enable ends the switch (`Works`).
  The two allocations of `init_context` are one step that succeeds or leaves nothing; whether
  its area has the alignment that `xsave` demands is up to `alloc`, which is outside. Of the features, those
  on which a decision depends are in the model, with the register each is really read from.
* `Trap` has one processor. What two processors can do to one process's page
  tables is `pager_race`'s question.

## Runs

| run | question | instance, and why it is enough |
|---|---|---|
| `pcid` | does a PCID ever have two owners, does an owner lose its bit? | two threads, 18 allocations and one free; bitmaps whose garbage leaves sixteen PCIDs: with full words, with hollow ones (full for `ffs`, not for the scan) or with bit 31 alone, so that exhaustion and both words are reached |
| `pcid_zero` (violated) | is exhaustion reported? | a clean bitmap and 64 allocations: the last ones get PCID 0 |
| `pcid_hang` (violated) | does every allocation return? | a clean bitmap, 33 allocations, two threads racing for the last low bit of a word |
| `pager` | are tables trees, nothing leaked, rights effective, and does the pager implement `AddressSpace`? | one thread, all six operations and all three page sizes (a 7-page range is one of each), bits 0 and 1 of the cache attribute, a clone out of a larger page, 12 frames, while all mappings together need more: allocations fail inside walks, too |
| `pager_two` | do requests on different spaces leak each other's tables, or change each other's mappings, also when one gets the frame that another has freed and still maps? | two threads, 8 frames, every interleaving of their table accesses |
| `pager_race` (violated) | is a present table never replaced? | two faults of one process |
| `smp` | do the two flags keep the record, the page and the list to one user, and does a process map the structures of those listed? | four processors, the boot processor first or second in the MADT, all interleavings; three others are the least with a first, a middle and a last |
| `smp_list` (violated) | is the list long enough? | the same |
| `trap` | do registers, tables, GS and TCB stay with their threads? | two user threads of different processes and a kernel thread of the first one's, two system calls at most in all, so that one can be suspended inside another's; interrupts, faults and switches are unbounded |
| `trap_gs` (violated) | does every handler find the descriptor? | the same |
| `ioapic` | does every request reach its own interrupt's route, whole, and no other? does a read see one value? | two I/O APICs with two entries each, the one with the higher GSIs first in the MADT; each may be unreadable or not be listed; two threads; GSIs on both sides of the border, two requests for each of them, and a GSI that nobody has |
| `contexts` | when is a trap delivered, do interrupts find gates and stacks while gates change, do the registers that are kept stay with their threads, whatever the features and whatever the bootstrapper lists? | the boot processor and one other (which stand for the first to register and a later one), a device, two threads, processors with no feature, with FXSAVE alone, with all; bootstrappers that list nothing, FXSAVE and XSAVE, or SSE alone, on each of these processors |

Deadlock is checked where the system cannot stop (`pager`, `pager_two`, `pager_race`). The other runs do stop:
bounded calls run out, booting ends, and handlers hang on purpose.

Bounds: `MaxCalls`, `MaxFrees` (`Pcid`), `MaxSyscalls` (`Trap`, also because
system-call stacks are never given back), `MaxFrames` (`Setup`: the second interrupt frame
already violates `FramesAreKept`), the sets of requests, frames and threads in `MCPager`, and
the finite set of processors. `LowestFirst` makes the allocator deterministic: frames
are interchangeable, so only the choice between equal frames is lost.

Fairness. `Pager!FairSpec` asks that a request that was made is worked on (kernel code
that runs is not stopped for ever); nobody has to make one, and the allocator need
not have memory. `Smp!FairSpec` is that processors execute; IPIs may still be missed,
so `StartedIsBroughtUp` starts where the trampoline runs, and it is stated for a MADT that lists the
boot processor first (otherwise the first processor started crashes, see above). A processor that
hangs for want of memory is not brought up either, and the property names it as the exception.
`Pcid!FairSpec`, used by `pcid_hang`, is weak fairness of every thread inside a call: a
thread that can go on does. The call of the counterexample cannot, since it waits for a lock it holds itself.

## What the violated runs show

* `pcid_zero`: at exhaustion `pcid_allocate` returns 0, the kernel's PCID, which its
  caller does not take for a failure.
* `pcid_hang`: when `ffs` finds nothing the code continues with `mod_lock` held; the thread waits for itself.
* `pager_race`: two requests see the same entry absent and both fill it; the first table is lost.
* `smp_list`: the list has a place less than the counter counts; the last processor's
  descriptor lies behind its end, and place 0 is never used.
* `trap_gs`: IA32_FMASK is 0, so an interrupt between `syscall` and `swapgs`, or
  between the last `swapgs` and `sysret`, runs its handler on the user's GS base.

## Divergences without a run

Seen while modelling, and listed under "findings" in `PROJECT.json`. For most a run would only
restate the line; the first five are in the models, whose properties say what holds in spite of them.

* `pager_fly_unmap_callback` frees a page that it still maps (`pager.c:431`, `432`), see above.
* `pager_clone` uses the destination's address for the source too (`pager.c:577`), and its callback does not cut the
  PCID off the source's handle: it reads the wrong bytes, takes a page for not mapped and returns 0. This is the ERROR
  that its comment records. The instances have PCIDs of 0.
* The lowest bit of the cache attribute, meant for PWT, is put into U/S (`pager.c:79`): a kernel page with
  `ARC_PAGER_PAT_UC`, as the registers of the APICs are mapped, is a user's page as well.
* The third bit changes the address of a table that was just made (`pager.c:94`, `106`), and the walk goes on
  in the frame behind it, which nobody has allocated. No instance has it.
* `_syscall` calls C functions before the user's registers are pushed and after they are popped: what these leave
  in RSI, RDI and R8 to R10 is what the user gets.
* The clone callback tests addresses, not the present bit (`pager.c:500`, `511`, `530`, `549`): a page
  mapped to the physical address 0 is not cloned, and `pager_clone` returns 0 all the same. This one is not
  under "findings", since no comment says otherwise; `PageZeroStays` excludes it from the proofs.
* `context_set_tcb` writes FS_BASE before the context: a switch between the two brings the
  old TCB back. `Trap` has both steps.
* `USER_CS` in `interrupt.c` selects the user data segment.
* `context_set_proc_features` reads several bits from ECX that cpuid has in EDX, and the
  other way round; SSE1 is listed where there is AESNI.
* `Arc_ProcessorList` is indexed by the order of registration, where `smp.h:55` says by the processor's ID.
* `smp_map_processor_structures` maps place 0 of the list, where nobody is, but not the boot
  processor's structures, and the address of a copy of each descriptor.
* `sysv_prepare_entry_stack` copies pointers for strings and counts in `uint64_t` where bytes are meant.
* `context_set_proc_desc` sets GS_BASE, where its comment says KERNEL_GS_BASE.

## What is proved

Every theorem has the form `Spec => ...` and holds for every value of the constants
that meets the module's named assumption. The instances meet them, and TLC evaluates
them on every run. Beyond the types of constants and "this value is not one of those", they say:

* `PcidAssumption`, `TrapAssumption`: bounds are natural numbers.
* `SmpAssumption`: the processors are finite in number, and the MADT lists each once, in any order.
* `SetupAssumption`: exceptions have vectors 0 to 31, devices 33 to 255 (`apic.c` and
  `local.c` give the timer 32 and the handler's caller the rest).
* `ContextsAssumption`: XCR0 enables any of x87 and SSE, and threads are finite in number.
* `IoapicAssumption`: every I/O APIC is in the MADT once, and their ranges of GSIs are
  disjoint, which ACPI demands of firmware. The code relies on it without a check.
* `PagerAssumption`, `PmmAssumption`: ranges end within the address space; the allocator
  deals out frames that are free, in an order of its own.
* `NamesAssumption` (`Pager`): what stands for "no request" is no request, and what stands for
  "not mapped" is no mapping.

TLC checked every inductive invariant, as an invariant of the run of its module, before it was proved.


**`PcidProof`**, for any number of threads, any garbage and any number of calls:
`TypeOK`, `FreshPcid` and `OwnersKeepTheirBits`. `FreshPcid` is not inductive: that
`Find` cannot pick a PCID in use follows only if the bit of every PCID somebody
answers for (an owner, a call about to return it, a `pcid_free` about to
clear it) is set in the word that is searched, and that the bit is still clear when
`Take` sets it only because nobody writes the bitmap without the lock. `PcidInv` adds
both, the lock discipline, and the arithmetic that ties `last`, `i` and `w`
to a PCID's word: the place where the two functions disagree is word 1,
which no search looks at, so the disagreement loses PCIDs but shares none.

**`TrapProof`**, for any threads, processes and number of system calls: `TypeOK`,
`RegistersConserved`, `OwnTables`, `GsFollowsMode` and `OwnTcb`. The invariant
`TrapInv` has four parts. `GsOK`: the descriptor is loaded except in user code and in the two windows of
the entry, during handlers too. `ParkedOK`: no switched-out thread is in a
window, because a hook entered from one has no descriptor to find its thread
with; without it a switch could resume a thread in a window with the wrong GS.
`ThreadOK`: the registers of a thread that a C function keeps are its own, or those it pushed are while its system call
runs; of those that C may spoil it says that they are the thread's own up to its next system call, and from then on what
that call gave back. `TcbOK`: FS_BASE and the contexts hold TCBs of the right threads. Each part has a step lemma.

**`SmpProof`**, for any number of processors and any MADT: `TypeOK`, `TrampolineStays`,
`OneAtATime`, `OwnDescriptor`, `SynchronizedInKernel` and `StructuresAreMapped`. None is
inductive. The core of `SmpInv` is `ActiveOK` (who is neither halted nor held is the
processor of the entry that the boot processor is at, and is waited for) and `RecordOK` (the
second flag is set in the record only by a processor that is held): together they make the two flags a
lock. `SyncOK` follows NX and the PAT from the record through the AP's register to the
processor, `CountOK` ties the counter to the entries that are done, and `PlaceOK` gives
every registered processor the place it finds itself at. The boot processor's place in
the MADT does not matter: if another processor is first, it crashes, its second flag is never
set, and the boot processor stays at its entry, which breaks none of these.

**`SetupProof`** holds the inductive invariant `SetupInv` of set-up, and **`ContextsProof`** extends it to
contexts and states the theorems: `TypeOK`, `TrapsAreDelivered`, `InterruptsFindGates`, `FramesAreKept`,
`KeptFloatsAreOwn`, for any XCR0, `AreasFit` and `SelectedIsEnabled`. `StageOK` says what is loaded at each step of set-up. `QuietOK` says that interrupts are
disabled with a frame on the stack or a gate half written, and that an
`interrupt_set` called in a handler will find they were, which is what makes nesting
impossible for any number of calls. `GatesOK` follows a gate through the stores of `interrupt_set`: the one
that is written will be whole, the others are, and a gate whose interrupt may still come is
whole. In `ContextsInv`, `MadeOK` says that each context is as the features listed now
would make it; it is inductive because contexts are made only once the list is
final (`BeforeRunning`, `FeaturesOK`), although CR4 goes on changing.

**`IoapicProof`**, for any number of I/O APICs, threads and requests: `HomeIsFound`
with callers in any interleaving and, when callers take turns at an I/O APIC
(`Serialised`, which the code does not enforce), `TypeOK`, `NoMixture`
and the refinement `ImplementsRouting`. `ListInv`: an element of the list stands for
one MADT entry, with at most the entries the I/O APIC has, so that an element that
serves a GSI is its home. `IoapicInv` adds what each call has selected and written so far (`CallOK`), that two calls are
never at one I/O APIC (`TurnsOK`), and that a route is whole or a call is half-way through it
(`RoutesOK`). The refinement goes step by step: `MapGsi` is `Ask`, or `Fail` when the GSI has no
I/O APIC or its registers are not mapped; a write through the window is `Write`; the return of a
write is `Answer`; everything else stutters. The search of the list is a `CHOOSE` of the least place, and
its induction is done with the library's theorem that a set of naturals has a least element.

**`PagerProof`**, for tables of any size, any frames, spaces, threads and requests, serialised or not:
`TypeOK`. It says more than types: the size that is left, unsigned in the code, does not wrap, and every table
that is read is a page frame. That needs to know that a walk never gets below the level at which it calls its
callback, and that the callback's size is at most what is left (`JobOK`).

**`PagerTreeProof`**, for the same, proves everything else that is safety, with more assumptions. Each of them is
needed: for `Serialised` the run `pager_race` is a counterexample, and for the others TLC gives one
as soon as an instance of the `pager` run breaks them.

| theorem | property | assumes |
|---|---|---|
| `TablesFormTrees`, `NoFrameIsLost` | `TreeShape`, `NoLeak` | `Serialised`: callers keep two requests off one space; `NoThirdBit`: no request has bit 2 of the cache attribute |
| `WalksFindTables` | `NoWildWalk` | and `NoPcidsGiven`: the handles have no PCID, which the clone's walk of its source does not cut off |
| `DirectoriesGrantRights` | `LeafRightsAreEffective` | `Serialised`, `NoThirdBit` and `NoAutoDisable`: nobody asks for ARC_PAGER_AUTO_USRW_DISABLE, whose purpose is the opposite |
| `PagerIsAnAddressSpace` | `ImplementsAddressSpace` | `Serialised`, `NoThirdBit`, `NoPcidsGiven`, `PageZeroStays`: the physical page 0 is not mapped where a clone comes by, since `pager_clone_callback` takes an entry with address 0 for an empty one; `NxFeature`: without the no-execute bit every page can be executed |

The runs `pager` and `pager_two` meet all of them. The argument:

1. Arithmetic. Two pages have an entry in common at a level exactly if they agree in the quotient by
   the span of that level (`PathIsQuotient`), and the ranges of the contract stay
   aligned to the level of the next callback (`Iteration`, `Iterations`).
2. Walks and sets. `Walk` goes through the tables at each level (`TablesAt`), which are pairwise
   apart; a write to one slot moves only the walks that use the slot. A table that is linked adds
   one table without pages, and an entry for pages adds no table.
3. `TreeInv` is the invariant. `TreeShape` and `NoLeak` alone are not inductive: that `MakeTable` fills
   an empty entry needs `WalkOK` (the table of a walk is the one the
   processor comes to for its page, and the entry it found absent still is); that a
   callback overwrites no table, and no page mapped on the fly, needs `Promise`, what the contract says of
   each page the request has yet to reach. A promise survives the steps of others, because `Apart` keeps
   their writes to other spaces, and one's own, since a callback changes its own pages alone.
   A fly-unmap is promised more: that no other page maps its frame (`Sole`), so that the entry it is about to
   clear is the only one left on a frame it has freed, whoever gets that frame meanwhile.
4. Every step is then one of eight (`EveryStep`): seven leave every page of every space as it was (`Steady`), and the
   eighth, `Serves`, writes an entry, and `ServesPages` says which pages become what. The properties on rights and
   walks follow from it. `ZeroInv` adds where the physical page 0 may be mapped.
5. The refinement. Calls, returns and callbacks are `Accept`, `Leave` and `Serve`, and every
   other step stutters, with one lemma for each operation's callback. That fly-mapped memory is new to all
   spaces needs `LargeOutside`: no large page reaches over a frame of the allocator.
   `AddressSpace` is stated for one `Serve` of up to a whole large page.

## Only model-checked, and not modelled

Only model-checked: liveness (`RequestsReturn`, `StartedIsBroughtUp`), which with ENABLED is beyond TLAPS, as is
induction over data; no result of a recursive definition is claimed; and `ReadsAreWhole`. Every other property that a passing run checks is also a theorem, some
under the assumptions named above: those about `Pager`'s trees are for serialised callers, and what happens to others is `pager_race`.

Not modelled: the TLB and `invlpg`, and what cache attributes do to caches: no property here tells
them apart. The packing of descriptors, TSS and IDT into bit fields; `init_gdt`,
`init_tss` and `init_dynamic_interrupts`, which nothing calls; `smp_switch_to`, which is empty. The
timer's divider and count. `asm/entry.asm`, ports, control registers and `info.c`: single
instructions without state of their own. `sysv_prepare_entry_stack`: its first store is already
behind the end of the stack, so nothing can be stated of what it makes.
The reasons are with the components in `PROJECT.json`, and hazards that no property
covers have a note there.

What the refinement `Pager` => `AddressSpace` hides: the tables and the walk. A page is what the
processor would translate it to, with the rights of all levels of its walk, so a table that is linked wrongly, an entry
at the wrong level or an index off by one is no step of `AddressSpace`. Rights may be fewer than
asked for, and more only where bit 0 of the cache attribute is taken for the user right (`Allowed`); and a request may end early.

What the refinement `Ioapic` => `Routing` hides: the list, the search in it, the index
arithmetic and the window. `todo` is a thread's call with its I/O APIC and entry translated
back to a GSI by the MADT, not by the list, so a wrong list or a wrong index is no step
of `Routing`.

## Plan

Done: `Pcid`, `AddressSpace` and `Pager`, `Smp`, `Trap`, then `Routing` and `Ioapic`, `Setup` and
`Contexts`; the proofs of all of them, the refinements included.

What would come next: the composition of `Pcid` with `Pager`, for the PCID that is lost when
`pager_create_page_tables` fails, and the page-fault handlers of two processors over `Pager`.
