-------------------------------- MODULE Smp --------------------------------
(***************************************************************************)
(* Bringing up the application processors: init_apic (src/c/apic.c) and    *)
(* smp_init_ap, smp_register_ap, smp_move_ap_high_mem (src/c/smp.c) with   *)
(* the trampoline of src/asm/smp.asm.                                      *)
(*                                                                         *)
(* The boot processor goes through the MADT.  For every other processor it *)
(* copies the trampoline and a start-info record to a page of low memory,  *)
(* sends INIT and two start-up IPIs, spins on two flags of the record and  *)
(* takes the page back.  The processor it started runs at the same time:   *)
(* through real mode, protected mode and long mode on the low page, then   *)
(* in the kernel, where it registers itself with the same code the boot    *)
(* processor uses, and at last it sets the second flag.                    *)
(*                                                                         *)
(* Registering allocates, and a processor hangs where that fails.  The     *)
(* allocations of smp_init_ap, whose results nothing checks, are taken to  *)
(* succeed.                                                                *)
(*                                                                         *)
(* Left out: the contents of the GDT, the IDT, the TSS and the stacks.     *)
(***************************************************************************)
EXTENDS Integers, FiniteSets

CONSTANTS
  Bsp,       \* the boot processor
  Processors,
  Madts,     \* the orders in which the MADT may list them, one LAPIC entry each
  BspHasNx,  \* the boot processor's features include no-execute
  Nobody,    \* whoever a descriptor of uninitialised memory belongs to
  NoPage,    \* no low memory is allocated
  Static     \* the place of the boot processor's own descriptor

\* The start-info record, with the flags and the uid of a processor.
Flags == {"LM", "STARTED", "PAT", "NX"}
Records == [flags : SUBSET Flags, uid : Processors \union {Nobody}]

\* Every processor has one entry.
ASSUME SmpAssumption ==
  /\ IsFiniteSet(Processors)
  /\ Bsp \in Processors
  /\ \A m \in Madts :
       /\ m \in [1..Cardinality(Processors) -> Processors]
       /\ \A i, j \in DOMAIN m : m[i] = m[j] => i = j
  /\ BspHasNx \in BOOLEAN
  /\ Nobody \notin Processors
  /\ NoPage \notin Records
  /\ Static \notin Int

Aps == Processors \ {Bsp}
Size == Cardinality(Processors)

VARIABLES
  madt,     \* the MADT the firmware has left
  entry,    \* the MADT entry init_apic is at
  bsp,      \* where the boot processor is in smp_init_ap
  ap,       \* where every other processor is
  page,     \* the low page: its start-info record, or NoPage
  eax,      \* the flags an AP has read and not written back yet
  nx, pat,  \* EFER.NXE and the PAT of every AP: set as the boot processor's?
  counter,  \* Arc_ProcessorCounter
  list,     \* whose descriptor each place of Arc_ProcessorList holds
  place,    \* the place a processor's GS base points to
  mapped    \* the places whose structures a process's page tables map

vars == <<madt, entry, bsp, ap, page, eax, nx, pat, counter, list, place, mapped>>

Places == 0..Size

\* Arc_ProcessorList is allocated for all but the boot processor.
ListLength == Size - 1

Current == madt[entry]

\* Running on the low page, or about to use the record in it.
Trampoline == {"real", "started", "protected", "long", "sync"}
Kernel     == {"entered", "placed", "counted"}

Init ==
  /\ madt \in Madts
  /\ entry = 1
  /\ bsp = "next"
  /\ ap = [p \in Aps |-> "halted"]
  /\ page = NoPage
  /\ eax = [p \in Aps |-> {}]
  /\ nx = [p \in Aps |-> FALSE]
  /\ pat = [p \in Aps |-> FALSE]
  /\ counter = 0
  /\ list = [n \in Places |-> Nobody]
  /\ place = [p \in Processors |-> Static]
  /\ mapped = {}

-----------------------------------------------------------------------------
(* smp_register_ap, by whoever runs it: the first to register keeps the    *)
(* descriptor it has, the others get the place that the counter names.     *)

TakePlace(p) ==
  IF counter = 0
    THEN UNCHANGED <<list, place>>
    ELSE /\ list' = [list EXCEPT ![counter] = p]
         /\ place' = [place EXCEPT ![p] = counter]

-----------------------------------------------------------------------------
(* The boot processor *)

\* Its own entry: it registers itself.
RegisterBsp ==
  /\ bsp = "next"
  /\ entry <= Size
  /\ Current = Bsp
  /\ TakePlace(Bsp)
  /\ bsp' = "counting"
  /\ UNCHANGED <<madt, entry, ap, page, eax, nx, pat, counter, mapped>>

CountBsp ==
  /\ bsp = "counting"
  /\ counter' = counter + 1
  /\ entry' = entry + 1
  /\ bsp' = "next"
  /\ UNCHANGED <<madt, ap, page, eax, nx, pat, list, place, mapped>>

\* An allocation of smp_register_ap fails: ARC_HANG.
HangBsp ==
  /\ bsp = "counting"
  /\ bsp' = "hung"
  /\ UNCHANGED <<madt, entry, ap, page, eax, nx, pat, counter, list, place, mapped>>

\* Another's entry: low memory, identity-mapped, with a copy of the trampoline.
PreparePage ==
  /\ bsp = "next"
  /\ entry <= Size
  /\ Current # Bsp
  /\ page' = [flags |-> {}, uid |-> Nobody]
  /\ bsp' = "fill"
  /\ UNCHANGED <<madt, entry, ap, eax, nx, pat, counter, list, place, mapped>>

FillInfo ==
  /\ bsp = "fill"
  /\ page' = [flags |-> {"PAT"} \union (IF BspHasNx THEN {"NX"} ELSE {}), uid |-> Current]
  /\ bsp' = "init"
  /\ UNCHANGED <<madt, entry, ap, eax, nx, pat, counter, list, place, mapped>>

\* INIT, waited for, and its de-assertion.
SendInit ==
  /\ bsp = "init"
  /\ ap' = [ap EXCEPT ![Current] = "resetting"]
  /\ bsp' = "sipi1"
  /\ UNCHANGED <<madt, entry, page, eax, nx, pat, counter, list, place, mapped>>

\* A start-up IPI starts a processor that waits for one, and no other.
SendSipi ==
  /\ bsp \in {"sipi1", "sipi2"}
  /\ ap' = [ap EXCEPT ![Current] = IF @ = "waiting" THEN "real" ELSE @]
  /\ bsp' = IF bsp = "sipi1" THEN "sipi2" ELSE "waitStarted"
  /\ UNCHANGED <<madt, entry, page, eax, nx, pat, counter, list, place, mapped>>

SeeStarted ==
  /\ bsp = "waitStarted"
  /\ "STARTED" \in page.flags
  /\ bsp' = "waitLM"
  /\ UNCHANGED <<madt, entry, ap, page, eax, nx, pat, counter, list, place, mapped>>

\* Faulty: the page is taken back at the first flag.
ReclaimEarly ==
  /\ bsp = "waitStarted"
  /\ "STARTED" \in page.flags
  /\ page' = NoPage
  /\ entry' = entry + 1
  /\ bsp' = "next"
  /\ UNCHANGED <<madt, ap, eax, nx, pat, counter, list, place, mapped>>

\* Faulty: the boot processor goes on to the next entry at the first flag.
GoOnEarly ==
  /\ bsp = "waitStarted"
  /\ "STARTED" \in page.flags
  /\ entry' = entry + 1
  /\ bsp' = "next"
  /\ UNCHANGED <<madt, ap, page, eax, nx, pat, counter, list, place, mapped>>

\* Faulty: the boot processor counts the processor that has counted itself.
ReclaimAndCount ==
  /\ bsp = "waitLM"
  /\ "LM" \in page.flags
  /\ page' = NoPage
  /\ entry' = entry + 1
  /\ counter' = counter + 1
  /\ bsp' = "next"
  /\ UNCHANGED <<madt, ap, eax, nx, pat, list, place, mapped>>

\* The second flag: unmap and free the low memory, on to the next entry.
Reclaim ==
  /\ bsp = "waitLM"
  /\ "LM" \in page.flags
  /\ page' = NoPage
  /\ entry' = entry + 1
  /\ bsp' = "next"
  /\ UNCHANGED <<madt, ap, eax, nx, pat, counter, list, place, mapped>>

BspStep ==
  \/ RegisterBsp \/ CountBsp \/ HangBsp \/ PreparePage \/ FillInfo
  \/ SendInit \/ SendSipi \/ SeeStarted \/ Reclaim

-----------------------------------------------------------------------------
(* An application processor *)

\* The hardware needs time after INIT before it takes a start-up IPI; nothing
\* in the code waits for it.
Reset(p) ==
  /\ ap[p] = "resetting"
  /\ ap' = [ap EXCEPT ![p] = "waiting"]
  /\ nx' = [nx EXCEPT ![p] = FALSE]
  /\ pat' = [pat EXCEPT ![p] = FALSE]
  /\ UNCHANGED <<madt, entry, bsp, page, eax, counter, list, place, mapped>>

\* Real mode: "respond to BSP" is a read and a write of the flags.
ReadFlags(p) ==
  /\ ap[p] = "real"
  /\ eax' = [eax EXCEPT ![p] = page.flags]
  /\ ap' = [ap EXCEPT ![p] = "started"]
  /\ UNCHANGED <<madt, entry, bsp, page, nx, pat, counter, list, place, mapped>>

\* Faulty: the flags are written without those that were there.
RespondPlain(p) ==
  /\ ap[p] = "started"
  /\ page' = [page EXCEPT !.flags = {"STARTED"}]
  /\ ap' = [ap EXCEPT ![p] = "protected"]
  /\ UNCHANGED <<madt, entry, bsp, eax, nx, pat, counter, list, place, mapped>>

Respond(p) ==
  /\ ap[p] = "started"
  /\ page' = [page EXCEPT !.flags = eax[p] \union {"STARTED"}]
  /\ ap' = [ap EXCEPT ![p] = "protected"]
  /\ UNCHANGED <<madt, entry, bsp, eax, nx, pat, counter, list, place, mapped>>

\* Protected mode with the record's stack and GDT, long mode with its PML4.
EnterLongMode(p) ==
  /\ ap[p] = "protected"
  /\ ap' = [ap EXCEPT ![p] = "long"]
  /\ UNCHANGED <<madt, entry, bsp, page, eax, nx, pat, counter, list, place, mapped>>

\* NX and the PAT as the record says ...
SyncNx(p) ==
  /\ ap[p] = "long"
  /\ eax' = [eax EXCEPT ![p] = page.flags]
  /\ nx' = [nx EXCEPT ![p] = @ \/ "NX" \in page.flags]
  /\ ap' = [ap EXCEPT ![p] = "sync"]
  /\ UNCHANGED <<madt, entry, bsp, page, pat, counter, list, place, mapped>>

\* ... and into the kernel on the high stack.
SyncPat(p) ==
  /\ ap[p] = "sync"
  /\ pat' = [pat EXCEPT ![p] = @ \/ "PAT" \in eax[p]]
  /\ ap' = [ap EXCEPT ![p] = "entered"]
  /\ UNCHANGED <<madt, entry, bsp, page, eax, nx, counter, list, place, mapped>>

\* smp_register_ap with the uid of the record.  A processor that finds the
\* counter at 0 takes itself for the boot processor: its GS base is 0 and the
\* descriptor it clears is no memory.
RegisterAp(p) ==
  /\ ap[p] = "entered"
  /\ IF counter = 0
       THEN /\ ap' = [ap EXCEPT ![p] = "crashed"]
            /\ UNCHANGED <<list, place>>
       ELSE /\ list' = [list EXCEPT ![counter] = page.uid]
            /\ place' = [place EXCEPT ![p] = counter]
            /\ ap' = [ap EXCEPT ![p] = "placed"]
  /\ UNCHANGED <<madt, entry, bsp, page, eax, nx, pat, counter, mapped>>

\* Faulty: the processor forgets to count itself.
CountNot(p) ==
  /\ ap[p] = "placed"
  /\ ap' = [ap EXCEPT ![p] = "counted"]
  /\ UNCHANGED <<madt, entry, bsp, page, eax, nx, pat, counter, list, place, mapped>>

\* The same failures on an application processor: it never tells the boot processor.
HangAp(p) ==
  /\ ap[p] = "placed"
  /\ ap' = [ap EXCEPT ![p] = "hung"]
  /\ UNCHANGED <<madt, entry, bsp, page, eax, nx, pat, counter, list, place, mapped>>

CountAp(p) ==
  /\ ap[p] = "placed"
  /\ counter' = counter + 1
  /\ ap' = [ap EXCEPT ![p] = "counted"]
  /\ UNCHANGED <<madt, entry, bsp, page, eax, nx, pat, list, place, mapped>>

\* Faulty: the wrong flag.
TellStarted(p) ==
  /\ ap[p] = "counted"
  /\ page' = [page EXCEPT !.flags = @ \union {"STARTED"}]
  /\ ap' = [ap EXCEPT ![p] = "held"]
  /\ UNCHANGED <<madt, entry, bsp, eax, nx, pat, counter, list, place, mapped>>

\* The last use of the record, then smp_hold.
TellLongMode(p) ==
  /\ ap[p] = "counted"
  /\ page' = [page EXCEPT !.flags = @ \union {"LM"}]
  /\ ap' = [ap EXCEPT ![p] = "held"]
  /\ UNCHANGED <<madt, entry, bsp, eax, nx, pat, counter, list, place, mapped>>

ApStep(p) ==
  \/ Reset(p) \/ ReadFlags(p) \/ Respond(p) \/ EnterLongMode(p)
  \/ SyncNx(p) \/ SyncPat(p) \/ RegisterAp(p) \/ CountAp(p) \/ HangAp(p)
  \/ TellLongMode(p)

-----------------------------------------------------------------------------
\* Faulty: the counter is taken for one that counts the boot processor, which is not
\* in the list.
MappedFewer == 0..(counter - 2)

\* smp_map_processor_structures, for the page tables of a process, once init_apic has
\* returned: the stacks and the descriptors of the first places of the list, in which
\* the boot processor's are not, and place 0 is nobody's.
MappedPlaces == 0..(counter - 1)

MapStructures ==
  /\ bsp = "next" /\ entry > Size
  /\ mapped' = MappedPlaces
  /\ UNCHANGED <<madt, entry, bsp, ap, page, eax, nx, pat, counter, list, place>>

Next == BspStep \/ (\E p \in Aps : ApStep(p)) \/ MapStructures

Spec == Init /\ [][Next]_vars

\* Processors do not stop between instructions.
FairSpec == Spec /\ WF_vars(BspStep) /\ \A p \in Aps : WF_vars(ApStep(p))

-----------------------------------------------------------------------------
(* Properties *)

ApStates == {"halted", "resetting", "waiting", "held", "crashed", "hung"}
              \union Trampoline \union Kernel
BspStates == {"next", "counting", "fill", "init", "sipi1", "sipi2", "waitStarted", "waitLM",
              "hung"}

\* The type of every variable.
TypeOK ==
  /\ madt \in Madts
  /\ entry \in 1..(Size + 1)
  /\ bsp \in BspStates
  /\ ap \in [Aps -> ApStates]
  /\ page \in Records \union {NoPage}
  /\ eax \in [Aps -> SUBSET Flags]
  /\ nx \in [Aps -> BOOLEAN]
  /\ pat \in [Aps -> BOOLEAN]
  /\ counter \in 0..Size
  /\ list \in [Places -> Processors \union {Nobody}]
  /\ place \in [Processors -> Places \union {Static}]
  /\ mapped \subseteq Places

\* Between the start-up IPI that woke it and its last write to the start-info.
Starting(p) == ap[p] \in Trampoline \union Kernel

\* The low page is there, and holds the record of the processor that uses it,
\* for as long as one does: the boot processor frees it, and prepares it for the
\* next one, only when the last read and write of the record are over.
TrampolineStays ==
  \A p \in Aps : Starting(p) => page # NoPage /\ page.uid = p

\* "APs are initialized sequentially, therefore only one AP should be executing
\* this code at a time"; and none while the boot processor registers itself.
\* Arc_ProcessorCounter and the list have no other protection.
OneAtATime ==
  /\ \A p, q \in Aps : Starting(p) /\ Starting(q) => p = q
  /\ bsp = "counting" => \A p \in Aps : ~Starting(p)

\* Processors that have a descriptor.
Placed == {p \in Aps : ap[p] \in {"placed", "counted", "held"}}

\* A processor's GS base leads to a descriptor with its own uid, and that of no
\* other processor.
OwnDescriptor ==
  /\ \A p \in Placed : place[p] # Static /\ list[place[p]] = p
  /\ \A p, q \in Placed : p # q => place[p] # place[q]

\* The page tables of a process map the stacks that an application processor's traps
\* and system calls start on, whatever place it has taken.
StructuresAreMapped ==
  mapped # {} => \A p \in Placed : place[p] \in mapped

\* No application processor runs kernel code before its NX and PAT agree with
\* the boot processor's, on which the page tables they share depend.
SynchronizedInKernel ==
  \A p \in Aps : ap[p] \in Kernel \union {"held"} => nx[p] = BspHasNx /\ pat[p]

\* A processor that takes a start-up IPI is brought up, whatever the timing, and the
\* boot processor gets its page back; or it hangs where its registration fails, or it
\* takes itself for the boot processor, which it can only do if the MADT does not list
\* that one first.
StartedIsBroughtUp ==
  \A p \in Aps :
    ap[p] = "real" ~> \/ ap[p] = "held" /\ page = NoPage
                      \/ ap[p] = "hung"
                      \/ ap[p] = "crashed" /\ madt[1] # Bsp

\* "There is already a structure for the BSP", so the list needs one place less
\* than there are processors: nobody's descriptor lies behind its end.
DescriptorInList ==
  \A p \in Placed : place[p] < ListLength
=============================================================================
