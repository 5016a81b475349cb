------------------------------ MODULE SmpProof ------------------------------
(***************************************************************************)
(* Proofs about the start-up of the application processors, for any number *)
(* of them and any order of the MADT.                                      *)
(*                                                                         *)
(* The argument: a processor that is neither halted nor held is the one    *)
(* the boot processor is waiting for.  The boot processor stops waiting at *)
(* the second flag only, which nobody sets but the processor itself, when  *)
(* it is done.  So the record, the counter and the list have one user, and *)
(* the counter is tied to the entry of the MADT.  A processor that finds   *)
(* the counter at 0 crashes, one whose registration fails hangs; then the  *)
(* flag never comes, and the boot processor stays at its entry.            *)
(***************************************************************************)
EXTENDS Smp, FiniteSetTheorems, TLAPS

\* The boot processor has sent INIT and is not done with the entry.
Waiting == {"sipi1", "sipi2", "waitStarted", "waitLM"}

\* What the record tells about NX and the PAT.
Synchronizes(flags) == "PAT" \in flags /\ ("NX" \in flags <=> BspHasNx)

EntryOK == bsp # "next" => entry <= Size

\* The record is there for the entry that the boot processor is at, and its second
\* flag is set by the processor of that entry.
RecordOK ==
  /\ bsp \in {"fill", "init"} \union Waiting => page # NoPage /\ Current \in Aps
  /\ bsp \in {"init"} \union Waiting => page.uid = Current /\ Synchronizes(page.flags)
  /\ bsp = "init" => "LM" \notin page.flags
  /\ bsp \in Waiting /\ "LM" \in page.flags => ap[Current] = "held"

\* Whoever is neither halted nor held is waited for.
ActiveOK ==
  \A p \in Aps : ap[p] \notin {"halted", "held"} => p = Current /\ bsp \in Waiting

\* An AP keeps the flags it has read, NX and the PAT from one step to the next.
InStep(p) ==
  /\ ap[p] \in {"started", "sync"} => Synchronizes(eax[p])
  /\ ap[p] = "started" => "LM" \notin eax[p]
  /\ ap[p] \in {"waiting"} \union (Trampoline \ {"sync"}) => ~nx[p]
  /\ ap[p] = "sync" => nx[p] = BspHasNx
  /\ ap[p] \in Kernel \union {"held"} => nx[p] = BspHasNx /\ pat[p]
SyncOK == \A p \in Aps : InStep(p)

\* The counter counts the entries that are done, and the processor that has counted
\* itself.
CountOK ==
  counter = IF bsp \in Waiting /\ ap[Current] \in {"counted", "held"} THEN entry ELSE entry - 1

\* Places below the counter are taken, by one processor each.
PlaceOK ==
  /\ \A p \in Placed : /\ place[p] \in Places
                       /\ list[place[p]] = p
                       /\ ap[p] = "placed" => place[p] = counter
                       /\ ap[p] # "placed" => place[p] < counter
  /\ \A p, q \in Placed : p # q => place[p] # place[q]

MapOK ==
  mapped # {} => bsp = "next" /\ entry > Size /\ mapped = 0..(counter - 1)

SmpInv ==
  /\ TypeOK
  /\ EntryOK /\ RecordOK /\ ActiveOK /\ SyncOK
  /\ CountOK /\ PlaceOK /\ MapOK

-----------------------------------------------------------------------------
LEMMA SizeType == Size \in Nat /\ Places \subseteq Nat
BY SmpAssumption, FS_CardinalityType, SMT DEF Size, Places

\* The MADT holds processors.
LEMMA MadtType ==
  ASSUME TypeOK, entry <= Size
  PROVE  Current \in Processors
BY SmpAssumption, SizeType, SMT DEF TypeOK, Current, Size

-----------------------------------------------------------------------------
(* The inductive invariant, one action at a time. *)

LEMMA InitInv == Init => SmpInv
BY SizeType, SMT
   DEF Init, SmpInv, TypeOK, EntryOK, RecordOK, ActiveOK, SyncOK, CountOK, PlaceOK, MapOK,
       InStep, Placed, Waiting, Trampoline, Kernel, Places, ApStates, BspStates

\* The boot processor registers while no other processor runs.
LEMMA RegisterBspInv ==
  ASSUME SmpInv, RegisterBsp
  PROVE  SmpInv'
<1>1. TypeOK'
  BY SmpAssumption, SMT DEF RegisterBsp, SmpInv, Aps, TypeOK, Places, Flags, Records,
     BspStates, TakePlace, Waiting
<1>2. EntryOK'
  BY SMT DEF RegisterBsp, SmpInv, EntryOK
<1>3. RecordOK'
  BY SMT DEF RegisterBsp, SmpInv, RecordOK, Waiting
<1>4. ActiveOK'
  BY SMT DEF RegisterBsp, SmpInv, ActiveOK, Waiting
<1>5. SyncOK'
  BY SMT DEF RegisterBsp, SmpInv, SyncOK, InStep
<1>6. CountOK'
  BY SMT DEF RegisterBsp, SmpInv, CountOK, Waiting
<1>7. PlaceOK'
  BY SMT DEF RegisterBsp, SmpInv, Aps, PlaceOK, TypeOK, Placed, ActiveOK, RecordOK,
     TakePlace
<1>8. MapOK'
  BY SizeType, SMT DEF RegisterBsp, SmpInv, MapOK, TypeOK
<1> QED BY <1>1, <1>2, <1>3, <1>4, <1>5, <1>6, <1>7, <1>8 DEF SmpInv

LEMMA CountBspInv ==
  ASSUME SmpInv, CountBsp
  PROVE  SmpInv'
<1>1. TypeOK'
  BY SizeType, SMT DEF CountBsp, SmpInv, TypeOK, Records, BspStates, Waiting, EntryOK,
     CountOK
<1>2. EntryOK'
  BY SMT DEF CountBsp, SmpInv, EntryOK
<1>3. RecordOK'
  BY SMT DEF CountBsp, SmpInv, RecordOK, Waiting
<1>4. ActiveOK'
  BY SMT DEF CountBsp, SmpInv, ActiveOK, Waiting
<1>5. SyncOK'
  BY SMT DEF CountBsp, SmpInv, SyncOK, InStep
<1>6. CountOK'
  BY SMT DEF CountBsp, SmpInv, CountOK, TypeOK, Waiting
<1>7. PlaceOK'
  BY SMT DEF CountBsp, SmpInv, PlaceOK, TypeOK, Placed, Places, ActiveOK, Waiting
<1>8. MapOK'
  BY SMT DEF CountBsp, SmpInv, MapOK
<1> QED BY <1>1, <1>2, <1>3, <1>4, <1>5, <1>6, <1>7, <1>8 DEF SmpInv

LEMMA HangBspInv ==
  ASSUME SmpInv, HangBsp
  PROVE  SmpInv'
<1>1. TypeOK'
  BY SMT DEF HangBsp, SmpInv, TypeOK, BspStates
<1>2. EntryOK'
  BY SMT DEF HangBsp, SmpInv, EntryOK
<1>3. RecordOK'
  BY SMT DEF HangBsp, SmpInv, RecordOK, Waiting
<1>4. ActiveOK'
  BY SMT DEF HangBsp, SmpInv, ActiveOK, Waiting
<1>5. SyncOK'
  BY SMT DEF HangBsp, SmpInv, SyncOK, InStep
<1>6. CountOK'
  BY SMT DEF HangBsp, SmpInv, CountOK, Waiting
<1>7. PlaceOK'
  BY SMT DEF HangBsp, SmpInv, PlaceOK, Placed
<1>8. MapOK'
  BY SMT DEF HangBsp, SmpInv, MapOK
<1> QED BY <1>1, <1>2, <1>3, <1>4, <1>5, <1>6, <1>7, <1>8 DEF SmpInv

\* No other processor runs, and the low page is made anew.
LEMMA PreparePageInv ==
  ASSUME SmpInv, PreparePage
  PROVE  SmpInv'
<1>1. TypeOK'
  BY SMT DEF PreparePage, SmpInv, TypeOK, Records, BspStates
<1>2. EntryOK'
  BY SMT DEF PreparePage, SmpInv, EntryOK
<1>3. RecordOK'
  BY MadtType, SmpAssumption, SMT DEF PreparePage, SmpInv, Current, Aps, RecordOK, Waiting,
     Records
<1>4. ActiveOK'
  BY SMT DEF PreparePage, SmpInv, ActiveOK, Waiting
<1>5. SyncOK'
  BY SMT DEF PreparePage, SmpInv, SyncOK, InStep
<1>6. CountOK'
  BY SMT DEF PreparePage, SmpInv, CountOK, Waiting
<1>7. PlaceOK'
  BY SMT DEF PreparePage, SmpInv, PlaceOK, Placed
<1>8. MapOK'
  BY SizeType, SMT DEF PreparePage, SmpInv, MapOK, TypeOK
<1> QED BY <1>1, <1>2, <1>3, <1>4, <1>5, <1>6, <1>7, <1>8 DEF SmpInv

LEMMA FillInfoInv ==
  ASSUME SmpInv, FillInfo
  PROVE  SmpInv'
<1>1. TypeOK'
  BY MadtType, SMT DEF FillInfo, SmpInv, TypeOK, Flags, Records, BspStates, EntryOK
<1>2. EntryOK'
  BY SMT DEF FillInfo, SmpInv, EntryOK
<1>3. RecordOK'
  BY MadtType, SmpAssumption, SMT DEF FillInfo, SmpInv, Current, RecordOK, Synchronizes,
     EntryOK, Flags, Records
<1>4. ActiveOK'
  BY SMT DEF FillInfo, SmpInv, ActiveOK, Waiting
<1>5. SyncOK'
  BY SMT DEF FillInfo, SmpInv, SyncOK, InStep
<1>6. CountOK'
  BY SMT DEF FillInfo, SmpInv, CountOK, Waiting
<1>7. PlaceOK'
  BY SMT DEF FillInfo, SmpInv, PlaceOK, Placed
<1>8. MapOK'
  BY SMT DEF FillInfo, SmpInv, MapOK
<1> QED BY <1>1, <1>2, <1>3, <1>4, <1>5, <1>6, <1>7, <1>8 DEF SmpInv

\* From here on the processor of the entry is the one that is waited for.
LEMMA SendInitInv ==
  ASSUME SmpInv, SendInit
  PROVE  SmpInv'
<1>1. TypeOK'
  BY SMT DEF SendInit, SmpInv, TypeOK, ApStates, BspStates, RecordOK
<1>2. EntryOK'
  BY SMT DEF SendInit, SmpInv, EntryOK
<1>3. RecordOK'
  BY SMT DEF SendInit, SmpInv, Current, RecordOK
<1>4. ActiveOK'
  BY SMT DEF SendInit, SmpInv, Current, ActiveOK, Waiting
<1>5. SyncOK'
  BY SMT DEF SendInit, SmpInv, SyncOK, InStep, Trampoline, Kernel
<1>6. CountOK'
  BY SMT DEF SendInit, SmpInv, Current, CountOK, TypeOK, Waiting, RecordOK
<1>7. PlaceOK'
  BY SMT DEF SendInit, SmpInv, PlaceOK, Placed
<1>8. MapOK'
  BY SMT DEF SendInit, SmpInv, MapOK
<1> QED BY <1>1, <1>2, <1>3, <1>4, <1>5, <1>6, <1>7, <1>8 DEF SmpInv

LEMMA SendSipiInv ==
  ASSUME SmpInv, SendSipi
  PROVE  SmpInv'
<1>1. TypeOK'
  BY SMT DEF SendSipi, SmpInv, TypeOK, ApStates, BspStates, Trampoline, Waiting, RecordOK
<1>2. EntryOK'
  BY SMT DEF SendSipi, SmpInv, EntryOK
<1>3. RecordOK'
  BY SMT DEF SendSipi, SmpInv, Current, RecordOK, Waiting
<1>4. ActiveOK'
  BY SMT DEF SendSipi, SmpInv, Current, ActiveOK, Waiting
<1>5. SyncOK'
  BY SMT DEF SendSipi, SmpInv, SyncOK, InStep, Kernel
<1>6. CountOK'
  BY SMT DEF SendSipi, SmpInv, Current, CountOK, Waiting
<1>7. PlaceOK'
  BY SMT DEF SendSipi, SmpInv, PlaceOK, Placed
<1>8. MapOK'
  BY SMT DEF SendSipi, SmpInv, MapOK
<1> QED BY <1>1, <1>2, <1>3, <1>4, <1>5, <1>6, <1>7, <1>8 DEF SmpInv

LEMMA SeeStartedInv ==
  ASSUME SmpInv, SeeStarted
  PROVE  SmpInv'
<1>1. TypeOK'
  BY SMT DEF SeeStarted, SmpInv, TypeOK, BspStates
<1>2. EntryOK'
  BY SMT DEF SeeStarted, SmpInv, EntryOK
<1>3. RecordOK'
  BY SMT DEF SeeStarted, SmpInv, Current, RecordOK, Waiting
<1>4. ActiveOK'
  BY SMT DEF SeeStarted, SmpInv, Current, ActiveOK, Waiting
<1>5. SyncOK'
  BY SMT DEF SeeStarted, SmpInv, SyncOK, InStep
<1>6. CountOK'
  BY SMT DEF SeeStarted, SmpInv, Current, CountOK, Waiting
<1>7. PlaceOK'
  BY SMT DEF SeeStarted, SmpInv, PlaceOK, Placed
<1>8. MapOK'
  BY SMT DEF SeeStarted, SmpInv, MapOK
<1> QED BY <1>1, <1>2, <1>3, <1>4, <1>5, <1>6, <1>7, <1>8 DEF SmpInv

\* The second flag tells that the processor of the entry is held.
LEMMA ReclaimInv ==
  ASSUME SmpInv, Reclaim
  PROVE  SmpInv'
<1>1. TypeOK'
  BY SizeType, SMT DEF Reclaim, SmpInv, TypeOK, BspStates, EntryOK
<1>2. EntryOK'
  BY SMT DEF Reclaim, SmpInv, EntryOK
<1>3. RecordOK'
  BY SMT DEF Reclaim, SmpInv, RecordOK, Waiting
<1>4. ActiveOK'
  BY SMT DEF Reclaim, SmpInv, ActiveOK, RecordOK
<1>5. SyncOK'
  BY SMT DEF Reclaim, SmpInv, SyncOK, InStep
<1>6. CountOK'
  BY SMT DEF Reclaim, SmpInv, CountOK, TypeOK, Waiting, RecordOK
<1>7. PlaceOK'
  BY SMT DEF Reclaim, SmpInv, PlaceOK, Placed
<1>8. MapOK'
  BY SMT DEF Reclaim, SmpInv, MapOK
<1> QED BY <1>1, <1>2, <1>3, <1>4, <1>5, <1>6, <1>7, <1>8 DEF SmpInv

LEMMA MapStructuresInv ==
  ASSUME SmpInv, MapStructures
  PROVE  SmpInv'
<1>1. TypeOK'
  BY SizeType, SMT DEF MapStructures, SmpInv, TypeOK, Places, MappedPlaces
<1>2. EntryOK'
  BY SMT DEF MapStructures, SmpInv, EntryOK
<1>3. RecordOK'
  BY SMT DEF MapStructures, SmpInv, RecordOK, Waiting
<1>4. ActiveOK'
  BY SMT DEF MapStructures, SmpInv, ActiveOK, Waiting
<1>5. SyncOK'
  BY SMT DEF MapStructures, SmpInv, SyncOK, InStep
<1>6. CountOK'
  BY SMT DEF MapStructures, SmpInv, CountOK, Waiting
<1>7. PlaceOK'
  BY SMT DEF MapStructures, SmpInv, PlaceOK, Placed
<1>8. MapOK'
  BY SMT DEF MapStructures, SmpInv, MapOK, MappedPlaces
<1> QED BY <1>1, <1>2, <1>3, <1>4, <1>5, <1>6, <1>7, <1>8 DEF SmpInv

LEMMA ResetInv ==
  ASSUME SmpInv, NEW p \in Aps, Reset(p)
  PROVE  SmpInv'
<1>1. TypeOK'
  BY SMT DEF Reset, SmpInv, TypeOK, ApStates
<1>2. EntryOK'
  BY SMT DEF Reset, SmpInv, EntryOK
<1>3. RecordOK'
  BY SMT DEF Reset, SmpInv, Current, RecordOK
<1>4. ActiveOK'
  BY SMT DEF Reset, SmpInv, Current, ActiveOK
<1>5. SyncOK'
  BY SMT DEF Reset, SmpInv, SyncOK, InStep, TypeOK, Kernel
<1>6. CountOK'
  BY SMT DEF Reset, SmpInv, Current, CountOK
<1>7. PlaceOK'
  BY SMT DEF Reset, SmpInv, PlaceOK, Placed
<1>8. MapOK'
  BY SMT DEF Reset, SmpInv, MapOK
<1> QED BY <1>1, <1>2, <1>3, <1>4, <1>5, <1>6, <1>7, <1>8 DEF SmpInv

LEMMA ReadFlagsInv ==
  ASSUME SmpInv, NEW p \in Aps, ReadFlags(p)
  PROVE  SmpInv'
<1>1. TypeOK'
  BY SMT DEF ReadFlags, SmpInv, TypeOK, Records, ApStates, Trampoline, RecordOK, ActiveOK
<1>2. EntryOK'
  BY SMT DEF ReadFlags, SmpInv, EntryOK
<1>3. RecordOK'
  BY SMT DEF ReadFlags, SmpInv, Current, RecordOK
<1>4. ActiveOK'
  BY SMT DEF ReadFlags, SmpInv, Current, ActiveOK
<1>5. SyncOK'
  BY SMT DEF ReadFlags, SmpInv, SyncOK, InStep, TypeOK, RecordOK, ActiveOK, Trampoline,
     Kernel
<1>6. CountOK'
  BY SMT DEF ReadFlags, SmpInv, Current, CountOK
<1>7. PlaceOK'
  BY SMT DEF ReadFlags, SmpInv, PlaceOK, Placed
<1>8. MapOK'
  BY SMT DEF ReadFlags, SmpInv, MapOK
<1> QED BY <1>1, <1>2, <1>3, <1>4, <1>5, <1>6, <1>7, <1>8 DEF SmpInv

\* The flags read before are written back: nobody has changed the record since.
LEMMA RespondInv ==
  ASSUME SmpInv, NEW p \in Aps, Respond(p)
  PROVE  SmpInv'
<1>1. TypeOK'
  <2>1. page \in Records
    BY SMT DEF Respond, SmpInv, TypeOK, RecordOK, ActiveOK
  <2>2. page' \in Records
    BY <2>1, SMT DEF Respond, SmpInv, TypeOK, Records, Flags
  <2>3. ap' \in [Aps -> ApStates]
    BY SMT DEF Respond, SmpInv, TypeOK, ApStates, Trampoline
  <2> QED BY <2>2, <2>3, SMT DEF Respond, SmpInv, TypeOK
<1>2. EntryOK'
  BY SMT DEF Respond, SmpInv, EntryOK
<1>3. RecordOK'
  BY SmpAssumption, SMT DEF Respond, SmpInv, Current, Aps, RecordOK, TypeOK, Synchronizes,
     SyncOK, InStep, Flags, Records
<1>4. ActiveOK'
  BY SMT DEF Respond, SmpInv, Current, ActiveOK
<1>5. SyncOK'
  BY SMT DEF Respond, SmpInv, SyncOK, InStep, Trampoline, Kernel
<1>6. CountOK'
  BY SMT DEF Respond, SmpInv, Current, CountOK
<1>7. PlaceOK'
  BY SMT DEF Respond, SmpInv, PlaceOK, Placed
<1>8. MapOK'
  BY SMT DEF Respond, SmpInv, MapOK
<1> QED BY <1>1, <1>2, <1>3, <1>4, <1>5, <1>6, <1>7, <1>8 DEF SmpInv

LEMMA EnterLongModeInv ==
  ASSUME SmpInv, NEW p \in Aps, EnterLongMode(p)
  PROVE  SmpInv'
<1>1. TypeOK'
  BY SMT DEF EnterLongMode, SmpInv, TypeOK, ApStates, Trampoline
<1>2. EntryOK'
  BY SMT DEF EnterLongMode, SmpInv, EntryOK
<1>3. RecordOK'
  BY SMT DEF EnterLongMode, SmpInv, Current, RecordOK
<1>4. ActiveOK'
  BY SMT DEF EnterLongMode, SmpInv, Current, ActiveOK
<1>5. SyncOK'
  BY SMT DEF EnterLongMode, SmpInv, SyncOK, InStep, Trampoline, Kernel
<1>6. CountOK'
  BY SMT DEF EnterLongMode, SmpInv, Current, CountOK
<1>7. PlaceOK'
  BY SMT DEF EnterLongMode, SmpInv, PlaceOK, Placed
<1>8. MapOK'
  BY SMT DEF EnterLongMode, SmpInv, MapOK
<1> QED BY <1>1, <1>2, <1>3, <1>4, <1>5, <1>6, <1>7, <1>8 DEF SmpInv

LEMMA SyncNxInv ==
  ASSUME SmpInv, NEW p \in Aps, SyncNx(p)
  PROVE  SmpInv'
<1>1. TypeOK'
  BY SMT DEF SyncNx, SmpInv, TypeOK, Records, ApStates, Trampoline, RecordOK, ActiveOK
<1>2. EntryOK'
  BY SMT DEF SyncNx, SmpInv, EntryOK
<1>3. RecordOK'
  BY SMT DEF SyncNx, SmpInv, Current, RecordOK
<1>4. ActiveOK'
  BY SMT DEF SyncNx, SmpInv, Current, ActiveOK
<1>5. SyncOK'
  BY SmpAssumption, SMT DEF SyncNx, SmpInv, SyncOK, InStep, TypeOK, Synchronizes, RecordOK,
     ActiveOK, Trampoline, Kernel
<1>6. CountOK'
  BY SMT DEF SyncNx, SmpInv, Current, CountOK
<1>7. PlaceOK'
  BY SMT DEF SyncNx, SmpInv, PlaceOK, Placed
<1>8. MapOK'
  BY SMT DEF SyncNx, SmpInv, MapOK
<1> QED BY <1>1, <1>2, <1>3, <1>4, <1>5, <1>6, <1>7, <1>8 DEF SmpInv

LEMMA SyncPatInv ==
  ASSUME SmpInv, NEW p \in Aps, SyncPat(p)
  PROVE  SmpInv'
<1>1. TypeOK'
  BY SMT DEF SyncPat, SmpInv, TypeOK, ApStates, Kernel
<1>2. EntryOK'
  BY SMT DEF SyncPat, SmpInv, EntryOK
<1>3. RecordOK'
  BY SMT DEF SyncPat, SmpInv, Current, RecordOK
<1>4. ActiveOK'
  BY SMT DEF SyncPat, SmpInv, Current, ActiveOK
<1>5. SyncOK'
  <2> SUFFICES ASSUME NEW q \in Aps PROVE InStep(q)'
    BY DEF SyncOK
  <2>1. CASE q = p
    <3>1. pat'[p]
      BY Zenon DEF SmpInv, SyncOK, InStep, Synchronizes, SyncPat, TypeOK
    <3> QED BY <3>1, SMT DEF SmpInv, SyncOK, InStep, SyncPat, Trampoline
  <2>2. CASE q # p
    BY <2>2, SMT DEF SmpInv, SyncOK, InStep, SyncPat
  <2> QED BY <2>1, <2>2
<1>6. CountOK'
  BY SMT DEF SyncPat, SmpInv, Current, CountOK
<1>7. PlaceOK'
  BY SMT DEF SyncPat, SmpInv, PlaceOK, Placed
<1>8. MapOK'
  BY SMT DEF SyncPat, SmpInv, MapOK
<1> QED BY <1>1, <1>2, <1>3, <1>4, <1>5, <1>6, <1>7, <1>8 DEF SmpInv

\* All places that are taken lie below the counter, so this one is new.
LEMMA RegisterApInv ==
  ASSUME SmpInv, NEW p \in Aps, RegisterAp(p)
  PROVE  SmpInv'
<1>0. /\ p = Current /\ bsp \in Waiting
      /\ counter \in Places /\ counter = entry - 1
      /\ page \in Records /\ page.uid = p
  BY SMT DEF RegisterAp, SmpInv, TypeOK, RecordOK, ActiveOK, CountOK, Places
<1>1. TypeOK'
  <2>1. list' \in [Places -> Processors \union {Nobody}]
    BY <1>0, SMT DEF RegisterAp, SmpInv, TypeOK, Aps
  <2>2. place' \in [Processors -> Places \union {Static}]
    BY <1>0, SMT DEF RegisterAp, SmpInv, TypeOK
  <2>3. ap' \in [Aps -> ApStates]
    BY SMT DEF RegisterAp, SmpInv, TypeOK, ApStates, Kernel
  <2> QED BY <2>1, <2>2, <2>3, SMT DEF RegisterAp, SmpInv, TypeOK
<1>2. EntryOK'
  BY SMT DEF RegisterAp, SmpInv, EntryOK
<1>3. RecordOK'
  BY SMT DEF RegisterAp, SmpInv, Current, RecordOK, ActiveOK
<1>4. ActiveOK'
  BY SMT DEF RegisterAp, SmpInv, Current, ActiveOK, TypeOK
<1>5. SyncOK'
  BY SMT DEF RegisterAp, SmpInv, SyncOK, InStep, TypeOK, Trampoline, Kernel
<1>6. CountOK'
  BY SMT DEF RegisterAp, SmpInv, Current, CountOK, TypeOK, ActiveOK
<1>7. PlaceOK'
  <2>1. CASE counter = 0
    BY <2>1, SMT DEF RegisterAp, SmpInv, TypeOK, PlaceOK, Placed
  <2>2. CASE counter # 0
    <3>1. \A q \in Placed : q # p /\ ap[q] = "held"
      BY SMT DEF RegisterAp, SmpInv, ActiveOK, Placed
    <3>2. \A q \in Placed : place[q] < counter /\ place[q] \in Places /\ list[place[q]] = q
      BY <3>1, SMT DEF SmpInv, PlaceOK
    <3>3. Placed' = Placed \union {p}
      BY <2>2, SMT DEF RegisterAp, SmpInv, TypeOK, Placed
    <3>4. list' = [list EXCEPT ![counter] = p] /\ place' = [place EXCEPT ![p] = counter]
          /\ ap' = [ap EXCEPT ![p] = "placed"] /\ counter' = counter
      BY <1>0, <2>2, SMT DEF RegisterAp
    <3>5. place'[p] = counter /\ list'[counter] = p /\ ap'[p] = "placed"
      BY <1>0, <3>4, SMT DEF SmpInv, TypeOK, Aps
    <3>6. ASSUME NEW q \in Placed
          PROVE  place'[q] = place[q] /\ ap'[q] = ap[q] /\ list'[place[q]] = q
      BY <1>0, <3>1, <3>2, <3>4, SMT DEF SmpInv
    <3> QED BY <1>0, <3>1, <3>2, <3>3, <3>4, <3>5, SMT DEF PlaceOK
  <2> QED BY <2>1, <2>2
<1>8. MapOK'
  BY SMT DEF RegisterAp, SmpInv, MapOK
<1> QED BY <1>1, <1>2, <1>3, <1>4, <1>5, <1>6, <1>7, <1>8 DEF SmpInv

LEMMA CountApInv ==
  ASSUME SmpInv, NEW p \in Aps, CountAp(p)
  PROVE  SmpInv'
<1>1. TypeOK'
  BY SMT DEF CountAp, SmpInv, TypeOK, ApStates, Kernel, Waiting, EntryOK, CountOK, ActiveOK
<1>2. EntryOK'
  BY SMT DEF CountAp, SmpInv, EntryOK
<1>3. RecordOK'
  BY SMT DEF CountAp, SmpInv, Current, RecordOK
<1>4. ActiveOK'
  BY SMT DEF CountAp, SmpInv, Current, ActiveOK
<1>5. SyncOK'
  BY SMT DEF CountAp, SmpInv, SyncOK, InStep, Trampoline, Kernel
<1>6. CountOK'
  BY SMT DEF CountAp, SmpInv, Current, Aps, CountOK, TypeOK, ActiveOK
<1>7. PlaceOK'
  BY SMT DEF CountAp, SmpInv, PlaceOK, TypeOK, Placed, Places
<1>8. MapOK'
  BY SMT DEF CountAp, SmpInv, Current, MapOK, ActiveOK, Waiting
<1> QED BY <1>1, <1>2, <1>3, <1>4, <1>5, <1>6, <1>7, <1>8 DEF SmpInv

\* A processor that hangs is waited for all the same.
LEMMA HangApInv ==
  ASSUME SmpInv, NEW p \in Aps, HangAp(p)
  PROVE  SmpInv'
<1>1. TypeOK'
  BY SMT DEF HangAp, SmpInv, TypeOK, ApStates
<1>2. EntryOK'
  BY SMT DEF HangAp, SmpInv, EntryOK
<1>3. RecordOK'
  BY SMT DEF HangAp, SmpInv, Current, RecordOK
<1>4. ActiveOK'
  BY SMT DEF HangAp, SmpInv, Current, ActiveOK, TypeOK
<1>5. SyncOK'
  BY SMT DEF HangAp, SmpInv, SyncOK, InStep, Trampoline, Kernel
<1>6. CountOK'
  BY SMT DEF HangAp, SmpInv, Current, CountOK, TypeOK
<1>7. PlaceOK'
  BY SMT DEF HangAp, SmpInv, PlaceOK, Placed, TypeOK
<1>8. MapOK'
  BY SMT DEF HangAp, SmpInv, MapOK
<1> QED BY <1>1, <1>2, <1>3, <1>4, <1>5, <1>6, <1>7, <1>8 DEF SmpInv

\* The processor sets the second flag when it has counted itself.
LEMMA TellLongModeInv ==
  ASSUME SmpInv, NEW p \in Aps, TellLongMode(p)
  PROVE  SmpInv'
<1>1. TypeOK'
  <2>1. page \in Records
    BY SMT DEF TellLongMode, SmpInv, TypeOK, RecordOK, ActiveOK
  <2>2. page' \in Records
    BY <2>1, SMT DEF TellLongMode, Records, Flags
  <2>3. ap' \in [Aps -> ApStates]
    BY SMT DEF TellLongMode, SmpInv, TypeOK, ApStates
  <2> QED BY <2>2, <2>3, SMT DEF TellLongMode, SmpInv, TypeOK
<1>2. EntryOK'
  BY SMT DEF TellLongMode, SmpInv, EntryOK
<1>3. RecordOK'
  BY SmpAssumption, SMT DEF TellLongMode, SmpInv, Current, RecordOK, TypeOK, Waiting,
     Synchronizes, ActiveOK, Flags, Records
<1>4. ActiveOK'
  BY SMT DEF TellLongMode, SmpInv, ActiveOK, TypeOK
<1>5. SyncOK'
  BY SMT DEF TellLongMode, SmpInv, SyncOK, InStep, Trampoline, Kernel
<1>6. CountOK'
  BY SMT DEF TellLongMode, SmpInv, Current, CountOK
<1>7. PlaceOK'
  BY SMT DEF TellLongMode, SmpInv, PlaceOK, Placed
<1>8. MapOK'
  BY SMT DEF TellLongMode, SmpInv, MapOK
<1> QED BY <1>1, <1>2, <1>3, <1>4, <1>5, <1>6, <1>7, <1>8 DEF SmpInv

LEMMA StutterInv ==
  ASSUME SmpInv, UNCHANGED vars
  PROVE  SmpInv'
<1>1. TypeOK' /\ EntryOK' /\ CountOK' /\ MapOK'
  BY SMT DEF vars, SmpInv, TypeOK, EntryOK, CountOK, MapOK, Current
<1>2. RecordOK' /\ ActiveOK' /\ SyncOK'
  BY SMT DEF vars, SmpInv, RecordOK, ActiveOK, SyncOK, InStep, Current
<1>3. PlaceOK'
  BY SMT DEF vars, SmpInv, PlaceOK, Placed
<1> QED BY <1>1, <1>2, <1>3 DEF SmpInv

LEMMA NextInv == SmpInv /\ [Next]_vars => SmpInv'
<1> SUFFICES ASSUME SmpInv, [Next]_vars PROVE SmpInv'
  OBVIOUS
<1>1. CASE BspStep
  BY <1>1, RegisterBspInv, CountBspInv, HangBspInv, PreparePageInv, FillInfoInv, SendInitInv,
     SendSipiInv, SeeStartedInv, ReclaimInv DEF BspStep
<1>2. ASSUME NEW p \in Aps, ApStep(p) PROVE SmpInv'
  BY <1>2, ResetInv, ReadFlagsInv, RespondInv, EnterLongModeInv, SyncNxInv, SyncPatInv,
     RegisterApInv, CountApInv, HangApInv, TellLongModeInv DEF ApStep
<1> QED BY <1>1, <1>2, MapStructuresInv, StutterInv DEF Next

-----------------------------------------------------------------------------
(* The theorems *)

\* SmpInv holds in every state that start-up reaches, whatever the MADT lists first and
\* however many start-up IPIs are missed.
THEOREM Invariance == Spec => []SmpInv
BY InitInv, NextInv, PTL DEF Spec

\* The variables keep their types: the counter, for one, never exceeds the number of
\* processors.
THEOREM TypeCorrect == Spec => []TypeOK
BY Invariance, PTL DEF SmpInv

\* The boot processor never takes the low page from a processor that still uses it.
THEOREM PageStays == Spec => []TrampolineStays
<1>1. SmpInv => TrampolineStays
  BY SMT DEF SmpInv, RecordOK, ActiveOK, TrampolineStays, Starting, Trampoline, Kernel
<1> QED BY <1>1, Invariance, PTL

\* Arc_ProcessorCounter and the list need no lock: one processor at a time is between
\* its start-up IPI and smp_hold, and none while the boot processor registers.
THEOREM SequentialStart == Spec => []OneAtATime
<1>1. SmpInv => OneAtATime
  BY SMT DEF SmpInv, ActiveOK, OneAtATime, Starting, Trampoline, Kernel, Waiting
<1> QED BY <1>1, Invariance, PTL

\* Whatever place a processor takes, its GS base leads to its own descriptor.
THEOREM DescriptorIsOwn == Spec => []OwnDescriptor
<1>1. Static \notin Places
  BY SmpAssumption, SMT DEF Places
<1>2. SmpInv => OwnDescriptor
  BY <1>1, SMT DEF SmpInv, PlaceOK, OwnDescriptor
<1> QED BY <1>2, Invariance, PTL

\* NX and the PAT agree with the boot processor's before kernel code runs.
THEOREM KernelIsSynchronized == Spec => []SynchronizedInKernel
<1>1. SmpInv => SynchronizedInKernel
  BY SMT DEF SmpInv, SyncOK, InStep, SynchronizedInKernel
<1> QED BY <1>1, Invariance, PTL

\* A process that has mapped the processors' structures has mapped those of every
\* application processor.
THEOREM AllStructuresMapped == Spec => []StructuresAreMapped
<1>1. SmpInv => StructuresAreMapped
  <2> SUFFICES ASSUME SmpInv, mapped # {}, NEW p \in Placed PROVE place[p] \in mapped
    BY DEF StructuresAreMapped
  <2>1. ap[p] # "placed"
    BY SMT DEF SmpInv, MapOK, ActiveOK, Placed, Waiting
  <2>2. place[p] \in Places /\ place[p] < counter
    BY <2>1, SMT DEF SmpInv, PlaceOK
  <2>3. counter \in Nat /\ mapped = 0..(counter - 1)
    BY SMT DEF SmpInv, MapOK, TypeOK
  <2> QED BY <2>2, <2>3, SMT DEF Places
<1> QED BY <1>1, Invariance, PTL
=============================================================================
