-------------------------------- MODULE Pcid --------------------------------
(***************************************************************************)
(* The process-context identifier allocator of src/c/pcid.c.               *)
(*                                                                         *)
(* A PCID is one bit of pcid_bmp, an array of 64-bit words.  Kernel        *)
(* threads call pcid_allocate and pcid_free; both take mod_lock, but the   *)
(* scan of pcid_allocate reads pcid_last_free and the word before it does. *)
(* A step of this module is one access to the shared state.                *)
(*                                                                         *)
(* The sizes are the ones the compiler computes, not the ones the text     *)
(* suggests.  PCID_COUNT is the unparenthesised text 2 << 12, and / and %  *)
(* bind tighter than <<, so PCID_COUNT / 64 is 2 << (12 / 64).  ffs takes  *)
(* an int: it sees the low 32 bits of a word.  1 << x is an int too, which *)
(* is sign-extended when it meets the word.                                *)
(***************************************************************************)
EXTENDS Integers, FiniteSets

CONSTANTS
  Threads,    \* the kernel threads that create and drop page tables
  NoThread,   \* the holder of a lock nobody holds
  NoBitmap,   \* pcid_bmp while it is NULL
  Garbage,    \* what the words alloc() returns may hold: it clears nothing
  MaxCalls,   \* bound: calls of pcid_allocate in a behaviour
  MaxFrees    \* bound: calls of pcid_free in a behaviour

Bits  == 0..63
Words == 0..2          \* the words of the bitmap that the code ever touches
Pcids == 0..127        \* two words' worth: all that pcid_allocate can return

ASSUME PcidAssumption ==
  /\ NoThread \notin Threads
  /\ NoBitmap \notin [Words -> SUBSET Bits]
  /\ Garbage \subseteq [Words -> SUBSET Bits]
  /\ MaxCalls \in Nat
  /\ MaxFrees \in Nat

VARIABLES
  bmp,        \* pcid_bmp
  last,       \* pcid_last_free
  lock,       \* mod_lock: the thread that took it last and has not let go
  pc,         \* where each thread is in pcid_allocate or pcid_free
  i,          \* pcid_allocate's loop counter
  w,          \* pcid_allocate's _i, the word it scans
  bit,        \* pcid_allocate's x, the bit ffs found in the word
  pcid,       \* the result of pcid_allocate, or the argument of pcid_free
  live,       \* history: the PCIDs callers were given and have not given back
  calls, frees

vars == <<bmp, last, lock, pc, i, w, bit, pcid, live, calls, frees>>

-----------------------------------------------------------------------------
(* The expressions of the code, as the compiler groups them. *)

\* PCID_COUNT / (sizeof(*pcid_bmp) * 8)
ScanLength == 2 * 2^(12 \div 64)

\* (i + pcid_last_free) % PCID_COUNT / 8
ScanWord(n, l) == ((n + l) % 2) * 2^(12 \div 8)

\* The low 32 bits are all that __builtin_ffs(~word) can find a zero in.
FfsBits == 0..31

\* The bits of the int 1 << x once it is widened to 64 bits.
IntBit(x) == IF x = 31 THEN 31..63 ELSE {x}

\* The bits that memset(pcid_bmp, 0, PCID_COUNT / 64) clears in word 0: the size is
\* 2 << (12 / 64) bytes.
MemsetBits == 0..(8 * ScanLength - 1)

\* The word whose bit stands for PCID p when pcid_allocate hands it out ...
HomeWord(p) == ScanWord(p \div 64, 0)
\* Faulty: the word of PCID p - 64 for the PCIDs of the second word.
FreeWordLow(p) == p \div 128
\* ... and the word pcid_free writes to.
FreeWord(p) == p \div 64

-----------------------------------------------------------------------------
Init ==
  /\ bmp = NoBitmap
  /\ last = 0
  /\ lock = NoThread
  /\ pc = [t \in Threads |-> "idle"]
  /\ i = [t \in Threads |-> 0]
  /\ w = [t \in Threads |-> 0]
  /\ bit = [t \in Threads |-> 0]
  /\ pcid = [t \in Threads |-> 0]
  /\ live = {}
  /\ calls = 0
  /\ frees = 0

\* init_pcid, called by the first processor to register; later calls see the
\* bitmap and return.  Only two bytes are cleared, the rest keeps its garbage.
InitPcid ==
  /\ bmp = NoBitmap
  /\ \A t \in Threads : pc[t] = "idle"
  /\ \E g \in Garbage :
       bmp' = [g EXCEPT ![0] = (@ \ MemsetBits) \union {0}]
  /\ lock' = NoThread
  /\ UNCHANGED <<last, pc, i, w, bit, pcid, live, calls, frees>>

\* pcid_allocate before init_pcid, or when it failed: -1.
AllocateNoBitmap(t) ==
  /\ pc[t] = "idle"
  /\ bmp = NoBitmap
  /\ calls < MaxCalls
  /\ calls' = calls + 1
  /\ pcid' = [pcid EXCEPT ![t] = -1]
  /\ pc' = [pc EXCEPT ![t] = "done"]
  /\ UNCHANGED <<bmp, last, lock, i, w, bit, live, frees>>

Allocate(t) ==
  /\ pc[t] = "idle"
  /\ bmp # NoBitmap
  /\ calls < MaxCalls
  /\ calls' = calls + 1
  /\ pcid' = [pcid EXCEPT ![t] = 0]
  /\ i' = [i EXCEPT ![t] = 0]
  /\ pc' = [pc EXCEPT ![t] = "scan"]
  /\ UNCHANGED <<bmp, last, lock, w, bit, live, frees>>

\* One unlocked look at a word: skip it when it is full, else go for the lock.
Scan(t) ==
  LET word == ScanWord(i[t], last) IN
  /\ pc[t] = "scan"
  /\ i[t] < ScanLength
  /\ w' = [w EXCEPT ![t] = word]
  /\ IF bmp[word] = Bits
       THEN /\ i' = [i EXCEPT ![t] = @ + 1]
            /\ pc' = pc
       ELSE /\ i' = i
            /\ pc' = [pc EXCEPT ![t] = "lock"]
  /\ UNCHANGED <<bmp, last, lock, bit, pcid, live, calls, frees>>

\* The loop ran out: pcid still has its initial value 0.
ScanEnd(t) ==
  /\ pc[t] = "scan"
  /\ i[t] >= ScanLength
  /\ pc' = [pc EXCEPT ![t] = "done"]
  /\ UNCHANGED <<bmp, last, lock, i, w, bit, pcid, live, calls, frees>>

\* Faulty: the lock does not exclude.
LockAlways(t) ==
  /\ pc[t] \in {"lock", "freeLock"}
  /\ lock' = t
  /\ pc' = [pc EXCEPT ![t] = IF @ = "lock" THEN "find" ELSE "clear"]
  /\ UNCHANGED <<bmp, last, i, w, bit, pcid, live, calls, frees>>

\* spinlock_lock(&mod_lock), from pcid_allocate or from pcid_free.
Lock(t) ==
  /\ pc[t] \in {"lock", "freeLock"}
  /\ lock = NoThread
  /\ lock' = t
  /\ pc' = [pc EXCEPT ![t] = IF @ = "lock" THEN "find" ELSE "clear"]
  /\ UNCHANGED <<bmp, last, i, w, bit, pcid, live, calls, frees>>

\* ffs: the lowest zero of the word among the bits it sees.
Find(t) ==
  /\ pc[t] = "find"
  /\ \E x \in FfsBits \ bmp[w[t]] :
       /\ \A y \in FfsBits \ bmp[w[t]] : x <= y
       /\ bit' = [bit EXCEPT ![t] = x]
  /\ pc' = [pc EXCEPT ![t] = "take"]
  /\ UNCHANGED <<bmp, last, lock, i, w, pcid, live, calls, frees>>

\* x == 0: the code continues its loop and keeps the lock.
FindNone(t) ==
  /\ pc[t] = "find"
  /\ FfsBits \subseteq bmp[w[t]]
  /\ i' = [i EXCEPT ![t] = @ + 1]
  /\ pc' = [pc EXCEPT ![t] = "scan"]
  /\ UNCHANGED <<bmp, last, lock, w, bit, pcid, live, calls, frees>>

\* Faulty: the PCID is computed from the word instead of the counter.
TakeByWord(t) ==
  /\ pc[t] = "take"
  /\ bmp' = [bmp EXCEPT ![w[t]] = @ \union IntBit(bit[t])]
  /\ pcid' = [pcid EXCEPT ![t] = w[t] * 64 + bit[t]]
  /\ last' = w[t]
  /\ bit' = [bit EXCEPT ![t] = 0]
  /\ pc' = [pc EXCEPT ![t] = "unlock"]
  /\ UNCHANGED <<lock, i, w, live, calls, frees>>

\* The bit is set, and names the PCID together with the counter.  x is not used
\* again.
Take(t) ==
  /\ pc[t] = "take"
  /\ bmp' = [bmp EXCEPT ![w[t]] = @ \union IntBit(bit[t])]
  /\ pcid' = [pcid EXCEPT ![t] = i[t] * 64 + bit[t]]
  /\ last' = w[t]
  /\ bit' = [bit EXCEPT ![t] = 0]
  /\ pc' = [pc EXCEPT ![t] = "unlock"]
  /\ UNCHANGED <<lock, i, w, live, calls, frees>>

Unlock(t) ==
  /\ pc[t] \in {"unlock", "freeUnlock"}
  /\ lock' = NoThread
  /\ pc' = [pc EXCEPT ![t] = IF @ = "unlock" THEN "done" ELSE "idle"]
  /\ UNCHANGED <<bmp, last, i, w, bit, pcid, live, calls, frees>>

\* pcid_allocate returns: the caller now owns the PCID.  0 is the kernel's.
Return(t) ==
  /\ pc[t] = "done"
  /\ live' = live \union ({pcid[t]} \ {-1, 0})
  /\ pc' = [pc EXCEPT ![t] = "idle"]
  /\ UNCHANGED <<bmp, last, lock, i, w, bit, pcid, calls, frees>>

\* pcid_free(p) by an owner of p.
Free(t) ==
  /\ pc[t] = "idle"
  /\ frees < MaxFrees
  /\ frees' = frees + 1
  /\ \E p \in live :
       /\ live' = live \ {p}
       /\ pcid' = [pcid EXCEPT ![t] = p]
  /\ pc' = [pc EXCEPT ![t] = "freeLock"]
  /\ UNCHANGED <<bmp, last, lock, i, w, bit, calls>>

Clear(t) ==
  /\ pc[t] = "clear"
  /\ bmp' = [bmp EXCEPT ![FreeWord(pcid[t])] = @ \ IntBit(pcid[t] % 64)]
  /\ pc' = [pc EXCEPT ![t] = "freeUnlock"]
  /\ UNCHANGED <<last, lock, i, w, bit, pcid, live, calls, frees>>

Step(t) ==
  \/ AllocateNoBitmap(t) \/ Allocate(t)
  \/ Scan(t) \/ ScanEnd(t) \/ Lock(t) \/ Find(t) \/ FindNone(t) \/ Take(t)
  \/ Unlock(t) \/ Return(t) \/ Free(t) \/ Clear(t)

Next == InitPcid \/ \E t \in Threads : Step(t)

Spec == Init /\ [][Next]_vars

\* A thread inside the allocator keeps running: the kernel preempts threads
\* but never parks one in pcid_allocate.  Callers need not call.
Busy(t) == pc[t] # "idle" /\ Step(t)
FairSpec == Spec /\ \A t \in Threads : WF_vars(Busy(t))

-----------------------------------------------------------------------------
(* Properties *)

PcValues == {"idle", "scan", "lock", "find", "take", "unlock", "done",
             "freeLock", "clear", "freeUnlock"}

\* Every variable has the type its C counterpart has.
TypeOK ==
  /\ bmp \in [Words -> SUBSET Bits] \union {NoBitmap}
  /\ last \in {0, 2}
  /\ lock \in Threads \union {NoThread}
  /\ pc \in [Threads -> PcValues]
  /\ i \in [Threads -> 0..ScanLength]
  /\ w \in [Threads -> {0, 2}]
  /\ bit \in [Threads -> FfsBits]
  /\ pcid \in [Threads -> Pcids \union {-1}]
  /\ live \subseteq Pcids \ {0}
  /\ calls \in 0..MaxCalls
  /\ frees \in 0..MaxFrees

\* Threads that have entered pcid_free and whose bit is still set.
Dropping == {t \in Threads : pc[t] \in {"freeLock", "clear"}}
\* Threads with a PCID fresh from the bitmap that the caller has not seen yet.
Granted == {t \in Threads : pc[t] \in {"unlock", "done"} /\ pcid[t] > 0}

\* A PCID that pcid_allocate is about to return is owned by nobody: no caller
\* has it, no other call is returning it, and no pcid_free that has already
\* started will clear its bit behind the new owner's back.
FreshPcid ==
  /\ \A t \in Granted : pcid[t] \notin live
  /\ \A t, u \in Granted : t # u => pcid[t] # pcid[u]
  /\ \A t \in Granted, u \in Dropping : pcid[t] # pcid[u]

\* A bit of the searched words is never cleared under a PCID somebody owns:
\* whatever pcid_free writes, in whichever word, owners keep theirs.
OwnersKeepTheirBits ==
  [][\A p \in live \intersect live' :
       p % 64 \in bmp[HomeWord(p)] => p % 64 \in bmp'[HomeWord(p)]]_vars

\* At exhaustion the caller is told: pager_create_page_tables reports "Failed
\* to allocate PCID" on a negative result, and bit 0 is reserved in init_pcid.
ExhaustionReported ==
  \A t \in Threads : pc[t] = "done" => pcid[t] # 0

\* Every call of pcid_allocate comes back, with a PCID or with a failure.
AllocateReturns ==
  \A t \in Threads : pc[t] = "scan" ~> pc[t] = "done"
=============================================================================
