----------------------------- MODULE PcidProof -----------------------------
(***************************************************************************)
(* Proofs about the PCID allocator, for any number of threads, any garbage *)
(* in the bitmap and any number of calls.                                  *)
(*                                                                         *)
(* The argument: mod_lock is held by whoever is between spinlock_lock and  *)
(* spinlock_unlock, so bmp has one writer at a time; and every PCID that   *)
(* somebody answers for - an owner, a call about to return it, a           *)
(* pcid_free about to clear it - has its bit set in the word pcid_allocate *)
(* searches, so that Find, which picks a clear bit, cannot pick it; and    *)
(* nobody but the lock's holder sets or clears a bit before Take sets it.  *)
(***************************************************************************)
EXTENDS Pcid, TLAPS

\* mod_lock has one holder inside its sections.  (A thread for which ffs found
\* nothing holds it outside of them too: the lock is then lost, not shared.)
LockOK ==
  \A t \in Threads :
     pc[t] \in {"find", "take", "unlock", "clear", "freeUnlock"} => lock = t

\* The word a thread chose before it took the lock is the word of its counter;
\* until it takes a bit its result is the initial 0.
ScanOK ==
  \A t \in Threads :
     /\ pc[t] \in {"lock", "find", "take", "unlock"} =>
          i[t] \in {0, 1} /\ w[t] = 2 * i[t]
     /\ pc[t] \in {"scan", "lock", "find", "take"} => pcid[t] = 0

\* The bit ffs has found is clear until it is set: nobody else writes the bitmap
\* in between.
FoundOK ==
  \A t \in Threads : pc[t] = "take" => bit[t] \notin bmp[w[t]]

\* Without a bitmap there is nothing to own, and calls fail.
NoBitmapOK ==
  bmp = NoBitmap =>
    /\ live = {}
    /\ \A t \in Threads : \/ pc[t] = "idle"
                          \/ pc[t] = "done" /\ pcid[t] = -1

\* The bit pcid_allocate set for p is still set.
BitSet(p) == p % 64 \in FfsBits /\ p % 64 \in bmp[HomeWord(p)]

\* Threads between the bitmap and the caller, in one direction or the other.
Between == Granted \union Dropping

BitsOK ==
  /\ \A p \in live : BitSet(p)
  /\ \A t \in Between : pcid[t] \in Pcids /\ BitSet(pcid[t])

\* Nobody answers for a PCID twice.
OwnersOK ==
  /\ \A t \in Between : pcid[t] \notin live
  /\ \A t, u \in Between : t # u => pcid[t] # pcid[u]

PcidInv ==
  TypeOK /\ LockOK /\ ScanOK /\ FoundOK /\ NoBitmapOK /\ BitsOK /\ OwnersOK

-----------------------------------------------------------------------------
(* The arithmetic of the code's expressions. *)

LEMMA Sizes ==
  /\ ScanLength = 2
  /\ \A l \in {0, 2} : ScanWord(0, l) = 0 /\ ScanWord(1, l) = 2
  /\ MemsetBits = 0..15
BY SMT DEF ScanLength, ScanWord, MemsetBits

\* The word of a PCID, by range: what pcid_allocate computes when it hands out
\* bit x of the word at counter n.
LEMMA HomeWords ==
  \A n \in {0, 1}, x \in FfsBits :
    /\ n * 64 + x \in Pcids
    /\ (n * 64 + x) % 64 = x
    /\ HomeWord(n * 64 + x) = 2 * n
<1> SUFFICES ASSUME NEW n \in {0, 1}, NEW x \in FfsBits
             PROVE  /\ n * 64 + x \in Pcids
                    /\ (n * 64 + x) % 64 = x
                    /\ HomeWord(n * 64 + x) = 2 * n
  OBVIOUS
<1>1. CASE n = 0
  <2>1. x \div 64 = 0 /\ x % 64 = x
    BY SMT DEF FfsBits
  <2> QED BY <1>1, <2>1, Sizes, SMT DEF HomeWord, ScanWord, Pcids, FfsBits
<1>2. CASE n = 1
  <2>1. (64 + x) \div 64 = 1 /\ (64 + x) % 64 = x
    BY SMT DEF FfsBits
  <2> QED BY <1>2, <2>1, Sizes, SMT DEF HomeWord, ScanWord, Pcids, FfsBits
<1> QED BY <1>1, <1>2

\* Two PCIDs with the same word and the same bit are the same PCID.
LEMMA HomeInjective ==
  \A p, q \in Pcids :
    HomeWord(p) = HomeWord(q) /\ p % 64 = q % 64 => p = q
<1>1. \A p \in Pcids : \/ p \in 0..63 /\ HomeWord(p) = 0 /\ p % 64 = p
                       \/ p \in 64..127 /\ HomeWord(p) = 2 /\ p % 64 = p - 64
  <2> TAKE p \in Pcids
  <2>1. CASE p \in 0..63
    <3>1. p \div 64 = 0 /\ p % 64 = p
      BY <2>1, SMT
    <3> QED BY <2>1, <3>1, SMT DEF HomeWord, ScanWord
  <2>2. CASE p \in 64..127
    <3>1. p \div 64 = 1 /\ p % 64 = p - 64
      BY <2>2, SMT
    <3> QED BY <2>2, <3>1, SMT DEF HomeWord, ScanWord
  <2> QED BY <2>1, <2>2, SMT DEF Pcids
<1> QED BY <1>1, SMT

LEMMA HomeWordType == \A p \in Pcids : HomeWord(p) \in {0, 2}
<1> TAKE p \in Pcids
<1>1. (p \div 64) % 2 \in {0, 1}
  BY SMT DEF Pcids
<1> QED BY <1>1, SMT DEF HomeWord, ScanWord, Pcids

\* What 1 << x covers: x itself, and the bits ffs never sees when x is 31.
LEMMA IntBits ==
  \A x \in FfsBits :
    /\ x \in IntBit(x)
    /\ IntBit(x) \subseteq Bits
    /\ IntBit(x) \intersect FfsBits = {x}
BY SMT DEF IntBit, FfsBits, Bits

-----------------------------------------------------------------------------
(* The inductive invariant. *)

LEMMA InitInv == Init => PcidInv
BY PcidAssumption, Sizes, SMT
   DEF Init, PcidInv, TypeOK, LockOK, ScanOK, FoundOK, NoBitmapOK, BitsOK,
       OwnersOK, Between, Granted, Dropping, PcValues, Pcids, FfsBits

\* init_pcid installs the bitmap while nobody owns anything.
LEMMA InitPcidInv == PcidInv /\ InitPcid => PcidInv'
<1> SUFFICES ASSUME PcidInv, InitPcid PROVE PcidInv'
  OBVIOUS
<1>0. bmp' \in [Words -> SUBSET Bits]
  <2>1. PICK g \in Garbage :
          bmp' = [g EXCEPT ![0] = (@ \ MemsetBits) \union {0}]
    BY DEF InitPcid
  <2>2. g \in [Words -> SUBSET Bits]
    BY PcidAssumption
  <2>3. (g[0] \ MemsetBits) \union {0} \in SUBSET Bits
    BY <2>2, SMT DEF Bits, Words
  <2> QED BY <2>1, <2>2, <2>3, SMT DEF Words
<1>1. TypeOK'
  BY <1>0, SMT DEF PcidInv, TypeOK, InitPcid
<1>2. LockOK' /\ ScanOK' /\ FoundOK' /\ BitsOK' /\ OwnersOK'
  BY SMT DEF PcidInv, InitPcid, LockOK, ScanOK, FoundOK, BitsOK, OwnersOK, NoBitmapOK,
             Between, Granted, Dropping
<1>3. NoBitmapOK'
  BY <1>0, PcidAssumption DEF NoBitmapOK
<1> QED BY <1>1, <1>2, <1>3 DEF PcidInv

\* The steps that touch neither the bitmap nor the set of owners.
LEMMA QuietInv ==
  ASSUME NEW t \in Threads, PcidInv,
         \/ AllocateNoBitmap(t) \/ Allocate(t) \/ Scan(t) \/ ScanEnd(t)
         \/ Lock(t) \/ Find(t) \/ FindNone(t) \/ Unlock(t)
  PROVE  PcidInv'
<1> USE DEF PcidInv, TypeOK, LockOK, ScanOK, FoundOK, NoBitmapOK, BitsOK, OwnersOK,
            BitSet, Between, Granted, Dropping, PcValues
<1>1. CASE AllocateNoBitmap(t)
  BY <1>1, PcidAssumption, SMT DEF AllocateNoBitmap
<1>2. CASE Allocate(t)
  BY <1>2, Sizes, PcidAssumption, SMT DEF Allocate, Pcids
<1>3. CASE Scan(t)
  <2>1. i[t] \in {0, 1} /\ last \in {0, 2}
    BY <1>3, Sizes, SMT DEF Scan
  <2>2. ScanWord(i[t], last) = 2 * i[t]
    BY <2>1, Sizes, SMT
  <2> QED BY <1>3, <2>1, <2>2, Sizes, SMT DEF Scan
<1>4. CASE ScanEnd(t)
  BY <1>4, SMT DEF ScanEnd
<1>5. CASE Lock(t)
  BY <1>5, PcidAssumption, SMT DEF Lock
<1>6. CASE FindNone(t)
  BY <1>6, Sizes, SMT DEF FindNone
<1>7. CASE Unlock(t)
  BY <1>7, PcidAssumption, SMT DEF Unlock
<1>8. CASE Find(t)
  BY <1>8, SMT DEF Find
<1> QED BY <1>1, <1>2, <1>3, <1>4, <1>5, <1>6, <1>7, <1>8

\* Take sets a bit that was clear, so nobody answers for the PCID it names.
LEMMA TakeInv ==
  ASSUME NEW t \in Threads, PcidInv, Take(t)
  PROVE  PcidInv'
<1> USE DEF PcidInv
<1>1. PICK x \in FfsBits \ bmp[w[t]] :
        /\ bmp' = [bmp EXCEPT ![w[t]] = @ \union IntBit(x)]
        /\ pcid' = [pcid EXCEPT ![t] = i[t] * 64 + x]
  <2>1. bit[t] \in FfsBits \ bmp[w[t]]
    BY DEF Take, FoundOK, TypeOK
  <2> QED BY <2>1 DEF Take
<1> DEFINE p == i[t] * 64 + x
<1>2. /\ pc[t] = "take" /\ i[t] \in {0, 1} /\ w[t] = 2 * i[t] /\ w[t] \in {0, 2}
      /\ bmp # NoBitmap
      /\ bmp \in [Words -> SUBSET Bits]
  BY SMT DEF Take, TypeOK, ScanOK, NoBitmapOK
<1>3. p \in Pcids /\ p % 64 = x /\ HomeWord(p) = w[t]
  BY <1>2, HomeWords, SMT
<1>4. bmp' \in [Words -> SUBSET Bits]
  BY <1>1, <1>2, IntBits, SMT DEF Words
<1>5. \A q \in Pcids : HomeWord(q) \in Words
  BY HomeWordType, SMT DEF Words
<1>6. \A q \in Pcids : BitSet(q) => BitSet(q)'
  BY <1>1, <1>2, <1>5, SMT DEF BitSet, Words
<1>7. BitSet(p)'
  <2>1. i' = i
    BY DEF Take
  <2>2. x \in bmp'[w[t]]
    BY <1>1, <1>2, IntBits, SMT DEF Words
  <2> QED BY <1>3, <2>1, <2>2 DEF BitSet
<1>8. ~BitSet(p)
  BY <1>3, SMT DEF BitSet
<1>9. /\ pcid'[t] = p /\ pc'[t] = "unlock"
      /\ \A u \in Threads \ {t} : pcid'[u] = pcid[u] /\ pc'[u] = pc[u]
      /\ pcid' \in [Threads -> Pcids \union {-1}]
      /\ pc' \in [Threads -> PcValues]
      /\ live' = live /\ lock' = lock /\ i' = i /\ w' = w /\ last' = w[t]
  BY <1>1, <1>3, SMT DEF Take, TypeOK, PcValues
<1>10. Between' \subseteq Between \union {t} /\ t \notin Between
  BY <1>2, <1>9, SMT DEF Between, Granted, Dropping
<1>11. live \subseteq Pcids
  BY DEF TypeOK
<1>a. TypeOK'
  <2>1. bit' \in [Threads -> FfsBits]
    BY SMT DEF Take, TypeOK, FfsBits
  <2> QED BY <2>1, <1>2, <1>4, <1>9, SMT DEF TypeOK, Take
<1>b. LockOK'
  BY <1>2, <1>9, SMT DEF LockOK
<1>c. ScanOK'
  BY <1>2, <1>9, SMT DEF ScanOK
<1>d. FoundOK'
  <2>1. \A u \in Threads : pc'[u] # "take"
    BY <1>2, <1>9, PcidAssumption DEF LockOK
  <2> QED BY <2>1 DEF FoundOK
<1>e. NoBitmapOK'
  BY <1>4, PcidAssumption DEF NoBitmapOK
<1>f. BitsOK'
  <2>1. \A q \in live' : BitSet(q)'
    BY <1>6, <1>9, <1>11 DEF BitsOK
  <2>2. ASSUME NEW u \in Between' PROVE pcid'[u] \in Pcids /\ BitSet(pcid[u])'
    <3>1. CASE u = t
      BY <3>1, <1>3, <1>7, <1>9
    <3>2. CASE u # t
      <4>1. u \in Between /\ u \in Threads /\ pcid'[u] = pcid[u]
        BY <3>2, <1>9, <1>10, <2>2 DEF Between, Granted, Dropping
      <4>2. pcid[u] \in Pcids /\ BitSet(pcid[u])
        BY <4>1 DEF BitsOK
      <4> QED BY <4>1, <4>2, <1>6 DEF BitSet
    <3> QED BY <3>1, <3>2
  <2> QED BY <2>1, <2>2 DEF BitsOK
<1>g. OwnersOK'
  <2>1. p \notin live
    BY <1>8 DEF BitsOK
  <2>2. \A u \in Between : pcid[u] # p
    BY <1>8 DEF BitsOK
  <2>3. \A u \in Between : u # t /\ pcid'[u] = pcid[u]
    BY <1>9, <1>10 DEF Between, Granted, Dropping
  <2> QED BY <1>9, <1>10, <2>1, <2>2, <2>3 DEF OwnersOK
<1> QED BY <1>a, <1>b, <1>c, <1>d, <1>e, <1>f, <1>g

\* The caller becomes the owner of what it was handed.
LEMMA ReturnInv ==
  ASSUME NEW t \in Threads, PcidInv, Return(t)
  PROVE  PcidInv'
<1> USE DEF PcidInv
<1>1. /\ pc'[t] = "idle" /\ pc[t] = "done"
      /\ \A u \in Threads \ {t} : pc'[u] = pc[u]
      /\ pc' \in [Threads -> PcValues]
      /\ live' = live \union ({pcid[t]} \ {-1, 0})
      /\ pcid[t] \in Pcids \union {-1}
      /\ UNCHANGED <<bmp, last, lock, i, w, bit, pcid, calls, frees>>
  BY SMT DEF Return, TypeOK, PcValues
<1>2. Between' = Between \ {t}
  BY <1>1, SMT DEF Between, Granted, Dropping
<1>3. pcid[t] \notin {-1, 0} => t \in Between
  BY <1>1, SMT DEF Between, Granted, Pcids
<1>a. TypeOK' /\ LockOK' /\ ScanOK' /\ FoundOK'
  BY <1>1, SMT DEF TypeOK, LockOK, ScanOK, FoundOK
<1>b. NoBitmapOK'
  BY <1>1, SMT DEF NoBitmapOK
<1>c. BitsOK'
  BY <1>1, <1>2, <1>3 DEF BitsOK, BitSet
<1>d. OwnersOK'
  <2>1. \A u \in Between' : pcid'[u] \notin live'
    BY <1>1, <1>2, <1>3 DEF OwnersOK
  <2> QED BY <1>1, <1>2, <2>1 DEF OwnersOK
<1> QED BY <1>a, <1>b, <1>c, <1>d

\* An owner enters pcid_free: the PCID changes hands, its bit stays set.
LEMMA FreeInv ==
  ASSUME NEW t \in Threads, PcidInv, Free(t)
  PROVE  PcidInv'
<1> USE DEF PcidInv
<1>1. PICK p \in live : /\ live' = live \ {p}
                        /\ pcid' = [pcid EXCEPT ![t] = p]
  BY DEF Free
<1>2. /\ pc[t] = "idle" /\ pc'[t] = "freeLock" /\ pcid'[t] = p
      /\ \A u \in Threads \ {t} : pc'[u] = pc[u] /\ pcid'[u] = pcid[u]
      /\ p \in Pcids
      /\ UNCHANGED <<bmp, last, lock, i, w, bit, calls>>
  BY <1>1, SMT DEF Free, TypeOK, PcValues
<1>3. Between' = Between \union {t} /\ t \notin Between
  BY <1>2, SMT DEF Between, Granted, Dropping
<1>a. TypeOK'
  BY <1>1, PcidAssumption, SMT DEF Free, TypeOK, PcValues
<1>b. LockOK' /\ ScanOK' /\ FoundOK'
  BY <1>2, SMT DEF LockOK, ScanOK, FoundOK
<1>c. NoBitmapOK'
  BY <1>1, <1>2 DEF NoBitmapOK
<1>d. \A u \in Between : u # t /\ pcid'[u] = pcid[u] /\ pcid[u] # p
  BY <1>1, <1>2, <1>3 DEF OwnersOK, Between, Granted, Dropping
<1>e. BitsOK'
  BY <1>1, <1>2, <1>3, <1>d DEF BitsOK, BitSet
<1>f. OwnersOK'
  BY <1>1, <1>2, <1>3, <1>d DEF OwnersOK
<1> QED BY <1>a, <1>b, <1>c, <1>e, <1>f

\* pcid_free's write leaves the bit of every other PCID alone: it is the bit of
\* nobody else in the word of its own, and word 1 is not searched at all.
LEMMA ClearBits ==
  ASSUME NEW t \in Threads, PcidInv, Clear(t),
         NEW q \in Pcids, BitSet(q), q # pcid[t]
  PROVE  BitSet(q)'
<1> USE DEF PcidInv
<1>1. /\ pcid[t] \in Pcids /\ BitSet(pcid[t])
      /\ bmp # NoBitmap /\ bmp \in [Words -> SUBSET Bits]
      /\ bmp' = [bmp EXCEPT ![FreeWord(pcid[t])] = @ \ IntBit(pcid[t] % 64)]
  <2>1. t \in Between
    BY SMT DEF Clear, Between, Dropping
  <2> QED BY <2>1, SMT DEF Clear, BitsOK, NoBitmapOK, TypeOK
<1>2. /\ q % 64 \in FfsBits /\ pcid[t] % 64 \in FfsBits
      /\ HomeWord(q) \in {0, 2}
  BY <1>1, HomeWordType DEF BitSet
<1>3. CASE q % 64 # pcid[t] % 64
  <2>1. q % 64 \notin IntBit(pcid[t] % 64)
    BY <1>2, <1>3, IntBits
  <2> QED BY <1>1, <1>2, <2>1, SMT DEF BitSet, Words
<1>4. CASE q % 64 = pcid[t] % 64
  <2>1. HomeWord(q) # HomeWord(pcid[t])
    BY <1>1, <1>4, HomeInjective
  <2>2. FreeWord(pcid[t]) # HomeWord(q)
    <3>1. \A r \in Pcids : \/ FreeWord(r) = 0 /\ HomeWord(r) = 0
                           \/ FreeWord(r) = 1 /\ HomeWord(r) = 2
      <4> TAKE r \in Pcids
      <4>1. CASE r \in 0..63
        <5>1. r \div 64 = 0
          BY <4>1, SMT
        <5> QED BY <5>1, SMT DEF HomeWord, FreeWord, ScanWord
      <4>2. CASE r \in 64..127
        <5>1. r \div 64 = 1
          BY <4>2, SMT
        <5> QED BY <5>1, SMT DEF HomeWord, FreeWord, ScanWord
      <4> QED BY <4>1, <4>2, SMT DEF Pcids
    <3> QED BY <1>1, <1>2, <2>1, <3>1, SMT
  <2> QED BY <1>1, <1>2, <2>2, SMT DEF BitSet, Words
<1> QED BY <1>3, <1>4

LEMMA ClearInv ==
  ASSUME NEW t \in Threads, PcidInv, Clear(t)
  PROVE  PcidInv'
<1> USE DEF PcidInv
<1>1. /\ pc[t] = "clear" /\ pc'[t] = "freeUnlock"
      /\ \A u \in Threads \ {t} : pc'[u] = pc[u]
      /\ pc' \in [Threads -> PcValues]
      /\ UNCHANGED <<last, lock, i, w, bit, pcid, live, calls, frees>>
  BY SMT DEF Clear, TypeOK, PcValues
<1>2. t \in Between /\ Between' = Between \ {t}
  BY <1>1, SMT DEF Between, Granted, Dropping
<1>3. bmp' \in [Words -> SUBSET Bits]
  <2>1. bmp \in [Words -> SUBSET Bits]
    BY <1>1, SMT DEF NoBitmapOK, TypeOK
  <2> DEFINE f == FreeWord(pcid[t])
             b == IntBit(pcid[t] % 64)
  <2>2. bmp' = [bmp EXCEPT ![f] = @ \ b]
    BY DEF Clear
  <2>3. \A n \in Words : bmp[n] \ b \in SUBSET Bits
    BY <2>1
  <2> HIDE DEF f, b
  <2> QED BY <2>1, <2>2, <2>3
<1>a. TypeOK'
  BY <1>1, <1>3, SMT DEF TypeOK
<1>b. LockOK' /\ ScanOK'
  BY <1>1, SMT DEF LockOK, ScanOK
<1>c. FoundOK'
  <2>1. \A u \in Threads : pc'[u] # "take"
    BY <1>1 DEF LockOK
  <2> QED BY <2>1 DEF FoundOK
<1>d. NoBitmapOK'
  BY <1>3, PcidAssumption DEF NoBitmapOK
<1>e. BitsOK'
  <2>1. \A q \in live : BitSet(q)'
    BY <1>2, ClearBits DEF BitsOK, OwnersOK, TypeOK
  <2>2. \A u \in Between' : pcid'[u] \in Pcids /\ BitSet(pcid[u])'
    BY <1>1, <1>2, ClearBits DEF BitsOK, OwnersOK
  <2> QED BY <1>1, <2>1, <2>2 DEF BitsOK, BitSet
<1>f. OwnersOK'
  BY <1>1, <1>2 DEF OwnersOK
<1> QED BY <1>a, <1>b, <1>c, <1>d, <1>e, <1>f

-----------------------------------------------------------------------------
(* The theorems. *)

LEMMA NextInv == PcidInv /\ [Next]_vars => PcidInv'
<1> SUFFICES ASSUME PcidInv, [Next]_vars PROVE PcidInv'
  OBVIOUS
<1>1. CASE InitPcid
  BY <1>1, InitPcidInv
<1>2. ASSUME NEW t \in Threads, Step(t) PROVE PcidInv'
  <2>1. \/ AllocateNoBitmap(t) \/ Allocate(t) \/ Scan(t) \/ ScanEnd(t)
        \/ Lock(t) \/ Find(t) \/ FindNone(t) \/ Unlock(t)
        \/ Take(t) \/ Return(t) \/ Free(t) \/ Clear(t)
    BY <1>2 DEF Step
  <2> QED BY <2>1, QuietInv, TakeInv, ReturnInv, FreeInv, ClearInv
<1>3. CASE UNCHANGED vars
  BY <1>3 DEF vars, PcidInv, TypeOK, LockOK, ScanOK, FoundOK, NoBitmapOK, BitsOK,
              OwnersOK, BitSet, Between, Granted, Dropping
<1> QED BY <1>1, <1>2, <1>3 DEF Next

THEOREM Invariance == Spec => []PcidInv
BY InitInv, NextInv, PTL DEF Spec

\* Type correctness of pcid.c's state: in particular every result of
\* pcid_allocate is -1 or a PCID of the two words it can reach.
THEOREM TypeCorrect == Spec => []TypeOK
BY Invariance, PTL DEF PcidInv

\* pcid_allocate hands a PCID to one caller at a time, whatever the threads do
\* and whatever alloc() left in the bitmap: no thread is given the address-space
\* tag of another.
THEOREM PcidsAreFresh == Spec => []FreshPcid
<1>1. PcidInv => FreshPcid
  <2>1. Granted \intersect Dropping = {}
    BY SMT DEF Granted, Dropping
  <2> QED BY <2>1 DEF PcidInv, OwnersOK, FreshPcid, Between
<1> QED BY <1>1, Invariance, PTL

\* No pcid_free and no other write to the bitmap clears the bit of a PCID that
\* somebody goes on owning.
THEOREM OwnedBitsStaySet == Spec => OwnersKeepTheirBits
<1> DEFINE Kept == \A p \in live \intersect live' :
              p % 64 \in bmp[HomeWord(p)] => p % 64 \in bmp'[HomeWord(p)]
<1>1. PcidInv /\ PcidInv' /\ [Next]_vars => [Kept]_vars
  <2> SUFFICES ASSUME PcidInv, PcidInv', NEW p \in live \intersect live'
               PROVE  p % 64 \in bmp'[HomeWord(p)]
    OBVIOUS
  <2>1. BitSet(p)'
    BY DEF PcidInv, BitsOK
  <2> QED BY <2>1 DEF BitSet
<1> QED BY <1>1, Invariance, PTL DEF Spec, OwnersKeepTheirBits
=============================================================================
