------------------------------ MODULE PagerProof ------------------------------
(***************************************************************************)
(* Proofs about the pager, for page tables of any size, any number of      *)
(* frames, address spaces and threads, and any requests.                   *)
(***************************************************************************)
EXTENDS Pager, TLAPS

Calling == {"callback", "clear"}
Walking == {"look", "make", "down"} \union Calling

\* A walk is at or above the level at which it will call the callback.
JobOK(j) ==
  /\ root[j.req.space] # NoFrame
  /\ j.req.op = "clone" => root[j.req.src] # NoFrame
  /\ j.pc \in Walking => j.left > 0 /\ Target(j) <= j.level
  /\ j.pc \in {"make", "down"} => Target(j) < j.level
  /\ j.pc \in Calling => Target(j) = j.level
  /\ j.pc = "clear" => j.req.op = "flyUnmap"
JobsOK == \A t \in Threads : job[t] # NoJob => JobOK(job[t])

TypeInv == TypeOK /\ JobsOK

-----------------------------------------------------------------------------
(* The sets *)

LEMMA SpanFacts ==
  /\ Fanout \in Nat /\ Fanout > 1
  /\ Span[1] = 1 /\ Span[2] = Fanout /\ Span[3] = Fanout * Fanout
  /\ Span[4] = Fanout * Fanout * Fanout
  /\ \A l \in Levels : Span[l] \in Nat /\ Span[l] > 0
<1>1. Fanout \in Nat /\ Fanout > 1
  BY PagerAssumption, SMT
<1>2. /\ Span[1] = 1 /\ Span[2] = Fanout /\ Span[3] = Fanout * Fanout
      /\ Span[4] = Fanout * Fanout * Fanout
  BY DEF Span
<1>3. \A a, b \in Nat : a > 0 /\ b > 0 => a * b \in Nat /\ a * b > 0
  BY SMT
<1>4. Fanout * Fanout \in Nat /\ Fanout * Fanout > 0
  BY <1>1, <1>3
<1>5. Fanout * Fanout * Fanout \in Nat /\ Fanout * Fanout * Fanout > 0
  BY <1>1, <1>3, <1>4
<1> QED BY <1>1, <1>2, <1>4, <1>5 DEF Levels

LEMMA CallbackFacts ==
  ASSUME NEW r, NEW n \in Nat, n > 0
  PROVE  CallbackLevel(r, n) \in 1..3 /\ Span[CallbackLevel(r, n)] <= n
BY SpanFacts DEF CallbackLevel, Levels

LEMMA IndexFacts ==
  ASSUME NEW l \in Levels, NEW v \in Nat
  PROVE  Index(l, v) \in Slots
<1>1. v \div Span[l] \in Nat
  BY SpanFacts, SMT
<1>2. \A a, b \in Nat : b > 0 => a % b \in 0..(b - 1)
  BY SMT
<1> QED BY <1>1, <1>2, SpanFacts DEF Index, Slots

LEMMA EntryFacts ==
  ASSUME NEW l \in Levels, NEW c \in Levels, NEW r \in Request, NEW addr \in Int
  PROVE  At(addr, GetEntryBits(l, c, r)) \in Entry
<1>1. Granted(r) \subseteq Rights
  BY DEF Granted, Asked, Request, Rights
<1>2. GetEntryBits(l, c, r) \in Entry
  BY <1>1 DEF GetEntryBits, Rights, Entry
<1> QED BY <1>2 DEF At, Entry

LEMMA Zeroes == Zero \in Entry /\ Wild \in Entry /\ [n \in Slots |-> Zero] \in [Slots -> Entry]
BY DEF Zero, Wild, Entry

LEMMA JobTypes ==
  ASSUME NEW j \in Job
  PROVE  /\ j.req \in Requests /\ j.req \in Request /\ j.v \in Nat /\ j.phys \in Int
         /\ j.left \in Nat /\ j.level \in Levels /\ j.table \in Frames
         /\ j.index \in [Levels -> Slots]
         /\ j.req.space \in Spaces /\ j.req.src \in Spaces /\ j.req.low \subseteq Rights
<1>1. /\ j.req \in Requests /\ j.v \in Nat /\ j.phys \in Int
      /\ j.left \in Nat /\ j.level \in Levels /\ j.table \in Frames
      /\ j.index \in [Levels -> Slots]
  BY DEF Job
<1>2. j.req \in Request
  BY <1>1, PagerAssumption
<1> QED BY <1>1, <1>2 DEF Request

-----------------------------------------------------------------------------
(* The types *)

LEMMA TypeInit == Init => TypeInv
<1> SUFFICES ASSUME Init PROVE TypeInv
  OBVIOUS
<1>1. mem \in [Frames -> [Slots -> Entry]]
  BY Zeroes DEF Init
<1> QED BY <1>1, PagerAssumption DEF Init, TypeInv, TypeOK, JobsOK

\* A step of one request, in its own job.
LEMMA StepTypes ==
  ASSUME TypeInv, NEW t \in Threads, UNCHANGED <<root, pcid>>,
         mem' \in [Frames -> [Slots -> Entry]], free' \subseteq Frames,
         NEW k \in Job \union {NoJob}, job' = [job EXCEPT ![t] = k], k # NoJob => JobOK(k)
  PROVE  TypeInv'
<1>1. job \in [Threads -> Job \union {NoJob}]
  BY DEF TypeInv, TypeOK
<1>2. job' \in [Threads -> Job \union {NoJob}] /\ job'[t] = k
      /\ \A u \in Threads \ {t} : job'[u] = job[u]
  BY <1>1
<1>3. ASSUME NEW u \in Threads, job'[u] # NoJob PROVE JobOK(job[u])'
  <2>1. JobOK(job'[u])
    BY <1>2, <1>3 DEF TypeInv, JobsOK
  <2> QED BY <2>1 DEF JobOK, Target
<1> QED BY <1>2, <1>3 DEF TypeInv, TypeOK, JobsOK

LEMMA CreateTypes ==
  ASSUME TypeInv, NEW s \in Spaces, CreatePageTables(s)
  PROVE  TypeInv'
<1>1. PICK n \in PcidResults, f \in PmmOffers(free) :
        /\ free' = free \ {f}
        /\ mem' = [mem EXCEPT ![f] = [x \in Slots |-> Zero]]
        /\ root' = [root EXCEPT ![s] = f]
        /\ pcid' = [pcid EXCEPT ![s] = n]
        /\ root[s] = NoFrame /\ job' = job
  BY DEF CreatePageTables
<1>2. f \in Frames /\ n \in Int
  BY PagerAssumption, PmmAssumption DEF TypeInv, TypeOK
<1>3. TypeOK'
  BY <1>1, <1>2, Zeroes DEF TypeInv, TypeOK
<1>4. \A q \in Spaces : root[q] # NoFrame => root'[q] = root[q]
  BY <1>1 DEF TypeInv, TypeOK
<1>5. ASSUME NEW t \in Threads, job[t] # NoJob PROVE JobOK(job[t])'
  <2>1. job[t].req.space \in Spaces /\ job[t].req.src \in Spaces
    BY <1>5, JobTypes DEF TypeInv, TypeOK
  <2> QED BY <1>1, <1>4, <1>5, <2>1 DEF TypeInv, JobsOK, JobOK, Target
<1> QED BY <1>1, <1>3, <1>5 DEF TypeInv, JobsOK

LEMMA CallTypes ==
  ASSUME TypeInv, NEW t \in Threads, Call(t)
  PROVE  TypeInv'
<1>1. PICK r \in Requests :
       /\ root[r.space] # NoFrame
       /\ r.op = "clone" => root[r.src] # NoFrame
       /\ job' = [job EXCEPT ![t] =
            [req |-> r, v |-> r.v, phys |-> IF r.op = "map" THEN r.phys ELSE 0,
             left |-> r.size, pc |-> IF r.size = 0 THEN "done" ELSE "look", level |-> 4,
             table |-> root[r.space], index |-> [l \in Levels |-> 0]]]
  BY DEF Call
<1> DEFINE k == [req |-> r, v |-> r.v, phys |-> IF r.op = "map" THEN r.phys ELSE 0,
                 left |-> r.size, pc |-> IF r.size = 0 THEN "done" ELSE "look", level |-> 4,
                 table |-> root[r.space], index |-> [l \in Levels |-> 0]]
<1>2. r.space \in Spaces /\ r.v \in Nat /\ r.phys \in Nat /\ r.size \in Nat
  BY PagerAssumption, SMT DEF Request, Pages
<1>3. root[r.space] \in Frames
  BY <1>1, <1>2 DEF TypeInv, TypeOK
<1>4. [l \in Levels |-> 0] \in [Levels -> Slots]
  BY SpanFacts DEF Slots
<1>5. k \in Job
  BY <1>2, <1>3, <1>4 DEF Job, Levels
<1>6. JobOK(k)
  <2>1. r.size > 0 => CallbackLevel(r, r.size) \in 1..3
    BY <1>2, CallbackFacts
  <2>2. /\ k.req = r /\ k.left = r.size /\ k.level = 4
        /\ k.pc = IF r.size = 0 THEN "done" ELSE "look"
    OBVIOUS
  <2> HIDE DEF k
  <2> QED BY <1>1, <1>2, <2>1, <2>2, SMT DEF JobOK, Target, Walking, Calling
<1>7. UNCHANGED <<mem, free, root, pcid>> /\ job' = [job EXCEPT ![t] = k]
  BY <1>1 DEF Call
<1> HIDE DEF k
<1> QED BY <1>5, <1>6, <1>7, StepTypes DEF TypeInv, TypeOK

Pcs == {"look", "make", "down", "callback", "clear", "done", "failed", "wild"}

\* The job of a step in which the walk gets elsewhere, or the request further.
JobAt(j, pc, level, table, index) ==
  [req |-> j.req, v |-> j.v, phys |-> j.phys, left |-> j.left,
   pc |-> pc, level |-> level, table |-> table, index |-> index]

LEMMA JobMoves ==
  ASSUME NEW j \in Job, NEW pc \in Pcs, NEW level \in Levels, NEW table \in Frames,
         NEW index \in [Levels -> Slots]
  PROVE  JobAt(j, pc, level, table, index) \in Job
<1>1. j.req \in Requests /\ j.v \in Nat /\ j.phys \in Int /\ j.left \in Nat
  BY JobTypes
<1> QED BY <1>1 DEF Job, Pcs, JobAt

\* A step that only moves the walk.
LEMMA MoveTypes ==
  ASSUME TypeInv, NEW t \in Threads, UNCHANGED <<root, pcid>>, job[t] # NoJob,
         mem' \in [Frames -> [Slots -> Entry]], free' \subseteq Frames,
         NEW pc \in Pcs, NEW level \in Levels, NEW table \in Frames,
         NEW index \in [Levels -> Slots],
         job' = [job EXCEPT ![t] = JobAt(job[t], pc, level, table, index)],
         pc \in Walking => job[t].left > 0 /\ Target(job[t]) <= level,
         pc \in {"make", "down"} => Target(job[t]) < level,
         pc \in Calling => Target(job[t]) = level,
         pc = "clear" => job[t].req.op = "flyUnmap"
  PROVE  TypeInv'
<1> DEFINE k == JobAt(job[t], pc, level, table, index)
<1>1. job[t] \in Job /\ JobOK(job[t])
  BY DEF TypeInv, TypeOK, JobsOK
<1>2. k \in Job
  BY <1>1, JobMoves
<1>3. /\ k.req = job[t].req /\ k.left = job[t].left
      /\ k.pc = pc /\ k.level = level
  BY DEF JobAt
<1> HIDE DEF k
<1>4. Target(k) = Target(job[t])
  BY <1>3 DEF Target
<1>5. JobOK(k)
  BY <1>1, <1>3, <1>4 DEF JobOK
<1> QED BY <1>2, <1>5, StepTypes DEF k

LEMMA LookMove ==
  ASSUME NEW j \in Job, NEW n, NEW pc, NEW k,
         k = [j EXCEPT !.index[j.level] = n, !.pc = pc]
  PROVE  k = JobAt(j, pc, j.level, j.table, [j.index EXCEPT ![j.level] = n])
BY DEF Job, JobAt

LEMMA PcMove ==
  ASSUME NEW j \in Job, NEW pc, NEW k, k = [j EXCEPT !.pc = pc]
  PROVE  k = JobAt(j, pc, j.level, j.table, j.index)
BY DEF Job, JobAt

LEMMA DownMove ==
  ASSUME NEW j \in Job, NEW pc, NEW table, NEW level, NEW k,
         k = [j EXCEPT !.pc = pc, !.level = level, !.table = table]
  PROVE  k = JobAt(j, pc, level, table, j.index)
BY DEF Job, JobAt

LEMMA LookTypes ==
  ASSUME TypeInv, NEW t \in Threads, Look(t)
  PROVE  TypeInv'
<1> DEFINE j == job[t]
<1> DEFINE n == Index(j.level, j.v)
<1> DEFINE pc == IF j.level = Target(j) THEN "callback"
                 ELSE IF mem[j.table][n].present THEN "down" ELSE "make"
<1> DEFINE index == [j.index EXCEPT ![j.level] = n]
<1>1. j \in Job /\ j.pc = "look" /\ j # NoJob
      /\ UNCHANGED <<mem, free, root, pcid>> /\ JobOK(j)
  BY DEF Look, TypeInv, TypeOK, JobsOK
<1>2. job' = [job EXCEPT ![t] = JobAt(j, pc, j.level, j.table, index)]
  <2>1. job' = [job EXCEPT ![t] = [j EXCEPT !.index[j.level] = n, !.pc = pc]]
    BY DEF Look
  <2> HIDE DEF pc, n
  <2>2. [j EXCEPT !.index[j.level] = n, !.pc = pc] = JobAt(j, pc, j.level, j.table, index)
    BY <1>1, LookMove
  <2> QED BY <2>1, <2>2
<1>3. n \in Slots /\ pc \in {"callback", "down", "make"}
  BY <1>1, JobTypes, IndexFacts
<1>4. index \in [Levels -> Slots]
  BY <1>1, <1>3, JobTypes
<1>5. /\ pc # "callback" => j.level # Target(j)
      /\ pc = "callback" => j.level = Target(j)
  OBVIOUS
<1> HIDE DEF pc, index
<1>6. pc \in Pcs /\ j.level \in Levels /\ j.table \in Frames
  BY <1>1, <1>3, JobTypes DEF Pcs
<1>7. j.left > 0 /\ Target(j) <= j.level /\ j.level \in Nat
  BY <1>1, <1>6 DEF JobOK, Walking, Levels
<1>8. Target(j) \in Nat
  BY <1>1, <1>7, JobTypes, CallbackFacts DEF Target
<1>9. pc \in {"make", "down"} => Target(j) < j.level
  BY <1>5, <1>7, <1>8, SMT
<1>10. pc \in Calling => Target(j) = j.level
  BY <1>3, <1>5 DEF Calling
<1>11. pc # "clear"
  BY <1>3
<1> QED BY <1>1, <1>2, <1>4, <1>6, <1>7, <1>10, <1>11, <1>9, MoveTypes DEF TypeInv, TypeOK

\* An entry that is written.
LEMMA MemWrites ==
  ASSUME NEW m \in [Frames -> [Slots -> Entry]], NEW f \in Frames, NEW n \in Slots,
         NEW e \in Entry
  PROVE  [m EXCEPT ![f][n] = e] \in [Frames -> [Slots -> Entry]]
<1>1. [m[f] EXCEPT ![n] = e] \in [Slots -> Entry]
  OBVIOUS
<1> QED BY <1>1

LEMMA MakeTableTypes ==
  ASSUME TypeInv, NEW t \in Threads, MakeTable(t)
  PROVE  TypeInv'
<1> DEFINE j == job[t]
<1>1. j \in Job /\ j.pc = "make" /\ j # NoJob /\ JobOK(j)
      /\ UNCHANGED <<root, pcid>> /\ job' = [job EXCEPT ![t].pc = "down"]
  BY DEF MakeTable, TypeInv, TypeOK, JobsOK
<1>2. PICK f \in PmmOffers(free) :
        /\ free' = free \ {f}
        /\ mem' = [mem EXCEPT
             ![f] = [x \in Slots |-> Zero],
             ![j.table][j.index[j.level]] = At(f, GetEntryBits(j.level, Target(j), j.req))]
  BY DEF MakeTable
<1>3. f \in Frames /\ f \in Int
  <2>1. f \in Frames
    BY PmmAssumption DEF TypeInv, TypeOK
  <2> QED BY <2>1, PagerAssumption
<1>4. j.left > 0 /\ Target(j) < j.level
  BY <1>1 DEF JobOK, Walking
<1>5. Target(j) \in Levels /\ j.level \in Levels /\ j.table \in Frames
      /\ j.index \in [Levels -> Slots] /\ j.req \in Request
  <2>1. CallbackLevel(j.req, j.left) \in 1..3
    BY <1>1, <1>4, JobTypes, CallbackFacts
  <2> QED BY <1>1, <2>1, JobTypes DEF Target, Levels
<1>6. At(f, GetEntryBits(j.level, Target(j), j.req)) \in Entry
  BY <1>3, <1>5, EntryFacts
<1>7. mem' \in [Frames -> [Slots -> Entry]]
  <2>1. [mem EXCEPT ![f] = [x \in Slots |-> Zero]] \in [Frames -> [Slots -> Entry]]
    BY <1>3, Zeroes DEF TypeInv, TypeOK
  <2> HIDE DEF j
  <2>2. j.index[j.level] \in Slots
    BY <1>5
  <2> QED BY <1>2, <1>5, <1>6, <2>1, <2>2, MemWrites
<1>8. job' = [job EXCEPT ![t] = JobAt(j, "down", j.level, j.table, j.index)]
  <2>1. job' = [job EXCEPT ![t] = [j EXCEPT !.pc = "down"]]
    BY <1>1
  <2>2. [j EXCEPT !.pc = "down"] = JobAt(j, "down", j.level, j.table, j.index)
    BY <1>1, PcMove
  <2> QED BY <2>1, <2>2
<1>9. Target(j) <= j.level
  BY <1>4, <1>5, SMT DEF Levels
<1>10. "down" \in Pcs \ Calling /\ free' \subseteq Frames
  BY <1>2 DEF Pcs, Calling, TypeInv, TypeOK
<1>11. job[t] # NoJob /\ UNCHANGED <<root, pcid>>
  BY <1>1
<1> QED BY <1>4, <1>5, <1>7, <1>8, <1>9, <1>10, <1>11, MoveTypes DEF Calling

LEMMA DownTypes ==
  ASSUME TypeInv, NEW t \in Threads, Down(t)
  PROVE  TypeInv'
<1> DEFINE j == job[t]
<1> DEFINE e == Current(job[t])
<1>1. j \in Job /\ j.pc = "down" /\ j # NoJob /\ JobOK(j)
      /\ UNCHANGED <<mem, free, root, pcid>>
      /\ job' = IF IsTable(e) /\ e.addr \in Frames
                  THEN [job EXCEPT ![t].pc = "look", ![t].level = @ - 1, ![t].table = e.addr]
                  ELSE [job EXCEPT ![t].pc = "wild"]
  BY DEF Down, TypeInv, TypeOK, JobsOK
<1>2. j.left > 0 /\ Target(j) < j.level
  BY <1>1 DEF JobOK, Walking
<1>3. Target(j) \in 1..3 /\ j.level \in Levels /\ j.table \in Frames
      /\ j.index \in [Levels -> Slots]
  <2>1. CallbackLevel(j.req, j.left) \in 1..3
    BY <1>1, <1>2, JobTypes, CallbackFacts
  <2> QED BY <1>1, <2>1, JobTypes DEF Target
<1>0. job[t] # NoJob /\ UNCHANGED <<root, pcid>>
  BY <1>1
<1>4. CASE IsTable(e) /\ e.addr \in Frames
  <2>1. job' = [job EXCEPT ![t] = [j EXCEPT !.pc = "look", !.level = @ - 1, !.table = e.addr]]
    BY <1>1, <1>4
  <2> HIDE DEF e
  <2>2. [j EXCEPT !.pc = "look", !.level = @ - 1, !.table = e.addr]
          = JobAt(j, "look", j.level - 1, e.addr, j.index)
    BY <1>1, DownMove
  <2>3. j.level - 1 \in Levels /\ Target(j) <= j.level - 1
    BY <1>2, <1>3, SMT DEF Levels
  <2>4. "look" \in Pcs \ ({"make", "down"} \union Calling) /\ free' \subseteq Frames
        /\ mem' \in [Frames -> [Slots -> Entry]]
    BY <1>1 DEF Pcs, Calling, TypeInv, TypeOK
  <2> QED BY <1>0, <1>2, <1>3, <1>4, <2>1, <2>2, <2>3, <2>4, MoveTypes DEF Calling
<1>5. CASE ~(IsTable(e) /\ e.addr \in Frames)
  <2>1. job' = [job EXCEPT ![t] = [j EXCEPT !.pc = "wild"]]
    BY <1>1, <1>5
  <2>2. [j EXCEPT !.pc = "wild"] = JobAt(j, "wild", j.level, j.table, j.index)
    BY <1>1, PcMove
  <2>3. "wild" \in Pcs \ Walking /\ free' \subseteq Frames /\ mem' \in [Frames -> [Slots -> Entry]]
    BY <1>1 DEF Pcs, TypeInv, TypeOK, Walking, Calling
  <2> QED BY <1>0, <1>3, <2>1, <2>2, <2>3, MoveTypes DEF Walking, Calling
<1> QED BY <1>4, <1>5

LEMMA FailTypes ==
  ASSUME TypeInv, NEW t \in Threads, job[t] # NoJob, Fail(t)
  PROVE  TypeInv'
<1> DEFINE j == job[t]
<1>1. j \in Job /\ j # NoJob /\ UNCHANGED <<mem, free, root, pcid>>
      /\ job' = [job EXCEPT ![t] = [j EXCEPT !.pc = "failed"]]
  BY DEF Fail, TypeInv, TypeOK
<1>2. [j EXCEPT !.pc = "failed"] = JobAt(j, "failed", j.level, j.table, j.index)
  BY <1>1, PcMove
<1>3. j.level \in Levels /\ j.table \in Frames /\ j.index \in [Levels -> Slots]
  BY <1>1, JobTypes
<1>4. "failed" \in Pcs \ Walking /\ free' \subseteq Frames /\ mem' \in [Frames -> [Slots -> Entry]]
  BY <1>1 DEF Pcs, TypeInv, TypeOK, Walking, Calling
<1> QED BY <1>1, <1>2, <1>3, <1>4, MoveTypes DEF Walking, Calling

LEMMA ReturnTypes ==
  ASSUME TypeInv, NEW t \in Threads, Return(t)
  PROVE  TypeInv'
<1>1. UNCHANGED <<mem, free, root, pcid>> /\ job' = [job EXCEPT ![t] = NoJob]
  BY DEF Return
<1> QED BY <1>1, StepTypes DEF TypeInv, TypeOK

-----------------------------------------------------------------------------
(* The callbacks *)

\* What holds when a callback is called, and the job it leaves behind.
LEMMA InCallbackFacts ==
  ASSUME TypeInv, NEW t \in Threads, job[t] # NoJob, job[t].pc \in Calling
  PROVE  /\ job[t] \in Job /\ JobOK(job[t])
         /\ job[t].req \in Request /\ job[t].phys \in Int
         /\ job[t].level \in Levels /\ job[t].level = Target(job[t])
         /\ Target(job[t]) \in 1..3 /\ Target(job[t]) \in Levels
         /\ Span[Target(job[t])] \in Nat /\ Span[Target(job[t])] <= job[t].left
         /\ job[t].table \in Frames /\ job[t].index[job[t].level] \in Slots
         /\ root[job[t].req.space] \in Frames
         /\ Current(job[t]) \in Entry
<1> DEFINE j == job[t]
<1>1. j \in Job /\ JobOK(j)
  BY DEF TypeInv, TypeOK, JobsOK
<1>2. j.left > 0 /\ Target(j) = j.level /\ root[j.req.space] # NoFrame
  BY <1>1 DEF JobOK, Walking
<1>3. /\ j.req \in Request /\ j.phys \in Int /\ j.level \in Levels /\ j.table \in Frames
      /\ j.index \in [Levels -> Slots] /\ j.req.space \in Spaces /\ j.left \in Nat
  BY <1>1, JobTypes
<1>4. Target(j) \in 1..3 /\ Span[Target(j)] <= j.left
  BY <1>2, <1>3, CallbackFacts DEF Target
<1>5. Target(j) \in Levels /\ Span[Target(j)] \in Nat
  BY <1>4, SpanFacts DEF Levels
<1>6. root[j.req.space] \in Frames
  BY <1>2, <1>3 DEF TypeInv, TypeOK
<1>7. Current(j) \in Entry
  BY <1>3 DEF Current, TypeInv, TypeOK
<1> QED BY <1>1, <1>2, <1>3, <1>4, <1>5, <1>6, <1>7

LEMMA AdvanceTypes ==
  ASSUME TypeInv, NEW t \in Threads, job[t] # NoJob, job[t].pc \in Calling,
         UNCHANGED <<root, pcid>>, NEW phys \in Int, Advance(t, phys),
         mem' \in [Frames -> [Slots -> Entry]], free' \subseteq Frames
  PROVE  TypeInv'
<1> DEFINE j == job[t]
<1> DEFINE n == Span[Target(j)]
<1> DEFINE pc == IF j.left = n THEN "done" ELSE "look"
<1> DEFINE k == [req |-> j.req, v |-> j.v + n, phys |-> phys + n, left |-> j.left - n,
                 pc |-> pc, level |-> 4, table |-> root[j.req.space], index |-> j.index]
<1>1. j \in Job /\ JobOK(j) /\ n \in Nat /\ n <= j.left /\ root[j.req.space] \in Frames
  BY InCallbackFacts
<1>2. job' = [job EXCEPT ![t] = k]
  <2>3. PICK kk : kk = [j EXCEPT !.v = @ + n, !.phys = phys + n, !.left = @ - n,
                                 !.level = 4, !.table = root[j.req.space], !.pc = pc]
    OBVIOUS
  <2>1. job' = [job EXCEPT ![t] = kk]
    BY <2>3 DEF Advance
  <2> HIDE DEF n, pc
  <2>2. kk = k
    <3> DEFINE v == j.v + n
    <3> DEFINE base == phys + n
    <3> DEFINE left == j.left - n
    <3> DEFINE table == root[j.req.space]
    <3>1. j \in Job /\ kk = [j EXCEPT !.v = v, !.phys = base, !.left = left,
                                     !.level = 4, !.table = table, !.pc = pc]
      BY <1>1, <2>3
    <3> HIDE DEF v, base, left, table, j
    <3>2. kk = [req |-> j.req, v |-> v, phys |-> base, left |-> left,
                pc |-> pc, level |-> 4, table |-> table, index |-> j.index]
      BY <3>1 DEF Job
    <3> QED BY <3>2 DEF v, base, left, table
  <2> QED BY <2>1, <2>2
<1> HIDE DEF n
<1>3. /\ j.req \in Requests /\ j.v \in Nat /\ j.left \in Nat
      /\ j.index \in [Levels -> Slots]
  BY <1>1, JobTypes
<1>4. /\ j.v + n \in Nat /\ j.left - n \in Nat /\ phys + n \in Int
      /\ j.left # n => j.left - n > 0
  <2>1. \A a, b \in Nat : b <= a => a - b \in Nat /\ (a # b => a - b > 0)
    BY SMT
  <2>2. phys + n \in Int /\ j.v + n \in Nat
    BY <1>1, <1>3, SMT
  <2> HIDE DEF j
  <2> QED BY <1>1, <1>3, <2>1, <2>2
<1>5. k \in Job
  BY <1>1, <1>3, <1>4 DEF Job, Levels
<1>6. /\ k.req = j.req /\ k.left = j.left - n /\ k.level = 4 /\ k.pc = pc
  OBVIOUS
<1>7. pc = "look" => j.left # n
  OBVIOUS
<1>10. pc \in {"done", "look"}
  OBVIOUS
<1>13. pc \notin Calling
  BY <1>10 DEF Calling
<1> HIDE DEF k, pc, j
<1>11. k.left \in Nat /\ (pc = "look" => k.left > 0)
  <2>1. j.left - n \in Nat /\ k.left = j.left - n
    BY <1>4, <1>6
  <2>2. pc = "look" => j.left - n > 0
    BY <1>4, <1>7
  <2> QED BY <2>1, <2>2
<1>12. k.left > 0 => Target(k) \in 1..3
  BY <1>11, CallbackFacts DEF Target
<1>8. JobOK(k)
  <2>1. pc = "look" => Target(k) <= 4
    BY <1>11, <1>12
  <2> QED BY <1>1, <1>6, <1>10, <1>11, <1>13, <2>1 DEF JobOK, Walking
<1>9. job' \in [Threads -> Job \union {NoJob}]
  BY <1>2, <1>5 DEF TypeInv, TypeOK, j
<1> QED BY <1>2, <1>5, <1>8, StepTypes DEF j

LEMMA WriteTypes ==
  ASSUME TypeInv, NEW t \in Threads, job[t] # NoJob, job[t].pc \in Calling,
         NEW e \in Entry, SetEntry(job[t], e)
  PROVE  mem' \in [Frames -> [Slots -> Entry]]
<1>1. job[t].table \in Frames /\ job[t].index[job[t].level] \in Slots
  BY InCallbackFacts
<1> QED BY <1>1, MemWrites DEF SetEntry, TypeInv, TypeOK

LEMMA LeafTypes ==
  ASSUME TypeInv, NEW t \in Threads, job[t] # NoJob, job[t].pc \in Calling, NEW addr \in Int
  PROVE  At(addr, LeafBits(job[t])) \in Entry
<1>1. job[t].req \in Request /\ job[t].level \in Levels /\ Target(job[t]) \in Levels
  BY InCallbackFacts
<1> QED BY <1>1, EntryFacts DEF LeafBits

LEMMA MapTypes ==
  ASSUME TypeInv, NEW t \in Threads, MapCallback(t)
  PROVE  TypeInv'
<1> DEFINE j == job[t]
<1>1. /\ job[t] # NoJob /\ job[t].pc \in Calling
      /\ SetEntry(j, [At(j.phys, LeafBits(j)) EXCEPT !.rights = @ \union j.req.low])
      /\ Advance(t, j.phys) /\ UNCHANGED <<free, root, pcid>>
  BY DEF MapCallback, InCallback, Calling
<1>2. j.phys \in Int /\ j.req.low \subseteq Rights
  BY <1>1, InCallbackFacts DEF Request
<1>3. At(j.phys, LeafBits(j)) \in Entry
  BY <1>1, <1>2, LeafTypes
<1>4. [At(j.phys, LeafBits(j)) EXCEPT !.rights = @ \union j.req.low] \in Entry
  BY <1>2, <1>3 DEF Entry
<1>5. mem' \in [Frames -> [Slots -> Entry]]
  BY <1>1, <1>4, WriteTypes
<1> QED BY <1>1, <1>2, <1>5, AdvanceTypes DEF TypeInv, TypeOK

LEMMA UnmapTypes ==
  ASSUME TypeInv, NEW t \in Threads, UnmapCallback(t)
  PROVE  TypeInv'
<1> DEFINE j == job[t]
<1> DEFINE phys == IF j.phys = 0 THEN Current(j).addr ELSE j.phys
<1>1. /\ job[t] # NoJob /\ job[t].pc \in Calling
      /\ SetEntry(j, Zero) /\ Advance(t, phys) /\ UNCHANGED <<free, root, pcid>>
  BY DEF UnmapCallback, InCallback, Calling
<1>2. phys \in Int
  BY <1>1, InCallbackFacts DEF Entry
<1>3. mem' \in [Frames -> [Slots -> Entry]]
  BY <1>1, Zeroes, WriteTypes
<1> HIDE DEF phys
<1> QED BY <1>1, <1>2, <1>3, AdvanceTypes DEF TypeInv, TypeOK

LEMMA FlyMapTypes ==
  ASSUME TypeInv, NEW t \in Threads, FlyMapCallback(t)
  PROVE  TypeInv'
<1> DEFINE j == job[t]
<1>1. /\ job[t] # NoJob /\ job[t].pc \in Calling
      /\ Advance(t, j.phys) /\ UNCHANGED <<root, pcid>>
  BY DEF FlyMapCallback, InCallback, Calling
<1>2. PICK f \in PmmOffers(free) : free' = free \ {f} /\ SetEntry(j, At(f, LeafBits(j)))
  BY DEF FlyMapCallback
<1>3. f \in Frames
  BY PmmAssumption DEF TypeInv, TypeOK
<1>4. f \in Int
  BY <1>3, PagerAssumption
<1>5. mem' \in [Frames -> [Slots -> Entry]]
  BY <1>1, <1>2, <1>4, LeafTypes, WriteTypes
<1>6. free' \subseteq Frames /\ j.phys \in Int
  BY <1>1, <1>2, InCallbackFacts DEF TypeInv, TypeOK
<1> QED BY <1>1, <1>5, <1>6, AdvanceTypes

LEMMA FlyUnmapFreeTypes ==
  ASSUME TypeInv, NEW t \in Threads, FlyUnmapFree(t)
  PROVE  TypeInv'
<1> DEFINE j == job[t]
<1>1. /\ j # NoJob /\ j.pc \in Calling /\ j.req.op = "flyUnmap"
      /\ free' = free \union ({Current(j).addr} \intersect Frames)
      /\ job' = [job EXCEPT ![t] = [j EXCEPT !.pc = "clear"]] /\ UNCHANGED <<mem, root, pcid>>
  BY DEF FlyUnmapFree, InCallback, Calling
<1>2. /\ j \in Job /\ JobOK(j) /\ j.level \in Levels /\ j.level = Target(j)
      /\ j.table \in Frames /\ j.index \in [Levels -> Slots]
  BY <1>1, InCallbackFacts, JobTypes
<1>3. [j EXCEPT !.pc = "clear"] = JobAt(j, "clear", j.level, j.table, j.index)
  BY <1>2, PcMove
<1>4. "clear" \in Pcs /\ free' \subseteq Frames /\ mem' \in [Frames -> [Slots -> Entry]]
  BY <1>1 DEF Pcs, TypeInv, TypeOK
<1>5. j.left > 0 /\ Target(j) <= j.level
  BY <1>1, <1>2, SMT DEF JobOK, Walking, Levels
<1>6. job' = [job EXCEPT ![t] = JobAt(j, "clear", j.level, j.table, j.index)]
  BY <1>1, <1>3
<1>7. UNCHANGED <<root, pcid>> /\ j # NoJob
  BY <1>1
<1>8. Target(j) = j.level /\ j.req.op = "flyUnmap"
  BY <1>1, <1>2
<1>9. "clear" \notin {"make", "down"}
  OBVIOUS
<1> QED BY <1>2, <1>4, <1>5, <1>6, <1>7, <1>8, <1>9, MoveTypes

LEMMA FlyUnmapClearTypes ==
  ASSUME TypeInv, NEW t \in Threads, FlyUnmapClear(t)
  PROVE  TypeInv'
<1> DEFINE j == job[t]
<1>1. /\ job[t] # NoJob /\ job[t].pc \in Calling
      /\ SetEntry(j, Zero) /\ Advance(t, j.phys) /\ UNCHANGED <<free, root, pcid>>
  BY DEF FlyUnmapClear, Clearing, Calling
<1>2. mem' \in [Frames -> [Slots -> Entry]]
  BY <1>1, Zeroes, WriteTypes
<1>3. free' \subseteq Frames /\ j.phys \in Int
  BY <1>1, InCallbackFacts DEF TypeInv, TypeOK
<1> QED BY <1>1, <1>2, <1>3, AdvanceTypes

LEMMA SetAttrTypes ==
  ASSUME TypeInv, NEW t \in Threads, SetAttrCallback(t)
  PROVE  TypeInv'
<1> DEFINE j == job[t]
<1>1. /\ job[t] # NoJob /\ job[t].pc \in Calling
      /\ SetEntry(j, At(Current(j).addr, LeafBits(j)))
      /\ Advance(t, j.phys) /\ UNCHANGED <<free, root, pcid>>
  BY DEF SetAttrCallback, InCallback, Calling
<1>2. Current(j).addr \in Int /\ j.phys \in Int
  BY <1>1, InCallbackFacts DEF Entry
<1>3. mem' \in [Frames -> [Slots -> Entry]]
  BY <1>1, <1>2, LeafTypes, WriteTypes
<1> QED BY <1>1, <1>2, <1>3, AdvanceTypes DEF TypeInv, TypeOK

LEMMA FollowTypes ==
  ASSUME TypeInv, NEW e \in Entry, NEW l \in Levels, NEW j \in Job
  PROVE  Follow(e, l, j) \in Entry
<1>1. j.index[l] \in Slots
  BY JobTypes
<1> QED BY <1>1, Zeroes DEF Follow, TypeInv, TypeOK

LEMMA SourceTypes ==
  ASSUME TypeInv, NEW t \in Threads, InCallback(t, "clone")
  PROVE  SourceEntries(job[t]) \subseteq Entry
<1> DEFINE j == job[t]
<1>1. j \in Job /\ JobOK(j) /\ j.req.op = "clone"
  BY InCallbackFacts DEF InCallback, Calling
<1>2. root[j.req.src] \in Frames /\ j.index[4] \in Slots
  <2>1. j.req.src \in Spaces /\ j.index \in [Levels -> Slots]
    BY <1>1, JobTypes
  <2> QED BY <1>1, <2>1 DEF JobOK, TypeInv, TypeOK, Levels
<1>3. FromPml4(j) \subseteq Entry
  BY <1>2, Zeroes DEF FromPml4, TypeInv, TypeOK
<1> HIDE DEF j
<1>4. 1 \in Levels /\ 2 \in Levels /\ 3 \in Levels
  BY DEF Levels
<1>5. ASSUME NEW e \in FromPml4(j)
      PROVE  Follow(Follow(Follow(e, 3, j), 2, j), 1, j) \in Entry
  <2>1. Follow(e, 3, j) \in Entry
    BY <1>1, <1>3, <1>4, FollowTypes
  <2>2. Follow(Follow(e, 3, j), 2, j) \in Entry
    BY <1>1, <1>4, <2>1, FollowTypes
  <2> QED BY <1>1, <1>4, <2>2, FollowTypes
<1> QED BY <1>5 DEF SourceEntries, j

LEMMA CloneTypes ==
  ASSUME TypeInv, NEW t \in Threads, CloneCallback(t)
  PROVE  TypeInv'
<1> DEFINE j == job[t]
<1>1. InCallback(t, "clone") /\ UNCHANGED <<free, root, pcid>>
      /\ job[t] # NoJob /\ job[t].pc \in Calling
  BY DEF CloneCallback, InCallback, Calling
<1>2. PICK e \in SourceEntries(j) :
        IF e = Wild THEN job' = [job EXCEPT ![t].pc = "wild"] /\ UNCHANGED mem
        ELSE SetEntry(j, e) /\ Advance(t, j.phys)
  BY DEF CloneCallback
<1>3. e \in Entry
  BY <1>1, SourceTypes
<1>4. CASE e = Wild
  <2>1. job' = [job EXCEPT ![t] = [j EXCEPT !.pc = "wild"]] /\ UNCHANGED mem
    BY <1>2, <1>4
  <2>2. j \in Job /\ j.level \in Levels /\ j.table \in Frames
        /\ j.index \in [Levels -> Slots]
    BY <1>1, InCallbackFacts, JobTypes
  <2>3. [j EXCEPT !.pc = "wild"] = JobAt(j, "wild", j.level, j.table, j.index)
    BY <2>2, PcMove
  <2>4. "wild" \in Pcs \ Walking /\ free' \subseteq Frames /\ mem' \in [Frames -> [Slots -> Entry]]
    BY <1>1, <2>1 DEF Pcs, TypeInv, TypeOK, Walking, Calling
  <2>5. UNCHANGED <<root, pcid>> /\ job[t] # NoJob
    BY <1>1
  <2> QED BY <2>1, <2>2, <2>3, <2>4, <2>5, MoveTypes DEF Walking, Calling
<1>5. CASE e # Wild
  <2>1. mem' \in [Frames -> [Slots -> Entry]]
    BY <1>1, <1>2, <1>3, <1>5, WriteTypes
  <2>2. free' \subseteq Frames /\ j.phys \in Int /\ Advance(t, j.phys)
    BY <1>1, <1>2, <1>5, InCallbackFacts DEF TypeInv, TypeOK
  <2> QED BY <1>1, <2>1, <2>2, AdvanceTypes
<1> QED BY <1>4, <1>5

LEMMA CloneNothingTypes ==
  ASSUME TypeInv, NEW t \in Threads, CloneNothing(t)
  PROVE  TypeInv'
<1>1. job[t] # NoJob /\ job[t].pc \in Calling /\ Advance(t, job[t].phys)
      /\ UNCHANGED <<mem, free, root, pcid>>
  BY DEF CloneNothing, InCallback, Calling
<1>2. job[t].phys \in Int
  BY <1>1, InCallbackFacts
<1> QED BY <1>1, <1>2, AdvanceTypes DEF TypeInv, TypeOK

-----------------------------------------------------------------------------
(* The theorem *)

LEMMA NextTypes ==
  ASSUME TypeInv, [Next]_vars
  PROVE  TypeInv'
<1>1. ASSUME NEW s \in Spaces, CreatePageTables(s) PROVE TypeInv'
  BY <1>1, CreateTypes
<1>2. ASSUME NEW t \in Threads, Call(t) PROVE TypeInv'
  BY <1>2, CallTypes
<1>3. ASSUME NEW t \in Threads, Work(t) PROVE TypeInv'
  <2>1. CASE Look(t)
    BY <2>1, LookTypes
  <2>2. CASE MakeTable(t)
    BY <2>2, MakeTableTypes
  <2>3. CASE Down(t)
    BY <2>3, DownTypes
  <2>4. CASE OutOfMemory(t)
    BY <2>4, FailTypes DEF OutOfMemory, InCallback
  <2>5. CASE Return(t)
    BY <2>5, ReturnTypes
  <2>6. CASE MapCallback(t)
    BY <2>6, MapTypes
  <2>7. CASE UnmapCallback(t)
    BY <2>7, UnmapTypes
  <2>8. CASE FlyMapCallback(t)
    BY <2>8, FlyMapTypes
  <2>9. CASE FlyUnmapFree(t)
    BY <2>9, FlyUnmapFreeTypes
  <2>14. CASE FlyUnmapClear(t)
    BY <2>14, FlyUnmapClearTypes
  <2>10. CASE SetAttrCallback(t)
    BY <2>10, SetAttrTypes
  <2>11. CASE CloneNothing(t)
    BY <2>11, CloneNothingTypes
  <2>12. CASE CloneRefused(t)
    BY <2>12, FailTypes DEF CloneRefused, InCallback
  <2>13. CASE CloneCallback(t)
    BY <2>13, CloneTypes
  <2> QED BY <1>3, <2>1, <2>2, <2>3, <2>4, <2>5, <2>6, <2>7, <2>8, <2>9, <2>10, <2>11, <2>12,
             <2>13, <2>14 DEF Work
<1>4. CASE UNCHANGED vars
  <2>1. UNCHANGED <<mem, free, root, pcid, job>>
    BY <1>4 DEF vars
  <2>2. ASSUME NEW t \in Threads, job'[t] # NoJob PROVE JobOK(job[t])'
    BY <2>1, <2>2 DEF TypeInv, JobsOK, JobOK, Target
  <2> QED BY <2>1, <2>2 DEF TypeInv, TypeOK, JobsOK
<1> QED BY <1>1, <1>2, <1>3, <1>4 DEF Next

\* Whatever is requested, and whenever memory runs out: a request never has less
\* than no page left (info->size, unsigned in the code, does not wrap), a walk is
\* only ever in a page frame and at a level, and never below the level at which
\* its callback is called.
THEOREM WalksKeepTheirTypes == Spec => []TypeOK
<1>1. TypeInv /\ [Next]_vars => TypeInv'
  BY NextTypes
<1>2. TypeInv => TypeOK
  BY DEF TypeInv
<1> QED BY TypeInit, <1>1, <1>2, PTL DEF Spec
=============================================================================
