-------------------------------- MODULE Pager --------------------------------
(***************************************************************************)
(* src/c/pager.c: requests on address spaces, carried out on four levels   *)
(* of page tables that live in page frames of the physical memory manager. *)
(*                                                                         *)
(* Memory is a function from frames to tables of Fanout entries (512 in    *)
(* the hardware).  A page is a number; an entry at level l covers Span[l]  *)
(* pages, so a PD entry (level 2) is "2 MiB" and a PDPT entry (level 3) is *)
(* "1 GiB".  Addresses are in pages too: frame numbers.  Of the cache      *)
(* attributes (PAT) there is what they do to rights and addresses, but not *)
(* what they do to caches; left out are the accessed bit and the invlpg it *)
(* guards.                                                                 *)
(*                                                                         *)
(* The pager takes no lock.  A step of this module is one access to a      *)
(* table: pager_traverse's walk reads an entry, may fill it with a new     *)
(* table, reads it again, and so on down to the callback.                  *)
(***************************************************************************)
EXTENDS Integers, FiniteSets

CONSTANTS
  Threads,      \* the kernel threads and fault handlers that call the pager
  Spaces,       \* address spaces; BootSpace has its PML4 from the start
  BootSpace,
  Frames,       \* the frame numbers the physical memory manager deals out
  NoFrame,      \* not a frame: where there is no table
  BootFrame,    \* the frame of BootSpace's PML4
  PmmOffers(_), \* the free frames the allocator may give out next
  Fanout,       \* entries of a table
  GibPages,     \* the processor has 1 GiB pages
  NxFeature,    \* the processor has the no-execute bit
  PcidResults,  \* what pcid_allocate may return; {0} when PCIDs are off
  Requests,     \* the calls that are made
  Serialised,   \* callers never work on one address space at the same time
  NoJob, Unmapped

Levels == 1..4
Span   == <<1, Fanout, Fanout * Fanout, Fanout * Fanout * Fanout>>
Slots  == 0..(Fanout - 1)
Pages  == 0..(Fanout * Span[4] - 1)

Rights == {"write", "user", "execute"}

\* A clone takes the pages of src from the page from on, which the code stores and
\* never reads.  pat are the bits of ARC_PAGER_PAT that are set.
Request == [op : {"map", "unmap", "flyMap", "flyUnmap", "setAttr", "clone"},
            space : Spaces, src : Spaces, v : Pages, from : Pages, size : Nat, phys : Nat,
            low : SUBSET Rights, rights : SUBSET Rights, pat : SUBSET (0..2),
            only4k : BOOLEAN, autoDisable : 0..15]

ASSUME PagerAssumption ==
  /\ Fanout \in Nat \ {0, 1}
  /\ Frames \subseteq Nat \ {0}
  /\ NoFrame \notin Frames
  /\ BootFrame \in Frames
  /\ BootSpace \in Spaces
  /\ GibPages \in BOOLEAN
  /\ NxFeature \in BOOLEAN
  /\ PcidResults \subseteq Int
  /\ Requests \subseteq Request
  /\ \A r \in Requests : r.v + r.size <= Fanout * Span[4]
  /\ Serialised \in BOOLEAN

\* The allocator gives out free frames, and gives one whenever there is one.
ASSUME PmmAssumption ==
  \A f \in SUBSET Frames :
     PmmOffers(f) \subseteq f /\ (f # {} => PmmOffers(f) # {})

VARIABLES
  mem,   \* the entries of every frame, read as a table
  free,  \* the frames the physical memory manager has
  root,  \* the PML4 of every address space
  pcid,  \* the PCID in the low bits of the address-space handle
  job    \* the request each thread is making, and where its walk is

vars == <<mem, free, root, pcid, job>>

-----------------------------------------------------------------------------
(* Entries *)

Entry  == [present : BOOLEAN, addr : Int, ps : BOOLEAN, rights : SUBSET Rights]
Zero   == [present |-> FALSE, addr |-> 0, ps |-> FALSE, rights |-> {}]
\* What a read through an address that is no table's returns.
Wild   == [present |-> TRUE, addr |-> -1, ps |-> FALSE, rights |-> {}]

IsTable(e) == e.present /\ ~e.ps

\* pager_unmap, pager_fly_unmap and pager_clone leave attributes at 0.
Attributed(r) == r.op \in {"map", "flyMap", "setAttr"}
\* ARC_PAGER_4K, which pager_fly_map forces.
Only4K(r) == r.op = "flyMap" \/ (Attributed(r) /\ r.only4k)
Pat(r) == IF Attributed(r) THEN r.pat ELSE {}
\* The rights ARC_PAGER_US, RW and NX stand for.
Asked(r) ==
  (IF Attributed(r) THEN r.rights ELSE {"execute"})
    \union (IF NxFeature THEN {} ELSE {"execute"})
\* The lowest bit of PAT is put into bit 2, which is not PWT but U/S.
Granted(r) == Asked(r) \union (IF 0 \in Pat(r) THEN {"user"} ELSE {})
\* ARC_PAGER_AUTO_USRW_DISABLE: the directory levels that keep the attributes.
AutoDisable(r) == IF Attributed(r) THEN r.autoDisable ELSE 0

\* can_gib and can_2mib of an iteration with n pages to go, as the level at
\* which it will call the callback.
CallbackLevel(r, n) ==
  IF GibPages /\ ~Only4K(r) /\ n >= Span[3] THEN 3
  ELSE IF ~Only4K(r) /\ n >= Span[2] THEN 2
  ELSE 1

\* Faulty: directories get what was asked for the page.
GetEntryBitsAsked(l, c, r) ==
  [present |-> TRUE, ps |-> l = c /\ l > 1, addr |-> 0, rights |-> Asked(r)]

\* Faulty: bit 7 is set in every PD entry.
GetEntryBitsLarge(l, c, r) ==
  [present |-> TRUE, ps |-> l = 2 \/ (l = c /\ l > 1), addr |-> 0,
   rights |-> Asked(r) \union (IF l > c THEN {"write", "user"} ELSE {})]

\* get_entry_bits for the entry at level l of an iteration that will call the
\* callback at level c.  Directories get user and write whatever was asked,
\* but not execute.  The third bit of PAT is put into bit 12, which is PAT in a large
\* page and the lowest bit of the address in a directory.
GetEntryBits(l, c, r) ==
  LET large == l = c /\ l > 1
      usrw  == l > AutoDisable(r) + 1 /\ ~large
  IN [present |-> TRUE, ps |-> large,
      addr    |-> IF 2 \in Pat(r) /\ l \in {2, 3} /\ ~large THEN 1 ELSE 0,
      rights  |-> Granted(r) \union (IF usrw THEN {"write", "user"} ELSE {})]

\* address | get_entry_bits.
At(addr, bits) ==
  [bits EXCEPT !.addr = addr + (IF bits.addr = 1 /\ addr % 2 = 0 THEN 1 ELSE 0)]

Index(l, v) == (v \div Span[l]) % Fanout

-----------------------------------------------------------------------------
(* What the processor sees: the walk of the hardware. *)

\* The entry for v, at level l, of the table that entry e points to.
EntryUnder(e, l, v) ==
  IF IsTable(e) /\ e.addr \in Frames THEN mem[e.addr][Index(l, v)] ELSE Zero

\* The entries of the four levels on the way to v, from the page table's up.
Walk(s, v) ==
  LET e4 == IF root[s] = NoFrame THEN Zero ELSE mem[root[s]][Index(4, v)]
      e3 == EntryUnder(e4, 3, v)
      e2 == EntryUnder(e3, 2, v)
      e1 == EntryUnder(e2, 1, v)
  IN <<e1, e2, e3, e4>>

\* The level of the entry that maps the page, 0 when there is none.
LevelOf[w \in [Levels -> Entry]] ==
  IF w[3].present /\ w[3].ps THEN 3
  ELSE IF w[2].present /\ w[2].ps THEN 2
  ELSE IF w[1].present THEN 1
  ELSE 0

LeafLevel(s, v)  == LevelOf[Walk(s, v)]
EntryAt(l, s, v) == Walk(s, v)[l]
Mapped(s, v)     == LeafLevel(s, v) # 0
Leaf(s, v)       == EntryAt(LeafLevel(s, v), s, v)

\* The page a walk ends at.  An access needs its right in every entry on the way.
PageAt(w, l, v) ==
  [addr   |-> w[l].addr + (v % Span[l]),
   rights |-> {x \in Rights : \A k \in l..4 : x \in w[k].rights}]

Translate(s, v) ==
  LET w == Walk(s, v)
      l == LevelOf[w]
  IN IF l # 0 THEN PageAt(w, l, v) ELSE Unmapped

-----------------------------------------------------------------------------
(* What the code demands of its callers without checking it. *)

RangeOf(r) == r.v .. r.v + r.size - 1

\* The level at which page v of r's range is reached.
ReachedAt(r, v) ==
  LET CallsFor(n, l) == IF CallbackLevel(r, n) >= l THEN (n \div Span[l]) * Span[l] ELSE 0
      gib == CallsFor(r.size, 3)
      mib == CallsFor(r.size - gib, 2)
  IN IF v < r.v + gib THEN 3 ELSE IF v < r.v + gib + mib THEN 2 ELSE 1

\* Large pages at aligned addresses only; the low bits of a physical address are
\* clear, for they would become bits of the entry.
Aligned(r) ==
  LET unit == Span[CallbackLevel(r, r.size)] IN
  /\ r.v % unit = 0
  /\ r.op = "map" => r.phys % unit = 0 /\ r.low = {}

\* Page v of space s is mapped, if at all, at one of these levels, and the entry that
\* this request reaches is no table's.
ReachedIn(r, s, v, levels) ==
  /\ LeafLevel(s, v) \in {0} \union levels
  /\ ReachedAt(r, v) > 1 => ~IsTable(EntryAt(ReachedAt(r, v), s, v))

\* The pages of the range have the sizes in which the request reaches them; those that
\* a clone takes, these or larger ones.
SameGranularity(r) == \A v \in RangeOf(r) : ReachedIn(r, r.space, v, {ReachedAt(r, v)})
NoFinerSource(r)   == \A v \in RangeOf(r) : ReachedIn(r, r.src, v, ReachedAt(r, v)..3)

\* The threads that have freed a frame and not yet cleared its entry; their pages.
Clearing == {t \in Threads : job[t] # NoJob /\ job[t].pc = "clear"}
Dropped(s, v) == \E t \in Clearing : job[t].req.space = s /\ job[t].v = v

IsFly(s, v) == Mapped(s, v) /\ Leaf(s, v).addr \in Frames /\ ~Dropped(s, v)

\* Pages from pager_fly_map are dropped with pager_fly_unmap and nothing else,
\* in pieces below 2 MiB, once nobody has a clone; rights are set on mapped pages.
RightOperation(r) ==
  \A v \in RangeOf(r) :
    CASE r.op = "map"      -> ~IsFly(r.space, v) /\ r.phys + (v - r.v) \notin Frames
      [] r.op = "unmap"    -> ~IsFly(r.space, v)
      [] r.op = "flyMap"   -> ~Mapped(r.space, v)
      [] r.op = "flyUnmap" ->
           /\ ReachedAt(r, v) = 1
           /\ IsFly(r.space, v)
           /\ \A s \in Spaces, q \in Pages :
                IsFly(s, q) /\ <<s, q>> # <<r.space, v>> =>
                  Leaf(s, q).addr # Leaf(r.space, v).addr
      [] r.op = "setAttr"  -> Mapped(r.space, v)
      [] r.op = "clone"    ->
           Mapped(r.src, v) =>
             \A l \in (LeafLevel(r.src, v) + 1)..4 :
               {"write", "user"} \subseteq EntryAt(l, r.src, v).rights

Contract(r) ==
  /\ Aligned(r)
  /\ SameGranularity(r)
  /\ RightOperation(r)
  /\ r.op = "clone" => r.src # r.space /\ NoFinerSource(r)

\* Spaces another request is working on.
Touched(r) == {r.space} \union (IF r.op = "clone" THEN {r.src} ELSE {})
Undisturbed(r) ==
  Serialised => \A t \in Threads :
                  job[t] # NoJob => Touched(r) \intersect Touched(job[t].req) = {}

-----------------------------------------------------------------------------
Init ==
  /\ mem = [f \in Frames |-> [n \in Slots |-> Zero]]
  /\ free = Frames \ {BootFrame}
  /\ root = [s \in Spaces |-> IF s = BootSpace THEN BootFrame ELSE NoFrame]
  /\ pcid = [s \in Spaces |-> 0]
  /\ job = [t \in Threads |-> NoJob]

\* pager_create_page_tables: a PCID below 0 or an empty allocator fails it.
CreatePageTables(s) ==
  /\ root[s] = NoFrame
  /\ \E n \in PcidResults, f \in PmmOffers(free) :
       /\ n >= 0
       /\ free' = free \ {f}
       /\ mem' = [mem EXCEPT ![f] = [x \in Slots |-> Zero]]
       /\ root' = [root EXCEPT ![s] = f]
       /\ pcid' = [pcid EXCEPT ![s] = n]
  /\ UNCHANGED job

\* pager_map and its siblings are called: pager_traverse starts at the PML4.
Call(t) ==
  /\ job[t] = NoJob
  /\ \E r \in Requests :
       /\ root[r.space] # NoFrame
       /\ r.op = "clone" => root[r.src] # NoFrame
       /\ Contract(r)
       /\ Undisturbed(r)
       /\ job' = [job EXCEPT ![t] =
            [req |-> r, v |-> r.v, phys |-> IF r.op = "map" THEN r.phys ELSE 0,
             left |-> r.size, pc |-> IF r.size = 0 THEN "done" ELSE "look",
             level |-> 4, table |-> root[r.space], index |-> [l \in Levels |-> 0]]]
  /\ UNCHANGED <<mem, free, root, pcid>>

\* Names for the parts of a walk.
Target(j)  == CallbackLevel(j.req, j.left)
Current(j) == mem[j.table][j.index[j.level]]

\* get_page_table reads parent[index] and decides whether a table is missing.
Look(t) ==
  LET j == job[t]
      n == Index(j.level, j.v)
  IN
  /\ job[t] # NoJob
  /\ j.pc = "look"
  /\ job' = [job EXCEPT
       ![t].index[j.level] = n,
       ![t].pc = IF j.level = Target(j) THEN "callback"
                 ELSE IF mem[j.table][n].present THEN "down"
                 ELSE "make"]
  /\ UNCHANGED <<mem, free, root, pcid>>

\* get_page_table allocates the missing table, clears it and enters it.
MakeTable(t) ==
  LET j == job[t] IN
  /\ job[t] # NoJob
  /\ j.pc = "make"
  /\ \E f \in PmmOffers(free) :
       /\ free' = free \ {f}
       /\ mem' = [mem EXCEPT
            ![f] = [x \in Slots |-> Zero],
            ![j.table][j.index[j.level]] = At(f, GetEntryBits(j.level, Target(j), j.req))]
  /\ job' = [job EXCEPT ![t].pc = "down"]
  /\ UNCHANGED <<root, pcid>>

\* pager_traverse reads the entry again and takes whatever it holds for a table.
Down(t) ==
  LET e == Current(job[t]) IN
  /\ job[t] # NoJob
  /\ job[t].pc = "down"
  /\ job' = IF IsTable(e) /\ e.addr \in Frames
              THEN [job EXCEPT ![t].pc = "look", ![t].level = @ - 1, ![t].table = e.addr]
              ELSE [job EXCEPT ![t].pc = "wild"]
  /\ UNCHANGED <<mem, free, root, pcid>>

\* Faulty: a 2 MiB page counts as 1 GiB.
AdvanceGib(t, phys) ==
  LET j == job[t]
      n == Span[IF Target(j) = 2 THEN 3 ELSE Target(j)]
  IN
  job' = [job EXCEPT ![t] =
    [j EXCEPT !.v = @ + n, !.phys = phys + n, !.left = @ - n,
              !.level = 4, !.table = root[j.req.space],
              !.pc = IF j.left = n THEN "done" ELSE "look"]]

\* Faulty: the physical address stays.
AdvanceVirtual(t, phys) ==
  LET j == job[t]
      n == Span[Target(j)]
  IN
  job' = [job EXCEPT ![t] =
    [j EXCEPT !.v = @ + n, !.phys = phys, !.left = @ - n,
              !.level = 4, !.table = root[j.req.space],
              !.pc = IF j.left = n THEN "done" ELSE "look"]]

\* The traversal after a callback that returned 0, with the next iteration's
\* start if pages are left.
Advance(t, phys) ==
  LET j == job[t]
      n == Span[Target(j)]
  IN
  job' = [job EXCEPT ![t] =
    [j EXCEPT !.v = @ + n, !.phys = phys + n, !.left = @ - n,
              !.level = 4, !.table = root[j.req.space],
              !.pc = IF j.left = n THEN "done" ELSE "look"]]

\* Faulty: the request starts over.
FailAndRetry(t) ==
  /\ job' = [job EXCEPT ![t].pc = "look", ![t].level = 4, ![t].table = root[job[t].req.space]]
  /\ UNCHANGED <<mem, free, root, pcid>>

Fail(t) ==
  /\ job' = [job EXCEPT ![t].pc = "failed"]
  /\ UNCHANGED <<mem, free, root, pcid>>

InCallback(t, op) == /\ job[t] # NoJob
                     /\ job[t].pc = "callback"
                     /\ job[t].req.op = op

\* table[index] = e
SetEntry(j, e) == mem' = [mem EXCEPT ![j.table][j.index[j.level]] = e]
LeafBits(j) == GetEntryBits(j.level, Target(j), j.req)

\* The low bits of an unaligned physical address are or-ed into the entry.
MapCallback(t) ==
  LET j == job[t] IN
  /\ InCallback(t, "map")
  /\ SetEntry(j, [At(j.phys, LeafBits(j)) EXCEPT !.rights = @ \union j.req.low])
  /\ Advance(t, j.phys)
  /\ UNCHANGED <<free, root, pcid>>

\* info.physical becomes the address of the first entry that has one.
UnmapCallback(t) ==
  LET j == job[t] IN
  /\ InCallback(t, "unmap")
  /\ SetEntry(j, Zero)
  /\ Advance(t, IF j.phys = 0 THEN Current(j).addr ELSE j.phys)
  /\ UNCHANGED <<free, root, pcid>>

FlyMapCallback(t) ==
  LET j == job[t] IN
  /\ InCallback(t, "flyMap")
  /\ \E f \in PmmOffers(free) :
       /\ free' = free \ {f}
       /\ SetEntry(j, At(f, LeafBits(j)))
  /\ Advance(t, j.phys)
  /\ UNCHANGED <<root, pcid>>

\* Faulty: the frame is not freed.
FlyUnmapKeep(t) ==
  /\ InCallback(t, "flyUnmap")
  /\ job' = [job EXCEPT ![t].pc = "clear"]
  /\ UNCHANGED <<mem, free, root, pcid>>

\* The callback of pager_fly_unmap frees the frame first ...
FlyUnmapFree(t) ==
  /\ InCallback(t, "flyUnmap")
  /\ free' = free \union ({Current(job[t]).addr} \intersect Frames)
  /\ job' = [job EXCEPT ![t].pc = "clear"]
  /\ UNCHANGED <<mem, root, pcid>>

\* Faulty: the entry stays.
FlyUnmapLeave(t) ==
  /\ t \in Clearing
  /\ Advance(t, job[t].phys)
  /\ UNCHANGED <<mem, free, root, pcid>>

\* ... and then clears the entry, which maps the frame until then.
FlyUnmapClear(t) ==
  /\ t \in Clearing
  /\ SetEntry(job[t], Zero)
  /\ Advance(t, job[t].phys)
  /\ UNCHANGED <<free, root, pcid>>

SetAttrCallback(t) ==
  LET j == job[t] IN
  /\ InCallback(t, "setAttr")
  /\ SetEntry(j, At(Current(j).addr, LeafBits(j)))
  /\ Advance(t, j.phys)
  /\ UNCHANGED <<free, root, pcid>>

\* No frame for a new table or a fly page: the request fails half-way.
OutOfMemory(t) ==
  /\ PmmOffers(free) = {}
  /\ \/ job[t] # NoJob /\ job[t].pc = "make"
     \/ InCallback(t, "flyMap")
  /\ Fail(t)

\* pager_clone_callback walks the source by the indices of the destination's
\* walk; the ones below the callback's level are left over from earlier pages.
\* The source's handle is not aligned down: with a PCID in it the PML4 is read
\* at the wrong bytes.
FromPml4(j) ==
  IF pcid[j.req.src] = 0 THEN {mem[root[j.req.src]][j.index[4]]} ELSE {Zero, Wild}

Follow(e, l, j) ==
  IF e.addr = 0 \/ e.ps THEN e
  ELSE IF e.addr \in Frames THEN mem[e.addr][j.index[l]]
  ELSE Wild

\* Faulty: the walk ends one level early.
SourceDirectories(j) ==
  {Follow(Follow(e, 3, j), 2, j) : e \in FromPml4(j)}

SourceEntries(j) ==
  {Follow(Follow(Follow(e, 3, j), 2, j), 1, j) : e \in FromPml4(j)}

\* Nothing is mapped in the source: nothing to do.
CloneNothing(t) ==
  LET j == job[t] IN
  /\ InCallback(t, "clone")
  /\ \E e \in SourceEntries(j) : e.addr = 0
  /\ Advance(t, j.phys)
  /\ UNCHANGED <<mem, free, root, pcid>>

\* The destination is in use, and ARC_PAGER_OVW is never set.
CloneRefused(t) ==
  LET j == job[t] IN
  /\ InCallback(t, "clone")
  /\ \E e \in SourceEntries(j) : e # Wild /\ e.addr # 0
  /\ Current(j) # Zero
  /\ Fail(t)

\* A success copies the entry.  A walk through what is no table gets lost.
CloneCallback(t) ==
  LET j == job[t] IN
  /\ InCallback(t, "clone")
  /\ \E e \in SourceEntries(j) :
       IF e = Wild
         THEN /\ job' = [job EXCEPT ![t].pc = "wild"]
              /\ UNCHANGED mem
         ELSE /\ e.addr # 0
              /\ Current(j) = Zero
              /\ SetEntry(j, e)
              /\ Advance(t, j.phys)
  /\ UNCHANGED <<free, root, pcid>>

Return(t) ==
  /\ job[t] # NoJob
  /\ job[t].pc \in {"done", "failed"}
  /\ job' = [job EXCEPT ![t] = NoJob]
  /\ UNCHANGED <<mem, free, root, pcid>>

Work(t) ==
  \/ Look(t) \/ MakeTable(t) \/ Down(t) \/ OutOfMemory(t) \/ Return(t)
  \/ MapCallback(t) \/ UnmapCallback(t) \/ FlyMapCallback(t)
  \/ FlyUnmapFree(t) \/ FlyUnmapClear(t) \/ SetAttrCallback(t)
  \/ CloneNothing(t) \/ CloneRefused(t) \/ CloneCallback(t)

Next ==
  \/ \E s \in Spaces : CreatePageTables(s)
  \/ \E t \in Threads : Call(t) \/ Work(t)

Spec == Init /\ [][Next]_vars

\* A request that was made is worked on; nobody has to make one.
FairSpec == Spec /\ \A t \in Threads : WF_vars(Work(t))

-----------------------------------------------------------------------------
(* Properties *)

Job == [req : Requests, v : Nat, phys : Int, left : Nat,
        pc : {"look", "make", "down", "callback", "clear", "done", "failed", "wild"},
        level : Levels, table : Frames, index : [Levels -> Slots]]

\* The type of every variable.
TypeOK ==
  /\ mem \in [Frames -> [Slots -> Entry]]
  /\ free \subseteq Frames
  /\ root \in [Spaces -> Frames \union {NoFrame}]
  /\ pcid \in [Spaces -> Int]
  /\ job \in [Threads -> Job \union {NoJob}]

Roots == {root[s] : s \in Spaces} \ {NoFrame}

\* The slots of tables one level further down, from a set of tables.
TableSlots(tables) == {x \in tables \X Slots : IsTable(mem[x[1]][x[2]])}
TablesBelow(tables) == {mem[x[1]][x[2]].addr : x \in TableSlots(tables)}
Pdpts == TablesBelow(Roots)
Pds   == TablesBelow(Pdpts)
Pts   == TablesBelow(Pds)
Tables == Roots \union Pdpts \union Pds \union Pts
\* The slots that point to a table.
Directories == TableSlots(Roots \union Pdpts \union Pds)

\* The slots whose frame is freed already, and the frames that pages from
\* pager_fly_map are in.
Released == {<<job[t].table, job[t].index[job[t].level]>> : t \in Clearing}
FlySlots == {x \in Pts \X Slots : mem[x[1]][x[2]].present /\ x \notin Released}
FlyPages == {mem[x[1]][x[2]].addr : x \in FlySlots} \intersect Frames

\* The tables form trees: every table is entered in one slot, is no PML4 of a
\* space, is no page of data, and is no frame the allocator may give out again; nor is
\* a page of data, whose entry is not about to be cleared.
\* get_page_table and the callbacks write entries at all levels without a lock
\* or a reference count, so nothing but their order keeps it so.
TreeShape ==
  /\ Tables \subseteq Frames
  /\ \A s1, s2 \in Spaces : s1 # s2 /\ root[s1] # NoFrame => root[s1] # root[s2]
  /\ \A x, y \in Directories : x # y => mem[x[1]][x[2]].addr # mem[y[1]][y[2]].addr
  /\ \A x \in Directories : mem[x[1]][x[2]].addr \notin Roots
  /\ Tables \intersect free = {}
  /\ FlyPages \intersect (Tables \union free) = {}

\* A frame the allocator does not have is a table or a page: failed requests,
\* half-done requests and unmapping leave none behind.
NoLeak == Frames \ free = Tables \union FlyPages

\* No walk takes a page, an empty entry or a foreign frame for a table.
NoWildWalk == \A t \in Threads : job[t] # NoJob => job[t].pc # "wild"

\* "Only make a new table if the current entry is not present", and no
\* overwriting of the privileges of a directory table: an entry that points to
\* a table is never written again.
TablesAreNeverReplaced ==
  [][\A x \in Directories : mem'[x[1]][x[2]] = mem[x[1]][x[2]]]_vars

\* Directories do not stand in the way of the rights of a page: what the page's
\* own entry allows to write and to user mode, the walk allows.
LeafRightsAreEffective ==
  \A s \in Spaces, v \in Pages :
    Mapped(s, v) =>
      Leaf(s, v).rights \ {"execute"} \subseteq Translate(s, v).rights

\* Every call returns.
RequestsReturn == \A t \in Threads : job[t] # NoJob ~> job[t] = NoJob

\* What is left of a request, without its walk.
TodoOf(j) == IF j = NoJob THEN NoJob ELSE [req |-> j.req, at |-> j.v, left |-> j.left]

\* No thread's NoJob is a request, and no page's Unmapped a mapping.
ASSUME NamesAssumption ==
  /\ NoJob \notin Job \union [req : Requests, at : Nat, left : Nat]
  /\ Unmapped \notin [addr : Int, rights : SUBSET Rights]

(* The pager, with its tables hidden, is an AddressSpace. *)
AS == INSTANCE AddressSpace WITH
  space <- [s \in Spaces |-> [v \in Pages |-> Translate(s, v)]],
  todo  <- [t \in Threads |-> TodoOf(job[t])]

\* Every step of the walk leaves every translation of every space alone, except
\* that a callback gives its own pages what the request asked for.
ImplementsAddressSpace == AS!AbstractSpec
=============================================================================
