----------------------------- MODULE IoapicProof -----------------------------
(***************************************************************************)
(* The theorems about Ioapic, for any number of I/O APICs, threads and     *)
(* requests, and that it implements Routing.                               *)
(*                                                                         *)
(* The argument: an element of the list is one MADT entry with at most the *)
(* entries its I/O APIC has, and ACPI keeps the ranges apart, so an        *)
(* element that serves a GSI is its home.  At an I/O APIC that one caller  *)
(* uses at a time, what is selected is what the caller has selected.  The  *)
(* first part needs no caller to wait for another; the rest needs          *)
(* Serialised.                                                             *)
(***************************************************************************)
EXTENDS Ioapic, WellFoundedInduction, SequenceTheorems, TLAPS

\* An element of the list stands for an entry of the MADT.
Stands(element, n) ==
  /\ element.io = Madt[n].io /\ element.gsi = Madt[n].gsi
  /\ element.mre \in 0..MaxEntry[Madt[n].io]
ListOK ==
  /\ list \in Seq(Elements)
  /\ \A k \in DOMAIN list : \E n \in DOMAIN Madt : Stands(list[k], n)

\* Nobody overwrites the version register, from which the size is taken.
VersionsOK ==
  /\ DOMAIN regs = Ioapics
  /\ \A io \in Ioapics : DOMAIN regs[io] = Registers(io) /\ regs[io][Version] = MaxEntry[io]

ListInv ==
  /\ entry \in 0..(Len(Madt) + 1)
  /\ ListOK /\ VersionsOK

\* The registers are those of the redirection entries, each of its own half.
HalvesOK ==
  \A io \in Ioapics : \A e \in 0..MaxEntry[io] :
    regs[io][LowIndex(e)] \in Lows /\ regs[io][HighIndex(e)] \in Dests
HardwareOK ==
  /\ sel \in [Ioapics -> Nat] /\ \A io \in Ioapics : sel[io] \in {0} \union Registers(io)
  /\ mapped \subseteq Ioapics
  /\ HalvesOK

\* What a call asks for, what it has selected, and what it has written or read so far.
ForRequest(j) ==
  \E r \in Requests :
    /\ r.gsi \in Gsis /\ j.io = Home(r.gsi).io /\ j.entry = r.gsi - Home(r.gsi).gsi
    /\ j.low = Low(r) /\ j.dest = Dest(r)
CallOK(t) ==
  LET j == job[t] IN
  /\ entry = 0
  /\ j.entry \in 0..MaxEntry[j.io]
  /\ j.at # "selectLow" => j.io \in mapped
  /\ j.at = "low" => sel[j.io] = LowIndex(j.entry)
  /\ j.at = "high" => sel[j.io] = HighIndex(j.entry)
  /\ j.op = "write" => ForRequest(j)
  /\ j.at \in {"selectHigh", "high", "return"} => regs[j.io][LowIndex(j.entry)] = j.low
  /\ j.at = "return" => regs[j.io][HighIndex(j.entry)] = j.dest
CallsOK ==
  /\ job \in [Threads -> Jobs \union {Idle, Lost}]
  /\ \A t \in Threads : Calling(t) => CallOK(t)
TurnsOK ==
  \A t, u \in Threads : t # u /\ Calling(t) /\ Calling(u) => job[t].io # job[u].io

\* A route is whole unless a call is half way through it.
Whole(g) ==
  \/ Route(g) = [low |-> Masked, dest |-> Nowhere]
  \/ \E r \in Requests : r.gsi = g /\ Route(g) = [low |-> Low(r), dest |-> Dest(r)]
HalfWay(t, g) == Writes(t, g) /\ job[t].at \in {"selectHigh", "high"}
RoutesOK == \A g \in Gsis : Whole(g) \/ \E t \in Threads : HalfWay(t, g)

IoapicInv == /\ ListInv /\ pic \in BOOLEAN
             /\ HardwareOK /\ CallsOK /\ TurnsOK /\ RoutesOK

-----------------------------------------------------------------------------
(* The MADT, and the registers. *)

LEMMA MadtFacts ==
  /\ Len(Madt) \in Nat /\ DOMAIN Madt = 1..Len(Madt)
  /\ \A n \in DOMAIN Madt : Madt[n].io \in Ioapics /\ Madt[n].gsi \in Nat
  /\ \A io \in Ioapics : MaxEntry[io] \in 0..255
<1>1. Madt \in Seq([io : Ioapics, gsi : Nat]) /\ MaxEntry \in [Ioapics -> 0..255]
  BY IoapicAssumption
<1>2. Len(Madt) \in Nat /\ DOMAIN Madt = 1..Len(Madt)
  OBVIOUS
<1>3. \A n \in DOMAIN Madt : Madt[n] \in [io : Ioapics, gsi : Nat]
  BY <1>1, <1>2, ElementOfSeq
<1>4. \A n \in DOMAIN Madt : Madt[n].io \in Ioapics /\ Madt[n].gsi \in Nat
  <2>1. \A a \in [io : Ioapics, gsi : Nat] : a.io \in Ioapics /\ a.gsi \in Nat
    BY SMT
  <2> QED BY <1>3
<1> QED BY <1>1, <1>4

\* A GSI is in the range of one I/O APIC only.
LEMMA InRangeIsHome ==
  ASSUME NEW g \in Nat, NEW n \in DOMAIN Madt, InRange(n, g)
  PROVE  g \in Gsis /\ Home(g) = Madt[n]
<1>1. \A m \in DOMAIN Madt : InRange(m, g) => m = n
  <2> SUFFICES ASSUME NEW m \in DOMAIN Madt, InRange(m, g), m # n PROVE FALSE
    OBVIOUS
  <2>1. \/ Madt[m].gsi + MaxEntry[Madt[m].io] < Madt[n].gsi
        \/ Madt[n].gsi + MaxEntry[Madt[n].io] < Madt[m].gsi
    BY IoapicAssumption
  <2>2. /\ Madt[m].gsi <= g /\ g <= Madt[m].gsi + MaxEntry[Madt[m].io]
        /\ Madt[n].gsi <= g /\ g <= Madt[n].gsi + MaxEntry[Madt[n].io]
    BY DEF InRange
  <2>3. /\ Madt[m].gsi \in Nat /\ MaxEntry[Madt[m].io] \in 0..255
        /\ Madt[n].gsi \in Nat /\ MaxEntry[Madt[n].io] \in 0..255
    BY MadtFacts
  <2>4. \A a, c \in Nat : \A b, d \in 0..255 :
          a <= g /\ g <= a + b /\ c <= g /\ g <= c + d => ~(a + b < c) /\ ~(c + d < a)
    BY SMT
  <2> QED BY <2>1, <2>2, <2>3, <2>4, Zenon
<1>2. Home(g) = Madt[n]
  BY <1>1, Zenon DEF Home
<1>3. g \in Madt[n].gsi..(Madt[n].gsi + MaxEntry[Madt[n].io])
  BY SMT DEF InRange
<1> QED BY <1>2, <1>3, Zenon DEF Gsis

LEMMA GsiHome ==
  ASSUME NEW g \in Gsis
  PROVE  \E n \in DOMAIN Madt : g \in Nat /\ InRange(n, g) /\ Home(g) = Madt[n]
<1>1. PICK n \in DOMAIN Madt : g \in Madt[n].gsi..(Madt[n].gsi + MaxEntry[Madt[n].io])
  BY Zenon DEF Gsis
<1>2. g \in Nat /\ InRange(n, g)
  BY <1>1, MadtFacts, SMT DEF InRange
<1> QED BY <1>2, InRangeIsHome

\* The entry of a GSI, and that no other GSI has it.
LEMMA HomeFacts ==
  ASSUME NEW g \in Gsis
  PROVE  /\ g \in Nat /\ Home(g).io \in Ioapics /\ Home(g).gsi \in Nat
         /\ g - Home(g).gsi \in 0..MaxEntry[Home(g).io]
         /\ \A h \in Gsis : Home(h).io = Home(g).io /\ h - Home(h).gsi = g - Home(g).gsi => h = g
<1>1. PICK n \in DOMAIN Madt : g \in Nat /\ InRange(n, g) /\ Home(g) = Madt[n]
  BY GsiHome
<1>2. Home(g).io \in Ioapics /\ Home(g).gsi \in Nat
  BY <1>1, MadtFacts
<1>3. g - Home(g).gsi \in 0..MaxEntry[Home(g).io]
  <2>1. Madt[n].gsi \in Nat /\ MaxEntry[Madt[n].io] \in 0..255
    BY MadtFacts
  <2>2. Madt[n].gsi <= g /\ g <= Madt[n].gsi + MaxEntry[Madt[n].io]
    BY <1>1 DEF InRange
  <2>3. g - Madt[n].gsi \in 0..MaxEntry[Madt[n].io]
    BY <1>1, <2>1, <2>2, SMT
  <2> QED BY <1>1, <2>3
<1>4. ASSUME NEW h \in Gsis, Home(h).io = Home(g).io, h - Home(h).gsi = g - Home(g).gsi
      PROVE  h = g
  <2>1. PICK m \in DOMAIN Madt : h \in Nat /\ InRange(m, h) /\ Home(h) = Madt[m]
    BY GsiHome
  <2>2. m = n
    BY <1>1, <1>4, <2>1, IoapicAssumption
  <2>3. Home(h).gsi = Home(g).gsi
    BY <1>1, <2>1, <2>2
  <2> QED BY <1>2, <1>4, <2>1, <2>3, SMT
<1> QED BY <1>1, <1>2, <1>3, <1>4

LEMMA Indices ==
  ASSUME NEW io \in Ioapics, NEW e \in 0..MaxEntry[io]
  PROVE  /\ LowIndex(e) \in Registers(io) /\ HighIndex(e) \in Registers(io)
         /\ LowIndex(e) # Version /\ HighIndex(e) # Version
         /\ LowIndex(e) \in Nat /\ HighIndex(e) \in Nat
         /\ \A d \in 0..MaxEntry[io] :
              /\ LowIndex(d) # HighIndex(e)
              /\ LowIndex(d) = LowIndex(e) \/ HighIndex(d) = HighIndex(e) => d = e
<1>1. MaxEntry[io] \in 0..255
  BY MadtFacts
<1> QED BY <1>1, SMT DEF LowIndex, HighIndex, Registers, Version

\* A register is one half of one entry.
LEMMA RegisterHalves ==
  ASSUME NEW io \in Ioapics, NEW x \in Registers(io), x # Version
  PROVE  \E e \in 0..MaxEntry[io] : \/ x = LowIndex(e) /\ x % 2 = 0
                                    \/ x = HighIndex(e) /\ x % 2 # 0
<1>1. x \in Nat /\ x >= 16 /\ x <= 2 * MaxEntry[io] + 17 /\ MaxEntry[io] \in Nat
  <2>1. MaxEntry[io] \in 0..255
    BY MadtFacts
  <2> QED BY <2>1, SMT DEF Registers, LowIndex, HighIndex
<1> DEFINE e == (x - 16) \div 2
<1>2. e \in 0..MaxEntry[io]
  BY <1>1, SMT
<1>3. \/ x = 2 * e + 16 /\ x % 2 = 0
      \/ x = 2 * e + 17 /\ x % 2 # 0
  BY <1>1, SMT
<1> QED BY <1>2, <1>3 DEF LowIndex, HighIndex

LEMMA FirstIsIn ==
  ASSUME NEW S, S \subseteq Nat, S # {}
  PROVE  First(S) \in S
<1>1. PICK n \in S : \A m \in S : ~(<<m, n>> \in OpToRel(<, Nat))
  BY NatLessThanWellFounded, WFMin
<1>2. \A m \in S : ~(m < n)
  BY <1>1, Zenon DEF OpToRel
<1>3. \A m \in S : n <= m
  BY <1>2, SMT
<1> QED BY <1>3, Zenon DEF First

-----------------------------------------------------------------------------
(* The list. *)

LEMMA ListInit == Init => ListInv
<1> SUFFICES ASSUME Init PROVE ListInv
  OBVIOUS
<1>1. list = <<>> /\ entry = 1 /\ regs = [io \in Ioapics |-> ResetRegisters(io)]
  BY DEF Init
<1>2. ListOK
  BY <1>1 DEF ListOK
<1>3. VersionsOK
  <2>1. \A io \in Ioapics : Version \in Registers(io)
    BY DEF Registers
  <2> QED BY <1>1, <2>1 DEF VersionsOK, ResetRegisters
<1> QED BY <1>1, <1>2, <1>3, SMT DEF ListInv

LEMMA ListNext ==
  ASSUME ListInv, Next
  PROVE  ListInv'
<1>1. CASE AddIoapic
  <2> DEFINE io == Madt[entry].io
  <2>1. PICK maps, allocates \in BOOLEAN :
          IF allocates
            THEN /\ list' = <<[io |-> io, gsi |-> Madt[entry].gsi,
                               mre |-> IF maps THEN regs[io][Version] ELSE 0]>> \o list
                 /\ entry' = entry + 1
            ELSE /\ entry' = Len(Madt) + 1
                 /\ UNCHANGED list
    BY <1>1 DEF AddIoapic
  <2>2. entry \in DOMAIN Madt /\ regs' = regs
    BY <1>1 DEF AddIoapic
  <2>3. VersionsOK'
    BY <2>2 DEF ListInv, VersionsOK
  <2>4. CASE ~allocates
    <3>1. list' = list /\ entry' = Len(Madt) + 1
      BY <2>1, <2>4
    <3> QED BY <2>3, <3>1, SMT DEF ListInv, ListOK
  <2>5. CASE allocates
    <3> DEFINE new == [io |-> io, gsi |-> Madt[entry].gsi,
                       mre |-> IF maps THEN regs[io][Version] ELSE 0]
    <3>1. io \in Ioapics /\ regs[io][Version] = MaxEntry[io] /\ MaxEntry[io] \in 0..255
      BY <2>2, MadtFacts DEF ListInv, VersionsOK
    <3>2. new \in Elements /\ Stands(new, entry)
      <4>1. new.io = io /\ new.gsi = Madt[entry].gsi /\ Madt[entry].gsi \in Nat
        BY <2>2, MadtFacts
      <4>2. new.mre \in 0..MaxEntry[io] /\ new.mre \in 0..255
        BY <3>1, SMT
      <4>3. new = [io |-> new.io, gsi |-> new.gsi, mre |-> new.mre]
        OBVIOUS
      <4> HIDE DEF new
      <4> QED BY <3>1, <4>1, <4>2, <4>3 DEF Elements, Stands
    <3>3. list' = <<new>> \o list /\ entry' = entry + 1
      BY <2>1, <2>5
    <3> HIDE DEF new
    <3>4. list \in Seq(Elements) /\ <<new>> \in Seq(Elements) /\ Len(<<new>>) = 1
      BY <3>2 DEF ListInv, ListOK
    <3>5. /\ list' \in Seq(Elements) /\ Len(list') = 1 + Len(list)
          /\ \A k \in 1..Len(list') : list'[k] = IF k <= 1 THEN <<new>>[k] ELSE list[k - 1]
      BY <3>3, <3>4
    <3>6. ASSUME NEW k \in DOMAIN list' PROVE \E n \in DOMAIN Madt : Stands(list'[k], n)
      <4>1. k \in 1..Len(list') /\ Len(list) \in Nat /\ DOMAIN list = 1..Len(list)
        OBVIOUS
      <4>2. CASE k = 1
        <5>1. list'[k] = new
          BY <3>5, <4>2
        <5> QED BY <2>2, <3>2, <5>1
      <4>3. CASE k # 1
        <5>1. list'[k] = list[k - 1] /\ k - 1 \in DOMAIN list
          BY <3>5, <4>3, SMT
        <5> QED BY <5>1 DEF ListInv, ListOK
      <4> QED BY <4>2, <4>3
    <3>7. entry' \in 0..(Len(Madt) + 1)
      BY <2>2, <3>3, MadtFacts, SMT
    <3> QED BY <2>3, <3>5, <3>6, <3>7 DEF ListInv, ListOK
  <2> QED BY <2>4, <2>5
<1>2. CASE EndInit
  BY <1>2 DEF EndInit, ListInv, ListOK, VersionsOK
<1>3. ASSUME NEW t \in Threads, MapGsi(t) \/ ReadEntry(t) \/ Select(t) \/ ReadWindow(t) \/ Return(t)
      PROVE  ListInv'
  <2>1. UNCHANGED <<entry, list, regs>>
    BY <1>3, Zenon DEF MapGsi, ReadEntry, Select, ReadWindow, Return
  <2> QED BY <2>1 DEF ListInv, ListOK, VersionsOK
<1>4. ASSUME NEW t \in Threads, WriteWindow(t) PROVE ListInv'
  <2> DEFINE io == job[t].io
  <2>1. /\ UNCHANGED <<entry, list>>
        /\ regs' = IF sel[io] = Version THEN regs
                   ELSE [regs EXCEPT ![io][sel[io]] = Half(job[t])]
    BY <1>4 DEF WriteWindow
  <2>2. Version \in DOMAIN regs[io] \/ io \notin Ioapics
    BY DEF ListInv, VersionsOK, Registers
  <2>3. VersionsOK'
    BY <2>1 DEF ListInv, VersionsOK
  <2> QED BY <2>1, <2>3 DEF ListInv, ListOK
<1> QED BY <1>1, <1>2, <1>3, <1>4 DEF Next, Call

\* The element that is found is the home of the GSI.
LEMMA Found ==
  ASSUME ListInv, NEW g \in Nat, Serving(g) # {}
  PROVE  /\ First(Serving(g)) \in DOMAIN list
         /\ g \in Gsis /\ list[First(Serving(g))].io = Home(g).io
         /\ list[First(Serving(g))].gsi = Home(g).gsi
<1> DEFINE k == First(Serving(g))
<1>1. Serving(g) \subseteq Nat
  BY DEF Serving, ListInv, ListOK
<1>2. k \in Serving(g)
  BY <1>1, FirstIsIn
<1>3. k \in DOMAIN list /\ list[k].gsi <= g /\ g <= list[k].gsi + list[k].mre
  BY <1>2 DEF Serving
<1> HIDE DEF k
<1>4. PICK n \in DOMAIN Madt : Stands(list[k], n)
  BY <1>3 DEF ListInv, ListOK
<1>5. InRange(n, g)
  <2>1. Madt[n].gsi \in Nat /\ MaxEntry[Madt[n].io] \in 0..255
    BY MadtFacts
  <2>2. list[k].mre \in 0..MaxEntry[Madt[n].io] /\ list[k].gsi = Madt[n].gsi
    BY <1>4 DEF Stands
  <2> QED BY <1>3, <2>1, <2>2, SMT DEF InRange
<1>6. g \in Gsis /\ Home(g) = Madt[n]
  BY <1>5, InRangeIsHome
<1> QED BY <1>3, <1>4, <1>6 DEF Stands, k

\* ioapic_list serves a GSI, if at all, with the I/O APIC that has it, however many were
\* left out or could not be read, and whatever callers do at the same time.
THEOREM GsisFindTheirHome == Spec => []HomeIsFound
<1>1. ListInv /\ [Next]_vars => ListInv'
  <2>1. ListInv /\ UNCHANGED vars => ListInv'
    BY DEF vars, ListInv, ListOK, VersionsOK
  <2> QED BY <2>1, ListNext
<1>2. ListInv => HomeIsFound
  <2> SUFFICES ASSUME ListInv, NEW g \in Gsis \union {r.gsi : r \in Requests}, Serving(g) # {}
               PROVE  LET found == list[First(Serving(g))] IN
                      g \in Gsis /\ found.io = Home(g).io
                      /\ EntryOf(g, found) \in 0..MaxEntry[found.io]
    BY DEF HomeIsFound
  <2>1. g \in Nat
    BY HomeFacts, IoapicAssumption
  <2> QED BY <2>1, Found, HomeFacts DEF EntryOf
<1> QED BY <1>1, <1>2, ListInit, PTL DEF Spec

-----------------------------------------------------------------------------
(* One caller at a time. *)

LEMMA ResetFacts ==
  ASSUME NEW io \in Ioapics, NEW e \in 0..MaxEntry[io]
  PROVE  /\ ResetRegisters(io)[LowIndex(e)] = Masked
         /\ ResetRegisters(io)[HighIndex(e)] = Nowhere
<1>1. e \in Nat
  OBVIOUS
<1>2. LowIndex(e) % 2 = 0 /\ HighIndex(e) % 2 # 0
  BY SMT DEF LowIndex, HighIndex
<1>3. /\ LowIndex(e) \in Registers(io) /\ HighIndex(e) \in Registers(io)
      /\ LowIndex(e) # Version /\ HighIndex(e) # Version
  BY Indices
<1>4. ASSUME NEW x \in Registers(io), x # Version
      PROVE  ResetRegisters(io)[x] = IF x % 2 = 0 THEN Masked ELSE Nowhere
  BY <1>4, Zenon DEF ResetRegisters
<1> QED BY <1>2, <1>3, <1>4

LEMMA IoapicInit == Init => IoapicInv
<1> SUFFICES ASSUME Init PROVE IoapicInv
  OBVIOUS
<1>1. \A io \in Ioapics : regs[io] = ResetRegisters(io)
  BY DEF Init
<1>2. HalvesOK
  <2> SUFFICES ASSUME NEW io \in Ioapics, NEW e \in 0..MaxEntry[io]
               PROVE  regs[io][LowIndex(e)] \in Lows /\ regs[io][HighIndex(e)] \in Dests
    BY DEF HalvesOK
  <2>1. Nowhere \in Dests
    BY SMT DEF Nowhere, Dests
  <2> QED BY <1>1, <2>1, ResetFacts DEF Lows
<1>3. HardwareOK
  BY <1>2 DEF Init, HardwareOK
<1>4. CallsOK /\ TurnsOK
  BY DEF Init, CallsOK, TurnsOK, Calling
<1>5. RoutesOK
  <2> SUFFICES ASSUME NEW g \in Gsis PROVE Whole(g)
    BY DEF RoutesOK
  <2> DEFINE io == Home(g).io
  <2> DEFINE e == g - Home(g).gsi
  <2>1. io \in Ioapics /\ e \in 0..MaxEntry[io]
    BY HomeFacts
  <2>2. regs[io][LowIndex(e)] = Masked /\ regs[io][HighIndex(e)] = Nowhere
    BY <1>1, <2>1, ResetFacts
  <2> QED BY <2>2 DEF Whole, Route, Entry
<1> QED BY <1>3, <1>4, <1>5, ListInit DEF IoapicInv, Init

LEMMA JobFacts ==
  ASSUME IoapicInv, NEW t \in Threads, Calling(t)
  PROVE  job[t] \in Jobs /\ job[t].io \in Ioapics /\ CallOK(t) /\ entry = 0
<1>1. job[t] \in Jobs /\ CallOK(t)
  BY DEF IoapicInv, CallsOK, Calling
<1> QED BY <1>1, SMT DEF Jobs, CallOK

\* A job that moves on, or has one half of an entry, is a job.
LEMMA JobMoves ==
  ASSUME NEW j \in Jobs, NEW at \in {"selectLow", "low", "selectHigh", "high", "return"}, NEW k,
         k = [j EXCEPT !.at = at]
  PROVE  /\ k \in Jobs /\ k.op = j.op /\ k.io = j.io /\ k.entry = j.entry
         /\ k.low = j.low /\ k.dest = j.dest /\ k.at = at
BY SMT DEF Jobs

LEMMA JobHalf ==
  ASSUME NEW j \in Jobs, NEW value, NEW k, k = WithHalf(j, value),
         value \in IF j.at = "low" THEN Lows ELSE Dests
  PROVE  /\ k \in Jobs /\ k.op = j.op /\ k.io = j.io /\ k.entry = j.entry
         /\ k.low = IF j.at = "low" THEN value ELSE j.low
         /\ k.dest = IF j.at = "low" THEN j.dest ELSE value
<1>1. CASE j.at = "low"
  <2>1. k = [j EXCEPT !.low = value] /\ value \in Lows
    BY <1>1 DEF WithHalf
  <2> QED BY <1>1, <2>1, SMT DEF Jobs
<1>2. CASE j.at # "low"
  <2>1. k = [j EXCEPT !.dest = value] /\ value \in Dests
    BY <1>2 DEF WithHalf
  <2> QED BY <1>2, <2>1, SMT DEF Jobs
<1> QED BY <1>1, <1>2

LEMMA FollowingFacts ==
  /\ Following("selectLow") = "low" /\ Following("low") = "selectHigh"
  /\ Following("selectHigh") = "high" /\ Following("high") = "return"
BY DEF Following

\* A step of one call leaves the others as they are, if it leaves what they use.
LEMMA OthersOK ==
  ASSUME IoapicInv, NEW t \in Threads, UNCHANGED <<entry, mapped>>,
         \A u \in Threads \ {t} : job'[u] = job[u],
         \A u \in Threads \ {t} : Calling(u) =>
           /\ sel'[job[u].io] = sel[job[u].io]
           /\ \A e \in 0..MaxEntry[job[u].io] :
                /\ regs'[job[u].io][LowIndex(e)] = regs[job[u].io][LowIndex(e)]
                /\ regs'[job[u].io][HighIndex(e)] = regs[job[u].io][HighIndex(e)]
  PROVE  \A u \in Threads \ {t} : Calling(u)' => CallOK(u)'
<1> SUFFICES ASSUME NEW u \in Threads \ {t}, Calling(u)' PROVE CallOK(u)'
  OBVIOUS
<1>1. job'[u] = job[u] /\ Calling(u)
  BY DEF Calling
<1>2. CallOK(u)
  BY <1>1, JobFacts
<1>3. job[u].entry \in 0..MaxEntry[job[u].io]
  BY <1>2 DEF CallOK
<1> QED BY <1>1, <1>2 DEF CallOK

\* Callers that took turns still do, while each stays at its I/O APIC.
LEMMA TurnsKept ==
  ASSUME IoapicInv, NEW t \in Threads,
         \A u \in Threads \ {t} : job'[u] = job[u],
         Calling(t)' => /\ Calling(t) /\ job'[t].io = job[t].io
  PROVE  TurnsOK'
BY DEF IoapicInv, TurnsOK, Calling

\* Where no register is written, routes stay whole, as long as a call that is half way
\* through one stays in it.
LEMMA RoutesKept ==
  ASSUME IoapicInv, NEW t \in Threads, regs' = regs,
         \A u \in Threads \ {t} : job'[u] = job[u],
         \A g \in Gsis : HalfWay(t, g) => HalfWay(t, g)'
  PROVE  RoutesOK'
<1> SUFFICES ASSUME NEW g \in Gsis PROVE Whole(g)' \/ \E u \in Threads : HalfWay(u, g)'
  BY DEF RoutesOK
<1>1. Whole(g)' <=> Whole(g)
  BY DEF Whole, Route, Entry
<1>2. ASSUME NEW u \in Threads, HalfWay(u, g) PROVE HalfWay(u, g)'
  <2>1. CASE u = t
    BY <1>2, <2>1
  <2>2. CASE u # t
    BY <1>2 DEF HalfWay, Writes, Calling
  <2> QED BY <2>1, <2>2
<1> QED BY <1>1, <1>2 DEF IoapicInv, RoutesOK

\* init_apic adds I/O APICs before there is any call.
LEMMA AddIoapicInv ==
  ASSUME IoapicInv, AddIoapic
  PROVE  IoapicInv'
<1>1. ListInv' /\ UNCHANGED <<pic, regs, job>> /\ entry \in DOMAIN Madt
  BY ListNext DEF IoapicInv, AddIoapic, Next
<1>2. entry # 0
  BY <1>1, MadtFacts, SMT
<1>3. \A t \in Threads : ~Calling(t)
  BY <1>2, JobFacts
<1>4. Madt[entry].io \in Ioapics
  BY <1>1, MadtFacts
<1>5. PICK maps \in BOOLEAN :
        /\ mapped' = IF maps THEN mapped \union {Madt[entry].io} ELSE mapped
        /\ sel' = IF maps THEN [sel EXCEPT ![Madt[entry].io] = Version] ELSE sel
  BY DEF AddIoapic
<1>6. HardwareOK'
  <2>1. mapped' \subseteq Ioapics /\ HalvesOK'
    BY <1>1, <1>4, <1>5 DEF IoapicInv, HardwareOK, HalvesOK
  <2>2. sel' \in [Ioapics -> Nat] /\ \A io \in Ioapics : sel'[io] \in {0} \union Registers(io)
    BY <1>5 DEF IoapicInv, HardwareOK, Version, Registers
  <2> QED BY <2>1, <2>2 DEF HardwareOK
<1>7. CallsOK' /\ TurnsOK'
  BY <1>1, <1>3 DEF IoapicInv, CallsOK, TurnsOK, Calling
<1>8. RoutesOK'
  <2> SUFFICES ASSUME NEW g \in Gsis PROVE Whole(g)'
    BY DEF RoutesOK
  <2>1. Whole(g)
    BY <1>3 DEF IoapicInv, RoutesOK, HalfWay, Writes
  <2> QED BY <1>1, <2>1 DEF Whole, Route, Entry
<1> QED BY <1>1, <1>6, <1>7, <1>8 DEF IoapicInv

LEMMA EndInitInv ==
  ASSUME IoapicInv, EndInit
  PROVE  IoapicInv'
<1>1. ListInv' /\ UNCHANGED <<list, mapped, sel, regs, job>> /\ entry' = 0 /\ pic' \in BOOLEAN
  BY ListNext DEF IoapicInv, EndInit, Next
<1>2. \A t \in Threads : CallOK(t) => CallOK(t)'
  BY <1>1 DEF CallOK
<1>3. HardwareOK' /\ CallsOK' /\ TurnsOK'
  BY <1>1, <1>2 DEF IoapicInv, HardwareOK, HalvesOK, CallsOK, TurnsOK, Calling
<1>4. RoutesOK'
  BY <1>1 DEF IoapicInv, RoutesOK, Whole, Route, Entry, HalfWay, Writes, Calling
<1> QED BY <1>1, <1>3, <1>4 DEF IoapicInv

\* A new call is at the entry of its GSI, and has that I/O APIC to itself.
LEMMA NewCallInv ==
  ASSUME IoapicInv, NEW t \in Threads, entry = 0, job[t] = Idle,
         UNCHANGED <<entry, list, pic, mapped, sel, regs>>, ListInv',
         NEW j \in Jobs \union {Lost}, job' = [job EXCEPT ![t] = j],
         j # Lost => /\ j.at = "selectLow" /\ j.entry \in 0..MaxEntry[j.io]
                     /\ j.op = "write" => ForRequest(j)
                     /\ \A u \in Threads : Calling(u) => job[u].io # j.io
  PROVE  IoapicInv'
<1>1. job \in [Threads -> Jobs \union {Idle, Lost}]
  BY DEF IoapicInv, CallsOK
<1>2. /\ job' \in [Threads -> Jobs \union {Idle, Lost}] /\ job'[t] = j
      /\ \A u \in Threads \ {t} : job'[u] = job[u]
  BY <1>1
<1>3. HardwareOK'
  BY DEF IoapicInv, HardwareOK, HalvesOK
<1>4. CallsOK'
  <2>1. Calling(t)' => CallOK(t)'
    BY DEF Calling, CallOK
  <2>2. \A u \in Threads \ {t} : Calling(u)' => CallOK(u)'
    BY OthersOK
  <2> QED BY <1>2, <2>1, <2>2 DEF CallsOK
<1>5. TurnsOK'
  BY DEF IoapicInv, TurnsOK, Calling
<1>6. RoutesOK'
  <2>1. \A g \in Gsis : ~HalfWay(t, g)
    BY DEF HalfWay, Writes, Calling
  <2> QED BY <2>1, RoutesKept
<1> QED BY <1>3, <1>4, <1>5, <1>6 DEF IoapicInv

LEMMA RequestFacts ==
  ASSUME NEW r \in Requests
  PROVE  Low(r) \in Lows /\ Dest(r) \in Dests /\ r.gsi \in Nat
<1>1. r.id \in Nat /\ r.gsi \in Nat
  BY IoapicAssumption
<1>2. r.id % 256 \in 0..255
  BY <1>1, SMT
<1> QED BY <1>1 DEF Lows, Dests, Dest

LEMMA MapGsiInv ==
  ASSUME IoapicInv, Serialised, NEW t \in Threads, MapGsi(t)
  PROVE  IoapicInv'
<1>1. /\ entry = 0 /\ job[t] = Idle /\ UNCHANGED <<entry, list, pic, mapped, sel, regs>>
      /\ ListInv'
  BY ListNext DEF MapGsi, IoapicInv, Next, Call
<1>2. PICK r \in Requests :
        IF Serving(r.gsi) = {}
          THEN job' = [job EXCEPT ![t] = Lost]
          ELSE LET found == list[First(Serving(r.gsi))] IN
               /\ Alone(found.io)
               /\ job' = [job EXCEPT ![t] = [op |-> "write", io |-> found.io,
                            entry |-> EntryOf(r.gsi, found), low |-> Low(r), dest |-> Dest(r),
                            at |-> "selectLow"]]
  BY DEF MapGsi
<1>3. CASE Serving(r.gsi) = {}
  BY <1>1, <1>2, <1>3, NewCallInv
<1>4. CASE Serving(r.gsi) # {}
  <2> DEFINE io == Home(r.gsi).io
  <2> DEFINE j == [op |-> "write", io |-> io, entry |-> r.gsi - Home(r.gsi).gsi,
                   low |-> Low(r), dest |-> Dest(r), at |-> "selectLow"]
  <2>1. r.gsi \in Gsis /\ Alone(io) /\ job' = [job EXCEPT ![t] = j]
    BY <1>2, <1>4, RequestFacts, Found DEF IoapicInv, EntryOf
  <2>2. io \in Ioapics /\ r.gsi - Home(r.gsi).gsi \in 0..MaxEntry[io] /\ MaxEntry[io] \in 0..255
    BY <2>1, HomeFacts, MadtFacts
  <2>3. r.gsi - Home(r.gsi).gsi \in 0..255
    BY <2>2, SMT
  <2>4. j \in Jobs
    BY <2>2, RequestFacts DEF Jobs
  <2>5. /\ j.at = "selectLow" /\ j.entry = r.gsi - Home(r.gsi).gsi /\ j.op = "write"
        /\ j.io = io /\ j.low = Low(r) /\ j.dest = Dest(r)
    OBVIOUS
  <2>6. ForRequest(j)
    BY <2>1 DEF ForRequest
  <2>7. \A u \in Threads : Calling(u) => job[u].io # io
    BY <2>1 DEF Alone
  <2> HIDE DEF j, io
  <2> QED BY <1>1, <2>1, <2>2, <2>4, <2>5, <2>6, <2>7, NewCallInv
<1> QED BY <1>3, <1>4

LEMMA FreshRead ==
  ASSUME NEW io \in Ioapics, NEW e \in 0..MaxEntry[io]
  PROVE  [op |-> "read", io |-> io, entry |-> e,
          low |-> Masked, dest |-> Nowhere, at |-> "selectLow"] \in Jobs
<1>1. MaxEntry[io] \in 0..255
  BY MadtFacts
<1>2. e \in 0..255
  BY <1>1, SMT
<1> QED BY <1>2, SMT DEF Jobs, Lows, Dests, Nowhere

LEMMA ReadEntryInv ==
  ASSUME IoapicInv, Serialised, NEW t \in Threads, ReadEntry(t)
  PROVE  IoapicInv'
<1>1. /\ entry = 0 /\ job[t] = Idle /\ UNCHANGED <<entry, list, pic, mapped, sel, regs>>
      /\ ListInv'
  BY ListNext DEF ReadEntry, IoapicInv, Next, Call
<1>0. PICK io \in mapped : \E e \in 0..MaxEntry[io] :
        /\ Alone(io)
        /\ job' = [job EXCEPT ![t] = [op |-> "read", io |-> io, entry |-> e,
                     low |-> Masked, dest |-> Nowhere, at |-> "selectLow"]]
  BY DEF ReadEntry
<1>2. PICK e \in 0..MaxEntry[io] :
        /\ Alone(io)
        /\ job' = [job EXCEPT ![t] = [op |-> "read", io |-> io, entry |-> e,
                     low |-> Masked, dest |-> Nowhere, at |-> "selectLow"]]
  BY <1>0
<1> DEFINE j == [op |-> "read", io |-> io, entry |-> e,
                 low |-> Masked, dest |-> Nowhere, at |-> "selectLow"]
<1>3. io \in Ioapics
  BY DEF IoapicInv, HardwareOK
<1>5. j \in Jobs
  BY <1>3, FreshRead
<1>6. j.at = "selectLow" /\ j.entry = e /\ j.op = "read" /\ j.io = io
  OBVIOUS
<1>7. \A u \in Threads : Calling(u) => job[u].io # io
  BY <1>2 DEF Alone
<1>8. job' = [job EXCEPT ![t] = j]
  BY <1>2
<1> HIDE DEF j
<1> QED BY <1>1, <1>5, <1>6, <1>7, <1>8, NewCallInv

\* A call whose I/O APIC was never mapped faults at its first access.
LEMMA SelectInv ==
  ASSUME IoapicInv, NEW t \in Threads, Select(t)
  PROVE  IoapicInv'
<1> DEFINE j == job[t]
<1>1. /\ Calling(t) /\ j.at \in {"selectLow", "selectHigh"} /\ ListInv'
      /\ UNCHANGED <<entry, list, pic, mapped, regs>>
  BY ListNext DEF Select, IoapicInv, Next, Call
<1>2. j \in Jobs /\ j.io \in Ioapics /\ CallOK(t) /\ j.low \in Lows /\ j.dest \in Dests
  BY <1>1, JobFacts, SMT DEF Jobs
<1>3. job \in [Threads -> Jobs \union {Idle, Lost}] /\ sel \in [Ioapics -> Nat]
  BY DEF IoapicInv, CallsOK, HardwareOK
<1>4. CASE j.io \notin mapped
  <2>1. job' = [job EXCEPT ![t] = Lost] /\ sel' = sel
    BY <1>4 DEF Select
  <2>2. /\ job' \in [Threads -> Jobs \union {Idle, Lost}] /\ ~Calling(t)'
        /\ \A u \in Threads \ {t} : job'[u] = job[u]
    BY <1>3, <2>1 DEF Calling
  <2>3. \A g \in Gsis : ~HalfWay(t, g)
    BY <1>2, <1>4 DEF HalfWay, CallOK
  <2>4. RoutesOK' /\ TurnsOK'
    BY <1>1, <2>2, <2>3, RoutesKept, TurnsKept
  <2>5. CallsOK'
    BY <1>1, <2>1, <2>2, OthersOK DEF CallsOK
  <2>6. HardwareOK'
    BY <1>1, <2>1 DEF IoapicInv, HardwareOK, HalvesOK
  <2> QED BY <1>1, <2>4, <2>5, <2>6 DEF IoapicInv
<1>5. CASE j.io \in mapped
  <2> DEFINE next == Following(j.at)
  <2> DEFINE k == [j EXCEPT !.at = next]
  <2>1. /\ next \in {"low", "high"}
        /\ next = "low" <=> j.at = "selectLow"
        /\ next = "high" <=> j.at = "selectHigh"
    BY <1>1, FollowingFacts
  <2>2. job' = [job EXCEPT ![t] = k] /\ sel' = [sel EXCEPT ![j.io] = Index(j)]
    BY <1>5 DEF Select
  <2> HIDE DEF next
  <2>3. /\ k \in Jobs /\ k.op = j.op /\ k.io = j.io /\ k.entry = j.entry /\ k.low = j.low
        /\ k.dest = j.dest /\ k.at = next
    <3>1. j \in Jobs /\ next \in {"selectLow", "low", "selectHigh", "high", "return"}
      BY <1>2, <2>1
    <3> QED BY <3>1, JobMoves
  <2>4. Index(j) = IF next = "low" THEN LowIndex(j.entry) ELSE HighIndex(j.entry)
    BY <2>1 DEF Index
  <2>5. Index(j) \in Registers(j.io) /\ Index(j) \in Nat
    BY <1>2, <2>4, Indices DEF CallOK
  <2> HIDE DEF k
  <2>6. /\ job' \in [Threads -> Jobs \union {Idle, Lost}] /\ job'[t] = k
        /\ \A u \in Threads \ {t} : job'[u] = job[u]
    BY <1>3, <2>2, <2>3
  <2>7. /\ sel'[j.io] = Index(j) /\ sel' \in [Ioapics -> Nat]
        /\ \A io \in Ioapics \ {j.io} : sel'[io] = sel[io]
    BY <1>2, <1>3, <2>2, <2>5
  <2>8. HardwareOK'
    BY <1>1, <2>5, <2>7 DEF IoapicInv, HardwareOK, HalvesOK
  <2>9. CallsOK'
    <3>1. CallOK(t)'
      BY <1>1, <1>2, <1>5, <2>1, <2>3, <2>4, <2>6, <2>7 DEF CallOK, ForRequest
    <3>2. \A u \in Threads \ {t} : Calling(u) => sel'[job[u].io] = sel[job[u].io]
      BY <1>1, <2>7, JobFacts DEF IoapicInv, TurnsOK
    <3>3. \A u \in Threads \ {t} : Calling(u)' => CallOK(u)'
      BY <1>1, <2>6, <3>2, OthersOK
    <3> QED BY <2>6, <3>1, <3>3 DEF CallsOK
  <2>10. TurnsOK'
    BY <1>1, <2>3, <2>6, TurnsKept
  <2>11. RoutesOK'
    <3>1. Calling(t)'
      BY <2>3, <2>6, IoapicAssumption DEF Calling
    <3>2. \A g \in Gsis : HalfWay(t, g) => HalfWay(t, g)'
      <4> SUFFICES ASSUME NEW g \in Gsis, HalfWay(t, g) PROVE HalfWay(t, g)'
        OBVIOUS
      <4>1. j.op = "write" /\ j.io = Home(g).io /\ j.entry = g - Home(g).gsi /\ j.at = "selectHigh"
        BY <1>1 DEF HalfWay, Writes
      <4>2. k.op = "write" /\ k.io = Home(g).io /\ k.entry = g - Home(g).gsi /\ k.at = "high"
        BY <2>1, <2>3, <4>1
      <4> QED BY <2>6, <3>1, <4>2 DEF HalfWay, Writes
    <3> QED BY <1>1, <2>6, <3>2, RoutesKept
  <2> QED BY <1>1, <2>8, <2>9, <2>10, <2>11 DEF IoapicInv
<1> QED BY <1>4, <1>5

LEMMA ReturnInv ==
  ASSUME IoapicInv, NEW t \in Threads, Return(t)
  PROVE  IoapicInv'
<1>1. /\ Calling(t) /\ job[t].at = "return" /\ ListInv' /\ job' = [job EXCEPT ![t] = Idle]
      /\ UNCHANGED <<entry, list, pic, mapped, sel, regs>>
  BY ListNext DEF Return, IoapicInv, Next, Call
<1>2. /\ job' \in [Threads -> Jobs \union {Idle, Lost}] /\ ~Calling(t)'
      /\ \A u \in Threads \ {t} : job'[u] = job[u]
  BY <1>1 DEF IoapicInv, CallsOK, Calling
<1>3. RoutesOK' /\ TurnsOK'
  BY <1>1, <1>2, RoutesKept, TurnsKept DEF HalfWay
<1>4. CallsOK'
  BY <1>1, <1>2, OthersOK DEF CallsOK
<1>5. HardwareOK'
  BY <1>1 DEF IoapicInv, HardwareOK, HalvesOK
<1> QED BY <1>1, <1>3, <1>4, <1>5 DEF IoapicInv

\* What is read is the half that was selected.
LEMMA ReadWindowJob ==
  ASSUME IoapicInv, NEW t \in Threads, ReadWindow(t)
  PROVE  \E k \in Jobs :
           /\ job' = [job EXCEPT ![t] = k]
           /\ k.op = "read" /\ k.io = job[t].io /\ k.entry = job[t].entry
           /\ k.low = IF job[t].at = "low" THEN regs[k.io][LowIndex(k.entry)] ELSE job[t].low
           /\ k.dest = IF job[t].at = "low" THEN job[t].dest ELSE regs[k.io][HighIndex(k.entry)]
           /\ k.at = IF job[t].at = "low" THEN "selectHigh" ELSE "return"
<1> DEFINE j == job[t]
<1> DEFINE value == regs[j.io][sel[j.io]]
<1> DEFINE half == WithHalf(j, value)
<1> DEFINE k == [half EXCEPT !.at = Following(j.at)]
<1>1. /\ Calling(t) /\ j.at \in {"low", "high"} /\ j.op = "read"
      /\ job' = [job EXCEPT ![t] = k]
  BY DEF ReadWindow
<1>2. j \in Jobs /\ j.io \in Ioapics /\ CallOK(t)
  BY <1>1, JobFacts
<1>3. value = regs[j.io][IF j.at = "low" THEN LowIndex(j.entry) ELSE HighIndex(j.entry)]
  BY <1>1, <1>2 DEF CallOK
<1>4. value \in IF j.at = "low" THEN Lows ELSE Dests
  BY <1>2, <1>3 DEF CallOK, IoapicInv, HardwareOK, HalvesOK
<1> HIDE DEF value
<1>5. /\ half \in Jobs /\ half.op = j.op /\ half.io = j.io /\ half.entry = j.entry
      /\ half.low = IF j.at = "low" THEN value ELSE j.low
      /\ half.dest = IF j.at = "low" THEN j.dest ELSE value
  BY <1>2, <1>4, JobHalf
<1> HIDE DEF half
<1>6. Following(j.at) = IF j.at = "low" THEN "selectHigh" ELSE "return"
  BY <1>1, FollowingFacts
<1>7. /\ k \in Jobs /\ k.op = j.op /\ k.io = j.io /\ k.entry = j.entry
      /\ k.low = half.low /\ k.dest = half.dest
      /\ k.at = IF j.at = "low" THEN "selectHigh" ELSE "return"
  BY <1>5, <1>6, JobMoves
<1> HIDE DEF k
<1> QED BY <1>1, <1>3, <1>5, <1>7

LEMMA ReadWindowInv ==
  ASSUME IoapicInv, NEW t \in Threads, ReadWindow(t)
  PROVE  IoapicInv'
<1> DEFINE j == job[t]
<1>1. /\ Calling(t) /\ j.at \in {"low", "high"} /\ j.op = "read" /\ ListInv'
      /\ UNCHANGED <<entry, list, pic, mapped, sel, regs>>
  BY ListNext DEF ReadWindow, IoapicInv, Next, Call
<1>2. PICK k \in Jobs :
        /\ job' = [job EXCEPT ![t] = k]
        /\ k.op = "read" /\ k.io = j.io /\ k.entry = j.entry
        /\ k.low = IF j.at = "low" THEN regs[k.io][LowIndex(k.entry)] ELSE j.low
        /\ k.dest = IF j.at = "low" THEN j.dest ELSE regs[k.io][HighIndex(k.entry)]
        /\ k.at = IF j.at = "low" THEN "selectHigh" ELSE "return"
  BY ReadWindowJob
<1>3. /\ job' \in [Threads -> Jobs \union {Idle, Lost}] /\ job'[t] = k
      /\ \A u \in Threads \ {t} : job'[u] = job[u]
  BY <1>2 DEF IoapicInv, CallsOK
<1>4. CallsOK'
  <2>1. CallOK(t)
    BY <1>1, JobFacts
  <2>2. CallOK(t)'
    BY <1>1, <1>2, <2>1 DEF CallOK
  <2>3. \A u \in Threads \ {t} : Calling(u)' => CallOK(u)'
    BY <1>1, <1>3, OthersOK
  <2> QED BY <1>3, <2>2, <2>3 DEF CallsOK
<1>5. TurnsOK'
  BY <1>1, <1>2, TurnsKept
<1>6. RoutesOK'
  BY <1>1, <1>3, RoutesKept DEF HalfWay, Writes
<1>7. HardwareOK'
  BY <1>1 DEF IoapicInv, HardwareOK, HalvesOK
<1> QED BY <1>1, <1>4, <1>5, <1>6, <1>7 DEF IoapicInv

\* What is written is the half that was selected.
LEMMA WrittenRegisters ==
  ASSUME IoapicInv, NEW t \in Threads, WriteWindow(t), NEW io \in Ioapics, NEW e \in 0..MaxEntry[io]
  PROVE  /\ regs'[io][LowIndex(e)] =
              IF io = job[t].io /\ e = job[t].entry /\ job[t].at = "low" THEN job[t].low
              ELSE regs[io][LowIndex(e)]
         /\ regs'[io][HighIndex(e)] =
              IF io = job[t].io /\ e = job[t].entry /\ job[t].at # "low" THEN job[t].dest
              ELSE regs[io][HighIndex(e)]
<1> DEFINE j == job[t]
<1> DEFINE x == IF j.at = "low" THEN LowIndex(j.entry) ELSE HighIndex(j.entry)
<1> DEFINE value == IF j.at = "low" THEN j.low ELSE j.dest
<1>1. /\ Calling(t) /\ j.at \in {"low", "high"}
      /\ regs' = IF sel[j.io] = Version THEN regs
                 ELSE [regs EXCEPT ![j.io][sel[j.io]] = Half(j)]
  BY DEF WriteWindow
<1>2. j \in Jobs /\ j.io \in Ioapics /\ CallOK(t)
  BY <1>1, JobFacts
<1>3. /\ j.entry \in 0..MaxEntry[j.io] /\ sel[j.io] = x /\ x \in Registers(j.io) /\ x # Version
      /\ Half(j) = value
  BY <1>1, <1>2, Indices DEF CallOK, Half
<1>4. /\ regs'[j.io][x] = value /\ \A y : y # x => regs'[j.io][y] = regs[j.io][y]
      /\ \A other \in Ioapics : other # j.io => regs'[other] = regs[other]
  <2>1. /\ DOMAIN regs = Ioapics /\ DOMAIN regs[j.io] = Registers(j.io)
    BY <1>2 DEF IoapicInv, ListInv, VersionsOK
  <2> HIDE DEF x, value
  <2>2. regs' = [regs EXCEPT ![j.io] = [regs[j.io] EXCEPT ![x] = value]]
    BY <1>1, <1>3
  <2>3. regs'[j.io] = [regs[j.io] EXCEPT ![x] = value]
    BY <1>2, <2>1, <2>2
  <2> QED BY <1>3, <2>1, <2>2, <2>3
<1>5. CASE io # j.io
  BY <1>4, <1>5
<1>6. CASE io = j.io
  <2>1. /\ LowIndex(e) # HighIndex(j.entry) /\ LowIndex(j.entry) # HighIndex(e)
        /\ LowIndex(e) = LowIndex(j.entry) \/ HighIndex(e) = HighIndex(j.entry) => e = j.entry
    BY <1>3, <1>6, Indices
  <2> QED BY <1>4, <2>1
<1> QED BY <1>5, <1>6

\* The route of the GSI is half way in between, and no other route has these registers.
LEMMA WriteWindowInv ==
  ASSUME IoapicInv, NEW t \in Threads, WriteWindow(t)
  PROVE  IoapicInv'
<1> DEFINE j == job[t]
<1> DEFINE k == [j EXCEPT !.at = Following(j.at)]
<1>1. /\ Calling(t) /\ j.at \in {"low", "high"} /\ j.op = "write" /\ ListInv'
      /\ UNCHANGED <<entry, list, pic, mapped, sel>> /\ job' = [job EXCEPT ![t] = k]
  BY ListNext DEF WriteWindow, IoapicInv, Next, Call
<1>2. j \in Jobs /\ j.io \in Ioapics /\ CallOK(t) /\ j.low \in Lows /\ j.dest \in Dests
  BY <1>1, JobFacts, SMT DEF Jobs
<1>3. Following(j.at) = IF j.at = "low" THEN "selectHigh" ELSE "return"
  BY <1>1, FollowingFacts
<1>4. /\ k \in Jobs /\ k.op = j.op /\ k.io = j.io /\ k.entry = j.entry
      /\ k.low = j.low /\ k.dest = j.dest
      /\ k.at = IF j.at = "low" THEN "selectHigh" ELSE "return"
  BY <1>2, <1>3, JobMoves
<1> HIDE DEF k
<1>5. /\ job' \in [Threads -> Jobs \union {Idle, Lost}] /\ job'[t] = k
      /\ \A u \in Threads \ {t} : job'[u] = job[u]
  BY <1>1, <1>4 DEF IoapicInv, CallsOK
<1>6. HardwareOK'
  <2>1. HalvesOK'
    BY <1>2, WrittenRegisters DEF IoapicInv, HardwareOK, HalvesOK
  <2> QED BY <1>1, <2>1 DEF IoapicInv, HardwareOK
<1>7. CallsOK'
  <2>1. CallOK(t)'
    <3>1. /\ j.at = "low" => regs'[j.io][LowIndex(j.entry)] = j.low
          /\ j.at # "low" => /\ regs'[j.io][LowIndex(j.entry)] = j.low
                             /\ regs'[j.io][HighIndex(j.entry)] = j.dest
      BY <1>1, <1>2, WrittenRegisters DEF CallOK
    <3> QED BY <1>1, <1>2, <1>4, <3>1 DEF CallOK, ForRequest
  <2>2. \A u \in Threads \ {t} : Calling(u) => job[u].io \in Ioapics /\ job[u].io # j.io
    BY <1>1, JobFacts DEF IoapicInv, TurnsOK
  <2>3. \A u \in Threads \ {t} : Calling(u)' => CallOK(u)'
    BY <1>1, <2>2, WrittenRegisters, OthersOK
  <2> QED BY <1>5, <2>1, <2>3 DEF CallsOK
<1>8. TurnsOK'
  BY <1>1, <1>4, TurnsKept
<1>9. RoutesOK'
  <2> SUFFICES ASSUME NEW g \in Gsis PROVE Whole(g)' \/ \E u \in Threads : HalfWay(u, g)'
    BY DEF RoutesOK
  <2> DEFINE io == Home(g).io
  <2> DEFINE e == g - Home(g).gsi
  <2>1. io \in Ioapics /\ e \in 0..MaxEntry[io]
    BY HomeFacts
  <2>2. CASE j.io = io /\ j.entry = e
    <3>1. CASE j.at = "low"
      <4>1. Calling(t)'
        BY <1>4, <1>5, IoapicAssumption DEF Calling
      <4> QED BY <1>1, <1>4, <1>5, <2>2, <3>1, <4>1 DEF HalfWay, Writes
    <3>2. CASE j.at # "low"
      <4>1. PICK r \in Requests :
              /\ r.gsi \in Gsis /\ j.io = Home(r.gsi).io /\ j.entry = r.gsi - Home(r.gsi).gsi
              /\ j.low = Low(r) /\ j.dest = Dest(r)
        BY <1>1, <1>2 DEF CallOK, ForRequest
      <4>2. r.gsi = g
        BY <2>2, <4>1, HomeFacts
      <4>3. regs[io][LowIndex(e)] = j.low
        BY <1>1, <1>2, <2>2, <3>2 DEF CallOK
      <4>4. regs'[io][LowIndex(e)] = Low(r) /\ regs'[io][HighIndex(e)] = Dest(r)
        BY <2>1, <2>2, <3>2, <4>1, <4>3, WrittenRegisters
      <4> QED BY <4>2, <4>4 DEF Whole, Route, Entry
    <3> QED BY <3>1, <3>2
  <2>3. CASE ~(j.io = io /\ j.entry = e)
    <3>1. regs'[io][LowIndex(e)] = regs[io][LowIndex(e)]
          /\ regs'[io][HighIndex(e)] = regs[io][HighIndex(e)]
      BY <2>1, <2>3, WrittenRegisters
    <3>2. Whole(g)' <=> Whole(g)
      BY <3>1 DEF Whole, Route, Entry
    <3>3. ~HalfWay(t, g)
      BY <2>3 DEF HalfWay, Writes
    <3>4. \A u \in Threads \ {t} : HalfWay(u, g) => HalfWay(u, g)'
      BY <1>5 DEF HalfWay, Writes, Calling
    <3> QED BY <3>2, <3>3, <3>4 DEF IoapicInv, RoutesOK
  <2> QED BY <2>2, <2>3
<1> QED BY <1>1, <1>6, <1>7, <1>8, <1>9 DEF IoapicInv

LEMMA IoapicNext ==
  ASSUME Serialised, IoapicInv, [Next]_vars
  PROVE  IoapicInv'
<1>1. CASE UNCHANGED vars
  BY <1>1 DEF vars, IoapicInv, ListInv, ListOK, VersionsOK, HardwareOK, HalvesOK, CallsOK,
     CallOK, TurnsOK, Calling, RoutesOK, Whole, Route, Entry, HalfWay, Writes
<1>2. ASSUME NEW t \in Threads, Call(t) PROVE IoapicInv'
  BY <1>2, MapGsiInv, ReadEntryInv, SelectInv, WriteWindowInv, ReadWindowInv, ReturnInv DEF
     Call
<1> QED BY <1>1, <1>2, AddIoapicInv, EndInitInv DEF Next

LEMMA IoapicInvariance == ASSUME Serialised PROVE Spec => []IoapicInv
<1>1. IoapicInv /\ [Next]_vars => IoapicInv'
  BY IoapicNext
<1> QED BY <1>1, IoapicInit, PTL DEF Spec

\* Halves of entries stay halves of entries, and every register that is selected is one.
THEOREM RegistersKeepTheirHalf == ASSUME Serialised PROVE Spec => []TypeOK
<1>1. IoapicInv => TypeOK
  <2> SUFFICES ASSUME IoapicInv PROVE TypeOK
    OBVIOUS
  <2>1. ASSUME NEW io \in Ioapics, NEW x \in Registers(io) \ {Version}
        PROVE  regs[io][x] \in IF x % 2 = 0 THEN Lows ELSE Dests
    <3>1. PICK e \in 0..MaxEntry[io] :
            \/ x = LowIndex(e) /\ x % 2 = 0
            \/ x = HighIndex(e) /\ x % 2 # 0
      <4>1. x \in Registers(io) /\ x # Version
        OBVIOUS
      <4> QED BY RegisterHalves, Zenon
    <3> QED BY <3>1 DEF IoapicInv, HardwareOK, HalvesOK
  <2> QED BY <2>1 DEF TypeOK, IoapicInv, ListInv, ListOK, HardwareOK, CallsOK
<1> QED BY <1>1, IoapicInvariance, PTL

\* A GSI that no call is changing is masked or routed as one request asked.
THEOREM RoutesAreWhole == ASSUME Serialised PROVE Spec => []NoMixture
<1>1. IoapicInv => NoMixture
  BY DEF IoapicInv, RoutesOK, Whole, HalfWay, NoMixture
<1> QED BY <1>1, IoapicInvariance, PTL

-----------------------------------------------------------------------------
(* Ioapic implements Routing. *)

\* TodoOf, of a thread that is in call j or in none.
TodoFor(j) ==
  IF j \in {Idle, Lost} THEN j
  ELSE IF j.op = "read" THEN Idle
  ELSE LET home == CHOOSE n \in DOMAIN Madt : Madt[n].io = j.io IN
       [req |-> [gsi |-> Madt[home].gsi + j.entry, low |-> j.low, dest |-> j.dest],
        parts |-> PartsLeft(j.at)]

LEMMA TodoOfJob == ASSUME NEW t PROVE TodoOf(t) = TodoFor(job[t]) /\ TodoOf(t)' = TodoFor(job'[t])
BY Zenon DEF TodoOf, TodoFor, Calling

LEMMA TodoKept == ASSUME NEW t, job'[t] = job[t] PROVE TodoOf(t)' = TodoOf(t)
BY TodoOfJob

LEMMA PartsFacts ==
  /\ PartsLeft("selectLow") = {"low", "dest"} /\ PartsLeft("low") = {"low", "dest"}
  /\ PartsLeft("selectHigh") = {"dest"} /\ PartsLeft("high") = {"dest"} /\ PartsLeft("return") = {}
BY DEF PartsLeft

\* A call for a request has that request to do.
CallFor(j, r) ==
  /\ j \in Jobs /\ j.op = "write"
  /\ r.gsi \in Gsis /\ j.io = Home(r.gsi).io /\ j.entry = r.gsi - Home(r.gsi).gsi
  /\ j.low = Low(r) /\ j.dest = Dest(r)

LEMMA TodoFacts ==
  ASSUME NEW r \in Requests, NEW j, CallFor(j, r)
  PROVE  /\ TodoFor(j) = [req |-> Asked(r), parts |-> PartsLeft(j.at)]
         /\ TodoFor(j) \notin {Idle, Lost}
<1> DEFINE home == CHOOSE n \in DOMAIN Madt : Madt[n].io = j.io
<1>1. PICK n \in DOMAIN Madt : Home(r.gsi) = Madt[n] /\ r.gsi \in Nat
  BY GsiHome DEF CallFor
<1>2. home = n
  <2>1. \A m \in DOMAIN Madt : Madt[m].io = j.io => m = n
    BY <1>1, IoapicAssumption DEF CallFor
  <2>2. Madt[n].io = j.io
    BY <1>1 DEF CallFor
  <2> QED BY <2>1, <2>2, Zenon
<1> HIDE DEF home
<1>3. Madt[home].gsi + j.entry = r.gsi
  <2>1. Madt[n].gsi \in Nat /\ j.entry = r.gsi - Madt[n].gsi
    BY <1>1, MadtFacts DEF CallFor
  <2> QED BY <1>1, <1>2, <2>1, SMT
<1>4. j \notin {Idle, Lost} /\ j.op # "read"
  BY IoapicAssumption DEF CallFor
<1>5. TodoFor(j) = [req |-> [gsi |-> Madt[home].gsi + j.entry, low |-> j.low, dest |-> j.dest],
                    parts |-> PartsLeft(j.at)]
  BY <1>4, Zenon DEF TodoFor, home
<1>6. TodoFor(j) = [req |-> Asked(r), parts |-> PartsLeft(j.at)]
  BY <1>3, <1>5 DEF Asked, CallFor
<1>7. TodoFor(j) \in Todos
  <2>1. j.at \in {"selectLow", "low", "selectHigh", "high", "return"}
    BY SMT DEF CallFor, Jobs
  <2>2. PartsLeft(j.at) \subseteq {"low", "dest"}
    BY <2>1, PartsFacts
  <2> QED BY <1>6, <2>2 DEF Todos
<1> QED BY <1>6, <1>7, IoapicAssumption

LEMMA RouteKept == ASSUME regs' = regs, NEW g PROVE Route(g)' = Route(g)
BY DEF Route, Entry

LEMMA RouteFunction ==
  ASSUME \A g \in Gsis : Route(g)' = Route(g)
  PROVE  UNCHANGED [g \in Gsis |-> Route(g)]
OBVIOUS

LEMMA TodoFunction ==
  ASSUME NEW t \in Threads, NEW value, TodoOf(t)' = value,
         \A u \in Threads \ {t} : TodoOf(u)' = TodoOf(u)
  PROVE  [u \in Threads |-> TodoOf(u)]' = [[u \in Threads |-> TodoOf(u)] EXCEPT ![t] = value]
OBVIOUS

\* When one thread has something else to do, the step is one of Routing.
LEMMA AskStep ==
  ASSUME NEW t \in Threads, NEW r \in Requests, r.gsi \in Gsis, TodoOf(t) = Idle,
         TodoOf(t)' = [req |-> Asked(r), parts |-> {"low", "dest"}],
         \A u \in Threads \ {t} : TodoOf(u)' = TodoOf(u), \A g \in Gsis : Route(g)' = Route(g)
  PROVE  R!RoutingNext
<1>1. Asked(r) \in {Asked(q) : q \in Requests} /\ Asked(r).gsi = r.gsi
  BY DEF Asked
<1>2. R!Ask(t)
  BY <1>1 DEF R!Ask
<1> QED BY <1>2 DEF R!RoutingNext

LEMMA FailStep ==
  ASSUME NEW t \in Threads, TodoOf(t)' = Lost,
         \A u \in Threads \ {t} : TodoOf(u)' = TodoOf(u), \A g \in Gsis : Route(g)' = Route(g)
  PROVE  R!RoutingNext
<1>1. R!Fail(t)
  BY DEF R!Fail
<1> QED BY <1>1 DEF R!RoutingNext

LEMMA AnswerStep ==
  ASSUME NEW t \in Threads, TodoOf(t) \notin {Idle, Lost}, TodoOf(t).parts = {},
         TodoOf(t)' = Idle,
         \A u \in Threads \ {t} : TodoOf(u)' = TodoOf(u), \A g \in Gsis : Route(g)' = Route(g)
  PROVE  R!RoutingNext
<1> DEFINE todo == [u \in Threads |-> TodoOf(u)]
<1>1. todo' = [todo EXCEPT ![t] = Idle]
  BY TodoFunction, Zenon
<1>2. todo[t] \notin {Idle, Lost} /\ todo[t].parts = {}
  OBVIOUS
<1>3. R!Answer(t)
  BY <1>1, Zenon DEF R!Answer
<1> QED BY <1>3 DEF R!RoutingNext

LEMMA WriteStep ==
  ASSUME NEW t \in Threads, NEW part \in {"low", "dest"}, NEW req, NEW parts, req.gsi \in Gsis,
         TodoOf(t) = [req |-> req, parts |-> parts], TodoOf(t) \notin {Idle, Lost}, part \in parts,
         TodoOf(t)' = [req |-> req, parts |-> parts \ {part}],
         \A u \in Threads \ {t} : TodoOf(u)' = TodoOf(u),
         Route(req.gsi)' = [Route(req.gsi) EXCEPT ![part] = req[part]],
         \A g \in Gsis \ {req.gsi} : Route(g)' = Route(g)
  PROVE  R!RoutingNext
<1> DEFINE todo == [u \in Threads |-> TodoOf(u)]
<1> DEFINE route == [g \in Gsis |-> Route(g)]
<1>1. todo' = [todo EXCEPT ![t].parts = @ \ {part}]
  <2>1. todo' = [todo EXCEPT ![t] = [req |-> req, parts |-> parts \ {part}]]
    OBVIOUS
  <2>2. todo[t] = [req |-> req, parts |-> parts]
    OBVIOUS
  <2> HIDE DEF todo
  <2>3. [todo[t] EXCEPT !.parts = todo[t].parts \ {part}] = [req |-> req, parts |-> parts \ {part}]
    BY <2>2
  <2> QED BY <2>1, <2>3
<1>2. route' = [route EXCEPT ![todo[t].req.gsi][part] = todo[t].req[part]]
  <2>1. todo[t].req = req
    OBVIOUS
  <2>2. route' = [route EXCEPT ![req.gsi] = [Route(req.gsi) EXCEPT ![part] = req[part]]]
    OBVIOUS
  <2>3. route[req.gsi] = Route(req.gsi)
    OBVIOUS
  <2> HIDE DEF todo, route
  <2> QED BY <2>1, <2>2, <2>3
<1>3. todo[t] \notin {Idle, Lost} /\ part \in todo[t].parts
  OBVIOUS
<1>4. R!Write(t, part)
  BY <1>1, <1>2, <1>3, Zenon DEF R!Write
<1> QED BY <1>4 DEF R!RoutingNext

LEMMA StutterStep ==
  ASSUME \A u \in Threads : TodoOf(u)' = TodoOf(u), \A g \in Gsis : Route(g)' = Route(g)
  PROVE  UNCHANGED R!rvars
BY DEF R!rvars

\* What a call leaves alone.
LEMMA OtherTodos ==
  ASSUME NEW t, NEW k, job' = [job EXCEPT ![t] = k]
  PROVE  \A u \in Threads \ {t} : TodoOf(u)' = TodoOf(u)
<1>1. ASSUME NEW u \in Threads \ {t} PROVE job'[u] = job[u]
  OBVIOUS
<1> QED BY TodoKept

LEMMA MapGsiStep ==
  ASSUME IoapicInv, NEW t \in Threads, MapGsi(t)
  PROVE  R!RoutingNext
<1>1. /\ job[t] = Idle /\ job \in [Threads -> Jobs \union {Idle, Lost}]
      /\ \A g \in Gsis : Route(g)' = Route(g)
  BY RouteKept DEF MapGsi, IoapicInv, CallsOK
<1>2. PICK r \in Requests :
        IF Serving(r.gsi) = {}
          THEN job' = [job EXCEPT ![t] = Lost]
          ELSE LET found == list[First(Serving(r.gsi))] IN
               job' = [job EXCEPT ![t] = [op |-> "write", io |-> found.io,
                         entry |-> EntryOf(r.gsi, found), low |-> Low(r), dest |-> Dest(r),
                         at |-> "selectLow"]]
  BY DEF MapGsi
<1>3. CASE Serving(r.gsi) = {}
  <2>1. job' = [job EXCEPT ![t] = Lost] /\ job'[t] = Lost
    BY <1>1, <1>2, <1>3
  <2>2. TodoOf(t)' = Lost
    BY <2>1, TodoOfJob DEF TodoFor
  <2> QED BY <1>1, <2>1, <2>2, OtherTodos, FailStep
<1>4. CASE Serving(r.gsi) # {}
  <2> DEFINE k == [op |-> "write", io |-> Home(r.gsi).io, entry |-> r.gsi - Home(r.gsi).gsi,
                   low |-> Low(r), dest |-> Dest(r), at |-> "selectLow"]
  <2>1. r.gsi \in Gsis /\ job' = [job EXCEPT ![t] = k]
    BY <1>2, <1>4, RequestFacts, Found DEF IoapicInv, EntryOf
  <2>2. k \in Jobs
    <3>1. /\ Home(r.gsi).io \in Ioapics
          /\ r.gsi - Home(r.gsi).gsi \in 0..MaxEntry[Home(r.gsi).io]
          /\ MaxEntry[Home(r.gsi).io] \in 0..255
      BY <2>1, HomeFacts, MadtFacts
    <3>2. r.gsi - Home(r.gsi).gsi \in 0..255
      BY <3>1, SMT
    <3> QED BY <3>1, RequestFacts DEF Jobs
  <2>3. CallFor(k, r) /\ k.at = "selectLow"
    BY <2>1, <2>2 DEF CallFor
  <2> HIDE DEF k
  <2>4. job'[t] = k
    BY <1>1, <2>1
  <2>5. TodoOf(t)' = [req |-> Asked(r), parts |-> {"low", "dest"}]
    BY <2>3, <2>4, TodoOfJob, TodoFacts, PartsFacts
  <2>6. TodoOf(t) = Idle
    BY <1>1, TodoOfJob DEF TodoFor
  <2> QED BY <1>1, <2>1, <2>5, <2>6, OtherTodos, AskStep
<1> QED BY <1>3, <1>4

\* Reading changes no route, and is nothing to do.
LEMMA ReadStep ==
  ASSUME IoapicInv, NEW t \in Threads, regs' = regs, NEW k, job' = [job EXCEPT ![t] = k],
         job[t] = Idle \/ (job[t] \in Jobs /\ job[t].op = "read"),
         k = Idle \/ (k \in Jobs /\ k.op = "read")
  PROVE  UNCHANGED R!rvars
<1>1. job'[t] = k
  BY DEF IoapicInv, CallsOK
<1>2. ASSUME NEW j, j = Idle \/ (j \in Jobs /\ j.op = "read") PROVE TodoFor(j) = Idle
  BY <1>2, IoapicAssumption DEF TodoFor
<1>3. TodoOf(t)' = TodoOf(t)
  BY <1>2, TodoOfJob
<1>4. \A u \in Threads \ {t} : TodoOf(u)' = TodoOf(u)
  BY OtherTodos
<1>5. \A u \in Threads : TodoOf(u)' = TodoOf(u)
  BY <1>3, <1>4
<1>6. \A g \in Gsis : Route(g)' = Route(g)
  BY RouteKept
<1> QED BY <1>5, <1>6, StutterStep

LEMMA CallForRequest ==
  ASSUME IoapicInv, NEW t \in Threads, Calling(t), job[t].op = "write"
  PROVE  \E r \in Requests : CallFor(job[t], r)
BY JobFacts DEF CallOK, ForRequest, CallFor

LEMMA SelectStep ==
  ASSUME IoapicInv, NEW t \in Threads, Select(t)
  PROVE  R!RoutingNext \/ UNCHANGED R!rvars
<1> DEFINE j == job[t]
<1> DEFINE next == Following(j.at)
<1> DEFINE k == [j EXCEPT !.at = next]
<1>1. /\ Calling(t) /\ j.at \in {"selectLow", "selectHigh"} /\ regs' = regs
      /\ job' = [job EXCEPT ![t] = IF j.io \in mapped THEN k ELSE Lost]
  BY DEF Select
<1>2. j \in Jobs /\ job \in [Threads -> Jobs \union {Idle, Lost}]
  BY <1>1, JobFacts DEF IoapicInv, CallsOK
<1>3. next = IF j.at = "selectLow" THEN "low" ELSE "high"
  BY <1>1, FollowingFacts
<1> HIDE DEF next
<1>4. /\ k \in Jobs /\ k.op = j.op /\ k.io = j.io /\ k.entry = j.entry /\ k.low = j.low
      /\ k.dest = j.dest /\ k.at = next
  BY <1>2, <1>3, JobMoves
<1> HIDE DEF k
<1>5. \A g \in Gsis : Route(g)' = Route(g)
  BY <1>1, RouteKept
<1>6. CASE j.io \notin mapped
  <2>1. job' = [job EXCEPT ![t] = Lost] /\ job'[t] = Lost
    BY <1>1, <1>2, <1>6
  <2>2. TodoOf(t)' = Lost
    BY <2>1, TodoOfJob DEF TodoFor
  <2> QED BY <1>5, <2>1, <2>2, OtherTodos, FailStep
<1>7. CASE j.io \in mapped /\ j.op = "read"
  BY <1>1, <1>2, <1>4, <1>7, ReadStep
<1>8. CASE j.io \in mapped /\ j.op = "write"
  <2>1. job' = [job EXCEPT ![t] = k] /\ job'[t] = k
    BY <1>1, <1>2, <1>8
  <2>2. PICK r \in Requests : CallFor(j, r)
    BY <1>1, <1>8, CallForRequest
  <2>3. CallFor(k, r)
    BY <1>4, <2>2 DEF CallFor
  <2>4. PartsLeft(k.at) = PartsLeft(j.at)
    BY <1>1, <1>3, <1>4, PartsFacts
  <2>5. TodoOf(t)' = TodoOf(t)
    BY <2>1, <2>2, <2>3, <2>4, TodoOfJob, TodoFacts
  <2>6. \A u \in Threads : TodoOf(u)' = TodoOf(u)
    BY <2>1, <2>5, OtherTodos
  <2> QED BY <1>5, <2>6, StutterStep
<1>9. j.op \in {"read", "write"}
  BY <1>2, SMT DEF Jobs
<1> QED BY <1>6, <1>7, <1>8, <1>9

LEMMA ReturnStep ==
  ASSUME IoapicInv, NEW t \in Threads, Return(t)
  PROVE  R!RoutingNext \/ UNCHANGED R!rvars
<1>1. /\ Calling(t) /\ job[t].at = "return" /\ job' = [job EXCEPT ![t] = Idle] /\ regs' = regs
  BY DEF Return
<1>2. job[t] \in Jobs /\ job \in [Threads -> Jobs \union {Idle, Lost}]
  BY <1>1, JobFacts DEF IoapicInv, CallsOK
<1>3. CASE job[t].op = "read"
  BY <1>1, <1>2, <1>3, ReadStep
<1>4. CASE job[t].op = "write"
  <2>1. PICK r \in Requests : CallFor(job[t], r)
    BY <1>1, <1>4, CallForRequest
  <2>2. TodoOf(t) = [req |-> Asked(r), parts |-> {}] /\ TodoOf(t) \notin {Idle, Lost}
    BY <1>1, <2>1, TodoFacts, TodoOfJob, PartsFacts
  <2>3. job'[t] = Idle
    BY <1>1, <1>2
  <2>4. TodoOf(t)' = Idle
    BY <2>3, TodoOfJob DEF TodoFor
  <2>5. TodoOf(t).parts = {}
    BY <2>2
  <2>6. \A g \in Gsis : Route(g)' = Route(g)
    BY <1>1, RouteKept
  <2>7. \A u \in Threads \ {t} : TodoOf(u)' = TodoOf(u)
    BY <1>1, OtherTodos
  <2> QED BY <2>2, <2>4, <2>6, <2>7, AnswerStep
<1>5. job[t].op \in {"read", "write"}
  BY <1>2, SMT DEF Jobs
<1> QED BY <1>3, <1>4, <1>5

LEMMA WriteWindowStep ==
  ASSUME IoapicInv, NEW t \in Threads, WriteWindow(t)
  PROVE  R!RoutingNext
<1> DEFINE j == job[t]
<1> DEFINE next == Following(j.at)
<1> DEFINE k == [j EXCEPT !.at = next]
<1> DEFINE part == IF j.at = "low" THEN "low" ELSE "dest"
<1>1. /\ Calling(t) /\ j.at \in {"low", "high"} /\ j.op = "write" /\ job' = [job EXCEPT ![t] = k]
  BY DEF WriteWindow
<1>2. j \in Jobs /\ CallOK(t) /\ job \in [Threads -> Jobs \union {Idle, Lost}]
  BY <1>1, JobFacts DEF IoapicInv, CallsOK
<1>3. next = IF j.at = "low" THEN "selectHigh" ELSE "return"
  BY <1>1, FollowingFacts
<1> HIDE DEF next
<1>4. /\ k \in Jobs /\ k.op = j.op /\ k.io = j.io /\ k.entry = j.entry /\ k.low = j.low
      /\ k.dest = j.dest /\ k.at = next
  BY <1>2, <1>3, JobMoves
<1> HIDE DEF k
<1>5. job'[t] = k
  BY <1>1, <1>2
<1>6. PICK r \in Requests : CallFor(j, r)
  BY <1>1, CallForRequest
<1>7. CallFor(k, r)
  BY <1>4, <1>6 DEF CallFor
<1> DEFINE parts == PartsLeft(j.at)
<1>8. PartsLeft(k.at) = parts \ {part} /\ part \in parts /\ part \in {"low", "dest"}
  BY <1>1, <1>3, <1>4, PartsFacts
<1>9. /\ TodoOf(t) = [req |-> Asked(r), parts |-> parts] /\ TodoOf(t) \notin {Idle, Lost}
      /\ TodoOf(t)' = [req |-> Asked(r), parts |-> parts \ {part}]
  BY <1>5, <1>6, <1>7, <1>8, TodoOfJob, TodoFacts
<1>10. /\ r.gsi \in Gsis /\ Asked(r).gsi = r.gsi
       /\ Asked(r)[part] = IF j.at = "low" THEN j.low ELSE j.dest
  BY <1>6 DEF CallFor, Asked
<1>11. ASSUME NEW g \in Gsis
       PROVE  /\ regs'[Home(g).io][LowIndex(g - Home(g).gsi)] =
                   IF g = r.gsi /\ j.at = "low" THEN j.low
                   ELSE regs[Home(g).io][LowIndex(g - Home(g).gsi)]
              /\ regs'[Home(g).io][HighIndex(g - Home(g).gsi)] =
                   IF g = r.gsi /\ j.at # "low" THEN j.dest
                   ELSE regs[Home(g).io][HighIndex(g - Home(g).gsi)]
  <2>1. /\ Home(g).io \in Ioapics /\ g - Home(g).gsi \in 0..MaxEntry[Home(g).io]
        /\ Home(g).io = j.io /\ g - Home(g).gsi = j.entry <=> g = r.gsi
    BY <1>6, HomeFacts DEF CallFor
  <2> QED BY <2>1, WrittenRegisters
<1>12. Route(r.gsi)' = [Route(r.gsi) EXCEPT ![part] = Asked(r)[part]]
  BY <1>10, <1>11 DEF Route, Entry
<1>13. \A g \in Gsis \ {r.gsi} : Route(g)' = Route(g)
  BY <1>11 DEF Route, Entry
<1>14. \A u \in Threads \ {t} : TodoOf(u)' = TodoOf(u)
  BY <1>1, OtherTodos
<1> HIDE DEF part, parts
<1> QED BY <1>8, <1>9, <1>10, <1>12, <1>13, <1>14, WriteStep

\* Each step of Ioapic is one of Routing, or none.
LEMMA RoutingStep ==
  ASSUME IoapicInv, [Next]_vars
  PROVE  [R!RoutingNext]_R!rvars
<1>1. CASE AddIoapic \/ EndInit \/ UNCHANGED vars
  <2>1. regs' = regs /\ job' = job
    BY <1>1 DEF AddIoapic, EndInit, vars
  <2>2. \A u \in Threads : TodoOf(u)' = TodoOf(u)
    BY <2>1, TodoKept
  <2> QED BY <2>1, <2>2, RouteKept, StutterStep
<1>2. ASSUME NEW t \in Threads, ReadEntry(t) PROVE UNCHANGED R!rvars
  <2>1. PICK io \in mapped : \E e \in 0..MaxEntry[io] :
          /\ regs' = regs /\ job[t] = Idle
          /\ job' = [job EXCEPT ![t] = [op |-> "read", io |-> io, entry |-> e,
                       low |-> Masked, dest |-> Nowhere, at |-> "selectLow"]]
    BY <1>2 DEF ReadEntry
  <2>2. PICK e \in 0..MaxEntry[io] :
          /\ regs' = regs /\ job[t] = Idle
          /\ job' = [job EXCEPT ![t] = [op |-> "read", io |-> io, entry |-> e,
                       low |-> Masked, dest |-> Nowhere, at |-> "selectLow"]]
    BY <2>1
  <2>3. [op |-> "read", io |-> io, entry |-> e,
         low |-> Masked, dest |-> Nowhere, at |-> "selectLow"] \in Jobs
    BY FreshRead DEF IoapicInv, HardwareOK
  <2> QED BY <2>2, <2>3, ReadStep
<1>3. ASSUME NEW t \in Threads, ReadWindow(t) PROVE UNCHANGED R!rvars
  <2>1. PICK k \in Jobs : k.op = "read" /\ job' = [job EXCEPT ![t] = k]
    BY <1>3, ReadWindowJob
  <2>2. regs' = regs /\ Calling(t) /\ job[t].op = "read"
    BY <1>3 DEF ReadWindow
  <2> QED BY <2>1, <2>2, JobFacts, ReadStep
<1>4. ASSUME NEW t \in Threads, Call(t) PROVE [R!RoutingNext]_R!rvars
  BY <1>2, <1>3, <1>4, MapGsiStep, SelectStep, WriteWindowStep, ReturnStep DEF Call
<1> QED BY <1>1, <1>4 DEF Next

\* The step that initialises both.
LEMMA RoutingStart == Init => R!RoutingInit
<1> SUFFICES ASSUME Init PROVE R!RoutingInit
  OBVIOUS
<1>1. \A t \in Threads : TodoOf(t) = Idle
  BY DEF Init, TodoOf, Calling
<1>2. ASSUME NEW g \in Gsis PROVE Route(g) = [low |-> Masked, dest |-> Nowhere]
  <2>1. Home(g).io \in Ioapics /\ g - Home(g).gsi \in 0..MaxEntry[Home(g).io]
    BY HomeFacts
  <2>2. regs[Home(g).io] = ResetRegisters(Home(g).io)
    BY <2>1 DEF Init
  <2> QED BY <2>1, <2>2, ResetFacts DEF Route, Entry
<1> QED BY <1>1, <1>2 DEF R!RoutingInit

\* With the list, the index arithmetic and the window hidden, interrupts_map_gsi routes
\* the GSI it is given, both halves, and no other, as long as callers take turns.
THEOREM RoutingIsImplemented == ASSUME Serialised PROVE Spec => ImplementsRouting
<1>1. IoapicInv /\ [Next]_vars => [R!RoutingNext]_R!rvars
  BY RoutingStep
<1> QED BY <1>1, RoutingStart, IoapicInvariance, PTL DEF Spec, ImplementsRouting,
   R!RoutingSpec
=============================================================================
