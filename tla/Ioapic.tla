------------------------------- MODULE Ioapic -------------------------------
(***************************************************************************)
(* I/O APICs: the loop of init_apic that lists them, and                   *)
(* interrupts_map_gsi (src/c/apic.c) with the register access of           *)
(* src/c/apic/io.c.                                                        *)
(*                                                                         *)
(* An I/O APIC has two registers in memory: one selects, the other is a    *)
(* window to what is selected.  An entry of the redirection table is two   *)
(* such registers, so writing it takes four accesses, and a step here is   *)
(* one of them.  Threads may be on one processor, where one interrupts the *)
(* other, or on several.  C leaves open which half is read first by        *)
(* ioapic_read_redir_tbl; here it is the low one.                          *)
(***************************************************************************)
EXTENDS Integers, Sequences

CONSTANTS
  Madt,        \* its I/O APIC entries: the I/O APIC and its first GSI
  MaxEntry,    \* the last redirection entry of an I/O APIC, from its register 1
  Threads,
  Requests,    \* the arguments of interrupts_map_gsi
  Serialised,  \* callers never use one I/O APIC at the same time
  Idle, Lost   \* a thread with no call; one that faulted in the kernel

Ioapics == {Madt[n].io : n \in DOMAIN Madt}

\* The low half of an entry when the hardware is reset, and as a request wants it;
\* vector and destination are a byte each.  The high half is the destination.
Masked == [vector |-> 0, flags |-> 0, masked |-> TRUE]
Nowhere == [destination |-> 0]
Low(r) == [vector |-> (r.irq + 32) % 256, flags |-> r.flags % 8, masked |-> FALSE]
Dest(r) == [destination |-> r.id % 256]

Lows  == {Masked} \union {Low(r) : r \in Requests}
Dests == [destination : 0..255]
Jobs == [op : {"read", "write"}, io : Ioapics, entry : 0..255, low : Lows, dest : Dests,
         at : {"selectLow", "low", "selectHigh", "high", "return"}]

\* What a request asks for, and a thread with parts of it still to be written.
Asked(r) == [gsi |-> r.gsi, low |-> Low(r), dest |-> Dest(r)]
Todos == [req : {Asked(r) : r \in Requests}, parts : SUBSET {"low", "dest"}]

\* ACPI gives every I/O APIC a range of GSIs of its own.
ASSUME IoapicAssumption ==
  /\ Madt \in Seq([io : Ioapics, gsi : Nat])
  /\ MaxEntry \in [Ioapics -> 0..255]
  /\ \A m, n \in DOMAIN Madt : m # n =>
       /\ Madt[m].io # Madt[n].io
       /\ \/ Madt[m].gsi + MaxEntry[Madt[m].io] < Madt[n].gsi
          \/ Madt[n].gsi + MaxEntry[Madt[n].io] < Madt[m].gsi
  /\ \A r \in Requests : r.gsi \in Nat /\ r.irq \in Nat /\ r.id \in Nat /\ r.flags \in Nat
  /\ Serialised \in BOOLEAN
  /\ Idle # Lost /\ {Idle, Lost} \intersect (Jobs \union Todos) = {}

VARIABLES
  entry,   \* the MADT entry init_apic is at; 0 when it has returned
  list,    \* ioapic_list
  pic,     \* the 8259s are enabled
  mapped,  \* the I/O APICs whose registers are in the kernel's page tables
  sel,     \* the register every I/O APIC has selected
  regs,    \* the registers themselves
  job      \* the call a thread is in

vars == <<entry, list, pic, mapped, sel, regs, job>>

-----------------------------------------------------------------------------
\* The registers of a redirection entry.
LowIndex(e)  == 2 * e + 16
HighIndex(e) == 2 * e + 17
Version      == 1
Registers(io) == {Version} \union (LowIndex(0)..HighIndex(MaxEntry[io]))

ResetRegisters(io) ==
  [x \in Registers(io) |-> IF x = Version THEN MaxEntry[io] ELSE IF x % 2 = 0 THEN Masked ELSE Nowhere]

Init ==
  /\ entry = 1
  /\ list = <<>>
  /\ pic = TRUE
  /\ mapped = {}
  /\ sel = [io \in Ioapics |-> 0]
  /\ regs = [io \in Ioapics |-> ResetRegisters(io)]
  /\ job = [t \in Threads |-> Idle]

-----------------------------------------------------------------------------
(* init_apic *)

\* init_ioapic maps the registers and reads the version; if it cannot map them, it
\* returns 0.  Either way the I/O APIC is put in front of the list; without memory for
\* that the loop ends.
AddIoapic ==
  /\ entry \in DOMAIN Madt
  /\ LET io == Madt[entry].io IN
     \E maps, allocates \in BOOLEAN :
       /\ mapped' = IF maps THEN mapped \union {io} ELSE mapped
       /\ sel' = IF maps THEN [sel EXCEPT ![io] = Version] ELSE sel
       /\ IF allocates
            THEN /\ list' = <<[io |-> io, gsi |-> Madt[entry].gsi,
                               mre |-> IF maps THEN regs[io][Version] ELSE 0]>> \o list
                 /\ entry' = entry + 1
            ELSE /\ entry' = Len(Madt) + 1
                 /\ UNCHANGED list
  /\ UNCHANGED <<pic, regs, job>>

\* The 8259s are disabled only if there is no I/O APIC.
EndInit ==
  /\ entry = Len(Madt) + 1
  /\ entry' = 0
  /\ pic' = (list # <<>>)
  /\ UNCHANGED <<list, mapped, sel, regs, job>>

-----------------------------------------------------------------------------
(* Calls *)

\* Faulty: the last entry is taken for the number of entries.
ServingMore(g) == {n \in DOMAIN list : list[n].gsi <= g /\ g <= list[n].gsi + list[n].mre + 1}

\* The elements of the list that serve a GSI; the first of them is used.
Serving(g) == {n \in DOMAIN list : list[n].gsi <= g /\ g <= list[n].gsi + list[n].mre}
First(s) == CHOOSE n \in s : \A m \in s : n <= m

\* Faulty: the GSI itself is taken for the entry.
EntryAbsolute(g, element) == g

\* The entry a GSI has in the I/O APIC of an element.
EntryOf(g, element) == g - element.gsi

Calling(t) == job[t] \notin {Idle, Lost}
Alone(io) == Serialised => \A t \in Threads : Calling(t) => job[t].io # io

\* A GSI that is in nobody's range ends at the NULL behind the list.
MapGsi(t) ==
  /\ entry = 0 /\ job[t] = Idle
  /\ \E r \in Requests :
       IF Serving(r.gsi) = {}
         THEN job' = [job EXCEPT ![t] = Lost]
         ELSE LET found == list[First(Serving(r.gsi))] IN
              /\ Alone(found.io)
              /\ job' = [job EXCEPT ![t] = [op |-> "write", io |-> found.io,
                           entry |-> EntryOf(r.gsi, found), low |-> Low(r), dest |-> Dest(r),
                           at |-> "selectLow"]]
  /\ UNCHANGED <<entry, list, pic, mapped, sel, regs>>

\* ioapic_read_redir_tbl, of an entry there is.
ReadEntry(t) ==
  /\ entry = 0 /\ job[t] = Idle
  /\ \E io \in mapped : \E e \in 0..MaxEntry[io] :
       /\ Alone(io)
       /\ job' = [job EXCEPT ![t] = [op |-> "read", io |-> io, entry |-> e,
                    low |-> Masked, dest |-> Nowhere, at |-> "selectLow"]]
  /\ UNCHANGED <<entry, list, pic, mapped, sel, regs>>

\* The register of the half that a call is at, and that half.
Index(j) == IF j.at \in {"selectLow", "low"} THEN LowIndex(j.entry) ELSE HighIndex(j.entry)
Half(j) == IF j.at = "low" THEN j.low ELSE j.dest
WithHalf(j, value) == IF j.at = "low" THEN [j EXCEPT !.low = value] ELSE [j EXCEPT !.dest = value]
\* Faulty: the high half is left as it is.
FollowingLow(at) == IF at = "selectLow" THEN "low" ELSE "return"

Following(at) ==
  CASE at = "selectLow" -> "low" [] at = "low" -> "selectHigh"
    [] at = "selectHigh" -> "high" [] at = "high" -> "return"

\* Faulty: whatever is selected already is good enough for the second half.
SelectOnce(t) ==
  /\ Calling(t) /\ job[t].at \in {"selectLow", "selectHigh"}
  /\ sel' = IF job[t].at = "selectLow" THEN [sel EXCEPT ![job[t].io] = Index(job[t])] ELSE sel
  /\ job' = [job EXCEPT ![t].at = Following(@)]
  /\ UNCHANGED <<entry, list, pic, mapped, regs>>

\* ioregsel.
Select(t) ==
  /\ Calling(t) /\ job[t].at \in {"selectLow", "selectHigh"}
  /\ IF job[t].io \in mapped
       THEN /\ sel' = [sel EXCEPT ![job[t].io] = Index(job[t])]
            /\ job' = [job EXCEPT ![t].at = Following(@)]
       ELSE /\ job' = [job EXCEPT ![t] = Lost]
            /\ UNCHANGED sel
  /\ UNCHANGED <<entry, list, pic, mapped, regs>>

\* iowin: whatever is selected by now is written ...
WriteWindow(t) ==
  /\ Calling(t) /\ job[t].op = "write" /\ job[t].at \in {"low", "high"}
  /\ LET io == job[t].io IN
       regs' = IF sel[io] = Version THEN regs
               ELSE [regs EXCEPT ![io][sel[io]] = Half(job[t])]
  /\ job' = [job EXCEPT ![t].at = Following(@)]
  /\ UNCHANGED <<entry, list, pic, mapped, sel>>

\* ... or read.
ReadWindow(t) ==
  /\ Calling(t) /\ job[t].op = "read" /\ job[t].at \in {"low", "high"}
  /\ LET value == regs[job[t].io][sel[job[t].io]] IN
       job' = [job EXCEPT ![t] = [WithHalf(job[t], value) EXCEPT !.at = Following(job[t].at)]]
  /\ UNCHANGED <<entry, list, pic, mapped, sel, regs>>

Return(t) ==
  /\ Calling(t) /\ job[t].at = "return"
  /\ job' = [job EXCEPT ![t] = Idle]
  /\ UNCHANGED <<entry, list, pic, mapped, sel, regs>>

Call(t) ==
  \/ MapGsi(t) \/ ReadEntry(t) \/ Select(t) \/ WriteWindow(t) \/ ReadWindow(t) \/ Return(t)

Next == AddIoapic \/ EndInit \/ \E t \in Threads : Call(t)

Spec == Init /\ [][Next]_vars

-----------------------------------------------------------------------------
(* Properties *)

\* Where the hardware has a GSI, whatever the list says.
InRange(n, g) == Madt[n].gsi <= g /\ g <= Madt[n].gsi + MaxEntry[Madt[n].io]
Gsis == UNION {Madt[n].gsi..(Madt[n].gsi + MaxEntry[Madt[n].io]) : n \in DOMAIN Madt}
Home(g) == Madt[CHOOSE n \in DOMAIN Madt : InRange(n, g)]
Entry(io, e) == [low |-> regs[io][LowIndex(e)], dest |-> regs[io][HighIndex(e)]]
Route(g) == Entry(Home(g).io, g - Home(g).gsi)

Elements == [io : Ioapics, gsi : Nat, mre : 0..255]

\* The type of every variable: halves of entries stay halves of entries.
TypeOK ==
  /\ entry \in 0..(Len(Madt) + 1)
  /\ list \in Seq(Elements)
  /\ pic \in BOOLEAN
  /\ mapped \subseteq Ioapics
  /\ \A io \in Ioapics :
       /\ sel[io] \in {0} \union Registers(io)
       /\ \A x \in Registers(io) \ {Version} : regs[io][x] \in IF x % 2 = 0 THEN Lows ELSE Dests
  /\ job \in [Threads -> Jobs \union {Idle, Lost}]

\* The element found for a GSI is that of the I/O APIC which has it, and the entry is
\* one that it has: however many I/O APICs were left out, or listed with one entry
\* because they could not be read, no GSI ends at another's registers.
HomeIsFound ==
  \A g \in Gsis \union {r.gsi : r \in Requests} : (Serving(g) # {}) =>
    LET found == list[First(Serving(g))] IN
    g \in Gsis /\ found.io = Home(g).io /\ EntryOf(g, found) \in 0..MaxEntry[found.io]

\* A call that writes is at the entry of GSI g.
Writes(t, g) ==
  Calling(t) /\ job[t].op = "write" /\ job[t].io = Home(g).io
             /\ job[t].entry = g - Home(g).gsi

\* A GSI that no call is changing is masked, or routed as one request asked: it never
\* goes to one request's processor with another's vector.
NoMixture ==
  \A g \in Gsis :
    (\A t \in Threads : ~Writes(t, g)) =>
      \/ Route(g) = [low |-> Masked, dest |-> Nowhere]
      \/ \E r \in Requests : r.gsi = g /\ Route(g) = [low |-> Low(r), dest |-> Dest(r)]

\* Two reads of a register make one value: the entry as it is.
ReadsAreWhole ==
  \A t \in Threads : Calling(t) /\ job[t].op = "read" /\ job[t].at = "return" =>
    [low |-> job[t].low, dest |-> job[t].dest] = Entry(job[t].io, job[t].entry)

\* How far a request is.
PartsLeft(at) ==
  CASE at \in {"selectLow", "low"}   -> {"low", "dest"}
    [] at \in {"selectHigh", "high"} -> {"dest"}
    [] at = "return"                 -> {}
TodoOf(t) ==
  IF ~Calling(t) THEN job[t]
  ELSE IF job[t].op = "read" THEN Idle
  ELSE LET home == CHOOSE n \in DOMAIN Madt : Madt[n].io = job[t].io IN
       [req |-> [gsi |-> Madt[home].gsi + job[t].entry,
                 low |-> job[t].low, dest |-> job[t].dest],
        parts |-> PartsLeft(job[t].at)]

(* With the list, the index arithmetic and the window hidden, this is Routing. *)
R == INSTANCE Routing WITH
  Requests <- {Asked(r) : r \in Requests},
  Reset    <- [low |-> Masked, dest |-> Nowhere],
  route    <- [g \in Gsis |-> Route(g)],
  todo     <- [t \in Threads |-> TodoOf(t)]

\* A request reaches the route of its own GSI, both halves, and no other route, as
\* long as callers take turns at an I/O APIC.
ImplementsRouting == R!RoutingSpec
=============================================================================
