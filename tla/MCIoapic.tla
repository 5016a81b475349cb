------------------------------ MODULE MCIoapic ------------------------------
(***************************************************************************)
(* TLC instance of Ioapic: two I/O APICs side by side, the one with the    *)
(* higher GSIs first in the MADT, and requests for the last GSI of the     *)
(* lower, the first of the higher, its last, and one nobody has.           *)
(***************************************************************************)
EXTENDS Ioapic

MCMadt == <<[io |-> "south", gsi |-> 2], [io |-> "north", gsi |-> 0]>>
MCMaxEntry == [io \in {"north", "south"} |-> 1]
Request(g, n) == [gsi |-> g, irq |-> g + 16 * n, id |-> n + 1, flags |-> n]
MCRequests == {Request(g, n) : g \in {1, 2}, n \in {0, 1}} \union {Request(3, 1), Request(4, 0)}
=============================================================================
