------------------------------- MODULE MCPcid -------------------------------
(* TLC instances of Pcid: two threads, garbage that makes the bitmap small. *)
EXTENDS Pcid

MCThreads == {"a", "b"}

\* Word 0 has the 15 bits that memset clears free, and one word-2 bit is free:
\* sixteen calls reach exhaustion.  The upper half is set, so that every word
\* looks full when the bits ffs sees are.
FilledGarbage ==
  { [n \in Words |-> CASE n = 0 -> 0..63
                       [] n = 1 -> {}
                       [] n = 2 -> (0..63) \ {5}] }

\* As above, but the upper half is clear: ffs finds nothing in a word that is
\* not full.
HollowGarbage ==
  { [n \in Words |-> CASE n = 0 -> 0..31
                       [] n = 1 -> {}
                       [] n = 2 -> (0..31) \ {5}] }

\* Word 2's last free bit is 31, whose int mask covers the upper half.
SignGarbage ==
  { [n \in Words |-> CASE n = 0 -> 0..63
                       [] n = 1 -> {}
                       [] n = 2 -> (0..30)] }

\* alloc() happened to return zeroed memory: 31 PCIDs in word 0, 32 in word 2.
CleanGarbage == {[n \in Words |-> {}]}

MixedGarbage == FilledGarbage \union HollowGarbage \union SignGarbage
=============================================================================
