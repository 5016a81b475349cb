------------------------------- MODULE MCSmp -------------------------------
(***************************************************************************)
(* TLC instance of Smp: the boot processor and three others, with the boot *)
(* processor first in the MADT or second.                                  *)
(***************************************************************************)
EXTENDS Smp

MCProcessors == {"b", "p", "q", "r"}
BspFirst  == <<"b", "p", "q", "r">>
BspSecond == <<"p", "b", "q", "r">>
MCMadts   == {BspFirst, BspSecond}
FirstOnly == {BspFirst}
============================================================================
