------------------------------- MODULE MCTrap -------------------------------
(* TLC instance of Trap: user threads of two processes, and a kernel thread  *)
(* that belongs to the first one's.                                          *)
EXTENDS Trap

MCThreads == {"u", "v", "k"}
MCUserThreads == {"u", "v"}
MCProcessOf == [t \in MCThreads |-> IF t = "v" THEN "other" ELSE "init"]
=============================================================================
