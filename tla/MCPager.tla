------------------------------- MODULE MCPager -------------------------------
(***************************************************************************)
(* TLC instances of Pager: tables of two entries, so that an address space *)
(* has 16 pages, "2 MiB" is two of them and "1 GiB" is four.               *)
(***************************************************************************)
EXTENDS Pager

MCThreads == {"a", "b"}
OneThread == {"a"}
MCSpaces == {"kernel", "user"}
MCBootFrame == 1

\* The lowest free frame: which one it is matters to nobody.
LowestFirst(f) == {x \in f : \A y \in f : x <= y}

Frames12 == 1..12
Frames8 == 1..8
Frames9 == 1..9

Req(op, space, v, size) ==
  [op |-> op, space |-> space, v |-> v, size |-> size, phys |-> 0, low |-> {},
   rights |-> {"execute"}, pat |-> {}, only4k |-> FALSE, autoDisable |-> 0, src |-> space,
   from |-> v]
Cached(r, pat) == [r EXCEPT !.pat = pat]
With(r, rights, only4k) == [r EXCEPT !.rights = rights, !.only4k = only4k]
To(r, phys) == [r EXCEPT !.phys = phys]
From(r, src) == [r EXCEPT !.src = src]

PcidsOff == {-1, 0}

Data == {"write"}
User == {"write", "user", "execute"}

\* A kernel mapping that takes all three sizes (4 + 2 + 1 pages), no-execute, and
\* its inverse; a change of rights and of the cache attribute; an empty range; pages on
\* the fly in user space; 4K pages that one space clones from the other, as the
\* page-fault handler does, one of them out of a larger page.
PassRequests ==
  { To(With(Req("map", "kernel", 0, 7), Data, FALSE), 100),
    Req("unmap", "kernel", 0, 7), Req("unmap", "kernel", 0, 0),
    Cached(With(Req("setAttr", "kernel", 4, 2), {"execute"}, FALSE), {0, 1}),
    With(Req("flyMap", "user", 8, 3), User, TRUE),
    Req("flyUnmap", "user", 9, 1),
    [From(Req("clone", "kernel", 8, 1), "user") EXCEPT !.from = 10],
    From(Req("clone", "user", 5, 1), "kernel") }

\* Two threads, each in a space of its own or one after the other in one, that
\* compete for the last frames.
SharedRequests ==
  { To(With(Req("map", "kernel", 4, 2), Data, FALSE), 100),
    Req("unmap", "kernel", 4, 2),
    With(Req("flyMap", "user", 9, 1), User, TRUE),
    Req("flyUnmap", "user", 9, 1),
    From(Req("clone", "kernel", 9, 1), "user") }

\* Two faults of one process: a page of the direct map and a user page.
RaceRequests ==
  { To(With(Req("map", "kernel", 8, 1), Data, TRUE), 100),
    To(With(Req("map", "kernel", 9, 1), Data, TRUE), 101) }
=============================================================================
