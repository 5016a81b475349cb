---------------------------- MODULE AddressSpace ----------------------------
(***************************************************************************)
(* What the pager promises its callers, without page tables.               *)
(*                                                                         *)
(* An address space maps pages to physical pages with rights.  A request   *)
(* works through its range from the first page to the last, some pages at  *)
(* a time; it changes the pages it has reached, in the way its operation   *)
(* says, and no page outside its range or in another space.  It may stop   *)
(* early, and what it has done by then stays done.                         *)
(*                                                                         *)
(* A right is something an access may do: write, come from user mode, be   *)
(* an instruction fetch.  The pager may grant fewer than were asked for,   *)
(* since a page lies below directories that were made by other requests,   *)
(* and more only where a cache attribute is taken for the user right.      *)
(***************************************************************************)
EXTENDS Integers

CONSTANTS Threads, Spaces, Pages, Requests, NoJob, Unmapped

Rights == {"write", "user", "execute"}
Mapping == [addr : Int, rights : SUBSET Rights]

VARIABLES
  space,  \* the mapping of every page of every address space
  todo    \* what is left of the request each thread is making

avars == <<space, todo>>

TodoType == [req : Requests, at : Nat, left : Nat] \union {NoJob}

AbstractTypeOK ==
  /\ space \in [Spaces -> [Pages -> Mapping \union {Unmapped}]]
  /\ todo \in [Threads -> TodoType]

AbstractInit ==
  /\ space = [s \in Spaces |-> [p \in Pages |-> Unmapped]]
  /\ todo = [t \in Threads |-> NoJob]

Accept(t) ==
  /\ todo[t] = NoJob
  /\ \E r \in Requests :
       todo' = [todo EXCEPT ![t] = [req |-> r, at |-> r.v, left |-> r.size]]
  /\ UNCHANGED space

\* The page is about to be unmapped on the fly, and its physical page may be another's.
Dropping(s, p) ==
  \E t \in Threads :
    todo[t] # NoJob /\ todo[t].req.op = "flyUnmap" /\ todo[t].req.space = s /\ todo[t].at = p

Allowed(r) == r.rights \union (IF 0 \in r.pat THEN {"user"} ELSE {})

\* m is what request r may leave at page p of the spaces as they were.
Becomes(r, p, was, m) ==
  LET source == was[r.src][p] IN
  \/ /\ r.op = "map"
     /\ m # Unmapped
     /\ m.addr = r.phys + (p - r.v)
     /\ m.rights \subseteq Allowed(r)
  \* a page of its own: nothing in any space is mapped to it that is to stay
  \/ /\ r.op = "flyMap"
     /\ m # Unmapped
     /\ \A s \in Spaces, q \in Pages :
          was[s][q] # Unmapped /\ ~Dropping(s, q) => was[s][q].addr # m.addr
     /\ m.rights \subseteq Allowed(r)
  \/ /\ r.op \in {"unmap", "flyUnmap"}
     /\ m = Unmapped
  \/ /\ r.op = "setAttr"
     /\ m # Unmapped
     /\ m.addr = was[r.space][p].addr
     /\ m.rights \subseteq Allowed(r)
  \/ /\ r.op = "clone"
     /\ source = Unmapped
     /\ m = was[r.space][p]
  \* the page at the same address, whatever r.from is; out of a larger page, that page's beginning
  \/ /\ r.op = "clone"
     /\ source # Unmapped
     /\ m # Unmapped
     /\ \E q \in Pages : /\ q <= p /\ was[r.src][q] # Unmapped
                        /\ was[r.src][q].addr = m.addr
                        /\ source.addr = m.addr + (p - q)
     /\ m.rights \ {"execute"} \subseteq source.rights

\* The next n pages of the range are done, and no other page changes.
Serve(t) ==
  LET r   == todo[t].req
      was == space
      is  == space'
  IN
  /\ todo[t] # NoJob
  /\ \E n \in 1..todo[t].left :
       /\ todo' = [todo EXCEPT ![t].at = @ + n, ![t].left = @ - n]
       /\ \A s \in Spaces, p \in Pages :
            IF s = r.space /\ p \in todo[t].at .. todo[t].at + n - 1
              THEN Becomes(r, p, was, is[s][p])
              ELSE is[s][p] = was[s][p]

\* The request returns: all of it done, or cut short by a failure.
Leave(t) ==
  /\ todo[t] # NoJob
  /\ todo' = [todo EXCEPT ![t] = NoJob]
  /\ UNCHANGED space

AbstractNext == \E t \in Threads : Accept(t) \/ Serve(t) \/ Leave(t)

AbstractSpec == AbstractInit /\ [][AbstractNext]_avars
=============================================================================
