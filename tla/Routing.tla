------------------------------ MODULE Routing ------------------------------
(***************************************************************************)
(* What interrupts_map_gsi promises, without I/O APICs: every global       *)
(* system interrupt has a route, and a caller changes the route of the     *)
(* interrupt it names and of no other.  It does so in two parts, the       *)
(* vector with the unmasking and the destination, and either may come      *)
(* first; a caller that fails leaves what it has done.                     *)
(***************************************************************************)
CONSTANTS Threads, Gsis, Requests, Reset, Idle, Lost

VARIABLES
  route,  \* the low and the high half of every interrupt's route
  todo    \* the request a thread is making, and the parts still to be written

rvars == <<route, todo>>

RoutingInit ==
  /\ route = [g \in Gsis |-> Reset]
  /\ todo = [t \in Threads |-> Idle]

Ask(t) ==
  /\ todo[t] = Idle
  /\ \E r \in Requests :
       /\ r.gsi \in Gsis
       /\ todo' = [todo EXCEPT ![t] = [req |-> r, parts |-> {"low", "dest"}]]
  /\ UNCHANGED route

Write(t, part) ==
  /\ todo[t] \notin {Idle, Lost}
  /\ part \in todo[t].parts
  /\ route' = [route EXCEPT ![todo[t].req.gsi][part] = todo[t].req[part]]
  /\ todo' = [todo EXCEPT ![t].parts = @ \ {part}]

Answer(t) ==
  /\ todo[t] \notin {Idle, Lost}
  /\ todo[t].parts = {}
  /\ todo' = [todo EXCEPT ![t] = Idle]
  /\ UNCHANGED route

Fail(t) ==
  /\ todo' = [todo EXCEPT ![t] = Lost]
  /\ UNCHANGED route

RoutingNext ==
  \E t \in Threads :
    Ask(t) \/ Write(t, "low") \/ Write(t, "dest") \/ Answer(t) \/ Fail(t)

RoutingSpec == RoutingInit /\ [][RoutingNext]_rvars
============================================================================
