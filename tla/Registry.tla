------------------------------ MODULE Registry ------------------------------
(***************************************************************************)
(* What the list of the master server promises to the rest of the program, *)
(* without slots, chains or counters: a server is admitted within the      *)
(* limits, stays until its time is up, and its time is extended by nothing *)
(* but an answer.  A server whose time is up may linger: the list is       *)
(* cleaned when the code happens to look at the entry.                     *)
(***************************************************************************)
EXTENDS Integers, FiniteSets

CONSTANTS
  Address, HostOf(_),
  Capacity,          \* servers in all
  Quota,             \* servers per host, 0 = no limit
  FirstStay,         \* stay of a server that was only admitted
  Stay,              \* stay of a server that answered
  Absent

VARIABLES
  until,             \* address -> end of its stay, or Absent
  answered,          \* the addresses that answered since they were admitted
  now

vars == <<until, answered, now>>

Present(u) == {a \in Address : u[a] # Absent}
Expired == {a \in Present(until) : until[a] < now}
Live == Present(until) \ Expired

Init ==
  /\ until = [a \in Address |-> Absent]
  /\ answered = {}
  /\ now = 1

Without(u, gone) == [a \in Address |-> IF a \in gone THEN Absent ELSE u[a]]

(* Some of the expired servers go.                                         *)
Clean(gone) ==
  /\ until' = Without(until, gone)
  /\ answered' = answered \ gone

Admit(gone, a) ==
  LET u == Without(until, gone)
      neighbours == {b \in Present(u) : HostOf(b) = HostOf(a)}
  IN  /\ a \notin Present(u)
      /\ Cardinality(Present(u)) < Capacity
      /\ Quota = 0 \/ Cardinality(neighbours) < Quota
      /\ until' = [u EXCEPT ![a] = now + FirstStay]
      /\ answered' = answered \ gone

Answer(gone, a) ==
  /\ a \in Live
  /\ until' = [Without(until, gone) EXCEPT ![a] = now + Stay]
  /\ answered' = (answered \ gone) \cup {a}

Reject(gone, a) ==
  /\ a \in Live
  /\ Clean(gone \cup {a})

Reset ==
  /\ until' = [a \in Address |-> Absent]
  /\ answered' = {}
  /\ UNCHANGED now

Tick ==
  /\ now' = now + 1
  /\ UNCHANGED <<until, answered>>

Serve ==
  /\ \E gone \in SUBSET Expired :
       \/ Clean(gone)
       \/ \E a \in Address : Admit(gone, a) \/ Answer(gone, a) \/ Reject(gone, a)
  /\ UNCHANGED now

Next == Serve \/ Reset \/ Tick

Spec == Init /\ [][Next]_vars
=============================================================================
