----------------------------- MODULE ServerList -----------------------------
(***************************************************************************)
(* The server list of dpmaster (servers.c) as operators on its static      *)
(* variables, gathered in one record "list".  The message handlers         *)
(* (module Dpmaster) call them inside their steps, as messages.c calls     *)
(* the functions of servers.c.                                             *)
(*                                                                         *)
(* Loops that remove several timed out servers are written as one removal  *)
(* of a set of slots: module DpmasterLoops holds the loops as the code     *)
(* writes them and compares the two.  A used slot is in the hash chain of  *)
(* its address and in no other (Sv_AddToHashTable when it becomes used,    *)
(* Sv_RemoveFromHashTable in Sv_Remove), so a chain is the set Bucket; the *)
(* order of the chain is left open (see WalkRemovals).                     *)
(***************************************************************************)
EXTENDS Integers, FiniteSets, FiniteSetsExt

CONSTANTS
  max_nb_servers,      \* number of records of servers[]
  max_per_address,     \* quota of one public address, 0 = no limit
  allow_loopback,      \* the variable of that name
  hash_ports,          \* the variable of that name
  Host,                \* public addresses: an IPv4 address or an IPv6 subnet
  Port,                \* what tells servers of a host apart: the port (and, in IPv6, the host part)
  Loopback,            \* the hosts on a loopback interface
  AddressHash,         \* address -> hash table and index in it, Sv_AddressHash
  Mapping,             \* address -> what Sv_GetAddrmap finds for it
  Challenge,           \* challenge strings
  Game,                \* what a request and a server must agree on: game, protocol, game type
  NoAddress, NoChallenge, NoGame, \* the zeroed fields
  TIMEOUT_HEARTBEAT    \* seconds a server that was only added stays

Address == Host \X Port
HostOf(a) == a[1]

Slots == 0 .. max_nb_servers - 1

(* hash_ports is documented to break the quota: only without it do the     *)
(* servers of one host share a chain.                                      *)
ASSUME ListAssumption ==
  /\ max_nb_servers \in Nat \ {0}
  /\ max_per_address \in Nat
  /\ allow_loopback \in BOOLEAN
  /\ hash_ports \in BOOLEAN
  /\ IsFiniteSet(Address)
  /\ Loopback \subseteq Host
  /\ DOMAIN AddressHash = Address
  /\ ~hash_ports => \A a, b \in Address : HostOf(a) = HostOf(b) => AddressHash[a] = AddressHash[b]
  /\ Mapping \in [Address -> Address \cup {NoAddress}]
  /\ NoAddress \notin Address
  /\ TIMEOUT_HEARTBEAT \in Nat

InfoState == {"empty", "occupied", "full"}
ServerState == {"unused_slot", "uninitialized"} \cup InfoState

Server == [state : ServerState,
           address : Address \cup {NoAddress},
           addrmap : Address \cup {NoAddress},
           timeout : Nat,
           challenge : Challenge \cup {NoChallenge},
           challenge_timeout : Nat,
           game : Game \cup {NoGame}]

(* The code leaves the rest of an unused record as it was; nothing reads   *)
(* it before the memset of Sv_GetByAddr, so it is cleared here at once.    *)
UnusedServer == [state |-> "unused_slot",
                 address |-> NoAddress,
                 addrmap |-> NoAddress,
                 timeout |-> 0,
                 challenge |-> NoChallenge,
                 challenge_timeout |-> 0,
                 game |-> NoGame]

(* The static variables of servers.c.                                      *)
ServerList == [servers : [Slots -> Server],
               nb_servers : Nat,
               last_used_slot : Slots \cup {-1},
               first_free_slot : Slots \cup {-1},
               crt_server_ind : Slots \cup {-1},
               last_server_ind : Slots \cup {-1}]

Sv_Init == [servers |-> [i \in Slots |-> UnusedServer],
            nb_servers |-> 0,
            last_used_slot |-> -1,
            first_free_slot |-> 0,
            crt_server_ind |-> -1,
            last_server_ind |-> -1]

-----------------------------------------------------------------------------
Used(l) == {i \in Slots : l.servers[i].state # "unused_slot"}
Dead(l, now) == {i \in Used(l) : l.servers[i].timeout < now}
Active(l, now) == Used(l) \ Dead(l, now)
Servers(l, a) == {i \in Used(l) : l.servers[i].address = a}

HighestOf(S) == IF S = {} THEN -1 ELSE Max(S)
LowestOf(S) == IF S = {} THEN -1 ELSE Min(S)
Unclamped(ind, bound) == ind   \* mutant: Sv_Remove leaves the iteration alone
AtMost(ind, bound) == IF ind > bound THEN bound ELSE ind

(* Sv_Remove of every slot of R, in whatever order.                        *)
Sv_Remove(l, R) ==
  LET left == Used(l) \ R
      last == IF l.last_used_slot \in R
              THEN HighestOf({i \in left : i < l.last_used_slot})
              ELSE l.last_used_slot
  IN  IF R = {} THEN l ELSE
      [servers |-> [i \in Slots |-> IF i \in R THEN UnusedServer ELSE l.servers[i]],
       nb_servers |-> l.nb_servers - Cardinality(R),
       last_used_slot |-> last,
       first_free_slot |-> IF l.first_free_slot = -1 \/ Min(R) < l.first_free_slot
                           THEN Min(R) ELSE l.first_free_slot,
       crt_server_ind |-> AtMost(l.crt_server_ind, last),
       last_server_ind |-> AtMost(l.last_server_ind, last)]

(* Sv_CheckTimeouts, and every other loop that calls Sv_IsActive on the    *)
(* slots up to last_used_slot: Sv_WriteInfo.                               *)
CheckAllSlots(l, now) == Sv_Remove(l, Dead(l, now))   \* mutant: not only up to last_used_slot
Sv_CheckTimeouts(l, now) == Sv_Remove(l, {i \in Dead(l, now) : i <= l.last_used_slot})

-----------------------------------------------------------------------------
(* Sv_GetByAddr_Internal walks the chain of the address, removes the       *)
(* timed out servers it passes and stops at the server it looks for.  When *)
(* it finds none it has passed the whole chain; when it finds one, which   *)
(* servers stood in front of it depends on the order of the chain, which   *)
(* is not modelled: any of them may have.                                  *)
Bucket(l, a) == {i \in Used(l) : AddressHash[l.servers[i].address] = AddressHash[a]}

MatchInitialized(l, a, now) ==   \* mutant: a server that has not answered yet is not found
  {i \in Servers(l, a) : i \in Active(l, now) /\ l.servers[i].state \in InfoState}
Sv_GetByAddr_Internal(l, a, now) == {i \in Servers(l, a) : i \in Active(l, now)}

WalkRemovals(l, a, now) ==
  LET dead == Bucket(l, a) \cap Dead(l, now)
  IN  IF Sv_GetByAddr_Internal(l, a, now) = {} THEN {dead} ELSE SUBSET dead

(* same_address_found at the end of a walk that found nothing.             *)
SameHost(l, a) == {i \in Bucket(l, a) : HostOf(l.servers[i].address) = HostOf(a)}

(* The quota and the loopback rule of Sv_GetByAddr.  A loopback address is *)
(* let in when a mapping is defined for it (mappings are IPv4 only).       *)
MayAddOneMore(l, a) ==   \* mutant: the quota compared with <=
  max_per_address = 0 \/ Cardinality(SameHost(l, a)) <= max_per_address
MayAdd(l, a) ==
  /\ max_per_address = 0 \/ Cardinality(SameHost(l, a)) < max_per_address
  /\ ~allow_loopback /\ HostOf(a) \in Loopback => Mapping[a] # NoAddress

(* The mapping is looked up only inside "if (! allow_loopback)".           *)
NewServer(a, now) ==
  [UnusedServer EXCEPT !.state = "uninitialized",
                       !.address = a,
                       !.addrmap = IF allow_loopback THEN NoAddress ELSE Mapping[a],
                       !.timeout = now + TIMEOUT_HEARTBEAT]

(* A full list is searched for servers that timed out.                     *)
MakeRoom(l, now) ==
  IF l.nb_servers = max_nb_servers THEN Sv_CheckTimeouts(l, now) ELSE l

(* Takes the first free slot, then looks for the next one with             *)
(* Sv_IsActive, which removes the server it finds there when that one has  *)
(* timed out.  The record taken is still marked unused during the search.  *)
LastTaken(l) == l.first_free_slot   \* mutant: last_used_slot follows the slot taken
LastAfter(l) == IF l.last_used_slot < l.first_free_slot THEN l.first_free_slot ELSE l.last_used_slot

FreeAtEnd(l, now) ==   \* mutant: the search starts behind the last used slot
  LowestOf({i \in Slots \ Active(l, now) : i > LastAfter(l)})
FreeNextDoor(l, now) == l.first_free_slot + 1   \* mutant: the next slot, unchecked
NextFree(l, now) == LowestOf({i \in Slots \ Active(l, now) : i > l.first_free_slot})

AddServer(l, a, now) ==
  LET slot == l.first_free_slot
      free == NextFree(l, now)
      taken == [l EXCEPT !.last_used_slot = LastAfter(l), !.first_free_slot = -1]
      searched == Sv_Remove(taken, {free} \cap Used(l))
  IN  [searched EXCEPT !.first_free_slot = free,
                       !.servers[slot] = NewServer(a, now),
                       !.nb_servers = @ + 1]

-----------------------------------------------------------------------------
(* Sv_GetFirst and Sv_GetNext up to their call of Sv_IsActive, and that    *)
(* call, which looks at the slot crt_server_ind.                           *)
Sv_GetFirst(l, start) ==
  [l EXCEPT !.crt_server_ind = start,
            !.last_server_ind = IF start = 0 THEN l.last_used_slot ELSE start - 1]

GetNextCounted(l) ==   \* mutant: the number of servers taken for the last slot
  [l EXCEPT !.crt_server_ind = (@ + 1) % l.nb_servers]
Sv_GetNext(l) == [l EXCEPT !.crt_server_ind = (@ + 1) % (l.last_used_slot + 1)]

IsActiveUnused(l, now) ==   \* mutant: an unused slot is not told from a used one
  Sv_Remove(l, {i \in {l.crt_server_ind} : l.servers[i].timeout < now})
Sv_IsActive(l, now) == Sv_Remove(l, {l.crt_server_ind} \cap Dead(l, now))
=============================================================================
