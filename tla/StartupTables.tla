---------------------------- MODULE StartupTables ----------------------------
(***************************************************************************)
(* The two sorted tables dpmaster builds from its command line: the names  *)
(* of the games of the policy (games.c) and the address mappings           *)
(* (servers.c).  Strings are values with an order; an IPv4 address and a    *)
(* port are the numbers their bytes make in memory, which is all the       *)
(* comparisons look at.                                                    *)
(***************************************************************************)
EXTENDS Integers, SequencesExt, Loops

CONSTANTS
  Value,  \* strings of a command line
  Order   \* their order under strcmp, a number for every string

ASSUME OrderAssumption ==
  /\ Order \in [Value -> Int]
  /\ \A v, w \in Value : Order[v] = Order[w] => v = w

-----------------------------------------------------------------------------
(* game_names, sorted                                                      *)

(* One turn of the binary search: a game that is not found yet is at none  *)
(* of the indices 0 .. Len(names) - 1 of the array but left .. right.      *)
Bisect(names, game, at) ==
  LET middle == (at.left + at.right) \div 2
      diff == Order[names[middle + 1]] - Order[game]
  IN  IF at.known \/ at.left > at.right THEN at
      ELSE IF diff = 0 THEN [at EXCEPT !.known = TRUE, !.left = middle]
      ELSE IF diff > 0 THEN [at EXCEPT !.right = middle - 1]
      ELSE [at EXCEPT !.left = middle + 1]

(* Where a game is, or where it belongs.  Every turn leaves fewer indices. *)
Game_Find(names, game) ==
  LET found == Loop(LAMBDA at, i : Bisect(names, game, at),
                    [known |-> FALSE, left |-> 0, right |-> Len(names) - 1], Len(names))
  IN  [known |-> found.known, index |-> found.left]

AddGame(names, game) ==
  LET found == Game_Find(names, game)
  IN  IF found.known THEN names ELSE InsertAt(names, found.index + 1, game)

Game_IsAccepted(names, reject_when_known, game) ==
  Game_Find(names, game).known # reject_when_known

-----------------------------------------------------------------------------
(* addrmaps, sorted by the address and then the port they map from; port 0 *)
(* stands for all ports of the address.                                    *)

Endpoint == [ip : Nat, port : Nat]
Addrmap == [from_string : Value, to_string : Value, from : Endpoint, to : Endpoint]

FirstIndex(S, otherwise) == IF S = {} THEN otherwise ELSE CHOOSE i \in S : \A j \in S : i <= j

PointByAddress(maps, from) ==   \* mutant: ports are not compared
  FirstIndex({i \in DOMAIN maps : maps[i].from.ip >= from.ip}, Len(maps) + 1)

(* The place where the walk of Sv_InsertAddrmapIntoList stops.             *)
InsertionPoint(maps, from) ==
  FirstIndex({i \in DOMAIN maps :
                \/ maps[i].from.ip > from.ip
                \/ maps[i].from.ip = from.ip /\ maps[i].from.port >= from.port},
             Len(maps) + 1)

Recorded(maps, from) ==
  LET i == InsertionPoint(maps, from) IN i \in DOMAIN maps /\ maps[i].from = from

InsertAddrmap(maps, new) == InsertAt(maps, InsertionPoint(maps, new.from), new)

InsertNew(result, new) ==
  IF ~result.ok \/ Recorded(result.maps, new.from) THEN [result EXCEPT !.ok = FALSE]
  ELSE [result EXCEPT !.maps = InsertAddrmap(@, new)]

(* Sv_InsertAddrmapIntoList for every element of a list; a source that is  *)
(* recorded already makes the whole call fail.                             *)
InsertAllAddrmaps(list) ==
  Loop(LAMBDA result, i : InsertNew(result, list[i]), [ok |-> TRUE, maps |-> <<>>], Len(list))

(* The index of the mapping of an address, 0 for none: the exact one, or   *)
(* the general one that was passed on the way.  The walk ends when the     *)
(* addresses become too high.                                              *)
Sv_GetAddrmap(maps, addr) ==
  LET OfAddress == {i \in DOMAIN maps : maps[i].from.ip = addr.ip /\ \A j \in 1 .. i : maps[j].from.ip <= addr.ip}
      stop == FirstIndex({i \in OfAddress : maps[i].from.port >= addr.port}, Len(maps) + 1)
      Passed == {i \in OfAddress : i < stop /\ maps[i].from.port = 0}
  IN  IF stop \in DOMAIN maps /\ maps[stop].from.port = addr.port THEN stop
      ELSE FirstIndex(Passed, 0)
=============================================================================
