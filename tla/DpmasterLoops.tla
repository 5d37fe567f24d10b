--------------------------- MODULE DpmasterLoops ---------------------------
(***************************************************************************)
(* The loops of servers.c as the code writes them: one slot at a time,     *)
(* with their bounds read again on every turn and Sv_Remove called from    *)
(* inside.  ServerList states what they amount to; this module compares    *)
(* the two on the lists the master server reaches.  A loop that ends early *)
(* has idle turns after its end.                                           *)
(***************************************************************************)
EXTENDS Dpmaster, Loops

StepDown(l, at) == IF at >= 0 /\ l.servers[at].state = "unused_slot" THEN at - 1 ELSE at

WalkDown(l, ind) == Loop(LAMBDA at, turn : StepDown(l, at), ind, ind + 1)

(* Sv_Remove, of one server.                                               *)
RemoveSlot(l, i) ==
  LET freed == [l EXCEPT !.servers[i] = UnusedServer]
      last == IF l.last_used_slot = i THEN WalkDown(freed, i - 1) ELSE l.last_used_slot
  IN  [freed EXCEPT
         !.first_free_slot = IF @ = -1 \/ i < @ THEN i ELSE @,
         !.last_used_slot = last,
         !.last_server_ind = IF @ > last THEN last ELSE @,
         !.crt_server_ind = IF @ > last THEN last ELSE @,
         !.nb_servers = @ - 1]

TimedOut(l, i, now) ==
  l.servers[i].state # "unused_slot" /\ l.servers[i].timeout < now

AfterIsActive(l, i, now) == IF TimedOut(l, i, now) THEN RemoveSlot(l, i) ELSE l

CheckSlot(l, ind, now) == IF ind <= l.last_used_slot THEN AfterIsActive(l, ind, now) ELSE l

CheckTimeoutsByLoop(l, now) == Loop(LAMBDA m, turn : CheckSlot(m, turn - 1, now), l, max_nb_servers)

(* The search of Sv_GetByAddr for the free entry behind a slot.            *)
SearchSlot(l, slot, ind, now) ==
  IF ind <= slot \/ l.first_free_slot # -1 THEN l
  ELSE IF l.servers[ind].state = "unused_slot" \/ TimedOut(l, ind, now)
       THEN [AfterIsActive(l, ind, now) EXCEPT !.first_free_slot = ind]
       ELSE l

SearchNext(l, slot, now) == Loop(LAMBDA m, ind : SearchSlot(m, slot, ind, now), l, max_nb_servers - 1)

AddByLoop(l, a, now) ==
  LET slot == l.first_free_slot
      raised == [l EXCEPT !.last_used_slot = IF @ < slot THEN slot ELSE @,
                          !.first_free_slot = -1]
      searched == SearchNext(raised, slot, now)
  IN  [searched EXCEPT !.servers[slot] = NewServer(a, now), !.nb_servers = @ + 1]

(* Removals of the slots of a sequence.                                    *)
RemoveInOrder(l, order) == Loop(LAMBDA m, turn : RemoveSlot(m, order[turn]), l, Len(order))

-----------------------------------------------------------------------------
(* Removing servers one after the other, in whatever order the loops meet  *)
(* them, is Sv_Remove of the set.                                          *)
RemovalsCommute ==
  \A R \in SUBSET Used(list) : \A order \in Bijection(1 .. Cardinality(R), R) :
    RemoveInOrder(list, order) = Sv_Remove(list, R)

(* Sv_CheckTimeouts misses nobody up to last_used_slot although it lowers  *)
(* the bound of its own loop, now and at any later time.                   *)
CheckTimeoutsAgree ==
  \A now \in crt_time .. MaxTime + TIMEOUT_INFORESPONSE :
    CheckTimeoutsByLoop(list, now) = Sv_CheckTimeouts(list, now)

(* The search for the next free slot is the lowest one that is free or     *)
(* timed out, and only that one is removed.                                *)
AddAgrees ==
  \A now \in crt_time .. MaxTime + TIMEOUT_INFORESPONSE, a \in Address :
    list.first_free_slot # -1 => AddByLoop(list, a, now) = AddServer(list, a, now)
=============================================================================
