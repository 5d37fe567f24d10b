--------------------------- MODULE DpmasterProofs ---------------------------
(***************************************************************************)
(* The invariants of the master server, for every size of its list, every  *)
(* quota, hash function and timeout.  The invariant that is preserved is   *)
(* ListInv of ServerListProofs together with AnsweredInTime: removing,     *)
(* adding and updating a server keep the list in order, and each handler   *)
(* is made of these three.  Then: an answer lists each server once, the    *)
(* list keeps the promise of Registry, and the loops of servers.c do what  *)
(* ServerList says of them.                                                *)
(***************************************************************************)
EXTENDS DpmasterRegistry, DpmasterLoops, ServerListProofs, Induction

Answered(l) ==
  \A i \in Used(l) :
    l.servers[i].state \in InfoState =>
      /\ l.servers[i].challenge \in Challenge
      /\ l.servers[i].timeout <= l.servers[i].challenge_timeout + TIMEOUT_INFORESPONSE

OfHost(l, h) == {i \in Used(l) : HostOf(l.servers[i].address) = h}
Limited == max_per_address > 0 /\ ~hash_ports
Quota(l) == Limited => \A h \in Host : Cardinality(OfHost(l, h)) <= max_per_address

Good(l) == ListInv(l) /\ Answered(l) /\ Quota(l)

IInv ==
  /\ Good(list)
  /\ crt_time \in Nat
  /\ phase \in {"idle", "listing", "crashed"}
  /\ request \in Request \cup {NoRequest}
  /\ listed \in Seq([server : Address, sent : Address])

-----------------------------------------------------------------------------
(* The pieces the handlers are made of                                     *)

LEMMA HostSmaller ==
  ASSUME NEW l, NEW m, Used(m) \subseteq Used(l),
         \A i \in Used(m) : m.servers[i].address = l.servers[i].address, NEW h
  PROVE  /\ Cardinality(OfHost(m, h)) <= Cardinality(OfHost(l, h))
         /\ Cardinality(OfHost(l, h)) \in Nat /\ Cardinality(OfHost(m, h)) \in Nat
         /\ \A q \in Nat : Cardinality(OfHost(l, h)) < q => Cardinality(OfHost(m, h)) < q
<1>1. OfHost(m, h) \in SUBSET OfHost(l, h) /\ OfHost(l, h) \in SUBSET Used(l)
  BY DEF OfHost
<1>2. IsFiniteSet(OfHost(l, h)) /\ Cardinality(OfHost(l, h)) \in Nat
  BY <1>1, UsedFinite
<1>3. Cardinality(OfHost(m, h)) <= Cardinality(OfHost(l, h)) /\ Cardinality(OfHost(m, h)) \in Nat
  BY <1>1, <1>2, FS_Subset, FS_CardinalityType
<1> QED BY <1>2, <1>3

(* A list that lost servers is within the quotas when it was before.       *)
LEMMA QuotaSmaller ==
  ASSUME NEW l, NEW m, Quota(l), Used(m) \subseteq Used(l),
         \A i \in Used(m) : m.servers[i].address = l.servers[i].address
  PROVE  Quota(m)
<1> SUFFICES ASSUME Limited, NEW h \in Host PROVE Cardinality(OfHost(m, h)) <= max_per_address
  BY DEF Quota
<1>4. Cardinality(OfHost(l, h)) <= max_per_address
  BY DEF Quota
<1>5. /\ Cardinality(OfHost(m, h)) <= Cardinality(OfHost(l, h))
      /\ Cardinality(OfHost(l, h)) \in Nat /\ Cardinality(OfHost(m, h)) \in Nat
  BY HostSmaller
<1> QED BY <1>4, <1>5, ListAssumption

(* Sv_Remove keeps the invariant, and the servers it leaves are as they    *)
(* were.                                                                   *)
LEMMA RemoveGood ==
  ASSUME NEW l, Good(l), NEW R \in SUBSET Used(l)
  PROVE  /\ Good(Sv_Remove(l, R))
         /\ Used(Sv_Remove(l, R)) = Used(l) \ R
         /\ \A i \in Used(l) \ R : Sv_Remove(l, R).servers[i] = l.servers[i]
<1>1. ListInv(l) /\ Answered(l) /\ Quota(l)
  BY DEF Good
<1>2. /\ ListInv(Sv_Remove(l, R))
      /\ Used(Sv_Remove(l, R)) = Used(l) \ R
      /\ \A i \in Used(l) \ R : Sv_Remove(l, R).servers[i] = l.servers[i]
  BY <1>1, RemoveInv
<1>3. Answered(Sv_Remove(l, R))
  BY <1>1, <1>2 DEF Answered
<1>4. Quota(Sv_Remove(l, R))
  BY <1>1, <1>2, QuotaSmaller
<1> QED BY <1>2, <1>3, <1>4 DEF Good

(* Sv_CheckTimeouts keeps the invariant and removes timed out servers      *)
(* only.                                                                   *)
LEMMA CheckTimeoutsGood ==
  ASSUME NEW l, Good(l), NEW now
  PROVE  /\ Good(Sv_CheckTimeouts(l, now))
         /\ Used(Sv_CheckTimeouts(l, now)) \subseteq Used(l)
         /\ Used(l) \ Used(Sv_CheckTimeouts(l, now)) \subseteq Dead(l, now)
         /\ \A i \in Used(Sv_CheckTimeouts(l, now)) :
              Sv_CheckTimeouts(l, now).servers[i] = l.servers[i]
<1> DEFINE R == {i \in Dead(l, now) : i <= l.last_used_slot}
<1>1. R \in SUBSET Used(l) /\ R \subseteq Dead(l, now)
  BY DEF Dead
<1>2. Sv_CheckTimeouts(l, now) = Sv_Remove(l, R)
  BY DEF Sv_CheckTimeouts
<1> HIDE DEF R
<1> QED BY <1>1, <1>2, RemoveGood

(* Writing into the record of a used slot keeps the invariant, as long as  *)
(* the address stays and a server that is listed answered in time.         *)
LEMMA UpdateGood ==
  ASSUME NEW l, Good(l), NEW i \in Used(l), NEW sv \in Server,
         sv.state # "unused_slot", sv.address = l.servers[i].address,
         sv.state \in InfoState =>
           sv.challenge \in Challenge /\ sv.timeout <= sv.challenge_timeout + TIMEOUT_INFORESPONSE
  PROVE  Good([l EXCEPT !.servers[i] = sv])
<1> DEFINE m == [l EXCEPT !.servers[i] = sv]
<1>1. ListInv(l) /\ Answered(l) /\ Quota(l)
  BY DEF Good
<1>2. /\ ListInv(m)
      /\ Used(m) = Used(l)
      /\ m.servers[i] = sv
      /\ \A j \in Used(l) \ {i} : m.servers[j] = l.servers[j]
  BY <1>1, UpdateInv
<1> HIDE DEF m
<1>3. ASSUME NEW j \in Used(m), m.servers[j].state \in InfoState
      PROVE  /\ m.servers[j].challenge \in Challenge
             /\ m.servers[j].timeout <= m.servers[j].challenge_timeout + TIMEOUT_INFORESPONSE
  <2>1. CASE j = i BY <2>1, <1>2, <1>3
  <2>2. CASE j # i BY <2>2, <1>1, <1>2, <1>3 DEF Answered
  <2> QED BY <2>1, <2>2
<1>4. Answered(m)
  BY <1>3 DEF Answered
<1>5. Quota(m)
  BY <1>1, <1>2, QuotaSmaller
<1> QED BY <1>2, <1>4, <1>5 DEF Good, m

(* The record of a used slot.                                              *)
LEMMA RecordType ==
  ASSUME NEW l, Good(l), NEW i \in Used(l)
  PROVE  /\ i \in Slots
         /\ l \in ServerList
         /\ l.servers \in [Slots -> Server]
         /\ l.servers[i] \in Server
         /\ l.servers[i].state # "unused_slot"
         /\ l.servers[i].address \in Address
BY UsedFinite DEF Good, ListInv, ServerList, Addressed, Used

(* A heartbeat may renew the challenge: it is replaced only when it has    *)
(* expired, and then the stay of the server cannot reach beyond what the   *)
(* new one allows.                                                         *)
LEMMA SendGetInfoGood ==
  ASSUME NEW l, Good(l), NEW i \in Used(l), NEW c \in Challenge, crt_time \in Nat
  PROVE  Good(SendGetInfo(l, i, c))
<1> DEFINE old == l.servers[i]
           sv == [old EXCEPT !.challenge = c, !.challenge_timeout = crt_time + TIMEOUT_CHALLENGE]
<1>1. CASE ~ChallengeExpired(old)
  BY <1>1 DEF SendGetInfo
<1>2. CASE ChallengeExpired(old)
  <2>1. /\ i \in Slots /\ l \in ServerList /\ l.servers \in [Slots -> Server]
        /\ old \in Server /\ old.state # "unused_slot" /\ old.address \in Address
    BY RecordType
  <2>2. SendGetInfo(l, i, c) = [l EXCEPT !.servers[i] = sv]
    BY <1>2, <2>1 DEF SendGetInfo, ServerList
  <2>3. crt_time + TIMEOUT_CHALLENGE \in Nat /\ TIMEOUT_INFORESPONSE \in Nat /\ TIMEOUT_CHALLENGE \in Nat
    BY MasterAssumption
  <2>4. /\ sv \in Server
        /\ sv.state = old.state /\ sv.address = old.address /\ sv.timeout = old.timeout
        /\ sv.challenge = c /\ sv.challenge_timeout = crt_time + TIMEOUT_CHALLENGE
    BY <2>1, <2>3 DEF Server
  <2>5. ASSUME old.state \in InfoState
        PROVE  old.timeout <= crt_time + TIMEOUT_CHALLENGE + TIMEOUT_INFORESPONSE
    <3>1. old.timeout <= old.challenge_timeout + TIMEOUT_INFORESPONSE
      BY <2>5 DEF Good, Answered
    <3>2. old.challenge_timeout \in Nat /\ old.timeout \in Nat
      BY <2>1 DEF Server
    <3>3. old.challenge_timeout <= crt_time
      BY <1>2, <3>2 DEF ChallengeExpired
    <3> QED BY <3>1, <3>2, <3>3, <2>3
  <2> HIDE DEF sv, old
  <2>6. Good([l EXCEPT !.servers[i] = sv])
    <3>1. sv.state # "unused_slot" /\ sv.address = l.servers[i].address
      BY <2>1, <2>4 DEF old
    <3>2. sv.state \in InfoState =>
            sv.challenge \in Challenge /\ sv.timeout <= sv.challenge_timeout + TIMEOUT_INFORESPONSE
      BY <2>4, <2>5
    <3> QED BY <2>4, <3>1, <3>2, UpdateGood
  <2> QED BY <2>2, <2>6
<1> QED BY <1>1, <1>2

(* An accepted infoResponse prolongs the stay of its server, which         *)
(* therefore survives the check of the timeouts in Sv_WriteInfo.           *)
LEMMA AcceptedGood ==
  ASSUME NEW l, Good(l), NEW i \in Used(l), NEW info \in Info, crt_time \in Nat,
         ChallengeAnswered(l.servers[i], info)
  PROVE  LET m == Accepted(l, i, info)
         IN  /\ Good(m)
             /\ i \in Used(m) /\ Used(m) \subseteq Used(l)
             /\ m.servers[i].address = l.servers[i].address
             /\ m.servers[i].timeout = crt_time + TIMEOUT_INFORESPONSE
             /\ m.servers[i].state \in InfoState
             /\ \A j \in Used(m) \ {i} : m.servers[j] = l.servers[j]
             /\ Used(l) \ Used(m) \subseteq Dead(l, crt_time)
<1> DEFINE old == l.servers[i]
           sv == [old EXCEPT !.state = info.state, !.game = info.game,
                             !.timeout = crt_time + TIMEOUT_INFORESPONSE]
           saved == [l EXCEPT !.servers[i].state = info.state,
                              !.servers[i].game = info.game,
                              !.servers[i].timeout = crt_time + TIMEOUT_INFORESPONSE]
<1>1. /\ i \in Slots /\ l \in ServerList /\ l.servers \in [Slots -> Server]
      /\ old \in Server /\ old.state # "unused_slot" /\ old.address \in Address
  BY RecordType
<1>2. saved = [l EXCEPT !.servers[i] = sv]
  BY <1>1 DEF ServerList
<1>3. crt_time + TIMEOUT_INFORESPONSE \in Nat /\ TIMEOUT_INFORESPONSE \in Nat
  BY MasterAssumption
<1>4. info.state \in InfoState /\ info.game \in Game /\ info.challenge \in Challenge
  BY DEF Info
<1>5. sv \in Server
  BY <1>1, <1>3, <1>4 DEF Server, ServerState
<1>6. /\ sv.state = info.state /\ sv.address = old.address /\ sv.challenge = old.challenge
      /\ sv.challenge_timeout = old.challenge_timeout
      /\ sv.timeout = crt_time + TIMEOUT_INFORESPONSE
  BY <1>1 DEF Server
<1>7. old.challenge = info.challenge /\ crt_time <= old.challenge_timeout /\ old.challenge_timeout \in Nat
  BY <1>1 DEF ChallengeAnswered, ChallengeExpired, Server
<1> HIDE DEF sv, saved
<1>8. Good([l EXCEPT !.servers[i] = sv])
  <2>1. sv.state # "unused_slot" BY <1>4, <1>6 DEF InfoState
  <2>2. sv.challenge \in Challenge /\ sv.timeout <= sv.challenge_timeout + TIMEOUT_INFORESPONSE
    BY <1>3, <1>4, <1>6, <1>7
  <2> QED BY <1>5, <1>6, <2>1, <2>2, UpdateGood
<1>9. /\ Used(saved) = Used(l)
      /\ saved.servers[i] = sv
      /\ \A j \in Used(l) \ {i} : saved.servers[j] = l.servers[j]
  <2>1. ListInv(l) /\ sv.state # "unused_slot"
    BY <1>4, <1>6 DEF Good, InfoState
  <2> QED  BY <1>2, <1>5, <1>6, <2>1, UpdateInv
<1> DEFINE m == Sv_CheckTimeouts(saved, crt_time)
<1>10. /\ Good(m)
       /\ Used(m) \subseteq Used(saved)
       /\ Used(saved) \ Used(m) \subseteq Dead(saved, crt_time)
       /\ \A j \in Used(m) : m.servers[j] = saved.servers[j]
  <2>1. Good(saved)
    BY <1>2, <1>8
  <2> QED  BY <2>1, CheckTimeoutsGood
<1>11. m = Accepted(l, i, info)
  BY DEF Accepted, saved
<1> HIDE DEF m
<1>12. i \notin Dead(saved, crt_time)
  BY <1>3, <1>6, <1>9 DEF Dead
<1>13. Used(l) \ Used(m) \subseteq Dead(l, crt_time)
  BY <1>9, <1>10, <1>12 DEF Dead
<1>14. i \in Used(m) /\ m.servers[i] = sv
  BY <1>9, <1>10, <1>12
<1>15. \A j \in Used(m) \ {i} : m.servers[j] = l.servers[j]
  BY <1>9, <1>10
<1> QED BY <1>4, <1>6, <1>9, <1>10, <1>11, <1>13, <1>14, <1>15

(* Every way HandleInfoResponse ends keeps the invariant.                  *)
LEMMA HandleInfoResponseGood ==
  ASSUME NEW l, Good(l), NEW i \in Used(l), NEW info \in Info, crt_time \in Nat
  PROVE  Good(HandleInfoResponse(l, i, info))
<1>1. CASE ~ChallengeAnswered(l.servers[i], info) \/ info.content = "malformed"
  BY <1>1 DEF HandleInfoResponse
<1>2. CASE ChallengeAnswered(l.servers[i], info) /\ info.content = "no_credentials"
  <2>1. HandleInfoResponse(l, i, info) = Sv_Remove(l, {i})
    BY <1>2 DEF HandleInfoResponse
  <2> QED BY <2>1, RemoveGood
<1>3. CASE /\ ChallengeAnswered(l.servers[i], info)
           /\ info.content \notin {"malformed", "no_credentials"}
  <2>1. HandleInfoResponse(l, i, info) \in {l, Accepted(l, i, info)}
    BY <1>3 DEF HandleInfoResponse
  <2>2. Good(Accepted(l, i, info))
    BY <1>3, AcceptedGood
  <2> QED BY <2>1, <2>2
<1> QED BY <1>1, <1>2, <1>3

(* The walk of a chain removes only servers that timed out; when it finds  *)
(* nobody, no server of that address is left.                              *)
LEMMA WalkGood ==
  ASSUME NEW l, Good(l), NEW a \in Address, NEW now, NEW gone \in WalkRemovals(l, a, now)
  PROVE  LET walked == Sv_Remove(l, gone)
             found == Sv_GetByAddr_Internal(l, a, now)
         IN  /\ Good(walked)
             /\ found \subseteq Used(walked)
             /\ found \subseteq Used(l)
             /\ gone \subseteq Dead(l, now) /\ gone \subseteq Used(l)
             /\ \A i \in found : walked.servers[i] = l.servers[i] /\ l.servers[i].address = a
             /\ found = {} => \A i \in Used(walked) : walked.servers[i].address # a
<1> DEFINE dead == Bucket(l, a) \cap Dead(l, now)
           walked == Sv_Remove(l, gone)
           found == Sv_GetByAddr_Internal(l, a, now)
<1>1. gone \subseteq dead /\ (found = {} => gone = dead)
  BY DEF WalkRemovals
<1>2. gone \in SUBSET Used(l) /\ gone \subseteq Dead(l, now)
  BY <1>1 DEF Bucket
<1>3. /\ Good(walked)
      /\ Used(walked) = Used(l) \ gone
      /\ \A i \in Used(l) \ gone : walked.servers[i] = l.servers[i]
  BY <1>2, RemoveGood
<1> HIDE DEF walked
<1>4. found \subseteq Used(l) /\ found \subseteq Used(l) \ gone /\ \A i \in found : l.servers[i].address = a
  BY <1>2 DEF Sv_GetByAddr_Internal, Servers, Active
<1>5. ASSUME found = {}, NEW i \in Used(walked) PROVE walked.servers[i].address # a
  <2> SUFFICES ASSUME walked.servers[i].address = a PROVE FALSE
    OBVIOUS
  <2>1. i \in Used(l) /\ i \notin gone /\ l.servers[i].address = a BY <1>3
  <2>2. i \in Servers(l, a) /\ i \in Bucket(l, a) BY <2>1 DEF Servers, Bucket
  <2>3. i \notin Active(l, now) BY <1>5, <2>2 DEF Sv_GetByAddr_Internal
  <2>4. i \in dead BY <2>1, <2>2, <2>3 DEF Active
  <2> QED BY <1>1, <1>5, <2>1, <2>4
<1> QED BY <1>2, <1>3, <1>4, <1>5 DEF walked

(* Sv_GetByAddr adds a server to a list with room for it and a host below  *)
(* its quota.                                                              *)
LEMMA AddGood ==
  ASSUME NEW l, Good(l), NEW a \in Address, NEW now \in Nat,
         l.nb_servers < max_nb_servers,
         \A i \in Used(l) : l.servers[i].address # a,
         Limited => Cardinality(OfHost(l, HostOf(a))) < max_per_address
  PROVE  /\ Good(AddServer(l, a, now))
         /\ l.first_free_slot \in Used(AddServer(l, a, now))
<1> DEFINE n == AddServer(l, a, now)
           slot == l.first_free_slot
<1>1. /\ ListInv(n)
      /\ slot \in Used(n)
      /\ n.servers[slot] = NewServer(a, now)
      /\ \A i \in Used(n) \ {slot} : i \in Used(l) /\ n.servers[i] = l.servers[i]
  BY AddInv DEF Good
<1> HIDE DEF n, slot
<1>2. NewServer(a, now).state \notin InfoState
  BY NewServerType DEF InfoState
<1>3. Answered(n)
  BY <1>1, <1>2 DEF Good, Answered
<1>4. ASSUME Limited, NEW h \in Host PROVE Cardinality(OfHost(n, h)) <= max_per_address
  <2>1. OfHost(l, h) \in SUBSET Used(l) BY DEF OfHost
  <2>2. IsFiniteSet(OfHost(l, h)) /\ Cardinality(OfHost(l, h)) \in Nat BY <2>1, UsedFinite
  <2>3. n.servers[slot].address = a BY <1>1, NewServerType
  <2>4. CASE h = HostOf(a)
    <3>1. OfHost(n, h) \in SUBSET (OfHost(l, h) \cup {slot}) BY <1>1 DEF OfHost
    <3>2. /\ IsFiniteSet(OfHost(l, h) \cup {slot})
          /\ Cardinality(OfHost(l, h) \cup {slot}) <= Cardinality(OfHost(l, h)) + 1
          /\ Cardinality(OfHost(l, h) \cup {slot}) \in Nat
      <4>1. /\ IsFiniteSet(OfHost(l, h) \cup {slot})
            /\ Cardinality(OfHost(l, h) \cup {slot}) =
                 IF slot \in OfHost(l, h) THEN Cardinality(OfHost(l, h)) ELSE Cardinality(OfHost(l, h)) + 1
        BY <2>2, FS_AddElement
      <4> QED BY <2>2, <4>1
    <3>3. Cardinality(OfHost(n, h)) <= Cardinality(OfHost(l, h) \cup {slot}) /\ Cardinality(OfHost(n, h)) \in Nat
      BY <3>1, <3>2, FS_Subset, FS_CardinalityType
    <3>4. Cardinality(OfHost(l, h)) < max_per_address BY <1>4, <2>4
    <3> QED BY <2>2, <3>2, <3>3, <3>4, ListAssumption
  <2>5. CASE h # HostOf(a)
    <3>1. OfHost(n, h) \in SUBSET OfHost(l, h) BY <1>1, <2>3, <2>5 DEF OfHost
    <3>2. Cardinality(OfHost(n, h)) <= Cardinality(OfHost(l, h)) /\ Cardinality(OfHost(n, h)) \in Nat
      BY <2>2, <3>1, FS_Subset, FS_CardinalityType
    <3>3. Cardinality(OfHost(l, h)) <= max_per_address BY <1>4 DEF Good, Quota
    <3> QED BY <2>2, <3>2, <3>3, ListAssumption
  <2> QED BY <2>4, <2>5
<1>5. Quota(n)
  BY <1>4 DEF Quota
<1> QED BY <1>1, <1>3, <1>5 DEF Good, n, slot

(* The servers of a host are all in the chain of its addresses, so a walk  *)
(* that lets an address in has counted them all.                           *)
LEMMA MayAddCounts ==
  ASSUME NEW l, Good(l), NEW a \in Address, MayAdd(l, a), Limited
  PROVE  Cardinality(OfHost(l, HostOf(a))) < max_per_address
<1>1. SameHost(l, a) = OfHost(l, HostOf(a))
  <2>1. ASSUME NEW i \in Used(l), HostOf(l.servers[i].address) = HostOf(a) PROVE i \in Bucket(l, a)
    <3>1. l.servers[i].address \in Address BY RecordType
    <3>2. AddressHash[l.servers[i].address] = AddressHash[a] BY <2>1, <3>1, ListAssumption DEF Limited
    <3> QED BY <3>2 DEF Bucket
  <2>2. Bucket(l, a) \subseteq Used(l) BY DEF Bucket
  <2> QED BY <2>1, <2>2 DEF SameHost, OfHost
<1>2. max_per_address # 0
  BY ListAssumption DEF Limited
<1> QED BY <1>1, <1>2 DEF MayAdd

(* Making room keeps the invariant and removes timed out servers only.     *)
LEMMA MakeRoomGood ==
  ASSUME NEW l, Good(l), NEW now
  PROVE  /\ Good(MakeRoom(l, now))
         /\ Used(MakeRoom(l, now)) \subseteq Used(l)
         /\ Used(l) \ Used(MakeRoom(l, now)) \subseteq Dead(l, now)
         /\ \A i \in Used(MakeRoom(l, now)) : MakeRoom(l, now).servers[i] = l.servers[i]
BY CheckTimeoutsGood DEF MakeRoom

-----------------------------------------------------------------------------
(* The steps                                                               *)

LEMMA InitGood == Good(Sv_Init)
<1> DEFINE l == Sv_Init
<1>1. Used(l) = {}
  BY DEF Sv_Init, Used, UnusedServer
<1>2. l \in ServerList
  BY UnusedType, SlotsFinite DEF Sv_Init, ServerList
<1>3. Counted(l)
  BY <1>1, FS_EmptySet DEF Counted, Sv_Init
<1>4. FirstFree(l)
  <2>1. 0 \in Slots \ Used(l) /\ \A i \in Slots \ Used(l) : 0 <= i
    BY <1>1, SlotsFinite
  <2>2. LowestOf(Slots \ Used(l)) = 0
    BY <2>1, LowestUnique
  <2> QED BY <2>2 DEF FirstFree, Sv_Init
<1>5. Addressed(l) /\ Distinct(l) /\ EndKnown(l) /\ Answered(l)
  BY <1>1 DEF Addressed, Distinct, EndKnown, Answered
<1>6. Bounded(l)
  BY DEF Bounded, Sv_Init
<1>7. Quota(l)
  <2>1. \A h \in Host : OfHost(l, h) = {} BY <1>1 DEF OfHost
  <2> QED BY <2>1, FS_EmptySet, ListAssumption DEF Quota
<1> QED BY <1>2, <1>3, <1>4, <1>5, <1>6, <1>7 DEF Good, ListInv

(* The program starts with an empty list.                                  *)
LEMMA InitInv == Init => IInv
BY InitGood DEF Init, IInv

(* A heartbeat walks a chain, may make room and add, and renews a          *)
(* challenge.                                                              *)
LEMMA HeartbeatInv ==
  ASSUME IInv, NEW a \in Address, Heartbeat(a)
  PROVE  IInv'
<1>1. Good(list) /\ crt_time \in Nat
  BY DEF IInv
<1>2. UNCHANGED <<crt_time, phase, request, listed>>
  BY DEF Heartbeat, ListVars
<1>3. Good(list')
  <2>1. PICK gone \in WalkRemovals(list, a, crt_time), c \in Challenge :
          LET walked == Sv_Remove(list, gone)
              found == Sv_GetByAddr_Internal(list, a, crt_time)
              room == MakeRoom(walked, crt_time)
          IN  \/ \E i \in found : list' = SendGetInfo(walked, i, c)
              \/ found = {} /\ list' = walked
              \/ found = {} /\ list' = room
              \/ /\ found = {}
                 /\ MayAdd(walked, a)
                 /\ room.nb_servers < max_nb_servers
                 /\ list' = SendGetInfo(AddServer(room, a, crt_time), room.first_free_slot, c)
    BY DEF Heartbeat
  <2> DEFINE walked == Sv_Remove(list, gone)
             found == Sv_GetByAddr_Internal(list, a, crt_time)
             room == MakeRoom(walked, crt_time)
  <2>2. /\ Good(walked)
        /\ found \subseteq Used(walked)
        /\ found = {} => \A i \in Used(walked) : walked.servers[i].address # a
    BY <1>1, WalkGood
  <2> HIDE DEF walked, found
  <2>3. /\ Good(room)
        /\ Used(room) \subseteq Used(walked)
        /\ \A i \in Used(room) : room.servers[i] = walked.servers[i]
    BY <2>2, MakeRoomGood
  <2> HIDE DEF room
  <2>4. ASSUME NEW i \in found PROVE Good(SendGetInfo(walked, i, c))
    BY <1>1, <2>2, SendGetInfoGood
  <2>5. ASSUME found = {}, MayAdd(walked, a), room.nb_servers < max_nb_servers
        PROVE  Good(SendGetInfo(AddServer(room, a, crt_time), room.first_free_slot, c))
    <3>1. \A i \in Used(room) : room.servers[i].address # a
      BY <2>2, <2>3, <2>5
    <3>3. Limited => Cardinality(OfHost(room, HostOf(a))) < max_per_address
      BY <2>2, <2>3, <2>5, MayAddCounts, HostSmaller, ListAssumption
    <3>2. Good(AddServer(room, a, crt_time)) /\ room.first_free_slot \in Used(AddServer(room, a, crt_time))
      BY <1>1, <2>3, <2>5, <3>1, <3>3, AddGood
    <3> QED BY <1>1, <3>2, SendGetInfoGood
  <2> QED BY <2>1, <2>2, <2>3, <2>4, <2>5 DEF walked, found, room
<1> QED BY <1>1, <1>2, <1>3 DEF IInv, Good, Answered, Quota, OfHost, ListInv

(* An infoResponse walks a chain and is handled by the server it found.    *)
LEMMA InfoResponseInv ==
  ASSUME IInv, NEW a \in Address, NEW info \in InfoMessage, InfoResponse(a, info)
  PROVE  IInv'
<1>1. Good(list) /\ crt_time \in Nat /\ info \in Info
  BY MasterAssumption DEF IInv
<1>2. UNCHANGED <<crt_time, phase, request, listed>>
  BY DEF InfoResponse, ListVars
<1>3. Good(list')
  <2>1. PICK gone \in WalkRemovals(list, a, crt_time) :
          \/ \E i \in Sv_GetByAddr_Internal(list, a, crt_time) :
               list' = HandleInfoResponse(Sv_Remove(list, gone), i, info)
          \/ list' = Sv_Remove(list, gone)
    BY DEF InfoResponse
  <2>2. Good(Sv_Remove(list, gone))
        /\ Sv_GetByAddr_Internal(list, a, crt_time) \subseteq Used(Sv_Remove(list, gone))
    BY <1>1, WalkGood
  <2>3. ASSUME NEW i \in Sv_GetByAddr_Internal(list, a, crt_time)
        PROVE  Good(HandleInfoResponse(Sv_Remove(list, gone), i, info))
    BY <1>1, <2>2, HandleInfoResponseGood
  <2> QED BY <2>1, <2>2, <2>3
<1> QED BY <1>1, <1>2, <1>3 DEF IInv, Good, Answered, Quota, OfHost, ListInv

(* The body of the loop of HandleGetServers.                               *)
LEMMA VisitInv ==
  ASSUME NEW l, Good(l), NEW req, NEW before \in Seq([server : Address, sent : Address]),
         Visit(l, req, before), l.crt_server_ind \in Slots
  PROVE  Good(list') /\ listed' \in Seq([server : Address, sent : Address])
<1> DEFINE i == l.crt_server_ind
           sv == l.servers[i]
<1>1. list' = Sv_Remove(l, {i} \cap Dead(l, crt_time))
  BY DEF Visit, Sv_IsActive
<1>2. {i} \cap Dead(l, crt_time) \in SUBSET Used(l)
  BY DEF Dead
<1>3. Good(list')
  BY <1>1, <1>2, RemoveGood
<1>4. CASE i \in Active(l, crt_time) /\ Relevant(sv, req)
  <2>1. i \in Used(l) BY <1>4 DEF Active
  <2>2. sv \in Server /\ sv.address \in Address BY <2>1, RecordType
  <2>3. Entry(sv) \in [server : Address, sent : Address]
    <3>1. sv.addrmap \in Address \cup {NoAddress} BY <2>2 DEF Server
    <3> QED BY <2>2, <3>1 DEF Entry
  <2>4. listed' = Append(before, Entry(sv)) BY <1>4 DEF Visit
  <2> QED BY <1>3, <2>3, <2>4
<1>5. CASE ~(i \in Active(l, crt_time) /\ Relevant(sv, req))
  <2>1. listed' = before BY <1>5 DEF Visit
  <2> QED BY <1>3, <2>1
<1> QED BY <1>4, <1>5

(* An iteration that is not over stands in the list.                       *)
LEMMA IterationDefined ==
  ASSUME NEW l, Good(l), l.crt_server_ind # l.last_server_ind
  PROVE  l.last_used_slot >= 0
<1>1. /\ l.crt_server_ind \in Slots \cup {-1}
      /\ l.last_server_ind \in Slots \cup {-1}
      /\ l.last_used_slot \in Slots \cup {-1}
      /\ l.crt_server_ind <= l.last_used_slot /\ l.last_server_ind <= l.last_used_slot
  BY DEF Good, ListInv, ServerList, Bounded
<1>2. CASE l.last_used_slot = -1
  <2>1. l.crt_server_ind = -1 BY <1>1, <1>2, SlotsFinite
  <2>2. l.last_server_ind = -1 BY <1>1, <1>2, SlotsFinite
  <2> QED BY <2>1, <2>2
<1>3. CASE l.last_used_slot \in Slots
  BY <1>3, SlotsFinite
<1> QED BY <1>1, <1>2, <1>3

(* The first slot of an answer.                                            *)
LEMMA GetServersInv ==
  ASSUME IInv, NEW req \in Request, GetServers(req)
  PROVE  IInv'
<1>1. Good(list) /\ crt_time \in Nat /\ crt_time' = crt_time
  BY DEF IInv, GetServers
<1>2. CASE phase' = "crashed" /\ UNCHANGED <<list, request, listed>>
  BY <1>1, <1>2 DEF IInv, Good, Answered, Quota, OfHost, ListInv
<1>3. CASE /\ \E start \in 0 .. list.last_used_slot : Visit(Sv_GetFirst(list, start), req, <<>>)
           /\ phase' = "listing"
           /\ request' = req
  <2>1. PICK start \in 0 .. list.last_used_slot : Visit(Sv_GetFirst(list, start), req, <<>>)
    BY <1>3
  <2> DEFINE l == Sv_GetFirst(list, start)
  <2>2. list \in ServerList /\ list.last_used_slot \in Slots \cup {-1}
    BY <1>1 DEF Good, ListInv, ServerList
  <2>3. list.last_used_slot >= 0 /\ list.last_used_slot \in Slots
    BY <2>1, <2>2, SlotsFinite
  <2>4. ListInv(l) /\ l.servers = list.servers
    BY <1>1, <2>1, <2>3, IterateInv DEF Good
  <2>5. l.crt_server_ind \in Slots
    <3>1. l.crt_server_ind = start BY <2>2 DEF Sv_GetFirst, ServerList
    <3> QED BY <2>1, <2>3, <3>1, SlotsFinite
  <2> HIDE DEF l
  <2>6. Good(l)
    BY <1>1, <2>4 DEF Good, Answered, Quota, OfHost, Used
  <2>7. <<>> \in Seq([server : Address, sent : Address])
    OBVIOUS
  <2>8. Visit(l, req, <<>>)
    BY <2>1 DEF l
  <2>9. Good(list') /\ listed' \in Seq([server : Address, sent : Address])
    BY <2>5, <2>6, <2>7, <2>8, VisitInv
  <2> QED BY <1>1, <1>3, <2>9 DEF IInv, Good, Answered, Quota, OfHost, ListInv
<1> QED BY <1>2, <1>3 DEF GetServers

(* The next slot of an answer.                                             *)
LEMMA GetNextInv ==
  ASSUME IInv, GetNext
  PROVE  IInv'
<1> DEFINE l == Sv_GetNext(list)
<1>1. Good(list) /\ crt_time \in Nat /\ UNCHANGED <<crt_time, phase, request>>
      /\ listed \in Seq([server : Address, sent : Address])
  BY DEF IInv, GetNext
<1>2. list.last_used_slot >= 0
  BY <1>1, IterationDefined DEF GetNext, Exhausted
<1>3. /\ list \in ServerList /\ list.last_used_slot \in Slots /\ list.last_used_slot \in Nat
      /\ list.crt_server_ind \in Int
  BY <1>1, <1>2, SlotsFinite DEF Good, ListInv, ServerList
<1>4. ListInv(l) /\ l.servers = list.servers
  BY <1>1, <1>2, IterateInv DEF Good
<1>5. l.crt_server_ind \in Slots
  <2>1. l.crt_server_ind = (list.crt_server_ind + 1) % (list.last_used_slot + 1)
    BY <1>3 DEF Sv_GetNext, ServerList
  <2>2. list.last_used_slot <= max_nb_servers - 1 BY <1>3, SlotsFinite
  <2> QED BY <1>3, <2>1, <2>2, SlotsFinite
<1> HIDE DEF l
<1>6. Good(l)
  BY <1>1, <1>4 DEF Good, Answered, Quota, OfHost, Used
<1>7. Visit(l, request, listed)
  BY DEF GetNext, l
<1>8. Good(list') /\ listed' \in Seq([server : Address, sent : Address])
  BY <1>1, <1>5, <1>6, <1>7, VisitInv
<1> QED BY <1>1, <1>8 DEF IInv, Good, Answered, Quota, OfHost, ListInv

(* Every step keeps the invariant.                                         *)
LEMMA NextInv == IInv /\ [Next]_vars => IInv'
<1> SUFFICES ASSUME IInv, [Next]_vars PROVE IInv'
  OBVIOUS
<1>1. ASSUME NEW a \in Address, Heartbeat(a) PROVE IInv'
  BY <1>1, HeartbeatInv
<1>2. ASSUME NEW a \in Address, NEW info \in InfoMessage, InfoResponse(a, info) PROVE IInv'
  BY <1>2, InfoResponseInv
<1>3. ASSUME NEW a \in Address, NEW info \in InfoMessage, InfoResponseFaults(a, info) PROVE IInv'
  BY <1>3 DEF InfoResponseFaults, IInv, Good, Answered, Quota, OfHost, ListInv
<1>4. ASSUME NEW req \in Request, GetServers(req) PROVE IInv'
  BY <1>4, GetServersInv
<1>5. CASE GetNext
  BY <1>5, GetNextInv
<1>6. CASE SendAnswer
  BY <1>6 DEF SendAnswer, IInv, Good, Answered, Quota, OfHost, ListInv
<1>7. CASE PrintServerList
  <2>1. Good(list') BY <1>7, CheckTimeoutsGood DEF PrintServerList, IInv
  <2> QED BY <1>7, <2>1 DEF PrintServerList, ListVars, IInv, Good, Answered, Quota, OfHost, ListInv
<1>8. CASE Tick
  BY <1>8 DEF Tick, ListVars, IInv, Good, Answered, Quota, OfHost, ListInv
<1>9. CASE Restart
  <2>1. Good(Sv_Init) BY InitGood
  <2> QED BY <1>9, <2>1 DEF Restart, IInv, Good, Answered, Quota, OfHost, ListInv
<1>10. CASE UNCHANGED vars
  BY <1>10 DEF vars, IInv, Good, Answered, Quota, OfHost, ListInv
<1> QED BY <1>1, <1>2, <1>3, <1>4, <1>5, <1>6, <1>7, <1>8, <1>9, <1>10 DEF Next

(* The invariant holds in every reachable state.                           *)
THEOREM Inductive == Spec => []IInv
BY InitInv, NextInv, PTL DEF Spec

-----------------------------------------------------------------------------
(* The types of the state: no slot index leaves servers[], no counter      *)
(* goes below zero, whatever the messages and their timing.                *)
THEOREM TypeCorrect == Spec => []TypeOK
<1>1. IInv => TypeOK
  BY DEF IInv, TypeOK, Good, ListInv
<1> QED BY <1>1, Inductive, PTL

(* nb_servers counts the used slots.                                       *)
THEOREM CountCorrect == Spec => []NbServersCounts
<1>1. IInv => NbServersCounts
  BY DEF IInv, NbServersCounts, Good, ListInv, Counted
<1> QED BY <1>1, Inductive, PTL

(* first_free_slot is the lowest unused slot.                              *)
THEOREM FirstFreeCorrect == Spec => []FirstFreeIsLowest
<1>1. IInv => FirstFreeIsLowest
  BY DEF IInv, FirstFreeIsLowest, Good, ListInv, FirstFree
<1> QED BY <1>1, Inductive, PTL

(* No address is registered twice.                                         *)
THEOREM AddressesDistinct == Spec => []OneSlotPerAddress
<1>1. ASSUME IInv, NEW a \in Address PROVE Cardinality(Servers(list, a)) <= 1
  <2>1. \A i, j \in Servers(list, a) : i = j
    BY <1>1 DEF IInv, Good, ListInv, Distinct, Servers
  <2>2. CASE Servers(list, a) = {}
    BY <2>2, FS_EmptySet
  <2>3. CASE Servers(list, a) # {}
    <3>1. PICK i : Servers(list, a) = {i} BY <2>1, <2>3
    <3> QED BY <3>1, FS_Singleton
  <2> QED BY <2>2, <2>3
<1>2. IInv => OneSlotPerAddress
  BY <1>1 DEF OneSlotPerAddress
<1> QED BY <1>2, Inductive, PTL

(* The asserts of Sv_GetByAddr on a full list hold.                        *)
THEOREM FullListCorrect == Spec => []FullListEnds
<1>1. IInv => FullListEnds
  BY FullOrFree DEF IInv, FullListEnds, Good
<1> QED BY <1>1, Inductive, PTL

(* No public address gets more servers than the quota.                     *)
THEOREM QuotaKept == Spec => []QuotaRespected
<1>1. IInv => QuotaRespected
  BY DEF IInv, QuotaRespected, Good, Quota, OfHost, Limited
<1> QED BY <1>1, Inductive, PTL

(* Every registered server answered a challenge in time.                   *)
THEOREM AnswersInTime == Spec => []AnsweredInTime
<1>1. IInv => AnsweredInTime
  BY DEF IInv, AnsweredInTime, Good, Answered
<1> QED BY <1>1, Inductive, PTL

(* Sv_GetNext never divides by zero.                                       *)
THEOREM IterationSafe == Spec => []GetNextDefined
<1>1. IInv => GetNextDefined
  BY IterationDefined DEF IInv, GetNextDefined, Exhausted
<1> QED BY <1>1, Inductive, PTL

-----------------------------------------------------------------------------
(* The answer to a request                                                 *)

(* The slots the iteration has still to look at: those up to its end, or,  *)
(* when its end lies below it, those up to last_used_slot and from there   *)
(* on those from the first slot to its end.                                *)
ToVisit(l) ==
  IF l.crt_server_ind <= l.last_server_ind
  THEN l.crt_server_ind + 1 .. l.last_server_ind
  ELSE (l.crt_server_ind + 1 .. l.last_used_slot) \cup (0 .. l.last_server_ind)

(* The servers of an answer are in the list, live and wanted, at slots     *)
(* that are not in S.                                                      *)
Behind(l, answer, req, now, S) ==
  \A n \in 1 .. Len(answer) :
    \E i \in Servers(l, answer[n].server) :
      i \notin S /\ i \in Active(l, now) /\ Relevant(l.servers[i], req)

Once(answer) == \A m, n \in 1 .. Len(answer) : answer[m].server = answer[n].server => m = n

(* What is listed lies behind the iteration, which comes to its end before *)
(* it comes around.                                                        *)
Iterated ==
  phase = "listing" =>
    /\ list.crt_server_ind # list.last_server_ind => list.last_server_ind >= 0
    /\ Once(listed)
    /\ Behind(list, listed, request, crt_time, ToVisit(list))

(* Removing the server the iteration stands at moves its ends, but leaves  *)
(* no slot to visit again.                                                 *)
LEMMA RemoveCursor ==
  ASSUME NEW l \in ServerList, Bounded(l), NEW R \in SUBSET {l.crt_server_ind}, R \subseteq Used(l),
         l.crt_server_ind >= 0, l.last_server_ind >= 0
  PROVE  /\ ToVisit(Sv_Remove(l, R)) \subseteq ToVisit(l)
         /\ Sv_Remove(l, R).crt_server_ind # Sv_Remove(l, R).last_server_ind
              => Sv_Remove(l, R).last_server_ind >= 0
<1> DEFINE m == Sv_Remove(l, R)
           c == l.crt_server_ind
           e == l.last_server_ind
           below == {i \in Used(l) \ R : i < l.last_used_slot}
           last == IF l.last_used_slot \in R THEN HighestOf(below) ELSE l.last_used_slot
<1>1. /\ c \in Int /\ e \in Int /\ l.last_used_slot \in Int /\ c <= l.last_used_slot /\ e <= l.last_used_slot
      /\ l.last_used_slot \in Slots \cup {-1}
  BY SlotsFinite DEF ServerList, Bounded
<1>2. CASE R = {}
  <2>1. m = l
    BY <1>2 DEF Sv_Remove
  <2> QED  BY <2>1
<1>3. CASE R # {}
  <2>1. R = {c}
    BY <1>3
  <2>2. /\ m.last_used_slot = last
        /\ m.crt_server_ind = AtMost(c, last)
        /\ m.last_server_ind = AtMost(e, last)
    BY <1>3 DEF Sv_Remove
  <2>3. below \in SUBSET Slots
    BY UsedFinite
  <2>4. HighestOf(below) \in Int /\ HighestOf(below) < l.last_used_slot
    <3>1. HighestOf(below) \in Slots \cup {-1} /\ (below # {} => HighestOf(below) \in below)
          /\ (below = {} => HighestOf(below) = -1)
      BY <2>3, HighestIs
    <3>2. l.last_used_slot >= 0
      BY <1>1
    <3>3. \A i \in below : i \in Int /\ i < l.last_used_slot
      BY <2>3, SlotsFinite
    <3> HIDE DEF below
    <3>4. CASE below = {}
      BY <1>1, <3>1, <3>2, <3>4
    <3>5. CASE below # {}
      BY <3>1, <3>3, <3>5
    <3> QED  BY <3>4, <3>5
  <2> HIDE DEF m, below
  <2>5. CASE l.last_used_slot # c
    <3>1. last = l.last_used_slot
      BY <2>1, <2>5
    <3>2. m.last_used_slot = l.last_used_slot /\ m.crt_server_ind = c /\ m.last_server_ind = e
      BY <1>1, <2>2, <3>1 DEF AtMost
    <3> QED  BY <1>1, <3>2 DEF ToVisit, m
  <2>6. CASE l.last_used_slot = c
    <3>1. last = HighestOf(below) /\ last < c /\ last \in Int
      BY <2>1, <2>4, <2>6
    <3> HIDE DEF last
    <3>2. m.last_used_slot = last /\ m.crt_server_ind = last /\ m.last_server_ind = AtMost(e, last)
      BY <1>1, <2>2, <3>1 DEF AtMost
    <3>3. CASE e >= last
      <4>1. m.last_server_ind = last
        BY <1>1, <3>1, <3>2, <3>3 DEF AtMost
      <4> QED  BY <3>1, <3>2, <4>1 DEF ToVisit, m
    <3>4. CASE e < last
      <4>1. m.last_server_ind = e
        BY <1>1, <3>1, <3>2, <3>4 DEF AtMost
      <4>2. ToVisit(m) = 0 .. e
        <5>1. ~(last <= e) /\ last + 1 .. last = {}
          BY <1>1, <3>1, <3>4
        <5> QED  BY <3>2, <4>1, <5>1 DEF ToVisit
      <4>3. ToVisit(l) = 0 .. e
        <5>1. ~(c <= e) /\ c + 1 .. c = {}
          BY <1>1, <3>1, <3>4
        <5> QED  BY <2>6, <5>1 DEF ToVisit
      <4> QED  BY <4>1, <4>2, <4>3 DEF m
    <3> QED  BY <1>1, <3>1, <3>3, <3>4
  <2> QED  BY <2>5, <2>6
<1> QED  BY <1>2, <1>3

(* Visiting a slot with nothing of the answer in it adds its server, or    *)
(* nothing, and removes nothing that is listed.                            *)
LEMMA VisitListed ==
  ASSUME NEW l, Good(l), NEW req, NEW before \in Seq([server : Address, sent : Address]),
         Visit(l, req, before),
         l.crt_server_ind \in Slots, l.last_server_ind >= 0,
         l.crt_server_ind \notin ToVisit(l),
         Once(before), Behind(l, before, req, crt_time, ToVisit(l) \cup {l.crt_server_ind})
  PROVE  /\ list'.crt_server_ind # list'.last_server_ind => list'.last_server_ind >= 0
         /\ Once(listed')
         /\ Behind(list', listed', req, crt_time, ToVisit(list'))
<1> DEFINE c == l.crt_server_ind
           R == {c} \cap Dead(l, crt_time)
<1>1. list' = Sv_Remove(l, R)
  BY DEF Visit, Sv_IsActive
<1>2. R \in SUBSET Used(l) /\ R \in SUBSET {c}
  BY DEF Dead
<1>3. l \in ServerList /\ Bounded(l) /\ Distinct(l) /\ c >= 0 /\ Used(l) \subseteq Slots
  BY SlotsFinite, UsedFinite DEF Good, ListInv
<1>4. /\ ToVisit(list') \subseteq ToVisit(l)
      /\ list'.crt_server_ind # list'.last_server_ind => list'.last_server_ind >= 0
  BY <1>1, <1>2, <1>3, RemoveCursor
<1>5. Used(list') = Used(l) \ R /\ \A i \in Used(l) \ R : list'.servers[i] = l.servers[i]
  BY <1>1, <1>2, RemoveGood
<1>6. \A i \in Active(l, crt_time) :
        i \in Active(list', crt_time) /\ list'.servers[i] = l.servers[i]
  BY <1>5 DEF Active, Dead
<1>7. ASSUME NEW a, NEW i \in Servers(l, a), i \in Active(l, crt_time)
      PROVE  i \in Servers(list', a)
  BY <1>5, <1>6, <1>7 DEF Servers, Active
<1>8. ASSUME NEW n \in 1 .. Len(before)
      PROVE  \E i \in Servers(list', before[n].server) :
               /\ i \notin ToVisit(list') /\ i \in Active(list', crt_time)
               /\ Relevant(list'.servers[i], req)
  <2>1. PICK i \in Servers(l, before[n].server) :
          i \notin ToVisit(l) /\ i \in Active(l, crt_time) /\ Relevant(l.servers[i], req)
    BY DEF Behind
  <2> QED  BY <1>4, <1>6, <1>7, <2>1
<1>9. CASE c \in Active(l, crt_time) /\ Relevant(l.servers[c], req)
  <2> DEFINE a == l.servers[c].address
  <2>1. listed' = Append(before, Entry(l.servers[c])) /\ Entry(l.servers[c]).server = a
    BY <1>9 DEF Visit, Entry
  <2>2. c \in Servers(l, a) /\ c \in Servers(list', a)
    BY <1>7, <1>9 DEF Servers, Active
  <2>3. /\ Len(listed') = Len(before) + 1 /\ Len(before) \in Nat
        /\ \A n \in 1 .. Len(before) : listed'[n] = before[n]
        /\ listed'[Len(before) + 1].server = a
    BY <2>1
  <2>4. ASSUME NEW n \in 1 .. Len(before) PROVE before[n].server # a
    <3>1. PICK i \in Servers(l, before[n].server) : i # c
      BY DEF Behind
    <3> QED  BY <1>3, <2>2, <3>1 DEF Servers, Distinct
  <2>5. \A n \in 1 .. Len(listed') : n \in 1 .. Len(before) \/ n = Len(before) + 1
    BY <2>3
  <2>6. Once(listed')
    BY <2>3, <2>4, <2>5 DEF Once
  <2>7. c \notin ToVisit(list') /\ c \in Active(list', crt_time) /\ Relevant(list'.servers[c], req)
    BY <1>4, <1>6, <1>9
  <2>8. Behind(list', listed', req, crt_time, ToVisit(list'))
    BY <1>8, <2>2, <2>3, <2>5, <2>7 DEF Behind
  <2> QED  BY <1>4, <2>6, <2>8
<1>10. CASE ~(c \in Active(l, crt_time) /\ Relevant(l.servers[c], req))
  <2>1. listed' = before
    BY <1>10 DEF Visit
  <2>2. Behind(list', listed', req, crt_time, ToVisit(list'))
    BY <1>8, <2>1 DEF Behind
  <2> QED  BY <1>4, <2>1, <2>2
<1> QED  BY <1>9, <1>10

(* The next slot is one to visit, and after the step it no longer is.      *)
LEMMA NextSlot ==
  ASSUME NEW l, Good(l), l.crt_server_ind # l.last_server_ind, l.last_server_ind >= 0
  PROVE  /\ Sv_GetNext(l).crt_server_ind \in Slots
         /\ Sv_GetNext(l).last_server_ind = l.last_server_ind
         /\ Sv_GetNext(l).crt_server_ind \in ToVisit(l)
         /\ Sv_GetNext(l).crt_server_ind \notin ToVisit(Sv_GetNext(l))
         /\ ToVisit(Sv_GetNext(l)) \subseteq ToVisit(l)
<1> DEFINE m == Sv_GetNext(l)
           c == l.crt_server_ind
           e == l.last_server_ind
           last == l.last_used_slot
<1>1. /\ l \in ServerList /\ c \in Slots \cup {-1} /\ e \in Slots /\ last \in Slots
      /\ c <= last /\ e <= last
  BY IterationDefined, SlotsFinite DEF Good, ListInv, ServerList, Bounded
<1>2. /\ c \in Int /\ e \in Int /\ last \in Int /\ c >= -1 /\ e >= 0 /\ last >= e
      /\ \A i \in 0 .. last : i \in Slots
  BY <1>1, SlotsFinite
<1>3. /\ m.crt_server_ind = (c + 1) % (last + 1) /\ m.last_server_ind = e /\ m.last_used_slot = last
  BY <1>1 DEF Sv_GetNext, ServerList
<1>4. CASE c < last
  <2>1. (c + 1) % (last + 1) = c + 1
    BY <1>1, <1>2, <1>4
  <2> HIDE DEF m
  <2>2. m.crt_server_ind = c + 1 /\ c + 1 \in 0 .. last
    BY <1>2, <1>3, <1>4, <2>1
  <2>3. CASE c < e
    <3>1. c <= e /\ c + 1 <= e
      BY <1>2, <2>3
    <3>2. ToVisit(l) = c + 1 .. e /\ ToVisit(m) = c + 1 + 1 .. e
      BY <1>3, <2>2, <3>1 DEF ToVisit
    <3>3. c + 1 \in c + 1 .. e /\ c + 1 \notin c + 1 + 1 .. e /\ c + 1 + 1 .. e \subseteq c + 1 .. e
      BY <1>2, <3>1
    <3> QED  BY <1>2, <1>3, <2>2, <3>2, <3>3 DEF m
  <2>4. CASE c > e
    <3>1. ~(c <= e) /\ ~(c + 1 <= e)
      BY <1>2, <2>4
    <3>2. /\ ToVisit(l) = (c + 1 .. last) \cup (0 .. e)
          /\ ToVisit(m) = (c + 1 + 1 .. last) \cup (0 .. e)
      BY <1>3, <2>2, <3>1 DEF ToVisit
    <3> QED  BY <1>2, <1>3, <2>2, <2>4, <3>1, <3>2 DEF m
  <2> QED  BY <1>2, <2>3, <2>4
<1>5. CASE c = last
  <2>1. (c + 1) % (last + 1) = 0
    BY <1>2, <1>5
  <2> HIDE DEF m
  <2>2. m.crt_server_ind = 0 /\ 0 \in 0 .. last
    BY <1>2, <1>3, <2>1
  <2>3. ~(c <= e) /\ 0 <= e
    BY <1>2, <1>5
  <2>4. ToVisit(l) = (c + 1 .. last) \cup (0 .. e) /\ ToVisit(m) = 0 + 1 .. e
    BY <1>3, <2>2, <2>3 DEF ToVisit
  <2> QED  BY <1>2, <1>3, <2>2, <2>3, <2>4 DEF m
<1> QED  BY <1>1, <1>2, <1>4, <1>5

(* The first slot is not visited again.                                    *)
LEMMA FirstSlot ==
  ASSUME NEW l, Good(l), NEW start \in 0 .. l.last_used_slot
  PROVE  /\ Sv_GetFirst(l, start).crt_server_ind \in Slots
         /\ Sv_GetFirst(l, start).last_server_ind >= 0
         /\ Sv_GetFirst(l, start).crt_server_ind \notin ToVisit(Sv_GetFirst(l, start))
<1> DEFINE m == Sv_GetFirst(l, start)
           e == IF start = 0 THEN l.last_used_slot ELSE start - 1
<1>1. l \in ServerList /\ l.last_used_slot \in Slots \cup {-1} /\ l.last_used_slot \in Int
  BY SlotsFinite DEF Good, ListInv, ServerList
<1>2. start \in Int /\ start >= 0 /\ start <= l.last_used_slot /\ start \in Slots
  BY <1>1, SlotsFinite
<1>3. m.crt_server_ind = start /\ m.last_server_ind = e /\ m.last_used_slot = l.last_used_slot
  BY <1>1 DEF Sv_GetFirst, ServerList
<1> HIDE DEF m
<1>4. e \in Int /\ e >= 0
  BY <1>1, <1>2
<1> HIDE DEF e
<1>5. start \notin ToVisit(m)
  <2>1. CASE start <= e
    BY <1>2, <1>3, <1>4, <2>1 DEF ToVisit
  <2>2. CASE ~(start <= e)
    BY <1>1, <1>2, <1>3, <1>4, <2>2 DEF ToVisit
  <2> QED  BY <2>1, <2>2
<1> QED  BY <1>2, <1>3, <1>4, <1>5 DEF m

(* Nothing but the servers of a list and the place of the iteration        *)
(* matters to Behind.                                                      *)
LEMMA BehindSame ==
  ASSUME NEW l, NEW m, m.servers = l.servers, NEW answer, NEW req, NEW now, NEW S, NEW T \in SUBSET S,
         Behind(l, answer, req, now, S)
  PROVE  Behind(m, answer, req, now, T)
BY DEF Behind, Servers, Active, Dead, Used

(* Every step keeps what is known of the answer being made: only the two   *)
(* steps of the loop change it, and outside the loop there is no answer.   *)
LEMMA IteratedInv ==
  ASSUME IInv, Iterated, [Next]_vars
  PROVE  Iterated'
<1>1. CASE GetNext
  <2> DEFINE l == Sv_GetNext(list)
  <2>1. /\ Good(list) /\ listed \in Seq([server : Address, sent : Address])
        /\ list.crt_server_ind # list.last_server_ind /\ list.last_server_ind >= 0
        /\ Once(listed) /\ Behind(list, listed, request, crt_time, ToVisit(list))
    BY <1>1 DEF IInv, GetNext, Exhausted, Iterated
  <2>2. /\ l.crt_server_ind \in Slots /\ l.last_server_ind >= 0
        /\ l.crt_server_ind \in ToVisit(list) /\ l.crt_server_ind \notin ToVisit(l)
        /\ ToVisit(l) \subseteq ToVisit(list)
    BY <2>1, NextSlot
  <2>3. Visit(l, request, listed) /\ UNCHANGED <<crt_time, phase, request>>
    BY <1>1 DEF GetNext
  <2>4. ListInv(l) /\ l.servers = list.servers
    <3>1. list.last_used_slot >= 0
      BY <2>1, IterationDefined
    <3> QED  BY <2>1, <3>1, IterateInv DEF Good
  <2> HIDE DEF l
  <2>5. Good(l)
    BY <2>1, <2>4 DEF Good, Answered, Quota, OfHost, Used
  <2>6. Behind(l, listed, request, crt_time, ToVisit(l) \cup {l.crt_server_ind})
    BY <2>1, <2>2, <2>4, BehindSame
  <2>7. /\ list'.crt_server_ind # list'.last_server_ind => list'.last_server_ind >= 0
        /\ Once(listed')
        /\ Behind(list, listed, request, crt_time, ToVisit(list))'
    <3>1. /\ list'.crt_server_ind # list'.last_server_ind => list'.last_server_ind >= 0
          /\ Once(listed')
          /\ Behind(list', listed', request, crt_time, ToVisit(list'))
      BY <2>1, <2>2, <2>3, <2>5, <2>6, VisitListed
    <3> QED  BY <2>3, <3>1
  <2> QED  BY <2>7 DEF Iterated
<1>2. CASE \E req \in Request : GetServers(req)
  <2>1. PICK req \in Request : GetServers(req)
    BY <1>2
  <2>2. CASE phase' = "crashed"
    BY <2>2 DEF Iterated
  <2>3. CASE phase' # "crashed"
    <3>1. PICK start \in 0 .. list.last_used_slot :
            Visit(Sv_GetFirst(list, start), req, <<>>) /\ UNCHANGED crt_time /\ request' = req
      BY <2>1, <2>3 DEF GetServers
    <3> DEFINE l == Sv_GetFirst(list, start)
    <3>2. Good(list)
      BY DEF IInv
    <3>3. l.crt_server_ind \in Slots /\ l.last_server_ind >= 0 /\ l.crt_server_ind \notin ToVisit(l)
      BY <3>2, FirstSlot
    <3>4. ListInv(l) /\ l.servers = list.servers
      <4>1. list.last_used_slot >= 0
        <5>1. list.last_used_slot \in Int
          BY <3>2, SlotsFinite DEF Good, ListInv, ServerList
        <5> QED  BY <5>1
      <4> QED  BY <3>2, <4>1, IterateInv DEF Good
    <3> HIDE DEF l
    <3>5. Good(l)
      BY <3>2, <3>4 DEF Good, Answered, Quota, OfHost, Used
    <3>6. Once(<<>>) /\ Behind(l, <<>>, req, crt_time, ToVisit(l) \cup {l.crt_server_ind})
      BY DEF Once, Behind
    <3>7. <<>> \in Seq([server : Address, sent : Address]) /\ Visit(l, req, <<>>)
      BY <3>1 DEF l
    <3>8. /\ list'.crt_server_ind # list'.last_server_ind => list'.last_server_ind >= 0
          /\ Once(listed')
          /\ Behind(list', listed', req, crt_time, ToVisit(list'))
      BY <3>3, <3>5, <3>6, <3>7, VisitListed
    <3> QED  BY <3>1, <3>8 DEF Iterated
  <2> QED  BY <2>2, <2>3
<1>3. CASE UNCHANGED vars
  BY <1>3 DEF Iterated, vars
<1>4. CASE phase' # "listing"
  BY <1>4 DEF Iterated
<1> QED  BY <1>1, <1>2, <1>3, <1>4 DEF Next, Heartbeat, InfoResponse, InfoResponseFaults, SendAnswer,
         PrintServerList, Tick, Restart, ListVars

(* An answer names each server once, and each is still in the list, live   *)
(* and wanted, when the answer is sent: the loop that makes it removes     *)
(* servers, and removing one moves both ends of the iteration.             *)
THEOREM AnswersListedOnce == Spec => []ListedOnceAndLive
<1>1. Init => Iterated
  BY DEF Init, Iterated
<1>2. Iterated => ListedOnceAndLive
  BY DEF Iterated, ListedOnceAndLive, Once, Behind
<1> QED  BY InitInv, NextInv, IteratedInv, <1>1, <1>2, PTL DEF Spec

-----------------------------------------------------------------------------
(* The promise of the list                                                 *)

(* The addresses of the servers a step puts out.                           *)
AddressesOf(l, S) == {l.servers[i].address : i \in S}

(* What the registry reads off a list: a used slot speaks for its address, *)
(* and an address without a slot is absent.                                *)
LEMMA SlotSpeaks ==
  ASSUME NEW l, Good(l), NEW i \in Used(l)
  PROVE  /\ l.servers[i].address \in Address
         /\ UntilOf(l)[l.servers[i].address] = l.servers[i].timeout
         /\ l.servers[i].timeout \in Nat
         /\ l.servers[i].address \in AnsweredOf(l) <=> l.servers[i].state \in InfoState
<1> DEFINE a == l.servers[i].address
<1>1. a \in Address /\ l.servers[i] \in Server
  BY RecordType
<1>2. Servers(l, a) = {i}
  BY DEF Good, ListInv, Distinct, Servers
<1>3. (CHOOSE j \in Servers(l, a) : TRUE) = i /\ Servers(l, a) # {}
  BY <1>2
<1>4. UntilOf(l)[a] = l.servers[i].timeout
  BY <1>1, <1>3 DEF UntilOf
<1>5. a \in AnsweredOf(l) <=> l.servers[i].state \in InfoState
  BY <1>1, <1>2 DEF AnsweredOf
<1>6. l.servers[i].timeout \in Nat
  BY <1>1 DEF Server
<1> QED  BY <1>1, <1>4, <1>5, <1>6

(* An address without a slot is absent.                                    *)
LEMMA SlotMissing ==
  ASSUME NEW l, NEW a \in Address, \A i \in Used(l) : l.servers[i].address # a
  PROVE  UntilOf(l)[a] = -1 /\ a \notin AnsweredOf(l)
<1>1. Servers(l, a) = {}
  BY DEF Servers
<1> QED  BY <1>1 DEF UntilOf, AnsweredOf

(* A list that only lost servers.                                          *)
LEMMA Pruned ==
  ASSUME NEW l, Good(l), NEW m, Good(m), Used(m) \subseteq Used(l),
         \A i \in Used(m) : m.servers[i] = l.servers[i]
  PROVE  LET G == AddressesOf(l, Used(l) \ Used(m))
         IN  /\ UntilOf(m) = Promise!Without(UntilOf(l), G)
             /\ AnsweredOf(m) = AnsweredOf(l) \ G
<1> DEFINE G == AddressesOf(l, Used(l) \ Used(m))
<1>1. ASSUME NEW a \in Address
      PROVE  /\ UntilOf(m)[a] = IF a \in G THEN -1 ELSE UntilOf(l)[a]
             /\ a \in AnsweredOf(m) <=> a \in AnsweredOf(l) /\ a \notin G
  <2>1. CASE \E i \in Used(m) : m.servers[i].address = a
    <3>1. PICK i \in Used(m) : m.servers[i].address = a
      BY <2>1
    <3>2. i \in Used(l) /\ l.servers[i] = m.servers[i]
      BY <3>1
    <3>3. a \notin G
      BY <3>1, <3>2 DEF AddressesOf, Good, ListInv, Distinct
    <3> QED  BY <3>1, <3>2, <3>3, SlotSpeaks
  <2>2. CASE \A i \in Used(m) : m.servers[i].address # a
    <3>1. UntilOf(m)[a] = -1 /\ a \notin AnsweredOf(m)
      BY <2>2, SlotMissing
    <3>2. CASE \E i \in Used(l) : l.servers[i].address = a
      <4>1. PICK i \in Used(l) : l.servers[i].address = a
        BY <3>2
      <4>2. i \notin Used(m)
        BY <2>2, <4>1
      <4>3. a \in G
        BY <4>1, <4>2 DEF AddressesOf
      <4> QED  BY <3>1, <4>3
    <3>3. CASE \A i \in Used(l) : l.servers[i].address # a
      <4>1. UntilOf(l)[a] = -1 /\ a \notin AnsweredOf(l)
        BY <3>3, SlotMissing
      <4> QED  BY <3>1, <4>1
    <3> QED  BY <3>2, <3>3
  <2> QED  BY <2>1, <2>2
<1> HIDE DEF G
<1>2. UntilOf(m) = Promise!Without(UntilOf(l), G)
  <2>1. UntilOf(m) = [a \in Address |-> UntilOf(m)[a]]
    BY DEF UntilOf
  <2> QED  BY <1>1, <2>1 DEF Promise!Without
<1>3. AnsweredOf(m) = AnsweredOf(l) \ G
  <2>1. AnsweredOf(m) \subseteq Address /\ AnsweredOf(l) \subseteq Address
    BY DEF AnsweredOf
  <2> QED  BY <1>1, <2>1
<1> QED  BY <1>2, <1>3 DEF G

(* A list that lost servers and has slot s filled anew for the address a.  *)
LEMMA Refilled ==
  ASSUME NEW l, Good(l), NEW m, Good(m), NEW s \in Used(m),
         \A i \in Used(m) \ {s} : i \in Used(l) /\ m.servers[i] = l.servers[i],
         NEW G, \A i \in Used(l) : l.servers[i].address # m.servers[s].address =>
                                    (l.servers[i].address \in G <=> i \notin Used(m) \ {s})
  PROVE  LET a == m.servers[s].address
         IN  /\ UntilOf(m) = [Promise!Without(UntilOf(l), G) EXCEPT ![a] = m.servers[s].timeout]
             /\ \A b \in Address \ {a} : b \in AnsweredOf(m) <=> b \in AnsweredOf(l) \ G
             /\ a \in AnsweredOf(m) <=> m.servers[s].state \in InfoState
<1> DEFINE a == m.servers[s].address
           K == Used(m) \ {s}
           u == Promise!Without(UntilOf(l), G)
<1>1. a \in Address /\ UntilOf(m)[a] = m.servers[s].timeout
      /\ (a \in AnsweredOf(m) <=> m.servers[s].state \in InfoState)
  BY SlotSpeaks
<1>2. ASSUME NEW b \in Address, b # a
      PROVE  /\ UntilOf(m)[b] = IF b \in G THEN -1 ELSE UntilOf(l)[b]
             /\ b \in AnsweredOf(m) <=> b \in AnsweredOf(l) \ G
  <2>1. CASE \E i \in K : m.servers[i].address = b
    <3>1. PICK i \in K : m.servers[i].address = b
      BY <2>1
    <3>2. i \in Used(l) /\ i \in Used(m) /\ l.servers[i] = m.servers[i] /\ b \notin G
      BY <1>2, <3>1
    <3> QED  BY <3>1, <3>2, SlotSpeaks
  <2>2. CASE \A i \in K : m.servers[i].address # b
    <3>1. \A i \in Used(m) : m.servers[i].address # b
      BY <1>2, <2>2
    <3>2. UntilOf(m)[b] = -1 /\ b \notin AnsweredOf(m)
      BY <3>1, SlotMissing
    <3>3. CASE \E i \in Used(l) : l.servers[i].address = b
      <4>1. PICK i \in Used(l) : l.servers[i].address = b
        BY <3>3
      <4>2. i \notin K
        BY <2>2, <4>1
      <4>3. b \in G
        BY <1>2, <4>1, <4>2
      <4> QED  BY <3>2, <4>3
    <3>4. CASE \A i \in Used(l) : l.servers[i].address # b
      <4>1. UntilOf(l)[b] = -1 /\ b \notin AnsweredOf(l)
        BY <3>4, SlotMissing
      <4> QED  BY <3>2, <4>1
    <3> QED  BY <3>3, <3>4
  <2> QED  BY <2>1, <2>2
<1>3. u = [b \in Address |-> IF b \in G THEN -1 ELSE UntilOf(l)[b]]
  BY DEF Promise!Without
<1>4. UntilOf(m) = [u EXCEPT ![a] = m.servers[s].timeout]
  <2>1. UntilOf(m) = [b \in Address |-> UntilOf(m)[b]]
    BY DEF UntilOf
  <2>2. [u EXCEPT ![a] = m.servers[s].timeout]
          = [b \in Address |-> IF b = a THEN m.servers[s].timeout ELSE u[b]]
    BY <1>3
  <2>3. \A b \in Address : UntilOf(m)[b] = IF b = a THEN m.servers[s].timeout ELSE u[b]
    BY <1>1, <1>2, <1>3
  <2> QED  BY <2>1, <2>2, <2>3
<1> QED  BY <1>1, <1>2, <1>4

(* The addresses of servers that timed out are expired in the registry,    *)
(* and those of the others are not.                                        *)
LEMMA DeadIsExpired ==
  ASSUME Good(list), crt_time \in Nat
  PROVE  /\ AddressesOf(list, Dead(list, crt_time)) = Promise!Expired
         /\ \A i \in Active(list, crt_time) : list.servers[i].address \in Promise!Live
<1>1. ASSUME NEW i \in Used(list)
      PROVE  /\ list.servers[i].address \in Promise!Present(UntilOf(list))
             /\ list.servers[i].address \in Promise!Expired <=> list.servers[i].timeout < crt_time
  BY SlotSpeaks DEF Promise!Expired, Promise!Present
<1>2. ASSUME NEW a \in Promise!Expired
      PROVE  a \in AddressesOf(list, Dead(list, crt_time))
  <2>1. a \in Address /\ UntilOf(list)[a] # -1
    BY DEF Promise!Expired, Promise!Present
  <2>2. PICK i \in Used(list) : list.servers[i].address = a
    BY <2>1, SlotMissing
  <2>3. list.servers[i].timeout < crt_time
    BY <1>1, <2>2
  <2> QED  BY <2>2, <2>3 DEF AddressesOf, Dead
<1>3. ASSUME NEW i \in Dead(list, crt_time)
      PROVE  list.servers[i].address \in Promise!Expired
  BY <1>1 DEF Dead
<1>4. ASSUME NEW i \in Active(list, crt_time)
      PROVE  list.servers[i].address \in Promise!Live
  BY <1>1 DEF Active, Dead, Promise!Live
<1> QED  BY <1>2, <1>3, <1>4 DEF AddressesOf

(* A step that only puts out servers that timed out cleans the registry.   *)
LEMMA Cleans ==
  ASSUME Good(list), crt_time \in Nat, Good(list'), crt_time' = crt_time,
         Used(list') \subseteq Used(list),
         \A i \in Used(list') : list'.servers[i] = list.servers[i],
         Used(list) \ Used(list') \subseteq Dead(list, crt_time)
  PROVE  Promise!Next
<1> DEFINE G == AddressesOf(list, Used(list) \ Used(list'))
<1>1. /\ UntilOf(list') = Promise!Without(UntilOf(list), G)
      /\ AnsweredOf(list') = AnsweredOf(list) \ G
  BY Pruned
<1>2. G \in SUBSET Promise!Expired
  BY DeadIsExpired DEF AddressesOf
<1> HIDE DEF G
<1>3. Promise!Clean(G)
  BY <1>1 DEF Promise!Clean
<1> QED  BY <1>2, <1>3 DEF Promise!Next, Promise!Serve

(* So does one that changes the challenge of a server besides.             *)
LEMMA ChallengeUnseen ==
  ASSUME NEW l, Good(l), NEW i \in Used(l), NEW c \in Challenge, crt_time \in Nat
  PROVE  LET m == SendGetInfo(l, i, c)
         IN  UntilOf(m) = UntilOf(l) /\ AnsweredOf(m) = AnsweredOf(l)
<1> DEFINE old == l.servers[i]
           sv == [old EXCEPT !.challenge = c, !.challenge_timeout = crt_time + TIMEOUT_CHALLENGE]
           m == SendGetInfo(l, i, c)
<1>1. CASE ~ChallengeExpired(old)
  BY <1>1 DEF SendGetInfo
<1>2. CASE ChallengeExpired(old)
  <2>1. /\ i \in Slots /\ l \in ServerList /\ l.servers \in [Slots -> Server]
        /\ old \in Server /\ old.state # "unused_slot" /\ old.address \in Address
    BY RecordType
  <2>2. m = [l EXCEPT !.servers[i] = sv]
    BY <1>2, <2>1 DEF SendGetInfo, ServerList
  <2>3. sv.state = old.state /\ sv.address = old.address /\ sv.timeout = old.timeout
    BY <2>1 DEF Server
  <2> HIDE DEF sv
  <2>4. m.servers = [l.servers EXCEPT ![i] = sv]
    BY <2>1, <2>2 DEF ServerList
  <2> HIDE DEF m
  <2>5. \A j \in Slots : /\ m.servers[j].state = l.servers[j].state
                         /\ m.servers[j].address = l.servers[j].address
                         /\ m.servers[j].timeout = l.servers[j].timeout
    BY <2>1, <2>3, <2>4
  <2>6. Used(m) = Used(l) /\ Used(l) \subseteq Slots
    BY <2>5 DEF Used
  <2>7. \A a \in Address : Servers(m, a) = Servers(l, a) /\ Servers(l, a) \subseteq Slots
    BY <2>5, <2>6 DEF Servers
  <2>8. UntilOf(m) = UntilOf(l)
    <3>1. ASSUME NEW a \in Address, Servers(l, a) # {}
          PROVE  m.servers[CHOOSE j \in Servers(l, a) : TRUE].timeout
                   = l.servers[CHOOSE j \in Servers(l, a) : TRUE].timeout
      <4>1. (CHOOSE j \in Servers(l, a) : TRUE) \in Slots
        BY <2>7, <3>1
      <4> QED  BY <2>5, <4>1
    <3> QED  BY <2>7, <3>1 DEF UntilOf
  <2>9. AnsweredOf(m) = AnsweredOf(l)
    BY <2>5, <2>7 DEF AnsweredOf
  <2> QED  BY <2>8, <2>9 DEF m
<1> QED  BY <1>1, <1>2

(* The registry counts as the list does.                                   *)
LEMMA PromiseCounts == \A S : Promise!Cardinality(S) = Cardinality(S)
BY Zenon DEF Promise!Cardinality, Cardinality

(* A step that puts out timed out servers and adds one is an admission:    *)
(* the list had a slot left, and the host of the new server was below its  *)
(* quota, because the list it leads to respects both.                      *)
LEMMA Admits ==
  ASSUME Good(list), crt_time \in Nat, crt_time' = crt_time, NEW a \in Address,
         NEW n, Good(n), NEW s \in Used(n), n.servers[s] = NewServer(a, crt_time),
         Used(n) \ {s} \subseteq Used(list),
         \A i \in Used(n) \ {s} : n.servers[i] = list.servers[i],
         Used(list) \ (Used(n) \ {s}) \subseteq Dead(list, crt_time),
         UntilOf(list') = UntilOf(n), AnsweredOf(list') = AnsweredOf(n)
  PROVE  Promise!Next
<1> DEFINE K == Used(n) \ {s}
           G == AddressesOf(list, Used(list) \ K)
           u == Promise!Without(UntilOf(list), G)
           neighbours == {b \in Promise!Present(u) : HostOf(b) = HostOf(a)}
<1>1. n.servers[s].address = a /\ n.servers[s].timeout = crt_time + TIMEOUT_HEARTBEAT
      /\ n.servers[s].state \notin InfoState
  BY DEF NewServer, UnusedServer, InfoState
<1>2. \A i \in K : list.servers[i] = n.servers[i] /\ n.servers[i].address # a
  BY <1>1 DEF Good, ListInv, Distinct
<1>3. \A i \in Used(list) : list.servers[i].address \in G <=> i \notin K
  BY DEF AddressesOf, Good, ListInv, Distinct
<1>4. G \in SUBSET Promise!Expired
  BY DeadIsExpired DEF AddressesOf
<1>14. K = Used(n) \ {s} /\ K \subseteq Used(list) /\ \A i \in K : n.servers[i] = list.servers[i]
  OBVIOUS
<1> HIDE DEF G, K
<1>5. /\ UntilOf(n) = [u EXCEPT ![a] = crt_time + TIMEOUT_HEARTBEAT]
      /\ \A b \in Address \ {a} : b \in AnsweredOf(n) <=> b \in AnsweredOf(list) \ G
      /\ a \notin AnsweredOf(n)
  <2>1. \A i \in Used(list) : list.servers[i].address # a =>
                                 (list.servers[i].address \in G <=> i \notin K)
    BY <1>3
  <2> HIDE DEF u
  <2>2. /\ UntilOf(n) = [Promise!Without(UntilOf(list), G) EXCEPT ![a] = n.servers[s].timeout]
        /\ \A b \in Address \ {a} : b \in AnsweredOf(n) <=> b \in AnsweredOf(list) \ G
        /\ a \in AnsweredOf(n) <=> n.servers[s].state \in InfoState
    <3>1. \A i \in Used(n) \ {s} : i \in Used(list) /\ n.servers[i] = list.servers[i]
      OBVIOUS
    <3>2. \A i \in Used(list) : list.servers[i].address # n.servers[s].address =>
                                  (list.servers[i].address \in G <=> i \notin Used(n) \ {s})
      BY <1>1, <1>14, <2>1
    <3>3. LET b == n.servers[s].address
          IN  /\ UntilOf(n) = [Promise!Without(UntilOf(list), G) EXCEPT ![b] = n.servers[s].timeout]
              /\ \A c \in Address \ {b} : c \in AnsweredOf(n) <=> c \in AnsweredOf(list) \ G
              /\ b \in AnsweredOf(n) <=> n.servers[s].state \in InfoState
      BY <3>1, <3>2, Refilled
    <3> QED  BY <1>1, <3>3
  <2> QED  BY <1>1, <2>2 DEF u
<1>6. Promise!Present(u) = AddressesOf(n, K)
  <2>1. ASSUME NEW i \in K PROVE n.servers[i].address \in Promise!Present(u)
    <3>1. list.servers[i].address \in Address /\ UntilOf(list)[list.servers[i].address] # -1
          /\ list.servers[i].address \notin G
      <4>1. i \in Used(list)
        BY <1>14
      <4>2. UntilOf(list)[list.servers[i].address] \in Nat /\ list.servers[i].address \in Address
        BY <4>1, SlotSpeaks
      <4>3. UntilOf(list)[list.servers[i].address] # -1
        BY <4>2
      <4> QED  BY <1>3, <4>1, <4>2, <4>3
    <3> QED  BY <1>2, <3>1 DEF Promise!Present, Promise!Without
  <2>2. ASSUME NEW b \in Promise!Present(u) PROVE b \in AddressesOf(n, K)
    <3>1. b \in Address /\ b \notin G /\ UntilOf(list)[b] # -1
      BY DEF Promise!Present, Promise!Without
    <3>2. PICK i \in Used(list) : list.servers[i].address = b
      BY <3>1, SlotMissing
    <3>3. i \in K /\ n.servers[i].address = b
      BY <1>2, <1>3, <3>1, <3>2
    <3> QED  BY <3>3 DEF AddressesOf
  <2> QED  BY <2>1, <2>2 DEF AddressesOf
<1>7. a \notin Promise!Present(u)
  BY <1>2, <1>6 DEF AddressesOf
<1>8. a \notin AnsweredOf(list) \ G
  <2>1. CASE \E i \in Used(list) : list.servers[i].address = a
    BY <1>2, <1>3, <2>1
  <2>2. CASE \A i \in Used(list) : list.servers[i].address # a
    BY <2>2, SlotMissing
  <2> QED  BY <2>1, <2>2
<1>9. AnsweredOf(n) = AnsweredOf(list) \ G
  <2>1. AnsweredOf(n) \subseteq Address /\ AnsweredOf(list) \subseteq Address
    BY DEF AnsweredOf
  <2> QED  BY <1>5, <1>8, <2>1
<1>10. ASSUME NEW S \in SUBSET K, NEW T, T = AddressesOf(n, S)
       PROVE  /\ IsFiniteSet(T) /\ Cardinality(T) \in Nat
              /\ IsFiniteSet(S) /\ Cardinality(S) \in Nat /\ Cardinality(T) <= Cardinality(S)
  <2>1. S \in SUBSET Used(n)
    BY <1>14
  <2>2. IsFiniteSet(S) /\ Cardinality(S) \in Nat
    BY <2>1, UsedFinite
  <2> DEFINE f == [i \in S |-> n.servers[i].address]
  <2>3. f \in Surjection(S, T)
    BY <1>10 DEF AddressesOf, Surjection, Range
  <2>4. IsFiniteSet(T) /\ Cardinality(T) <= Cardinality(S)
    BY <2>2, <2>3, FS_Surjection
  <2> QED  BY <2>2, <2>4, FS_CardinalityType
<1>11. Cardinality(Promise!Present(u)) < max_nb_servers
  <2>1. Cardinality(K) = Cardinality(Used(n)) - 1
    <3>1. {s} \in SUBSET Used(n)
      OBVIOUS
    <3>2. Cardinality(Used(n) \ {s}) = Cardinality(Used(n)) - Cardinality({s})
      BY <3>1, UsedFinite
    <3>3. Cardinality({s}) = 1
      BY FS_Singleton
    <3> QED  BY <1>14, <3>2, <3>3
  <2>2. Cardinality(Used(n)) <= max_nb_servers /\ Cardinality(Used(n)) \in Nat
    <3>1. Used(n) \in SUBSET Slots /\ IsFiniteSet(Slots) /\ Cardinality(Slots) = max_nb_servers
      BY UsedFinite, SlotsFinite
    <3> QED  BY <3>1, FS_Subset, FS_CardinalityType
  <2>3. K \in SUBSET K /\ Promise!Present(u) = AddressesOf(n, K)
    BY <1>6
  <2>4. Cardinality(Promise!Present(u)) <= Cardinality(K) /\ Cardinality(Promise!Present(u)) \in Nat
    BY <1>10, <2>3
  <2> QED  BY <2>1, <2>2, <2>4, ListAssumption
<1>12. ASSUME Limited PROVE Cardinality(neighbours) < max_per_address
  <2> DEFINE h == HostOf(a)
             S == OfHost(n, h) \ {s}
  <2>1. h \in Host /\ s \in OfHost(n, h)
    BY <1>1 DEF OfHost, HostOf, Address
  <2>2. OfHost(n, h) \in SUBSET Used(n) /\ S \in SUBSET K
    BY <1>14 DEF OfHost
  <2>3. neighbours = AddressesOf(n, S)
    <3>1. neighbours = {b \in AddressesOf(n, K) : HostOf(b) = h}
      BY <1>6
    <3>2. S = {i \in K : HostOf(n.servers[i].address) = h}
      BY <1>14 DEF OfHost
    <3> QED  BY <3>1, <3>2 DEF AddressesOf
  <2>4. IsFiniteSet(OfHost(n, h)) /\ Cardinality(OfHost(n, h)) \in Nat
    BY <2>2, UsedFinite
  <2>5. Cardinality(S) = Cardinality(OfHost(n, h)) - 1
    BY <2>1, <2>4, FS_RemoveElement
  <2>6. Cardinality(OfHost(n, h)) <= max_per_address
    BY <1>12, <2>1 DEF Good, Quota
  <2> HIDE DEF S, h
  <2>7. Cardinality(neighbours) <= Cardinality(S) /\ Cardinality(neighbours) \in Nat
    BY <1>10, <2>2, <2>3
  <2> QED  BY <2>4, <2>5, <2>6, <2>7, ListAssumption
<1>13. Promise!Admit(G, a)
  <2>1. (IF hash_ports THEN 0 ELSE max_per_address) = 0
        \/ Cardinality(neighbours) < (IF hash_ports THEN 0 ELSE max_per_address)
    BY <1>12, ListAssumption DEF Limited
  <2>2. UntilOf(list') = [u EXCEPT ![a] = crt_time + TIMEOUT_HEARTBEAT]
        /\ AnsweredOf(list') = AnsweredOf(list) \ G
    BY <1>5, <1>9
  <2> QED  BY <1>7, <1>11, <2>1, <2>2, PromiseCounts DEF Promise!Admit
<1> QED  BY <1>4, <1>13 DEF Promise!Next, Promise!Serve

(* A heartbeat cleans the registry, or cleans it and admits one server.    *)
LEMMA HeartbeatKept ==
  ASSUME IInv, NEW a \in Address, Heartbeat(a)
  PROVE  Promise!Next
<1>1. Good(list) /\ crt_time \in Nat /\ crt_time' = crt_time
  BY DEF IInv, Heartbeat
<1>2. PICK gone \in WalkRemovals(list, a, crt_time), c \in Challenge :
        LET walked == Sv_Remove(list, gone)
            found == Sv_GetByAddr_Internal(list, a, crt_time)
            room == MakeRoom(walked, crt_time)
        IN  \/ \E i \in found : list' = SendGetInfo(walked, i, c)
            \/ found = {} /\ list' = walked
            \/ found = {} /\ list' = room
            \/ /\ found = {}
               /\ MayAdd(walked, a)
               /\ room.nb_servers < max_nb_servers
               /\ list' = SendGetInfo(AddServer(room, a, crt_time), room.first_free_slot, c)
  BY DEF Heartbeat
<1> DEFINE walked == Sv_Remove(list, gone)
           found == Sv_GetByAddr_Internal(list, a, crt_time)
           room == MakeRoom(walked, crt_time)
<1>3. /\ Good(walked)
      /\ found \subseteq Used(walked)
      /\ gone \subseteq Dead(list, crt_time) /\ gone \subseteq Used(list)
      /\ found = {} => \A i \in Used(walked) : walked.servers[i].address # a
  BY <1>1, WalkGood
<1>4. Used(walked) = Used(list) \ gone /\ \A i \in Used(walked) : walked.servers[i] = list.servers[i]
  BY <1>1, <1>3, RemoveGood
<1> HIDE DEF walked, found
<1>5. /\ Good(room)
      /\ Used(room) \subseteq Used(walked)
      /\ Used(walked) \ Used(room) \subseteq Dead(walked, crt_time)
      /\ \A i \in Used(room) : room.servers[i] = walked.servers[i]
  BY <1>3, MakeRoomGood
<1> HIDE DEF room
<1>6. /\ Used(room) \subseteq Used(list)
      /\ Used(list) \ Used(room) \subseteq Dead(list, crt_time)
      /\ \A i \in Used(room) : room.servers[i] = list.servers[i]
  BY <1>3, <1>4, <1>5 DEF Dead
<1>7. CASE list' = walked
  BY <1>1, <1>3, <1>4, <1>7, Cleans
<1>8. CASE list' = room
  BY <1>1, <1>5, <1>6, <1>8, Cleans
<1>9. ASSUME NEW i \in found, list' = SendGetInfo(walked, i, c)
      PROVE  Promise!Next
  <2>1. UntilOf(list') = UntilOf(walked) /\ AnsweredOf(list') = AnsweredOf(walked)
    BY <1>1, <1>3, <1>9, ChallengeUnseen
  <2>2. /\ UntilOf(walked) = Promise!Without(UntilOf(list), AddressesOf(list, Used(list) \ Used(walked)))
        /\ AnsweredOf(walked) = AnsweredOf(list) \ AddressesOf(list, Used(list) \ Used(walked))
    BY <1>1, <1>3, <1>4, Pruned
  <2>3. AddressesOf(list, Used(list) \ Used(walked)) \in SUBSET Promise!Expired
    BY <1>1, <1>3, <1>4, DeadIsExpired DEF AddressesOf
  <2>4. Promise!Clean(AddressesOf(list, Used(list) \ Used(walked)))
    BY <2>1, <2>2 DEF Promise!Clean
  <2> QED  BY <1>1, <2>3, <2>4 DEF Promise!Next, Promise!Serve
<1>10. ASSUME found = {}, MayAdd(walked, a), room.nb_servers < max_nb_servers,
              list' = SendGetInfo(AddServer(room, a, crt_time), room.first_free_slot, c)
       PROVE  Promise!Next
  <2> DEFINE n == AddServer(room, a, crt_time)
             s == room.first_free_slot
  <2>1. \A i \in Used(room) : room.servers[i].address # a
    BY <1>3, <1>5, <1>10
  <2>2. Limited => Cardinality(OfHost(room, HostOf(a))) < max_per_address
    BY <1>3, <1>5, <1>10, MayAddCounts, HostSmaller, ListAssumption
  <2>3. Good(n) /\ s \in Used(n)
    BY <1>1, <1>5, <1>10, <2>1, <2>2, AddGood
  <2>4. /\ s \notin Used(room)
        /\ Used(room) \ Used(n) \subseteq Dead(room, crt_time)
        /\ n.servers[s] = NewServer(a, crt_time)
        /\ \A i \in Used(n) \ {s} : i \in Used(room) /\ n.servers[i] = room.servers[i]
    BY <1>1, <1>5, <1>10, <2>1, AddInv DEF Good
  <2> HIDE DEF n, s
  <2>5. /\ Used(n) \ {s} \subseteq Used(list)
        /\ \A i \in Used(n) \ {s} : n.servers[i] = list.servers[i]
    BY <1>6, <2>4
  <2>6. Used(list) \ (Used(n) \ {s}) \subseteq Dead(list, crt_time)
    BY <1>6, <2>4 DEF Dead
  <2>7. UntilOf(list') = UntilOf(n) /\ AnsweredOf(list') = AnsweredOf(n)
    BY <1>1, <1>10, <2>3, ChallengeUnseen DEF n, s
  <2> QED  BY <1>1, <2>3, <2>4, <2>5, <2>6, <2>7, Admits
<1> QED  BY <1>2, <1>7, <1>8, <1>9, <1>10 DEF walked, found, room

(* An infoResponse cleans the registry, prolongs the stay of its sender or *)
(* puts it out, and its sender is live when it does.                       *)
LEMMA InfoResponseKept ==
  ASSUME IInv, NEW a \in Address, NEW info \in InfoMessage, InfoResponse(a, info)
  PROVE  Promise!Next
<1>1. Good(list) /\ crt_time \in Nat /\ crt_time' = crt_time /\ info \in Info
  BY MasterAssumption DEF IInv, InfoResponse
<1>2. PICK gone \in WalkRemovals(list, a, crt_time) :
        \/ \E i \in Sv_GetByAddr_Internal(list, a, crt_time) :
             list' = HandleInfoResponse(Sv_Remove(list, gone), i, info)
        \/ list' = Sv_Remove(list, gone)
  BY DEF InfoResponse
<1> DEFINE walked == Sv_Remove(list, gone)
           found == Sv_GetByAddr_Internal(list, a, crt_time)
<1>3. /\ Good(walked)
      /\ found \subseteq Used(walked)
      /\ gone \subseteq Dead(list, crt_time) /\ gone \subseteq Used(list)
      /\ found \subseteq Active(list, crt_time)
  BY <1>1, WalkGood DEF Sv_GetByAddr_Internal
<1>4. Used(walked) = Used(list) \ gone /\ \A i \in Used(walked) : walked.servers[i] = list.servers[i]
  BY <1>1, <1>3, RemoveGood
<1> HIDE DEF walked, found
<1>5. CASE list' = walked
  BY <1>1, <1>3, <1>4, <1>5, Cleans
<1>6. ASSUME NEW i \in found, list' = HandleInfoResponse(walked, i, info)
      PROVE  Promise!Next
  <2> DEFINE b == list.servers[i].address
  <2>1. i \in Used(walked) /\ i \in Used(list) /\ i \notin gone /\ i \in Active(list, crt_time)
    BY <1>3, <1>4, <1>6
  <2>2. b \in Address /\ b \in Promise!Live
    BY <1>1, <2>1, SlotSpeaks, DeadIsExpired
  <2>3. CASE list' = Sv_Remove(walked, {i})
    <3>1. /\ Good(list') /\ Used(list') = Used(walked) \ {i}
          /\ \A j \in Used(list') : list'.servers[j] = walked.servers[j]
      BY <1>3, <2>1, <2>3, RemoveGood
    <3>2. /\ Used(list') \subseteq Used(list)
          /\ \A j \in Used(list') : list'.servers[j] = list.servers[j]
          /\ Used(list) \ Used(list') = gone \cup {i}
      BY <1>3, <1>4, <2>1, <3>1
    <3> DEFINE G == AddressesOf(list, gone)
    <3>3. AddressesOf(list, gone \cup {i}) = G \cup {b}
      BY DEF AddressesOf
    <3>4. UntilOf(list') = Promise!Without(UntilOf(list), AddressesOf(list, Used(list) \ Used(list')))
          /\ AnsweredOf(list') = AnsweredOf(list) \ AddressesOf(list, Used(list) \ Used(list'))
      BY <1>1, <3>1, <3>2, Pruned
    <3>5. G \in SUBSET Promise!Expired
      BY <1>1, <1>3, DeadIsExpired DEF AddressesOf
    <3> HIDE DEF G, b
    <3>6. Promise!Clean(G \cup {b})
      BY <3>2, <3>3, <3>4 DEF Promise!Clean
    <3>7. Promise!Reject(G, b)
      BY <2>2, <3>6 DEF Promise!Reject
    <3> QED  BY <1>1, <2>2, <3>5, <3>7 DEF Promise!Next, Promise!Serve
  <2>4. CASE list' = Accepted(walked, i, info) /\ ChallengeAnswered(walked.servers[i], info)
    <3> DEFINE m == Accepted(walked, i, info)
               G == AddressesOf(list, Used(list) \ Used(m))
    <3>1. /\ Good(m)
          /\ i \in Used(m) /\ Used(m) \subseteq Used(walked)
          /\ m.servers[i].address = walked.servers[i].address
          /\ m.servers[i].timeout = crt_time + TIMEOUT_INFORESPONSE
          /\ m.servers[i].state \in InfoState
          /\ \A j \in Used(m) \ {i} : m.servers[j] = walked.servers[j]
          /\ Used(walked) \ Used(m) \subseteq Dead(walked, crt_time)
      BY <1>1, <1>3, <2>1, <2>4, AcceptedGood
    <3>2. list' = m
      BY <2>4
    <3> HIDE DEF m
    <3>3. /\ m.servers[i].address = b
          /\ \A j \in Used(m) \ {i} : j \in Used(list) /\ m.servers[j] = list.servers[j]
          /\ Used(list) \ Used(m) \subseteq Dead(list, crt_time)
      BY <1>3, <1>4, <2>1, <3>1 DEF Dead
    <3>4. \A j \in Used(list) : list.servers[j].address # m.servers[i].address =>
                                  (list.servers[j].address \in G <=> j \notin Used(m) \ {i})
      <4>1. ASSUME NEW j \in Used(list), list.servers[j].address # b
            PROVE  list.servers[j].address \in G <=> j \notin Used(m) \ {i}
        <5>1. j # i
          BY <4>1
        <5>2. \A k \in Used(list) : list.servers[k].address = list.servers[j].address => k = j
          BY <1>1 DEF Good, ListInv, Distinct
        <5> QED  BY <5>1, <5>2 DEF AddressesOf
      <4> QED  BY <3>3, <4>1
    <3>5. G \in SUBSET Promise!Expired
      BY <1>1, <3>3, DeadIsExpired DEF AddressesOf
    <3> HIDE DEF G
    <3>6. LET c == m.servers[i].address
          IN  /\ UntilOf(m) = [Promise!Without(UntilOf(list), G) EXCEPT ![c] = m.servers[i].timeout]
              /\ \A d \in Address \ {c} : d \in AnsweredOf(m) <=> d \in AnsweredOf(list) \ G
              /\ c \in AnsweredOf(m) <=> m.servers[i].state \in InfoState
      BY <1>1, <3>1, <3>3, <3>4, Refilled
    <3> HIDE DEF b
    <3>7. AnsweredOf(m) = (AnsweredOf(list) \ G) \cup {b}
      <4>1. AnsweredOf(m) \subseteq Address /\ AnsweredOf(list) \subseteq Address
        BY DEF AnsweredOf
      <4> QED  BY <2>2, <3>1, <3>3, <3>6, <4>1
    <3>8. Promise!Answer(G, b)
      BY <2>2, <3>1, <3>2, <3>3, <3>6, <3>7 DEF Promise!Answer
    <3> QED  BY <1>1, <2>2, <3>5, <3>8 DEF Promise!Next, Promise!Serve
  <2>5. CASE list' = walked
    BY <2>5, <1>5
  <2> QED  BY <1>6, <2>3, <2>4, <2>5 DEF HandleInfoResponse
<1> QED  BY <1>2, <1>5, <1>6 DEF walked, found

(* A slot that is looked at is kept, or its server timed out.              *)
LEMMA VisitKept ==
  ASSUME Good(list), crt_time \in Nat, crt_time' = crt_time, NEW l, Good(l), l.servers = list.servers,
         NEW req, NEW before, Visit(l, req, before)
  PROVE  Promise!Next
<1> DEFINE R == {l.crt_server_ind} \cap Dead(l, crt_time)
<1>1. Used(l) = Used(list) /\ Dead(l, crt_time) = Dead(list, crt_time)
  BY DEF Used, Dead
<1>2. R \in SUBSET Used(l) /\ R \subseteq Dead(list, crt_time)
  BY <1>1 DEF Dead
<1>3. list' = Sv_Remove(l, R)
  BY DEF Visit, Sv_IsActive
<1> HIDE DEF R
<1>4. /\ Good(list') /\ Used(list') = Used(l) \ R
      /\ \A i \in Used(l) \ R : list'.servers[i] = list.servers[i]
  BY <1>2, <1>3, RemoveGood
<1> QED  BY <1>1, <1>2, <1>4, Cleans

(* Making an answer only cleans the registry.                              *)
LEMMA ListingKept ==
  ASSUME IInv, GetNext \/ \E req \in Request : GetServers(req)
  PROVE  Promise!Next \/ UNCHANGED Promise!vars
<1>1. Good(list) /\ crt_time \in Nat
  BY DEF IInv
<1>2. CASE GetNext
  <2> DEFINE l == Sv_GetNext(list)
  <2>1. list.last_used_slot >= 0
    BY <1>1, <1>2, IterationDefined DEF GetNext, Exhausted
  <2>2. ListInv(l) /\ l.servers = list.servers
    BY <1>1, <2>1, IterateInv DEF Good
  <2> HIDE DEF l
  <2>3. Good(l)
    BY <1>1, <2>2 DEF Good, Answered, Quota, OfHost, Used
  <2>4. Visit(l, request, listed) /\ crt_time' = crt_time
    BY <1>2 DEF GetNext, l
  <2> QED  BY <1>1, <2>2, <2>3, <2>4, VisitKept
<1>3. CASE \E req \in Request : GetServers(req)
  <2>1. PICK req \in Request : GetServers(req)
    BY <1>3
  <2>2. CASE UNCHANGED <<list, crt_time>>
    BY <2>2 DEF Promise!vars, UntilOf, AnsweredOf
  <2>3. ASSUME NEW start \in 0 .. list.last_used_slot, Visit(Sv_GetFirst(list, start), req, <<>>)
        PROVE  Promise!Next
    <3> DEFINE l == Sv_GetFirst(list, start)
    <3>1. list.last_used_slot >= 0
      <4>1. list.last_used_slot \in Int
        BY <1>1, SlotsFinite DEF Good, ListInv, ServerList
      <4> QED  BY <2>3, <4>1
    <3>2. ListInv(l) /\ l.servers = list.servers
      BY <1>1, <2>3, <3>1, IterateInv DEF Good
    <3> HIDE DEF l
    <3>3. Good(l)
      BY <1>1, <3>2 DEF Good, Answered, Quota, OfHost, Used
    <3>4. Visit(l, req, <<>>) /\ crt_time' = crt_time
      BY <2>1, <2>3 DEF GetServers, l
    <3> QED  BY <1>1, <3>2, <3>3, <3>4, VisitKept
  <2> QED  BY <2>1, <2>2, <2>3 DEF GetServers
<1> QED  BY <1>2, <1>3

(* The list of a program that starts is the empty registry.                *)
LEMMA InitEmpty == UntilOf(Sv_Init) = [a \in Address |-> -1] /\ AnsweredOf(Sv_Init) = {}
<1>1. Used(Sv_Init) = {}
  BY DEF Sv_Init, Used, UnusedServer
<1>2. \A a \in Address : Servers(Sv_Init, a) = {}
  BY <1>1 DEF Servers
<1> QED  BY <1>2 DEF UntilOf, AnsweredOf

(* Every step is a step of the registry, or leaves it as it is.            *)
LEMMA NextKept ==
  ASSUME IInv, [Next]_vars
  PROVE  [Promise!Next]_(Promise!vars)
<1>1. ASSUME NEW a \in Address, Heartbeat(a) PROVE Promise!Next
  BY <1>1, HeartbeatKept
<1>2. ASSUME NEW a \in Address, NEW info \in InfoMessage, InfoResponse(a, info) PROVE Promise!Next
  BY <1>2, InfoResponseKept
<1>3. CASE GetNext \/ \E req \in Request : GetServers(req)
  BY <1>3, ListingKept
<1>4. CASE UNCHANGED <<list, crt_time>>
  BY <1>4 DEF Promise!vars, UntilOf, AnsweredOf
<1>5. CASE PrintServerList
  <2>1. Good(list) /\ crt_time \in Nat /\ crt_time' = crt_time /\ list' = Sv_CheckTimeouts(list, crt_time)
    BY <1>5 DEF IInv, PrintServerList
  <2> QED  BY <2>1, CheckTimeoutsGood, Cleans
<1>6. CASE Tick
  <2>1. list' = list /\ crt_time' = crt_time + 1
    BY <1>6 DEF Tick
  <2>2. UntilOf(list') = UntilOf(list) /\ AnsweredOf(list') = AnsweredOf(list)
    BY <2>1
  <2>3. Promise!Tick
    BY <2>1, <2>2 DEF Promise!Tick
  <2> QED  BY <2>3 DEF Promise!Next
<1>7. CASE Restart
  <2>1. list' = Sv_Init /\ crt_time' = crt_time
    BY <1>7 DEF Restart
  <2>2. UntilOf(list') = [a \in Address |-> -1] /\ AnsweredOf(list') = {}
    BY <2>1, InitEmpty
  <2>3. Promise!Reset
    BY <2>1, <2>2 DEF Promise!Reset
  <2> QED  BY <2>3 DEF Promise!Next
<1>8. CASE SendAnswer \/ \E a \in Address, info \in InfoMessage : InfoResponseFaults(a, info)
  BY <1>4, <1>8 DEF SendAnswer, InfoResponseFaults
<1>9. CASE UNCHANGED vars
  BY <1>4, <1>9 DEF vars
<1> QED  BY <1>1, <1>2, <1>3, <1>5, <1>6, <1>7, <1>8, <1>9 DEF Next

(* Whatever its size, quota, hash function and timeouts, and whichever way *)
(* its chains are ordered, the list keeps the promise of Registry: nobody  *)
(* is put out before its time, none is admitted above the limits, and only *)
(* an answer to its challenge prolongs the stay of a server.               *)
THEOREM ListKeepsPromise == Spec => RegistrySpec
<1>1. Init => Promise!Init
  <2> SUFFICES ASSUME Init PROVE Promise!Init
    OBVIOUS
  <2> QED  BY InitEmpty DEF Init, Promise!Init
<1>2. IInv /\ [Next]_vars => [Promise!Next]_(Promise!vars)
  BY NextKept
<1> QED  BY InitInv, NextInv, <1>1, <1>2, PTL DEF Spec, RegistrySpec, Promise!Spec

-----------------------------------------------------------------------------
(* The loops of servers.c, one slot at a time, do what ServerList says.    *)
(* The first four pairs say of each loop that it has a run: the values     *)
(* after its turns, of a set that no turn leaves.                          *)

(* The runs of the loop of Sv_Remove.                                      *)
WalkRun(l, ind, X) ==
  {g \in [0 .. ind + 1 -> X] :
     /\ g[0] = ind
     /\ \A i \in 1 .. ind + 1 : g[i] = StepDown(l, g[i - 1])
     /\ WalkDown(l, ind) = g[ind + 1]}

(* This loop has a run.                                                    *)
LEMMA WalkRuns ==
  ASSUME NEW l, NEW ind, NEW X, ind + 1 \in Nat, ind \in X,
         \A i \in 1 .. ind + 1, v \in X : StepDown(l, v) \in X
  PROVE  WalkRun(l, ind, X) # {}
<1> DEFINE n == ind + 1
           start == ind
           step == [p \in (1 .. n) \X X |-> StepDown(l, p[2])]
           Turns(f) == [i \in 0 .. n |-> IF i = 0 THEN start
                                         ELSE CHOOSE next \in {StepDown(l, v) : v \in {f[i - 1]}} : TRUE]
           after == CHOOSE f : f = Turns(f)
<1>1. step \in [(1 .. n) \X X -> X]
  OBVIOUS
<1>2. \A i \in 1 .. n, v \in X : step[<<i, v>>] = StepDown(l, v)
  OBVIOUS
<1>3. ASSUME NEW f, NEW i \in 1 .. n PROVE Turns(f)[i] = StepDown(l, f[i - 1])
  OBVIOUS
<1>4. n \in Nat /\ start \in X
  OBVIOUS
<1>5. \A i \in 1 .. n, v \in X : StepDown(l, v) \in X
  OBVIOUS
<1> HIDE DEF step, Turns, n, start
<1>6. PICK g \in [0 .. n -> X] : g[0] = start /\ \A i \in 1 .. n : g[i] = step[<<i, g[i - 1]>>]
  <2>1. Runs(X, start, n, step) # {}
    BY <1>1, <1>4, LoopRuns
  <2> QED  BY <2>1 DEF Runs
<1>7. g = Turns(g)
  <2>1. ASSUME NEW i \in 1 .. n PROVE g[i] = Turns(g)[i]
    <3>1. g[i - 1] \in X
      BY <1>4
    <3> QED  BY <1>3, <1>6, <1>2, <3>1
  <2>2. \A i \in 0 .. n : i = 0 \/ i \in 1 .. n
    BY <1>4
  <2>3. g[0] = Turns(g)[0]
    BY <1>6, <1>4 DEF Turns
  <2>4. \A i \in 0 .. n : g[i] = Turns(g)[i]
    BY <2>1, <2>2, <2>3
  <2> QED  BY <2>4 DEF Turns
<1>8. after = Turns(after)
  BY <1>7
<1>9. Loop(LAMBDA at, turn : StepDown(l, at), start, n) = IF n < 1 THEN start ELSE after[n]
  BY DEF Loop, Turns
<1> HIDE DEF after
<1>10. after[0] = start /\ \A i \in 1 .. n : after[i] = StepDown(l, after[i - 1])
  <2>1. after[0] = start
    BY <1>8, <1>4 DEF Turns
  <2> QED  BY <1>3, <1>8, <2>1
<1>11. after = [i \in 0 .. n |-> after[i]]
  BY <1>8 DEF Turns
<1>12. after \in [0 .. n -> X]
  <2>1. \A i \in 1 .. n : after[i - 1] \in X => after[i] \in X
    BY <1>10, <1>5
  <2> QED  BY <1>10, <1>11, <1>4, <2>1, TurnsStay
<1>13. Loop(LAMBDA at, turn : StepDown(l, at), start, n) = after[n]
  <2>1. n < 1 => n = 0
    BY <1>4
  <2> QED  BY <1>9, <1>10, <2>1
<1>14. WalkDown(l, ind) = after[n]
  BY <1>13 DEF WalkDown, start, n
<1> QED  BY <1>10, <1>12, <1>14 DEF WalkRun, start, n

(* The runs of the loop of Sv_CheckTimeouts.                               *)
CheckRun(l, now, X) ==
  {g \in [0 .. max_nb_servers -> X] :
     /\ g[0] = l
     /\ \A i \in 1 .. max_nb_servers : g[i] = CheckSlot(g[i - 1], i - 1, now)
     /\ CheckTimeoutsByLoop(l, now) = g[max_nb_servers]}

(* This loop has a run.                                                    *)
LEMMA CheckRuns ==
  ASSUME NEW l, NEW now, NEW X, max_nb_servers \in Nat, l \in X,
         \A i \in 1 .. max_nb_servers, v \in X : CheckSlot(v, i - 1, now) \in X
  PROVE  CheckRun(l, now, X) # {}
<1> DEFINE n == max_nb_servers
           start == l
           step == [p \in (1 .. n) \X X |-> CheckSlot(p[2], p[1] - 1, now)]
           Turns(f) == [i \in 0 .. n |-> IF i = 0 THEN start
                                         ELSE CHOOSE next \in {CheckSlot(v, i - 1, now) : v \in {f[i - 1]}} : TRUE]
           after == CHOOSE f : f = Turns(f)
<1>1. step \in [(1 .. n) \X X -> X]
  OBVIOUS
<1>2. \A i \in 1 .. n, v \in X : step[<<i, v>>] = CheckSlot(v, i - 1, now)
  OBVIOUS
<1>3. ASSUME NEW f, NEW i \in 1 .. n PROVE Turns(f)[i] = CheckSlot(f[i - 1], i - 1, now)
  OBVIOUS
<1>4. n \in Nat /\ start \in X
  OBVIOUS
<1>5. \A i \in 1 .. n, v \in X : CheckSlot(v, i - 1, now) \in X
  OBVIOUS
<1> HIDE DEF step, Turns, n, start
<1>6. PICK g \in [0 .. n -> X] : g[0] = start /\ \A i \in 1 .. n : g[i] = step[<<i, g[i - 1]>>]
  <2>1. Runs(X, start, n, step) # {}
    BY <1>1, <1>4, LoopRuns
  <2> QED  BY <2>1 DEF Runs
<1>7. g = Turns(g)
  <2>1. ASSUME NEW i \in 1 .. n PROVE g[i] = Turns(g)[i]
    <3>1. g[i - 1] \in X
      BY <1>4
    <3> QED  BY <1>3, <1>6, <1>2, <3>1
  <2>2. \A i \in 0 .. n : i = 0 \/ i \in 1 .. n
    BY <1>4
  <2>3. g[0] = Turns(g)[0]
    BY <1>6, <1>4 DEF Turns
  <2>4. \A i \in 0 .. n : g[i] = Turns(g)[i]
    BY <2>1, <2>2, <2>3
  <2> QED  BY <2>4 DEF Turns
<1>8. after = Turns(after)
  BY <1>7
<1>9. Loop(LAMBDA m, turn : CheckSlot(m, turn - 1, now), start, n) = IF n < 1 THEN start ELSE after[n]
  BY DEF Loop, Turns
<1> HIDE DEF after
<1>10. after[0] = start /\ \A i \in 1 .. n : after[i] = CheckSlot(after[i - 1], i - 1, now)
  <2>1. after[0] = start
    BY <1>8, <1>4 DEF Turns
  <2> QED  BY <1>3, <1>8, <2>1
<1>11. after = [i \in 0 .. n |-> after[i]]
  BY <1>8 DEF Turns
<1>12. after \in [0 .. n -> X]
  <2>1. \A i \in 1 .. n : after[i - 1] \in X => after[i] \in X
    BY <1>10, <1>5
  <2> QED  BY <1>10, <1>11, <1>4, <2>1, TurnsStay
<1>13. Loop(LAMBDA m, turn : CheckSlot(m, turn - 1, now), start, n) = after[n]
  <2>1. n < 1 => n = 0
    BY <1>4
  <2> QED  BY <1>9, <1>10, <2>1
<1>14. CheckTimeoutsByLoop(l, now) = after[n]
  BY <1>13 DEF CheckTimeoutsByLoop, start, n
<1> QED  BY <1>10, <1>12, <1>14 DEF CheckRun, start, n

(* The runs of the loop of Sv_GetByAddr.                                   *)
SearchRun(l, slot, now, X) ==
  {g \in [0 .. max_nb_servers - 1 -> X] :
     /\ g[0] = l
     /\ \A i \in 1 .. max_nb_servers - 1 : g[i] = SearchSlot(g[i - 1], slot, i, now)
     /\ SearchNext(l, slot, now) = g[max_nb_servers - 1]}

(* This loop has a run.                                                    *)
LEMMA SearchRuns ==
  ASSUME NEW l, NEW slot, NEW now, NEW X, max_nb_servers - 1 \in Nat, l \in X,
         \A i \in 1 .. max_nb_servers - 1, v \in X : SearchSlot(v, slot, i, now) \in X
  PROVE  SearchRun(l, slot, now, X) # {}
<1> DEFINE n == max_nb_servers - 1
           start == l
           step == [p \in (1 .. n) \X X |-> SearchSlot(p[2], slot, p[1], now)]
           Turns(f) == [i \in 0 .. n |-> IF i = 0 THEN start
                                         ELSE CHOOSE next \in {SearchSlot(v, slot, i, now) : v \in {f[i - 1]}} : TRUE]
           after == CHOOSE f : f = Turns(f)
<1>1. step \in [(1 .. n) \X X -> X]
  OBVIOUS
<1>2. \A i \in 1 .. n, v \in X : step[<<i, v>>] = SearchSlot(v, slot, i, now)
  OBVIOUS
<1>3. ASSUME NEW f, NEW i \in 1 .. n PROVE Turns(f)[i] = SearchSlot(f[i - 1], slot, i, now)
  OBVIOUS
<1>4. n \in Nat /\ start \in X
  OBVIOUS
<1>5. \A i \in 1 .. n, v \in X : SearchSlot(v, slot, i, now) \in X
  OBVIOUS
<1> HIDE DEF step, Turns, n, start
<1>6. PICK g \in [0 .. n -> X] : g[0] = start /\ \A i \in 1 .. n : g[i] = step[<<i, g[i - 1]>>]
  <2>1. Runs(X, start, n, step) # {}
    BY <1>1, <1>4, LoopRuns
  <2> QED  BY <2>1 DEF Runs
<1>7. g = Turns(g)
  <2>1. ASSUME NEW i \in 1 .. n PROVE g[i] = Turns(g)[i]
    <3>1. g[i - 1] \in X
      BY <1>4
    <3> QED  BY <1>3, <1>6, <1>2, <3>1
  <2>2. \A i \in 0 .. n : i = 0 \/ i \in 1 .. n
    BY <1>4
  <2>3. g[0] = Turns(g)[0]
    BY <1>6, <1>4 DEF Turns
  <2>4. \A i \in 0 .. n : g[i] = Turns(g)[i]
    BY <2>1, <2>2, <2>3
  <2> QED  BY <2>4 DEF Turns
<1>8. after = Turns(after)
  BY <1>7
<1>9. Loop(LAMBDA m, ind : SearchSlot(m, slot, ind, now), start, n) = IF n < 1 THEN start ELSE after[n]
  BY DEF Loop, Turns
<1> HIDE DEF after
<1>10. after[0] = start /\ \A i \in 1 .. n : after[i] = SearchSlot(after[i - 1], slot, i, now)
  <2>1. after[0] = start
    BY <1>8, <1>4 DEF Turns
  <2> QED  BY <1>3, <1>8, <2>1
<1>11. after = [i \in 0 .. n |-> after[i]]
  BY <1>8 DEF Turns
<1>12. after \in [0 .. n -> X]
  <2>1. \A i \in 1 .. n : after[i - 1] \in X => after[i] \in X
    BY <1>10, <1>5
  <2> QED  BY <1>10, <1>11, <1>4, <2>1, TurnsStay
<1>13. Loop(LAMBDA m, ind : SearchSlot(m, slot, ind, now), start, n) = after[n]
  <2>1. n < 1 => n = 0
    BY <1>4
  <2> QED  BY <1>9, <1>10, <2>1
<1>14. SearchNext(l, slot, now) = after[n]
  BY <1>13 DEF SearchNext, start, n
<1> QED  BY <1>10, <1>12, <1>14 DEF SearchRun, start, n

(* The runs of the loop of a sequence of removals.                         *)
OrderRun(l, order, X) ==
  {g \in [0 .. Len(order) -> X] :
     /\ g[0] = l
     /\ \A i \in 1 .. Len(order) : g[i] = RemoveSlot(g[i - 1], order[i])
     /\ RemoveInOrder(l, order) = g[Len(order)]}

(* This loop has a run.                                                    *)
LEMMA OrderRuns ==
  ASSUME NEW l, NEW order, NEW X, Len(order) \in Nat, l \in X,
         \A i \in 1 .. Len(order), v \in X : RemoveSlot(v, order[i]) \in X
  PROVE  OrderRun(l, order, X) # {}
<1> DEFINE n == Len(order)
           start == l
           step == [p \in (1 .. n) \X X |-> RemoveSlot(p[2], order[p[1]])]
           Turns(f) == [i \in 0 .. n |-> IF i = 0 THEN start
                                         ELSE CHOOSE next \in {RemoveSlot(v, order[i]) : v \in {f[i - 1]}} : TRUE]
           after == CHOOSE f : f = Turns(f)
<1>1. step \in [(1 .. n) \X X -> X]
  OBVIOUS
<1>2. \A i \in 1 .. n, v \in X : step[<<i, v>>] = RemoveSlot(v, order[i])
  OBVIOUS
<1>3. ASSUME NEW f, NEW i \in 1 .. n PROVE Turns(f)[i] = RemoveSlot(f[i - 1], order[i])
  OBVIOUS
<1>4. n \in Nat /\ start \in X
  OBVIOUS
<1>5. \A i \in 1 .. n, v \in X : RemoveSlot(v, order[i]) \in X
  OBVIOUS
<1> HIDE DEF step, Turns, n, start
<1>6. PICK g \in [0 .. n -> X] : g[0] = start /\ \A i \in 1 .. n : g[i] = step[<<i, g[i - 1]>>]
  <2>1. Runs(X, start, n, step) # {}
    BY <1>1, <1>4, LoopRuns
  <2> QED  BY <2>1 DEF Runs
<1>7. g = Turns(g)
  <2>1. ASSUME NEW i \in 1 .. n PROVE g[i] = Turns(g)[i]
    <3>1. g[i - 1] \in X
      BY <1>4
    <3> QED  BY <1>3, <1>6, <1>2, <3>1
  <2>2. \A i \in 0 .. n : i = 0 \/ i \in 1 .. n
    BY <1>4
  <2>3. g[0] = Turns(g)[0]
    BY <1>6, <1>4 DEF Turns
  <2>4. \A i \in 0 .. n : g[i] = Turns(g)[i]
    BY <2>1, <2>2, <2>3
  <2> QED  BY <2>4 DEF Turns
<1>8. after = Turns(after)
  BY <1>7
<1>9. Loop(LAMBDA m, turn : RemoveSlot(m, order[turn]), start, n) = IF n < 1 THEN start ELSE after[n]
  BY DEF Loop, Turns
<1> HIDE DEF after
<1>10. after[0] = start /\ \A i \in 1 .. n : after[i] = RemoveSlot(after[i - 1], order[i])
  <2>1. after[0] = start
    BY <1>8, <1>4 DEF Turns
  <2> QED  BY <1>3, <1>8, <2>1
<1>11. after = [i \in 0 .. n |-> after[i]]
  BY <1>8 DEF Turns
<1>12. after \in [0 .. n -> X]
  <2>1. \A i \in 1 .. n : after[i - 1] \in X => after[i] \in X
    BY <1>10, <1>5
  <2> QED  BY <1>10, <1>11, <1>4, <2>1, TurnsStay
<1>13. Loop(LAMBDA m, turn : RemoveSlot(m, order[turn]), start, n) = after[n]
  <2>1. n < 1 => n = 0
    BY <1>4
  <2> QED  BY <1>9, <1>10, <2>1
<1>14. RemoveInOrder(l, order) = after[n]
  BY <1>13 DEF RemoveInOrder, start, n
<1> QED  BY <1>10, <1>12, <1>14 DEF OrderRun, start, n


(* A list with any number of servers.                                      *)
LooseList == [servers : [Slots -> Server], nb_servers : Int,
              last_used_slot : Slots \cup {-1}, first_free_slot : Slots \cup {-1},
              crt_server_ind : Slots \cup {-1}, last_server_ind : Slots \cup {-1}]

(* Every list of the program is one; two with the same fields are equal.   *)
LEMMA LooseLists ==
  /\ \A l \in ServerList : l \in LooseList
  /\ \A l, m \in LooseList :
       /\ l.servers = m.servers /\ l.nb_servers = m.nb_servers
       /\ l.last_used_slot = m.last_used_slot /\ l.first_free_slot = m.first_free_slot
       /\ l.crt_server_ind = m.crt_server_ind /\ l.last_server_ind = m.last_server_ind
       => l = m
<1>1. \A l \in ServerList : l \in LooseList
  BY DEF ServerList, LooseList
<1>2. ASSUME NEW l \in LooseList, NEW m \in LooseList,
             l.servers = m.servers, l.nb_servers = m.nb_servers,
             l.last_used_slot = m.last_used_slot, l.first_free_slot = m.first_free_slot,
             l.crt_server_ind = m.crt_server_ind, l.last_server_ind = m.last_server_ind
      PROVE  l = m
  BY <1>2 DEF LooseList
<1> QED  BY <1>1, <1>2

(* The walk ends at the highest used slot, or below them all.              *)
LEMMA WalkIs ==
  ASSUME NEW l, NEW ind \in Slots \cup {-1}
  PROVE  WalkDown(l, ind) = HighestOf({i \in Used(l) : i <= ind})
<1> DEFINE n == ind + 1
           S == {i \in Used(l) : i <= ind}
<1>1. /\ ind \in Int /\ n \in Nat /\ \A i \in Slots : i \in Nat
      /\ \A i \in Int : i >= 0 /\ i <= ind => i \in Slots
  BY SlotsFinite
<1>2. PICK g \in WalkRun(l, ind, Int) : TRUE
  <2>1. \A i \in 1 .. n, v \in Int : StepDown(l, v) \in Int
    BY DEF StepDown
  <2> QED  BY <1>1, <2>1, WalkRuns
<1>3. /\ g \in [0 .. n -> Int] /\ g[0] = ind /\ \A i \in 1 .. n : g[i] = StepDown(l, g[i - 1])
      /\ WalkDown(l, ind) = g[n]
  BY <1>2 DEF WalkRun
<1> HIDE DEF n
<1> DEFINE Passed(k) == /\ g[k] \in -1 .. ind
                        /\ \A i \in Slots : g[k] < i /\ i <= ind => i \notin Used(l)
                        /\ g[k] <= ind - k \/ g[k] = -1 \/ g[k] \in Used(l)
           T == {k \in 0 .. n : Passed(k)}
<1>4. 0 \in T
  <2>1. 0 \in 0 .. n
    BY <1>1
  <2>2. Passed(0)
    BY <1>1, <1>3
  <2> QED  BY <2>1, <2>2
<1>5. ASSUME NEW k \in 0 .. n - 1, k \in T PROVE k + 1 \in T
  <2>1. k + 1 \in 1 .. n /\ (k + 1) - 1 = k /\ k \in 0 .. n /\ k + 1 \in 0 .. n /\ k \in Nat
    BY <1>1
  <2>2. g[k + 1] = StepDown(l, g[k]) /\ Passed(k)
    BY <1>3, <1>5, <2>1
  <2>3. CASE g[k] >= 0 /\ l.servers[g[k]].state = "unused_slot"
    <3>1. g[k + 1] = g[k] - 1
      BY <2>2, <2>3 DEF StepDown
    <3>2. g[k] \in Slots /\ g[k] \notin Used(l)
      BY <1>1, <2>2, <2>3 DEF Used
    <3>3. \A i \in Slots : g[k + 1] < i /\ i <= ind => i = g[k] \/ g[k] < i
      BY <1>1, <2>2, <3>1
    <3>4. g[k + 1] <= ind - (k + 1)
      BY <1>1, <2>1, <2>2, <2>3, <3>1, <3>2
    <3>5. Passed(k + 1)
      BY <1>1, <2>2, <2>3, <3>1, <3>2, <3>3, <3>4
    <3> QED  BY <2>1, <3>5
  <2>4. CASE ~(g[k] >= 0 /\ l.servers[g[k]].state = "unused_slot")
    <3>1. g[k + 1] = g[k]
      BY <2>2, <2>4 DEF StepDown
    <3>2. g[k] = -1 \/ g[k] \in Used(l)
      BY <1>1, <2>2, <2>4 DEF Used
    <3>3. Passed(k + 1)
      BY <2>2, <3>1, <3>2
    <3> QED  BY <2>1, <3>3
  <2> QED  BY <2>3, <2>4
<1>6. n \in T
  <2>1. 0 .. n \subseteq T
    <3> HIDE DEF T
    <3> QED  BY <1>1, <1>4, <1>5, BoundedInduction
  <2>2. n \in 0 .. n
    BY <1>1
  <2> QED  BY <2>1, <2>2
<1>7. /\ g[n] \in -1 .. ind /\ \A i \in Slots : g[n] < i /\ i <= ind => i \notin Used(l)
      /\ g[n] = -1 \/ g[n] \in Used(l)
  BY <1>1, <1>6 DEF n
<1>8. PICK h \in Int : h = g[n]
  BY <1>7
<1>9. /\ -1 <= h /\ h <= ind /\ \A i \in Slots : h < i /\ i <= ind => i \notin Used(l)
      /\ h = -1 \/ h \in Used(l)
  BY <1>1, <1>7, <1>8
<1>10. S \in SUBSET Slots /\ S \in SUBSET Nat
  <2>1. S \in SUBSET Slots
    BY DEF Used
  <2> QED  BY <2>1, SlotsFinite
<1>11. ASSUME NEW i \in S PROVE i <= h
  <2>1. i \in Slots /\ i \in Used(l) /\ i <= ind /\ i \in Int
    BY <1>1, <1>10
  <2> QED  BY <1>1, <1>8, <1>9, <2>1
<1>12. CASE h = -1
  <2>2. S = {}
    <3>1. ASSUME NEW i \in S PROVE FALSE
      <4>1. i \in Nat /\ i <= h
        BY <1>10, <1>11
      <4> QED  BY <1>12, <4>1
    <3> QED  BY <3>1
  <2> QED  BY <1>3, <1>8, <1>10, <1>12, <2>2, HighestIs
<1>13. CASE h \in Used(l)
  <2>1. h \in S
    BY <1>9, <1>13
  <2>2. HighestOf(S) \in S /\ h <= HighestOf(S)
    BY <1>10, <2>1, HighestIs
  <2>3. HighestOf(S) \in Int /\ HighestOf(S) <= h
    BY <1>1, <1>10, <1>11, <2>2
  <2>4. HighestOf(S) = h
    BY <1>8, <2>2, <2>3
  <2> QED  BY <1>3, <1>8, <2>4
<1> QED  BY <1>9, <1>12, <1>13

\* What last_used_slot becomes when a slot is removed.
LastWithout(l, i) ==
  IF l.last_used_slot = i THEN HighestOf({j \in Used(l) : j < i}) ELSE l.last_used_slot

(* The fields of a list after the removal of a slot.                       *)
LEMMA RemoveSlotIs ==
  ASSUME NEW l \in LooseList, NEW i \in Slots
  PROVE  LET m == RemoveSlot(l, i)
             last == LastWithout(l, i)
         IN  /\ m \in LooseList
             /\ m.servers = [l.servers EXCEPT ![i] = UnusedServer]
             /\ m.nb_servers = l.nb_servers - 1
             /\ m.last_used_slot = last
             /\ m.first_free_slot = IF l.first_free_slot = -1 \/ i < l.first_free_slot THEN i ELSE l.first_free_slot
             /\ m.crt_server_ind = AtMost(l.crt_server_ind, last)
             /\ m.last_server_ind = AtMost(l.last_server_ind, last)
<1> DEFINE m == RemoveSlot(l, i)
           freed == [l EXCEPT !.servers[i] = UnusedServer]
           walked == WalkDown(freed, i - 1)
           last == LastWithout(l, i)
           below == {j \in Used(l) : j < i}
<1>1. /\ l.servers \in [Slots -> Server] /\ l.nb_servers \in Int
      /\ l.last_used_slot \in Slots \cup {-1} /\ l.first_free_slot \in Slots \cup {-1}
      /\ l.crt_server_ind \in Slots \cup {-1} /\ l.last_server_ind \in Slots \cup {-1}
  BY DEF LooseList
<1>2. freed \in LooseList /\ freed.servers = [l.servers EXCEPT ![i] = UnusedServer]
  BY UnusedType DEF LooseList
<1>3. Used(freed) = Used(l) \ {i}
  BY <1>1, <1>2 DEF Used, UnusedServer
<1>4. walked = HighestOf(below)
  <2>1. i - 1 \in Slots \cup {-1}
    BY SlotsFinite
  <2>2. \A j \in Slots : j <= i - 1 <=> j < i
    BY SlotsFinite
  <2>3. {j \in Used(freed) : j <= i - 1} = below
    BY <1>3, <2>2, SlotsFinite DEF Used
  <2> HIDE DEF freed
  <2> QED  BY <2>1, <2>3, WalkIs
<1> HIDE DEF walked
<1>5. last \in Slots \cup {-1} /\ last = IF l.last_used_slot = i THEN walked ELSE l.last_used_slot
  <2>1. below \subseteq Slots
    BY DEF Used
  <2> QED  BY <1>1, <1>4, <2>1, HighestIs DEF LastWithout
<1>6. m = [freed EXCEPT
             !.first_free_slot = IF @ = -1 \/ i < @ THEN i ELSE @,
             !.last_used_slot = last,
             !.last_server_ind = IF @ > last THEN last ELSE @,
             !.crt_server_ind = IF @ > last THEN last ELSE @,
             !.nb_servers = @ - 1]
  BY <1>5 DEF RemoveSlot, walked
<1> HIDE DEF last
<1>7. m = [servers |-> [l.servers EXCEPT ![i] = UnusedServer],
           nb_servers |-> l.nb_servers - 1,
           last_used_slot |-> last,
           first_free_slot |-> IF l.first_free_slot = -1 \/ i < l.first_free_slot THEN i ELSE l.first_free_slot,
           crt_server_ind |-> AtMost(l.crt_server_ind, last),
           last_server_ind |-> AtMost(l.last_server_ind, last)]
  BY <1>1, <1>2, <1>6 DEF LooseList, AtMost
<1>8. [l.servers EXCEPT ![i] = UnusedServer] \in [Slots -> Server]
  BY <1>1, UnusedType
<1>9. AtMost(l.crt_server_ind, last) \in Slots \cup {-1} /\ AtMost(l.last_server_ind, last) \in Slots \cup {-1}
  BY <1>1, <1>5, AtMostBound
<1> HIDE DEF m
<1>10. m \in LooseList
  BY <1>1, <1>5, <1>7, <1>8, <1>9 DEF LooseList
<1> QED  BY <1>7, <1>10 DEF m, last

\* What last_used_slot becomes when the slots of a set are removed.
LastAfterAll(l, R) ==
  IF l.last_used_slot \in R THEN HighestOf({j \in Used(l) \ R : j < l.last_used_slot}) ELSE l.last_used_slot

(* One more removal moves last_used_slot as if its slot were in the set.   *)
LEMMA LastAgain ==
  ASSUME NEW l \in LooseList, NEW m, NEW R \in SUBSET Used(l), NEW i \in Used(l) \ R,
         Used(m) = Used(l) \ R, m.last_used_slot = LastAfterAll(l, R)
  PROVE  /\ LastWithout(m, i) = LastAfterAll(l, R \cup {i})
         /\ LastAfterAll(l, R) \in Slots \cup {-1} /\ LastAfterAll(l, R \cup {i}) \in Slots \cup {-1}
         /\ LastAfterAll(l, R \cup {i}) <= LastAfterAll(l, R)
<1> DEFINE last == l.last_used_slot
           S == {j \in Used(l) \ R : j < last}
           more == {j \in Used(l) \ (R \cup {i}) : j < last}
           below == {j \in Used(m) : j < i}
<1>1. /\ Used(l) \subseteq Slots /\ i \in Slots /\ Slots \in SUBSET Nat /\ last \in Slots \cup {-1}
      /\ S \in SUBSET Slots /\ more \in SUBSET Slots /\ below \in SUBSET Slots
      /\ more = S \ {i}
  BY SlotsFinite DEF Used, LooseList
<1>2. /\ LastAfterAll(l, R) = IF last \in R THEN HighestOf(S) ELSE last
      /\ LastAfterAll(l, R \cup {i}) = IF last \in R \cup {i} THEN HighestOf(more) ELSE last
      /\ LastWithout(m, i) = IF LastAfterAll(l, R) = i THEN HighestOf(below) ELSE LastAfterAll(l, R)
  BY DEF LastAfterAll, LastWithout
<1>3. i \in Int /\ last \in Int /\ i >= 0
  BY <1>1, SlotsFinite
<1>4. ASSUME NEW j \in Slots PROVE j \in Int
  BY SlotsFinite
<1>5. CASE last \notin R /\ last # i
  BY <1>1, <1>2, <1>3, <1>5
<1>6. CASE last = i
  <2>1. below = more
    <3>1. ASSUME NEW j \in Slots PROVE j \in below <=> j \in more
      <4>1. j \in Int
        BY <1>4
      <4> QED  BY <1>3, <1>6, <4>1
    <3> QED  BY <1>1, <3>1
  <2>2. HighestOf(more) \in Slots \cup {-1} /\ HighestOf(more) <= last
    <3>1. HighestOf(more) \in Slots \cup {-1}
      BY <1>1, HighestIs
    <3>2. more # {} => HighestOf(more) \in more
      BY <1>1, HighestIs
    <3>3. more # {} => HighestOf(more) < last
      BY <3>2
    <3>4. more = {} => HighestOf(more) = -1
      BY <1>1, HighestIs
    <3> DEFINE top == HighestOf(more)
    <3> HIDE DEF top, more
    <3>5. top \in Int /\ (more # {} => top < last) /\ (more = {} => top = -1)
      BY <1>4, <3>1, <3>3, <3>4 DEF top
    <3>6. top <= last
      BY <1>3, <1>6, <3>5
    <3> QED  BY <3>1, <3>6 DEF top
  <2> QED  BY <1>1, <1>2, <1>6, <2>1, <2>2
<1>7. CASE last \in R
  <2>1. last # i /\ LastAfterAll(l, R) = HighestOf(S) /\ LastAfterAll(l, R \cup {i}) = HighestOf(more)
    BY <1>2, <1>7
  <2>2. /\ HighestOf(S) \in Slots \cup {-1} /\ HighestOf(more) \in Slots \cup {-1}
        /\ S = {} <=> HighestOf(S) = -1
        /\ S # {} => HighestOf(S) \in S /\ \A y \in S : y <= HighestOf(S)
        /\ more = {} <=> HighestOf(more) = -1
        /\ more # {} => HighestOf(more) \in more /\ \A y \in more : y <= HighestOf(more)
    BY <1>1, HighestIs
  <2> DEFINE top == HighestOf(S)
             next == HighestOf(more)
  <2> HIDE DEF top, next, S, more
  <2>3. /\ top \in Int /\ next \in Int
        /\ S = {} => top = -1
        /\ S # {} => top \in S /\ \A y \in S : y <= top
        /\ more = {} => next = -1
        /\ more # {} => next \in more /\ \A y \in more : y <= next
        /\ top = -1 => S = {}
    BY <1>4, <2>2 DEF top, next
  <2>4. next <= top
    <3>1. CASE more = {}
      BY <1>4, <2>2, <2>3, <3>1, <1>1, SlotsFinite DEF top, next
    <3>2. CASE more # {}
      BY <1>1, <2>3, <3>2
    <3> QED  BY <3>1, <3>2
  <2>5. CASE top = i
    <3>1. i \in S /\ \A y \in S : y <= i
      BY <1>3, <2>3, <2>5
    <3>2. i < last
      BY <3>1 DEF S
    <3>3. ASSUME NEW y \in more PROVE y \in below
      <4>1. y \in S /\ y # i /\ y \in Slots
        BY <1>1, <3>3
      <4>2. y \in Int /\ y < i
        BY <1>3, <1>4, <3>1, <4>1
      <4>3. y \in Used(m)
        BY <4>1 DEF S
      <4> QED  BY <4>2, <4>3
    <3>4. ASSUME NEW y \in below PROVE y \in more
      <4>1. y \in Used(l) \ R /\ y < i /\ y \in Slots
        BY <1>1
      <4>2. y < last /\ y # i
        BY <1>3, <1>4, <3>2, <4>1
      <4> QED  BY <4>1, <4>2 DEF more
    <3>5. below = more
      BY <3>3, <3>4
    <3> QED  BY <1>2, <2>1, <2>2, <2>4, <2>5, <3>5 DEF top, next
  <2>6. CASE top # i
    <3>1. next = top
      <4>1. CASE S = {}
        BY <1>1, <2>3, <4>1
      <4>2. CASE S # {}
        <5>1. top \in more
          BY <1>1, <2>3, <2>6, <4>2
        <5>2. top <= next
          BY <2>3, <5>1
        <5> QED  BY <2>3, <2>4, <5>2
      <4> QED  BY <4>1, <4>2
    <3> QED  BY <1>2, <2>1, <2>2, <2>4, <2>6, <3>1 DEF top, next
  <2> QED  BY <2>5, <2>6
<1> QED  BY <1>5, <1>6, <1>7

(* Removing a slot from a list that has lost some.                         *)
LEMMA RemoveAgain ==
  ASSUME NEW l \in ServerList, Counted(l), NEW R \in SUBSET Used(l), NEW i \in Used(l) \ R
  PROVE  RemoveSlot(Sv_Remove(l, R), i) = Sv_Remove(l, R \cup {i})
<1> DEFINE Q == R \cup {i}
           m == Sv_Remove(l, R)
           r == RemoveSlot(m, i)
           q == Sv_Remove(l, Q)
           lastR == LastAfterAll(l, R)
           lastQ == LastAfterAll(l, Q)
<1>1. /\ l \in LooseList /\ Q \in SUBSET Used(l) /\ Q # {} /\ i \in Slots
      /\ R \subseteq Slots /\ Q \subseteq Slots /\ l.servers \in [Slots -> Server] /\ l.nb_servers \in Nat
      /\ l.last_used_slot \in Slots \cup {-1} /\ l.first_free_slot \in Slots \cup {-1}
      /\ l.crt_server_ind \in Slots \cup {-1} /\ l.last_server_ind \in Slots \cup {-1}
  BY LooseLists DEF ServerList, Used
<1>2. /\ IsFiniteSet(R) /\ Cardinality(R) \in Nat /\ Cardinality(R) <= l.nb_servers
      /\ Cardinality(Q) = Cardinality(R) + 1 /\ Cardinality(Q) <= l.nb_servers
      /\ R = {} => Cardinality(R) = 0
  <2>1. IsFiniteSet(R) /\ Cardinality(R) \in Nat /\ Cardinality(R) <= l.nb_servers /\ Cardinality(Q) <= l.nb_servers
    BY <1>1, UsedFinite DEF Counted
  <2>2. Cardinality(Q) = Cardinality(R) + 1
    BY <2>1, FS_AddElement
  <2> QED  BY <2>1, <2>2, FS_EmptySet
<1>3. /\ m \in ServerList /\ m \in LooseList /\ q \in LooseList
      /\ Used(m) = Used(l) \ R
      /\ \A j \in Slots : m.servers[j] = IF j \in R THEN UnusedServer ELSE l.servers[j]
      /\ \A j \in Slots : q.servers[j] = IF j \in Q THEN UnusedServer ELSE l.servers[j]
  <2>1. /\ m \in ServerList /\ Used(m) = Used(l) \ R
        /\ \A j \in Slots : m.servers[j] = IF j \in R THEN UnusedServer ELSE l.servers[j]
    BY <1>2, RemoveFields
  <2>2. /\ q \in ServerList
        /\ \A j \in Slots : q.servers[j] = IF j \in Q THEN UnusedServer ELSE l.servers[j]
    <3> HIDE DEF Q
    <3> QED  BY <1>1, <1>2, RemoveFields
  <2> HIDE DEF m, q
  <2> QED  BY <2>1, <2>2, LooseLists
<1>4. /\ m.nb_servers = l.nb_servers - Cardinality(R)
      /\ m.last_used_slot = lastR
      /\ m.first_free_slot = IF R = {} THEN l.first_free_slot
                             ELSE IF l.first_free_slot = -1 \/ Min(R) < l.first_free_slot
                                  THEN Min(R) ELSE l.first_free_slot
      /\ m.crt_server_ind = IF R = {} THEN l.crt_server_ind ELSE AtMost(l.crt_server_ind, lastR)
      /\ m.last_server_ind = IF R = {} THEN l.last_server_ind ELSE AtMost(l.last_server_ind, lastR)
  <2>1. CASE R = {}
    BY <1>1, <1>2, <2>1 DEF Sv_Remove, LastAfterAll
  <2>2. CASE R # {}
    BY <2>2 DEF Sv_Remove, LastAfterAll
  <2> QED  BY <2>1, <2>2
<1>5. /\ q.nb_servers = l.nb_servers - Cardinality(Q)
      /\ q.last_used_slot = lastQ
      /\ q.first_free_slot = IF l.first_free_slot = -1 \/ Min(Q) < l.first_free_slot
                             THEN Min(Q) ELSE l.first_free_slot
      /\ q.crt_server_ind = AtMost(l.crt_server_ind, lastQ)
      /\ q.last_server_ind = AtMost(l.last_server_ind, lastQ)
  BY <1>1 DEF Sv_Remove, LastAfterAll
<1>6. /\ LastWithout(m, i) = lastQ
      /\ lastR \in Slots \cup {-1} /\ lastQ \in Slots \cup {-1} /\ lastQ <= lastR
  BY <1>1, <1>3, <1>4, LastAgain
<1> HIDE DEF m, q, lastR, lastQ, Q
<1>7. /\ r \in LooseList
      /\ r.servers = [m.servers EXCEPT ![i] = UnusedServer]
      /\ r.nb_servers = m.nb_servers - 1
      /\ r.last_used_slot = lastQ
      /\ r.first_free_slot = IF m.first_free_slot = -1 \/ i < m.first_free_slot THEN i ELSE m.first_free_slot
      /\ r.crt_server_ind = AtMost(m.crt_server_ind, lastQ)
      /\ r.last_server_ind = AtMost(m.last_server_ind, lastQ)
  BY <1>1, <1>3, <1>6, RemoveSlotIs
<1> HIDE DEF r
<1>8. r.servers = q.servers
  <2>1. r.servers \in [Slots -> Server] /\ q.servers \in [Slots -> Server] /\ m.servers \in [Slots -> Server]
    BY <1>3, <1>7 DEF LooseList
  <2>2. \A j \in Slots : r.servers[j] = IF j = i THEN UnusedServer ELSE m.servers[j]
    BY <1>7, <2>1
  <2>3. \A j \in Slots : r.servers[j] = q.servers[j]
    BY <1>3, <2>2 DEF Q
  <2> QED  BY <2>1, <2>3
<1>9. r.nb_servers = q.nb_servers
  BY <1>1, <1>2, <1>4, <1>5, <1>7
<1>10. r.first_free_slot = q.first_free_slot
  <2>1. i \in Int /\ i >= 0 /\ (l.first_free_slot = -1 \/ l.first_free_slot >= 0) /\ l.first_free_slot \in Int
    BY <1>1, SlotsFinite
  <2>2. CASE R = {}
    <3>1. Min(Q) = i
      <4>1. Q \in SUBSET Int /\ i \in Q /\ \A y \in Q : i <= y
        BY <2>1, <2>2 DEF Q
      <4> QED  BY <4>1, MinIs
    <3> QED  BY <1>4, <1>5, <1>7, <2>1, <2>2, <3>1
  <2>3. CASE R # {}
    <3> DEFINE low == Min(R)
    <3>1. low \in R /\ (\A y \in R : low <= y) /\ low \in Int /\ low >= 0
      <4>1. LowestOf(R) = low /\ LowestOf(R) \in R /\ \A y \in R : LowestOf(R) <= y
        BY <1>1, <2>3, LowestIs DEF LowestOf
      <4>2. \A y \in Slots : y \in Int /\ y >= 0
        BY SlotsFinite
      <4> HIDE DEF low
      <4> QED  BY <1>1, <4>1, <4>2
    <3> HIDE DEF low
    <3>2. Min(Q) = IF i < low THEN i ELSE low
      <4> DEFINE x == IF i < low THEN i ELSE low
      <4>1. x \in Q /\ \A y \in Q : x <= y
        <5>1. ASSUME NEW y \in Q PROVE x <= y
          <6>1. y \in Int
            BY <1>1, SlotsFinite
          <6>2. y = i \/ y \in R
            BY DEF Q
          <6> QED  BY <2>1, <3>1, <6>1, <6>2
        <5> QED  BY <3>1, <5>1 DEF Q
      <4>2. Q \in SUBSET Int
        BY <1>1, SlotsFinite
      <4> HIDE DEF x
      <4>3. Min(Q) = x
        BY <4>1, <4>2, MinIs
      <4> QED  BY <4>3 DEF x
    <3>3. m.first_free_slot = IF l.first_free_slot = -1 \/ low < l.first_free_slot THEN low ELSE l.first_free_slot
      BY <1>4, <2>3 DEF low
    <3> QED  BY <1>5, <1>7, <2>1, <3>1, <3>2, <3>3
  <2> QED  BY <2>2, <2>3
<1>11. \A c \in Slots \cup {-1} : AtMost(AtMost(c, lastR), lastQ) = AtMost(c, lastQ)
  <2>1. lastR \in Int /\ lastQ \in Int
    BY <1>6, SlotsFinite
  <2>2. ASSUME NEW c \in Slots \cup {-1} PROVE AtMost(AtMost(c, lastR), lastQ) = AtMost(c, lastQ)
    <3>1. c \in Int
      BY SlotsFinite
    <3> QED  BY <1>6, <2>1, <3>1 DEF AtMost
  <2> QED  BY <2>2
<1>12. r.crt_server_ind = q.crt_server_ind /\ r.last_server_ind = q.last_server_ind
  BY <1>1, <1>4, <1>5, <1>7, <1>11
<1> QED  BY <1>3, <1>5, <1>7, <1>8, <1>9, <1>10, <1>12, LooseLists DEF r, m, q, Q

(* What is left when a set of used slots is removed.                       *)
LEMMA RemovedSome ==
  ASSUME NEW l \in ServerList, Counted(l), NEW R \in SUBSET Used(l)
  PROVE  /\ Sv_Remove(l, R) \in ServerList /\ Sv_Remove(l, R) \in LooseList
         /\ \A i \in Slots \ R : Sv_Remove(l, R).servers[i] = l.servers[i]
         /\ Sv_Remove(l, R).last_used_slot = LastAfterAll(l, R)
         /\ LastAfterAll(l, R) \in Slots \cup {-1}
         /\ LastAfterAll(l, R) <= l.last_used_slot
<1> DEFINE last == l.last_used_slot
           S == {j \in Used(l) \ R : j < last}
<1>1. /\ R \subseteq Slots /\ S \in SUBSET Slots /\ last \in Slots \cup {-1}
      /\ Cardinality(R) <= l.nb_servers
  <2>1. Used(l) \subseteq Slots /\ Cardinality(R) <= Cardinality(Used(l))
    BY UsedFinite
  <2>2. last \in Slots \cup {-1}
    BY DEF ServerList
  <2> QED  BY <2>1, <2>2 DEF Counted
<1>2. /\ Sv_Remove(l, R) \in ServerList
      /\ \A i \in Slots : Sv_Remove(l, R).servers[i] = IF i \in R THEN UnusedServer ELSE l.servers[i]
  BY <1>1, RemoveFields
<1>3. Sv_Remove(l, R).last_used_slot = LastAfterAll(l, R)
  BY DEF Sv_Remove, LastAfterAll
<1>4. LastAfterAll(l, R) \in Slots \cup {-1} /\ LastAfterAll(l, R) <= last
  <2>1. LastAfterAll(l, R) = IF last \in R THEN HighestOf(S) ELSE last
    BY DEF LastAfterAll
  <2>2. last \in Int /\ \A j \in Slots : j \in Int /\ j >= 0
    BY <1>1, SlotsFinite
  <2>3. HighestOf(S) \in Slots \cup {-1} /\ (S # {} => HighestOf(S) \in S) /\ (S = {} => HighestOf(S) = -1)
    BY <1>1, HighestIs
  <2>4. S # {} => HighestOf(S) < last
    BY <2>3
  <2> DEFINE top == HighestOf(S)
  <2> HIDE DEF top, S
  <2>5. CASE last \in R
    <3>1. top \in Int /\ last >= 0 /\ (S # {} => top < last) /\ (S = {} => top = -1)
      BY <1>1, <2>2, <2>3, <2>4, <2>5 DEF top
    <3>2. top <= last
      BY <2>2, <3>1
    <3> QED  BY <2>1, <2>3, <2>5, <3>2 DEF top
  <2>6. CASE last \notin R
    BY <1>1, <2>1, <2>2, <2>6
  <2> QED  BY <2>5, <2>6
<1> QED  BY <1>1, <1>2, <1>3, <1>4, LooseLists

(* Removals in an order are the removal of the set.                        *)
LEMMA OrderIs ==
  ASSUME NEW l \in ServerList, Counted(l), NEW R \in SUBSET Used(l), NEW n \in Nat,
         NEW order \in Bijection(1 .. n, R)
  PROVE  RemoveInOrder(l, order) = Sv_Remove(l, R)
<1>1. /\ order \in [1 .. n -> R]
      /\ \A t \in R : \E s \in 1 .. n : order[s] = t
      /\ \A a, b \in 1 .. n : order[a] = order[b] => a = b
  BY DEF Bijection, Injection, Surjection, IsInjective
<1>2. Len(order) = n
  BY <1>1
<1>3. R \subseteq Slots /\ l \in LooseList
  BY LooseLists DEF Used
<1>4. PICK g \in OrderRun(l, order, LooseList) : TRUE
  <2>1. \A i \in 1 .. n, v \in LooseList : RemoveSlot(v, order[i]) \in LooseList
    <3>1. ASSUME NEW i \in 1 .. n, NEW v \in LooseList PROVE RemoveSlot(v, order[i]) \in LooseList
      <4>1. order[i] \in Slots
        BY <1>1, <1>3
      <4> QED  BY <4>1, RemoveSlotIs
    <3> QED  BY <3>1
  <2> QED  BY <1>2, <1>3, <2>1, OrderRuns
<1>5. /\ g[0] = l /\ \A i \in 1 .. n : g[i] = RemoveSlot(g[i - 1], order[i])
      /\ RemoveInOrder(l, order) = g[n]
  BY <1>2, <1>4 DEF OrderRun
<1> DEFINE Done(k) == {order[j] : j \in 1 .. k}
           T == {k \in 0 .. n : g[k] = Sv_Remove(l, Done(k))}
<1>6. 0 \in T
  <2>1. Done(0) = {}
    OBVIOUS
  <2>2. Sv_Remove(l, {}) = l
    BY DEF Sv_Remove
  <2>3. 0 \in 0 .. n
    OBVIOUS
  <2>4. g[0] = Sv_Remove(l, Done(0))
    <3> HIDE DEF Done
    <3> QED  BY <1>5, <2>1, <2>2
  <2> QED  BY <2>3, <2>4
<1>7. ASSUME NEW k \in 0 .. n - 1, k \in T PROVE k + 1 \in T
  <2>1. k + 1 \in 1 .. n /\ (k + 1) - 1 = k /\ k + 1 \in 0 .. n
    OBVIOUS
  <2>2. g[k + 1] = RemoveSlot(Sv_Remove(l, Done(k)), order[k + 1])
    BY <1>5, <1>7, <2>1
  <2>3. Done(k) \in SUBSET Used(l)
    BY <1>1
  <2>4. order[k + 1] \in Used(l) \ Done(k)
    <3>1. \A j \in 1 .. k : j \in 1 .. n /\ j # k + 1
      OBVIOUS
    <3> QED  BY <1>1, <2>1, <3>1
  <2>5. Done(k + 1) = Done(k) \cup {order[k + 1]}
    <3>1. 1 .. k + 1 = (1 .. k) \cup {k + 1}
      OBVIOUS
    <3> QED  BY <3>1
  <2> HIDE DEF Done
  <2>6. g[k + 1] = Sv_Remove(l, Done(k + 1))
    BY <2>2, <2>3, <2>4, <2>5, RemoveAgain
  <2> QED  BY <2>1, <2>6
<1>8. n \in T
  <2>1. 0 .. n \subseteq T
    <3> HIDE DEF T
    <3> QED  BY <1>6, <1>7, BoundedInduction
  <2>2. n \in 0 .. n
    OBVIOUS
  <2> QED  BY <2>1, <2>2
<1>9. Done(n) = R
  BY <1>1
<1> QED  BY <1>5, <1>8, <1>9

(* The loop of Sv_CheckTimeouts removes the timed out servers.             *)
LEMMA CheckTimeoutsIs ==
  ASSUME NEW l \in ServerList, Counted(l), NEW now
  PROVE  CheckTimeoutsByLoop(l, now) = Sv_CheckTimeouts(l, now)
<1> DEFINE n == max_nb_servers
           D == {i \in Dead(l, now) : i <= l.last_used_slot}
           Before(k) == {i \in D : i < k}
<1>1. /\ l \in LooseList /\ D \in SUBSET Used(l) /\ D \in SUBSET Slots /\ n \in Nat
      /\ Slots \in SUBSET Nat /\ l.last_used_slot \in Int
      /\ \A i \in 1 .. n : i - 1 \in Slots
  BY LooseLists, SlotsFinite, ListAssumption DEF Dead, Used, ServerList
<1>2. PICK g \in CheckRun(l, now, LooseList) : TRUE
  <2>1. ASSUME NEW i \in 1 .. n, NEW v \in LooseList PROVE CheckSlot(v, i - 1, now) \in LooseList
    <3>1. RemoveSlot(v, i - 1) \in LooseList
      BY <1>1, RemoveSlotIs
    <3> QED  BY <3>1 DEF CheckSlot, AfterIsActive
  <2> QED  BY <1>1, <2>1, CheckRuns
<1>3. /\ g[0] = l /\ \A i \in 1 .. n : g[i] = CheckSlot(g[i - 1], i - 1, now)
      /\ CheckTimeoutsByLoop(l, now) = g[n]
  BY <1>2 DEF CheckRun
<1> DEFINE T == {k \in 0 .. n : g[k] = Sv_Remove(l, Before(k))}
<1>4. 0 \in T
  <2>1. Before(0) = {}
    <3>1. \A i \in Slots : ~(i < 0)
      BY <1>1
    <3> HIDE DEF D
    <3> QED  BY <1>1, <3>1
  <2>2. Sv_Remove(l, {}) = l
    BY DEF Sv_Remove
  <2> QED  BY <1>1, <1>3, <2>1, <2>2
<1>5. ASSUME NEW k \in 0 .. n - 1, k \in T PROVE k + 1 \in T
  <2>1. k + 1 \in 1 .. n /\ (k + 1) - 1 = k /\ k + 1 \in 0 .. n /\ k \in Int
    BY <1>1
  <2> DEFINE m == Sv_Remove(l, Before(k))
  <2>2. g[k + 1] = CheckSlot(m, k, now) /\ k \in Slots
    BY <1>1, <1>3, <1>5, <2>1
  <2>3. Before(k) \in SUBSET Used(l) /\ k \notin Before(k)
    BY <1>1, <2>1
  <2>4. /\ m.servers[k] = l.servers[k] /\ m.last_used_slot = LastAfterAll(l, Before(k))
        /\ m.last_used_slot \in Int /\ m.last_used_slot <= l.last_used_slot
    <3>1. LastAfterAll(l, Before(k)) \in Int
      BY <2>3, RemovedSome, SlotsFinite
    <3> QED  BY <2>2, <2>3, <3>1, RemovedSome
  <2>5. k \in Dead(l, now) <=> TimedOut(m, k, now)
    BY <2>2, <2>4 DEF Dead, Used, TimedOut
  <2>6. k <= m.last_used_slot <=> k <= l.last_used_slot
    <3>1. CASE l.last_used_slot \notin Before(k)
      BY <2>4, <3>1 DEF LastAfterAll
    <3>2. CASE l.last_used_slot \in Before(k)
      <4>1. l.last_used_slot < k
        BY <3>2
      <4> HIDE DEF m
      <4> QED  BY <1>1, <2>1, <2>4, <4>1
    <3> QED  BY <3>1, <3>2
  <2>7. Before(k + 1) = IF k \in D THEN Before(k) \cup {k} ELSE Before(k)
    <3>1. ASSUME NEW i \in Slots PROVE i < k + 1 <=> i < k \/ i = k
      BY <1>1, <2>1
    <3> HIDE DEF D
    <3> QED  BY <1>1, <2>1, <3>1
  <2>8. CASE k \in D
    <3>1. g[k + 1] = RemoveSlot(m, k)
      BY <2>2, <2>5, <2>6, <2>8 DEF CheckSlot, AfterIsActive
    <3>2. k \in Used(l) \ Before(k)
      BY <1>1, <2>3, <2>8
    <3> HIDE DEF Before, D
    <3>3. RemoveSlot(m, k) = Sv_Remove(l, Before(k) \cup {k})
      BY <2>3, <3>2, RemoveAgain
    <3>4. g[k + 1] = Sv_Remove(l, Before(k + 1))
      BY <2>7, <2>8, <3>1, <3>3
    <3> QED  BY <2>1, <3>4
  <2>9. CASE k \notin D
    <3>1. g[k + 1] = m
      BY <2>2, <2>5, <2>6, <2>9 DEF CheckSlot, AfterIsActive
    <3> HIDE DEF Before, D
    <3>2. g[k + 1] = Sv_Remove(l, Before(k + 1))
      BY <2>7, <2>9, <3>1
    <3> QED  BY <2>1, <3>2
  <2> QED  BY <2>8, <2>9
<1>6. n \in T
  <2>1. 0 .. n \subseteq T
    <3> HIDE DEF T, n
    <3> QED  BY <1>1, <1>4, <1>5, BoundedInduction
  <2>2. n \in 0 .. n
    BY <1>1
  <2> QED  BY <2>1, <2>2
<1>7. Before(n) = D
  <2>1. \A i \in Slots : i < n
    BY SlotsFinite, ListAssumption
  <2> HIDE DEF D
  <2> QED  BY <1>1, <2>1
<1> QED  BY <1>3, <1>6, <1>7 DEF Sv_CheckTimeouts

(* The search of Sv_GetByAddr takes the lowest slot that is free.          *)
LEMMA AddIs ==
  ASSUME NEW l \in ServerList, Counted(l), l.first_free_slot # -1, NEW a, NEW now
  PROVE  AddByLoop(l, a, now) = AddServer(l, a, now)
<1> DEFINE slot == l.first_free_slot
           n == max_nb_servers - 1
           raised == [l EXCEPT !.last_used_slot = IF @ < slot THEN slot ELSE @, !.first_free_slot = -1]
           open == {i \in Slots \ Active(l, now) : i > slot}
           free == NextFree(l, now)
           found == [Sv_Remove(raised, {free} \cap Used(l)) EXCEPT !.first_free_slot = free]
<1>1. /\ slot \in Slots /\ slot \in Int /\ slot >= 0 /\ n \in Nat /\ Slots \in SUBSET Nat /\ Slots = 0 .. n
      /\ open \in SUBSET Slots
  BY SlotsFinite DEF ServerList
<1>2. /\ raised \in ServerList /\ raised \in LooseList /\ raised.servers = l.servers
      /\ raised.first_free_slot = -1 /\ Used(raised) = Used(l) /\ Counted(raised)
      /\ raised = [l EXCEPT !.last_used_slot = LastAfter(l), !.first_free_slot = -1]
  <2>1. (IF l.last_used_slot < slot THEN slot ELSE l.last_used_slot) \in Slots \cup {-1}
    BY <1>1 DEF ServerList
  <2>2. raised \in ServerList /\ raised.servers = l.servers /\ raised.nb_servers = l.nb_servers
    BY <2>1 DEF ServerList
  <2>3. Used(raised) = Used(l)
    BY <2>2 DEF Used
  <2>4. raised.first_free_slot = -1
    BY DEF ServerList
  <2>5. raised = [l EXCEPT !.last_used_slot = LastAfter(l), !.first_free_slot = -1]
    BY DEF LastAfter
  <2> HIDE DEF raised
  <2> QED  BY <2>2, <2>3, <2>4, <2>5, LooseLists DEF Counted
<1>3. free \in Slots \cup {-1} /\ (open = {} => free = -1) /\ (open # {} => free \in open)
  BY <1>1, LowestIs DEF NextFree
<1>4. ASSUME NEW i \in open, \A j \in open : i <= j PROVE free = i
  BY <1>1, <1>4, LowestUnique DEF NextFree
<1> HIDE DEF n, raised, free, slot
<1>5. PICK g \in SearchRun(raised, slot, now, LooseList) : TRUE
  <2>1. ASSUME NEW i \in 1 .. max_nb_servers - 1, NEW v \in LooseList PROVE SearchSlot(v, slot, i, now) \in LooseList
    <3>1. i \in Slots
      BY <1>1 DEF n
    <3>2. AfterIsActive(v, i, now) \in LooseList
      BY <3>1, RemoveSlotIs DEF AfterIsActive
    <3>3. \A m \in LooseList : [m EXCEPT !.first_free_slot = i] \in LooseList
      BY <3>1 DEF LooseList
    <3> QED  BY <3>2, <3>3 DEF SearchSlot
  <2>2. max_nb_servers - 1 \in Nat
    BY <1>1 DEF n
  <2> QED  BY <1>2, <2>1, <2>2, SearchRuns
<1>6. /\ g[0] = raised /\ \A i \in 1 .. n : g[i] = SearchSlot(g[i - 1], slot, i, now)
      /\ SearchNext(raised, slot, now) = g[n]
  BY <1>5 DEF SearchRun, n
<1> DEFINE Passed(k) == {i \in open : i <= k}
           T == {k \in 0 .. n : g[k] = IF Passed(k) = {} THEN raised ELSE found}
<1>7. 0 \in T
  <2>1. Passed(0) = {}
    <3>1. ASSUME NEW i \in open PROVE ~(i <= 0)
      <4>1. i \in Int /\ i > slot
        BY <1>1
      <4> QED  BY <1>1, <4>1
    <3> QED  BY <3>1
  <2> QED  BY <1>1, <1>6, <2>1
<1>8. ASSUME NEW k \in 0 .. n - 1, k \in T PROVE k + 1 \in T
  <2>1. k + 1 \in 1 .. n /\ (k + 1) - 1 = k /\ k + 1 \in 0 .. n /\ k \in Int /\ k + 1 \in Slots
    BY <1>1
  <2>2. g[k + 1] = SearchSlot(g[k], slot, k + 1, now)
    BY <1>6, <2>1
  <2>3. Passed(k) \subseteq Passed(k + 1) /\ (Passed(k + 1) = Passed(k) \/ k + 1 \in open)
    <3>1. ASSUME NEW i \in open PROVE i <= k + 1 <=> i <= k \/ i = k + 1
      BY <1>1, <2>1
    <3> HIDE DEF open
    <3> QED  BY <3>1
  <2>4. CASE Passed(k) # {}
    <3>1. free # -1
      <4>1. open # {}
        BY <2>4
      <4>2. free \in Nat
        BY <1>1, <1>3, <4>1
      <4> QED  BY <4>2
    <3>2. found.first_free_slot = free
      <4>1. {free} \cap Used(l) \in SUBSET Used(raised)
        BY <1>2
      <4>2. Sv_Remove(raised, {free} \cap Used(l)) \in ServerList
        BY <1>2, <4>1, RemovedSome
      <4> QED  BY <4>2 DEF ServerList
    <3> HIDE DEF Passed, found
    <3>3. g[k + 1] = found
      BY <1>8, <2>2, <2>4, <3>1, <3>2 DEF SearchSlot
    <3>4. Passed(k + 1) # {}
      BY <2>3, <2>4
    <3> QED  BY <2>1, <3>3, <3>4
  <2>5. CASE Passed(k) = {}
    <3>1. g[k + 1] = SearchSlot(raised, slot, k + 1, now)
      BY <1>8, <2>2, <2>5
    <3>2. k + 1 \in open <=> k + 1 > slot /\ (l.servers[k + 1].state = "unused_slot" \/ TimedOut(l, k + 1, now))
      BY <2>1 DEF Active, Dead, Used, TimedOut
    <3>3. TimedOut(raised, k + 1, now) <=> k + 1 \in Used(l) /\ TimedOut(l, k + 1, now)
      BY <1>2, <2>1 DEF Used, TimedOut
    <3>4. k + 1 > slot <=> ~(k + 1 <= slot)
      BY <1>1, <2>1
    <3>5. CASE k + 1 \notin open
      <4>1. g[k + 1] = raised
        BY <1>2, <3>1, <3>2, <3>3, <3>4, <3>5 DEF SearchSlot, TimedOut
      <4>2. Passed(k + 1) = {}
        BY <2>3, <2>5, <3>5
      <4> QED  BY <2>1, <4>1, <4>2
    <3>6. CASE k + 1 \in open
      <4>1. free = k + 1
        <5>1. ASSUME NEW j \in open PROVE k + 1 <= j
          <6>1. j \in Int /\ ~(j <= k)
            BY <1>1, <2>5
          <6> QED  BY <2>1, <6>1
        <5> QED  BY <1>4, <3>6, <5>1
      <4>2. g[k + 1] = [AfterIsActive(raised, k + 1, now) EXCEPT !.first_free_slot = k + 1]
        BY <1>2, <3>1, <3>2, <3>4, <3>6 DEF SearchSlot, TimedOut
      <4>3. AfterIsActive(raised, k + 1, now) = Sv_Remove(raised, {k + 1} \cap Used(l))
        <5>1. Sv_Remove(raised, {}) = raised
          BY DEF Sv_Remove
        <5>2. CASE k + 1 \in Used(l)
          <6>1. TimedOut(raised, k + 1, now)
            BY <3>2, <3>3, <3>6, <5>2 DEF Used
          <6>2. {} \in SUBSET Used(raised) /\ k + 1 \in Used(raised) \ {}
            BY <1>2, <5>2
          <6>3. RemoveSlot(Sv_Remove(raised, {}), k + 1) = Sv_Remove(raised, {} \cup {k + 1})
            BY <1>2, <6>2, RemoveAgain
          <6>4. {} \cup {k + 1} = {k + 1} \cap Used(l)
            BY <5>2
          <6> QED  BY <5>1, <6>1, <6>3, <6>4 DEF AfterIsActive
        <5>3. CASE k + 1 \notin Used(l)
          <6>1. {k + 1} \cap Used(l) = {} /\ ~TimedOut(raised, k + 1, now)
            BY <3>3, <5>3
          <6> QED  BY <5>1, <6>1 DEF AfterIsActive
        <5> QED  BY <5>2, <5>3
      <4>4. g[k + 1] = found
        BY <4>1, <4>2, <4>3
      <4>5. k + 1 \in Passed(k + 1)
        BY <2>1, <3>6
      <4> HIDE DEF Passed, found
      <4>6. g[k + 1] = IF Passed(k + 1) = {} THEN raised ELSE found
        BY <4>4, <4>5
      <4> QED  BY <2>1, <4>6
    <3> QED  BY <3>5, <3>6
  <2> QED  BY <2>4, <2>5
<1>9. g[n] = IF open = {} THEN raised ELSE found
  <2>1. 0 .. n \subseteq T
    <3> HIDE DEF T
    <3> QED  BY <1>1, <1>7, <1>8, BoundedInduction
  <2>2. n \in 0 .. n
    BY <1>1
  <2>3. Passed(n) = open
    <3>1. ASSUME NEW i \in open PROVE i <= n
      BY <1>1
    <3> HIDE DEF open
    <3> QED  BY <3>1
  <2> HIDE DEF Passed, found, open
  <2> QED  BY <2>1, <2>2, <2>3
<1>10. g[n] = found
  <2>1. CASE open = {}
    <3>1. {free} \cap Used(l) = {}
      <4>1. Used(l) \in SUBSET Nat /\ free = -1
        BY <1>1, <1>3, <2>1 DEF Used
      <4> QED  BY <4>1
    <3>2. Sv_Remove(raised, {free} \cap Used(l)) = raised
      BY <3>1 DEF Sv_Remove
    <3>3. [raised EXCEPT !.first_free_slot = -1] = raised
      BY <1>2 DEF ServerList
    <3> QED  BY <1>3, <1>9, <2>1, <3>2, <3>3
  <2>2. CASE open # {}
    BY <1>9, <2>2
  <2> QED  BY <2>1, <2>2
<1>11. AddByLoop(l, a, now) = [found EXCEPT !.servers[slot] = NewServer(a, now), !.nb_servers = @ + 1]
  <2> HIDE DEF found
  <2> QED  BY <1>6, <1>10 DEF AddByLoop, raised, slot
<1>12. AddServer(l, a, now) = [found EXCEPT !.servers[slot] = NewServer(a, now), !.nb_servers = @ + 1]
  <2>1. AddServer(l, a, now) = [Sv_Remove(raised, {free} \cap Used(l)) EXCEPT !.first_free_slot = free,
                                   !.servers[slot] = NewServer(a, now), !.nb_servers = @ + 1]
    BY <1>2 DEF AddServer, free, slot
  <2> QED  BY <2>1
<1> QED  BY <1>11, <1>12

(* The invariant is what the lemmas about the loops need.                  *)
LEMMA InvList == IInv => list \in ServerList /\ Counted(list)
BY DEF IInv, Good, ListInv

(* Sv_Remove of servers one after the other, in any order, is the removal  *)
(* of the set: neither last_used_slot nor the iteration nor the first free *)
(* slot tells the orders apart.                                            *)
THEOREM RemovalsAnyOrder == Spec => []RemovalsCommute
<1>1. ASSUME IInv, NEW R \in SUBSET Used(list), NEW order \in Bijection(1 .. Cardinality(R), R)
      PROVE  RemoveInOrder(list, order) = Sv_Remove(list, R)
  BY <1>1, InvList, UsedFinite, OrderIs
<1>2. IInv => RemovalsCommute
  BY <1>1 DEF RemovalsCommute
<1> QED BY <1>2, Inductive, PTL

(* Sv_CheckTimeouts passes every timed out server although a removal may   *)
(* lower the bound of the loop that is running.                            *)
THEOREM CheckTimeoutsComplete == Spec => []CheckTimeoutsAgree
<1>1. IInv => CheckTimeoutsAgree
  BY InvList, CheckTimeoutsIs DEF CheckTimeoutsAgree
<1> QED BY <1>1, Inductive, PTL

(* Sv_GetByAddr finds the lowest slot that is free or whose server timed   *)
(* out, and removes that server only.                                      *)
THEOREM AddFindsLowest == Spec => []AddAgrees
<1>1. IInv => AddAgrees
  BY InvList, AddIs DEF AddAgrees
<1> QED BY <1>1, Inductive, PTL
=============================================================================
