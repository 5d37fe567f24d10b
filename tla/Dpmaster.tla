------------------------------ MODULE Dpmaster ------------------------------
(***************************************************************************)
(* The master server: the main loop of dpmaster.c and the message handlers *)
(* of messages.c over the list of module ServerList.                       *)
(*                                                                         *)
(* The program has one thread.  Each handler runs to its end before the    *)
(* next message is read, with crt_time fixed (it is set once per select).  *)
(* A handler is one step, except HandleGetServers: its loop over           *)
(* Sv_GetFirst / Sv_GetNext takes one step per slot, and nothing else      *)
(* happens while phase is "listing".                                       *)
(***************************************************************************)
EXTENDS ServerList, Sequences

CONSTANTS
  AcceptedGames,        \* the games for which Game_IsAccepted holds
  IPv6Host,             \* the hosts with an IPv6 address
  Request,              \* the getservers requests clients send
  InfoMessage,          \* the infoResponse messages servers send
  TIMEOUT_INFORESPONSE, \* seconds a server stays after a valid infoResponse
  TIMEOUT_CHALLENGE,    \* seconds a challenge is valid
  NoRequest,            \* no request is being answered
  MaxTime               \* bound: the clock stops there

(* "content" is the first check of HandleInfoResponse after the challenge  *)
(* that the message fails: the protocol number ("malformed"), shortversion *)
(* and apikey ("no_credentials"), or gametype, sv_maxclients, clients and  *)
(* gamename ("incomplete").                                                *)
Info == [challenge : Challenge,
         content : {"malformed", "no_credentials", "incomplete", "complete"},
         game : Game,
         state : InfoState]

ASSUME MasterAssumption ==
  /\ AcceptedGames \subseteq Game
  /\ IPv6Host \subseteq Host
  /\ Request \subseteq [game : Game, opt_empty : BOOLEAN, opt_full : BOOLEAN,
                        opt_ipv4 : BOOLEAN, opt_ipv6 : BOOLEAN]
  /\ InfoMessage \subseteq Info
  /\ NoRequest \notin Request
  /\ TIMEOUT_INFORESPONSE \in Nat
  /\ TIMEOUT_CHALLENGE \in Nat
  /\ MaxTime \in Nat

VARIABLES
  list,      \* the static variables of servers.c
  crt_time,  \* time of the last select, in seconds
  phase,     \* "idle": in select; "listing": in the loop of HandleGetServers; "crashed"
  request,   \* the request being answered
  listed     \* the entries put in the answer so far, in order

vars == <<list, crt_time, phase, request, listed>>

Init ==
  /\ list = Sv_Init
  /\ crt_time = 1
  /\ phase = "idle"
  /\ request = NoRequest
  /\ listed = <<>>

ListVars == <<phase, request, listed>>

-----------------------------------------------------------------------------
(* heartbeat                                                               *)

(* SendGetInfo makes a new challenge when the server has none that is      *)
(* still valid; an unexpired one is sent again.                            *)
ChallengeExpired(sv) == sv.challenge_timeout = 0 \/ sv.challenge_timeout < crt_time

GetInfoKeeps(l, i, c) ==   \* mutant: a heartbeat prolongs the stay of the server
  [l EXCEPT !.servers[i].timeout = crt_time + TIMEOUT_INFORESPONSE]
SendGetInfo(l, i, c) ==
  IF ChallengeExpired(l.servers[i])
  THEN [l EXCEPT !.servers[i].challenge = c,
                 !.servers[i].challenge_timeout = crt_time + TIMEOUT_CHALLENGE]
  ELSE l

(* Sv_GetByAddr(a, true) and SendGetInfo, for any heartbeat.               *)
Heartbeat(a) ==
  /\ phase = "idle"
  /\ \E gone \in WalkRemovals(list, a, crt_time), c \in Challenge :
       LET walked == Sv_Remove(list, gone)
           found == Sv_GetByAddr_Internal(list, a, crt_time)
           room == MakeRoom(walked, crt_time)
       IN  \/ \E i \in found : list' = SendGetInfo(walked, i, c)
           \/ /\ found = {}
              /\ ~MayAdd(walked, a)
              /\ list' = walked
           \/ /\ found = {}
              /\ MayAdd(walked, a)
              /\ room.nb_servers = max_nb_servers
              /\ list' = room
           \/ /\ found = {}
              /\ MayAdd(walked, a)
              /\ room.nb_servers < max_nb_servers
              /\ list' = SendGetInfo(AddServer(room, a, crt_time), room.first_free_slot, c)
  /\ UNCHANGED <<crt_time, ListVars>>

-----------------------------------------------------------------------------
(* infoResponse                                                            *)

AnsweredLate(sv, info) == sv.challenge = info.challenge   \* mutant: an old challenge will do
ChallengeAnswered(sv, info) == ~ChallengeExpired(sv) /\ sv.challenge = info.challenge

Accepted(l, i, info) ==
  LET saved == [l EXCEPT !.servers[i].state = info.state,
                         !.servers[i].game = info.game,
                         !.servers[i].timeout = crt_time + TIMEOUT_INFORESPONSE]
  IN  Sv_CheckTimeouts(saved, crt_time)   \* Sv_WriteInfo

HandleInfoResponse(l, i, info) ==
  IF ~ChallengeAnswered(l.servers[i], info) \/ info.content = "malformed" THEN l
  ELSE IF info.content = "no_credentials" THEN Sv_Remove(l, {i})
  ELSE IF info.content = "incomplete" \/ info.game \notin AcceptedGames THEN l
  ELSE Accepted(l, i, info)

InfoResponse(a, info) ==
  /\ phase = "idle"
  /\ \E gone \in WalkRemovals(list, a, crt_time) :
       LET walked == Sv_Remove(list, gone)
           found == Sv_GetByAddr_Internal(list, a, crt_time)
       IN  \/ \E i \in found : list' = HandleInfoResponse(walked, i, info)
           \/ /\ found = {}
              /\ list' = walked
  /\ UNCHANGED <<crt_time, ListVars>>

(* The URL of the API key is printed through a pointer that was never set: *)
(* for a message that gets there, the program may also end.                *)
InfoResponseFaults(a, info) ==
  /\ phase = "idle"
  /\ info.content \in {"incomplete", "complete"}
  /\ \E i \in Sv_GetByAddr_Internal(list, a, crt_time) : ChallengeAnswered(list.servers[i], info)
  /\ phase' = "crashed"
  /\ UNCHANGED <<list, crt_time, request, listed>>

-----------------------------------------------------------------------------
(* getservers and getserversExt                                            *)

Family(a, req) == IF HostOf(a) \in IPv6Host THEN req.opt_ipv6 ELSE req.opt_ipv4

Relevant(sv, req) ==
  /\ sv.state \in InfoState
  /\ sv.game = req.game
  /\ sv.state = "empty" => req.opt_empty
  /\ sv.state = "full" => req.opt_full
  /\ Family(sv.address, req)

(* What the packet holds for a server: its mapped address if it has one.   *)
Entry(sv) == [server |-> sv.address,
              sent |-> IF sv.addrmap # NoAddress THEN sv.addrmap ELSE sv.address]

(* Sv_IsActive on the slot the iteration is at, and the body of the loop.  *)
Visit(l, req, before) ==
  LET i == l.crt_server_ind
      sv == l.servers[i]
  IN  /\ list' = Sv_IsActive(l, crt_time)
      /\ listed' = IF i \in Active(l, crt_time) /\ Relevant(sv, req)
                   THEN Append(before, Entry(sv)) ELSE before

(* Sv_GetFirst returns NULL on an empty list; rand () % (last_used_slot+1) *)
(* is a division by zero when last_used_slot is -1 on a list that is not.  *)
GetServers(req) ==
  /\ phase = "idle"
  /\ req.game \in AcceptedGames
  /\ list.nb_servers > 0
  /\ \/ /\ list.last_used_slot = -1
        /\ phase' = "crashed"
        /\ UNCHANGED <<list, request, listed>>
     \/ /\ \E start \in 0 .. list.last_used_slot : Visit(Sv_GetFirst(list, start), req, <<>>)
        /\ phase' = "listing"
        /\ request' = req
  /\ UNCHANGED crt_time

Exhausted == list.crt_server_ind = list.last_server_ind

GetNext ==
  /\ phase = "listing"
  /\ ~Exhausted
  /\ Visit(Sv_GetNext(list), request, listed)
  /\ UNCHANGED <<crt_time, phase, request>>

SendAnswer ==
  /\ phase = "listing"
  /\ Exhausted
  /\ phase' = "idle"
  /\ request' = NoRequest
  /\ listed' = <<>>
  /\ UNCHANGED <<list, crt_time>>

-----------------------------------------------------------------------------
(* The main loop                                                           *)

(* SIGUSR1: Com_UpdateLogStatus reopens the log and prints the list.       *)
PrintServerList ==
  /\ phase = "idle"
  /\ list' = Sv_CheckTimeouts(list, crt_time)
  /\ UNCHANGED <<crt_time, ListVars>>

Tick ==
  /\ phase = "idle"
  /\ crt_time < MaxTime
  /\ crt_time' = crt_time + 1
  /\ UNCHANGED <<list, ListVars>>

(* Nothing is kept across a run of the program.                            *)
Restart ==
  /\ phase = "crashed"
  /\ list' = Sv_Init
  /\ phase' = "idle"
  /\ UNCHANGED <<crt_time, request, listed>>

Next ==
  \/ \E a \in Address : Heartbeat(a)
  \/ \E a \in Address, info \in InfoMessage : InfoResponse(a, info)
  \/ \E a \in Address, info \in InfoMessage : InfoResponseFaults(a, info)
  \/ \E req \in Request : GetServers(req)
  \/ GetNext
  \/ SendAnswer
  \/ PrintServerList
  \/ Tick
  \/ Restart

Spec == Init /\ [][Next]_vars

(* The loop of HandleGetServers waits for nothing.                         *)
FairSpec == Spec /\ WF_vars(GetNext) /\ WF_vars(SendAnswer)

-----------------------------------------------------------------------------
TypeOK ==
  /\ list \in ServerList
  /\ crt_time \in Nat
  /\ phase \in {"idle", "listing", "crashed"}
  /\ request \in Request \cup {NoRequest}
  /\ listed \in Seq([server : Address, sent : Address])

(* nb_servers, on which "list full" and "list empty" are decided, counts   *)
(* the used slots.                                                         *)
NbServersCounts == list.nb_servers = Cardinality(Used(list))

(* first_free_slot is the lowest unused slot, or -1 when all are used.     *)
FirstFreeIsLowest == list.first_free_slot = LowestOf(Slots \ Used(list))

(* A server has one slot, however its heartbeats interleave with timeouts. *)
OneSlotPerAddress == \A a \in Address : Cardinality(Servers(list, a)) <= 1

(* No public address has more servers than max_per_address, timed out ones *)
(* included (Sv_GetByAddr: "max number of servers reached").               *)
QuotaRespected ==
  max_per_address > 0 /\ ~hash_ports =>
    \A h \in Host :
      Cardinality({i \in Used(list) : HostOf(list.servers[i].address) = h}) <= max_per_address

(* The asserts of Sv_GetByAddr on a full list (servers.c:795, 796).        *)
FullListEnds ==
  list.nb_servers = max_nb_servers =>
    list.last_used_slot = max_nb_servers - 1 /\ list.first_free_slot = -1

(* A server that is listed answered a challenge while it was valid, and no *)
(* longer than TIMEOUT_INFORESPONSE ago counted from that challenge.       *)
AnsweredInTime ==
  \A i \in Used(list) :
    list.servers[i].state \in InfoState =>
      /\ list.servers[i].challenge \in Challenge
      /\ list.servers[i].timeout <= list.servers[i].challenge_timeout + TIMEOUT_INFORESPONSE

(* An answer names each server once, and only servers that are still in    *)
(* the list and have not timed out when the answer is sent.                *)
ListedOnceAndLive ==
  phase = "listing" =>
    /\ \A m, n \in 1 .. Len(listed) : listed[m].server = listed[n].server => m = n
    /\ \A n \in 1 .. Len(listed) :
         \E i \in Servers(list, listed[n].server) :
           i \in Active(list, crt_time) /\ Relevant(list.servers[i], request)

(* The remainder in Sv_GetNext is never taken modulo zero: when removals   *)
(* empty the list, the clamps of Sv_Remove end the iteration.              *)
GetNextDefined == phase = "listing" /\ ~Exhausted => list.last_used_slot >= 0

(* The iteration ends although Sv_Remove moves both its ends.              *)
ListingEnds == phase = "listing" ~> phase = "idle"

(* assert (sv_ind <= last_used_slot), servers.c:179, and "used to speed up *)
(* the server allocation": no used slot lies above last_used_slot.         *)
LastUsedSlotIsLast == \A i \in Used(list) : i <= list.last_used_slot
=============================================================================
