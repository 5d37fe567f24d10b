----------------------------- MODULE GameServer -----------------------------
(***************************************************************************)
(* A dedicated server (PatchMW2Dedicated.cpp, PatchMW2Status.cpp) and the  *)
(* master server of module Dpmaster: the heartbeats of the one, the        *)
(* getinfo of the other and the infoResponse to it.                        *)
(*                                                                         *)
(* Both programs have one thread for this; what they send is in "network"  *)
(* until it is received, in any order.  No message is lost: a server must  *)
(* be known at least then.  One clock serves both: svs_time is crt_time.   *)
(***************************************************************************)
EXTENDS Dpmaster

CONSTANTS
  Self,           \* the address of the game server, a member of Address
  HEARTBEAT_MSEC  \* time between two heartbeats, at least 1

VARIABLES
  game,     \* the game server: svs_nextHeartbeatTime, masterServerName, adr
  network   \* messages on their way

allVars == <<vars, game, network>>

MasterVars == vars

StartGame ==
  /\ Init
  /\ game = [up |-> TRUE, svs_nextHeartbeatTime |-> 0, named |-> TRUE, resolved |-> FALSE]
  /\ network = {}

-----------------------------------------------------------------------------
(* The game server                                                         *)

Due(g) == crt_time >= g.svs_nextHeartbeatTime
Waiting(g) == [g EXCEPT !.svs_nextHeartbeatTime = crt_time + HEARTBEAT_MSEC]

(* Whether SV_MasterHeartbeat gets to send; the name is resolved once, and *)
(* cleared when NET_StringToAdr does not know it.                          *)
Sends(g, known) == Due(g) /\ g.named /\ (g.resolved \/ known)

SV_MasterHeartbeat(g, known) ==
  IF ~Due(g) THEN g
  ELSE IF Sends(g, known) THEN [Waiting(g) EXCEPT !.resolved = TRUE]
  ELSE [Waiting(g) EXCEPT !.named = FALSE]

HeartbeatMessage(copy) == [type |-> "heartbeat", copy |-> copy]

Frame ==
  /\ game.up
  /\ Due(game)
  /\ \E known \in BOOLEAN :
       /\ game' = SV_MasterHeartbeat(game, known)
       /\ network' = network \cup (IF Sends(game, known) THEN {HeartbeatMessage(1)} ELSE {})
  /\ UNCHANGED MasterVars

SV_Heartbeat_f ==
  /\ game.up
  /\ game' = [game EXCEPT !.svs_nextHeartbeatTime = -9999]
  /\ UNCHANGED <<MasterVars, network>>

(* SV_MasterHeartbeat_OnKill: twice, whatever the time; then the game      *)
(* stops serving.                                                          *)
Kill ==
  /\ game.up
  /\ \E first, second \in BOOLEAN :
       LET now(g) == [g EXCEPT !.svs_nextHeartbeatTime = -9999]
           between == now(SV_MasterHeartbeat(now(game), first))
       IN  /\ game' = [SV_MasterHeartbeat(between, second) EXCEPT !.up = FALSE]
           /\ network' = network
                \cup (IF Sends(now(game), first) THEN {HeartbeatMessage(1)} ELSE {})
                \cup (IF Sends(between, second) THEN {HeartbeatMessage(2)} ELSE {})
  /\ UNCHANGED MasterVars

(* The game starts to serve again: the next heartbeat is still the one     *)
(* that Kill has set.                                                      *)
Start ==
  /\ ~game.up
  /\ game' = [game EXCEPT !.up = TRUE]
  /\ UNCHANGED <<MasterVars, network>>

(* masterServerName is set on the console; an address that was resolved    *)
(* before is kept.                                                         *)
SetMaster ==
  /\ ~game.named
  /\ game' = [game EXCEPT !.named = TRUE]
  /\ UNCHANGED <<MasterVars, network>>

(* The keys of the infoResponse of HandleGetInfoOOB that are always there, *)
(* of those the master asks for.                                           *)
InfoKeys == {"challenge", "protocol", "shortversion", "sv_maxclients", "clients", "gamename"}

(* The first check of HandleInfoResponse that such a message fails.        *)
Content ==
  IF "protocol" \notin InfoKeys THEN "malformed"
  ELSE IF ~({"shortversion", "apikey"} \subseteq InfoKeys) THEN "no_credentials"
  ELSE IF ~({"sv_maxclients", "clients"} \subseteq InfoKeys) THEN "incomplete"
  ELSE "complete"

HandleGetInfoOOB ==
  /\ game.up
  /\ \E m \in network, state \in InfoState, g \in Game :
       /\ m.type = "getinfo"
       /\ network' = (network \ {m}) \cup
            {[type |-> "infoResponse",
              info |-> [challenge |-> m.challenge, content |-> Content,
                        game |-> g, state |-> state]]}
  /\ UNCHANGED <<MasterVars, game>>

(* Nobody is there to answer.                                              *)
Unanswered ==
  /\ ~game.up
  /\ \E m \in network : m.type = "getinfo" /\ network' = network \ {m}
  /\ UNCHANGED <<MasterVars, game>>

-----------------------------------------------------------------------------
(* The master server                                                       *)

HeartbeatArrives ==
  /\ \E m \in network :
       /\ m.type = "heartbeat"
       /\ Heartbeat(Self)
       /\ network' = (network \ {m}) \cup
            {[type |-> "getinfo", challenge |-> list'.servers[i].challenge] : i \in Servers(list', Self)}
  /\ UNCHANGED game

InfoArrives ==
  /\ \E m \in network :
       /\ m.type = "infoResponse"
       /\ InfoResponse(Self, m.info)
       /\ network' = network \ {m}
  /\ UNCHANGED game

OtherMaster ==
  /\ \/ \E a \in Address \ {Self} : Heartbeat(a)
     \/ \E a \in Address \ {Self}, info \in InfoMessage : InfoResponse(a, info)
     \/ \E req \in Request : GetServers(req)
     \/ GetNext
     \/ SendAnswer
     \/ PrintServerList
  /\ UNCHANGED <<game, network>>

(* Messages take less than a unit of time, frames come more often.         *)
Elapse ==
  /\ network = {}
  /\ ~(game.up /\ Due(game))
  /\ Tick
  /\ UNCHANGED <<game, network>>

GameNext ==
  \/ Frame
  \/ SV_Heartbeat_f
  \/ Kill
  \/ Start
  \/ SetMaster
  \/ HandleGetInfoOOB
  \/ Unanswered
  \/ HeartbeatArrives
  \/ InfoArrives
  \/ OtherMaster
  \/ Elapse

(* Both programs run.  Whatever is sent is received although the master    *)
(* may be busy again and again with the requests of clients.               *)
GameSpec ==
  /\ StartGame
  /\ [][GameNext]_allVars
  /\ WF_allVars(Frame)
  /\ WF_allVars(HandleGetInfoOOB)
  /\ SF_allVars(HeartbeatArrives)
  /\ SF_allVars(InfoArrives)
  /\ WF_allVars(Elapse)
  /\ WF_allVars((GetNext \/ SendAnswer) /\ UNCHANGED <<game, network>>)

-----------------------------------------------------------------------------
(* A getservers request would find the server.                             *)
Visible ==
  \E i \in Servers(list, Self) :
    i \in Active(list, crt_time) /\ list.servers[i].state \in InfoState

(* "Send a message to the masters every few minutes to let it know we are  *)
(* alive" (PatchMW2Dedicated.cpp:1083): a server that keeps running, with  *)
(* a master it can reach and no message lost, is in the master's list at   *)
(* some time.                                                              *)
KnownAlive == [](game.up /\ game.named) => <>Visible
=============================================================================
