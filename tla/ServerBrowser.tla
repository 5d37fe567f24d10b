---------------------------- MODULE ServerBrowser ----------------------------
(***************************************************************************)
(* The list of servers the player of the client sees:                      *)
(* patch_mw2_serverlist.cpp.                                               *)
(*                                                                         *)
(* Everything runs in one thread of the game: a menu script or a command   *)
(* of the player, a packet that has arrived, and UI_DoServerRefresh once   *)
(* per frame.  Each is one step.  Packets of the master and answers of     *)
(* servers come late, in any order, or never.                              *)
(*                                                                         *)
(* Indices count from 1.  GetTickCount is abstracted to what it decides:   *)
(* whether a query is older than 500 ms, and whether nextDisplayRefresh    *)
(* and refreshtime have passed.  A ping is a rank, MaxPing for 500 ms and  *)
(* more; of the info of a server only whose it is matters.                 *)
(***************************************************************************)
EXTENDS AnswerPackets

CONSTANTS
  MAX_GLOBAL_SERVERS,  \* 512: the servers in the list, and the rows
  MAX_ADDRESSES,       \* 512, MAX_GLOBAL_SERVERS again: the additional servers
  MAX_PINGREQUESTS,    \* 32: the queries under way
  MaxPing,             \* rank of an answer after 500 ms
  Name,                \* the order of the host names of the servers
  Command,             \* the scripts and commands the player uses
  Typed,               \* the servers the player asks by hand ("ping")
  MasterList,          \* the lists of servers the master may answer with
  MaxCommands,         \* bound: the player gives no more commands
  MAX_SERVERSPERPACKET, \* 256: the entries read from one packet
  Garbled,             \* an address that other data has been written over
  NoServer

ASSUME BrowserAssumption ==
  /\ MAX_GLOBAL_SERVERS \in Nat \ {0}
  /\ MAX_ADDRESSES \in Nat \ {0}
  /\ MAX_PINGREQUESTS \in Nat \ {0}
  /\ MaxPing \in Nat \ {0}
  /\ Name \in [Server \cup {NoServer} -> Nat]
  /\ Command \subseteq {"RefreshServers", "RefreshFilter", "UpdateFilter", "ServerSort", "ping", "globalservers"}
  /\ Typed \subseteq Server
  /\ MasterList \subseteq Seq(Server)
  /\ \A entries \in MasterList : IsInjective(entries)
  /\ MaxCommands \in Nat
  /\ MAX_SERVERSPERPACKET \in Nat \ {0}
  /\ NoServer \notin Server /\ Garbled \notin Server \cup {NoServer}

Address == Server \cup {Garbled}
Index == 1 .. MAX_GLOBAL_SERVERS
Slot == 1 .. MAX_PINGREQUESTS

VARIABLES
  cls,        \* clientStatic_t: the servers the master named, and by which
              \* requests (history)
  pinglist,   \* cl_pinglist: the queries under way
  ui,         \* uiInfo.serverStatus: the rows the player sees, and the refresh
  network,    \* packets of the master that may still arrive
  commands    \* commands the player has given (bound)

browserVars == <<cls, pinglist, ui, network, commands>>

ServerInfo == [adr : Address \cup {NoServer}, visible : BOOLEAN, ping : -1 .. MaxPing, info : Server \cup {NoServer}]
PingRequest == [adr : Address \cup {NoServer}, expired : BOOLEAN, time : 0 .. MaxPing, info : Server \cup {NoServer}]

(* Static memory is zero: no server is visible, no query under way.        *)
BrowserInit ==
  /\ cls = [numglobalservers |-> 0,
            globalServers |-> [i \in Index |-> [adr |-> NoServer, visible |-> FALSE, ping |-> 0, info |-> NoServer]],
            additional |-> <<>>, masterNum |-> 0, requests |-> {}]
  /\ pinglist = [j \in Slot |-> [adr |-> NoServer, expired |-> FALSE, time |-> 0, info |-> NoServer]]
  /\ ui = [refreshActive |-> FALSE, shown |-> <<>>, unused |-> [i \in Index |-> 1], displayDue |-> TRUE, refreshDue |-> TRUE,
           sortKey |-> "ping", sortDir |-> FALSE]
  /\ network = {}
  /\ commands = 0

-----------------------------------------------------------------------------
(* The servers of the list                                                 *)

(* CL_InitServerInfo: the flag visible stays untouched.                    *)
CL_InitServerInfo(sv, a) == [sv EXCEPT !.adr = a, !.ping = -1, !.info = NoServer]

(* CL_SetServerInfoByAddress: every server of the address, listed or not.  *)
CL_SetServerInfoByAddress(servers, a, info, ping) ==
  [i \in Index |-> IF servers[i].adr = a
                   THEN [servers[i] EXCEPT !.info = info, !.ping = ping] ELSE servers[i]]

(* Without info (NULL) the old one is kept.                                *)
CL_ClearServerPing(servers, a) ==
  [i \in Index |-> IF servers[i].adr = a THEN [servers[i] EXCEPT !.ping = 0] ELSE servers[i]]

LAN_ResetPings(servers) == [i \in Index |-> [servers[i] EXCEPT !.ping = -1]]
LAN_MarkServersVisible(servers) == [i \in Index |-> [servers[i] EXCEPT !.visible = TRUE]]

Listed == {i \in Index : i <= cls.numglobalservers}

-----------------------------------------------------------------------------
(* The rows: displayServers                                                *)

SortKey(sv, key) == IF key = "ping" THEN sv.ping ELSE Name[sv.info]

(* LAN_CompareServers, for two indices: -1, 0 or 1.                        *)
LAN_CompareServers(servers, key, dir, m, n) ==
  LET upper == SortKey(servers[m], key)
      lower == SortKey(servers[n], key)
      res == IF upper < lower THEN -1 ELSE IF upper > lower THEN 1 ELSE 0
  IN  IF dir THEN -res ELSE res

BelowCompared(servers, u, num, at) ==   \* mutant: no offset++ after the loop
  LET mid == at.len \div 2
      res == LAN_CompareServers(servers, u.sortKey, u.sortDir, num, u.shown[at.offset + mid + 1])
      below == at.offset + IF res = 1 THEN mid ELSE 0
  IN  IF at.len = 0 THEN at
      ELSE [offset |-> IF res = 0 THEN at.offset + mid ELSE below,
            len |-> IF res = 0 \/ mid = 0 THEN 0 ELSE at.len - mid]

(* A turn of the loop of UI_BinaryServerInsertion, whose len is 0 here     *)
(* once the loop has ended: an equal row ends it, and so does a len of 1,  *)
(* after which the offset still moves below the last row compared.         *)
Halve(servers, u, num, at) ==
  LET mid == at.len \div 2
      res == LAN_CompareServers(servers, u.sortKey, u.sortDir, num, u.shown[at.offset + mid + 1])
      below == at.offset + IF res # 1 THEN 0 ELSE IF mid = 0 THEN 1 ELSE mid
  IN  IF at.len = 0 THEN at
      ELSE [offset |-> IF res = 0 THEN at.offset + mid ELSE below,
            len |-> IF res = 0 \/ mid = 0 THEN 0 ELSE at.len - mid]

(* The number of rows above the new one.                                   *)
InsertPosition(servers, u, num) ==
  Loop(LAMBDA at, i : Halve(servers, u, num, at), [offset |-> 0, len |-> Len(u.shown)], Len(u.shown)).offset

(* The rows from the new one on move up, and the last entry moved is the   *)
(* unused one behind the rows.  When it is the last of the array, it is    *)
(* written over what follows the array: numDisplayServers itself.          *)
UI_InsertServerIntoDisplayList(u, num, position) ==
  LET rows == InsertAt(u.shown, position + 1, num)
      behind == Head(u.unused)
  IN  IF Len(u.unused) > 1
      THEN [u EXCEPT !.shown = rows, !.unused = <<behind>> \o SubSeq(u.unused, 3, Len(u.unused))]
      ELSE [u EXCEPT !.shown = SubSeq(rows, 1, behind - 1), !.unused = SubSeq(rows, behind, Len(rows))]

UI_BinaryServerInsertion(servers, u, num) ==
  UI_InsertServerIntoDisplayList(u, num, InsertPosition(servers, u, num))

(* The body of the loop of UI_BuildServerDisplayList for server i.         *)
ShownAgain(servers, i) == servers   \* mutant: the server stays visible
DoneWith(servers, i) == [servers EXCEPT ![i].visible = FALSE]

Display(b, i) ==
  IF b.servers[i].visible /\ b.servers[i].ping > 0
  THEN [servers |-> DoneWith(b.servers, i), ui |-> UI_BinaryServerInsertion(b.servers, b.ui, i)]
  ELSE b

(* numDisplayServers = 0: the array keeps its entries.                     *)
NoRows(u) == [u EXCEPT !.shown = <<>>, !.unused = u.shown \o u.unused]

(* UI_BuildServerDisplayList, for a list and a browser of given content;   *)
(* force is 0, 1 or 2.                                                     *)
UI_BuildServerDisplayList(c, u, force) ==
  LET cleared == [servers |-> IF force = 1 THEN LAN_MarkServersVisible(c.globalServers) ELSE c.globalServers,
                  ui |-> IF force = 1 THEN NoRows(u) ELSE u]
      filled == Loop(Display, cleared, c.numglobalservers)
  IN  IF force = 0 /\ ~u.displayDue THEN [servers |-> c.globalServers, ui |-> u]
      ELSE IF c.numglobalservers = -1
      THEN [cleared EXCEPT !.ui = [NoRows(cleared.ui) EXCEPT !.displayDue = FALSE]]
      ELSE [filled EXCEPT !.ui.refreshDue = TRUE]

-----------------------------------------------------------------------------
(* The player                                                              *)

Give(command) ==
  /\ command \in Command
  /\ commands < MaxCommands
  /\ commands' = commands + 1

(* CL_GlobalServers_f, and the answer of the master.                       *)
Request == \E entries \in MasterList : network' = network \cup (ToSet(Packets(entries)) \X {commands})

(* RefreshServers: UI_StartServerRefresh(true), which sends the request,   *)
(* and UI_BuildServerDisplayList(true).                                    *)
RefreshServers ==
  /\ Give("RefreshServers")
  /\ cls' = [cls EXCEPT !.numglobalservers = -1, !.masterNum = 0,
                        !.globalServers = LAN_ResetPings(LAN_MarkServersVisible(@))]
  /\ ui' = [NoRows(ui) EXCEPT !.refreshActive = TRUE, !.displayDue = FALSE, !.refreshDue = FALSE]
  /\ Request
  /\ UNCHANGED pinglist

Rebuild(servers, u) ==
  LET built == UI_BuildServerDisplayList([cls EXCEPT !.globalServers = servers], u, 1)
  IN  /\ cls' = [cls EXCEPT !.globalServers = built.servers]
      /\ ui' = built.ui
      /\ UNCHANGED <<pinglist, network>>

(* UI_UpdatePendingPings and UI_BuildServerDisplayList(true).              *)
RefreshFilter ==
  /\ Give("RefreshFilter")
  /\ Rebuild(LAN_ResetPings(cls.globalServers), [ui EXCEPT !.refreshActive = TRUE, !.refreshDue = FALSE])

UpdateFilter ==
  /\ Give("UpdateFilter")
  /\ Rebuild(cls.globalServers, ui)

Ordered(servers, u) ==
  \A m, n \in DOMAIN u.shown :
    m < n => LAN_CompareServers(servers, u.sortKey, u.sortDir, u.shown[m], u.shown[n]) <= 0

(* A click on a column.  qsort leaves open how it orders equal rows.       *)
ServerSort(key) ==
  /\ Give("ServerSort")
  /\ LET turned == [ui EXCEPT !.sortKey = key, !.sortDir = IF key = ui.sortKey THEN ~ui.sortDir ELSE ui.sortDir]
     IN  \E rows \in SetToSeqs(ToSet(ui.shown)) :
           /\ Ordered(cls.globalServers, [turned EXCEPT !.shown = rows])
           /\ ui' = [turned EXCEPT !.shown = rows]
  /\ UNCHANGED <<cls, pinglist, network>>

Keeping(a, slot) == [slot EXCEPT !.adr = a, !.expired = FALSE]   \* mutant: pingptr->time is not reset
Query(a, slot) == [slot EXCEPT !.adr = a, !.expired = FALSE, !.time = 0]

(* CL_GetFreePing: the first slot whose query is over, or the oldest.      *)
Reusable(slot) ==
  slot.adr # NoServer => (slot.time = 0 /\ slot.expired) \/ slot.time = MaxPing
FreePing ==
  LET reusable == {j \in Slot : Reusable(pinglist[j])}
  IN  IF reusable = {} THEN Slot ELSE {CHOOSE j \in reusable : \A k \in reusable : j <= k}

(* CL_Ping_f: the console command "ping".                                  *)
Ping(a) ==
  /\ Give("ping")
  /\ \E j \in FreePing : pinglist' = [pinglist EXCEPT ![j] = Query(a, @)]
  /\ cls' = [cls EXCEPT !.globalServers = CL_ClearServerPing(@, a)]
  /\ UNCHANGED <<ui, network>>

(* The console command "globalservers <master> <protocol>": only the       *)
(* request, and the number is kept.                                        *)
GlobalServers(masterNum) ==
  /\ Give("globalservers")
  /\ cls' = [cls EXCEPT !.numglobalservers = -1, !.masterNum = masterNum]
  /\ Request
  /\ UNCHANGED <<pinglist, ui>>

-----------------------------------------------------------------------------
(* Packets                                                                 *)

Unbounded(n, m) == n   \* mutant: the list has no end
AtMost(n, m) == IF n < m THEN n ELSE m

FirstOf(n, entries) == IF Len(entries) <= n THEN entries ELSE SubSeq(entries, 1, n)

(* What is read back from globalServerAddresses.  The entry behind its end *)
(* lies over pingUpdateSource, which is zeroed before the next read, and   *)
(* over masterNum, and the entries after it over other data.               *)
ReadBack(entries) ==
  {[k \in DOMAIN entries |-> IF k = MAX_ADDRESSES + 1 \/ k \in lost THEN Garbled ELSE entries[k]] :
     lost \in SUBSET (MAX_ADDRESSES + 2 .. Len(entries))}

(* CL_ServersResponsePacket.  What does not fit in the list is kept as an  *)
(* additional address; whether there is room is asked once per packet.     *)
ServersResponse(p) ==
  /\ p \in network
  /\ LET first == cls.numglobalservers = -1
         old == IF first THEN 0 ELSE cls.numglobalservers
         kept == IF first THEN <<>> ELSE cls.additional
         named == FirstOf(MAX_SERVERSPERPACKET, Parsed(p[1]))
         count == AtMost(old + Len(named), MAX_GLOBAL_SERVERS)
         room == cls.masterNum = 0 /\ Len(kept) < MAX_ADDRESSES
         more == IF room THEN kept \o SubSeq(named, count - old + 1, Len(named)) ELSE kept
     IN  \E additional \in ReadBack(more) :
           cls' = [numglobalservers |-> count,
                   globalServers |-> [i \in Index |->
                     IF i \in old + 1 .. count THEN CL_InitServerInfo(cls.globalServers[i], named[i - old])
                     ELSE cls.globalServers[i]],
                   additional |-> additional,
                   masterNum |-> IF Len(more) > MAX_ADDRESSES THEN 1 ELSE cls.masterNum,
                   requests |-> (IF first THEN {} ELSE cls.requests) \cup {p[2]}]
  /\ network' = network \ {p}
  /\ UNCHANGED <<pinglist, ui, commands>>

(* CL_ServerInfoPacket: the first query of the address without an answer.  *)
ServerInfoPacket(a) ==
  \E j \in Slot, time \in 1 .. MaxPing :
    /\ pinglist[j].adr = a /\ pinglist[j].time = 0
    /\ \A k \in 1 .. j - 1 : pinglist[k].adr # a \/ pinglist[k].time # 0
    /\ time = MaxPing <=> pinglist[j].expired
    /\ pinglist' = [pinglist EXCEPT ![j].time = time, ![j].info = a]
    /\ cls' = [cls EXCEPT !.globalServers = CL_SetServerInfoByAddress(@, a, a, time)]
    /\ UNCHANGED <<ui, network, commands>>

-----------------------------------------------------------------------------
(* UI_DoServerRefresh                                                      *)

QueueCount(pings) == Cardinality({j \in Slot : pings[j].adr # NoServer})

(* The body of the first loop of CL_UpdateVisiblePings_f for server i.     *)
NotOnTheList(u, sv) == \A j \in Slot : u.pings[j].adr # sv.adr

Lost(u, sv) == sv.ping = 0

Ask(u, i) ==
  LET sv == u.cls.globalServers[i]
      free == CHOOSE j \in 1 .. MAX_PINGREQUESTS + 1 :
                /\ j \in Slot => u.pings[j].adr = NoServer
                /\ \A k \in 1 .. j - 1 : u.pings[k].adr # NoServer
  IN  IF u.full \/ ~sv.visible THEN u
      ELSE IF sv.ping = -1 THEN
        IF u.slots >= MAX_PINGREQUESTS THEN [u EXCEPT !.full = TRUE]
        ELSE IF NotOnTheList(u, sv)
        THEN [u EXCEPT !.pings = [j \in Slot \cup {free} |->
                                     IF j = free THEN Query(sv.adr, u.pings[j]) ELSE u.pings[j]],
                       !.slots = u.slots + 1, !.status = TRUE]
        ELSE u
      ELSE IF Lost(u, sv) /\ u.cls.additional # <<>>
      THEN [u EXCEPT !.cls.globalServers[i] = CL_InitServerInfo(sv, Last(u.cls.additional)),
                     !.cls.additional = Front(u.cls.additional)]
      ELSE u

Answered(slot) == slot.time # 0   \* mutant: queries do not time out
Over(slot) == slot.time # 0 \/ slot.expired

(* The body of the second loop: CL_GetPing and CL_ClearPing.               *)
Collect(u, j) ==
  LET slot == u.pings[j]
  IN  IF slot.adr = NoServer THEN u
      ELSE [u EXCEPT !.cls.globalServers = CL_SetServerInfoByAddress(@, slot.adr, slot.info, slot.time),
                     !.pings[j].adr = IF Over(slot) THEN NoServer ELSE slot.adr,
                     !.status = u.status \/ Over(slot)]

(* CL_UpdateVisiblePings_f: its first loop and its second.                 *)
AskServers ==
  LET slots == QueueCount(pinglist)
      start == [cls |-> cls, pings |-> pinglist, slots |-> slots, full |-> slots = MAX_PINGREQUESTS, status |-> FALSE]
  IN  Loop(Ask, start, cls.numglobalservers)

ForgetQueries(asked) == Loop(Collect, asked, MAX_PINGREQUESTS)   \* mutant: queries under way do not count
CollectAnswers(asked) ==
  Loop(Collect, [asked EXCEPT !.status = asked.status \/ asked.slots > 0], MAX_PINGREQUESTS)

(* While the master has not answered nothing ends; the answers of servers  *)
(* are collected once refreshtime has passed.                              *)
DoServerRefresh ==
  /\ ui.refreshActive
  /\ cls.numglobalservers = -1 => ui.refreshDue
  /\ \E asked \in {AskServers} : \E updated \in {CollectAnswers(asked)} :
       LET ends == ~updated.status /\ cls.numglobalservers # -1
           refreshing == IF updated.status THEN [ui EXCEPT !.refreshDue = FALSE] ELSE ui
       IN  \E last \in {UI_BuildServerDisplayList(updated.cls, refreshing, IF ends THEN 2 ELSE 0)} :
             /\ cls' = [updated.cls EXCEPT !.globalServers = last.servers]
             /\ pinglist' = updated.pings
             /\ ui' = [last.ui EXCEPT !.refreshActive = ~ends]
  /\ UNCHANGED <<network, commands>>

-----------------------------------------------------------------------------
(* Time                                                                    *)

QueryExpires(j) ==
  /\ pinglist[j].adr # NoServer /\ pinglist[j].time = 0 /\ ~pinglist[j].expired
  /\ pinglist' = [pinglist EXCEPT ![j].expired = TRUE]
  /\ UNCHANGED <<cls, ui, network, commands>>

DisplayDue ==
  /\ ~ui.displayDue
  /\ ui' = [ui EXCEPT !.displayDue = TRUE]
  /\ UNCHANGED <<cls, pinglist, network, commands>>

RefreshDue ==
  /\ ~ui.refreshDue
  /\ ui' = [ui EXCEPT !.refreshDue = TRUE]
  /\ UNCHANGED <<cls, pinglist, network, commands>>

Player ==
  \/ RefreshServers
  \/ RefreshFilter
  \/ UpdateFilter
  \/ \E key \in {"ping", "host"} : ServerSort(key)
  \/ \E a \in Typed : Ping(a)
  \/ \E masterNum \in {0, 1} : GlobalServers(masterNum)

BrowserNext ==
  \/ Player
  \/ \E p \in network : ServersResponse(p)
  \/ \E a \in Server : ServerInfoPacket(a)
  \/ DoServerRefresh
  \/ \E j \in Slot : QueryExpires(j)
  \/ DisplayDue
  \/ RefreshDue

BrowserSpec == BrowserInit /\ [][BrowserNext]_browserVars

(* UI_DoServerRefresh runs in every frame, and time passes.                *)
FairBrowserSpec ==
  /\ BrowserSpec
  /\ WF_browserVars(DoServerRefresh)
  /\ \A j \in Slot : WF_browserVars(QueryExpires(j))
  /\ WF_browserVars(RefreshDue)

-----------------------------------------------------------------------------
(* No query is written past the end of cl_pinglist.  Past the end of       *)
(* displayServers only the counter behind it is written, so the array is   *)
(* never full of rows; past the end of globalServerAddresses fewer entries *)
(* than those of one packet.                                               *)
BrowserTypeOK ==
  /\ cls.numglobalservers \in -1 .. MAX_GLOBAL_SERVERS
  /\ cls.globalServers \in [Index -> ServerInfo]
  /\ Len(cls.additional) < MAX_ADDRESSES + MAX_SERVERSPERPACKET
  /\ pinglist \in [Slot -> PingRequest]
  /\ Len(ui.shown) < MAX_GLOBAL_SERVERS
  /\ ui.unused \in Seq(Index) /\ Len(ui.shown) + Len(ui.unused) = MAX_GLOBAL_SERVERS

(* When all packets in the list answer one request, a server is one row at *)
(* most, whatever refreshes, new filters, late answers and replacements of *)
(* lost servers come between.  Packets of two requests repeat servers.     *)
OneRowPerServer ==
  Cardinality(cls.requests) <= 1 =>
    \A m, n \in DOMAIN ui.shown :
      m # n /\ {ui.shown[m], ui.shown[n]} \subseteq Listed =>
        cls.globalServers[ui.shown[m]].adr # cls.globalServers[ui.shown[n]].adr

(* A server with a ping carries its own info, although the slot of a query *)
(* still holds the info of the server that was asked with it before.       *)
InfoIsOwn ==
  \A i \in Listed : LET sv == cls.globalServers[i] IN sv.ping > 0 => sv.info = sv.adr

(* The search of UI_BinaryServerInsertion needs sorted rows: rows that are *)
(* in order by the present pings are in order after every step.            *)
InsertionKeepsOrder ==
  [][Ordered(cls'.globalServers, [ui' EXCEPT !.shown = ui.shown]) => Ordered(cls'.globalServers, ui')]_browserVars

(* When the refresh stops, every visible server has been asked and has not *)
(* answered in time, except one put in place of a lost one in this frame.  *)
Stops == ui.refreshActive /\ ~ui'.refreshActive
Replaced(i) == cls.globalServers[i].ping = 0 /\ cls'.additional # cls.additional
NoneForgotten ==
  [][Stops => \A i \in Listed : cls'.globalServers[i].visible =>
                cls'.globalServers[i].ping = 0 \/ Replaced(i)]_browserVars

(* Once the master has answered, the refresh ends, whatever servers answer *)
(* and however many take the place of lost ones.                           *)
RefreshEnds ==
  ui.refreshActive /\ cls.numglobalservers >= 0 ~> ~ui.refreshActive \/ cls.numglobalservers = -1

=============================================================================
