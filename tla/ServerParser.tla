---------------------------- MODULE ServerParser ----------------------------
(***************************************************************************)
(* The server list of the IWNet server: ServerParser.cs, which asks the    *)
(* game servers behind the sessions of MatchServer for their state, and    *)
(* the /servers page of HttpHandler.cs, which shows the answers.           *)
(*                                                                         *)
(* Three more threads join those of MatchServer: the parser thread, which  *)
(* runs ProcessServers once a minute; the callback QueryReceived, of which *)
(* one runs at a time, as it starts the next receive at its end; and the   *)
(* HTTP thread.  lock (Servers) is held by the page and by the callback    *)
(* while it stores a statusResponse, and by nobody else: a pong, the       *)
(* cleaner and the unregister handler change the dictionary without it.    *)
(***************************************************************************)
EXTENDS MatchServer

CONSTANT
  Answering  \* hosts whose game server can be reached and answers

ASSUME ParserAssumption == Answering \subseteq Host

VARIABLES
  pending,   \* PendingSessions, its keys; the value is the session of the key
  parser,    \* the parser thread; index is its place in the list of sessions,
             \* left what it has not asked of PendingSessions
  network,   \* queries ever sent: the answers can be late, lost or come again
  callback,  \* QueryReceived
  data,      \* the ServerData object last made for a host
  page       \* the HTTP thread: idle or between its two evaluations of the query

parserVars == <<pending, parser, network, callback, data, page>>
allVars == <<vars, parserVars>>

(* What the page reads of a ServerData.  GameData of a new one is null; a  *)
(* pong leaves it empty.                                                   *)
ServerData == [GameData : {"null", "empty", "full"}, Address : BOOLEAN]
AddressedServerData == [GameData |-> "null", Address |-> TRUE]   \* mutant: the commented-out Address of the pong
NewServerData == [GameData |-> "null", Address |-> FALSE]

Query == {"0hping", "getstatus"}

IdleParser == [at |-> "idle", index |-> 0, left |-> {}]

ParserInit ==
  /\ Init
  /\ pending = {}
  /\ parser = IdleParser
  /\ network = {}
  /\ callback = [at |-> "idle", from |-> NoHost]
  /\ data = [h \in Host |-> NewServerData]
  /\ page = [at |-> "idle", count |-> 0]

-----------------------------------------------------------------------------
(* ProcessServers.  The queries over the sessions are lazy: they are       *)
(* evaluated while the new PendingSessions is filled.                      *)

ParseBegin ==
  /\ parser.at = "idle"
  /\ pending' = {}
  /\ enumerating' = enumerating \cup {"parser"}
  /\ parser' = [IdleParser EXCEPT !.at = "queue", !.index = 1]
  /\ UNCHANGED <<sessions, sessionVars, lock, handler, cleaner, servers, network, callback, data, page>>

RoundKillsThread == parser' = [IdleParser EXCEPT !.at = "dead"]   \* mutant: no try in Run
RoundEnds == parser' = IdleParser

QueueStops == enumerating' = enumerating \ {"parser"}

(* A list that has changed ends the round before anybody is asked: Run     *)
(* logs the exception and goes on.                                         *)
Queue ==
  /\ parser.at = "queue"
  /\ IF "parser" \notin enumerating
     THEN RoundEnds /\ UNCHANGED <<pending, enumerating>>
     ELSE IF parser.index > Len(sessions)
     THEN parser' = [IdleParser EXCEPT !.at = "query", !.left = pending] /\ QueueStops /\ UNCHANGED pending
     ELSE LET s == sessions[parser.index]
          IN  /\ parser' = [parser EXCEPT !.index = @ + 1]
              /\ pending' = IF IsActive(s) THEN pending \cup {host[s]} ELSE pending
              /\ UNCHANGED enumerating
  /\ UNCHANGED <<sessions, sessionVars, lock, handler, cleaner, servers, network, callback, data, page>>

(* The pending sessions are asked one after the other.                     *)
StartQuery(h) ==
  /\ parser.at = "query"
  /\ h \in parser.left
  /\ network' = network \cup {<<"0hping", h>>}
  /\ parser' = [parser EXCEPT !.left = @ \ {h}]
  /\ UNCHANGED <<vars, pending, callback, data, page>>

QueryEnds ==
  /\ parser.at = "query"
  /\ parser.left = {}
  /\ parser' = IdleParser
  /\ UNCHANGED <<vars, pending, network, callback, data, page>>

(* Any other exception ends the round too: of the list of another playlist *)
(* that has changed, or of a send, which leaves the rest unasked.          *)
ParseFails ==
  /\ parser.at = "queue" \/ parser.left # {}
  /\ RoundEnds
  /\ QueueStops
  /\ UNCHANGED <<sessions, sessionVars, lock, handler, cleaner, servers, pending, network, callback, data, page>>

-----------------------------------------------------------------------------
(* QueryReceived                                                           *)

CallbackGoes(at) == callback' = [callback EXCEPT !.at = at]
CallbackEnds == callback' = [at |-> "idle", from |-> NoHost]

(* The answer of the game server of h to a query; a pong stands for one of *)
(* a server in game, the other pongs change nothing.  An answer of an      *)
(* address that is not pending is dropped.                                 *)
Answer == [query \in Query |-> IF query = "0hping" THEN "0hpong" ELSE "statusResponse"]

Received(h, query) ==
  /\ callback.at = "idle"
  /\ h \in Answering
  /\ <<query, h>> \in network
  /\ h \in pending
  /\ callback' = [at |-> Answer[query], from |-> h]
  /\ UNCHANGED <<vars, pending, parser, network, data, page>>

(* A pong: Servers.Add of a new object or the object that is there.        *)
PongEntry ==
  /\ callback.at = "0hpong"
  /\ IF callback.from \in servers
     THEN UNCHANGED <<servers, data>>
     ELSE /\ servers' = servers \cup {callback.from}
          /\ data' = [data EXCEPT ![callback.from] = NewServerData]
  /\ CallbackGoes("fill")
  /\ UNCHANGED <<sessions, sessionVars, lock, handler, cleaner, enumerating, pending, parser, network, page>>

PongFill ==
  /\ callback.at = "fill"
  /\ data' = [data EXCEPT ![callback.from].GameData = "empty"]
  /\ CallbackGoes("store")
  /\ UNCHANGED <<vars, pending, parser, network, page>>

(* Servers[obtainedEP] = info: an entry that was removed comes back.       *)
PongStore ==
  /\ callback.at = "store"
  /\ servers' = servers \cup {callback.from}
  /\ CallbackGoes("advanced")
  /\ UNCHANGED <<sessions, sessionVars, lock, handler, cleaner, enumerating, pending, parser, network, data, page>>

(* PendingSessions[obtainedEP] throws when a new round has begun.          *)
StartAdvancedQuery ==
  /\ callback.at = "advanced"
  /\ network' = IF callback.from \in pending THEN network \cup {<<"getstatus", callback.from>>} ELSE network
  /\ CallbackEnds
  /\ UNCHANGED <<vars, pending, parser, data, page>>

UnlockedStatus == TRUE   \* mutant: no lock (Servers) in QueryReceived
MayStore == page.at = "idle"

(* A statusResponse, under lock (Servers).  A removal of the entry between *)
(* the accesses acts like one before or after all of them.                 *)
StatusResponse ==
  /\ callback.at = "statusResponse"
  /\ MayStore
  /\ servers' = servers \cup {callback.from}
  /\ data' = [data EXCEPT ![callback.from] = [GameData |-> "full", Address |-> TRUE]]
  /\ CallbackEnds
  /\ UNCHANGED <<sessions, sessionVars, lock, handler, cleaner, enumerating, pending, parser, network, page>>

-----------------------------------------------------------------------------
(* HttpHandler.ProcessServers, with a filter that every server passes      *)

Shown == {h \in servers : data[h].Address /\ data[h].GameData = "full"}

(* servers.Count ()                                                        *)
PageCount ==
  /\ page.at = "idle"
  /\ page' = [at |-> "elements", count |-> Cardinality(Shown)]
  /\ UNCHANGED <<vars, pending, parser, network, callback, data>>

(* The elements evaluate the query again; an exception makes the page      *)
(* empty.                                                                  *)
PageElements ==
  /\ page.at = "elements"
  /\ page' = [at |-> "idle", count |-> 0]
  /\ UNCHANGED <<vars, pending, parser, network, callback, data>>

-----------------------------------------------------------------------------
ParserStep ==
  \/ ParseBegin
  \/ Queue
  \/ \E h \in Host : StartQuery(h)
  \/ QueryEnds
  \/ ParseFails
  \/ \E h \in Host, query \in Query : Received(h, query)
  \/ PongEntry
  \/ PongFill
  \/ PongStore
  \/ StartAdvancedQuery
  \/ StatusResponse
  \/ PageCount
  \/ PageElements

MatchStep == MatchNext /\ UNCHANGED parserVars

ParserNext == MatchStep \/ ParserStep

ParserSpec == ParserInit /\ [][ParserNext]_allVars

(* The thread of ProcessServers goes on; nothing else has to.              *)
FairParserSpec ==
  /\ ParserSpec
  /\ WF_allVars(ParseBegin)
  /\ WF_allVars(Queue)
  /\ \A h \in Host : WF_allVars(StartQuery(h))
  /\ WF_allVars(QueryEnds)

-----------------------------------------------------------------------------
(* The page reads GameData of every server with an address, without a test *)
(* for null: the address is set after the data, although pongs make and    *)
(* change the objects without the lock.                                    *)
NoNullRead == \A h \in Host : data[h].Address => data[h].GameData # "null"

(* Between its count and its elements the page gains no server: only a     *)
(* statusResponse makes one visible and waits for the lock.                *)
NoMoreThanCounted == page.at = "elements" => Cardinality(Shown) <= page.count

(* A server whose session stays in the list and active is asked for its    *)
(* state, although any number of rounds end with an exception and leave it *)
(* unasked; unless rounds end like this again and again, which a playlist  *)
(* with clients coming and going can bring about.                          *)
ParserDisturbed ==
  \/ ParseFails
  \/ Queue /\ parser'.at = "idle"

ActiveServerIsAsked ==
  \/ []<><<ParserDisturbed>>_allVars
  \/ \A s \in Session :
       s \in Listed /\ IsActive(s) ~>
         \/ s \in Listed /\ <<"0hping", host[s]>> \in network
         \/ s \notin Listed
         \/ ~IsActive(s)
=============================================================================
