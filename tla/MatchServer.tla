----------------------------- MODULE MatchServer -----------------------------
(***************************************************************************)
(* The sessions of one playlist of the IWNet server: MatchServer.cs and    *)
(* the handlers of IWNet/Matchmaking.                                      *)
(*                                                                         *)
(* Two threads work on the list Sessions: the thread of the UdpServer of   *)
(* the playlist, which handles one packet after the other, and the main    *)
(* thread, which runs CleanMyOldMessySessions every five seconds.  Some    *)
(* of them hold lock (server.Sessions), most do not.  A step is one access *)
(* to the list: a LINQ query that is evaluated, an Add, one half of a      *)
(* Remove (IndexOf, then RemoveAt).  Single calls of List<T> are atomic    *)
(* here, except that an enumeration fails when the list changes under it.  *)
(*                                                                         *)
(* A session is an object that a thread may still hold when it is no       *)
(* longer in the list, so sessions have an identity; one that is neither   *)
(* listed nor held stands for a new object.  Times are ages in             *)
(* whole minutes; the tests are for 60, 120 and 180 seconds, and no test   *)
(* tells ages above MaxAge apart.                                          *)
(***************************************************************************)
EXTENDS Integers, SequencesExt

CONSTANTS
  Host,       \* XUIDs of the clients; a host has one external address
  Session,    \* bound: the MatchSession objects at one time
  Country,    \* GeoIP country of a host
  Unclean,    \* hosts whose sessions are marked unclean
  Command,    \* the commands clients send
  MaxLocal,   \* 20: sessions of the client's own country in an answer
  MaxAnswer,  \* 50: sessions in an answer
  MaxUnclean, \* 19: sessions in the answer to an unclean client
  NoHost, NoSession

ASSUME MatchAssumption ==
  /\ NoHost \notin Host
  /\ NoSession \notin Session
  /\ DOMAIN Country = Host
  /\ Unclean \subseteq Host
  /\ Command \subseteq {"register", "keepalive", "update", "unregister", "list"}
  /\ MaxLocal \in Nat /\ MaxAnswer \in Nat /\ MaxLocal <= MaxAnswer
  /\ MaxUnclean \in Nat /\ MaxUnclean <= MaxAnswer

MaxAge == 4

VARIABLES
  sessions,  \* Sessions, the list
  host,      \* HostXUID of every session, NoHost for one not made yet
  age,       \* time since LastTouched
  kept,      \* whether LastTouched was last set by a keep-alive (history)
  lock,      \* who holds lock (server.Sessions)
  handler,   \* the thread of the UdpServer
  cleaner,   \* the main thread
  enumerating,  \* the threads with an enumerator of the list that is still valid
  servers    \* the hosts whose address is a key of ServerParser.Servers

vars == <<sessions, host, age, kept, lock, handler, cleaner, enumerating, servers>>
sessionVars == <<host, age, kept>>

IdleHandler == [at |-> "idle", command |-> "keepalive", from |-> NoHost, session |-> NoSession,
                index |-> 0, unclean |-> FALSE, remaining |-> 0, count |-> 0, written |-> 0]

IdleCleaner == [at |-> "idle", dead |-> <<>>, index |-> 0]

Init ==
  /\ sessions = <<>>
  /\ host = [s \in Session |-> NoHost]
  /\ age = [s \in Session |-> 0]
  /\ kept = [s \in Session |-> FALSE]
  /\ lock = "free"
  /\ handler = IdleHandler
  /\ cleaner = IdleCleaner
  /\ enumerating = {}
  /\ servers = {}

Listed == ToSet(sessions)

(* Threads whose enumeration of the list spans several steps; it fails     *)
(* when the list changes meanwhile.                                        *)
Enumerator == {"cleaner", "parser"}

Fresh(s) == age[s] < 1      \* TotalSeconds < 60
IsActive(s) == age[s] <= 2  \* TotalSeconds <= 120
Expired(s) == age[s] > 3    \* TotalSeconds > 180

(* from session in server.Sessions where session.HostXUID == client.XUID:  *)
(* the places of these sessions.                                           *)
ActiveByHost(h) ==   \* mutant: the query of server_PacketReceived
  {i \in DOMAIN sessions : host[sessions[i]] = h /\ age[sessions[i]] < 2}
ByHost(h) == {i \in DOMAIN sessions : host[sessions[i]] = h}

Unlocked(who) == who = "handler" \/ lock = "free"   \* mutant: no lock in the handlers
MayLock(who) == lock = "free"

Unreleased(who) == UNCHANGED lock   \* mutant: no finally around the body of the lock
Release(who) == lock' = "free"

-----------------------------------------------------------------------------
(* The thread of the UdpServer                                             *)

(* server_PacketReceived up to the choice of the handler.  Packets of      *)
(* clients it returns early for, and the host request, whose challenge is  *)
(* only compared for the log, change no session.                           *)
Receive(h, command) ==
  /\ handler.at = "idle"
  /\ handler' = [IdleHandler EXCEPT !.command = command, !.from = h,
                   !.at = IF command \in {"keepalive", "list"} THEN "lock" ELSE "count"]
  /\ UNCHANGED <<sessions, sessionVars, lock, cleaner, enumerating, servers>>

HandlerGoes(at) == handler' = [handler EXCEPT !.at = at]

(* An exception in a handler is logged by UdpServer.Run.                   *)
HandlerFails == handler' = IdleHandler

(* The queries of the handlers that do not lock can run into a RemoveAt    *)
(* of the cleaner.                                                         *)
EnumerationFails ==
  /\ handler.at \in {"count", "first"}
  /\ cleaner.at = "removeAt"
  /\ HandlerFails
  /\ UNCHANGED <<sessions, sessionVars, lock, cleaner, enumerating, servers>>

(* sessions.Count () > 0                                                   *)
Count ==
  /\ handler.at = "count"
  /\ IF ByHost(handler.from) # {} THEN HandlerGoes("first")
     ELSE IF handler.command = "register" THEN HandlerGoes("add")
     ELSE HandlerFails
  /\ UNCHANGED <<sessions, sessionVars, lock, cleaner, enumerating, servers>>

Found(s) ==
  handler' = [handler EXCEPT !.session = s,
                             !.at = IF handler.command = "unregister" THEN "indexOf" ELSE "touch"]

FirstOrDefault ==   \* mutant: null when the query is empty
  /\ handler.at = "first"
  /\ LET found == ByHost(handler.from)
     IN  IF found = {} THEN Found(NoSession) ELSE Found(sessions[Min(found)])
  /\ UNCHANGED <<sessions, sessionVars, lock, cleaner, enumerating, servers>>

(* sessions.First () evaluates the query again and throws when it is empty.*)
First ==
  /\ handler.at = "first"
  /\ LET found == ByHost(handler.from)
     IN  IF found = {} THEN HandlerFails ELSE Found(sessions[Min(found)])
  /\ UNCHANGED <<sessions, sessionVars, lock, cleaner, enumerating, servers>>

(* Register and update: new data for the session that was found.           *)
Touch ==
  /\ handler.at = "touch"
  /\ age' = [age EXCEPT ![handler.session] = 0]
  /\ kept' = [kept EXCEPT ![handler.session] = FALSE]
  /\ handler' = IdleHandler
  /\ UNCHANGED <<sessions, host, lock, cleaner, enumerating, servers>>

Held == ToSet(cleaner.dead) \cup {handler.session}

(* Register: a new session.  Read has set LastTouched.  A host that is not *)
(* allowed gets none.                                                      *)
Add(s) ==
  /\ handler.at = "add"
  /\ s \notin Listed \cup Held
  /\ sessions' = Append(sessions, s)
  /\ host' = [host EXCEPT ![s] = handler.from]
  /\ age' = [age EXCEPT ![s] = 0]
  /\ kept' = [kept EXCEPT ![s] = FALSE]
  /\ enumerating' = {}
  /\ handler' = IdleHandler
  /\ UNCHANGED <<lock, cleaner, servers>>

NotAllowed ==
  /\ handler.at = "add"
  /\ handler' = IdleHandler
  /\ UNCHANGED <<sessions, sessionVars, lock, cleaner, enumerating, servers>>

(* Unregister: Sessions.Remove, then ServerParser.Servers.Remove.          *)
IndexOf ==
  /\ handler.at = "indexOf"
  /\ handler' = IF handler.session \in Listed
                THEN [handler EXCEPT !.index = CHOOSE i \in DOMAIN sessions : sessions[i] = handler.session,
                                     !.at = "removeAt"]
                ELSE [handler EXCEPT !.at = "forget"]
  /\ UNCHANGED <<sessions, sessionVars, lock, cleaner, enumerating, servers>>

RemoveSession ==
  /\ handler.at = "removeAt"
  /\ IF handler.index \in DOMAIN sessions
     THEN /\ sessions' = RemoveAt(sessions, handler.index)
          /\ enumerating' = {}
          /\ HandlerGoes("forget")
     ELSE HandlerFails /\ UNCHANGED <<sessions, enumerating>>
  /\ UNCHANGED <<sessionVars, lock, cleaner, servers>>

Forget ==
  /\ handler.at = "forget"
  /\ servers' = servers \ {host[handler.session]}
  /\ handler' = IdleHandler
  /\ UNCHANGED <<sessions, sessionVars, lock, cleaner, enumerating>>

(* MatchDummyHandler: all of it under the lock.                            *)
KeepAlive ==
  /\ handler.at = "lock" /\ handler.command = "keepalive"
  /\ MayLock("handler")
  /\ LET found == ByHost(handler.from)
     IN  IF found = {} THEN UNCHANGED <<age, kept>>
         ELSE /\ age' = [age EXCEPT ![sessions[Min(found)]] = 0]
              /\ kept' = [kept EXCEPT ![sessions[Min(found)]] = TRUE]
  /\ handler' = IdleHandler
  /\ UNCHANGED <<sessions, host, lock, cleaner, enumerating, servers>>

-----------------------------------------------------------------------------
(* MatchRequestListHandler: lazy queries, evaluated for the number of      *)
(* local sessions, for the result count and for the sessions themselves.   *)
(* Which sessions are taken is random and left out.  IsVersionAllowed lets *)
(* no client of a build below 47 get here, so the shorter answer for those *)
(* is never made.                                                          *)

AtMost(n, m) == IF n < m THEN n ELSE m
Candidates == {s \in Listed : Fresh(s) /\ (host[s] \in Unclean <=> handler.unclean)}
Local(h) == {s \in Candidates : Country[host[s]] = Country[h]}
LocalCount == AtMost(Cardinality(Local(handler.from)), MaxLocal)
OtherCount == AtMost(Cardinality(Candidates), handler.remaining)

(* The lock, with what CIServer says of the client at this time.           *)
ListBegin ==
  /\ handler.at = "lock" /\ handler.command = "list"
  /\ MayLock("handler")
  /\ lock' = "handler"
  /\ \E unclean \in BOOLEAN : handler' = [handler EXCEPT !.unclean = unclean, !.at = "remaining"]
  /\ UNCHANGED <<sessions, sessionVars, cleaner, enumerating, servers>>

AnswerSpace == MaxAnswer   \* mutant: Take (50) instead of the rest
Remaining == MaxAnswer - LocalCount

ListSessions ==
  /\ handler.at = "remaining"
  /\ handler' = [handler EXCEPT !.remaining = Remaining, !.at = IF handler.unclean THEN "pad" ELSE "writeCount"]
  /\ UNCHANGED <<sessions, sessionVars, lock, cleaner, enumerating, servers>>

(* For an unclean client the queries are evaluated here for the last time, *)
(* and made-up sessions are added: while (list.Count < 19), Take (19).     *)
Pad ==
  /\ handler.at = "pad"
  /\ LET real == LocalCount + OtherCount
         made == IF real < MaxUnclean THEN MaxUnclean - real ELSE 0
         taken == AtMost(real + made, MaxUnclean)
     IN  handler' = [handler EXCEPT !.count = taken, !.written = taken, !.at = "send"]
  /\ UNCHANGED <<sessions, sessionVars, lock, cleaner, enumerating, servers>>

WriteCount ==
  /\ handler.at = "writeCount"
  /\ handler' = [handler EXCEPT !.count = LocalCount + OtherCount, !.at = "write"]
  /\ UNCHANGED <<sessions, sessionVars, lock, cleaner, enumerating, servers>>

(* A session of the client's own country can be taken twice.               *)
Write ==
  /\ handler.at = "write"
  /\ handler' = [handler EXCEPT !.written = LocalCount + OtherCount, !.at = "send"]
  /\ UNCHANGED <<sessions, sessionVars, lock, cleaner, enumerating, servers>>

Send ==
  /\ handler.at = "send"
  /\ Release("handler")
  /\ handler' = IdleHandler
  /\ UNCHANGED <<sessions, sessionVars, cleaner, enumerating, servers>>

-----------------------------------------------------------------------------
(* The main thread: CleanMyOldMessySessions                                *)

(* A round of the main loop: the ban list and the playlists before this    *)
(* one.                                                                    *)
Round ==
  /\ cleaner.at = "idle"
  /\ cleaner' = [IdleCleaner EXCEPT !.at = "earlier"]
  /\ UNCHANGED <<sessions, sessionVars, lock, handler, enumerating, servers>>

(* An exception of UpdateBanList or of an earlier playlist.                *)
RoundFails ==
  /\ cleaner.at = "earlier"
  /\ cleaner' = IdleCleaner
  /\ UNCHANGED <<sessions, sessionVars, lock, handler, enumerating, servers>>

Reach ==
  /\ cleaner.at = "earlier"
  /\ cleaner' = [IdleCleaner EXCEPT !.at = "lock"]
  /\ UNCHANGED <<sessions, sessionVars, lock, handler, enumerating, servers>>

CleanBegin ==
  /\ cleaner.at = "lock"
  /\ MayLock("cleaner")
  /\ lock' = "cleaner"
  /\ enumerating' = enumerating \cup {"cleaner"}
  /\ cleaner' = [IdleCleaner EXCEPT !.at = "scan"]
  /\ UNCHANGED <<sessions, sessionVars, handler, servers>>

(* An exception leaves the lock and ends this round of the main loop.      *)
CleanEnds == cleaner' = IdleCleaner /\ Release("cleaner")

(* canBeSafelyDeleted: the expired sessions, in the order of the list.     *)
CanBeSafelyDeleted ==
  {dead \in SetToSeqs({s \in Listed : Expired(s)}) :
     \A m, n \in DOMAIN dead : m < n =>
       \E i, j \in DOMAIN sessions : i < j /\ sessions[i] = dead[m] /\ sessions[j] = dead[n]}

Scan ==
  /\ cleaner.at = "scan"
  /\ IF "cleaner" \in enumerating
     THEN /\ \E dead \in CanBeSafelyDeleted : cleaner' = [cleaner EXCEPT !.dead = dead, !.at = "indexOf"]
          /\ UNCHANGED lock
     ELSE CleanEnds
  /\ enumerating' = enumerating \ {"cleaner"}
  /\ UNCHANGED <<sessions, sessionVars, handler, servers>>

CleanIndexOf ==
  /\ cleaner.at = "indexOf"
  /\ IF cleaner.dead = <<>> THEN CleanEnds
     ELSE LET s == Head(cleaner.dead)
          IN  /\ cleaner' = IF s \in Listed
                            THEN [cleaner EXCEPT !.index = CHOOSE i \in DOMAIN sessions : sessions[i] = s,
                                                 !.at = "removeAt"]
                            ELSE [cleaner EXCEPT !.at = "forget"]
              /\ UNCHANGED lock
  /\ UNCHANGED <<sessions, sessionVars, handler, enumerating, servers>>

CleanRemove ==
  /\ cleaner.at = "removeAt"
  /\ IF cleaner.index \in DOMAIN sessions
     THEN /\ sessions' = RemoveAt(sessions, cleaner.index)
          /\ enumerating' = {}
          /\ cleaner' = [cleaner EXCEPT !.at = "forget"]
          /\ UNCHANGED lock
     ELSE CleanEnds /\ UNCHANGED <<sessions, enumerating>>
  /\ UNCHANGED <<sessionVars, handler, servers>>

CleanForget ==
  /\ cleaner.at = "forget"
  /\ servers' = servers \ {host[Head(cleaner.dead)]}
  /\ cleaner' = [cleaner EXCEPT !.dead = Tail(cleaner.dead), !.index = 0, !.at = "indexOf"]
  /\ UNCHANGED <<sessions, sessionVars, lock, handler, enumerating>>

-----------------------------------------------------------------------------
Tick ==
  /\ age' = [s \in Session |-> IF host[s] = NoHost THEN 0 ELSE AtMost(age[s] + 1, MaxAge)]
  /\ UNCHANGED <<sessions, host, kept, lock, handler, cleaner, enumerating, servers>>

HandlerStep ==
  \/ EnumerationFails
  \/ Count
  \/ First
  \/ Touch
  \/ \E s \in Session : Add(s)
  \/ NotAllowed
  \/ IndexOf
  \/ RemoveSession
  \/ Forget
  \/ KeepAlive
  \/ ListBegin
  \/ ListSessions
  \/ Pad
  \/ WriteCount
  \/ Write
  \/ Send

CleanerStep ==
  \/ Round
  \/ Reach
  \/ CleanBegin
  \/ Scan
  \/ CleanIndexOf
  \/ CleanRemove
  \/ CleanForget

MatchNext ==
  \/ \E h \in Host, command \in Command : Receive(h, command)
  \/ HandlerStep
  \/ CleanerStep
  \/ RoundFails
  \/ Tick

Spec == Init /\ [][MatchNext]_vars

(* A thread that can run does; a Monitor serves the threads that wait for  *)
(* it in turn.  Packets need not come, and a round may always fail before  *)
(* it gets to this playlist.                                               *)
Fairness ==
  /\ SF_vars(CleanBegin)
  /\ WF_vars(CleanerStep)
  /\ WF_vars(HandlerStep)

FairSpec == Spec /\ Fairness

-----------------------------------------------------------------------------
TypeOK ==
  /\ sessions \in Seq(Session)
  /\ host \in [Session -> Host \cup {NoHost}]
  /\ age \in [Session -> 0 .. MaxAge]
  /\ kept \in [Session -> BOOLEAN]
  /\ lock \in {"free", "handler", "cleaner"}
  /\ handler.from \in Host \cup {NoHost}
  /\ handler.session \in Session \cup {NoSession}
  /\ handler.at \in {"touch", "indexOf", "removeAt", "forget"} => handler.session \in Session
  /\ cleaner.dead \in Seq(Session)
  /\ enumerating \subseteq Enumerator
  /\ servers \subseteq Host

(* A host has one session in the list although the register handler looks  *)
(* and adds in two steps without the lock.                                 *)
OneSessionPerHost == \A i, j \in DOMAIN sessions : host[sessions[i]] = host[sessions[j]] => i = j

(* The lock of MatchDummyHandler: a session the cleaner has decided to     *)
(* remove gets no keep-alive any more, so no keep-alive is lost.           *)
NoKeepAliveLost == \A i \in DOMAIN cleaner.dead : LET s == cleaner.dead[i] IN kept[s] => Expired(s)

(* The three evaluations of the queries never make an answer larger than   *)
(* the 50 sessions the handler reckons with.                               *)
AnswerFits == handler.at = "send" => handler.written <= MaxAnswer

(* A session nobody touches any more leaves the list, although any number  *)
(* of rounds of the main loop end with an exception or lose the race of    *)
(* SafelyDeleted; unless rounds are disturbed like this again and again.   *)
CleanDisturbed ==
  \/ RoundFails
  \/ Scan /\ cleaner'.at = "idle"
  \/ CleanRemove /\ ToSet(sessions') # Listed \ {Head(cleaner.dead)}
DeadSessionsGo ==
  \/ []<><<CleanDisturbed>>_vars
  \/ \A s \in Session : s \in Listed /\ Expired(s) ~> s \notin Listed \/ ~Expired(s)

(* canBeSafelyDeleted, MatchServer.cs:259: the cleaner removes the         *)
(* sessions that were not touched for 180 seconds when it looked.          *)
SafelyDeleted ==
  [][CleanRemove => \A s \in Listed : s \notin ToSet(sessions') => s \in ToSet(cleaner.dead)]_vars
=============================================================================
