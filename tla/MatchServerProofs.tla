-------------------------- MODULE MatchServerProofs --------------------------
(***************************************************************************)
(* What holds of the sessions of a playlist (MatchServer) and of the       *)
(* server list built on them (ServerParser) for every set of hosts,        *)
(* sessions and commands and every size of an answer.                      *)
(***************************************************************************)
EXTENDS ServerParser, FiniteSetTheorems, SequenceTheorems, Induction

HandlerType ==
  [at : {"idle", "lock", "count", "first", "touch", "add", "indexOf", "removeAt", "forget",
         "remaining", "pad", "writeCount", "write", "send"},
   command : {"register", "keepalive", "update", "unregister", "list"},
   from : Host \cup {NoHost}, session : Session \cup {NoSession}, index : Nat,
   unclean : BOOLEAN, remaining : Int, count : Int, written : Int]

Waiting == {"idle", "earlier", "lock"}
Cleaning == {"scan", "indexOf", "removeAt", "forget"}

CleanerType == [at : Waiting \cup Cleaning, dead : Seq(Session), index : Nat]

Typed ==
  /\ sessions \in Seq(Session)
  /\ host \in [Session -> Host \cup {NoHost}]
  /\ age \in [Session -> 0 .. MaxAge]
  /\ kept \in [Session -> BOOLEAN]
  /\ lock \in {"free", "handler", "cleaner"}
  /\ handler \in HandlerType
  /\ handler.at \in {"touch", "indexOf", "removeAt", "forget"} => handler.session \in Session
  /\ handler.at # "idle" => handler.from \in Host
  /\ cleaner \in CleanerType
  /\ enumerating \subseteq Enumerator
  /\ servers \subseteq Host

(* Who is between the ends of a lock statement holds the lock.             *)
Locked ==
  /\ cleaner.at \in Cleaning => lock = "cleaner"
  /\ handler.at \in {"remaining", "pad", "writeCount", "write", "send"} => lock = "handler"

(* The cleaner has sessions to remove only while it has the lock, and      *)
(* they are sessions that were made.                                       *)
Condemned ==
  /\ cleaner.at \in Waiting \cup {"scan"} => cleaner.dead = <<>>
  /\ cleaner.at \in {"removeAt", "forget"} => cleaner.dead # <<>>
  /\ \A i \in DOMAIN cleaner.dead : host[cleaner.dead[i]] # NoHost

(* The list holds sessions that were made, one per host, and none of the   *)
(* host the handler is about to add one for.                               *)
Distinct ==
  /\ \A i \in DOMAIN sessions : host[sessions[i]] # NoHost
  /\ OneSessionPerHost
  /\ handler.at = "add" => ByHost(handler.from) = {}

(* While the handler has the lock, the sessions of its country only become *)
(* fewer, so there is room for the rest.                                   *)
Room ==
  /\ handler.at \in {"pad", "writeCount", "write"} => handler.remaining + LocalCount <= MaxAnswer
  /\ AnswerFits

IInv == Typed /\ Locked /\ Condemned /\ NoKeepAliveLost /\ Distinct /\ Room

-----------------------------------------------------------------------------
(* RemoveAt closes the gap.                                                *)
LEMMA RemoveAtFacts ==
  ASSUME NEW S, NEW s \in Seq(S), NEW i \in 1 .. Len(s)
  PROVE  /\ RemoveAt(s, i) \in Seq(S)
         /\ Len(RemoveAt(s, i)) = Len(s) - 1
         /\ \A j \in 1 .. Len(s) - 1 : RemoveAt(s, i)[j] = s[IF j < i THEN j ELSE j + 1]
<1> DEFINE left == SubSeq(s, 1, i - 1)
           right == SubSeq(s, i + 1, Len(s))
<1>1. left \in Seq(S) /\ Len(left) = i - 1 /\ \A j \in 1 .. i - 1 : left[j] = s[j]
  OBVIOUS
<1>2. right \in Seq(S) /\ Len(right) = Len(s) - i /\ \A j \in 1 .. Len(s) - i : right[j] = s[i + j]
  OBVIOUS
<1> HIDE DEF left, right
<1>3. left \o right \in Seq(S) /\ Len(left \o right) = Len(s) - 1
  <2>1. left \o right \in Seq(S) /\ Len(left \o right) = Len(left) + Len(right)
    BY <1>1, <1>2, ConcatProperties, Zenon
  <2>2. Len(s) \in Nat /\ i \in Int
    OBVIOUS
  <2>3. Len(left \o right) = i - 1 + (Len(s) - i)
    BY <1>1, <1>2, <2>1, Zenon
  <2> QED  BY <2>1, <2>2, <2>3
<1>4. \A j \in 1 .. Len(s) - 1 : (left \o right)[j] = s[IF j < i THEN j ELSE j + 1]
  <2> SUFFICES ASSUME NEW j \in 1 .. Len(s) - 1
               PROVE  (left \o right)[j] = s[IF j < i THEN j ELSE j + 1]
    OBVIOUS
  <2>1. (left \o right)[j] = IF j <= Len(left) THEN left[j] ELSE right[j - Len(left)]
    BY <1>1, <1>2
  <2> QED  BY <1>1, <1>2, <2>1
<1> QED  BY <1>3, <1>4 DEF RemoveAt, left, right

(* A set of places of the list has a first one.                            *)
LEMMA MinIsIn ==
  ASSUME NEW S \in SUBSET Nat, S # {}
  PROVE  Min(S) \in S
BY LeastNat DEF Min

(* The sessions a query counts are finitely many, and fewer are no more.   *)
LEMMA CountsOfList ==
  ASSUME sessions \in Seq(Session), NEW T \in SUBSET Listed, NEW S \in SUBSET T
  PROVE  /\ IsFiniteSet(S) /\ Cardinality(S) \in Nat
         /\ Cardinality(T) \in Nat /\ Cardinality(S) <= Cardinality(T)
<1>1. IsFiniteSet(DOMAIN sessions)
  BY FS_Interval
<1>2. sessions \in Surjection(DOMAIN sessions, Listed)
  BY DEF Listed, ToSet, Surjection
<1>3. IsFiniteSet(Listed)
  BY <1>1, <1>2, FS_Surjection
<1> QED  BY <1>3, FS_Subset, FS_CardinalityType

-----------------------------------------------------------------------------
(* The initial states satisfy the invariant.                               *)
LEMMA InitInv == Init => IInv
<1> SUFFICES ASSUME Init PROVE IInv
  OBVIOUS
<1> USE DEF Init
<1>1. Typed
  BY DEF Typed, HandlerType, CleanerType, Waiting, Cleaning, IdleHandler, IdleCleaner, MaxAge, Enumerator
<1>2. Locked
  BY DEF Locked, Cleaning, IdleHandler, IdleCleaner
<1>3. Condemned /\ NoKeepAliveLost
  BY DEF Condemned, NoKeepAliveLost, IdleCleaner
<1>4. Distinct
  BY DEF Distinct, OneSessionPerHost, IdleHandler
<1>5. Room
  BY DEF Room, AnswerFits, IdleHandler
<1> QED  BY <1>1, <1>2, <1>3, <1>4, <1>5 DEF IInv

-----------------------------------------------------------------------------
(* Parts of the invariant that most steps cannot disturb                   *)

(* Sessions to remove and their keep-alives depend on the sessions and the *)
(* cleaner only.                                                           *)
LEMMA CondemnedKept ==
  ASSUME Condemned, NoKeepAliveLost, UNCHANGED <<sessionVars, cleaner>>
  PROVE  Condemned' /\ NoKeepAliveLost'
BY DEF Condemned, NoKeepAliveLost, sessionVars, Expired

(* Only a step to the register handler's Add has to do with the list       *)
(* without changing it.                                                    *)
LEMMA DistinctKept ==
  ASSUME Distinct, UNCHANGED <<sessions, host>>,
         handler'.at = "add" => handler'.from = handler.from /\ ByHost(handler.from) = {}
  PROVE  Distinct'
<1>1. \A h : ByHost(h)' = ByHost(h)
  BY DEF ByHost
<1>2. (\A i \in DOMAIN sessions : host[sessions[i]] # NoHost)' /\ OneSessionPerHost'
  BY DEF Distinct, OneSessionPerHost
<1>3. handler'.at = "add" => (ByHost(handler.from) = {})'
  BY <1>1, Zenon
<1> QED  BY <1>2, <1>3 DEF Distinct

(* Outside the list handler no answer is made.                             *)
LEMMA NoAnswer ==
  ASSUME handler'.at \notin {"pad", "writeCount", "write", "send"}
  PROVE  Room'
BY DEF Room, AnswerFits

-----------------------------------------------------------------------------
(* The steps of the handlers                                               *)

(* A handler that waits for a packet.                                      *)
LEMMA IdleHandlerTyped == IdleHandler \in HandlerType /\ IdleHandler.at = "idle"
BY DEF IdleHandler, HandlerType

(* A packet arrives.                                                       *)
LEMMA ReceiveInv ==
  ASSUME IInv, NEW h \in Host, NEW command \in Command, Receive(h, command)
  PROVE  IInv'
<1> USE DEF IInv, Receive, sessionVars
<1>1. Typed'
  <2> DEFINE place == IF command \in {"keepalive", "list"} THEN "lock" ELSE "count"
  <2>1. handler' = [IdleHandler EXCEPT !.command = command, !.from = h, !.at = place]
    OBVIOUS
  <2>2. place \in {"lock", "count"} /\ command \in {"register", "keepalive", "update", "unregister", "list"}
    BY MatchAssumption
  <2> HIDE DEF place
  <2>3. handler' \in HandlerType /\ handler'.from = h /\ handler'.at = place
    BY <2>1, <2>2, IdleHandlerTyped DEF HandlerType
  <2> QED  BY <2>2, <2>3 DEF Typed
<1>2. handler'.at \in {"lock", "count"}
  BY DEF IdleHandler
<1>3. Locked'
  BY <1>2 DEF Locked
<1>4. Distinct'
  BY <1>2, DistinctKept
<1> QED  BY <1>1, <1>2, <1>3, <1>4, CondemnedKept, NoAnswer

(* A query that fails, a client that is not allowed to register, and an    *)
(* exception in a Remove.                                                  *)
LEMMA HandlerFailsInv ==
  ASSUME IInv, HandlerFails, UNCHANGED <<sessions, sessionVars, lock, cleaner, enumerating, servers>>
  PROVE  IInv'
<1> USE DEF IInv, HandlerFails, sessionVars
<1>1. Typed'
  BY IdleHandlerTyped DEF Typed
<1>2. Locked'
  BY IdleHandlerTyped DEF Locked
<1>3. Distinct'
  BY IdleHandlerTyped, DistinctKept
<1>4. Room'
  BY IdleHandlerTyped, NoAnswer
<1> QED  BY <1>1, <1>2, <1>3, <1>4, CondemnedKept

(* The query of the register handler and of the others: a register for a   *)
(* host without a session goes on to Add.                                  *)
LEMMA CountInv ==
  ASSUME IInv, Count
  PROVE  IInv'
<1> USE DEF IInv, Count, sessionVars
<1>1. CASE HandlerFails
  BY <1>1, HandlerFailsInv
<1>2. CASE HandlerGoes("first") \/ (HandlerGoes("add") /\ ByHost(handler.from) = {})
  <2>1. PICK place \in {"first", "add"} : handler' = [handler EXCEPT !.at = place]
    BY <1>2 DEF HandlerGoes
  <2>2. handler' \in HandlerType /\ handler'.at = place /\ handler'.from = handler.from
    BY <2>1 DEF Typed, HandlerType
  <2>3. Typed'
    BY <2>2 DEF Typed
  <2>4. Locked'
    BY <2>2 DEF Locked
  <2>5. handler'.at = "add" => ByHost(handler.from) = {}
    BY <1>2 DEF HandlerGoes, Typed, HandlerType
  <2>6. Distinct'
    BY <2>2, <2>5, DistinctKept
  <2> QED  BY <2>2, <2>3, <2>4, <2>6, CondemnedKept, NoAnswer
<1>3. HandlerFails \/ HandlerGoes("first") \/ (HandlerGoes("add") /\ ByHost(handler.from) = {})
  <2>1. CASE ByHost(handler.from) # {}
    BY <2>1
  <2>2. CASE ByHost(handler.from) = {}
    BY <2>2
  <2> QED  BY <2>1, <2>2
<1> QED  BY <1>1, <1>2, <1>3, Zenon

(* The session First () returns.                                           *)
LEMMA FirstByHost ==
  ASSUME sessions \in Seq(Session), NEW h, ByHost(h) # {}
  PROVE  /\ Min(ByHost(h)) \in DOMAIN sessions
         /\ sessions[Min(ByHost(h))] \in Session
         /\ host[sessions[Min(ByHost(h))]] = h
<1>1. ByHost(h) \in SUBSET Nat
  BY DEF ByHost
<1>2. Min(ByHost(h)) \in ByHost(h)
  BY <1>1, MinIsIn
<1> QED  BY <1>2 DEF ByHost

(* First () finds the session, or throws when it is gone.                  *)
LEMMA FirstInv ==
  ASSUME IInv, First
  PROVE  IInv'
<1> USE DEF IInv, sessionVars
<1>1. CASE HandlerFails
  BY <1>1, HandlerFailsInv DEF First
<1>2. CASE ~HandlerFails
  <2> DEFINE s == sessions[Min(ByHost(handler.from))]
  <2>1. ByHost(handler.from) # {} /\ Found(s)
    BY <1>2 DEF First
  <2>2. s \in Session
    BY <2>1, FirstByHost DEF Typed
  <2>3. PICK place \in {"indexOf", "touch"} : handler' = [handler EXCEPT !.session = s, !.at = place]
    BY <2>1 DEF Found
  <2> HIDE DEF s
  <2>4. handler' \in HandlerType /\ handler'.at = place /\ handler'.session = s /\ handler'.from = handler.from
    BY <2>2, <2>3 DEF Typed, HandlerType
  <2>5. UNCHANGED <<sessions, sessionVars, lock, cleaner, enumerating, servers>> /\ handler.at = "first"
    BY DEF First
  <2>6. Typed'
    BY <2>2, <2>4, <2>5 DEF Typed
  <2>7. Locked'
    BY <2>4, <2>5 DEF Locked
  <2>8. Distinct'
    BY <2>4, <2>5, DistinctKept
  <2> QED  BY <2>4, <2>5, <2>6, <2>7, <2>8, CondemnedKept, NoAnswer
<1> QED  BY <1>1, <1>2

(* Register and update set LastTouched, and it is no keep-alive.           *)
LEMMA TouchInv ==
  ASSUME IInv, Touch
  PROVE  IInv'
<1> USE DEF IInv, Touch
<1>1. handler.session \in Session
  BY DEF Typed
<1>2. Typed'
  BY <1>1, IdleHandlerTyped DEF Typed, MaxAge
<1>3. Locked'
  BY IdleHandlerTyped DEF Locked
<1>4. Condemned'
  BY DEF Condemned
<1>5. NoKeepAliveLost'
  <2> SUFFICES ASSUME NEW i \in DOMAIN cleaner.dead, kept'[cleaner.dead[i]]
               PROVE  age'[cleaner.dead[i]] > 3
    BY DEF NoKeepAliveLost, Expired
  <2>1. cleaner.dead[i] \in Session
    BY DEF Typed, CleanerType
  <2>2. cleaner.dead[i] # handler.session
    BY <1>1, <2>1 DEF Typed
  <2>3. kept[cleaner.dead[i]] /\ age'[cleaner.dead[i]] = age[cleaner.dead[i]]
    BY <2>1, <2>2 DEF Typed
  <2> QED  BY <2>3 DEF NoKeepAliveLost, Expired
<1>6. Distinct'
  BY IdleHandlerTyped, DistinctKept
<1> QED  BY <1>2, <1>3, <1>4, <1>5, <1>6, IdleHandlerTyped, NoAnswer

(* A new session is added for a host that has none in the list.            *)
LEMMA AddInv ==
  ASSUME IInv, NEW s \in Session, Add(s)
  PROVE  IInv'
<1> USE DEF IInv, Add
<1>1. handler.from \in Host /\ handler.from # NoHost
  BY MatchAssumption DEF Typed
<1>2. Typed'
  BY <1>1, IdleHandlerTyped DEF Typed, MaxAge
<1>3. Locked'
  BY IdleHandlerTyped DEF Locked
<1>4. \A t \in Session : /\ host'[t] = IF t = s THEN handler.from ELSE host[t]
                         /\ t # s => age'[t] = age[t] /\ kept'[t] = kept[t]
  BY DEF Typed
<1>5. Condemned'
  BY <1>1, <1>4 DEF Condemned, Typed, CleanerType
<1>6. NoKeepAliveLost'
  <2>1. \A i \in DOMAIN cleaner.dead : cleaner.dead[i] \in Session /\ cleaner.dead[i] # s
    BY DEF Typed, CleanerType, Held, ToSet
  <2> QED  BY <1>4, <2>1 DEF NoKeepAliveLost, Expired
<1>7. Distinct'
  <2>1. /\ DOMAIN sessions' = 1 .. Len(sessions) + 1
        /\ \A i \in DOMAIN sessions : i \in 1 .. Len(sessions) /\ sessions'[i] = sessions[i]
        /\ sessions'[Len(sessions) + 1] = s
    BY DEF Typed
  <2>2. \A i \in DOMAIN sessions : sessions[i] \in Session /\ sessions[i] # s
    BY DEF Typed, Listed, ToSet
  <2>3. \A i \in DOMAIN sessions : host'[sessions'[i]] = host[sessions[i]]
    BY <1>4, <2>1, <2>2
  <2>4. \A i \in DOMAIN sessions : host[sessions[i]] # handler.from
    BY DEF Distinct, ByHost
  <2>5. host'[sessions'[Len(sessions) + 1]] = handler.from
    BY <1>4, <2>1
  <2>6. \A i \in DOMAIN sessions' : i \in DOMAIN sessions \/ i = Len(sessions) + 1
    BY <2>1 DEF Typed
  <2>7. OneSessionPerHost'
    BY <2>3, <2>4, <2>5, <2>6 DEF OneSessionPerHost, Distinct
  <2>8. \A i \in DOMAIN sessions' : host'[sessions'[i]] # NoHost
    BY <1>1, <2>3, <2>5, <2>6 DEF Distinct
  <2>9. handler'.at # "add"
    BY IdleHandlerTyped
  <2> QED  BY <2>7, <2>8, <2>9 DEF Distinct
<1> QED  BY <1>2, <1>3, <1>5, <1>6, <1>7, IdleHandlerTyped, NoAnswer

(* Sessions.Remove looks for the session first.                            *)
LEMMA PlaceOf ==
  ASSUME sessions \in Seq(Session), NEW s \in Listed
  PROVE  (CHOOSE i \in DOMAIN sessions : sessions[i] = s) \in Nat
<1>1. \E i \in DOMAIN sessions : sessions[i] = s
  BY DEF Listed, ToSet
<1>2. (CHOOSE i \in DOMAIN sessions : sessions[i] = s) \in DOMAIN sessions
  BY <1>1
<1> QED  BY <1>2

(* Unregister: the first half of Sessions.Remove.                          *)
LEMMA IndexOfInv ==
  ASSUME IInv, IndexOf
  PROVE  IInv'
<1> USE DEF IInv, IndexOf, sessionVars
<1>1. PICK place \in {"removeAt", "forget"}, index \in Nat :
        handler' = [handler EXCEPT !.index = index, !.at = place]
  <2>1. CASE handler.session \in Listed
    BY <2>1, PlaceOf DEF Typed
  <2>2. CASE handler.session \notin Listed
    <3>1. handler' = [handler EXCEPT !.index = handler.index, !.at = "forget"] /\ handler.index \in Nat
      BY <2>2 DEF Typed, HandlerType
    <3> QED  BY <3>1
  <2> QED  BY <2>1, <2>2
<1>2. /\ handler' \in HandlerType
      /\ handler'.at = place /\ handler'.session = handler.session /\ handler'.from = handler.from
  BY <1>1 DEF Typed, HandlerType
<1>3. Typed'
  BY <1>2 DEF Typed
<1>4. Locked'
  BY <1>2 DEF Locked
<1>5. Distinct'
  BY <1>2, DistinctKept
<1> QED  BY <1>2, <1>3, <1>4, <1>5, CondemnedKept, NoAnswer

(* One place less in the list, and the other sessions in their order.      *)
LEMMA DistinctAfterRemoveAt ==
  ASSUME Typed, Distinct, NEW i \in DOMAIN sessions, sessions' = RemoveAt(sessions, i), host' = host,
         handler'.at = "add" => handler' = handler
  PROVE  sessions' \in Seq(Session) /\ Distinct'
<1> DEFINE old(j) == IF j < i THEN j ELSE j + 1
<1>1. sessions \in Seq(Session) /\ i \in 1 .. Len(sessions)
  BY DEF Typed
<1>2. /\ sessions' \in Seq(Session)
      /\ Len(sessions') = Len(sessions) - 1
      /\ \A j \in 1 .. Len(sessions) - 1 : sessions'[j] = sessions[old(j)]
  BY <1>1, RemoveAtFacts
<1>3. \A j \in DOMAIN sessions' : old(j) \in DOMAIN sessions /\ sessions'[j] = sessions[old(j)]
  BY <1>1, <1>2
<1>4. \A j, k \in DOMAIN sessions' : old(j) = old(k) => j = k
  BY <1>1, <1>2
<1> HIDE DEF old
<1>5. OneSessionPerHost'
  BY <1>3, <1>4 DEF Distinct, OneSessionPerHost
<1>6. \A j \in DOMAIN sessions' : host'[sessions'[j]] # NoHost
  BY <1>3 DEF Distinct
<1>7. handler'.at = "add" => (ByHost(handler.from) = {})'
  BY <1>3 DEF Distinct, ByHost
<1> QED  BY <1>2, <1>5, <1>6, <1>7 DEF Distinct

(* Unregister: the second half, which can find the place gone.             *)
LEMMA RemoveSessionInv ==
  ASSUME IInv, RemoveSession
  PROVE  IInv'
<1> USE DEF IInv, sessionVars
<1>1. CASE handler.index \in DOMAIN sessions
  <2>1. /\ sessions' = RemoveAt(sessions, handler.index) /\ enumerating' = {}
        /\ handler' = [handler EXCEPT !.at = "forget"] /\ handler.at = "removeAt"
        /\ UNCHANGED <<sessionVars, lock, cleaner, servers>>
    BY <1>1 DEF RemoveSession, HandlerGoes
  <2>2. /\ handler' \in HandlerType /\ handler'.at = "forget"
        /\ handler'.session = handler.session /\ handler'.from = handler.from
    BY <2>1 DEF Typed, HandlerType
  <2>3. sessions' \in Seq(Session) /\ Distinct'
    BY <1>1, <2>1, <2>2, DistinctAfterRemoveAt
  <2>4. Typed'
    BY <2>1, <2>2, <2>3 DEF Typed
  <2>5. Locked'
    BY <2>1, <2>2 DEF Locked
  <2> QED  BY <2>1, <2>2, <2>3, <2>4, <2>5, CondemnedKept, NoAnswer
<1>2. CASE handler.index \notin DOMAIN sessions
  BY <1>2, HandlerFailsInv DEF RemoveSession
<1> QED  BY <1>1, <1>2

(* Unregister: the address leaves the server list as well.                 *)
LEMMA ForgetInv ==
  ASSUME IInv, Forget
  PROVE  IInv'
<1> USE DEF IInv, Forget, sessionVars
<1>1. Typed'
  BY IdleHandlerTyped DEF Typed
<1>2. Locked'
  BY IdleHandlerTyped DEF Locked
<1>3. Distinct'
  BY IdleHandlerTyped, DistinctKept
<1> QED  BY <1>1, <1>2, <1>3, IdleHandlerTyped, CondemnedKept, NoAnswer

(* A keep-alive comes when the lock is free, and then the cleaner has      *)
(* nobody to remove.                                                       *)
LEMMA KeepAliveInv ==
  ASSUME IInv, KeepAlive
  PROVE  IInv'
<1> USE DEF IInv, KeepAlive
<1>1. cleaner' = cleaner /\ cleaner.dead = <<>>
  BY DEF MayLock, Locked, Condemned, Typed, CleanerType, Waiting, Cleaning
<1>2. age' \in [Session -> 0 .. MaxAge] /\ kept' \in [Session -> BOOLEAN]
  <2>1. CASE ByHost(handler.from) = {}
    BY <2>1 DEF Typed
  <2>2. CASE ByHost(handler.from) # {}
    <3> DEFINE s == sessions[Min(ByHost(handler.from))]
    <3>1. s \in Session
      BY <2>2, FirstByHost DEF Typed
    <3>2. age' = [age EXCEPT ![s] = 0] /\ kept' = [kept EXCEPT ![s] = TRUE]
      BY <2>2
    <3> HIDE DEF s
    <3> QED  BY <3>1, <3>2 DEF Typed, MaxAge
  <2> QED  BY <2>1, <2>2
<1>3. Typed'
  BY <1>2, IdleHandlerTyped DEF Typed
<1>4. Locked'
  BY IdleHandlerTyped DEF Locked
<1>5. Condemned'
  BY DEF Condemned
<1>6. NoKeepAliveLost'
  BY <1>1 DEF NoKeepAliveLost
<1>7. Distinct'
  BY IdleHandlerTyped, DistinctKept
<1> QED  BY <1>3, <1>4, <1>5, <1>6, <1>7, IdleHandlerTyped, NoAnswer

-----------------------------------------------------------------------------
(* The list handler                                                        *)

(* What the queries of the list handler count.                             *)
LEMMA QueryCounts ==
  ASSUME sessions \in Seq(Session)
  PROVE  /\ LocalCount \in Nat
         /\ handler.remaining \in Int => OtherCount \in Int /\ OtherCount <= handler.remaining
<1>1. Candidates \in SUBSET Listed /\ Local(handler.from) \in SUBSET Candidates
  BY DEF Candidates, Local
<1>2. Cardinality(Local(handler.from)) \in Nat /\ Cardinality(Candidates) \in Nat
  BY <1>1, CountsOfList
<1> QED  BY <1>2, MatchAssumption DEF LocalCount, OtherCount, AtMost

(* The same list gives the same client the same count.                     *)
LEMMA SameCount ==
  ASSUME UNCHANGED <<sessions, host, age>>, handler'.from = handler.from, handler'.unclean = handler.unclean
  PROVE  LocalCount' = LocalCount
BY DEF LocalCount, Local, Candidates, Listed, Fresh

(* The handler takes the lock.                                             *)
LEMMA ListBeginInv ==
  ASSUME IInv, ListBegin
  PROVE  IInv'
<1> USE DEF IInv, ListBegin, sessionVars
<1>1. PICK unclean \in BOOLEAN : handler' = [handler EXCEPT !.unclean = unclean, !.at = "remaining"]
  OBVIOUS
<1>2. handler' \in HandlerType /\ handler'.at = "remaining" /\ handler'.from = handler.from
  BY <1>1 DEF Typed, HandlerType
<1>3. Typed'
  BY <1>2 DEF Typed
<1>4. Locked'
  BY <1>2 DEF Locked, MayLock, Typed, CleanerType
<1>5. Distinct'
  BY <1>2, DistinctKept
<1> QED  BY <1>2, <1>3, <1>4, <1>5, CondemnedKept, NoAnswer

(* The handler counts: the rest of MaxAnswer is left.                      *)
LEMMA ListSessionsInv ==
  ASSUME IInv, ListSessions
  PROVE  IInv'
<1> USE DEF IInv, ListSessions, sessionVars
<1>1. LocalCount \in Nat
  BY QueryCounts DEF Typed
<1>2. Remaining \in Int /\ Remaining + LocalCount = MaxAnswer
  BY <1>1, MatchAssumption DEF Remaining
<1>3. PICK place \in {"pad", "writeCount"} : handler' = [handler EXCEPT !.remaining = Remaining, !.at = place]
  OBVIOUS
<1>4. /\ handler' \in HandlerType
      /\ handler'.at = place /\ handler'.from = handler.from /\ handler'.unclean = handler.unclean
      /\ handler'.remaining = Remaining
  BY <1>2, <1>3 DEF Typed, HandlerType
<1>5. Typed'
  BY <1>4 DEF Typed
<1>6. Locked'
  BY <1>4 DEF Locked
<1>7. Distinct'
  BY <1>4, DistinctKept
<1>8. LocalCount' = LocalCount
  BY <1>4, SameCount
<1>9. Room'
  BY <1>2, <1>4, <1>8, MatchAssumption DEF Room, AnswerFits
<1> QED  BY <1>5, <1>6, <1>7, <1>9, CondemnedKept

(* The answer to an unclean client has MaxUnclean sessions.                *)
LEMMA PadInv ==
  ASSUME IInv, Pad
  PROVE  IInv'
<1> USE DEF IInv, Pad, sessionVars
<1>1. LocalCount \in Nat /\ OtherCount \in Int
  BY QueryCounts DEF Typed, HandlerType
<1>2. PICK taken \in Int : taken <= MaxUnclean /\ handler' = [handler EXCEPT !.count = taken, !.written = taken, !.at = "send"]
  <2> DEFINE real == LocalCount + OtherCount
             made == IF real < MaxUnclean THEN MaxUnclean - real ELSE 0
             taken == AtMost(real + made, MaxUnclean)
  <2>1. real \in Int
    BY <1>1
  <2> HIDE DEF real
  <2>2. taken \in Int /\ taken <= MaxUnclean
    BY <2>1, MatchAssumption DEF AtMost
  <2>3. handler' = [handler EXCEPT !.count = taken, !.written = taken, !.at = "send"]
    BY DEF real
  <2> HIDE DEF taken
  <2> QED  BY <2>2, <2>3
<1>3. /\ handler' \in HandlerType
      /\ handler'.at = "send" /\ handler'.from = handler.from /\ handler'.written = taken
  BY <1>2 DEF Typed, HandlerType
<1>4. Typed'
  BY <1>3 DEF Typed
<1>5. Locked'
  BY <1>3 DEF Locked
<1>6. Distinct'
  BY <1>3, DistinctKept
<1>7. Room'
  BY <1>2, <1>3, MatchAssumption DEF Room, AnswerFits
<1> QED  BY <1>4, <1>5, <1>6, <1>7, CondemnedKept

(* The queries are evaluated again for the count in the answer.            *)
LEMMA WriteCountInv ==
  ASSUME IInv, WriteCount
  PROVE  IInv'
<1> USE DEF IInv, WriteCount, sessionVars
<1>1. LocalCount \in Nat /\ OtherCount \in Int
  BY QueryCounts DEF Typed, HandlerType
<1>2. LocalCount + OtherCount \in Int
  BY <1>1
<1>3. /\ handler' \in HandlerType
      /\ handler'.at = "write" /\ handler'.from = handler.from /\ handler'.remaining = handler.remaining
      /\ handler'.unclean = handler.unclean
  BY <1>2 DEF Typed, HandlerType
<1>4. Typed'
  BY <1>3 DEF Typed
<1>5. Locked'
  BY <1>3 DEF Locked
<1>6. Distinct'
  BY <1>3, DistinctKept
<1>7. LocalCount' = LocalCount
  BY <1>3, SameCount
<1>8. Room'
  BY <1>3, <1>7 DEF Room, AnswerFits
<1> QED  BY <1>4, <1>5, <1>6, <1>8, CondemnedKept

(* The rest that was left by the count of the first step is still enough.  *)
LEMMA WriteInv ==
  ASSUME IInv, Write
  PROVE  IInv'
<1> USE DEF IInv, sessionVars
<1>1. handler' = [handler EXCEPT !.written = LocalCount + OtherCount, !.at = "send"]
  BY DEF Write
<1>2. /\ handler.at = "write"
      /\ UNCHANGED <<sessions, sessionVars, lock, cleaner, enumerating, servers>>
  BY DEF Write
<1>3. LocalCount \in Nat /\ OtherCount \in Int /\ OtherCount <= handler.remaining /\ handler.remaining \in Int
  BY QueryCounts DEF Typed, HandlerType
<1>4. LocalCount + OtherCount \in Int
  BY <1>3
<1>5. /\ handler' \in HandlerType
      /\ handler'.at = "send" /\ handler'.from = handler.from /\ handler'.written = LocalCount + OtherCount
  BY <1>1, <1>4 DEF Typed, HandlerType
<1>6. Typed'
  BY <1>2, <1>5 DEF Typed
<1>7. Locked'
  BY <1>2, <1>5 DEF Locked
<1>8. Distinct'
  BY <1>2, <1>5, DistinctKept
<1>9. Room'
  <2>1. handler.remaining + LocalCount <= MaxAnswer
    BY <1>2 DEF Room
  <2>2. LocalCount + OtherCount <= MaxAnswer
    BY <1>3, <2>1, MatchAssumption
  <2> QED  BY <1>5, <2>2 DEF Room, AnswerFits
<1> QED  BY <1>2, <1>6, <1>7, <1>8, <1>9, CondemnedKept

(* The answer is sent and the lock released.                               *)
LEMMA SendInv ==
  ASSUME IInv, Send
  PROVE  IInv'
<1> USE DEF IInv, Send, Release, sessionVars
<1>1. Typed'
  BY IdleHandlerTyped DEF Typed
<1>2. Locked'
  BY IdleHandlerTyped DEF Locked
<1>3. Distinct'
  BY IdleHandlerTyped, DistinctKept
<1> QED  BY <1>1, <1>2, <1>3, IdleHandlerTyped, CondemnedKept, NoAnswer

-----------------------------------------------------------------------------
(* The steps of the cleaner: as long as it works the handler makes no      *)
(* answer.                                                                 *)

(* The lock keeps the answers apart from the cleaner.                      *)
LEMMA NoAnswerWhileCleaning ==
  ASSUME IInv, cleaner.at \in Cleaning \/ lock = "free", UNCHANGED handler
  PROVE  Room'
BY DEF IInv, Locked, Room, AnswerFits

(* A cleaner between two rounds.                                           *)
LEMMA IdleCleanerTyped == IdleCleaner \in CleanerType /\ IdleCleaner.at = "idle" /\ IdleCleaner.dead = <<>>
BY DEF IdleCleaner, CleanerType, Waiting

(* A round of the main loop that has not reached this playlist.            *)
LEMMA WaitingInv ==
  ASSUME IInv, NEW place \in Waiting, cleaner' = [IdleCleaner EXCEPT !.at = place],
         UNCHANGED <<sessions, sessionVars, lock, handler, enumerating, servers>>
  PROVE  IInv'
<1> USE DEF IInv, sessionVars
<1>1. cleaner' \in CleanerType /\ cleaner'.at = place /\ cleaner'.dead = <<>>
  BY IdleCleanerTyped DEF CleanerType
<1>2. Typed'
  BY <1>1 DEF Typed
<1>3. Locked'
  BY <1>1 DEF Locked, Waiting, Cleaning
<1>4. Condemned' /\ NoKeepAliveLost'
  BY <1>1 DEF Condemned, NoKeepAliveLost, Waiting
<1>5. Distinct'
  BY DistinctKept DEF Distinct
<1>6. LocalCount' = LocalCount
  BY SameCount
<1>7. Room'
  BY <1>6 DEF Room, AnswerFits
<1> QED  BY <1>2, <1>3, <1>4, <1>5, <1>7

LEMMA BeforeCleaningInv ==
  ASSUME IInv, Round \/ RoundFails \/ Reach
  PROVE  IInv'
<1>1. [IdleCleaner EXCEPT !.at = "idle"] = IdleCleaner
  BY DEF IdleCleaner
<1>2. CASE Round
  BY <1>2, WaitingInv DEF Round, Waiting
<1>3. CASE RoundFails
  BY <1>1, <1>3, WaitingInv DEF RoundFails, Waiting
<1>4. CASE Reach
  BY <1>4, WaitingInv DEF Reach, Waiting
<1> QED  BY <1>2, <1>3, <1>4

(* A round begins when nobody has the lock.                                *)
LEMMA CleanBeginInv ==
  ASSUME IInv, CleanBegin
  PROVE  IInv'
<1> USE DEF IInv, CleanBegin, sessionVars
<1>1. cleaner' \in CleanerType /\ cleaner'.at = "scan" /\ cleaner'.dead = <<>>
  BY IdleCleanerTyped DEF CleanerType, Cleaning
<1>2. Typed'
  BY <1>1 DEF Typed, Enumerator
<1>3. Locked'
  BY DEF Locked, MayLock
<1>4. Condemned' /\ NoKeepAliveLost'
  BY <1>1 DEF Condemned, NoKeepAliveLost
<1>5. Distinct'
  BY DistinctKept DEF Distinct
<1> QED  BY <1>2, <1>3, <1>4, <1>5, NoAnswerWhileCleaning DEF MayLock

(* A round ends, with an exception or without.                             *)
LEMMA CleanEndsInv ==
  ASSUME IInv, CleanEnds, cleaner.at \in Cleaning, enumerating' \subseteq enumerating,
         UNCHANGED <<sessions, sessionVars, handler, servers>>
  PROVE  IInv'
<1> USE DEF IInv, CleanEnds, Release, sessionVars
<1>1. Typed'
  BY IdleCleanerTyped DEF Typed
<1>2. Locked'
  BY IdleCleanerTyped DEF Locked, Cleaning
<1>3. Condemned' /\ NoKeepAliveLost'
  BY IdleCleanerTyped DEF Condemned, NoKeepAliveLost
<1>4. Distinct'
  BY DistinctKept DEF Distinct
<1> QED  BY <1>1, <1>2, <1>3, <1>4, NoAnswerWhileCleaning

(* What the cleaner is going to remove has expired.                        *)
LEMMA ExpiredFound ==
  ASSUME sessions \in Seq(Session), NEW dead \in CanBeSafelyDeleted
  PROVE  dead \in Seq(Session) /\ \A i \in DOMAIN dead : dead[i] \in Listed /\ Expired(dead[i])
<1> DEFINE S == {s \in Listed : Expired(s)}
<1>1. dead \in [1 .. Cardinality(S) -> S]
  BY DEF CanBeSafelyDeleted, SetToSeqs
<1>2. Cardinality(S) \in Nat
  <2>1. S \in SUBSET Listed
    OBVIOUS
  <2> QED  BY <2>1, CountsOfList
<1>3. Listed \subseteq Session
  BY DEF Listed, ToSet
<1> HIDE DEF S
<1>4. dead \in Seq(S)
  BY <1>1, <1>2
<1> QED  BY <1>1, <1>3, <1>4 DEF S

(* The decision what to remove, or the exception of a list that changed.   *)
LEMMA ScanInv ==
  ASSUME IInv, Scan
  PROVE  IInv'
<1> USE DEF IInv, sessionVars
<1>1. cleaner.at = "scan" /\ enumerating' \subseteq enumerating /\ UNCHANGED <<sessions, sessionVars, handler, servers>>
  BY DEF Scan
<1>2. CASE "cleaner" \notin enumerating
  BY <1>1, <1>2, CleanEndsInv DEF Scan, Cleaning
<1>3. CASE "cleaner" \in enumerating
  <2>1. PICK dead \in CanBeSafelyDeleted : cleaner' = [cleaner EXCEPT !.dead = dead, !.at = "indexOf"]
    BY <1>3 DEF Scan
  <2>2. dead \in Seq(Session) /\ \A i \in DOMAIN dead : dead[i] \in Listed /\ Expired(dead[i])
    BY ExpiredFound DEF Typed
  <2>3. cleaner' \in CleanerType /\ cleaner'.at = "indexOf" /\ cleaner'.dead = dead
    BY <2>1, <2>2 DEF Typed, CleanerType, Cleaning
  <2>4. lock' = lock
    BY <1>3 DEF Scan
  <2>5. Typed'
    BY <1>1, <2>3, <2>4 DEF Typed
  <2>6. Locked'
    BY <1>1, <2>3, <2>4 DEF Locked, Cleaning
  <2>7. Condemned'
    <3>1. \A i \in DOMAIN dead : host[dead[i]] # NoHost
      BY <2>2 DEF Distinct, Listed, ToSet
    <3> QED  BY <1>1, <2>3, <3>1 DEF Condemned, Waiting
  <2>8. NoKeepAliveLost'
    BY <1>1, <2>2, <2>3 DEF NoKeepAliveLost, Expired
  <2>9. Distinct'
    BY <1>1, DistinctKept DEF Distinct
  <2> QED  BY <1>1, <2>5, <2>6, <2>7, <2>8, <2>9, NoAnswerWhileCleaning DEF Cleaning
<1> QED  BY <1>2, <1>3

(* The cleaner goes on with the session it removes.                        *)
LEMMA CleanerGoesInv ==
  ASSUME IInv, cleaner.at \in Cleaning, cleaner.dead # <<>>,
         NEW place \in {"removeAt", "forget"}, NEW index \in Nat,
         cleaner' = [cleaner EXCEPT !.at = place, !.index = index],
         UNCHANGED <<sessionVars, lock, handler, servers>>,
         sessions' \in Seq(Session), enumerating' \subseteq Enumerator, Distinct'
  PROVE  IInv'
<1> USE DEF IInv, sessionVars
<1>1. cleaner' \in CleanerType /\ cleaner'.at = place /\ cleaner'.dead = cleaner.dead
  BY DEF Typed, CleanerType, Cleaning
<1>2. Typed'
  BY <1>1 DEF Typed
<1>3. Locked'
  BY <1>1 DEF Locked
<1>4. Condemned' /\ NoKeepAliveLost'
  BY <1>1 DEF Condemned, NoKeepAliveLost, Expired, Waiting
<1> QED  BY <1>2, <1>3, <1>4, NoAnswerWhileCleaning

(* The first half of the Remove of the cleaner.                            *)
LEMMA CleanIndexOfInv ==
  ASSUME IInv, CleanIndexOf
  PROVE  IInv'
<1> USE DEF sessionVars
<1>1. cleaner.at = "indexOf" /\ UNCHANGED <<sessions, sessionVars, handler, enumerating, servers>>
  BY DEF CleanIndexOf
<1>2. Distinct' /\ sessions' \in Seq(Session) /\ enumerating' \subseteq Enumerator
  BY <1>1, DistinctKept DEF IInv, Distinct, Typed
<1>3. CASE cleaner.dead = <<>>
  BY <1>1, <1>3, CleanEndsInv DEF CleanIndexOf, Cleaning
<1>4. CASE cleaner.dead # <<>> /\ Head(cleaner.dead) \in Listed
  <2> DEFINE place == CHOOSE i \in DOMAIN sessions : sessions[i] = Head(cleaner.dead)
  <2>1. place \in Nat
    BY <1>4, PlaceOf DEF IInv, Typed
  <2>2. cleaner' = [cleaner EXCEPT !.index = place, !.at = "removeAt"] /\ lock' = lock
    BY <1>4 DEF CleanIndexOf
  <2> HIDE DEF place
  <2>3. cleaner' = [cleaner EXCEPT !.at = "removeAt", !.index = place]
    BY <2>1, <2>2 DEF IInv, Typed, CleanerType
  <2> QED  BY <1>1, <1>2, <1>4, <2>1, <2>2, <2>3, CleanerGoesInv DEF Cleaning
<1>5. CASE cleaner.dead # <<>> /\ Head(cleaner.dead) \notin Listed
  <2>1. /\ cleaner' = [cleaner EXCEPT !.at = "forget", !.index = cleaner.index]
        /\ cleaner.index \in Nat /\ lock' = lock
    BY <1>5 DEF CleanIndexOf, IInv, Typed, CleanerType
  <2> QED  BY <1>1, <1>2, <1>5, <2>1, CleanerGoesInv DEF Cleaning
<1> QED  BY <1>3, <1>4, <1>5

(* The second half, which can find the place gone.                         *)
LEMMA CleanRemoveInv ==
  ASSUME IInv, CleanRemove
  PROVE  IInv'
<1> USE DEF sessionVars
<1>1. cleaner.at = "removeAt" /\ UNCHANGED <<sessionVars, handler, servers>>
  BY DEF CleanRemove
<1>2. CASE cleaner.index \in DOMAIN sessions
  <2>1. /\ sessions' = RemoveAt(sessions, cleaner.index) /\ enumerating' = {} /\ lock' = lock
        /\ cleaner' = [cleaner EXCEPT !.at = "forget"]
    BY <1>2 DEF CleanRemove
  <2>2. sessions' \in Seq(Session) /\ Distinct'
    BY <1>1, <1>2, <2>1, DistinctAfterRemoveAt DEF IInv
  <2>3. enumerating' \subseteq Enumerator
    BY <2>1
  <2>4. cleaner' = [cleaner EXCEPT !.at = "forget", !.index = cleaner.index] /\ cleaner.index \in Nat
    BY <2>1 DEF IInv, Typed, CleanerType
  <2>5. cleaner.dead # <<>>
    BY <1>1 DEF IInv, Condemned
  <2> QED  BY <1>1, <2>1, <2>2, <2>3, <2>4, <2>5, CleanerGoesInv DEF Cleaning
<1>3. CASE cleaner.index \notin DOMAIN sessions
  BY <1>1, <1>3, CleanEndsInv DEF CleanRemove, Cleaning
<1> QED  BY <1>2, <1>3

(* The address goes too, and the next session is up.                       *)
LEMMA CleanForgetInv ==
  ASSUME IInv, CleanForget
  PROVE  IInv'
<1> USE DEF IInv, CleanForget, sessionVars
<1>1. cleaner.dead \in Seq(Session) /\ cleaner.dead # <<>>
  BY DEF Condemned, Typed, CleanerType
<1>2. /\ Tail(cleaner.dead) \in Seq(Session)
      /\ \A i \in DOMAIN Tail(cleaner.dead) :
           i + 1 \in DOMAIN cleaner.dead /\ Tail(cleaner.dead)[i] = cleaner.dead[i + 1]
  BY <1>1
<1>3. cleaner' \in CleanerType /\ cleaner'.at = "indexOf" /\ cleaner'.dead = Tail(cleaner.dead)
  BY <1>2 DEF Typed, CleanerType, Cleaning
<1>4. Typed'
  BY <1>3 DEF Typed
<1>5. Locked'
  BY <1>3 DEF Locked, Cleaning
<1>6. Condemned' /\ NoKeepAliveLost'
  BY <1>2, <1>3 DEF Condemned, NoKeepAliveLost, Expired, Waiting
<1>7. Distinct'
  BY DistinctKept DEF Distinct
<1> QED  BY <1>4, <1>5, <1>6, <1>7, NoAnswerWhileCleaning DEF Cleaning

-----------------------------------------------------------------------------
(* Time passes: what has expired stays expired, and fewer sessions are     *)
(* fresh.                                                                  *)
LEMMA TickInv ==
  ASSUME IInv, Tick
  PROVE  IInv'
<1> USE DEF IInv, Tick
<1>1. \A s \in Session : host[s] # NoHost => age[s] \in 0 .. 4 /\ age'[s] \in 0 .. 4 /\ age[s] <= age'[s]
  BY DEF Typed, AtMost, MaxAge
<1>2. Typed'
  <2>1. \A s \in Session : (IF host[s] = NoHost THEN 0 ELSE AtMost(age[s] + 1, MaxAge)) \in 0 .. MaxAge
    BY DEF Typed, AtMost, MaxAge
  <2>2. age' \in [Session -> 0 .. MaxAge]
    BY <2>1
  <2> QED  BY <2>2 DEF Typed
<1>3. Locked' /\ Condemned'
  BY DEF Locked, Condemned
<1>4. NoKeepAliveLost'
  <2>1. \A i \in DOMAIN cleaner.dead : cleaner.dead[i] \in Session /\ host[cleaner.dead[i]] # NoHost
    BY DEF Typed, CleanerType, Condemned
  <2> QED  BY <1>1, <2>1 DEF NoKeepAliveLost, Expired
<1>5. Distinct'
  BY DistinctKept DEF Distinct
<1>6. Room'
  <2>1. \A s \in Listed : s \in Session /\ host[s] # NoHost
    BY DEF Listed, ToSet, Typed, Distinct
  <2>2. Listed' = Listed
    BY DEF Listed
  <2>3. Candidates' \subseteq Candidates
    BY <1>1, <2>1, <2>2 DEF Candidates, Fresh
  <2> DEFINE h == handler.from
  <2>4. Local(h)' \subseteq Local(h)
    BY <2>3 DEF Local
  <2>5. Local(h) \in SUBSET Listed
    BY DEF Local, Candidates
  <2>6. /\ Cardinality(Local(h)') \in Nat /\ Cardinality(Local(h)) \in Nat
        /\ Cardinality(Local(h)') <= Cardinality(Local(h))
    BY <2>4, <2>5, CountsOfList DEF Typed
  <2>7. /\ LocalCount' = AtMost(Cardinality(Local(h)'), MaxLocal)
        /\ LocalCount = AtMost(Cardinality(Local(h)), MaxLocal)
    BY DEF LocalCount
  <2>8. LocalCount' \in Nat /\ LocalCount \in Nat /\ LocalCount' <= LocalCount
    BY <2>6, <2>7, MatchAssumption DEF AtMost
  <2> QED  BY <2>8, MatchAssumption DEF Room, AnswerFits, Typed, HandlerType
<1> QED  BY <1>2, <1>3, <1>4, <1>5, <1>6

-----------------------------------------------------------------------------
(* Every step of MatchServer keeps the invariant.                          *)
LEMMA MatchStepInv == IInv /\ [MatchNext]_vars => IInv'
<1>1. ASSUME IInv, MatchNext PROVE IInv'
  <2>1. CASE \E h \in Host, command \in Command : Receive(h, command)
    BY <1>1, <2>1, ReceiveInv
  <2>2. CASE HandlerStep
    <3>1. CASE EnumerationFails
      BY <1>1, <3>1, HandlerFailsInv DEF EnumerationFails
    <3>2. CASE NotAllowed
      BY <1>1, <3>2, HandlerFailsInv DEF NotAllowed, HandlerFails
    <3>3. CASE \E s \in Session : Add(s)
      BY <1>1, <3>3, AddInv
    <3> QED  BY <1>1, <2>2, <3>1, <3>2, <3>3, CountInv, FirstInv, TouchInv, IndexOfInv,
                RemoveSessionInv,
                ForgetInv, KeepAliveInv, ListBeginInv, ListSessionsInv, PadInv, WriteCountInv, WriteInv, SendInv DEF HandlerStep
  <2>3. CASE CleanerStep
    BY <1>1, <2>3, BeforeCleaningInv, CleanBeginInv, ScanInv, CleanIndexOfInv, CleanRemoveInv,
       CleanForgetInv DEF CleanerStep
  <2>4. CASE Tick
    BY <1>1, <2>4, TickInv
  <2>5. CASE RoundFails
    BY <1>1, <2>5, BeforeCleaningInv
  <2> QED  BY <1>1, <2>1, <2>2, <2>3, <2>4, <2>5 DEF MatchNext
<1>2. ASSUME IInv, UNCHANGED vars PROVE IInv'
  <2>1. \A h : ByHost(h)' = ByHost(h)
    BY <1>2 DEF vars, ByHost
  <2>2. Distinct'
    BY <1>2, DistinctKept DEF vars, IInv, Distinct
  <2>3. Condemned' /\ NoKeepAliveLost'
    BY <1>2, CondemnedKept DEF vars, IInv, sessionVars
  <2>4. LocalCount' = LocalCount
    BY <1>2, SameCount DEF vars
  <2>5. Room'
    BY <1>2, <2>4 DEF vars, IInv, Room, AnswerFits
  <2> QED  BY <1>2, <2>2, <2>3, <2>5 DEF vars, IInv, Typed, Locked
<1> QED  BY <1>1, <1>2

(* The types of whole records imply those of the run.                      *)
LEMMA TypedSatisfiesTypeOK == Typed => TypeOK
BY DEF Typed, TypeOK, HandlerType, CleanerType

(* The records of the threads, the list and the times keep their types.    *)
THEOREM MatchTypeCorrect == Spec => []TypeOK
<1>1. IInv => TypeOK
  BY TypedSatisfiesTypeOK DEF IInv
<1> QED  BY InitInv, MatchStepInv, <1>1, PTL DEF Spec

(* A host never has two sessions in the list, although the register        *)
(* handler looks and adds in steps of its own and without the lock.        *)
THEOREM MatchOneSessionPerHost == Spec => []OneSessionPerHost
<1>1. IInv => OneSessionPerHost
  BY DEF IInv, Distinct
<1> QED  BY InitInv, MatchStepInv, <1>1, PTL DEF Spec

(* A session the cleaner has decided to remove has expired if it was ever  *)
(* kept alive: no keep-alive comes between the decision and the removal.   *)
THEOREM MatchNoKeepAliveLost == Spec => []NoKeepAliveLost
<1>1. IInv => NoKeepAliveLost
  BY DEF IInv
<1> QED  BY InitInv, MatchStepInv, <1>1, PTL DEF Spec

(* No answer has more sessions than MaxAnswer, although its three queries  *)
(* are evaluated one after the other while time goes on.                   *)
THEOREM MatchAnswerFits == Spec => []AnswerFits
<1>1. IInv => AnswerFits
  BY DEF IInv, Room
<1> QED  BY InitInv, MatchStepInv, <1>1, PTL DEF Spec

-----------------------------------------------------------------------------
(* The server list: ServerParser                                           *)

CallbackType ==
  [at : {"idle", "0hpong", "statusResponse", "fill", "store", "advanced"}, from : Host \cup {NoHost}]

PageType == [at : {"idle", "elements"}, count : Nat]

(* The entries are finitely many; who is asked and answers is a host; the  *)
(* callback has emptied the data of the pong it is about to store.         *)
Answers ==
  /\ data \in [Host -> ServerData]
  /\ servers \subseteq Host /\ IsFiniteSet(servers)
  /\ callback \in CallbackType
  /\ callback.at # "idle" => callback.from \in Host
  /\ callback.at = "store" => data[callback.from].GameData = "empty"
  /\ page \in PageType

PInv == IInv /\ Answers /\ NoNullRead /\ NoMoreThanCounted

(* The parser thread, the callback and the page leave the sessions alone.  *)
LEMMA ParserStepKeepsMatch ==
  ASSUME IInv, Answers, ParserStep
  PROVE  IInv'
<1>1. /\ UNCHANGED <<sessions, sessionVars, lock, handler, cleaner>>
      /\ enumerating' \subseteq enumerating \cup Enumerator
      /\ servers' \subseteq servers \cup Host
  <2> USE DEF ParserStep, vars, sessionVars, Answers
  <2>1. CASE ParseBegin
    BY <2>1 DEF ParseBegin, Enumerator
  <2>2. CASE Queue \/ ParseFails
    BY <2>2 DEF Queue, ParseFails, QueueStops
  <2>3. CASE QueryEnds \/ PongFill \/ StartAdvancedQuery \/ PageCount \/ PageElements
    BY <2>3 DEF QueryEnds, PongFill, StartAdvancedQuery, PageCount, PageElements
  <2>4. CASE PongEntry \/ PongStore \/ StatusResponse
    BY <2>4 DEF PongEntry, PongStore, StatusResponse
  <2>5. CASE \E h \in Host : StartQuery(h)
    BY <2>5 DEF StartQuery
  <2>6. CASE \E h \in Host, query \in Query : Received(h, query)
    BY <2>6 DEF Received
  <2> QED  BY <2>1, <2>2, <2>3, <2>4, <2>5, <2>6
<1>2. Typed'
  BY <1>1 DEF IInv, Typed, sessionVars
<1>3. Locked'
  BY <1>1 DEF IInv, Locked
<1>4. Condemned' /\ NoKeepAliveLost'
  BY <1>1, CondemnedKept DEF IInv
<1>5. Distinct'
  BY <1>1, DistinctKept DEF IInv, Distinct, sessionVars
<1>6. LocalCount' = LocalCount
  BY <1>1, SameCount DEF sessionVars
<1>7. Room'
  BY <1>1, <1>6 DEF IInv, Room, AnswerFits
<1> QED  BY <1>2, <1>3, <1>4, <1>5, <1>7 DEF IInv

(* MatchServer only ever takes entries out of the server list.             *)
LEMMA MatchForgets ==
  ASSUME MatchNext
  PROVE  servers' \subseteq servers
<1>1. CASE HandlerStep
  BY <1>1 DEF HandlerStep, EnumerationFails, Count, First, Touch, Add, NotAllowed, IndexOf,
     RemoveSession,
     Forget, KeepAlive, ListBegin, ListSessions, Pad, WriteCount, Write, Send
<1>2. CASE CleanerStep
  BY <1>2 DEF CleanerStep, Round, Reach, CleanBegin, Scan, CleanIndexOf, CleanRemove, CleanForget
<1> QED  BY <1>1, <1>2 DEF MatchNext, Receive, RoundFails, Tick

(* An entry that goes or stays hidden adds nothing to what is shown.       *)
LEMMA ShowsNoMore ==
  ASSUME Answers, NoMoreThanCounted, Shown' \subseteq Shown,
         page'.at = "elements" => page.at = "elements" /\ page'.count = page.count
  PROVE  NoMoreThanCounted'
<1>1. Shown \subseteq servers
  BY DEF Shown
<1>2. IsFiniteSet(Shown)
  BY <1>1, FS_Subset DEF Answers
<1>3. Cardinality(Shown') \in Nat /\ Cardinality(Shown) \in Nat /\ Cardinality(Shown') <= Cardinality(Shown)
  BY <1>2, FS_Subset, FS_CardinalityType
<1> QED  BY <1>3 DEF Answers, CallbackType, PageType, NoMoreThanCounted

(* The steps of MatchServer remove entries only.                           *)
LEMMA MatchStepAnswers ==
  ASSUME PInv, MatchStep
  PROVE  (Answers /\ NoNullRead /\ NoMoreThanCounted)'
<1> USE DEF PInv
<1>1. servers' \subseteq servers
  BY MatchForgets DEF MatchStep
<1>2. /\ page' \in PageType
      /\ page'.at = "elements" => page.at = "elements" /\ page'.count = page.count
  BY DEF MatchStep, parserVars, Answers
<1>3. IsFiniteSet(servers') /\ servers' \subseteq Host
  BY <1>1, FS_Subset DEF Answers
<1>4. UNCHANGED <<callback, data>>
  BY DEF MatchStep, parserVars
<1>5. Answers'
  BY <1>2, <1>3, <1>4 DEF Answers
<1>6. NoNullRead'
  BY <1>4 DEF NoNullRead
<1>7. Shown' \subseteq Shown
  BY <1>1, <1>4 DEF Shown
<1> QED  BY <1>2, <1>5, <1>6, <1>7, ShowsNoMore

(* A pong makes no server visible: its new object has no address, and the  *)
(* object it finds is emptied before it is stored.  The first access.      *)
LEMMA PongEntryAnswers ==
  ASSUME Answers, NoNullRead, NoMoreThanCounted, PongEntry
  PROVE  (Answers /\ NoNullRead /\ NoMoreThanCounted)'
<1> DEFINE h == callback.from
<1>1. h \in Host /\ callback.at = "0hpong" /\ callback' = [callback EXCEPT !.at = "fill"]
  BY DEF Answers, PongEntry, CallbackGoes
<1>2. callback' \in CallbackType
      /\ callback'.at = "fill" /\ callback'.from = h
  BY <1>1 DEF Answers, CallbackType, PageType
<1>4. /\ page' \in PageType
      /\ page'.at = "elements" => page.at = "elements" /\ page'.count = page.count
  BY DEF PongEntry, Answers
<1>5. CASE h \in servers
  <2>1. UNCHANGED <<servers, data>>
    BY <1>5 DEF PongEntry
  <2>2. Answers' /\ NoNullRead'
    BY <1>1, <1>2, <1>4, <2>1 DEF Answers, NoNullRead
  <2>3. Shown' \subseteq Shown
    BY <2>1 DEF Shown
  <2> QED  BY <1>4, <2>2, <2>3, ShowsNoMore
<1>6. CASE h \notin servers
  <2>1. servers' = servers \cup {h} /\ data' = [data EXCEPT ![h] = NewServerData]
    BY <1>6 DEF PongEntry
  <2>2. NewServerData \in ServerData /\ ~NewServerData.Address
    BY DEF NewServerData, ServerData
  <2>3. data' \in [Host -> ServerData] /\ \A g \in Host : data'[g] = IF g = h THEN NewServerData ELSE data[g]
    BY <2>1, <2>2 DEF Answers
  <2>4. IsFiniteSet(servers')
    BY <2>1, FS_AddElement DEF Answers
  <2>5. Answers'
    BY <1>1, <1>2, <1>4, <2>1, <2>3, <2>4 DEF Answers
  <2>6. NoNullRead'
    BY <2>2, <2>3 DEF NoNullRead
  <2>7. Shown' \subseteq Shown
    <3> SUFFICES ASSUME NEW g \in servers', data'[g].Address, data'[g].GameData = "full"
                 PROVE  g \in servers /\ data[g].Address /\ data[g].GameData = "full"
      BY DEF Shown
    <3>1. g \in Host
      BY <1>1, <2>1 DEF Answers
    <3> QED  BY <2>1, <2>2, <2>3, <3>1
  <2> QED  BY <1>4, <2>5, <2>6, <2>7, ShowsNoMore
<1> QED  BY <1>5, <1>6

(* The second access of a pong: GameData becomes empty.                    *)
LEMMA PongFillAnswers ==
  ASSUME Answers, NoNullRead, NoMoreThanCounted, PongFill
  PROVE  (Answers /\ NoNullRead /\ NoMoreThanCounted)'
<1> DEFINE h == callback.from
<1>1. h \in Host /\ callback.at = "fill" /\ callback' = [callback EXCEPT !.at = "store"]
      /\ UNCHANGED <<servers, page>>
  BY DEF Answers, PongFill, CallbackGoes, vars
<1>2. data' = [data EXCEPT ![h].GameData = "empty"]
  BY DEF PongFill
<1>3. /\ data' \in [Host -> ServerData]
      /\ \A g \in Host : g # h => data'[g] = data[g]
      /\ data'[h].GameData = "empty"
  BY <1>1, <1>2 DEF Answers, ServerData
<1>4. callback' \in CallbackType
      /\ callback'.at = "store" /\ callback'.from = h
  BY <1>1 DEF Answers, CallbackType, PageType
<1>5. Answers'
  BY <1>1, <1>3, <1>4 DEF Answers
<1>6. NoNullRead'
  <2> SUFFICES ASSUME NEW g \in Host, data'[g].Address PROVE data'[g].GameData # "null"
    BY DEF NoNullRead
  <2> QED  BY <1>3 DEF NoNullRead
<1>7. Shown' \subseteq Shown
  BY <1>1, <1>3 DEF Shown, Answers
<1> QED  BY <1>1, <1>5, <1>6, <1>7, ShowsNoMore

(* The third access stores the object that was emptied.                    *)
LEMMA PongStoreAnswers ==
  ASSUME Answers, NoNullRead, NoMoreThanCounted, PongStore
  PROVE  (Answers /\ NoNullRead /\ NoMoreThanCounted)'
<1> DEFINE h == callback.from
<1>1. h \in Host /\ callback.at = "store" /\ callback' = [callback EXCEPT !.at = "advanced"]
      /\ UNCHANGED data /\ servers' = servers \cup {h} /\ page' = page
  BY DEF Answers, PongStore, CallbackGoes
<1>2. callback' \in CallbackType
      /\ callback'.at = "advanced" /\ callback'.from = h
  BY <1>1 DEF Answers, CallbackType, PageType
<1>3. /\ page' \in PageType
      /\ page'.at = "elements" => page.at = "elements" /\ page'.count = page.count
  BY <1>1 DEF Answers
<1>4. IsFiniteSet(servers')
  BY <1>1, FS_AddElement DEF Answers
<1>5. Answers'
  BY <1>1, <1>2, <1>3, <1>4 DEF Answers
<1>6. NoNullRead'
  BY <1>1 DEF NoNullRead
<1>7. Shown' \subseteq Shown
  BY <1>1 DEF Shown, Answers
<1> QED  BY <1>3, <1>5, <1>6, <1>7, ShowsNoMore

(* A statusResponse makes a server visible, but never while the page is    *)
(* between its two evaluations.                                            *)
LEMMA StatusResponseAnswers ==
  ASSUME Answers, NoNullRead, NoMoreThanCounted, StatusResponse
  PROVE  (Answers /\ NoNullRead /\ NoMoreThanCounted)'
<1> DEFINE h == callback.from
           full == [GameData |-> "full", Address |-> TRUE]
<1>1. /\ h \in Host /\ servers' = servers \cup {h} /\ page.at = "idle" /\ page' = page
      /\ callback' = [at |-> "idle", from |-> NoHost]
      /\ data' = [data EXCEPT ![h] = full]
  BY DEF Answers, StatusResponse, MayStore, CallbackEnds
<1>2. full \in ServerData /\ full.GameData # "null"
  BY DEF ServerData
<1>3. data' \in [Host -> ServerData] /\ \A g \in Host : data'[g] = IF g = h THEN full ELSE data[g]
  BY <1>1, <1>2 DEF Answers
<1>4. IsFiniteSet(servers')
  BY <1>1, FS_AddElement DEF Answers
<1>5. Answers'
  BY <1>1, <1>3, <1>4 DEF Answers, CallbackType, PageType
<1>6. NoNullRead'
  BY <1>2, <1>3 DEF NoNullRead
<1>7. NoMoreThanCounted'
  BY <1>1 DEF NoMoreThanCounted
<1> QED  BY <1>5, <1>6, <1>7

(* The steps of the parser thread and of the page, and answers received,   *)
(* which change neither entries nor data.                                  *)
LEMMA OtherParserStepAnswers ==
  ASSUME Answers, NoNullRead, NoMoreThanCounted, UNCHANGED <<servers, data>>,
         \/ UNCHANGED <<callback, page>>
         \/ StartAdvancedQuery \/ PageCount \/ PageElements
         \/ \E h \in Host, query \in Query : Received(h, query)
  PROVE  (Answers /\ NoNullRead /\ NoMoreThanCounted)'
<1>1. Shown' = Shown
  BY DEF Shown
<1>2. Shown \in SUBSET servers
  BY DEF Shown
<1>3. Cardinality(Shown) \in Nat
  BY <1>2, FS_Subset, FS_CardinalityType DEF Answers
<1>4. /\ callback' \in CallbackType
      /\ callback'.at # "idle" => callback'.from \in Host
      /\ callback'.at = "store" => callback' = callback
  <2>1. CASE UNCHANGED callback
    BY <2>1 DEF Answers
  <2>2. CASE StartAdvancedQuery
    BY <2>2 DEF CallbackType, StartAdvancedQuery, CallbackEnds
  <2>3. CASE \E h \in Host, query \in Query : Received(h, query)
    <3>1. PICK h \in Host, kind \in {"0hpong", "statusResponse"} : callback' = [at |-> kind, from |-> h]
      BY <2>3 DEF Received, Answer, Query
    <3> QED  BY <3>1 DEF CallbackType
  <2> QED  BY <2>1, <2>2, <2>3 DEF PageCount, PageElements
<1>5. /\ page' \in PageType
      /\ page'.at = "elements" => page' = page \/ page'.count = Cardinality(Shown)
  <2>1. CASE UNCHANGED page
    BY <2>1 DEF Answers
  <2>2. CASE PageCount
    <3>1. page' = [at |-> "elements", count |-> Cardinality(Shown)]
      BY <2>2 DEF PageCount
    <3> QED  BY <1>3, <3>1 DEF PageType
  <2>3. CASE PageElements
    BY <2>3 DEF PageType, PageElements
  <2> QED  BY <2>1, <2>2, <2>3 DEF StartAdvancedQuery, Received
<1>6. Answers'
  BY <1>4, <1>5 DEF Answers
<1>7. NoNullRead'
  BY DEF NoNullRead
<1>8. NoMoreThanCounted'
  BY <1>1, <1>3, <1>5 DEF NoMoreThanCounted
<1> QED  BY <1>6, <1>7, <1>8

(* The initial states satisfy the invariant.                               *)
LEMMA ParserInitInv == ParserInit => PInv
<1> SUFFICES ASSUME ParserInit PROVE PInv
  OBVIOUS
<1>1. IInv /\ servers = {} /\ page = [at |-> "idle", count |-> 0]
      /\ callback = [at |-> "idle", from |-> NoHost] /\ data = [h \in Host |-> NewServerData]
  BY InitInv DEF ParserInit, Init
<1>2. Answers
  BY <1>1, FS_EmptySet DEF Answers, CallbackType, PageType, NewServerData, ServerData
<1>3. NoNullRead /\ NoMoreThanCounted
  BY <1>1 DEF NoNullRead, NoMoreThanCounted, NewServerData
<1> QED  BY <1>1, <1>2, <1>3 DEF PInv

(* Every step of the composition keeps the invariant.                      *)
LEMMA ParserStepInv == PInv /\ [ParserNext]_allVars => PInv'
<1>1. ASSUME PInv, MatchStep PROVE PInv'
  BY <1>1, MatchStepInv, MatchStepAnswers DEF PInv, MatchStep
<1>2. ASSUME PInv, ParserStep PROVE PInv'
  <2>1. IInv'
    BY <1>2, ParserStepKeepsMatch DEF PInv
  <2>2. (Answers /\ NoNullRead /\ NoMoreThanCounted)'
    <3>1. CASE PongEntry \/ PongFill \/ PongStore \/ StatusResponse
      BY <1>2, <3>1, PongEntryAnswers, PongFillAnswers, PongStoreAnswers,
         StatusResponseAnswers DEF PInv
    <3>2. CASE ParseBegin \/ Queue \/ (\E h \in Host : StartQuery(h)) \/ QueryEnds \/ ParseFails
      <4>1. UNCHANGED <<servers, data, callback, page>>
        BY <3>2 DEF ParseBegin, Queue, StartQuery, QueryEnds, ParseFails, vars
      <4> QED  BY <1>2, <4>1, OtherParserStepAnswers DEF PInv
    <3>3. CASE StartAdvancedQuery \/ PageCount \/ PageElements
      <4>1. UNCHANGED <<servers, data>>
        BY <3>3 DEF StartAdvancedQuery, PageCount, PageElements, vars
      <4> QED  BY <1>2, <3>3, <4>1, OtherParserStepAnswers DEF PInv
    <3>4. CASE \E h \in Host, query \in Query : Received(h, query)
      <4>1. UNCHANGED <<servers, data>>
        BY <3>4 DEF Received, vars
      <4> QED  BY <1>2, <3>4, <4>1, OtherParserStepAnswers DEF PInv
    <3> QED  BY <1>2, <3>1, <3>2, <3>3, <3>4 DEF ParserStep
  <2> QED  BY <2>1, <2>2 DEF PInv
<1>3. ASSUME PInv, UNCHANGED allVars PROVE PInv'
  <2>1. UNCHANGED vars /\ UNCHANGED <<servers, data, callback, page>>
    BY <1>3 DEF allVars, parserVars, vars
  <2> QED  BY <1>3, <2>1, MatchStepInv, OtherParserStepAnswers DEF PInv
<1> QED  BY <1>1, <1>2, <1>3 DEF ParserNext

(* The page never reads the data of a new object: an object has an address *)
(* only after its data are set, although pongs change objects unlocked.    *)
THEOREM ParserNoNullRead == ParserSpec => []NoNullRead
<1>1. PInv => NoNullRead
  BY DEF PInv
<1> QED  BY ParserInitInv, ParserStepInv, <1>1, PTL DEF ParserSpec

(* The elements of the page are at most the servers it has counted.        *)
THEOREM ParserNoMoreThanCounted == ParserSpec => []NoMoreThanCounted
<1>1. PInv => NoMoreThanCounted
  BY DEF PInv
<1> QED  BY ParserInitInv, ParserStepInv, <1>1, PTL DEF ParserSpec

(* The threads of the server list take nothing away from what holds of the *)
(* sessions: one per host, no keep-alive lost, answers that fit.           *)
THEOREM ParserKeepsMatch == ParserSpec => [](TypeOK /\ OneSessionPerHost /\ NoKeepAliveLost /\ AnswerFits)
<1>1. PInv => TypeOK /\ OneSessionPerHost /\ NoKeepAliveLost /\ AnswerFits
  BY TypedSatisfiesTypeOK DEF PInv, IInv, Distinct, Room
<1> QED  BY ParserInitInv, ParserStepInv, <1>1, PTL DEF ParserSpec
=============================================================================
