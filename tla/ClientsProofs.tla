---------------------------- MODULE ClientsProofs ----------------------------
(***************************************************************************)
(* What holds of Clients for every set of clients and threads and every    *)
(* ban list: nobody changes the table of clients under an enumeration, and *)
(* a detection stays in the dictionary of the CI server for six hours.     *)
(***************************************************************************)
EXTENDS Clients, TLAPS

Age == {"absent", "old", "fresh"}
CIState == {"absent", "clean", "detected"}
Place == {"idle", "get", "add", "adding", "fetch", "use", "orphan", "count", "counting",
          "ciGet", "ciAdd", "ciUse", "ciOrphan"}
Handler == [pc : Place, xuid : Xuid \cup {NoXuid}, race : SUBSET (Xuid \cup {NoXuid})]
Cleaner == [pc : {"sleep", "open", "read", "sessions", "clean", "scan", "remove"}, line : Nat, left : SUBSET Xuid, gone : SUBSET Xuid]

Typed ==
  /\ clients \in [Xuid -> Age]
  /\ ci \in [Xuid -> CIState]
  /\ handler \in [Thread -> Handler]
  /\ main \in Cleaner

(* Who is between the two ends of a lock statement holds the lock.         *)
Locked ==
  /\ \A t \in Thread : At(t, "adding") \/ At(t, "counting") => lock = t
  /\ main.pc \in {"scan", "remove"} => lock = Main

(* A thread that looks for a client or has one knows which; one it has is  *)
(* in the table.                                                           *)
Known ==
  /\ \A t \in Thread : handler[t].pc \notin {"idle", "count", "counting"} => handler[t].xuid \in Xuid
  /\ \A t \in Thread : At(t, "use") => handler[t].xuid \in Present

IInv == Typed /\ Locked /\ Known

-----------------------------------------------------------------------------
(* The initial states satisfy the invariant.                               *)
LEMMA InitInv == Init => IInv
BY ClientsAssumption DEF Init, IInv, Typed, Locked, Known, Idle, Asleep, At, Handler, Cleaner, Place, Age, CIState, Present

(* A thread moves, and takes or releases the lock or leaves it alone.      *)
LEMMA Moves ==
  ASSUME IInv, NEW t \in Thread, NEW h \in Handler,
         handler' = [handler EXCEPT ![t] = h],
         h.pc \notin {"idle", "count", "counting"} => h.xuid \in Xuid,
         h.pc = "use" => h.xuid \in Present',
         clients' \in [Xuid -> Age], Present \subseteq Present',
         ci' \in [Xuid -> CIState],
         main' = main,
         \/ lock' = lock /\ h.pc \notin {"adding", "counting"}
         \/ lock = Free /\ lock' = t
         \/ lock = t /\ lock' = Free /\ h.pc \notin {"adding", "counting"}
  PROVE  IInv'
<1>1. Typed'
  BY DEF IInv, Typed
<1>2. handler'[t] = h /\ \A u \in Thread \ {t} : handler'[u] = handler[u]
  BY DEF IInv, Typed
<1>3. Locked'
  BY <1>2, ClientsAssumption DEF IInv, Locked, At
<1>4. Known'
  BY <1>2 DEF IInv, Known, At
<1> QED  BY <1>1, <1>3, <1>4 DEF IInv

(* A record whose place is changed is one of a thread still.               *)
LEMMA HandlerPc ==
  ASSUME NEW h \in Handler, NEW p \in Place
  PROVE  /\ [h EXCEPT !.pc = p] \in Handler
         /\ [h EXCEPT !.pc = p].pc = p
         /\ [h EXCEPT !.pc = p].xuid = h.xuid
BY DEF Handler

(* The record of an idle thread is well formed.                            *)
LEMMA IdleType == Idle \in Handler /\ Idle.pc = "idle"
BY DEF Idle, Handler, Place

(* A thread that knows its client goes to another place.                   *)
LEMMA GotoInv ==
  ASSUME IInv, NEW t \in Thread, NEW p \in Place \ {"adding", "counting"}, Goto(t, p),
         handler[t].xuid \in Xuid, p = "use" => handler[t].xuid \in Present,
         ci' \in [Xuid -> CIState], UNCHANGED <<clients, lock, main>>
  PROVE  IInv'
<1> DEFINE h == [handler[t] EXCEPT !.pc = p]
<1>1. handler[t] \in Handler
  BY DEF IInv, Typed
<1>2. h \in Handler /\ h.pc = p /\ h.xuid = handler[t].xuid
  BY <1>1, HandlerPc
<1>3. handler' = [handler EXCEPT ![t] = h]
  BY DEF Goto
<1>4. Present' = Present /\ clients' \in [Xuid -> Age]
  BY DEF Present, IInv, Typed
<1> HIDE DEF h
<1> QED  BY <1>2, <1>3, <1>4, Moves

(* The packet or page ends.                                                *)
LEMMA EndsInv ==
  ASSUME IInv, NEW t \in Thread, Ends(t),
         clients' \in [Xuid -> Age], Present \subseteq Present',
         ci' \in [Xuid -> CIState], main' = main,
         lock' = lock \/ (lock = t /\ lock' = Free)
  PROVE  IInv'
BY IdleType, Moves DEF Ends

(* Where a thread is says what it knows.                                   *)
LEMMA KnowsClient ==
  ASSUME IInv, NEW t \in Thread, handler[t].pc \notin {"idle", "count", "counting"}
  PROVE  handler[t].xuid \in Xuid /\ handler[t] \in Handler
BY DEF IInv, Known, Typed

(* A step that leaves the table alone keeps who is present.                *)
LEMMA SameTable ==
  ASSUME IInv, UNCHANGED clients
  PROVE  Present' = Present /\ clients' \in [Xuid -> Age]
BY DEF IInv, Typed, Present

(* The records of the CI server stay well formed when they are not         *)
(* touched.                                                                *)
LEMMA SameCI == ASSUME IInv, UNCHANGED ci PROVE ci' \in [Xuid -> CIState]
BY DEF IInv, Typed

-----------------------------------------------------------------------------
(* The steps of a thread.                                                  *)

LEMMA ReceiveInv == ASSUME IInv, NEW t \in Thread, Receive(t) PROVE IInv'
<1>1. UNCHANGED <<clients, lock, ci, main>> /\ handler[t] \in Handler /\ About[t] \subseteq Xuid
  BY ClientsAssumption DEF Receive, IInv, Typed
<1>2. ASSUME NEW x \in About[t], handler' = [handler EXCEPT ![t].pc = "get", ![t].xuid = x]
      PROVE  IInv'
  <2> DEFINE h == [handler[t] EXCEPT !.pc = "get", !.xuid = x]
  <2>1. h \in Handler /\ h.pc = "get" /\ h.xuid = x
    BY <1>1 DEF Handler, Place
  <2>2. handler' = [handler EXCEPT ![t] = h]
    BY <1>2
  <2> HIDE DEF h
  <2> QED  BY <1>1, <2>1, <2>2, Moves, SameCI, SameTable
<1>3. ASSUME handler' = [handler EXCEPT ![t].pc = "count"]
      PROVE  IInv'
  <2> DEFINE h == [handler[t] EXCEPT !.pc = "count"]
  <2>1. h \in Handler /\ h.pc = "count"
    BY <1>1, HandlerPc DEF Place
  <2>2. handler' = [handler EXCEPT ![t] = h]
    BY <1>3
  <2> HIDE DEF h
  <2> QED  BY <1>1, <2>1, <2>2, Moves, SameCI, SameTable
<1> QED  BY <1>2, <1>3 DEF Receive

(* The first look at the dictionary of clients.                            *)
LEMMA ContainsKeyInv == ASSUME IInv, NEW t \in Thread, ContainsKey(t) PROVE IInv'
<1>1. handler[t].xuid \in Xuid
  BY KnowsClient DEF ContainsKey, At
<1>2. \E p \in {"fetch", "add"} : Goto(t, p)
  BY DEF ContainsKey
<1> QED  BY <1>1, <1>2, GotoInv, SameCI DEF ContainsKey, Place

(* The second look, which a cleanup in between may make fail.              *)
LEMMA FetchInv == ASSUME IInv, NEW t \in Thread, Fetch(t) PROVE IInv'
<1>1. handler[t].xuid \in Xuid
  BY KnowsClient DEF Fetch, At
<1>2. CASE handler[t].xuid \in Present /\ Goto(t, "use")
  BY <1>1, <1>2, GotoInv, SameCI DEF Fetch, Place
<1>3. CASE Ends(t)
  BY <1>3, EndsInv, SameCI, SameTable DEF Fetch
<1> QED  BY <1>2, <1>3 DEF Fetch

(* The uses of the client that was fetched.                                *)
LEMMA UseInv == ASSUME IInv, NEW t \in Thread, Alias(t) \/ Status(t) \/ Clean(t) PROVE IInv'
<1>1. handler[t].xuid \in Xuid /\ UNCHANGED <<clients, lock, bans, ci, main, banlist>>
  BY KnowsClient DEF Alias, Status, Clean, At
<1>2. CASE Goto(t, "ciGet")
  BY <1>1, <1>2, GotoInv, SameCI DEF Place
<1>3. CASE Ends(t)
  BY <1>1, <1>3, EndsInv, SameCI, SameTable
<1> QED  BY <1>2, <1>3 DEF Alias, Status, Clean

(* Only a client that is in the table is touched there.                    *)
LEMMA TouchKeeps ==
  ASSUME IInv, NEW t \in Thread, At(t, "use") \/ At(t, "orphan"), SetLastTouched(t)
  PROVE  Present' = Present /\ clients' \in [Xuid -> Age]
BY DEF IInv, Typed, Known, At, Present, Age, SetLastTouched

(* The steps that write the time of the last touch.                        *)
LEMMA TouchInv == ASSUME IInv, NEW t \in Thread, Touch(t) \/ Login(t) PROVE IInv' /\ Present' = Present
<1>1. Present' = Present /\ clients' \in [Xuid -> Age]
  BY TouchKeeps DEF Touch, Login
<1>2. UNCHANGED <<lock, ci, main>>
  BY DEF Touch, Login
<1>3. CASE Ends(t)
  BY <1>1, <1>2, <1>3, EndsInv, SameCI
<1>4. CASE handler' = [handler EXCEPT ![t] = [Idle EXCEPT !.pc = "count"]]
  <2> DEFINE h == [Idle EXCEPT !.pc = "count"]
  <2>1. h \in Handler /\ h.pc = "count"
    BY IdleType, HandlerPc DEF Place
  <2> HIDE DEF h
  <2> QED  BY <1>1, <1>2, <1>4, <2>1, Moves, SameCI DEF h
<1> QED  BY <1>1, <1>3, <1>4 DEF Touch, Login

(* Taking the lock.                                                        *)
LEMMA AddBeginInv == ASSUME IInv, NEW t \in Thread, AddBegin(t) PROVE IInv'
<1> DEFINE h == [handler[t] EXCEPT !.pc = "adding"]
<1>1. handler[t].xuid \in Xuid /\ handler[t] \in Handler
  BY KnowsClient DEF AddBegin, At
<1>2. h \in Handler /\ h.pc = "adding" /\ h.xuid = handler[t].xuid
  BY <1>1, HandlerPc DEF Place
<1>3. handler' = [handler EXCEPT ![t] = h] /\ lock = Free /\ lock' = t /\ UNCHANGED <<clients, ci, main>>
  BY DEF AddBegin, Goto, MayLock
<1> HIDE DEF h
<1> QED  BY <1>1, <1>2, <1>3, Moves, SameCI, SameTable

(* The thread that adds holds the lock.                                    *)
LEMMA AddEndInv == ASSUME IInv, NEW t \in Thread, AddEnd(t) PROVE IInv'
<1> DEFINE h == [handler[t] EXCEPT !.pc = "fetch"]
<1>1. handler[t].xuid \in Xuid /\ handler[t] \in Handler
  BY KnowsClient DEF AddEnd, At
<1>2. lock = t /\ lock' = Free /\ main' = main /\ ci' = ci
  BY DEF AddEnd, IInv, Locked
<1>3. CASE handler[t].xuid \in Present
  BY <1>2, <1>3, EndsInv, SameCI, SameTable DEF AddEnd
<1>4. CASE handler[t].xuid \notin Present
  <2>1. clients' = [clients EXCEPT ![handler[t].xuid] = "old"] /\ handler' = [handler EXCEPT ![t] = h]
    BY <1>4 DEF AddEnd, Goto
  <2>2. clients' \in [Xuid -> Age] /\ Present \subseteq Present'
    BY <1>1, <2>1 DEF IInv, Typed, Age, Present
  <2>3. h \in Handler /\ h.pc = "fetch" /\ h.xuid = handler[t].xuid
    BY <1>1, HandlerPc DEF Place
  <2> HIDE DEF h
  <2> QED  BY <1>1, <1>2, <2>1, <2>2, <2>3, Moves, SameCI
<1> QED  BY <1>3, <1>4

(* Counting the clients, an enumeration that fails when the dictionary     *)
(* changes under it.                                                       *)
LEMMA CountInv == ASSUME IInv, NEW t \in Thread, CountBegin(t) \/ CountEnd(t) PROVE IInv'
<1>1. handler[t] \in Handler /\ UNCHANGED <<clients, ci, main>>
  BY DEF IInv, Typed, CountBegin, CountEnd
<1>2. CASE CountBegin(t)
  <2> DEFINE h == [handler[t] EXCEPT !.pc = "counting"]
  <2>1. h \in Handler /\ h.pc = "counting"
    BY <1>1, HandlerPc DEF Place
  <2>2. handler' = [handler EXCEPT ![t] = h] /\ lock = Free /\ lock' = t
    BY <1>2 DEF CountBegin, Goto, MayLock
  <2> HIDE DEF h
  <2> QED  BY <1>1, <2>1, <2>2, Moves, SameCI, SameTable
<1>3. CASE CountEnd(t)
  <2>1. lock = t /\ lock' = Free /\ Ends(t)
    BY <1>3 DEF CountEnd, IInv, Locked
  <2> QED  BY <1>1, <2>1, EndsInv, SameCI, SameTable
<1> QED  BY <1>2, <1>3

(* The dictionary of the CI server: threads that add meanwhile, or whose   *)
(* object is lost, only change the places that no lock protects.           *)
LEMMA ElsewhereInv ==
  ASSUME IInv, handler' \in [Thread -> Handler],
         \A u \in Thread : handler'[u].pc \notin {"adding", "counting", "use"} \/ handler'[u] = handler[u],
         \A u \in Thread : handler'[u].pc \notin {"idle", "count", "counting"} => handler'[u].xuid \in Xuid,
         ci' \in [Xuid -> CIState],
         UNCHANGED <<clients, lock, main>>
  PROVE  IInv'
<1>1. Typed'
  BY DEF IInv, Typed
<1>2. Locked'
  BY DEF IInv, Locked, At
<1>3. Known'
  BY SameTable DEF IInv, Known, At
<1> QED  BY <1>1, <1>2, <1>3 DEF IInv

(* The first look at the dictionary of the CI server.                      *)
LEMMA CiContainsKeyInv == ASSUME IInv, NEW t \in Thread, CiContainsKey(t) PROVE IInv'
<1>1. handler[t].xuid \in Xuid /\ UNCHANGED <<clients, lock, ci, main>>
  BY KnowsClient DEF CiContainsKey, At
<1>2. CASE Goto(t, "ciUse")
  BY <1>1, <1>2, GotoInv, SameCI DEF Place
<1>3. CASE Ends(t)
  BY <1>1, <1>3, EndsInv, SameCI, SameTable
<1>4. ASSUME handler' = [u \in Thread |->
               IF u = t THEN [handler[t] EXCEPT !.pc = "ciAdd", !.race = {handler[v].xuid : v \in Adding(t)}]
               ELSE IF u \in Adding(t) THEN [handler[u] EXCEPT !.race = @ \cup {handler[t].xuid}]
               ELSE handler[u]]
      PROVE  IInv'
  <2>1. handler \in [Thread -> Handler]
    BY DEF IInv, Typed
  <2>2. \A u \in Thread : handler[u].xuid \in Xuid \cup {NoXuid}
    BY <2>1 DEF Handler
  <2>3. {handler[v].xuid : v \in Adding(t)} \subseteq Xuid \cup {NoXuid}
    BY <2>2 DEF Adding
  <2>4. ASSUME NEW u \in Thread
        PROVE  /\ handler'[u] \in Handler
               /\ handler'[u].xuid = handler[u].xuid
               /\ handler'[u].pc \notin {"adding", "counting", "use"} \/ handler'[u] = handler[u]
               /\ handler'[u].pc \notin {"idle", "count", "counting"} => handler'[u].xuid \in Xuid
    <3>1. CASE u = t
      <4>1. handler'[u] = [handler[t] EXCEPT !.pc = "ciAdd", !.race = {handler[v].xuid : v \in Adding(t)}]
        BY <1>4, <3>1
      <4> QED  BY <1>1, <2>1, <2>3, <3>1, <4>1 DEF Handler, Place
    <3>2. CASE u # t /\ u \in Adding(t)
      <4>1. handler'[u] = [handler[u] EXCEPT !.race = handler[u].race \cup {handler[t].xuid}]
        BY <1>4, <3>2
      <4>2. handler[u].pc = "ciAdd"
        BY <3>2 DEF Adding, At
      <4>3. handler[u].xuid \in Xuid
        BY <4>2, KnowsClient
      <4> QED  BY <1>1, <2>1, <4>1, <4>2, <4>3 DEF Handler, Place
    <3>3. CASE u # t /\ u \notin Adding(t)
      <4>1. handler'[u] = handler[u]
        BY <1>4, <3>3
      <4> QED  BY <2>1, <4>1, KnowsClient
    <3> QED  BY <3>1, <3>2, <3>3
  <2>5. handler' \in [Thread -> Handler]
    BY <1>4, <2>4
  <2> QED  BY <1>1, <2>4, <2>5, ElsewhereInv, SameCI
<1> QED  BY <1>2, <1>3, <1>4 DEF CiContainsKey

(* Whatever entry is lost, only places around the dictionary change.       *)
LEMMA CiAddEndInv == ASSUME IInv, NEW t \in Thread, CiAddEnd(t) PROVE IInv'
<1>1. handler[t].xuid \in Xuid /\ UNCHANGED <<clients, lock, main>>
  BY KnowsClient DEF CiAddEnd, At
<1>2. CASE Ends(t) /\ UNCHANGED ci
  BY <1>1, <1>2, EndsInv, SameCI, SameTable
<1>3. ASSUME NEW lost,
             ci' = [y \in Xuid |-> IF y = handler[t].xuid /\ lost # handler[t].xuid THEN "clean"
                                   ELSE IF y = lost /\ lost # handler[t].xuid THEN "absent" ELSE ci[y]],
             handler' = [u \in Thread |->
               IF u = t THEN [handler[t] EXCEPT !.pc = IF lost = handler[t].xuid THEN "ciOrphan" ELSE "ciUse", !.race = {}]
               ELSE IF At(u, "ciUse") /\ lost # handler[t].xuid /\ handler[u].xuid \in {lost, handler[t].xuid}
               THEN [handler[u] EXCEPT !.pc = "ciOrphan"]
               ELSE handler[u]]
      PROVE  IInv'
  <2>1. handler \in [Thread -> Handler]
    BY DEF IInv, Typed
  <2>2. ci' \in [Xuid -> CIState]
    BY <1>3 DEF IInv, Typed, CIState
  <2>3. ASSUME NEW u \in Thread
        PROVE  /\ handler'[u] \in Handler
               /\ handler'[u].pc \notin {"adding", "counting", "use"} \/ handler'[u] = handler[u]
               /\ handler'[u].pc \notin {"idle", "count", "counting"} => handler'[u].xuid \in Xuid
    <3>1. CASE u = t
      <4>1. PICK p \in {"ciOrphan", "ciUse"} : handler'[u] = [handler[t] EXCEPT !.pc = p, !.race = {}]
        BY <1>3, <3>1
      <4>2. handler[t] \in Handler
        BY <2>1
      <4>3. handler'[u] \in Handler /\ handler'[u].pc = p /\ handler'[u].xuid = handler[t].xuid
        BY <4>1, <4>2 DEF Handler, Place
      <4> QED  BY <1>1, <4>3
    <3>2. CASE u # t /\ handler'[u] = [handler[u] EXCEPT !.pc = "ciOrphan"] /\ At(u, "ciUse")
      <4>1. handler[u].xuid \in Xuid
        BY <3>2, KnowsClient DEF At
      <4>2. handler[u] \in Handler /\ "ciOrphan" \in Place
        BY <2>1 DEF Place
      <4>3. handler'[u] \in Handler /\ handler'[u].pc = "ciOrphan" /\ handler'[u].xuid = handler[u].xuid
        BY <3>2, <4>2, HandlerPc
      <4> QED  BY <4>1, <4>3
    <3>3. CASE handler'[u] = handler[u]
      BY <2>1, <3>3, KnowsClient
    <3> QED  BY <1>3, <3>1, <3>2, <3>3
  <2>4. handler' \in [Thread -> Handler]
    BY <1>3, <2>3
  <2> QED  BY <1>1, <2>2, <2>3, <2>4, ElsewhereInv
<1> QED  BY <1>2, <1>3 DEF CiAddEnd

(* The report of an unclean client, and the read of its reasons.           *)
LEMMA ReportInv == ASSUME IInv, NEW t \in Thread, Report(t) \/ ReadUnclean(t) PROVE IInv'
<1>1. Ends(t) /\ UNCHANGED <<clients, lock, main>>
  BY DEF Report, ReadUnclean
<1>2. ci' \in [Xuid -> CIState]
  BY DEF IInv, Typed, CIState, Report, ReadUnclean, SetUnclean
<1> QED  BY <1>1, <1>2, EndsInv, SameTable

-----------------------------------------------------------------------------
(* The main loop, and time.                                                *)

LEMMA RoundInv == ASSUME IInv, Round \/ OpenBans \/ ReadLine \/ BansRead \/ Sessions \/ RoundFails PROVE IInv'
<1>1. UNCHANGED <<clients, lock, ci, handler>>
  BY DEF Round, OpenBans, ReadLine, BansRead, Sessions, RoundFails
<1>2. main' \in Cleaner /\ main'.pc \notin {"scan", "remove"}
  BY DEF IInv, Typed, Cleaner, Asleep, Round, OpenBans, ReadLine, BansRead, Sessions, RoundFails
<1> QED  BY <1>1, <1>2 DEF IInv, Typed, Locked, Known, At, Present

(* The cleanup starts and has condemned nobody.                            *)
LEMMA CleanBeginInv == ASSUME IInv, CleanBegin PROVE IInv'
<1>1. UNCHANGED <<clients, ci, handler>> /\ lock = Free /\ lock' = Main
  BY DEF CleanBegin, MayLock
<1>2. main' \in Cleaner
  BY DEF IInv, Typed, Cleaner, CleanBegin, Present
<1>3. \A t \in Thread : ~At(t, "adding") /\ ~At(t, "counting")
  BY <1>1, ClientsAssumption DEF IInv, Locked
<1> QED  BY <1>1, <1>2, <1>3 DEF IInv, Typed, Locked, Known, At, Present

(* The cleanup condemns only clients it saw untouched for long.            *)
LEMMA ScanInv == ASSUME IInv, NEW x \in Xuid, Scan(x) PROVE IInv'
<1>1. UNCHANGED <<clients, lock, ci, handler>> /\ main.pc = "scan"
  BY DEF Scan
<1>2. main' \in Cleaner
  <2>1. main \in Cleaner
    BY DEF IInv, Typed
  <2>2. PICK gone \in {main.gone, main.gone \cup {x}} : main' = [main EXCEPT !.left = main.left \ {x}, !.gone = gone]
    BY DEF Scan
  <2> QED  BY <2>1, <2>2 DEF Cleaner
<1> QED  BY <1>1, <1>2 DEF IInv, Typed, Locked, Known, At, Present

(* The cleanup removes what it condemned.                                  *)
LEMMA CleanEndInv == ASSUME IInv, CleanEnd PROVE IInv'
<1>1. UNCHANGED <<clients, ci, handler>> /\ lock = Main /\ lock' = Free
  BY DEF CleanEnd, IInv, Locked
<1>2. main' \in Cleaner /\ main'.pc = "sleep"
  BY DEF CleanEnd, Cleaner, Asleep
<1>3. \A t \in Thread : ~At(t, "adding") /\ ~At(t, "counting")
  BY <1>1, ClientsAssumption DEF IInv, Locked
<1> QED  BY <1>1, <1>2, <1>3 DEF IInv, Typed, Locked, Known, At, Present

(* A thread that has the client removed goes on with an orphan.            *)
LEMMA RemoveInv == ASSUME IInv, NEW x \in Xuid, Remove(x) PROVE IInv'
<1>1. UNCHANGED <<lock, ci>> /\ lock = Main
  BY DEF Remove, IInv, Locked
<1>2. main' \in Cleaner
  BY DEF Remove, IInv, Typed, Cleaner
<1>3. clients' \in [Xuid -> Age] /\ Present \ {x} \subseteq Present'
  BY DEF Remove, IInv, Typed, Age, Present
<1>4. ASSUME NEW t \in Thread
      PROVE  /\ handler'[t] \in Handler
             /\ ~At(t, "adding")' /\ ~At(t, "counting")'
             /\ handler'[t].pc \notin {"idle", "count", "counting"} => handler'[t].xuid \in Xuid
             /\ At(t, "use")' => handler'[t].xuid \in Present'
  <2>1. handler[t] \in Handler /\ ~At(t, "adding") /\ ~At(t, "counting")
    BY <1>1, ClientsAssumption DEF IInv, Typed, Locked
  <2>2. CASE At(t, "use") /\ handler[t].xuid = x
    <3>1. handler'[t] = [handler[t] EXCEPT !.pc = "orphan"]
      BY <2>2 DEF Remove
    <3>2. handler[t].xuid \in Xuid /\ "orphan" \in Place
      BY <2>2, KnowsClient DEF At, Place
    <3>3. handler'[t] \in Handler /\ handler'[t].pc = "orphan" /\ handler'[t].xuid = handler[t].xuid
      BY <2>1, <3>1, <3>2, HandlerPc
    <3> QED  BY <3>2, <3>3 DEF At
  <2>3. CASE ~(At(t, "use") /\ handler[t].xuid = x)
    <3>1. handler'[t] = handler[t]
      BY <2>3 DEF Remove
    <3> QED  BY <1>3, <2>1, <2>3, <3>1 DEF IInv, Known, At
  <2> QED  BY <2>2, <2>3
<1>5. handler' \in [Thread -> Handler]
  BY <1>4 DEF Remove
<1> QED  BY <1>1, <1>2, <1>3, <1>4, <1>5 DEF IInv, Typed, Locked, Known, At

(* Time makes clients old and takes nothing out.                           *)
LEMMA TimeInv == ASSUME IInv, NEW x \in Xuid, TenMinutesPass(x) \/ SixHoursPass(x) PROVE IInv' /\ Present' = Present
<1>1. UNCHANGED <<lock, handler, main>>
  BY DEF TenMinutesPass, SixHoursPass
<1>2. clients' \in [Xuid -> Age] /\ Present' = Present /\ ci' \in [Xuid -> CIState]
  BY DEF IInv, Typed, Present, Age, CIState, TenMinutesPass, SixHoursPass
<1> QED  BY <1>1, <1>2 DEF IInv, Typed, Locked, Known, At

-----------------------------------------------------------------------------
(* Every step keeps the invariant.                                         *)
LEMMA NextInv == IInv /\ [Next]_vars => IInv'
<1> SUFFICES ASSUME IInv, [Next]_vars PROVE IInv'
  OBVIOUS
<1>1. CASE UNCHANGED vars
  BY <1>1 DEF vars, IInv, Typed, Locked, Known, At, Present
<1>2. ASSUME NEW t \in Thread, Receive(t) \/ AddBegin(t) \/ CountBegin(t) \/ Handle(t)
      PROVE  IInv'
  BY <1>2, ReceiveInv, AddBeginInv, CountInv, ContainsKeyInv, AddEndInv, FetchInv, TouchInv, UseInv,
     CiContainsKeyInv, CiAddEndInv, ReportInv DEF Handle
<1>3. CASE MainStep \/ CleanBegin \/ RoundFails
  <2>1. Round \/ OpenBans \/ ReadLine \/ BansRead \/ Sessions \/ RoundFails => IInv'
    BY RoundInv
  <2>2. CleanBegin \/ CleanEnd => IInv'
    BY CleanBeginInv, CleanEndInv
  <2>3. ASSUME NEW x \in Xuid, Scan(x) \/ Remove(x)
        PROVE  IInv'
    BY <2>3, ScanInv, RemoveInv
  <2>4. CASE ScanEnd
    <3>1. main' \in Cleaner /\ main.pc = "scan" /\ UNCHANGED <<clients, lock, ci, handler>>
      BY <2>4 DEF IInv, Typed, Cleaner, ScanEnd
    <3> QED  BY <3>1 DEF IInv, Typed, Locked, Known, At, Present
  <2> QED  BY <1>3, <2>1, <2>2, <2>3, <2>4 DEF MainStep
<1>4. ASSUME NEW x \in Xuid, TenMinutesPass(x) \/ SixHoursPass(x)
      PROVE  IInv'
  BY <1>4, TimeInv
<1> QED  BY <1>1, <1>2, <1>3, <1>4 DEF Next

(* Who enumerates holds the lock, so nobody adds or removes meanwhile.     *)
LEMMA NextUndisturbed ==
  ASSUME IInv, [Next]_vars, Enumerating
  PROVE  Present' = Present
<1>1. CASE UNCHANGED clients
  BY <1>1, SameTable
<1>2. ASSUME NEW t \in Thread, AddEnd(t)
      PROVE  FALSE
  <2>1. lock = t /\ At(t, "adding")
    BY <1>2 DEF AddEnd, IInv, Locked
  <2>2. CASE main.pc = "scan"
    BY <2>1, <2>2, ClientsAssumption DEF IInv, Locked
  <2>3. ASSUME NEW u \in Thread, At(u, "counting")
        PROVE  FALSE
    BY <2>1, <2>3 DEF IInv, Locked, At
  <2> QED  BY <2>2, <2>3 DEF Enumerating
<1>3. ASSUME NEW x \in Xuid, Remove(x)
      PROVE  FALSE
  <2>1. lock = Main /\ main.pc = "remove"
    BY <1>3 DEF Remove, IInv, Locked
  <2> QED  BY <2>1, ClientsAssumption DEF Enumerating, IInv, Locked
<1>4. ASSUME NEW t \in Thread, Touch(t) \/ Login(t)
      PROVE  Present' = Present
  BY <1>4, TouchInv
<1>5. ASSUME NEW x \in Xuid, TenMinutesPass(x)
      PROVE  Present' = Present
  BY <1>5, TimeInv
<1>6. CASE Next /\ ~UNCHANGED clients
  <2>1. \A t \in Thread : Receive(t) \/ AddBegin(t) \/ CountBegin(t) => UNCHANGED clients
    BY DEF Receive, AddBegin, CountBegin
  <2>2. \A t \in Thread : Handle(t) => UNCHANGED clients \/ AddEnd(t) \/ Touch(t) \/ Login(t)
    BY DEF Handle, ContainsKey, Fetch, Alias, Status, Clean, CountEnd, CiContainsKey, CiAddEnd, Report, ReadUnclean
  <2>3. MainStep \/ CleanBegin \/ RoundFails => UNCHANGED clients \/ \E x \in Xuid : Remove(x)
    BY DEF MainStep, Round, OpenBans, ReadLine, BansRead, Sessions, Scan, ScanEnd, CleanEnd, CleanBegin, RoundFails
  <2>4. \A x \in Xuid : SixHoursPass(x) => UNCHANGED clients
    BY DEF SixHoursPass
  <2> QED  BY <1>2, <1>3, <1>4, <1>5, <1>6, <2>1, <2>2, <2>3, <2>4 DEF Next
<1> QED  BY <1>1, <1>6 DEF vars

(* Only Adds that overlap, and time, take a detection away.                *)
LEMMA NextKeepsDetected ==
  ASSUME IInv, [Next]_vars, NEW x \in Xuid, ci[x] = "detected"
  PROVE  \/ ci'[x] = "detected"
         \/ SixHoursPass(x)
         \/ \E t \in Thread : x \in handler[t].race /\ CiAddEnd(t)
<1> ci \in [Xuid -> CIState]
  BY DEF IInv, Typed
<1>1. CASE UNCHANGED ci
  BY <1>1
<1>2. ASSUME NEW t \in Thread, CiAddEnd(t), ci'[x] # "detected"
      PROVE  x \in handler[t].race
  <2>1. PICK lost \in IF handler[t].race = {} THEN {NoXuid} ELSE handler[t].race \cup {handler[t].xuid, NoXuid} :
             /\ ci[handler[t].xuid] = "absent" \/ handler[t].xuid \in handler[t].race
             /\ ci' = [y \in Xuid |-> IF y = handler[t].xuid /\ lost # handler[t].xuid THEN "clean"
                                      ELSE IF y = lost /\ lost # handler[t].xuid THEN "absent" ELSE ci[y]]
    BY <1>2 DEF CiAddEnd
  <2>2. CASE x = handler[t].xuid
    BY <2>1, <2>2
  <2>3. CASE x # handler[t].xuid
    <3>1. x = lost
      BY <1>2, <2>1, <2>3
    <3> QED  BY <2>1, <2>3, <3>1, ClientsAssumption
  <2> QED  BY <2>2, <2>3
<1>3. ASSUME NEW t \in Thread, Report(t)
      PROVE  ci'[x] = "detected"
  BY <1>3 DEF Report, SetUnclean
<1>4. ASSUME NEW y \in Xuid, SixHoursPass(y)
      PROVE  ci'[x] = "detected" \/ SixHoursPass(x)
  BY <1>4 DEF SixHoursPass
<1>5. CASE Next /\ ~UNCHANGED ci
  <2>1. \A t \in Thread : Receive(t) \/ AddBegin(t) \/ CountBegin(t) => UNCHANGED ci
    BY DEF Receive, AddBegin, CountBegin
  <2>2. \A t \in Thread : Handle(t) => UNCHANGED ci \/ CiAddEnd(t) \/ Report(t)
    BY DEF Handle, ContainsKey, AddEnd, Fetch, Touch, Login, Alias, Status, Clean, CountEnd, CiContainsKey, ReadUnclean
  <2>3. MainStep \/ CleanBegin \/ RoundFails => UNCHANGED ci
    BY DEF MainStep, Round, OpenBans, ReadLine, BansRead, Sessions, Scan, ScanEnd, Remove, CleanEnd, CleanBegin, RoundFails
  <2>4. \A y \in Xuid : TenMinutesPass(y) => UNCHANGED ci
    BY DEF TenMinutesPass
  <2> QED  BY <1>2, <1>3, <1>4, <1>5, <2>1, <2>2, <2>3, <2>4 DEF Next
<1> QED  BY <1>1, <1>5 DEF vars

-----------------------------------------------------------------------------
(* The inductive invariant holds: the lock is held by whoever adds,        *)
(* enumerates or removes (Client.cs), and an object in use is in the table *)
(* unless the cleaner has removed it.                                      *)
THEOREM InvariantHolds == Spec => []IInv
<1> QED  BY InitInv, NextInv, PTL DEF Spec

(* The enumerations of GetStatistics and CleanClientsThatAreLongGone are   *)
(* never disturbed, although lookups take no lock.                         *)
THEOREM EnumerationsUndisturbed == Spec => Undisturbed
<1>1. IInv /\ [Next]_vars => [Enumerating => Present' = Present]_vars
  BY NextUndisturbed
<1> QED  BY <1>1, InvariantHolds, PTL DEF Spec, Undisturbed

(* A detection stays for six hours (CIServer.cs:38): clean reports, pages  *)
(* and the Adds of other clients that do not overlap leave it alone.       *)
THEOREM DetectionsStay == Spec => DetectedStaysUnclean
<1> DEFINE Kept == \A x \in Xuid :
                     ci[x] = "detected" => \/ ci'[x] = "detected"
                                           \/ SixHoursPass(x)
                                           \/ \E t \in Thread : x \in handler[t].race /\ CiAddEnd(t)
<1>1. IInv /\ [Next]_vars => [Kept]_vars
  BY NextKeepsDetected
<1> HIDE DEF Kept
<1>2. Spec => [][Kept]_vars
  BY <1>1, InvariantHolds, PTL DEF Spec
<1> QED  BY <1>2 DEF Kept, DetectedStaysUnclean
=============================================================================
