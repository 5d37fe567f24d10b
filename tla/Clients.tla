------------------------------- MODULE Clients -------------------------------
(***************************************************************************)
(* What the threads of the IWNet server share: the table of clients and    *)
(* the ban list (Base/Client.cs), the states of the CI server              *)
(* (IWNet/CIServer.cs), and the main loop (Program.cs) that reads the ban  *)
(* list again and removes clients that are long gone.                      *)
(*                                                                         *)
(* The UDP servers handle one packet at a time each; pages run beside      *)
(* them.  An exception ends the packet or the page, nothing else           *)
(* (UdpServer.Run).  XUIDClients is written under its lock and looked up   *)
(* without it; the dictionary of the CI server has no lock.  A lookup      *)
(* beside a write may miss a key that is there, and of two Adds that       *)
(* overlap one may be lost.                                                *)
(*                                                                         *)
(* Of a client only the age of LastTouched is kept: "fresh" up to 600      *)
(* seconds, then "old"; a new object is "old", its LastTouched is not set. *)
(* Of a CI client only whether LastDetected is less than six hours ago.    *)
(* Which packet a thread has received matters after Client.Get, and is     *)
(* chosen there.                                                           *)
(***************************************************************************)
EXTENDS Integers, Sequences

CONSTANTS
  Xuid,         \* the clients
  Thread,       \* the UDP servers and the pages
  Work,         \* what a thread handles: packets and pages
  About,        \* the clients a thread's packets and pages are about
  BanFile,      \* what banlist.txt may hold
  Main,         \* the main loop, as the owner of the lock
  Free,         \* nobody owns the lock
  NoXuid

(* LogServer: "touch", "login", "alias"; IPServer: "touch"; CIServer:      *)
(* "status"; HttpHandler: the pages "stats" and "clean".                   *)
Op == {"touch", "login", "alias", "status", "stats", "clean"}

(* A line names a client, or has an id that cannot be parsed: long.Parse   *)
(* throws a FormatException for one that is no number, and an              *)
(* OverflowException for one that is too long.                             *)
Line == [banned : Xuid] \cup [exception : {"FormatException", "OverflowException"}]

ASSUME ClientsAssumption ==
  /\ Work \in [Thread -> SUBSET Op]
  /\ About \in [Thread -> SUBSET Xuid]
  /\ BanFile \subseteq Seq(Line)
  /\ Main # Free /\ {Main, Free} \cap Thread = {}
  /\ NoXuid \notin Xuid

VARIABLES
  clients,   \* XUIDClients: the age of every client
  lock,      \* who holds the lock of XUIDClients
  bans,      \* XUIDBans
  ci,        \* CIServer._clients
  handler,   \* what each thread is doing
  main,      \* where the main loop is, and what CleanClientsThatAreLongGone has found
  banlist    \* the lines of banlist.txt

vars == <<clients, lock, bans, ci, handler, main, banlist>>

Idle == [pc |-> "idle", xuid |-> NoXuid, race |-> {}]
Asleep == [pc |-> "sleep", line |-> 1, left |-> {}, gone |-> {}]

Init ==
  /\ clients = [x \in Xuid |-> "absent"]
  /\ lock = Free
  /\ bans = {}
  /\ ci = [x \in Xuid |-> "absent"]
  /\ handler = [t \in Thread |-> Idle]
  /\ main = Asleep
  /\ banlist \in BanFile

Present == {x \in Xuid : clients[x] # "absent"}
At(t, pc) == handler[t].pc = pc
Goto(t, pc) == handler' = [handler EXCEPT ![t].pc = pc]
Ends(t) == handler' = [handler EXCEPT ![t] = Idle]

-----------------------------------------------------------------------------
(* The lock of XUIDClients                                                 *)

Unlocked(l) == TRUE   \* mutant: no lock statement
MayLock(l) == l = Free

(* Somebody else is in the middle of an Add or of the removals.            *)
Written(t) == main.pc = "remove" \/ \E u \in Thread \ {t} : At(u, "adding")

-----------------------------------------------------------------------------
(* Client.Get                                                              *)

Receive(t) ==
  /\ At(t, "idle")
  /\ \/ \E x \in About[t] : handler' = [handler EXCEPT ![t].pc = "get", ![t].xuid = x]
     \/ /\ "stats" \in Work[t]
        /\ handler' = [handler EXCEPT ![t].pc = "count"]
  /\ UNCHANGED <<clients, lock, bans, ci, main, banlist>>

ContainsKey(t) ==
  /\ At(t, "get")
  /\ \/ /\ handler[t].xuid \in Present
        /\ Goto(t, "fetch")
     \/ /\ handler[t].xuid \notin Present \/ Written(t)
        /\ Goto(t, "add")
  /\ UNCHANGED <<clients, lock, bans, ci, main, banlist>>

AddBegin(t) ==
  /\ At(t, "add")
  /\ MayLock(lock)
  /\ lock' = t
  /\ Goto(t, "adding")
  /\ UNCHANGED <<clients, bans, ci, main, banlist>>

(* Add throws when another thread has added the client meanwhile; the lock *)
(* is released either way.                                                 *)
AddEnd(t) ==
  /\ At(t, "adding")
  /\ lock' = Free
  /\ IF handler[t].xuid \in Present
     THEN Ends(t) /\ UNCHANGED clients
     ELSE Goto(t, "fetch") /\ clients' = [clients EXCEPT ![handler[t].xuid] = "old"]
  /\ UNCHANGED <<bans, ci, main, banlist>>

(* XUIDClients[xuid] throws when the client has been removed.              *)
Fetch(t) ==
  /\ At(t, "fetch")
  /\ \/ /\ handler[t].xuid \in Present
        /\ Goto(t, "use")
     \/ /\ handler[t].xuid \notin Present \/ Written(t)
        /\ Ends(t)
  /\ UNCHANGED <<clients, lock, bans, ci, main, banlist>>

-----------------------------------------------------------------------------
(* What is done with the client                                            *)

(* An object that is in the table no longer is touched in vain.            *)
SetLastTouched(t) ==
  clients' = IF At(t, "use") THEN [clients EXCEPT ![handler[t].xuid] = "fresh"] ELSE clients

Touch(t) ==
  /\ At(t, "use") \/ At(t, "orphan")
  /\ "touch" \in Work[t]
  /\ SetLastTouched(t)
  /\ Ends(t)
  /\ UNCHANGED <<lock, bans, ci, main, banlist>>

(* SetFromLog; a client of an allowed version gets the statistics.  The    *)
(* checks that follow only choose the answer.                              *)
Login(t) ==
  /\ At(t, "use") \/ At(t, "orphan")
  /\ "login" \in Work[t]
  /\ SetLastTouched(t)
  /\ handler' = [handler EXCEPT ![t] = [Idle EXCEPT !.pc = "count"]] \/ Ends(t)
  /\ UNCHANGED <<lock, bans, ci, main, banlist>>

(* XUIDAlias is set; the client is not touched.                            *)
Alias(t) ==
  /\ At(t, "use") \/ At(t, "orphan")
  /\ "alias" \in Work[t]
  /\ Ends(t)
  /\ UNCHANGED <<clients, lock, bans, ci, main, banlist>>

(* A packet from another address than the login is dropped.                *)
Status(t) ==
  /\ At(t, "use") \/ At(t, "orphan")
  /\ "status" \in Work[t]
  /\ Goto(t, "ciGet") \/ Ends(t)
  /\ UNCHANGED <<clients, lock, bans, ci, main, banlist>>

(* Only for a client that was touched in the last 300 seconds, and is not  *)
(* banned, the page asks the CI server.  An object that is in the table no *)
(* longer may have been touched as well.                                   *)
Clean(t) ==
  /\ At(t, "use") \/ At(t, "orphan")
  /\ "clean" \in Work[t]
  /\ \/ /\ At(t, "use") => clients[handler[t].xuid] = "fresh"
        /\ handler[t].xuid \notin bans
        /\ Goto(t, "ciGet")
     \/ Ends(t)
  /\ UNCHANGED <<clients, lock, bans, ci, main, banlist>>

(* GetStatistics enumerates the table under the lock.                      *)
CountBegin(t) ==
  /\ At(t, "count")
  /\ MayLock(lock)
  /\ lock' = t
  /\ Goto(t, "counting")
  /\ UNCHANGED <<clients, bans, ci, main, banlist>>

CountEnd(t) ==
  /\ At(t, "counting")
  /\ lock' = Free
  /\ Ends(t)
  /\ UNCHANGED <<clients, bans, ci, main, banlist>>

-----------------------------------------------------------------------------
(* CIServer.Get and the property Unclean                                   *)

Adding(t) == {u \in Thread \ {t} : At(u, "ciAdd")}

(* Beside an Add, the lookup after ContainsKey may throw.                  *)
CiContainsKey(t) ==
  /\ At(t, "ciGet")
  /\ LET x == handler[t].xuid
     IN  \/ /\ ci[x] # "absent"
            /\ Goto(t, "ciUse")
         \/ /\ ci[x] # "absent" /\ Adding(t) # {}
            /\ Ends(t)
         \/ /\ ci[x] = "absent" \/ Adding(t) # {}
            /\ handler' = [u \in Thread |->
                 IF u = t THEN [handler[t] EXCEPT !.pc = "ciAdd", !.race = {handler[v].xuid : v \in Adding(t)}]
                 ELSE IF u \in Adding(t) THEN [handler[u] EXCEPT !.race = @ \cup {x}]
                 ELSE handler[u]]
  /\ UNCHANGED <<clients, lock, bans, ci, main, banlist>>

(* Add throws for a key it finds.  Of Adds that overlap the entry of one   *)
(* may be lost, its own (lost = x) or another; with equal keys the later   *)
(* entry hides the earlier.  Whoever has the object of an entry that is    *)
(* lost or hidden works with it in vain.                                   *)
CiAddEnd(t) ==
  /\ At(t, "ciAdd")
  /\ LET x == handler[t].xuid
         race == handler[t].race
     IN  \/ /\ ci[x] # "absent"
            /\ Ends(t)
            /\ UNCHANGED ci
         \/ /\ ci[x] = "absent" \/ x \in race
            /\ \E lost \in IF race = {} THEN {NoXuid} ELSE race \cup {x, NoXuid} :
                 /\ ci' = [y \in Xuid |-> IF y = x /\ lost # x THEN "clean"
                                          ELSE IF y = lost /\ lost # x THEN "absent" ELSE ci[y]]
                 /\ handler' = [u \in Thread |->
                      IF u = t THEN [handler[t] EXCEPT !.pc = IF lost = x THEN "ciOrphan" ELSE "ciUse", !.race = {}]
                      ELSE IF At(u, "ciUse") /\ lost # x /\ handler[u].xuid \in {lost, x}
                      THEN [handler[u] EXCEPT !.pc = "ciOrphan"]
                      ELSE handler[u]]
  /\ UNCHANGED <<clients, lock, bans, main, banlist>>

(* The setter of Unclean: LastDetected is set by a detection only.         *)
CleanForgets(old, detected) == IF detected THEN "detected" ELSE "clean"   \* mutant: a clean report resets LastDetected
SetUnclean(old, detected) == IF detected THEN "detected" ELSE old

Report(t) ==
  /\ At(t, "ciUse") \/ At(t, "ciOrphan")
  /\ "status" \in Work[t]
  /\ \E detected \in BOOLEAN :
       ci' = IF At(t, "ciUse") THEN [ci EXCEPT ![handler[t].xuid] = SetUnclean(@, detected)] ELSE ci
  /\ Ends(t)
  /\ UNCHANGED <<clients, lock, bans, main, banlist>>

(* The getter of Unclean decides what the page says.                       *)
ReadUnclean(t) ==
  /\ At(t, "ciUse") \/ At(t, "ciOrphan")
  /\ "clean" \in Work[t]
  /\ Ends(t)
  /\ UNCHANGED <<clients, lock, bans, ci, main, banlist>>

-----------------------------------------------------------------------------
(* The main loop                                                           *)

(* UpdateBanList starts with empty lists.                                  *)
Round ==
  /\ main.pc = "sleep"
  /\ bans' = {}
  /\ main' = [main EXCEPT !.pc = "open"]
  /\ UNCHANGED <<clients, lock, ci, handler, banlist>>

OpenBans ==
  /\ main.pc = "open"
  /\ main' = [main EXCEPT !.pc = "read"]
  /\ UNCHANGED <<clients, lock, bans, ci, handler, banlist>>

(* A FormatException only skips the line; another one ends the round, and  *)
(* the lines below are not read.                                           *)
NotParsed(line) == "exception" \in DOMAIN line   \* mutant: no catch around the line
Throws(line) == "exception" \in DOMAIN line /\ line.exception # "FormatException"

ReadLine ==
  /\ main.pc = "read"
  /\ main.line <= Len(banlist)
  /\ LET line == banlist[main.line]
     IN  IF Throws(line) THEN main' = Asleep /\ UNCHANGED bans
         ELSE /\ bans' = IF "banned" \in DOMAIN line THEN bans \cup {line.banned} ELSE bans
              /\ main' = [main EXCEPT !.line = @ + 1]
  /\ UNCHANGED <<clients, lock, ci, handler, banlist>>

(* The file is closed.                                                     *)
BansRead ==
  /\ main.pc = "read"
  /\ main.line > Len(banlist)
  /\ main' = [Asleep EXCEPT !.pc = "sessions"]
  /\ UNCHANGED <<clients, lock, bans, ci, handler, banlist>>

(* MatchServer.CleanMyOldMessySessions.                                    *)
Sessions ==
  /\ main.pc = "sessions"
  /\ main' = [Asleep EXCEPT !.pc = "clean"]
  /\ UNCHANGED <<clients, lock, bans, ci, handler, banlist>>

(* The file of the bans cannot be opened, or the sessions of a playlist    *)
(* change while they are cleaned.                                          *)
RoundFails ==
  /\ main.pc \in {"open", "sessions"}
  /\ main' = Asleep
  /\ UNCHANGED <<clients, lock, bans, ci, handler, banlist>>

CleanBegin ==
  /\ main.pc = "clean"
  /\ MayLock(lock)
  /\ lock' = Main
  /\ main' = [main EXCEPT !.pc = "scan", !.left = Present]
  /\ UNCHANGED <<clients, bans, ci, handler, banlist>>

JustHere(age) == age = "fresh"   \* mutant: the comparison the wrong way round
LongGone(age) == age # "fresh"

Scan(x) ==
  /\ main.pc = "scan"
  /\ x \in main.left
  /\ main' = [main EXCEPT !.left = @ \ {x}, !.gone = IF LongGone(clients[x]) THEN @ \cup {x} ELSE @]
  /\ UNCHANGED <<clients, lock, bans, ci, handler, banlist>>

ScanEnd ==
  /\ main.pc = "scan"
  /\ main.left = {}
  /\ main' = [main EXCEPT !.pc = "remove"]
  /\ UNCHANGED <<clients, lock, bans, ci, handler, banlist>>

(* A thread that has the object keeps it.                                  *)
Remove(x) ==
  /\ main.pc = "remove"
  /\ x \in main.gone
  /\ clients' = [clients EXCEPT ![x] = "absent"]
  /\ handler' = [t \in Thread |->
       IF At(t, "use") /\ handler[t].xuid = x THEN [handler[t] EXCEPT !.pc = "orphan"] ELSE handler[t]]
  /\ main' = [main EXCEPT !.gone = @ \ {x}]
  /\ UNCHANGED <<lock, bans, ci, banlist>>

CleanEnd ==
  /\ main.pc = "remove"
  /\ main.gone = {}
  /\ lock' = Free
  /\ main' = Asleep
  /\ UNCHANGED <<clients, bans, ci, handler, banlist>>

-----------------------------------------------------------------------------
(* Time                                                                    *)

TenMinutesPass(x) ==
  /\ clients[x] = "fresh"
  /\ clients' = [clients EXCEPT ![x] = "old"]
  /\ UNCHANGED <<lock, bans, ci, handler, main, banlist>>

SixHoursPass(x) ==
  /\ ci[x] = "detected"
  /\ ci' = [ci EXCEPT ![x] = "clean"]
  /\ UNCHANGED <<clients, lock, bans, handler, main, banlist>>

Handle(t) ==
  \/ ContainsKey(t) \/ AddEnd(t) \/ Fetch(t)
  \/ Touch(t) \/ Login(t) \/ Alias(t) \/ Status(t) \/ Clean(t) \/ CountEnd(t)
  \/ CiContainsKey(t) \/ CiAddEnd(t) \/ Report(t) \/ ReadUnclean(t)

MainStep ==
  \/ Round \/ OpenBans \/ ReadLine \/ BansRead \/ Sessions
  \/ \E x \in Xuid : Scan(x)
  \/ ScanEnd
  \/ \E x \in Xuid : Remove(x)
  \/ CleanEnd

Next ==
  \/ \E t \in Thread : Receive(t) \/ AddBegin(t) \/ CountBegin(t) \/ Handle(t)
  \/ MainStep
  \/ CleanBegin
  \/ RoundFails
  \/ \E x \in Xuid : TenMinutesPass(x) \/ SixHoursPass(x)

Spec == Init /\ [][Next]_vars

(* The main loop goes on, whoever holds the lock releases it, and the      *)
(* cleaner gets it in the end when it waits.  A round may always fail.     *)
FairSpec ==
  /\ Spec
  /\ WF_vars(MainStep)
  /\ SF_vars(CleanBegin)
  /\ WF_vars(\E t \in Thread : AddEnd(t) \/ CountEnd(t))

-----------------------------------------------------------------------------
(* Nobody changes the table while a thread enumerates it, although most    *)
(* threads look clients up without the lock: an enumeration never throws.  *)
Enumerating == main.pc = "scan" \/ \E t \in Thread : At(t, "counting")
Undisturbed == [][Enumerating => Present' = Present]_vars

(* A client nobody touches is removed in the end, although pages make new  *)
(* clients all the time and any number of rounds end early; unless, from   *)
(* some time on, every round ends before the cleaner, as with a too long   *)
(* id in banlist.txt.                                                      *)
EndsEarly == RoundFails \/ (ReadLine /\ main' = Asleep)
DeadClientsGo ==
  \/ []<><<EndsEarly>>_vars /\ <>[](main.pc # "clean")
  \/ \A x \in Xuid : clients[x] = "old" ~> clients[x] # "old"

(* The bans above the first line with an OverflowException are all in      *)
(* force again and again, whatever other lines cannot be parsed and        *)
(* however rounds end after it, unless the file cannot be opened again and *)
(* again.                                                                  *)
Overflow(n) == "exception" \in DOMAIN banlist[n] /\ banlist[n].exception = "OverflowException"
BansAbove ==
  {banlist[n].banned : n \in {m \in DOMAIN banlist :
     "banned" \in DOMAIN banlist[m] /\ \A k \in 1 .. m : ~Overflow(k)}}
BansReturn ==
  \/ []<><<RoundFails /\ main.pc = "open">>_vars
  \/ []<>(bans = BansAbove)

(* "been detected less than 6 hours ago", CIServer.cs:38: a detection in   *)
(* the dictionary stays for six hours, whatever is reported or asked       *)
(* later; only Adds that overlap can lose it.                              *)
DetectedStaysUnclean ==
  [][\A x \in Xuid :
       ci[x] = "detected" => \/ ci'[x] = "detected"
                             \/ SixHoursPass(x)
                             \/ \E t \in Thread : x \in handler[t].race /\ CiAddEnd(t)]_vars
=============================================================================
