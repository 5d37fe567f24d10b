--------------------------- MODULE SteamCallbacks ---------------------------
(***************************************************************************)
(* The callback manager of the dedicated server's steam_api.dll            *)
(* (Callbacks.h) with the validation of players that connect               *)
(* (SteamGameServer009.cpp) and the lobby calls (SteamMatchmaking007.cpp). *)
(*                                                                         *)
(* The game's thread calls SteamAPI_RunCallbacks once a frame and the API  *)
(* between the frames.  SendUserConnectAndAuthenticate queues a work item  *)
(* of the thread pool for every player, and the items return their results *)
(* without a lock, while the game's thread may be running callbacks or     *)
(* returning the result of a lobby call itself.  Return writes the         *)
(* Dictionary _calls and adds to the List _results, and either can throw   *)
(* when another thread is at it too:                                       *)
(*                                                                         *)
(*   - List<T>.Add replaces the array by a larger copy when the array is   *)
(*     full, reads the size, writes the size plus one and stores the item; *)
(*     GetRange and Clear are one step each.                               *)
(*   - A Dictionary<K,V> two threads have used while one of them inserted  *)
(*     a key is torn: from then on a use of it may work, throw or never    *)
(*     return.                                                             *)
(*                                                                         *)
(* An exception inside the try of ValidateConnection is counted like a     *)
(* failed request; one outside of it ends the process.                     *)
(***************************************************************************)
EXTENDS Integers, SequencesExt

CONSTANTS
  User,             \* players; bound: each connects once
  Lobby,            \* lobby calls; bound: each is made once
  MaxFailures,      \* 5 in the code: failures before players are let in unchecked
  DefaultCapacity,  \* 4 in .NET: size of the first array of a list
  NoCall,           \* 0, the call of the results of players
  Nothing           \* a null reference

Caller == User \cup Lobby
Verdict == {"approve", "deny", "unsecured", "last_resort", "lobby"}
Result == [for : Caller, verdict : Verdict]

ASSUME CallbackAssumption ==
  /\ MaxFailures \in Nat
  /\ DefaultCapacity \in Nat \ {0}
  /\ IsFiniteSet(User) /\ IsFiniteSet(Lobby)
  /\ User \cap Lobby = {}
  /\ NoCall \notin Lobby
  /\ Nothing \notin Result

VARIABLES
  items,         \* the array of _results
  size,          \* its Count
  calls,         \* the keys of _calls
  torn,          \* whether _calls was used while a key was inserted
  run,           \* the game's thread in Run: the results still to be delivered
  worker,        \* the work item of a player, or the API call of a lobby
  failureCount,
  failed,        \* players whose validation ended in the catch (history)
  denied,        \* players the web server called invalid (history)
  delivered,     \* what callbacks were run for, in order (history)
  disturbed      \* Returns that overlapped another one or a Run (history)

resultVars == <<items, size>>
callVars == <<calls, torn>>
vars == <<resultVars, callVars, run, worker, failureCount, failed, denied, delivered, disturbed>>

Returning == {"insert", "set", "check", "publish", "read", "size", "store"}

Unborn == [at |-> "none", verdict |-> "lobby", copy |-> <<>>, slot |-> 0, array |-> "current", count |-> 0]
Finished == [Unborn EXCEPT !.at = "done"]

IdleRun == [at |-> "idle", count |-> 0, results |-> <<>>]

Init ==
  /\ items = <<>>
  /\ size = 0
  /\ calls = {}
  /\ torn = FALSE
  /\ run = IdleRun
  /\ worker = [c \in Caller |-> Unborn]
  /\ failureCount = 0
  /\ failed = {}
  /\ denied = {}
  /\ delivered = <<>>
  /\ disturbed = {}

At(c) == worker[c].at
InReturn == {c \in Caller : At(c) \in Returning}

(* The game's thread is in one place at a time.                            *)
GameIsFree == run.at = "idle" /\ \A c \in Lobby : At(c) \in {"none", "done"}

(* A Return begins: it and those under way have met.                       *)
Meet(c) == disturbed' = disturbed \cup InReturn
                          \cup (IF InReturn # {} \/ run.at # "idle" THEN {c} ELSE {})

-----------------------------------------------------------------------------
(* Where an exception goes                                                 *)

Goes(c, at) == worker' = [worker EXCEPT ![c].at = at] /\ UNCHANGED <<run, failed>>

(* No handler: the process ends, or its game's thread never comes back.    *)
Crash == run' = [IdleRun EXCEPT !.at = "crashed"]

(* The catch of ValidateConnection, which begins with failureCount++, a    *)
(* read and a write.                                                       *)
Caught(c) ==
  /\ worker' = [worker EXCEPT ![c] = [Unborn EXCEPT !.at = "failing", !.count = failureCount]]
  /\ failed' = failed \cup {c}

InsideTry(c) == worker[c].verdict \in {"approve", "deny"}

Throw(c) ==
  \/ InsideTry(c) /\ Caught(c) /\ UNCHANGED run
  \/ ~InsideTry(c) /\ Crash /\ UNCHANGED <<worker, failed>>

Hang(c) ==
  \/ c \in User /\ Goes(c, "stuck")
  \/ c \in Lobby /\ Crash /\ UNCHANGED <<worker, failed>>

-----------------------------------------------------------------------------
(* Callers of the API                                                      *)

(* SendUserConnectAndAuthenticate                                          *)
Connect(u) ==
  /\ GameIsFree
  /\ At(u) = "none"
  /\ Goes(u, "queued")
  /\ UNCHANGED <<resultVars, callVars, failureCount, denied, delivered, disturbed>>

(* RequestLobbyList, CreateLobby, JoinLobby: RegisterCall begins to insert *)
(* the call, Return follows.                                               *)
LobbyCall(c) ==
  /\ GameIsFree
  /\ At(c) = "none"
  /\ Goes(c, "insert")
  /\ Meet(c)
  /\ torn' = (torn \/ \E d \in Caller : At(d) = "insert")
  /\ UNCHANGED <<resultVars, calls, failureCount, denied, delivered>>

-----------------------------------------------------------------------------
(* ValidateConnection, in a thread of the pool                             *)

(* aiw_secure is off: the player may enter.                                *)
LetIn(u) ==
  /\ At(u) = "queued"
  /\ worker' = [worker EXCEPT ![u] = [@ EXCEPT !.at = "return", !.verdict = "unsecured"]]
  /\ UNCHANGED <<resultVars, callVars, run, failureCount, failed, denied, delivered, disturbed>>

(* The player may enter when the answer of the server is not "invalid".    *)
Validate(u, verdict) ==
  /\ At(u) = "queued"
  /\ verdict \in {"approve", "deny"}
  /\ worker' = [worker EXCEPT ![u] = [@ EXCEPT !.at = "return", !.verdict = verdict]]
  /\ denied' = IF verdict = "deny" THEN denied \cup {u} ELSE denied
  /\ UNCHANGED <<resultVars, callVars, run, failureCount, failed, delivered, disturbed>>

(* The request throws.                                                     *)
Fail(u) ==
  /\ At(u) = "queued"
  /\ Caught(u)
  /\ UNCHANGED <<resultVars, callVars, run, failureCount, denied, delivered, disturbed>>

CountTwice(n) == n + 2   \* mutant: counted once for the timeout and once in the handler
Increment(n) == n + 1

CountFailure(u) ==
  /\ At(u) = "failing"
  /\ failureCount' = Increment(worker[u].count)
  /\ worker' = [worker EXCEPT ![u] = [@ EXCEPT !.at = "test", !.count = 0]]
  /\ UNCHANGED <<resultVars, callVars, run, failed, denied, delivered, disturbed>>

(* As a last resort the player is let in; until then it gets no answer.    *)
LastResort(u) ==
  /\ At(u) = "test"
  /\ worker' = IF failureCount > MaxFailures
               THEN [worker EXCEPT ![u] = [@ EXCEPT !.at = "return", !.verdict = "last_resort"]]
               ELSE [worker EXCEPT ![u] = Finished]
  /\ UNCHANGED <<resultVars, callVars, run, failureCount, failed, denied, delivered, disturbed>>

-----------------------------------------------------------------------------
(* Callbacks::Return: _calls[call] = true                                  *)

Call(c) == IF c \in User THEN NoCall ELSE c

(* A use of _calls by c, which goes on at the given place if it works.     *)
Use(c, at) ==
  /\ torn' = (torn \/ \E d \in Caller \ {c} : At(d) = "insert")
  /\ \/ Goes(c, at)
     \/ torn' /\ (Throw(c) \/ Hang(c))

ReturnBegin(u) ==
  /\ At(u) = "return"
  /\ Meet(u)
  /\ Use(u, IF NoCall \in calls THEN "check" ELSE "insert")
  /\ UNCHANGED <<resultVars, calls, failureCount, denied, delivered>>

InsertEnd(c) ==
  /\ At(c) = "insert"
  /\ Use(c, IF c \in User THEN "check" ELSE "set")
  /\ calls' = calls \cup {Call(c)}
  /\ UNCHANGED <<resultVars, failureCount, denied, delivered, disturbed>>

(* The call of a lobby is there since RegisterCall.                        *)
SetCall(c) ==
  /\ At(c) = "set"
  /\ Use(c, "check")
  /\ UNCHANGED <<resultVars, calls, failureCount, denied, delivered, disturbed>>

-----------------------------------------------------------------------------
(* _results->Add (callback)                                                *)

Larger(n) == IF n = 0 THEN DefaultCapacity ELSE 2 * n
Grown == [i \in 1 .. Larger(Len(items)) |-> IF i <= Len(items) THEN items[i] ELSE Nothing]

AddCheck(c) ==
  /\ At(c) = "check"
  /\ worker' = IF size = Len(items)
               THEN [worker EXCEPT ![c] = [@ EXCEPT !.at = "publish", !.copy = Grown]]
               ELSE [worker EXCEPT ![c].at = "read"]
  /\ UNCHANGED <<resultVars, callVars, run, failureCount, failed, denied, delivered, disturbed>>

(* Whoever is about to store has the array it loaded, now the old one.     *)
AddPublish(c) ==
  /\ At(c) = "publish"
  /\ items' = worker[c].copy
  /\ worker' = [d \in Caller |->
                  IF d = c THEN [worker[c] EXCEPT !.at = "read", !.copy = <<>>]
                  ELSE IF At(d) \in {"size", "store"} /\ worker[d].array = "current"
                  THEN [worker[d] EXCEPT !.array = "old"]
                  ELSE worker[d]]
  /\ UNCHANGED <<size, callVars, run, failureCount, failed, denied, delivered, disturbed>>

AddRead(c) ==
  /\ At(c) = "read"
  /\ worker' = [worker EXCEPT ![c] = [@ EXCEPT
                  !.at = "size",
                  !.slot = size + 1,
                  !.array = IF size + 1 <= Len(items) THEN "current" ELSE "short"]]
  /\ UNCHANGED <<resultVars, callVars, run, failureCount, failed, denied, delivered, disturbed>>

AddSize(c) ==
  /\ At(c) = "size"
  /\ size' = worker[c].slot
  /\ worker' = [worker EXCEPT ![c].at = "store"]
  /\ UNCHANGED <<items, callVars, run, failureCount, failed, denied, delivered, disturbed>>

AlwaysApprove(c) == [for |-> c, verdict |-> "approve"]   \* mutant: the callback type of the approval for all
Made(c) == [for |-> c, verdict |-> worker[c].verdict]

AddStore(c) ==
  /\ At(c) = "store"
  /\ worker[c].array # "short"
  /\ items' = IF worker[c].array = "current" THEN [items EXCEPT ![worker[c].slot] = Made(c)] ELSE items
  /\ worker' = [worker EXCEPT ![c] = Finished]
  /\ UNCHANGED <<size, callVars, run, failureCount, failed, denied, delivered, disturbed>>

(* IndexOutOfRangeException; the size stays as it was written.             *)
AddThrows(c) ==
  /\ At(c) = "store"
  /\ worker[c].array = "short"
  /\ Throw(c)
  /\ UNCHANGED <<resultVars, callVars, failureCount, denied, delivered, disturbed>>

-----------------------------------------------------------------------------
(* Callbacks::Run, in the game's thread                                    *)

RunBegin ==
  /\ GameIsFree
  /\ run' = [IdleRun EXCEPT !.at = "copy", !.count = size]
  /\ disturbed' = disturbed \cup InReturn
  /\ UNCHANGED <<resultVars, callVars, worker, failureCount, failed, denied, delivered>>

CopyButLast == SubSeq(items, 1, run.count - 1)   \* mutant: GetRange (0, Count - 1)
CopyResults == SubSeq(items, 1, run.count)

(* GetRange (0, count) throws when the list or its array is shorter.       *)
RunCopy ==
  /\ run.at = "copy"
  /\ \/ run.count <= size /\ run.count <= Len(items) /\ run' = [IdleRun EXCEPT !.at = "deliver", !.results = CopyResults]
     \/ (run.count > size \/ run.count > Len(items)) /\ Crash
  /\ UNCHANGED <<resultVars, callVars, worker, failureCount, failed, denied, delivered, disturbed>>

(* The callbacks for the type of the result, and the call result with its  *)
(* identifier.  They make no calls of the API here.                        *)
Deliver ==
  /\ run.at = "deliver"
  /\ run.results # <<>>
  /\ Head(run.results) # Nothing
  /\ run' = [run EXCEPT !.results = Tail(@)]
  /\ delivered' = Append(delivered, Head(run.results))
  /\ UNCHANGED <<resultVars, callVars, worker, failureCount, failed, denied, disturbed>>

(* result->_callbackType of a null reference: an exception leaves Run and  *)
(* the exported function, and there is no handler above it.                *)
NullResult ==
  /\ run.at = "deliver"
  /\ run.results # <<>>
  /\ Head(run.results) = Nothing
  /\ Crash
  /\ UNCHANGED <<resultVars, callVars, worker, failureCount, failed, denied, delivered, disturbed>>

(* _results->Clear (), whatever was added since the copy was made; it      *)
(* throws when the size is beyond the array.                               *)
RunEnd ==
  /\ run.at = "deliver"
  /\ run.results = <<>>
  /\ \/ /\ size <= Len(items)
        /\ items' = [i \in DOMAIN items |-> IF i <= size THEN Nothing ELSE items[i]]
        /\ size' = 0
        /\ run' = IdleRun
     \/ size > Len(items) /\ Crash /\ UNCHANGED resultVars
  /\ UNCHANGED <<callVars, worker, failureCount, failed, denied, delivered, disturbed>>

-----------------------------------------------------------------------------
WorkerStep(u) ==
  /\ run.at # "crashed"
  /\ \/ LetIn(u)
     \/ \E verdict \in {"approve", "deny"} : Validate(u, verdict)
     \/ Fail(u)
     \/ CountFailure(u)
     \/ LastResort(u)
     \/ ReturnBegin(u)

ReturnStep(c) ==
  /\ run.at # "crashed"
  /\ \/ InsertEnd(c)
     \/ SetCall(c)
     \/ AddCheck(c)
     \/ AddPublish(c)
     \/ AddRead(c)
     \/ AddSize(c)
     \/ AddStore(c)
     \/ AddThrows(c)

RunStep == RunBegin \/ RunCopy \/ Deliver \/ NullResult \/ RunEnd

Next ==
  \/ \E u \in User : Connect(u)
  \/ \E c \in Lobby : LobbyCall(c)
  \/ \E u \in User : WorkerStep(u)
  \/ \E c \in Caller : ReturnStep(c)
  \/ RunStep

Spec == Init /\ [][Next]_vars

(* The game runs callbacks every frame; a thread in Return goes on.        *)
FairSpec ==
  /\ Spec
  /\ WF_vars(RunStep)
  /\ \A c \in Caller : WF_vars(ReturnStep(c))

-----------------------------------------------------------------------------
DeliveredTo(c) == \E n \in DOMAIN delivered : delivered[n].for = c

(* A player is let in unchecked only when its own validation ended with an *)
(* exception, of the request or of Return, and more than MaxFailures did,  *)
(* although the counter is written without a lock.                         *)
LastResortIsLast ==
  \A n \in DOMAIN delivered :
    delivered[n].verdict = "last_resort" =>
      delivered[n].for \in failed /\ Cardinality(failed) > MaxFailures

(* A player the server called invalid is told anything else only when some *)
(* Return overlapped another or a Run: only then can a Return throw, and   *)
(* after MaxFailures exceptions the catch lets the player in.              *)
DeniedStayOut ==
  \A n \in DOMAIN delivered :
    delivered[n].for \in denied /\ delivered[n].verdict # "deny" =>
      disturbed # {} /\ delivered[n].for \in failed /\ Cardinality(failed) > MaxFailures

(* A result whose Return overlapped no other and no Run is delivered,      *)
(* unless the game has crashed before.                                     *)
QuietResultsArrive ==
  \A c \in Caller :
    At(c) = "store" /\ c \notin disturbed ~> DeliveredTo(c) \/ c \in disturbed \/ run.at = "crashed"
=============================================================================
