------------------------ MODULE SteamCallbacksProofs ------------------------
(***************************************************************************)
(* What holds of SteamCallbacks for every number of players, lobby calls   *)
(* and failures: the races on the counter of failures let nobody in too    *)
(* early, and without a race on the results and the calls no exception of  *)
(* Return turns a denial into anything else.                               *)
(***************************************************************************)
EXTENDS SteamCallbacks, FiniteSetTheorems, TLAPS

Item == Result \cup {Nothing}

Early == {"none", "queued"}
Handling == {"failing", "test"}
Place == Early \cup Handling \cup Returning \cup {"return", "stuck", "done"}

Work == [at : Place, verdict : Verdict, copy : Seq(Item), slot : Nat,
         array : {"current", "old", "short"}, count : Nat]

Typed ==
  /\ items \in Seq(Item)
  /\ size \in Nat
  /\ torn \in BOOLEAN
  /\ run \in [at : {"idle", "copy", "deliver", "crashed"}, count : Nat, results : Seq(Item)]
  /\ worker \in [Caller -> Work]
  /\ failureCount \in Nat
  /\ failed \in SUBSET User
  /\ denied \in SUBSET User
  /\ delivered \in Seq(Result)
  /\ disturbed \in SUBSET Caller

Earned(c) == c \in failed /\ Cardinality(failed) > MaxFailures

(* What a result says, wherever it is.                                     *)
Good(r) ==
  r # Nothing =>
    /\ At(r.for) \notin Early
    /\ r.verdict = "last_resort" => Earned(r.for)
    /\ r.for \in denied /\ r.verdict # "deny" => r.verdict = "last_resort" /\ disturbed # {}

Honest ==
  /\ \A i \in DOMAIN items : Good(items[i])
  /\ \A c \in Caller : \A i \in DOMAIN worker[c].copy : Good(worker[c].copy[i])
  /\ \A n \in DOMAIN run.results : Good(run.results[n])
  /\ \A n \in DOMAIN delivered : Good(delivered[n])

(* What a caller is about to say.                                          *)
Answered(c) ==
  /\ At(c) \in Early => c \notin denied /\ c \notin failed
  /\ worker[c].verdict \in {"approve", "deny"} => c \in User /\ c \notin failed
  /\ worker[c].verdict = "last_resort" => Earned(c)
  /\ c \in denied /\ At(c) \in Returning \cup {"return"} =>
       worker[c].verdict = "deny" \/ (worker[c].verdict = "last_resort" /\ disturbed # {})
  /\ c \in denied /\ At(c) \in Handling => disturbed # {}

(* The players whose failure has been counted, or lost in a race.          *)
Counted == {u \in failed : At(u) # "failing"}

(* No player is counted twice: the counter never exceeds the failures.     *)
Undercounted ==
  /\ failureCount <= Cardinality(Counted)
  /\ \A u \in User :
       /\ At(u) \in Handling => u \in failed
       /\ At(u) = "failing" => worker[u].count <= Cardinality(Counted)

(* A caller in Add, when nobody disturbs it.                               *)
Placed(c) ==
  /\ At(c) = "publish" => size < Len(worker[c].copy)
  /\ At(c) = "read" => size < Len(items)
  /\ At(c) = "size" => worker[c].slot <= Len(items) /\ worker[c].array = "current"
  /\ At(c) = "store" => worker[c].array = "current"

(* Until a Return meets another or a Run, there is one at a time, and what *)
(* it finds is sound.                                                      *)
Quiet ==
  disturbed = {} /\ run.at # "crashed" =>
    /\ ~torn
    /\ \A c, d \in InReturn : c = d
    /\ run.at # "idle" => InReturn = {}
    /\ size <= Len(items)
    /\ \A c \in Caller : Placed(c)

IInv == Typed /\ Honest /\ (\A c \in Caller : Answered(c)) /\ Undercounted /\ Quiet

-----------------------------------------------------------------------------
(* Callers are finitely many, and a set of them is at most as large.       *)
LEMMA SubsetCard ==
  ASSUME NEW T \in SUBSET Caller, NEW S \in SUBSET T
  PROVE  /\ IsFiniteSet(S) /\ IsFiniteSet(T)
         /\ Cardinality(S) \in Nat /\ Cardinality(T) \in Nat
         /\ Cardinality(S) <= Cardinality(T)
<1>1. IsFiniteSet(Caller)
  BY CallbackAssumption, FS_Union DEF Caller
<1> QED  BY <1>1, FS_Subset, FS_CardinalityType

(* One more caller makes a set larger by one.                              *)
LEMMA AddCard ==
  ASSUME NEW S \in SUBSET Caller, NEW c \in Caller \ S
  PROVE  Cardinality(S \cup {c}) = Cardinality(S) + 1
<1>1. IsFiniteSet(S)
  BY SubsetCard
<1> QED  BY <1>1, FS_AddElement

(* A caller that has not begun, and one that is done.                      *)
LEMMA UnbornTyped == Unborn \in Work /\ Finished \in Work
<1>1. <<>> \in Seq(Item)
  OBVIOUS
<1> QED  BY <1>1 DEF Unborn, Finished, Work, Place, Early, Verdict

(* The initial states satisfy the invariant.                               *)
LEMMA InitInv == Init => IInv
<1> SUFFICES ASSUME Init PROVE IInv
  OBVIOUS
<1> USE DEF Init
<1>1. Typed
  <2>1. run \in [at : {"idle", "copy", "deliver", "crashed"}, count : Nat, results : Seq(Item)]
    <3>1. <<>> \in Seq(Item)
      OBVIOUS
    <3> QED  BY <3>1 DEF IdleRun
  <2>2. worker \in [Caller -> Work]
    BY UnbornTyped
  <2>3. <<>> \in Seq(Item) /\ <<>> \in Seq(Result)
    OBVIOUS
  <2> QED  BY <2>1, <2>2, <2>3 DEF Typed
<1>2. \A c \in Caller : At(c) = "none" /\ worker[c] = Unborn
  BY DEF At, Unborn
<1>3. Honest
  BY <1>2 DEF Honest, IdleRun, Unborn
<1>4. \A c \in Caller : Answered(c)
  BY <1>2 DEF Answered, Unborn, Returning, Handling
<1>5. Undercounted
  <2>1. Cardinality(Counted) \in Nat
    BY SubsetCard DEF Counted, Caller
  <2> QED  BY <1>2, <2>1 DEF Undercounted, Handling, Caller
<1>6. Quiet
  <2>1. InReturn = {}
    BY <1>2 DEF InReturn, Returning
  <2> QED  BY <1>2, <2>1 DEF Quiet, Placed
<1> QED  BY <1>1, <1>3, <1>4, <1>5, <1>6 DEF IInv

-----------------------------------------------------------------------------
(* What the actions have in common.                                        *)

(* What was earned stays earned.                                           *)
LEMMA EarnedStays ==
  ASSUME Typed, Typed', failed \subseteq failed', NEW c, Earned(c)
  PROVE  Earned(c)'
<1>1. failed' \in SUBSET Caller /\ failed \in SUBSET failed' /\ MaxFailures \in Nat
  BY CallbackAssumption DEF Typed, Caller
<1>2. /\ Cardinality(failed) \in Nat /\ Cardinality(failed') \in Nat
      /\ Cardinality(failed) <= Cardinality(failed')
  BY <1>1, SubsetCard
<1> QED  BY <1>1, <1>2 DEF Earned

(* A result stays good when the histories only grow and callers go on.     *)
LEMMA GoodStays ==
  ASSUME Typed, Typed', failed \subseteq failed', disturbed \subseteq disturbed',
         \A c \in Caller : At(c) \notin Early => At(c)' \notin Early,
         \A c \in denied' : c \in denied \/ At(c) \in Early,
         NEW r \in Item, Good(r)
  PROVE  Good(r)'
<1> SUFFICES ASSUME r # Nothing PROVE Good(r)'
  BY DEF Good
<1>1. r.for \in Caller
  BY DEF Item, Result
<1> QED  BY <1>1, EarnedStays DEF Good

(* So does a caller that stands still.                                     *)
LEMMA AnsweredStays ==
  ASSUME Typed, Typed', failed \subseteq failed', disturbed \subseteq disturbed',
         NEW c \in Caller, Answered(c), At(c)' = At(c), worker'[c].verdict = worker[c].verdict,
         c \in failed' => c \in failed, c \in denied' => c \in denied
  PROVE  Answered(c)'
BY EarnedStays DEF Answered

(* The failures are still not overcounted when nobody enters or leaves the *)
(* catch.                                                                  *)
LEMMA UndercountedKept ==
  ASSUME Undercounted, failed' = failed, failureCount' = failureCount, failed \in SUBSET User,
         \A u \in User : \/ At(u)' = At(u) /\ worker'[u].count = worker[u].count
                         \/ At(u) # "failing" /\ At(u)' \notin Handling
  PROVE  Undercounted'
<1>1. Counted' = Counted
  BY DEF Counted, Handling
<1> QED  BY <1>1 DEF Undercounted, Handling

(* One caller moves, not into the catch, and nothing is delivered.         *)
LEMMA MoveInv ==
  ASSUME IInv, NEW c \in Caller, NEW w \in Work, worker' = [worker EXCEPT ![c] = w],
         At(c) # "failing", w.at \notin Handling, w.at \in Early => At(c) \in Early,
         UNCHANGED <<run, failed, failureCount, delivered>>,
         items' \in Seq(Item), size' \in Nat, torn' \in BOOLEAN,
         disturbed \subseteq disturbed', disturbed' \subseteq Caller,
         denied' \in SUBSET User, \A d \in denied' : d \in denied \/ (d = c /\ At(c) \in Early),
         \A i \in DOMAIN items' : Good(items[i])' \/ \E r \in Item : r = items'[i] /\ Good(r),
         \A i \in DOMAIN w.copy : \E r \in Item : r = w.copy[i] /\ Good(r),
         Answered(c)', Quiet'
  PROVE  IInv'
<1> USE DEF IInv
<1>1. Typed'
  BY DEF Typed
<1>2. \A d \in Caller : d # c => worker'[d] = worker[d] /\ At(d)' = At(d)
  BY DEF Typed, At
<1>3. worker'[c] = w /\ At(c)' = w.at
  BY DEF Typed, At
<1>4. \A r \in Item : Good(r) => Good(r)'
  <2>1. \A d \in Caller : At(d) \notin Early => At(d)' \notin Early
    BY <1>2, <1>3
  <2>2. failed' = failed
    OBVIOUS
  <2> QED  BY <1>1, <2>1, <2>2, GoodStays
<1>5. Honest'
  <2>1. \A i \in DOMAIN items' : Good(items[i])'
    BY <1>4
  <2>2. \A d \in Caller : \A i \in DOMAIN worker'[d].copy : Good(worker[d].copy[i])'
    <3> SUFFICES ASSUME NEW d \in Caller, NEW i \in DOMAIN worker'[d].copy
                 PROVE  Good(worker[d].copy[i])'
      OBVIOUS
    <3>1. CASE d = c
      BY <1>3, <1>4, <3>1
    <3>2. CASE d # c
      <4>1. worker[d].copy \in Seq(Item)
        BY DEF Typed, Work
      <4> QED  BY <1>2, <1>4, <3>2, <4>1 DEF Honest
    <3> QED  BY <3>1, <3>2
  <2>3. \A n \in DOMAIN run'.results : Good(run.results[n])'
    <3>1. run.results \in Seq(Item) /\ run' = run
      BY DEF Typed
    <3> QED  BY <1>4, <3>1 DEF Honest
  <2>4. \A n \in DOMAIN delivered' : Good(delivered[n])'
    <3>1. delivered \in Seq(Item) /\ delivered' = delivered
      BY DEF Typed, Item
    <3> QED  BY <1>4, <3>1 DEF Honest
  <2> QED  BY <2>1, <2>2, <2>3, <2>4 DEF Honest
<1>6. \A d \in Caller : Answered(d)'
  <2> SUFFICES ASSUME NEW d \in Caller, d # c PROVE Answered(d)'
    OBVIOUS
  <2>1. worker'[d].verdict = worker[d].verdict /\ At(d)' = At(d) /\ failed' = failed
    BY <1>2
  <2>2. d \in denied' => d \in denied
    OBVIOUS
  <2>3. Answered(d)
    OBVIOUS
  <2> QED  BY <1>1, <2>1, <2>2, <2>3, AnsweredStays
<1>7. Undercounted'
  <2>1. \A u \in User : \/ At(u)' = At(u) /\ worker'[u].count = worker[u].count
                        \/ At(u) # "failing" /\ At(u)' \notin Handling
    <3>1. \A d \in Caller : d # c => At(d)' = At(d) /\ worker'[d].count = worker[d].count
      BY <1>2
    <3>2. At(c) # "failing" /\ At(c)' \notin Handling
      BY <1>3
    <3>3. User \subseteq Caller
      BY DEF Caller
    <3> QED  BY <3>1, <3>2, <3>3 DEF At
  <2>2. failed \in SUBSET User
    BY DEF Typed
  <2> QED  BY <2>1, <2>2, UndercountedKept
<1> QED  BY <1>1, <1>5, <1>6, <1>7

(* The process ends.                                                       *)
LEMMA CrashInv ==
  ASSUME IInv, Crash, UNCHANGED <<resultVars, worker, failureCount, failed, denied, delivered>>,
         torn' \in BOOLEAN, disturbed \subseteq disturbed', disturbed' \subseteq Caller
  PROVE  IInv'
<1> USE DEF IInv, resultVars
<1>1. /\ run' \in [at : {"idle", "copy", "deliver", "crashed"}, count : Nat, results : Seq(Item)]
      /\ run'.at = "crashed" /\ run'.results = <<>>
  <2>1. <<>> \in Seq(Item)
    OBVIOUS
  <2> QED  BY <2>1 DEF Crash, IdleRun
<1>2. Typed'
  BY <1>1 DEF Typed
<1>3. \A c \in Caller : At(c)' = At(c)
  BY DEF At
<1>4. \A r \in Item : Good(r) => Good(r)'
  BY <1>2, <1>3, GoodStays
<1>5. Honest'
  <2>1. items \in Seq(Item) /\ delivered \in Seq(Item) /\ \A c \in Caller : worker[c].copy \in Seq(Item)
    BY DEF Typed, Item, Work
  <2> QED  BY <1>1, <1>4, <2>1 DEF Honest
<1>6. \A c \in Caller : Answered(c)'
  BY <1>2, <1>3, AnsweredStays
<1>7. Undercounted'
  BY <1>3, UndercountedKept DEF Typed, Caller
<1>8. Quiet'
  BY <1>1 DEF Quiet
<1> QED  BY <1>2, <1>5, <1>6, <1>7, <1>8

(* A player's validation ends in the catch, for the first time.            *)
LEMMA CaughtInv ==
  ASSUME IInv, NEW u \in User, Caught(u), u \notin failed, u \in denied => disturbed' # {},
         UNCHANGED <<resultVars, run, failureCount, denied, delivered>>,
         torn' \in BOOLEAN, disturbed \subseteq disturbed', disturbed' \subseteq Caller,
         At(u) \notin Handling, Quiet'
  PROVE  IInv'
<1> USE DEF IInv, resultVars, Caught
<1> DEFINE w == [Unborn EXCEPT !.at = "failing", !.count = failureCount]
<1>1. w \in Work /\ w.at = "failing" /\ w.count = failureCount /\ w.copy = <<>> /\ w.verdict = "lobby"
  BY UnbornTyped DEF Work, Place, Handling, Unborn, Typed
<1>2. worker' = [worker EXCEPT ![u] = w] /\ u \in Caller
  BY DEF Caller
<1> HIDE DEF w
<1>3. Typed'
  BY <1>1, <1>2 DEF Typed
<1>4. \A d \in Caller : d # u => worker'[d] = worker[d] /\ At(d)' = At(d)
  BY <1>2 DEF Typed, At
<1>5. worker'[u] = w /\ At(u)' = "failing"
  BY <1>1, <1>2 DEF Typed, At
<1>6. \A r \in Item : Good(r) => Good(r)'
  <2>1. \A d \in Caller : At(d) \notin Early => At(d)' \notin Early
    BY <1>4, <1>5 DEF Early
  <2> QED  BY <1>3, <2>1, GoodStays
<1>7. Honest'
  <2>1. items \in Seq(Item) /\ delivered \in Seq(Item) /\ run.results \in Seq(Item)
        /\ \A c \in Caller : worker[c].copy \in Seq(Item)
    BY DEF Typed, Item, Work
  <2>2. \A d \in Caller : \A i \in DOMAIN worker'[d].copy : Good(worker[d].copy[i])'
    <3> SUFFICES ASSUME NEW d \in Caller, NEW i \in DOMAIN worker'[d].copy
                 PROVE  Good(worker[d].copy[i])'
      OBVIOUS
    <3>1. CASE d = u
      <4>1. worker'[d].copy = <<>>
        BY <1>1, <1>5, <3>1
      <4>2. DOMAIN <<>> = {}
        OBVIOUS
      <4> QED  BY <4>1, <4>2, Zenon
    <3>2. CASE d # u
      BY <1>4, <1>6, <2>1, <3>2 DEF Honest
    <3> QED  BY <3>1, <3>2
  <2> QED  BY <1>6, <2>1, <2>2 DEF Honest
<1>8. \A d \in Caller : Answered(d)'
  <2> SUFFICES ASSUME NEW d \in Caller PROVE Answered(d)'
    OBVIOUS
  <2>1. CASE d = u
    BY <1>1, <1>5, <2>1 DEF Answered, Early, Returning, Handling
  <2>2. CASE d # u
    <3>1. worker'[d].verdict = worker[d].verdict /\ At(d)' = At(d)
      BY <1>4, <2>2
    <3>2. d \in failed' => d \in failed
      BY <2>2
    <3> QED  BY <1>3, <3>1, <3>2, AnsweredStays
  <2> QED  BY <2>1, <2>2
<1>9. Undercounted'
  <2>1. Counted' = Counted
    BY <1>4, <1>5 DEF Counted, Typed, Caller
  <2> QED  BY <1>1, <1>4, <1>5, <2>1 DEF Undercounted, Caller, Handling
<1> QED  BY <1>3, <1>7, <1>8, <1>9

(* An exception that a disturbance explains.                               *)
LEMMA ThrowInv ==
  ASSUME IInv, NEW c \in Caller, Throw(c), At(c) \notin Handling, disturbed' # {},
         UNCHANGED <<resultVars, failureCount, denied, delivered>>,
         torn' \in BOOLEAN, disturbed \subseteq disturbed', disturbed' \subseteq Caller
  PROVE  IInv'
<1>1. CASE ~InsideTry(c)
  BY <1>1, CrashInv DEF Throw
<1>2. CASE InsideTry(c)
  <2>1. c \in User /\ c \notin failed
    BY <1>2 DEF IInv, Answered, InsideTry
  <2>2. Caught(c) /\ UNCHANGED run
    BY <1>2 DEF Throw
  <2>3. Quiet'
    BY DEF Quiet
  <2> QED  BY <2>1, <2>2, <2>3, CaughtInv
<1> QED  BY <1>1, <1>2

(* A use of the dictionary by the only caller in Return, or by one that    *)
(* has met another.                                                        *)
LEMMA UseInv ==
  ASSUME IInv, NEW c \in Caller, NEW at \in {"insert", "set", "check"}, Use(c, at),
         At(c) \in {"return", "insert", "set"}, run.at # "crashed",
         UNCHANGED <<resultVars, failureCount, denied, delivered>>,
         disturbed \subseteq disturbed', disturbed' \subseteq Caller,
         disturbed' = {} => InReturn \subseteq {c} /\ run.at = "idle"
  PROVE  IInv'
<1> USE DEF IInv, resultVars
<1>1. torn' \in BOOLEAN
  BY DEF Use, Typed
<1>2. disturbed' = {} => ~torn'
  BY DEF Use, Quiet, InReturn, Returning
<1>3. CASE Goes(c, at)
  <2>1. [worker[c] EXCEPT !.at = at] \in Work
    BY DEF Typed, Work, Place, Returning
  <2> DEFINE w == [worker[c] EXCEPT !.at = at]
  <2>2. worker' = [worker EXCEPT ![c] = w] /\ UNCHANGED <<run, failed>>
    BY <1>3 DEF Goes
  <2>3. /\ w.at = at /\ w.verdict = worker[c].verdict /\ w.copy = worker[c].copy
        /\ at \notin Handling /\ at \notin Early /\ At(c) # "failing" /\ at \in Returning
    BY DEF Typed, Work, Handling, Early, Returning
  <2>4. w \in Work
    BY <2>1
  <2> HIDE DEF w
  <2>5. worker'[c] = w /\ At(c)' = at /\ \A d \in Caller \ {c} : worker'[d] = worker[d] /\ At(d)' = At(d)
    BY <2>2, <2>3 DEF Typed, At
  <2>6. items \in Seq(Item) /\ size \in Nat /\ denied \in SUBSET User
    BY DEF Typed
  <2>7. \A i \in DOMAIN items' : \E r \in Item : r = items'[i] /\ Good(r)
    BY <2>6 DEF Honest
  <2>8. \A i \in DOMAIN w.copy : \E r \in Item : r = w.copy[i] /\ Good(r)
    <3>1. worker[c].copy \in Seq(Item)
      BY DEF Typed, Work
    <3> QED  BY <2>3, <3>1 DEF Honest
  <2>9. Answered(c)'
    <3>1. Answered(c) /\ At(c) \in Returning \cup {"return"}
      BY DEF Returning
    <3>2. c \in denied => worker[c].verdict = "deny" \/ (worker[c].verdict = "last_resort" /\ disturbed # {})
      BY <3>1 DEF Answered
    <3> QED  BY <2>2, <2>3, <2>5, <3>1, <3>2 DEF Answered, Earned
  <2>10. Quiet'
    <3> SUFFICES ASSUME disturbed' = {}, run'.at # "crashed"
                 PROVE  /\ ~torn'
                        /\ \A d, e \in InReturn' : d = e
                        /\ run'.at # "idle" => InReturn' = {}
                        /\ size' <= Len(items')
                        /\ \A d \in Caller : Placed(d)'
      BY DEF Quiet
    <3>1. InReturn' \subseteq {c} /\ run'.at = "idle"
      BY <2>2, <2>5 DEF InReturn
    <3>2. size' <= Len(items') /\ \A d \in Caller : Placed(d)
      BY DEF Quiet
    <3>3. \A d \in Caller : Placed(d)'
      BY <2>5, <3>2 DEF Placed
    <3> QED  BY <1>2, <3>1, <3>2, <3>3
  <2> QED  BY <1>1, <2>2, <2>3, <2>4, <2>6, <2>7, <2>8, <2>9, <2>10, MoveInv
<1>4. CASE ~Goes(c, at)
  <2>1. torn' /\ disturbed' # {}
    BY <1>2, <1>4 DEF Use
  <2>2. At(c) \notin Handling
    BY DEF Handling
  <2>3. CASE Throw(c)
    BY <1>1, <2>1, <2>2, <2>3, ThrowInv
  <2>4. CASE Hang(c)
    <3>1. CASE c \in Lobby
      BY <1>1, <2>4, <3>1, CrashInv, CallbackAssumption DEF Hang
    <3>2. CASE c \notin Lobby
      <4> DEFINE w == [worker[c] EXCEPT !.at = "stuck"]
      <4>1. w \in Work /\ w.at = "stuck" /\ w.verdict = worker[c].verdict /\ w.copy = worker[c].copy
        BY DEF Typed, Work, Place
      <4>2. worker' = [worker EXCEPT ![c] = w] /\ UNCHANGED <<run, failed>>
        BY <2>4, <3>2 DEF Hang, Goes
      <4> HIDE DEF w
      <4>3. worker'[c] = w /\ At(c)' = "stuck"
        BY <4>1, <4>2 DEF Typed, At
      <4>4. items \in Seq(Item) /\ size \in Nat /\ denied \in SUBSET User /\ worker[c].copy \in Seq(Item)
        BY DEF Typed, Work
      <4>5. \A i \in DOMAIN items' : \E r \in Item : r = items'[i] /\ Good(r)
        BY <4>4 DEF Honest
      <4>6. \A i \in DOMAIN w.copy : \E r \in Item : r = w.copy[i] /\ Good(r)
        BY <4>1, <4>4 DEF Honest
      <4>7. Answered(c)'
        BY <4>1, <4>2, <4>3 DEF Answered, Earned, Early, Returning, Handling
      <4>8. Quiet'
        BY <2>1 DEF Quiet
      <4>9. w.at \notin Handling /\ w.at \notin Early /\ At(c) # "failing"
        BY <4>1 DEF Handling, Early
      <4> QED  BY <1>1, <4>1, <4>2, <4>4, <4>5, <4>6, <4>7, <4>8, <4>9, MoveInv
    <3> QED  BY <3>1, <3>2
  <2> QED  BY <1>4, <2>1, <2>3, <2>4 DEF Use
<1> QED  BY <1>3, <1>4

-----------------------------------------------------------------------------
(* One lemma per action: the step preserves the invariant.                 *)

(* The references in the arrays are good.                                  *)
LEMMA GoodItems ==
  ASSUME IInv
  PROVE  /\ \A i \in DOMAIN items : \E r \in Item : r = items[i] /\ Good(r)
         /\ \A c \in Caller : \A i \in DOMAIN worker[c].copy : \E r \in Item : r = worker[c].copy[i] /\ Good(r)
<1>1. items \in Seq(Item) /\ \A c \in Caller : worker[c].copy \in Seq(Item)
  BY DEF IInv, Typed, Work
<1> QED  BY <1>1 DEF IInv, Honest

(* One caller goes on with the arrays as they are.                         *)
LEMMA GoesOnInv ==
  ASSUME IInv, NEW c \in Caller, NEW w \in Work, worker' = [worker EXCEPT ![c] = w],
         At(c) \notin Handling, w.at \notin Handling, w.at \in Early => At(c) \in Early,
         w.copy = worker[c].copy \/ w.copy = <<>>,
         UNCHANGED <<items, run, failed, failureCount, delivered>>,
         size' \in Nat, torn' \in BOOLEAN,
         disturbed \subseteq disturbed', disturbed' \subseteq Caller,
         denied' \in SUBSET User, \A d \in denied' : d \in denied \/ (d = c /\ At(c) \in Early),
         Answered(c)', Quiet'
  PROVE  IInv'
<1>1. items' \in Seq(Item)
  BY DEF IInv, Typed
<1>2. \A i \in DOMAIN items' : \E r \in Item : r = items'[i] /\ Good(r)
  BY GoodItems
<1>3. \A i \in DOMAIN w.copy : \E r \in Item : r = w.copy[i] /\ Good(r)
  BY GoodItems
<1>4. At(c) # "failing"
  BY DEF Handling
<1> QED  BY <1>1, <1>2, <1>3, <1>4, MoveInv

(* A caller outside Return that stays outside disturbs nothing.            *)
LEMMA QuietOutside ==
  ASSUME IInv, NEW c \in Caller, NEW w \in Work, worker' = [worker EXCEPT ![c] = w],
         At(c) \notin Returning, w.at \notin Returning,
         UNCHANGED <<items, size, torn, run, disturbed>>
  PROVE  Quiet'
<1> USE DEF IInv
<1>1. \A d \in Caller : d # c => worker'[d] = worker[d] /\ At(d)' = At(d)
  BY DEF Typed, At
<1>2. At(c)' \notin Returning
  BY DEF Typed, At
<1>3. InReturn' = InReturn
  BY <1>1, <1>2 DEF InReturn
<1>4. \A d \in Caller : Placed(d) => Placed(d)'
  <2> SUFFICES ASSUME NEW d \in Caller, Placed(d) PROVE Placed(d)'
    OBVIOUS
  <2>1. CASE d = c
    BY <1>2, <2>1 DEF Placed, Returning, At
  <2>2. CASE d # c
    BY <1>1, <2>2 DEF Placed
  <2> QED  BY <2>1, <2>2
<1> QED  BY <1>3, <1>4 DEF Quiet

(* A player's connection is queued.                                        *)
LEMMA ConnectInv ==
  ASSUME IInv, NEW u \in User, Connect(u)
  PROVE  IInv'
<1> USE DEF IInv, Connect, resultVars, callVars
<1> DEFINE w == [worker[u] EXCEPT !.at = "queued"]
<1>1. u \in Caller /\ worker' = [worker EXCEPT ![u] = w] /\ UNCHANGED <<run, failed>>
  BY DEF Goes, Caller
<1>2. w \in Work /\ w.at = "queued" /\ w.verdict = worker[u].verdict /\ w.copy = worker[u].copy
  BY <1>1 DEF Typed, Work, Place, Early
<1> HIDE DEF w
<1>3. worker'[u] = w /\ At(u)' = "queued"
  BY <1>1, <1>2 DEF Typed, At
<1>4. Answered(u)'
  <2>1. Answered(u) /\ At(u) = "none"
    BY <1>1
  <2> QED  BY <1>1, <1>2, <1>3, <2>1 DEF Answered, Earned, Early, Returning, Handling
<1>5. Quiet'
  BY <1>1, <1>2, QuietOutside DEF Returning
<1>6. At(u) \notin Handling /\ w.at \notin Handling /\ At(u) \in Early
  BY <1>2 DEF Handling, Early
<1>7. size' \in Nat /\ torn' \in BOOLEAN /\ disturbed' \subseteq Caller /\ denied' \in SUBSET User
  BY DEF Typed
<1> QED  BY <1>1, <1>2, <1>4, <1>5, <1>6, <1>7, GoesOnInv

(* A player is validated, or let in because the server is not secure.      *)
LEMMA AnswerInv ==
  ASSUME IInv, NEW u \in User, NEW verdict \in {"approve", "deny", "unsecured"}, At(u) = "queued",
         worker' = [worker EXCEPT ![u] = [@ EXCEPT !.at = "return", !.verdict = verdict]],
         denied' = IF verdict = "deny" THEN denied \cup {u} ELSE denied,
         UNCHANGED <<resultVars, callVars, run, failureCount, failed, delivered, disturbed>>
  PROVE  IInv'
<1> USE DEF IInv, resultVars, callVars
<1> DEFINE w == [worker[u] EXCEPT !.at = "return", !.verdict = verdict]
<1>1. u \in Caller /\ worker' = [worker EXCEPT ![u] = w]
  BY DEF Caller, Typed
<1>2. w \in Work /\ w.at = "return" /\ w.verdict = verdict /\ w.copy = worker[u].copy
  <2>1. worker[u] \in Work
    BY <1>1 DEF Typed
  <2>2. "return" \in Place /\ verdict \in Verdict
    BY DEF Place, Verdict
  <2> QED  BY <2>1, <2>2 DEF Work
<1> HIDE DEF w
<1>3. worker'[u] = w /\ At(u)' = "return"
  BY <1>1, <1>2 DEF Typed, At
<1>4. Answered(u)'
  <2>1. u \notin failed /\ u \notin denied
    BY <1>1 DEF Answered, Early
  <2>2. u \in denied' => verdict = "deny"
    BY <2>1
  <2>3. At(u)' \notin Early /\ At(u)' \notin Handling /\ worker'[u].verdict = verdict
    BY <1>2, <1>3 DEF Early, Handling
  <2>4. u \notin failed'
    BY <2>1
  <2> QED  BY <2>2, <2>3, <2>4 DEF Answered
<1>5. Quiet'
  BY <1>1, <1>2, QuietOutside DEF Returning
<1>6. At(u) \notin Handling /\ w.at \notin Handling /\ At(u) \in Early
  BY <1>2 DEF Handling, Early
<1>7. size' \in Nat /\ torn' \in BOOLEAN /\ disturbed' \subseteq Caller /\ denied' \in SUBSET User
  BY DEF Typed
<1>8. \A d \in denied' : d \in denied \/ (d = u /\ At(u) \in Early)
  BY <1>6
<1>9. w.at \in Early => At(u) \in Early
  BY <1>6
<1> QED  BY <1>1, <1>2, <1>4, <1>5, <1>6, <1>7, <1>8, <1>9, GoesOnInv

(* The request for a player failed.                                        *)
LEMMA FailInv ==
  ASSUME IInv, NEW u \in User, Fail(u)
  PROVE  IInv'
<1> USE DEF IInv, Fail, resultVars, callVars
<1>1. u \in Caller /\ u \notin failed /\ u \notin denied /\ At(u) \notin Handling
  BY DEF Answered, Early, Handling, Caller
<1> DEFINE w == [Unborn EXCEPT !.at = "failing", !.count = failureCount]
<1>2. worker' = [worker EXCEPT ![u] = w]
  BY DEF Caught
<1>3. w \in Work /\ w.at = "failing"
  BY UnbornTyped DEF Work, Place, Handling, Unborn, Typed
<1> HIDE DEF w
<1>4. Quiet'
  BY <1>1, <1>2, <1>3, QuietOutside DEF Returning
<1>5. torn' \in BOOLEAN /\ disturbed' \subseteq Caller
  BY DEF Typed
<1> QED  BY <1>1, <1>4, <1>5, CaughtInv

(* The counter is written: one more failure has been counted.              *)
LEMMA CountFailureInv ==
  ASSUME IInv, NEW u \in User, CountFailure(u)
  PROVE  IInv'
<1> USE DEF IInv, CountFailure, resultVars, callVars
<1> DEFINE w == [worker[u] EXCEPT !.at = "test", !.count = 0]
<1>1. u \in Caller /\ worker' = [worker EXCEPT ![u] = w]
  BY DEF Caller, Typed
<1>2. w \in Work /\ w.at = "test" /\ w.verdict = worker[u].verdict /\ w.copy = worker[u].copy
  <2>1. worker[u] \in Work
    BY <1>1 DEF Typed
  <2>2. "test" \in Place
    BY DEF Place, Handling
  <2> QED  BY <2>1, <2>2 DEF Work
<1> HIDE DEF w
<1>3. worker'[u] = w /\ At(u)' = "test"
  BY <1>1, <1>2 DEF Typed, At
<1>4. \A d \in Caller : d # u => worker'[d] = worker[d] /\ At(d)' = At(d)
  BY <1>1 DEF Typed, At
<1>5. Typed'
  <2>1. worker[u].count \in Nat
    BY <1>1 DEF Typed, Work
  <2> QED  BY <1>1, <1>2, <2>1 DEF Typed, Increment
<1>6. \A r \in Item : Good(r) => Good(r)'
  <2>1. \A d \in Caller : At(d) \notin Early => At(d)' \notin Early
    BY <1>3, <1>4 DEF Early
  <2> QED  BY <1>5, <2>1, GoodStays
<1>7. Honest'
  <2>1. /\ items \in Seq(Item) /\ delivered \in Seq(Item) /\ run.results \in Seq(Item)
        /\ \A c \in Caller : worker[c].copy \in Seq(Item)
    BY DEF Typed, Item, Work
  <2>2. \A d \in Caller : worker'[d].copy = worker[d].copy
    BY <1>2, <1>3, <1>4
  <2> QED  BY <1>6, <2>1, <2>2 DEF Honest
<1>8. \A d \in Caller : Answered(d)'
  <2> SUFFICES ASSUME NEW d \in Caller PROVE Answered(d)'
    OBVIOUS
  <2>1. CASE d = u
    <3>1. Answered(u) /\ At(u) = "failing"
      BY <1>1
    <3> QED  BY <1>2, <1>3, <2>1, <3>1 DEF Answered, Earned, Early, Returning, Handling, At
  <2>2. CASE d # u
    BY <1>4, <1>5, <2>2, AnsweredStays
  <2> QED  BY <2>1, <2>2
<1>9. Undercounted'
  <2>1. u \in failed /\ u \notin Counted
    BY DEF Undercounted, Counted, Handling
  <2>2. Counted' = Counted \cup {u}
    BY <1>3, <1>4, <2>1 DEF Counted, Typed, Caller
  <2>3. /\ Cardinality(Counted) \in Nat
        /\ Cardinality(Counted') = Cardinality(Counted) + 1
    BY <1>1, <2>1, <2>2, SubsetCard, AddCard DEF Counted, Typed, Caller
  <2>4. \A v \in User : At(v)' = "failing" =>
          At(v) = "failing" /\ worker'[v].count = worker[v].count
    BY <1>3, <1>4 DEF Caller, At
  <2>5. \A v \in User : worker[v].count \in Nat
    BY DEF Typed, Work, Caller
  <2>6. failureCount' <= Cardinality(Counted')
    BY <2>3, <2>5 DEF Undercounted, Increment
  <2>7. \A v \in User : At(v)' = "failing" => worker'[v].count <= Cardinality(Counted')
    BY <2>3, <2>4, <2>5 DEF Undercounted
  <2>8. \A v \in User : At(v)' \in Handling => v \in failed'
    BY <1>4, <2>1 DEF Undercounted, Caller, At
  <2> QED  BY <2>6, <2>7, <2>8 DEF Undercounted
<1>10. Quiet'
  BY <1>1, <1>2, QuietOutside DEF Returning
<1> QED  BY <1>5, <1>7, <1>8, <1>9, <1>10

(* A player is let in unchecked, after enough failures, or forgotten.      *)
LEMMA LastResortInv ==
  ASSUME IInv, NEW u \in User, LastResort(u)
  PROVE  IInv'
<1> USE DEF IInv, LastResort, resultVars, callVars
<1>1. u \in Caller /\ u \in failed /\ (u \in denied => disturbed # {}) /\ Answered(u)
  BY DEF Caller, Undercounted, Answered, Handling
<1>2. failureCount > MaxFailures => Earned(u)
  <2>1. Counted \in SUBSET failed /\ failed \in SUBSET Caller
    BY DEF Counted, Typed, Caller
  <2>2. /\ Cardinality(Counted) \in Nat /\ Cardinality(failed) \in Nat
        /\ Cardinality(Counted) <= Cardinality(failed)
    BY <2>1, SubsetCard
  <2> QED  BY <1>1, <2>2, CallbackAssumption DEF Undercounted, Typed, Earned
<1>3. PICK w \in Work : /\ worker' = [worker EXCEPT ![u] = w]
                        /\ w.copy = worker[u].copy \/ w.copy = <<>>
                        /\ \/ w.at = "return" /\ w.verdict = "last_resort" /\ failureCount > MaxFailures
                           \/ w.at = "done" /\ w.verdict = "lobby"
  <2>1. CASE failureCount > MaxFailures
    <3> DEFINE w == [worker[u] EXCEPT !.at = "return", !.verdict = "last_resort"]
    <3>1. w \in Work /\ w.at = "return" /\ w.verdict = "last_resort" /\ w.copy = worker[u].copy
      BY <1>1 DEF Typed, Work, Place, Verdict
    <3>2. worker' = [worker EXCEPT ![u] = w]
      BY <1>1, <2>1 DEF Typed
    <3> HIDE DEF w
    <3> QED  BY <2>1, <3>1, <3>2
  <2>2. CASE ~(failureCount > MaxFailures)
    <3>1. Finished.at = "done" /\ Finished.verdict = "lobby" /\ Finished.copy = <<>>
      BY DEF Finished, Unborn
    <3> QED  BY <2>2, <3>1, UnbornTyped
  <2> QED  BY <2>1, <2>2
<1>4. worker'[u] = w /\ At(u)' = w.at
  BY <1>1, <1>3 DEF Typed, At
<1>5. Answered(u)'
  <2>1. CASE w.at = "return"
    BY <1>1, <1>2, <1>3, <1>4, <2>1 DEF Answered, Earned, Early, Handling
  <2>2. CASE w.at = "done"
    BY <1>3, <1>4, <2>2 DEF Answered, Early, Handling, Returning
  <2> QED  BY <1>3, <2>1, <2>2
<1>6. Quiet'
  <2>1. At(u) \notin Returning /\ w.at \notin Returning
    BY <1>3 DEF Returning
  <2> QED  BY <1>1, <1>3, <2>1, QuietOutside
<1>7. Typed' /\ Honest' /\ (\A d \in Caller : Answered(d)') /\ Undercounted'
  <2>1. \A d \in Caller : d # u => worker'[d] = worker[d] /\ At(d)' = At(d)
    BY <1>3 DEF Typed, At
  <2>2. Typed'
    BY <1>3 DEF Typed
  <2>3. \A r \in Item : Good(r) => Good(r)'
    <3>1. \A d \in Caller : At(d) \notin Early => At(d)' \notin Early
      BY <1>3, <1>4, <2>1 DEF Early
    <3> QED  BY <2>2, <3>1, GoodStays
  <2>4. Honest'
    <3>1. /\ items \in Seq(Item) /\ delivered \in Seq(Item) /\ run.results \in Seq(Item)
          /\ \A c \in Caller : worker[c].copy \in Seq(Item)
      BY DEF Typed, Item, Work
    <3>2. \A d \in Caller : worker'[d].copy = worker[d].copy \/ worker'[d].copy = <<>>
      BY <1>3, <1>4, <2>1
    <3> QED  BY <2>3, <3>1, <3>2 DEF Honest
  <2>5. \A d \in Caller : Answered(d)'
    BY <1>5, <2>1, <2>2, AnsweredStays
  <2>6. Undercounted'
    <3>1. \A d \in Caller : d # u => At(d)' = At(d) /\ worker'[d].count = worker[d].count
      BY <2>1
    <3>2. At(u) # "failing" /\ At(u)' \notin Handling
      BY <1>3, <1>4 DEF Handling
    <3>3. User \subseteq Caller
      BY DEF Caller
    <3>4. \A v \in User : \/ At(v)' = At(v) /\ worker'[v].count = worker[v].count
                          \/ At(v) # "failing" /\ At(v)' \notin Handling
      BY <3>1, <3>2, <3>3 DEF At
    <3> QED  BY <3>4, UndercountedKept DEF Typed
  <2> QED  BY <2>2, <2>4, <2>5, <2>6
<1> QED  BY <1>6, <1>7

(* A Return that has met nobody is alone.                                  *)
LEMMA Met ==
  ASSUME IInv, NEW c \in Caller, Meet(c)
  PROVE  /\ disturbed \subseteq disturbed' /\ disturbed' \subseteq Caller
         /\ disturbed' = {} => disturbed = {} /\ InReturn = {} /\ run.at = "idle"
BY DEF IInv, Typed, Meet, InReturn

(* So is a caller in Return while nobody has been disturbed.               *)
LEMMA Alone ==
  ASSUME IInv, NEW c \in Caller, At(c) \in Returning, run.at # "crashed", disturbed = {}
  PROVE  /\ InReturn = {c} /\ run.at = "idle" /\ ~torn
         /\ size <= Len(items) /\ Placed(c)
<1>1. c \in InReturn
  BY DEF InReturn
<1> QED  BY <1>1 DEF IInv, Quiet

(* A caller in Return moves, and nobody is disturbed.                      *)
LEMMA QuietInside ==
  ASSUME IInv, NEW c \in Caller, NEW w \in Work, worker' = [worker EXCEPT ![c] = w],
         At(c) \in Returning, UNCHANGED <<torn, run, disturbed>>,
         Placed(c) /\ size <= Len(items) => Placed(c)' /\ size' <= Len(items')
  PROVE  Quiet'
<1> SUFFICES ASSUME disturbed = {}, run.at # "crashed" PROVE Quiet'
  BY DEF Quiet
<1>1. InReturn = {c} /\ run.at = "idle" /\ ~torn /\ size <= Len(items) /\ Placed(c)
  BY Alone
<1>2. \A d \in Caller : d # c => worker'[d] = worker[d] /\ At(d)' = At(d) /\ At(d) \notin Returning
  BY <1>1 DEF IInv, Typed, At, InReturn
<1>3. InReturn' \subseteq {c}
  BY <1>2 DEF InReturn
<1>4. \A d \in Caller : d # c => Placed(d)'
  BY <1>2 DEF Placed, Returning
<1> QED  BY <1>1, <1>3, <1>4 DEF Quiet

(* A lobby call begins.                                                    *)
LEMMA LobbyCallInv ==
  ASSUME IInv, NEW c \in Lobby, LobbyCall(c)
  PROVE  IInv'
<1> USE DEF IInv, LobbyCall, resultVars
<1> DEFINE w == [worker[c] EXCEPT !.at = "insert"]
<1>1. c \in Caller /\ c \notin User /\ worker' = [worker EXCEPT ![c] = w] /\ UNCHANGED <<run, failed>>
  BY CallbackAssumption DEF Goes, Caller
<1>2. w \in Work /\ w.at = "insert" /\ w.verdict = worker[c].verdict /\ w.copy = worker[c].copy
  <2>1. worker[c] \in Work
    BY <1>1 DEF Typed
  <2>2. "insert" \in Place
    BY DEF Place, Returning
  <2> QED  BY <2>1, <2>2 DEF Work
<1> HIDE DEF w
<1>3. worker'[c] = w /\ At(c)' = "insert" /\ \A d \in Caller : d # c => worker'[d] = worker[d] /\ At(d)' = At(d)
  BY <1>1, <1>2 DEF Typed, At
<1>4. c \notin denied /\ c \notin failed /\ Answered(c)
  BY <1>1 DEF Typed
<1>5. Answered(c)'
  BY <1>1, <1>2, <1>3, <1>4 DEF Answered, Earned, Early, Handling
<1>6. /\ disturbed \subseteq disturbed' /\ disturbed' \subseteq Caller
      /\ disturbed' = {} => disturbed = {} /\ InReturn = {} /\ run.at = "idle"
  BY <1>1, Met
<1>7. Quiet'
  <2> SUFFICES ASSUME disturbed' = {} PROVE Quiet'
    BY DEF Quiet
  <2>1. InReturn = {} /\ ~torn /\ size <= Len(items) /\ run.at = "idle"
    BY <1>6 DEF Quiet
  <2>2. \A d \in Caller : At(d) \notin Returning
    BY <2>1 DEF InReturn
  <2>3. ~torn'
    BY <2>1, <2>2 DEF Returning
  <2>4. \A d \in Caller : d # c => At(d)' \notin Returning
    BY <1>3, <2>2
  <2>5. InReturn' \subseteq {c}
    BY <2>4 DEF InReturn
  <2>6. \A d \in Caller : Placed(d)'
    <3>1. \A d \in Caller : At(d)' \notin {"publish", "read", "size", "store"}
      BY <1>3, <2>4 DEF Returning
    <3> QED  BY <3>1 DEF Placed
  <2> QED  BY <1>1, <2>1, <2>3, <2>5, <2>6 DEF Quiet
<1>8. At(c) \notin Handling /\ w.at \notin Handling /\ w.at \notin Early
  BY <1>2 DEF Handling, Early
<1>9. size' \in Nat /\ torn' \in BOOLEAN /\ denied' \in SUBSET User
  BY DEF Typed
<1> QED  BY <1>1, <1>2, <1>5, <1>6, <1>7, <1>8, <1>9, GoesOnInv

(* Return begins to write the dictionary.                                  *)
LEMMA ReturnBeginInv ==
  ASSUME IInv, NEW u \in User, ReturnBegin(u), run.at # "crashed"
  PROVE  IInv'
<1> DEFINE at == IF NoCall \in calls THEN "check" ELSE "insert"
<1>1. u \in Caller /\ at \in {"insert", "set", "check"} /\ Use(u, at)
  BY DEF ReturnBegin, Caller
<1> HIDE DEF at
<1>2. /\ disturbed \subseteq disturbed' /\ disturbed' \subseteq Caller
      /\ disturbed' = {} => disturbed = {} /\ InReturn = {} /\ run.at = "idle"
  BY <1>1, Met DEF ReturnBegin
<1> QED  BY <1>1, <1>2, UseInv DEF ReturnBegin

(* The key is there.                                                       *)
LEMMA InsertEndInv ==
  ASSUME IInv, NEW c \in Caller, InsertEnd(c), run.at # "crashed"
  PROVE  IInv'
<1> DEFINE at == IF c \in User THEN "check" ELSE "set"
<1>1. at \in {"insert", "set", "check"} /\ Use(c, at)
  BY DEF InsertEnd
<1> HIDE DEF at
<1>2. disturbed = {} => InReturn \subseteq {c} /\ run.at = "idle"
  BY Alone DEF InsertEnd, Returning
<1>3. disturbed \subseteq Caller
  BY DEF IInv, Typed
<1> QED  BY <1>1, <1>2, <1>3, UseInv DEF InsertEnd

(* The value is set.                                                       *)
LEMMA SetCallInv ==
  ASSUME IInv, NEW c \in Caller, SetCall(c), run.at # "crashed"
  PROVE  IInv'
<1>1. disturbed = {} => InReturn \subseteq {c} /\ run.at = "idle"
  BY Alone DEF SetCall, Returning
<1>2. disturbed \subseteq Caller
  BY DEF IInv, Typed
<1> QED  BY <1>1, <1>2, UseInv DEF SetCall

(* A caller in Return that goes on with its answer unchanged.              *)
LEMMA AnswerKept ==
  ASSUME IInv, NEW c \in Caller, NEW w \in Work, worker' = [worker EXCEPT ![c] = w],
         At(c) \in Returning, w.at \in Returning, w.verdict = worker[c].verdict,
         UNCHANGED <<failed, denied, disturbed>>
  PROVE  Answered(c)'
<1>1. worker'[c] = w /\ At(c)' = w.at /\ Answered(c)
  BY DEF IInv, Typed, At
<1>2. At(c)' \notin Early /\ At(c)' \notin Handling
  BY <1>1 DEF Early, Handling, Returning
<1> QED  BY <1>1, <1>2 DEF Answered, Earned

(* One more step of Add, with the array as it is.                          *)
LEMMA AddStepInv ==
  ASSUME IInv, NEW c \in Caller, NEW w \in Work, worker' = [worker EXCEPT ![c] = w],
         At(c) \in Returning, w.at \in Returning, w.verdict = worker[c].verdict,
         w.copy = worker[c].copy \/ w.copy = <<>>,
         UNCHANGED <<items, callVars, run, failureCount, failed, denied, delivered, disturbed>>,
         size' \in Nat, Quiet'
  PROVE  IInv'
<1>1. Answered(c)'
  BY AnswerKept
<1>2. At(c) \notin Handling /\ w.at \notin Handling /\ w.at \notin Early
  BY DEF Handling, Early, Returning
<1>3. torn' \in BOOLEAN /\ disturbed' \subseteq Caller /\ denied' \in SUBSET User /\ denied' = denied
      /\ disturbed' = disturbed
  BY DEF IInv, Typed, callVars
<1> QED  BY <1>1, <1>2, <1>3, GoesOnInv

(* The larger array holds what the array held.                             *)
LEMMA GrownIs ==
  ASSUME IInv
  PROVE  /\ Grown \in Seq(Item) /\ Len(Grown) > Len(items)
         /\ \A i \in DOMAIN Grown : \E r \in Item : r = Grown[i] /\ Good(r)
<1>1. items \in Seq(Item) /\ Len(items) \in Nat
  BY DEF IInv, Typed
<1>2. Larger(Len(items)) \in Nat /\ Larger(Len(items)) > Len(items)
  BY <1>1, CallbackAssumption DEF Larger
<1> DEFINE n == Larger(Len(items))
<1> HIDE DEF n
<1>3. Grown = [i \in 1 .. n |-> IF i <= Len(items) THEN items[i] ELSE Nothing]
  BY DEF Grown, n
<1>4. \A i \in 1 .. n : Grown[i] \in Item /\ Good(Grown[i])
  <2> SUFFICES ASSUME NEW i \in 1 .. n PROVE Grown[i] \in Item /\ Good(Grown[i])
    OBVIOUS
  <2>1. Nothing \in Item /\ Good(Nothing)
    BY DEF Item, Good
  <2>2. CASE i <= Len(items)
    <3>1. i \in DOMAIN items
      BY <1>1, <1>2, <2>2 DEF n
    <3> QED  BY <1>1, <1>3, <2>2, <3>1 DEF IInv, Honest
  <2>3. CASE ~(i <= Len(items))
    BY <1>3, <2>1, <2>3
  <2> QED  BY <2>2, <2>3
<1>5. n \in Nat /\ n > Len(items)
  BY <1>2 DEF n
<1>6. Grown \in Seq(Item) /\ Len(Grown) = n /\ DOMAIN Grown = 1 .. n
  BY <1>3, <1>4, <1>5
<1> QED  BY <1>4, <1>5, <1>6

(* The array is full, or it is not.                                        *)
LEMMA AddCheckInv ==
  ASSUME IInv, NEW c \in Caller, AddCheck(c)
  PROVE  IInv'
<1> USE DEF IInv, AddCheck, resultVars
<1>1. worker[c] \in Work /\ size \in Nat /\ items \in Seq(Item) /\ Len(items) \in Nat
  BY DEF Typed
<1>2. At(c) \in Returning
  BY DEF Returning
<1>3. CASE size = Len(items)
  <2> DEFINE w == [worker[c] EXCEPT !.at = "publish", !.copy = Grown]
  <2>1. w \in Work /\ w.at = "publish" /\ w.verdict = worker[c].verdict /\ w.copy = Grown
    <3>1. "publish" \in Place
      BY DEF Place, Returning
    <3> QED  BY <1>1, <3>1, GrownIs DEF Work
  <2>2. worker' = [worker EXCEPT ![c] = w]
    BY <1>3
  <2> HIDE DEF w
  <2>3. worker'[c] = w /\ At(c)' = w.at
    BY <2>2 DEF Typed, At
  <2>4. Quiet'
    <3>1. Placed(c)' /\ size' <= Len(items')
      BY <1>1, <1>3, <2>1, <2>3, GrownIs DEF Placed
    <3> QED  BY <1>2, <2>1, <2>2, <3>1, QuietInside DEF callVars
  <2>5. Answered(c)'
    BY <1>2, <2>1, <2>2, AnswerKept DEF Returning
  <2>6. At(c) # "failing" /\ w.at \notin Handling /\ w.at \notin Early
    BY <2>1 DEF Handling, Early
  <2>7. \A i \in DOMAIN items' : \E r \in Item : r = items'[i] /\ Good(r)
    BY GoodItems
  <2>8. torn' \in BOOLEAN /\ disturbed' \subseteq Caller /\ denied' \in SUBSET User
    BY DEF Typed, callVars
  <2>9. \A i \in DOMAIN w.copy : \E r \in Item : r = w.copy[i] /\ Good(r)
    BY <2>1, GrownIs
  <2> QED  BY <1>1, <2>1, <2>2, <2>4, <2>5, <2>6, <2>7, <2>8, <2>9, MoveInv
<1>4. CASE size # Len(items)
  <2> DEFINE w == [worker[c] EXCEPT !.at = "read"]
  <2>1. w \in Work /\ w.at = "read" /\ w.verdict = worker[c].verdict /\ w.copy = worker[c].copy
    <3>1. "read" \in Place
      BY DEF Place, Returning
    <3> QED  BY <1>1, <3>1 DEF Work
  <2>2. worker' = [worker EXCEPT ![c] = w]
    BY <1>4
  <2> HIDE DEF w
  <2>3. worker'[c] = w /\ At(c)' = w.at
    BY <2>2 DEF Typed, At
  <2>4. Placed(c) /\ size <= Len(items) => Placed(c)' /\ size' <= Len(items')
    BY <1>1, <1>4, <2>1, <2>3 DEF Placed
  <2>5. Quiet'
    BY <1>2, <2>1, <2>2, <2>4, QuietInside DEF callVars
  <2> QED  BY <1>1, <1>2, <2>1, <2>2, <2>5, AddStepInv DEF Returning
<1> QED  BY <1>3, <1>4

(* The size is read.                                                       *)
LEMMA AddReadInv ==
  ASSUME IInv, NEW c \in Caller, AddRead(c)
  PROVE  IInv'
<1> USE DEF IInv, AddRead, resultVars
<1>1. worker[c] \in Work /\ size \in Nat /\ items \in Seq(Item) /\ Len(items) \in Nat
  BY DEF Typed
<1>2. At(c) \in Returning
  BY DEF Returning
<1> DEFINE array == IF size + 1 <= Len(items) THEN "current" ELSE "short"
           w == [worker[c] EXCEPT !.at = "size", !.slot = size + 1, !.array = array]
<1>3. /\ w \in Work /\ w.at = "size" /\ w.verdict = worker[c].verdict /\ w.copy = worker[c].copy
      /\ w.slot = size + 1 /\ w.array = array
  <2>1. "size" \in Place /\ array \in {"current", "old", "short"} /\ size + 1 \in Nat
    BY <1>1 DEF Place, Returning
  <2> HIDE DEF array
  <2> QED  BY <1>1, <2>1 DEF Work
<1>4. worker' = [worker EXCEPT ![c] = w]
  OBVIOUS
<1> HIDE DEF w
<1>5. worker'[c] = w /\ At(c)' = w.at
  BY <1>4 DEF Typed, At
<1>6. Placed(c) /\ size <= Len(items) => Placed(c)' /\ size' <= Len(items')
  BY <1>1, <1>3, <1>5 DEF Placed
<1>7. Quiet'
  BY <1>2, <1>3, <1>4, <1>6, QuietInside DEF callVars
<1> QED  BY <1>1, <1>2, <1>3, <1>4, <1>7, AddStepInv DEF Returning

(* The size is written.                                                    *)
LEMMA AddSizeInv ==
  ASSUME IInv, NEW c \in Caller, AddSize(c)
  PROVE  IInv'
<1> USE DEF IInv, AddSize, resultVars
<1>1. worker[c] \in Work /\ worker[c].slot \in Nat /\ items \in Seq(Item) /\ Len(items) \in Nat
  BY DEF Typed, Work
<1>2. At(c) \in Returning
  BY DEF Returning
<1> DEFINE w == [worker[c] EXCEPT !.at = "store"]
<1>3. /\ w \in Work /\ w.at = "store" /\ w.verdict = worker[c].verdict /\ w.copy = worker[c].copy
      /\ w.array = worker[c].array
  <2>1. "store" \in Place
    BY DEF Place, Returning
  <2> QED  BY <1>1, <2>1 DEF Work
<1>4. worker' = [worker EXCEPT ![c] = w]
  OBVIOUS
<1> HIDE DEF w
<1>5. worker'[c] = w /\ At(c)' = w.at
  BY <1>4 DEF Typed, At
<1>6. Placed(c) /\ size <= Len(items) => Placed(c)' /\ size' <= Len(items')
  BY <1>1, <1>3, <1>5 DEF Placed
<1>7. Quiet'
  BY <1>2, <1>3, <1>4, <1>6, QuietInside DEF callVars
<1> QED  BY <1>1, <1>2, <1>3, <1>4, <1>7, AddStepInv DEF Returning

(* The item is stored in the array that was loaded.                        *)
LEMMA AddStoreInv ==
  ASSUME IInv, NEW c \in Caller, AddStore(c)
  PROVE  IInv'
<1> USE DEF IInv, AddStore
<1>1. items \in Seq(Item) /\ Len(items) \in Nat /\ size \in Nat /\ worker[c].slot \in Nat /\ Answered(c)
  BY DEF Typed, Work
<1>2. At(c) \in Returning /\ At(c) \notin Early /\ At(c) \notin Handling
  BY DEF Returning, Early, Handling
<1>3. Made(c) \in Item /\ Good(Made(c))
  <2>1. Made(c).for = c /\ Made(c).verdict = worker[c].verdict
    BY DEF Made
  <2>2. Made(c) \in Result
    BY DEF Made, Result, Typed, Work
  <2>3. worker[c].verdict = "last_resort" => Earned(c)
    BY <1>1 DEF Answered
  <2>4. c \in denied => worker[c].verdict = "deny" \/ (worker[c].verdict = "last_resort" /\ disturbed # {})
    BY <1>1, <1>2 DEF Answered
  <2> QED  BY <1>2, <2>1, <2>2, <2>3, <2>4 DEF Good, Item
<1> HIDE DEF AddStore
<1> DEFINE m == Made(c)
<1>4. m \in Item /\ Good(m)
  BY <1>3
<1>5. items' = items \/ items' = [items EXCEPT ![worker[c].slot] = m]
  BY DEF AddStore
<1>6. items' \in Seq(Item) /\ Len(items') = Len(items) /\ DOMAIN items' = DOMAIN items
  BY <1>1, <1>4, <1>5
<1>7. \A i \in DOMAIN items' : \E r \in Item : r = items'[i] /\ Good(r)
  <2> SUFFICES ASSUME NEW i \in DOMAIN items'
               PROVE  \E r \in Item : r = items'[i] /\ Good(r)
    OBVIOUS
  <2>1. items'[i] = items[i] \/ items'[i] = m
    BY <1>1, <1>5, <1>6
  <2> QED  BY <1>4, <1>6, <2>1, GoodItems
<1> HIDE DEF m
<1>8. worker' = [worker EXCEPT ![c] = Finished]
  BY DEF AddStore
<1>9. Finished \in Work /\ Finished.at = "done" /\ Finished.verdict = "lobby" /\ Finished.copy = <<>>
  BY UnbornTyped DEF Finished, Unborn
<1>10. worker'[c] = Finished /\ At(c)' = "done"
  BY <1>8, <1>9 DEF Typed, At
<1>11. Answered(c)'
  BY <1>9, <1>10 DEF Answered, Early, Handling, Returning
<1>12. Quiet'
  <2>1. Placed(c)'
    BY <1>10 DEF Placed
  <2>2. size' = size /\ UNCHANGED <<torn, run, disturbed>>
    BY DEF AddStore, callVars
  <2> QED  BY <1>2, <1>6, <1>8, <1>9, <2>1, <2>2, QuietInside
<1>13. /\ size' \in Nat /\ torn' \in BOOLEAN /\ denied' \in SUBSET User /\ denied' = denied
       /\ disturbed' \subseteq Caller /\ disturbed \subseteq disturbed'
  BY DEF AddStore, callVars, Typed
<1>14. At(c) # "failing" /\ Finished.at \notin Handling /\ Finished.at \notin Early
  BY <1>2, <1>9 DEF Handling, Early
<1>15. UNCHANGED <<run, failed, failureCount, delivered>>
  BY DEF AddStore
<1>16. \A i \in DOMAIN Finished.copy : \E r \in Item : r = Finished.copy[i] /\ Good(r)
  BY <1>9
<1> QED  BY <1>6, <1>7, <1>8, <1>9, <1>11, <1>12, <1>13, <1>14, <1>15, <1>16, MoveInv

(* The array is too short: some other Return has met this one.             *)
LEMMA AddThrowsInv ==
  ASSUME IInv, NEW c \in Caller, AddThrows(c), run.at # "crashed"
  PROVE  IInv'
<1>1. At(c) \in Returning /\ At(c) \notin Handling
  BY DEF AddThrows, Returning, Handling
<1>2. disturbed # {}
  BY <1>1, Alone DEF AddThrows, Placed
<1>3. torn' \in BOOLEAN /\ disturbed' = disturbed /\ disturbed' \subseteq Caller
  BY DEF AddThrows, callVars, IInv, Typed
<1> QED  BY <1>1, <1>2, <1>3, ThrowInv DEF AddThrows

(* The larger array takes the place of the old one.                        *)
LEMMA AddPublishInv ==
  ASSUME IInv, NEW c \in Caller, AddPublish(c), run.at # "crashed"
  PROVE  IInv'
<1> USE DEF IInv
<1>1. /\ items' = worker[c].copy /\ At(c) = "publish"
      /\ worker' = [d \in Caller |->
                      IF d = c THEN [worker[c] EXCEPT !.at = "read", !.copy = <<>>]
                      ELSE IF At(d) \in {"size", "store"} /\ worker[d].array = "current"
                      THEN [worker[d] EXCEPT !.array = "old"]
                      ELSE worker[d]]
      /\ UNCHANGED <<size, callVars, run, failureCount, failed, denied, delivered, disturbed>>
  BY DEF AddPublish
<1>2. \A d \in Caller : worker[d] \in Work
  BY DEF Typed
<1> DEFINE w == [worker[c] EXCEPT !.at = "read", !.copy = <<>>]
<1>3. /\ worker'[c] = w /\ w \in Work /\ w.at = "read" /\ w.copy = <<>>
      /\ w.verdict = worker[c].verdict /\ w.count = worker[c].count
  <2>1. "read" \in Place /\ <<>> \in Seq(Item)
    BY DEF Place, Returning
  <2> QED  BY <1>1, <1>2, <2>1 DEF Work
<1> HIDE DEF w
<1>4. \A d \in Caller : d # c =>
        /\ worker'[d] \in Work /\ worker'[d].at = worker[d].at /\ worker'[d].copy = worker[d].copy
        /\ worker'[d].verdict = worker[d].verdict /\ worker'[d].count = worker[d].count
  <2> SUFFICES ASSUME NEW d \in Caller, d # c
               PROVE  /\ worker'[d] \in Work /\ worker'[d].at = worker[d].at
                      /\ worker'[d].copy = worker[d].copy
                      /\ worker'[d].verdict = worker[d].verdict /\ worker'[d].count = worker[d].count
    OBVIOUS
  <2>1. worker'[d] = worker[d] \/ worker'[d] = [worker[d] EXCEPT !.array = "old"]
    BY <1>1
  <2>2. worker[d] \in Work
    BY <1>2
  <2> QED  BY <2>1, <2>2 DEF Work
<1>5. \A d \in Caller : d # c => At(d)' = At(d)
  BY <1>4 DEF At
<1>6. At(c)' = "read"
  BY <1>3 DEF At
<1>7. Typed'
  <2>1. worker' \in [Caller -> Work]
    <3>1. \A d \in Caller : worker'[d] \in Work
      BY <1>3, <1>4
    <3>2. worker' = [d \in Caller |-> worker'[d]]
      BY <1>1
    <3> QED  BY <3>1, <3>2
  <2>2. items' \in Seq(Item)
    BY <1>1, <1>2 DEF Work
  <2> QED  BY <1>1, <2>1, <2>2 DEF Typed, callVars
<1>8. \A r \in Item : Good(r) => Good(r)'
  <2>1. \A d \in Caller : At(d) \notin Early => At(d)' \notin Early
    BY <1>5, <1>6 DEF Early
  <2> QED  BY <1>1, <1>7, <2>1, GoodStays
<1>9. Honest'
  <2>1. \A i \in DOMAIN items' : Good(items[i])'
    BY <1>1, <1>8, GoodItems
  <2>2. \A d \in Caller : \A i \in DOMAIN worker'[d].copy : Good(worker[d].copy[i])'
    <3> SUFFICES ASSUME NEW d \in Caller, NEW i \in DOMAIN worker'[d].copy
                 PROVE  Good(worker[d].copy[i])'
      OBVIOUS
    <3>1. CASE d = c
      <4>1. worker'[d].copy = <<>>
        BY <1>3, <3>1
      <4>2. DOMAIN <<>> = {}
        OBVIOUS
      <4> QED  BY <4>1, <4>2, Zenon
    <3>2. CASE d # c
      <4>1. worker'[d].copy = worker[d].copy
        BY <1>4, <3>2
      <4> QED  BY <1>8, <4>1, GoodItems
    <3> QED  BY <3>1, <3>2
  <2>3. run.results \in Seq(Item) /\ delivered \in Seq(Item)
    BY DEF Typed, Item
  <2>4. \A n \in DOMAIN run'.results : Good(run.results[n])'
    BY <1>1, <1>8, <2>3 DEF Honest
  <2>5. \A n \in DOMAIN delivered' : Good(delivered[n])'
    BY <1>1, <1>8, <2>3 DEF Honest
  <2> QED  BY <2>1, <2>2, <2>4, <2>5 DEF Honest
<1>10. \A d \in Caller : Answered(d)'
  <2> SUFFICES ASSUME NEW d \in Caller PROVE Answered(d)'
    OBVIOUS
  <2>1. CASE d = c
    <3>1. Answered(c) /\ At(c) \in Returning
      BY <1>1 DEF Returning
    <3>2. c \in denied => worker[c].verdict = "deny" \/ (worker[c].verdict = "last_resort" /\ disturbed # {})
      BY <3>1 DEF Answered
    <3>3. At(c)' \notin Early /\ At(c)' \notin Handling /\ worker'[c].verdict = worker[c].verdict
      BY <1>3, <1>6 DEF Early, Handling
    <3> QED  BY <1>1, <2>1, <3>1, <3>2, <3>3 DEF Answered, Earned
  <2>2. CASE d # c
    BY <1>1, <1>4, <1>5, <1>7, <2>2, AnsweredStays
  <2> QED  BY <2>1, <2>2
<1>11. Undercounted'
  <2>1. \A v \in User : (At(v)' = At(v) /\ worker'[v].count = worker[v].count)
                        \/ (At(v) # "failing" /\ At(v)' \notin Handling)
    <3> SUFFICES ASSUME NEW v \in User
                 PROVE  (At(v)' = At(v) /\ worker'[v].count = worker[v].count)
                        \/ (At(v) # "failing" /\ At(v)' \notin Handling)
      OBVIOUS
    <3>1. v \in Caller
      BY DEF Caller
    <3>2. CASE v = c
      BY <1>1, <1>6, <3>2 DEF Handling
    <3>3. CASE v # c
      BY <1>4, <1>5, <3>1, <3>3
    <3> QED  BY <3>2, <3>3
  <2> QED  BY <1>1, <2>1, UndercountedKept DEF Typed
<1>12. Quiet'
  <2> SUFFICES ASSUME disturbed = {} PROVE Quiet'
    BY <1>1 DEF Quiet
  <2>1. InReturn = {c} /\ run.at = "idle" /\ ~torn /\ size <= Len(items) /\ Placed(c)
    BY <1>1, Alone DEF Returning
  <2>2. \A d \in Caller : d # c => At(d)' \notin Returning
    BY <1>5, <2>1 DEF InReturn
  <2>3. InReturn' \subseteq {c}
    BY <2>2 DEF InReturn
  <2>4. size' < Len(items') /\ size' \in Nat /\ Len(items') \in Nat
    BY <1>1, <1>7, <2>1 DEF Placed, Typed
  <2>5. \A d \in Caller : Placed(d)'
    <3> SUFFICES ASSUME NEW d \in Caller PROVE Placed(d)'
      OBVIOUS
    <3>1. CASE d = c
      BY <1>6, <2>4, <3>1 DEF Placed
    <3>2. CASE d # c
      BY <2>2, <3>2 DEF Placed, Returning
    <3> QED  BY <3>1, <3>2
  <2> QED  BY <1>1, <2>1, <2>3, <2>4, <2>5 DEF Quiet, callVars
<1> QED  BY <1>7, <1>9, <1>10, <1>11, <1>12

-----------------------------------------------------------------------------
(* The game's thread.                                                      *)

(* It copies, delivers and clears references that are good.                *)
LEMMA RunInv ==
  ASSUME IInv, UNCHANGED <<callVars, worker, failureCount, failed, denied>>,
         run' \in [at : {"idle", "copy", "deliver", "crashed"}, count : Nat, results : Seq(Item)],
         items' \in Seq(Item), size' \in Nat, delivered' \in Seq(Result),
         disturbed \subseteq disturbed', disturbed' \subseteq Caller,
         \A i \in DOMAIN items' : \E r \in Item : r = items'[i] /\ Good(r),
         \A n \in DOMAIN run'.results : \E r \in Item : r = run'.results[n] /\ Good(r),
         \A n \in DOMAIN delivered' : \E r \in Item : r = delivered'[n] /\ Good(r),
         Quiet'
  PROVE  IInv'
<1> USE DEF IInv
<1>1. Typed'
  BY DEF Typed, callVars
<1>2. \A c \in Caller : At(c)' = At(c)
  BY DEF At
<1>3. \A r \in Item : Good(r) => Good(r)'
  BY <1>1, <1>2, GoodStays
<1>4. Honest'
  <2>1. \A c \in Caller : worker[c].copy \in Seq(Item)
    BY DEF Typed, Work
  <2>2. \A c \in Caller : \A i \in DOMAIN worker'[c].copy : Good(worker[c].copy[i])'
    BY <1>3, <2>1 DEF Honest
  <2>3. \A i \in DOMAIN items' : Good(items[i])'
    BY <1>3
  <2>4. \A n \in DOMAIN run'.results : Good(run.results[n])'
    BY <1>3
  <2>5. \A n \in DOMAIN delivered' : Good(delivered[n])'
    BY <1>3
  <2> QED  BY <2>2, <2>3, <2>4, <2>5 DEF Honest
<1>5. \A c \in Caller : Answered(c)'
  BY <1>1, <1>2, AnsweredStays
<1>6. Undercounted'
  BY <1>2, UndercountedKept DEF Typed, Caller
<1> QED  BY <1>1, <1>4, <1>5, <1>6

(* What was delivered, or is about to be, is good.                         *)
LEMMA GoodResults ==
  ASSUME IInv
  PROVE  /\ \A n \in DOMAIN run.results : \E r \in Item : r = run.results[n] /\ Good(r)
         /\ \A n \in DOMAIN delivered : \E r \in Item : r = delivered[n] /\ Good(r)
<1>1. run.results \in Seq(Item) /\ delivered \in Seq(Item)
  BY DEF IInv, Typed, Item
<1> QED  BY <1>1 DEF IInv, Honest

(* Nobody is in Return, or somebody has been disturbed.                    *)
LEMMA QuietRun ==
  ASSUME IInv, UNCHANGED <<callVars, worker>>, disturbed \subseteq disturbed', run.at # "crashed",
         disturbed' = {} => InReturn = {},
         size <= Len(items) => size' <= Len(items')
  PROVE  Quiet'
<1> SUFFICES ASSUME disturbed' = {} PROVE Quiet'
  BY DEF Quiet
<1>1. ~torn /\ size <= Len(items) /\ InReturn = {}
  BY DEF IInv, Quiet
<1>2. InReturn' = {}
  BY <1>1 DEF InReturn, At
<1>3. \A c \in Caller : Placed(c)'
  <2>1. \A c \in Caller : At(c)' \notin Returning
    BY <1>2 DEF InReturn
  <2> QED  BY <2>1 DEF Placed, Returning
<1> QED  BY <1>1, <1>2, <1>3 DEF Quiet, callVars

(* Run begins.                                                             *)
LEMMA RunBeginInv ==
  ASSUME IInv, RunBegin
  PROVE  IInv'
<1>1. /\ run' \in [at : {"idle", "copy", "deliver", "crashed"}, count : Nat, results : Seq(Item)]
      /\ run'.results = <<>>
  <2>1. <<>> \in Seq(Item) /\ size \in Nat
    BY DEF IInv, Typed
  <2> QED  BY <2>1 DEF RunBegin, IdleRun
<1>2. \A n \in DOMAIN run'.results : \E r \in Item : r = run'.results[n] /\ Good(r)
  BY <1>1
<1>3. Quiet'
  BY QuietRun DEF RunBegin, GameIsFree, resultVars
<1>4. /\ items' = items /\ size' = size /\ delivered' = delivered
      /\ items \in Seq(Item) /\ size \in Nat /\ delivered \in Seq(Result)
      /\ disturbed \subseteq disturbed' /\ disturbed' \subseteq Caller
  BY DEF IInv, Typed, RunBegin, resultVars, InReturn
<1>5. \A i \in DOMAIN items' : \E r \in Item : r = items'[i] /\ Good(r)
  BY <1>4, GoodItems
<1>6. \A n \in DOMAIN delivered' : \E r \in Item : r = delivered'[n] /\ Good(r)
  BY <1>4, GoodResults
<1>7. UNCHANGED <<callVars, worker, failureCount, failed, denied>>
  BY DEF RunBegin
<1> QED  BY <1>1, <1>2, <1>3, <1>4, <1>5, <1>6, <1>7, RunInv

(* While Run is under way nobody is in Return undisturbed.                 *)
LEMMA RunAlone ==
  ASSUME IInv, run.at \in {"copy", "deliver"}, disturbed = {}
  PROVE  InReturn = {}
BY DEF IInv, Quiet

(* The results are copied, or the range is not there.                      *)
LEMMA RunCopyInv ==
  ASSUME IInv, RunCopy
  PROVE  IInv'
<1>1. /\ items' = items /\ size' = size /\ delivered' = delivered /\ disturbed' = disturbed
      /\ items \in Seq(Item) /\ size \in Nat /\ delivered \in Seq(Result)
      /\ disturbed' \subseteq Caller /\ torn' \in BOOLEAN /\ run.count \in Nat
  BY DEF IInv, Typed, RunCopy, resultVars, callVars
<1>2. UNCHANGED <<resultVars, callVars, worker, failureCount, failed, denied, delivered>>
  BY DEF RunCopy
<1>3. CASE Crash
  BY <1>1, <1>2, <1>3, CrashInv
<1>4. CASE /\ run.count <= size /\ run.count <= Len(items)
           /\ run' = [IdleRun EXCEPT !.at = "deliver", !.results = CopyResults]
  <2>1. /\ CopyResults \in Seq(Item) /\ DOMAIN CopyResults \subseteq DOMAIN items
        /\ \A n \in DOMAIN CopyResults : CopyResults[n] = items[n]
    BY <1>1, <1>4 DEF CopyResults
  <2>2. /\ run' \in [at : {"idle", "copy", "deliver", "crashed"}, count : Nat, results : Seq(Item)]
        /\ run'.results = CopyResults
    BY <1>4, <2>1 DEF IdleRun
  <2>3. \A n \in DOMAIN run'.results : \E r \in Item : r = run'.results[n] /\ Good(r)
    BY <2>1, <2>2, GoodItems
  <2>4. Quiet'
    BY <1>1, <1>2, RunAlone, QuietRun DEF RunCopy
  <2>5. \A i \in DOMAIN items' : \E r \in Item : r = items'[i] /\ Good(r)
    BY <1>1, GoodItems
  <2>6. \A n \in DOMAIN delivered' : \E r \in Item : r = delivered'[n] /\ Good(r)
    BY <1>1, GoodResults
  <2> QED  BY <1>1, <1>2, <2>2, <2>3, <2>4, <2>5, <2>6, RunInv
<1> QED  BY <1>3, <1>4 DEF RunCopy

(* A callback runs.                                                        *)
LEMMA DeliverInv ==
  ASSUME IInv, Deliver
  PROVE  IInv'
<1>1. /\ items' = items /\ size' = size /\ disturbed' = disturbed
      /\ items \in Seq(Item) /\ size \in Nat /\ delivered \in Seq(Result)
      /\ disturbed' \subseteq Caller /\ run.results \in Seq(Item)
      /\ run \in [at : {"idle", "copy", "deliver", "crashed"}, count : Nat, results : Seq(Item)]
  BY DEF IInv, Typed, Deliver, resultVars
<1>2. UNCHANGED <<callVars, worker, failureCount, failed, denied>>
  BY DEF Deliver
<1>3. /\ run.results # <<>> /\ Head(run.results) # Nothing /\ run.at = "deliver"
      /\ run' = [run EXCEPT !.results = Tail(@)] /\ delivered' = Append(delivered, Head(run.results))
  BY DEF Deliver
<1>4. /\ Tail(run.results) \in Seq(Item) /\ Head(run.results) = run.results[1] /\ 1 \in DOMAIN run.results
      /\ \A n \in DOMAIN Tail(run.results) : n + 1 \in DOMAIN run.results
                                             /\ Tail(run.results)[n] = run.results[n + 1]
  BY <1>1, <1>3
<1>5. Head(run.results) \in Result /\ \E r \in Item : r = Head(run.results) /\ Good(r)
  <2>1. Head(run.results) \in Item
    BY <1>1, <1>4
  <2> QED  BY <1>3, <1>4, <2>1, GoodResults DEF Item
<1>6. /\ run' \in [at : {"idle", "copy", "deliver", "crashed"}, count : Nat, results : Seq(Item)]
      /\ run'.results = Tail(run.results)
  BY <1>1, <1>3, <1>4
<1>7. \A n \in DOMAIN run'.results : \E r \in Item : r = run'.results[n] /\ Good(r)
  BY <1>4, <1>6, GoodResults
<1>8. delivered' \in Seq(Result)
  BY <1>1, <1>3, <1>5
<1>9. \A n \in DOMAIN delivered' : \E r \in Item : r = delivered'[n] /\ Good(r)
  <2> SUFFICES ASSUME NEW n \in DOMAIN delivered'
               PROVE  \E r \in Item : r = delivered'[n] /\ Good(r)
    OBVIOUS
  <2>1. (n \in DOMAIN delivered /\ delivered'[n] = delivered[n]) \/ delivered'[n] = Head(run.results)
    BY <1>1, <1>3, <1>5
  <2> QED  BY <1>5, <2>1, GoodResults
<1>10. Quiet'
  BY <1>1, <1>2, <1>3, RunAlone, QuietRun
<1>11. \A i \in DOMAIN items' : \E r \in Item : r = items'[i] /\ Good(r)
  BY <1>1, GoodItems
<1> QED  BY <1>1, <1>2, <1>6, <1>7, <1>8, <1>9, <1>10, <1>11, RunInv

(* A null result ends the process.                                         *)
LEMMA NullResultInv ==
  ASSUME IInv, NullResult
  PROVE  IInv'
<1>1. torn' \in BOOLEAN /\ disturbed' = disturbed /\ disturbed' \subseteq Caller
  BY DEF IInv, Typed, NullResult, callVars
<1> QED  BY <1>1, CrashInv DEF NullResult

(* The list is cleared.                                                    *)
LEMMA RunEndInv ==
  ASSUME IInv, RunEnd
  PROVE  IInv'
<1>1. /\ delivered' = delivered /\ disturbed' = disturbed
      /\ items \in Seq(Item) /\ size \in Nat /\ delivered \in Seq(Result) /\ Len(items) \in Nat
      /\ disturbed' \subseteq Caller /\ torn' \in BOOLEAN
  BY DEF IInv, Typed, RunEnd, callVars
<1>2. UNCHANGED <<callVars, worker, failureCount, failed, denied, delivered>>
  BY DEF RunEnd
<1>3. CASE Crash /\ UNCHANGED resultVars
  BY <1>1, <1>2, <1>3, CrashInv
<1>4. CASE /\ size <= Len(items) /\ size' = 0 /\ run' = IdleRun
           /\ items' = [i \in DOMAIN items |-> IF i <= size THEN Nothing ELSE items[i]]
  <2>1. Nothing \in Item /\ Good(Nothing)
    BY DEF Item, Good
  <2>2. DOMAIN items = 1 .. Len(items) /\ \A i \in DOMAIN items : items[i] \in Item
    BY <1>1
  <2>3. items' \in Seq(Item) /\ Len(items') = Len(items) /\ DOMAIN items' = DOMAIN items
    BY <1>1, <1>4, <2>1, <2>2
  <2>4. \A i \in DOMAIN items' : \E r \in Item : r = items'[i] /\ Good(r)
    <3> SUFFICES ASSUME NEW i \in DOMAIN items'
                 PROVE  \E r \in Item : r = items'[i] /\ Good(r)
      OBVIOUS
    <3>1. items'[i] = Nothing \/ items'[i] = items[i]
      BY <1>4, <2>3
    <3> QED  BY <2>1, <2>3, <3>1, GoodItems
  <2>5. /\ run' \in [at : {"idle", "copy", "deliver", "crashed"}, count : Nat, results : Seq(Item)]
        /\ run'.results = <<>>
    <3>1. <<>> \in Seq(Item)
      OBVIOUS
    <3> QED  BY <1>4, <3>1 DEF IdleRun
  <2>6. \A n \in DOMAIN run'.results : \E r \in Item : r = run'.results[n] /\ Good(r)
    BY <2>5
  <2>7. Quiet'
    BY <1>1, <1>2, <1>4, <2>3, RunAlone, QuietRun DEF RunEnd
  <2>8. \A n \in DOMAIN delivered' : \E r \in Item : r = delivered'[n] /\ Good(r)
    BY <1>1, GoodResults
  <2> QED  BY <1>1, <1>2, <1>4, <2>3, <2>4, <2>5, <2>6, <2>7, <2>8, RunInv
<1> QED  BY <1>3, <1>4 DEF RunEnd

-----------------------------------------------------------------------------
(* Every step preserves the invariant.                                     *)
LEMMA NextInv == IInv /\ [Next]_vars => IInv'
<1> SUFFICES ASSUME IInv, [Next]_vars PROVE IInv'
  OBVIOUS
<1>1. ASSUME NEW u \in User, Connect(u) PROVE IInv'
  BY <1>1, ConnectInv
<1>2. ASSUME NEW c \in Lobby, LobbyCall(c) PROVE IInv'
  BY <1>2, LobbyCallInv
<1>3. ASSUME NEW u \in User, WorkerStep(u) PROVE IInv'
  <2>1. CASE LetIn(u)
    BY <2>1, AnswerInv DEF LetIn
  <2>2. ASSUME NEW verdict \in {"approve", "deny"}, Validate(u, verdict) PROVE IInv'
    BY <2>2, AnswerInv DEF Validate
  <2>3. CASE Fail(u)
    BY <2>3, FailInv
  <2>4. CASE CountFailure(u)
    BY <2>4, CountFailureInv
  <2>5. CASE LastResort(u)
    BY <2>5, LastResortInv
  <2>6. CASE ReturnBegin(u)
    BY <1>3, <2>6, ReturnBeginInv DEF WorkerStep
  <2> QED  BY <1>3, <2>1, <2>2, <2>3, <2>4, <2>5, <2>6 DEF WorkerStep
<1>4. ASSUME NEW c \in Caller, ReturnStep(c) PROVE IInv'
  <2>1. run.at # "crashed"
    BY <1>4 DEF ReturnStep
  <2> QED  BY <1>4, <2>1, InsertEndInv, SetCallInv, AddCheckInv, AddPublishInv, AddReadInv,
              AddSizeInv, AddStoreInv, AddThrowsInv DEF ReturnStep
<1>5. CASE RunStep
  BY <1>5, RunBeginInv, RunCopyInv, DeliverInv, NullResultInv, RunEndInv DEF RunStep
<1>6. CASE UNCHANGED vars
  <2>1. /\ UNCHANGED <<callVars, worker, failureCount, failed, denied>>
        /\ run' = run /\ items' = items /\ size' = size /\ delivered' = delivered /\ disturbed' = disturbed
    BY <1>6 DEF vars, resultVars
  <2>2. /\ run \in [at : {"idle", "copy", "deliver", "crashed"}, count : Nat, results : Seq(Item)]
        /\ items \in Seq(Item) /\ size \in Nat /\ delivered \in Seq(Result) /\ disturbed \subseteq Caller
    BY DEF IInv, Typed
  <2>3. Quiet'
    <3>1. InReturn' = InReturn /\ \A c \in Caller : Placed(c) => Placed(c)'
      BY <2>1 DEF InReturn, Placed, At
    <3> QED  BY <2>1, <3>1 DEF IInv, Quiet, callVars
  <2> QED  BY <2>1, <2>2, <2>3, GoodItems, GoodResults, RunInv
<1> QED  BY <1>1, <1>2, <1>3, <1>4, <1>5, <1>6 DEF Next

(* The invariant holds of every behaviour of the callback manager          *)
(* (Callbacks.h, SteamGameServer009.cpp).                                  *)
THEOREM InvariantHolds == Spec => []IInv
<1> QED  BY InitInv, NextInv, PTL DEF Spec

(* Whatever Returns meet each other or Run, and however the increments of  *)
(* failureCount interleave, the results of the last resort go to players   *)
(* whose validation ended in the catch, after more than MaxFailures of     *)
(* them had (SteamGameServer009.cpp:68-81).                                *)
THEOREM LastResortEarned == Spec => []LastResortIsLast
<1>1. IInv => LastResortIsLast
  <2> SUFFICES ASSUME IInv, NEW n \in DOMAIN delivered, delivered[n].verdict = "last_resort"
               PROVE  delivered[n].for \in failed /\ Cardinality(failed) > MaxFailures
    BY DEF LastResortIsLast
  <2>1. delivered[n] # Nothing /\ Good(delivered[n])
    <3>1. delivered[n] \in Result
      BY DEF IInv, Typed
    <3> QED  BY <3>1, CallbackAssumption DEF IInv, Honest
  <2> QED  BY <2>1 DEF Good, Earned
<1> QED  BY <1>1, InvariantHolds, PTL

(* A player the web server called invalid hears anything else only after   *)
(* some Return overlapped another one or a Run, threw inside the try of    *)
(* ValidateConnection (lines 44-81) and found more than MaxFailures        *)
(* exceptions counted.                                                     *)
THEOREM DenialsHold == Spec => []DeniedStayOut
<1>1. IInv => DeniedStayOut
  <2> SUFFICES ASSUME IInv, NEW n \in DOMAIN delivered,
                      delivered[n].for \in denied, delivered[n].verdict # "deny"
               PROVE  disturbed # {} /\ delivered[n].for \in failed /\ Cardinality(failed) > MaxFailures
    BY DEF DeniedStayOut
  <2>1. delivered[n] # Nothing /\ Good(delivered[n])
    <3>1. delivered[n] \in Result
      BY DEF IInv, Typed
    <3> QED  BY <3>1, CallbackAssumption DEF IInv, Honest
  <2> QED  BY <2>1 DEF Good, Earned
<1> QED  BY <1>1, InvariantHolds, PTL
=============================================================================
