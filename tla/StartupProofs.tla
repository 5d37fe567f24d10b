---------------------------- MODULE StartupProofs ----------------------------
(***************************************************************************)
(* Theorems about the start of dpmaster, for every command line, every     *)
(* order of the strings, every result of the resolver and every set of     *)
(* supported families.                                                     *)
(***************************************************************************)
EXTENDS Startup, FiniteSetTheorems, SequenceTheorems, Induction

(* The least element of a set of indices.                                  *)
LEMMA LeastIndex ==
  ASSUME NEW S \in SUBSET Nat, NEW otherwise
  PROVE  /\ S = {} => FirstIndex(S, otherwise) = otherwise
         /\ S # {} => FirstIndex(S, otherwise) \in S /\ \A j \in S : FirstIndex(S, otherwise) <= j
<1>1. CASE S = {}
  BY <1>1 DEF FirstIndex
<1>2. CASE S # {}
  <2>1. \E i \in S : \A j \in S : i <= j
    BY <1>2, LeastNat
  <2> QED  BY <1>2, <2>1 DEF FirstIndex
<1> QED  BY <1>1, <1>2

-----------------------------------------------------------------------------
(* The parser                                                              *)

Reads == argv \in Seq(Argument) /\ ind \in 1 .. Len(argv) + 1

(* Gathering parameters ends at the first argument that is no value.       *)
LEMMA ValuesEnd ==
  ASSUME Reads, NEW i \in 1 .. Len(argv) + 1
  PROVE  /\ EndOfValues(i) \in i .. Len(argv) + 1
         /\ \A j \in i .. EndOfValues(i) - 1 : IsValue(j)
         /\ ~IsValue(EndOfValues(i))
<1> DEFINE S == {j \in i .. Len(argv) : ~IsValue(j)}
<1>1. Len(argv) \in Nat /\ S \in SUBSET Nat /\ EndOfValues(i) = FirstIndex(S, Len(argv) + 1)
  BY DEF Reads, EndOfValues
<1>2. DOMAIN argv = 1 .. Len(argv)
  BY DEF Reads
<1>3. ~IsValue(Len(argv) + 1)
  BY <1>1, <1>2 DEF IsValue
<1>4. /\ S = {} => EndOfValues(i) = Len(argv) + 1
      /\ S # {} => EndOfValues(i) \in S /\ \A j \in S : EndOfValues(i) <= j
  <2> HIDE DEF S
  <2> QED  BY <1>1, LeastIndex
<1> HIDE DEF S
<1>5. CASE S = {}
  <2>1. ASSUME NEW j \in i .. Len(argv) PROVE IsValue(j)
    BY <1>5, <2>1 DEF S
  <2> QED  BY <1>1, <1>3, <1>4, <1>5, <2>1
<1>6. CASE S # {}
  <2>1. EndOfValues(i) \in i .. Len(argv) /\ ~IsValue(EndOfValues(i))
    BY <1>4, <1>6 DEF S
  <2>2. ASSUME NEW j \in i .. EndOfValues(i) - 1 PROVE IsValue(j)
    <3>1. j \in i .. Len(argv) /\ ~(EndOfValues(i) <= j)
      BY <1>1, <2>1
    <3> QED  BY <1>4, <1>6, <3>1 DEF S
  <2> QED  BY <1>1, <2>1, <2>2
<1> QED  BY <1>5, <1>6

(* Where the parser stands after an option, and what it takes from it.     *)
LEMMA OptionIs ==
  ASSUME Reads, NEW option, Is(option)
  PROVE  /\ ind \in 1 .. Len(argv) /\ argv[ind] \in Argument /\ argv[ind].option = option /\ option \in Option
         /\ Len(argv) \in Nat /\ AfterNeeded \in ind + 1 .. Len(argv) + 1
         /\ AfterParams \in AfterNeeded .. Len(argv) + 1
         /\ \A j \in AfterNeeded .. AfterParams - 1 : IsValue(j)
         /\ ~IsValue(AfterParams)
         /\ Params \in Seq(Value)
         /\ MinParams(option) > 0 => Params # <<>>
         /\ Attached = 0 => /\ AfterNeeded = ind + 1 + MinParams(option)
                            /\ Len(Params) = AfterParams - ind - 1
                            /\ \A n \in 1 .. Len(Params) : Params[n] = argv[ind + n].text
         /\ Attached = 1 => /\ Params = <<argv[ind].text>> /\ argv[ind].attached
                            /\ MinParams(option) < 2 => AfterNeeded = ind + 1
         /\ Attached = (IF argv[ind].attached THEN 1 ELSE 0)
<1>1. /\ ind \in 1 .. Len(argv) /\ argv[ind] \in Argument /\ argv[ind].option = option
      /\ Len(argv) \in Nat
  BY DEF Reads, Is, HasOption
<1>2. option \in Option /\ ~(AfterNeeded > Len(argv) + 1)
  <2>1. OptionStatus = "ok"
    BY DEF Is
  <2>2. argv[ind].option \in Option
    BY <2>1 DEF OptionStatus
  <2>3. ~(AfterNeeded > Len(argv) + 1)
    BY <2>1, <2>2 DEF OptionStatus
  <2> QED  BY <1>1, <2>2, <2>3
<1>3. /\ Needed = MinParams(option) /\ Needed \in 0 .. 2
      /\ Attached \in 0 .. 1 /\ Attached = (IF argv[ind].attached THEN 1 ELSE 0)
  BY <1>1 DEF Needed, MinParams, Attached
<1>4. /\ AfterNeeded \in ind + 1 .. Len(argv) + 1
      /\ Attached = 0 => AfterNeeded = ind + 1 + MinParams(option)
      /\ Attached = 1 /\ MinParams(option) < 2 => AfterNeeded = ind + 1
      /\ Attached = 1 /\ MinParams(option) = 2 => AfterNeeded = ind + 2
  BY <1>1, <1>2, <1>3 DEF AfterNeeded
<1>5. /\ AfterParams \in AfterNeeded .. Len(argv) + 1
      /\ \A j \in AfterNeeded .. AfterParams - 1 : IsValue(j)
      /\ ~IsValue(AfterParams)
  <2>1. AfterNeeded \in 1 .. Len(argv) + 1
    BY <1>1, <1>4
  <2> QED  BY <2>1, ValuesEnd DEF AfterParams
<1>6. CASE Attached = 0
  <2>1. NbParams = AfterParams - ind - 1 /\ NbParams \in Nat
    BY <1>1, <1>4, <1>5, <1>6 DEF NbParams
  <2>2. Params = [n \in 1 .. NbParams |-> argv[ind + n].text]
    BY <1>6 DEF Params
  <2>3. \A n \in 1 .. NbParams : argv[ind + n].text \in Value
    <3>1. \A n \in 1 .. NbParams : ind + n \in 1 .. Len(argv)
      BY <1>1, <1>4, <1>5, <2>1
    <3>2. \A j \in 1 .. Len(argv) : argv[j] \in Argument
      BY DEF Reads
    <3> QED  BY <3>1, <3>2 DEF Argument
  <2>4. Params \in Seq(Value) /\ Len(Params) = NbParams
    BY <2>1, <2>2, <2>3
  <2>5. MinParams(option) > 0 => Len(Params) > 0
    BY <1>1, <1>3, <1>4, <1>5, <1>6, <2>1, <2>4
  <2>6. Params # <<>> \/ Len(Params) = 0
    OBVIOUS
  <2>7. \A n \in 1 .. Len(Params) : Params[n] = argv[ind + n].text
    BY <2>2, <2>4
  <2>8. MinParams(option) > 0 => Params # <<>>
    BY <1>3, <2>5, <2>6
  <2> QED  BY <1>1, <1>2, <1>3, <1>4, <1>5, <1>6, <2>1, <2>4, <2>7, <2>8
<1>7. CASE Attached = 1
  <2>1. Params = <<argv[ind].text>> /\ argv[ind].text \in Value
    BY <1>1, <1>7 DEF Params, Argument
  <2>2. Params \in Seq(Value) /\ Params # <<>>
    BY <2>1
  <2>3. argv[ind].attached
    BY <1>3, <1>7
  <2> QED  BY <1>1, <1>2, <1>3, <1>4, <1>5, <1>7, <2>1, <2>2, <2>3
<1> QED  BY <1>3, <1>6, <1>7

-----------------------------------------------------------------------------
(* The loops                                                               *)

(* The runs of the loop of Game_Find.                                      *)
FindRun(names, game, X) ==
  {g \in [0 .. Len(names) -> X] :
     /\ g[0] = [known |-> FALSE, left |-> 0, right |-> Len(names) - 1]
     /\ \A i \in 1 .. Len(names) : g[i] = Bisect(names, game, g[i - 1])
     /\ Game_Find(names, game) = [known |-> g[Len(names)].known, index |-> g[Len(names)].left]}

(* This loop has a run.                                                    *)
LEMMA FindRuns ==
  ASSUME NEW names, NEW game, NEW X, Len(names) \in Nat, [known |-> FALSE, left |-> 0, right |-> Len(names) - 1] \in X,
         \A i \in 1 .. Len(names), v \in X : Bisect(names, game, v) \in X
  PROVE  FindRun(names, game, X) # {}
<1> DEFINE n == Len(names)
           start == [known |-> FALSE, left |-> 0, right |-> Len(names) - 1]
           step == [p \in (1 .. n) \X X |-> Bisect(names, game, p[2])]
           Turns(f) == [i \in 0 .. n |-> IF i = 0 THEN start
                                         ELSE CHOOSE next \in {Bisect(names, game, v) : v \in {f[i - 1]}} : TRUE]
           after == CHOOSE f : f = Turns(f)
<1>1. step \in [(1 .. n) \X X -> X]
  OBVIOUS
<1>2. \A i \in 1 .. n, v \in X : step[<<i, v>>] = Bisect(names, game, v)
  OBVIOUS
<1>3. ASSUME NEW f, NEW i \in 1 .. n PROVE Turns(f)[i] = Bisect(names, game, f[i - 1])
  OBVIOUS
<1>4. n \in Nat /\ start \in X
  OBVIOUS
<1>5. \A i \in 1 .. n, v \in X : Bisect(names, game, v) \in X
  OBVIOUS
<1> HIDE DEF step, Turns, n, start
<1>6. PICK g \in [0 .. n -> X] : g[0] = start /\ \A i \in 1 .. n : g[i] = step[<<i, g[i - 1]>>]
  <2>1. Runs(X, start, n, step) # {}
    BY <1>1, <1>4, LoopRuns
  <2> QED  BY <2>1 DEF Runs
<1>7. g = Turns(g)
  <2>1. ASSUME NEW i \in 1 .. n PROVE g[i] = Turns(g)[i]
    <3>1. g[i - 1] \in X
      BY <1>4
    <3> QED  BY <1>3, <1>6, <1>2, <3>1
  <2>2. \A i \in 0 .. n : i = 0 \/ i \in 1 .. n
    BY <1>4
  <2>3. g[0] = Turns(g)[0]
    BY <1>6, <1>4 DEF Turns
  <2>4. \A i \in 0 .. n : g[i] = Turns(g)[i]
    BY <2>1, <2>2, <2>3
  <2> QED  BY <2>4 DEF Turns
<1>8. after = Turns(after)
  BY <1>7
<1>9. Loop(LAMBDA at, i : Bisect(names, game, at), start, n) = IF n < 1 THEN start ELSE after[n]
  BY DEF Loop, Turns
<1> HIDE DEF after
<1>10. after[0] = start /\ \A i \in 1 .. n : after[i] = Bisect(names, game, after[i - 1])
  <2>1. after[0] = start
    BY <1>8, <1>4 DEF Turns
  <2> QED  BY <1>3, <1>8, <2>1
<1>11. after = [i \in 0 .. n |-> after[i]]
  BY <1>8 DEF Turns
<1>12. after \in [0 .. n -> X]
  <2>1. \A i \in 1 .. n : after[i - 1] \in X => after[i] \in X
    BY <1>10, <1>5
  <2> QED  BY <1>10, <1>11, <1>4, <2>1, TurnsStay
<1>13. Loop(LAMBDA at, i : Bisect(names, game, at), start, n) = after[n]
  <2>1. n < 1 => n = 0
    BY <1>4
  <2> QED  BY <1>9, <1>10, <2>1
<1>14. Game_Find(names, game) = [known |-> after[n].known, index |-> after[n].left]
  BY <1>13 DEF Game_Find, start, n
<1> QED  BY <1>10, <1>12, <1>14 DEF FindRun, start, n

(* The runs of the loop of Game_DeclarePolicy.                             *)
GamesRun(games, X) ==
  {g \in [0 .. Len(games) -> X] :
     /\ g[0] = game_names
     /\ \A i \in 1 .. Len(games) : g[i] = WithGame(g[i - 1], games[i])
     /\ WithGames(games) = g[Len(games)]}

(* This loop has a run.                                                    *)
LEMMA GamesRuns ==
  ASSUME NEW games, NEW X, Len(games) \in Nat, game_names \in X,
         \A i \in 1 .. Len(games), v \in X : WithGame(v, games[i]) \in X
  PROVE  GamesRun(games, X) # {}
<1> DEFINE n == Len(games)
           start == game_names
           step == [p \in (1 .. n) \X X |-> WithGame(p[2], games[p[1]])]
           Turns(f) == [i \in 0 .. n |-> IF i = 0 THEN start
                                         ELSE CHOOSE next \in {WithGame(v, games[i]) : v \in {f[i - 1]}} : TRUE]
           after == CHOOSE f : f = Turns(f)
<1>1. step \in [(1 .. n) \X X -> X]
  OBVIOUS
<1>2. \A i \in 1 .. n, v \in X : step[<<i, v>>] = WithGame(v, games[i])
  OBVIOUS
<1>3. ASSUME NEW f, NEW i \in 1 .. n PROVE Turns(f)[i] = WithGame(f[i - 1], games[i])
  OBVIOUS
<1>4. n \in Nat /\ start \in X
  OBVIOUS
<1>5. \A i \in 1 .. n, v \in X : WithGame(v, games[i]) \in X
  OBVIOUS
<1> HIDE DEF step, Turns, n, start
<1>6. PICK g \in [0 .. n -> X] : g[0] = start /\ \A i \in 1 .. n : g[i] = step[<<i, g[i - 1]>>]
  <2>1. Runs(X, start, n, step) # {}
    BY <1>1, <1>4, LoopRuns
  <2> QED  BY <2>1 DEF Runs
<1>7. g = Turns(g)
  <2>1. ASSUME NEW i \in 1 .. n PROVE g[i] = Turns(g)[i]
    <3>1. g[i - 1] \in X
      BY <1>4
    <3> QED  BY <1>3, <1>6, <1>2, <3>1
  <2>2. \A i \in 0 .. n : i = 0 \/ i \in 1 .. n
    BY <1>4
  <2>3. g[0] = Turns(g)[0]
    BY <1>6, <1>4 DEF Turns
  <2>4. \A i \in 0 .. n : g[i] = Turns(g)[i]
    BY <2>1, <2>2, <2>3
  <2> QED  BY <2>4 DEF Turns
<1>8. after = Turns(after)
  BY <1>7
<1>9. Loop(LAMBDA names, i : WithGame(names, games[i]), start, n) = IF n < 1 THEN start ELSE after[n]
  BY DEF Loop, Turns
<1> HIDE DEF after
<1>10. after[0] = start /\ \A i \in 1 .. n : after[i] = WithGame(after[i - 1], games[i])
  <2>1. after[0] = start
    BY <1>8, <1>4 DEF Turns
  <2> QED  BY <1>3, <1>8, <2>1
<1>11. after = [i \in 0 .. n |-> after[i]]
  BY <1>8 DEF Turns
<1>12. after \in [0 .. n -> X]
  <2>1. \A i \in 1 .. n : after[i - 1] \in X => after[i] \in X
    BY <1>10, <1>5
  <2> QED  BY <1>10, <1>11, <1>4, <2>1, TurnsStay
<1>13. Loop(LAMBDA names, i : WithGame(names, games[i]), start, n) = after[n]
  <2>1. n < 1 => n = 0
    BY <1>4
  <2> QED  BY <1>9, <1>10, <2>1
<1>14. WithGames(games) = after[n]
  BY <1>13 DEF WithGames, start, n
<1> QED  BY <1>10, <1>12, <1>14 DEF GamesRun, start, n

(* The runs of the loop of Sv_ResolveAddressMappings.                      *)
MapsRun(list, X) ==
  {g \in [0 .. Len(list) -> X] :
     /\ g[0] = [ok |-> TRUE, maps |-> <<>>]
     /\ \A i \in 1 .. Len(list) : g[i] = InsertNew(g[i - 1], list[i])
     /\ InsertAllAddrmaps(list) = g[Len(list)]}

(* This loop has a run.                                                    *)
LEMMA MapsRuns ==
  ASSUME NEW list, NEW X, Len(list) \in Nat, [ok |-> TRUE, maps |-> <<>>] \in X,
         \A i \in 1 .. Len(list), v \in X : InsertNew(v, list[i]) \in X
  PROVE  MapsRun(list, X) # {}
<1> DEFINE n == Len(list)
           start == [ok |-> TRUE, maps |-> <<>>]
           step == [p \in (1 .. n) \X X |-> InsertNew(p[2], list[p[1]])]
           Turns(f) == [i \in 0 .. n |-> IF i = 0 THEN start
                                         ELSE CHOOSE next \in {InsertNew(v, list[i]) : v \in {f[i - 1]}} : TRUE]
           after == CHOOSE f : f = Turns(f)
<1>1. step \in [(1 .. n) \X X -> X]
  OBVIOUS
<1>2. \A i \in 1 .. n, v \in X : step[<<i, v>>] = InsertNew(v, list[i])
  OBVIOUS
<1>3. ASSUME NEW f, NEW i \in 1 .. n PROVE Turns(f)[i] = InsertNew(f[i - 1], list[i])
  OBVIOUS
<1>4. n \in Nat /\ start \in X
  OBVIOUS
<1>5. \A i \in 1 .. n, v \in X : InsertNew(v, list[i]) \in X
  OBVIOUS
<1> HIDE DEF step, Turns, n, start
<1>6. PICK g \in [0 .. n -> X] : g[0] = start /\ \A i \in 1 .. n : g[i] = step[<<i, g[i - 1]>>]
  <2>1. Runs(X, start, n, step) # {}
    BY <1>1, <1>4, LoopRuns
  <2> QED  BY <2>1 DEF Runs
<1>7. g = Turns(g)
  <2>1. ASSUME NEW i \in 1 .. n PROVE g[i] = Turns(g)[i]
    <3>1. g[i - 1] \in X
      BY <1>4
    <3> QED  BY <1>3, <1>6, <1>2, <3>1
  <2>2. \A i \in 0 .. n : i = 0 \/ i \in 1 .. n
    BY <1>4
  <2>3. g[0] = Turns(g)[0]
    BY <1>6, <1>4 DEF Turns
  <2>4. \A i \in 0 .. n : g[i] = Turns(g)[i]
    BY <2>1, <2>2, <2>3
  <2> QED  BY <2>4 DEF Turns
<1>8. after = Turns(after)
  BY <1>7
<1>9. Loop(LAMBDA result, i : InsertNew(result, list[i]), start, n) = IF n < 1 THEN start ELSE after[n]
  BY DEF Loop, Turns
<1> HIDE DEF after
<1>10. after[0] = start /\ \A i \in 1 .. n : after[i] = InsertNew(after[i - 1], list[i])
  <2>1. after[0] = start
    BY <1>8, <1>4 DEF Turns
  <2> QED  BY <1>3, <1>8, <2>1
<1>11. after = [i \in 0 .. n |-> after[i]]
  BY <1>8 DEF Turns
<1>12. after \in [0 .. n -> X]
  <2>1. \A i \in 1 .. n : after[i - 1] \in X => after[i] \in X
    BY <1>10, <1>5
  <2> QED  BY <1>10, <1>11, <1>4, <2>1, TurnsStay
<1>13. Loop(LAMBDA result, i : InsertNew(result, list[i]), start, n) = after[n]
  <2>1. n < 1 => n = 0
    BY <1>4
  <2> QED  BY <1>9, <1>10, <2>1
<1>14. InsertAllAddrmaps(list) = after[n]
  BY <1>13 DEF InsertAllAddrmaps, start, n
<1> QED  BY <1>10, <1>12, <1>14 DEF MapsRun, start, n

-----------------------------------------------------------------------------
(* The table of games                                                      *)

SortedNames(names) ==
  \A m, n \in 1 .. Len(names) : m < n => Order[names[m]] < Order[names[n]]

(* What a search may have found out about a table of n games.              *)
Spans(n) ==
  {at \in [known : BOOLEAN, left : 0 .. n, right : -1 .. n - 1] :
     /\ at.left <= at.right + 1
     /\ at.known => at.left < n}

(* It is right about the game: where it is, or where it is not.            *)
Right(names, game, at) ==
  /\ at.known => names[at.left + 1] = game
  /\ SortedNames(names) /\ ~at.known =>
       /\ \A m \in 1 .. at.left : Order[names[m]] < Order[game]
       /\ \A m \in at.right + 2 .. Len(names) : Order[game] < Order[names[m]]

(* The indices that are left.                                              *)
Left(at) == IF at.known THEN 0 ELSE at.right - at.left + 1

(* A turn of the search.                                                   *)
LEMMA BisectIs ==
  ASSUME NEW names \in Seq(Value), NEW game \in Value, NEW at \in Spans(Len(names))
  PROVE  /\ Bisect(names, game, at) \in Spans(Len(names))
         /\ Left(at) \in Nat
         /\ Left(at) = 0 => Left(Bisect(names, game, at)) = 0
         /\ Left(at) > 0 => Left(Bisect(names, game, at)) < Left(at)
         /\ Right(names, game, at) => Right(names, game, Bisect(names, game, at))
<1> DEFINE n == Len(names)
           middle == (at.left + at.right) \div 2
           diff == Order[names[middle + 1]] - Order[game]
           next == Bisect(names, game, at)
<1>1. /\ n \in Nat /\ at \in [known : BOOLEAN, left : 0 .. n, right : -1 .. n - 1]
      /\ at.left <= at.right + 1
      /\ at.known => at.left < n
  BY DEF Spans
<1>2. Left(at) \in Nat
  BY <1>1 DEF Left
<1>3. CASE at.known \/ at.left > at.right
  <2>1. next = at
    BY <1>3 DEF Bisect
  <2>2. Left(at) = 0
    BY <1>1, <1>3 DEF Left
  <2> QED  BY <1>2, <2>1, <2>2
<1>4. CASE ~(at.known \/ at.left > at.right)
  <2>1. middle \in Int /\ at.left <= middle /\ middle <= at.right
    BY <1>1, <1>4
  <2>2. next = IF diff = 0 THEN [at EXCEPT !.known = TRUE, !.left = middle]
               ELSE IF diff > 0 THEN [at EXCEPT !.right = middle - 1]
               ELSE [at EXCEPT !.left = middle + 1]
    BY <1>4 DEF Bisect
  <2>3. middle + 1 \in 1 .. n /\ names[middle + 1] \in Value
    BY <1>1, <2>1
  <2>4. Order[names[middle + 1]] \in Int /\ Order[game] \in Int /\ \A m \in 1 .. n : Order[names[m]] \in Int
    BY <2>3, OrderAssumption
  <2>5. diff = 0 => names[middle + 1] = game
    BY <2>3, <2>4, OrderAssumption
  <2> HIDE DEF middle, next
  <2>6. diff \in Int
    BY <2>4
  <2>7. CASE diff = 0
    <3>1. next = [known |-> TRUE, left |-> middle, right |-> at.right]
      BY <1>1, <2>2, <2>7
    <3>2. next \in Spans(n) /\ Left(next) = 0
      BY <1>1, <2>1, <3>1 DEF Spans, Left
    <3>3. Right(names, game, next)
      BY <2>5, <2>7, <3>1 DEF Right
    <3>4. Left(at) > 0
      BY <1>1, <1>4 DEF Left
    <3> QED  BY <1>2, <3>2, <3>3, <3>4 DEF next
  <2>8. CASE diff > 0
    <3>1. next = [known |-> FALSE, left |-> at.left, right |-> middle - 1]
      <4>1. next = [at EXCEPT !.right = middle - 1] /\ at.known = FALSE
        BY <1>1, <1>4, <2>2, <2>6, <2>8
      <4> QED  BY <1>1, <4>1
    <3>2. next \in Spans(n) /\ Left(next) < Left(at) /\ Left(at) > 0
      BY <1>1, <1>4, <2>1, <3>1 DEF Spans, Left
    <3>3. ASSUME SortedNames(names), Right(names, game, at), NEW m \in middle + 1 .. n
          PROVE  Order[game] < Order[names[m]]
      <4>1. m \in 1 .. n /\ (middle + 1 = m \/ middle + 1 < m)
        BY <1>1, <2>1
      <4>2. Order[names[middle + 1]] <= Order[names[m]]
        BY <2>3, <2>4, <3>3, <4>1 DEF SortedNames
      <4> QED  BY <2>4, <2>8, <4>1, <4>2
    <3>4. (middle - 1) + 2 = middle + 1
      BY <2>1
    <3>5. Right(names, game, at) => Right(names, game, next)
      BY <1>4, <3>1, <3>3, <3>4 DEF Right
    <3> QED  BY <1>2, <3>2, <3>5 DEF next
  <2>9. CASE diff < 0
    <3>1. next = [known |-> FALSE, left |-> middle + 1, right |-> at.right]
      <4>1. next = [at EXCEPT !.left = middle + 1] /\ at.known = FALSE
        BY <1>1, <1>4, <2>2, <2>6, <2>9
      <4> QED  BY <1>1, <4>1
    <3>2. next \in Spans(n) /\ Left(next) < Left(at) /\ Left(at) > 0
      BY <1>1, <1>4, <2>1, <3>1 DEF Spans, Left
    <3>3. ASSUME SortedNames(names), Right(names, game, at), NEW m \in 1 .. middle + 1
          PROVE  Order[names[m]] < Order[game]
      <4>1. m \in 1 .. n
        BY <1>1, <2>1
      <4>2. Order[names[m]] <= Order[names[middle + 1]]
        BY <2>1, <2>3, <2>4, <3>3, <4>1 DEF SortedNames
      <4> QED  BY <2>4, <2>9, <4>1, <4>2
    <3>4. Right(names, game, at) => Right(names, game, next)
      BY <1>4, <3>1, <3>3 DEF Right
    <3> QED  BY <1>2, <3>2, <3>4 DEF next
  <2> QED  BY <2>6, <2>7, <2>8, <2>9
<1> QED  BY <1>3, <1>4

(* What a search may say.                                                  *)
Findings(names, game) ==
  {f \in [known : BOOLEAN, index : 0 .. Len(names)] :
     /\ f.known => f.index < Len(names) /\ names[f.index + 1] = game
     /\ SortedNames(names) /\ ~f.known =>
          /\ \A m \in 1 .. f.index : Order[names[m]] < Order[game]
          /\ \A m \in f.index + 1 .. Len(names) : Order[game] < Order[names[m]]}

(* Game_Find finds a game of the table, or the place where it belongs.     *)
THEOREM GameFindIs ==
  ASSUME NEW names \in Seq(Value), NEW game \in Value
  PROVE  Game_Find(names, game) \in Findings(names, game)
<1> DEFINE n == Len(names)
           start == [known |-> FALSE, left |-> 0, right |-> n - 1]
<1>1. n \in Nat /\ start \in Spans(n)
  BY DEF Spans
<1>2. \A at \in Spans(n) : Bisect(names, game, at) \in Spans(n)
  BY BisectIs
<1>3. PICK g \in [0 .. n -> Spans(n)] :
        /\ g[0] = start
        /\ \A i \in 1 .. n : g[i] = Bisect(names, game, g[i - 1])
        /\ Game_Find(names, game) = [known |-> g[n].known, index |-> g[n].left]
  <2> HIDE DEF n
  <2>1. FindRun(names, game, Spans(n)) # {}
    BY <1>1, <1>2, FindRuns DEF n
  <2> QED  BY <2>1 DEF FindRun, n
<1> DEFINE S == {i \in 0 .. n : Left(g[i]) <= n - i /\ Right(names, game, g[i])}
<1>4. 0 \in S
  <2>1. Left(start) = n /\ Right(names, game, start)
    BY <1>1 DEF Left, Right
  <2>2. 0 \in 0 .. n /\ n <= n - 0 /\ g[0] = start
    BY <1>1, <1>3
  <2> HIDE DEF start
  <2> QED  BY <2>1, <2>2
<1> HIDE DEF start
<1>5. ASSUME NEW i \in 0 .. n - 1, i \in S PROVE i + 1 \in S
  <2>1. i + 1 \in 1 .. n /\ (i + 1) - 1 = i /\ i \in 0 .. n /\ i + 1 \in 0 .. n
    BY <1>1
  <2>2. g[i] \in Spans(n) /\ g[i + 1] = Bisect(names, game, g[i])
    BY <1>3, <2>1
  <2>3. /\ Left(g[i]) \in Nat
        /\ Left(g[i]) = 0 => Left(g[i + 1]) = 0
        /\ Left(g[i]) > 0 => Left(g[i + 1]) < Left(g[i])
        /\ Right(names, game, g[i + 1])
    BY <1>5, <2>2, BisectIs
  <2>4. g[i + 1] \in Spans(n) /\ Left(g[i + 1]) \in Nat
    BY <1>3, <2>1, BisectIs
  <2>5. Left(g[i]) <= n - i
    BY <1>5
  <2>6. Left(g[i + 1]) <= n - (i + 1)
    BY <1>1, <2>1, <2>3, <2>4, <2>5
  <2> QED  BY <2>1, <2>3, <2>6
<1>6. n \in S
  <2>1. 0 .. n \subseteq S
    <3> HIDE DEF S, n
    <3> QED  BY <1>1, <1>4, <1>5, BoundedInduction
  <2> QED  BY <1>1, <2>1
<1> DEFINE at == g[n]
<1>7. at \in Spans(n) /\ Right(names, game, at) /\ Left(at) <= 0
  BY <1>1, <1>3, <1>6
<1>8. Game_Find(names, game) = [known |-> at.known, index |-> at.left]
  BY <1>3
<1> HIDE DEF at
<1>9. /\ at \in [known : BOOLEAN, left : 0 .. n, right : -1 .. n - 1]
      /\ at.known => at.left < n
      /\ at.left <= at.right + 1
  BY <1>7 DEF Spans
<1>10. ~at.known => at.right + 2 = at.left + 1
  BY <1>1, <1>7, <1>9 DEF Left
<1> QED  BY <1>7, <1>8, <1>9, <1>10 DEF Right, Findings

Tables == {names \in Seq(Value) : SortedNames(names)}

(* The tables with the games G more than a table has.                      *)
WithAll(names, G) == {t \in Tables : ToSet(t) = ToSet(names) \cup G}

(* Adding a game keeps the table sorted.                                   *)
LEMMA WithGameIs ==
  ASSUME NEW names \in Tables, NEW game \in Value
  PROVE  WithGame(names, game) \in WithAll(names, {game})
<1> DEFINE n == Len(names)
           f == Game_Find(names, game)
           p == f.index
           t == InsertAt(names, p + 1, game)
<1>1. names \in Seq(Value) /\ SortedNames(names) /\ n \in Nat /\ DOMAIN names = 1 .. n
  BY DEF Tables
<1>2. f \in Findings(names, game)
  BY <1>1, GameFindIs
<1>3. /\ f.known \in BOOLEAN /\ p \in 0 .. n
      /\ f.known => p < n /\ names[p + 1] = game
      /\ ~f.known => /\ \A m \in 1 .. p : Order[names[m]] < Order[game]
                     /\ \A m \in p + 1 .. n : Order[game] < Order[names[m]]
  BY <1>1, <1>2 DEF Findings
<1>4. WithGame(names, game) = IF f.known THEN names ELSE t
  BY DEF WithGame, AddGame
<1> HIDE DEF f
<1>5. CASE f.known
  <2>1. p + 1 \in DOMAIN names
    BY <1>1, <1>3, <1>5
  <2>2. game \in ToSet(names)
    BY <1>3, <1>5, <2>1 DEF ToSet
  <2> QED  BY <1>4, <1>5, <2>2 DEF WithAll
<1>6. CASE ~f.known
  <2>1. t \in Inserted(Value, names, p, game)
    BY <1>1, <1>3, InsertIs
  <2> HIDE DEF p, t, n
  <2>2. /\ t \in Seq(Value) /\ Len(t) = n + 1 /\ DOMAIN t = 1 .. n + 1
        /\ \A m \in 1 .. n + 1 : t[m] = IF m <= p THEN names[m] ELSE IF m = p + 1 THEN game ELSE names[m - 1]
    BY <2>1 DEF Inserted, n
  <2>3. \A m \in 1 .. n : names[m] \in Value /\ Order[names[m]] \in Int
    BY <1>1, OrderAssumption
  <2>4. Order[game] \in Int
    BY OrderAssumption
  <2>5. ASSUME NEW k \in 1 .. n + 1, NEW m \in 1 .. n + 1, k < m PROVE Order[t[k]] < Order[t[m]]
    <3>1. CASE m <= p
      <4>1. k \in 1 .. n /\ m \in 1 .. n /\ k <= p
        BY <1>1, <1>3, <2>5, <3>1
      <4> QED  BY <1>1, <2>2, <2>5, <3>1, <4>1 DEF SortedNames, n
    <3>2. CASE m = p + 1
      <4>1. k \in 1 .. p
        BY <1>3, <2>5, <3>2
      <4>2. t[k] = names[k] /\ t[m] = game
        BY <1>3, <2>2, <3>2, <4>1
      <4> QED  BY <1>3, <1>6, <4>1, <4>2
    <3>3. CASE m > p + 1
      <4>1. m - 1 \in p + 1 .. n /\ t[m] = names[m - 1]
        BY <1>1, <1>3, <2>2, <3>3
      <4>2. CASE k <= p
        <5>1. t[k] = names[k] /\ k \in 1 .. p /\ k \in 1 .. n /\ m - 1 \in 1 .. n
          BY <1>1, <1>3, <2>2, <4>1, <4>2
        <5>2. Order[names[k]] < Order[game] /\ Order[game] < Order[names[m - 1]]
          BY <1>3, <1>6, <4>1, <5>1
        <5> QED  BY <2>3, <2>4, <4>1, <5>1, <5>2
      <4>3. CASE k = p + 1
        <5>1. t[k] = game
          BY <1>3, <2>2, <4>3
        <5> QED  BY <1>3, <1>6, <4>1, <5>1
      <4>4. CASE k > p + 1
        <5>1. k - 1 \in 1 .. n /\ m - 1 \in 1 .. n /\ k - 1 < m - 1 /\ t[k] = names[k - 1]
          BY <1>1, <1>3, <2>2, <2>5, <4>1, <4>4
        <5> QED  BY <1>1, <4>1, <5>1 DEF SortedNames, n
      <4> QED  BY <1>3, <4>2, <4>3, <4>4
    <3> QED  BY <1>3, <3>1, <3>2, <3>3
  <2>6. t \in Tables
    BY <2>2, <2>5 DEF Tables, SortedNames
  <2>7. ToSet(t) \subseteq ToSet(names) \cup {game}
    <3>1. ASSUME NEW m \in 1 .. n + 1 PROVE t[m] \in ToSet(names) \cup {game}
      <4>1. m <= p => m \in 1 .. n
        BY <1>1, <1>3
      <4>2. m > p + 1 => m - 1 \in 1 .. n
        BY <1>1, <1>3
      <4>3. m <= p \/ m = p + 1 \/ m > p + 1
        BY <1>1, <1>3
      <4>4. m <= p => t[m] = names[m]
        BY <2>2
      <4>5. m = p + 1 => t[m] = game
        BY <1>3, <2>2
      <4>6. m > p + 1 => t[m] = names[m - 1]
        BY <1>1, <1>3, <2>2
      <4> QED  BY <1>1, <4>1, <4>2, <4>3, <4>4, <4>5, <4>6 DEF ToSet
    <3> QED  BY <2>2, <3>1 DEF ToSet
  <2>8. ToSet(names) \cup {game} \subseteq ToSet(t)
    <3>1. ASSUME NEW m \in 1 .. n PROVE names[m] \in ToSet(t)
      <4>1. CASE m <= p
        <5>1. m \in 1 .. n + 1 /\ t[m] = names[m]
          BY <1>1, <2>2, <4>1
        <5> QED  BY <2>2, <5>1 DEF ToSet
      <4>2. CASE m > p
        <5>1. m + 1 \in 1 .. n + 1 /\ ~(m + 1 <= p) /\ m + 1 # p + 1 /\ (m + 1) - 1 = m
          BY <1>1, <1>3, <4>2
        <5>2. t[m + 1] = names[m]
          BY <2>2, <5>1
        <5> QED  BY <2>2, <5>1, <5>2 DEF ToSet
      <4> QED  BY <1>3, <4>1, <4>2
    <3>2. p + 1 \in 1 .. n + 1 /\ t[p + 1] = game
      BY <1>1, <1>3, <2>2
    <3> QED  BY <1>1, <2>2, <3>1, <3>2 DEF ToSet
  <2> QED  BY <1>4, <1>6, <2>6, <2>7, <2>8 DEF WithAll
<1> QED  BY <1>3, <1>5, <1>6

(* Game_DeclarePolicy adds all games of an option.                         *)
LEMMA WithGamesIs ==
  ASSUME game_names \in Tables, NEW games \in Seq(Value)
  PROVE  WithGames(games) \in WithAll(game_names, ToSet(games))
<1> DEFINE n == Len(games)
<1>1. n \in Nat /\ DOMAIN games = 1 .. n /\ \A i \in 1 .. n : games[i] \in Value
  OBVIOUS
<1>2. \A i \in 1 .. n, names \in Tables : WithGame(names, games[i]) \in Tables
  BY <1>1, WithGameIs DEF WithAll
<1>3. PICK g \in [0 .. n -> Tables] :
        /\ g[0] = game_names
        /\ \A i \in 1 .. n : g[i] = WithGame(g[i - 1], games[i])
        /\ WithGames(games) = g[n]
  <2> HIDE DEF n
  <2>1. GamesRun(games, Tables) # {}
    BY <1>1, <1>2, GamesRuns DEF n
  <2> QED  BY <2>1 DEF GamesRun, n
<1> DEFINE S == {i \in 0 .. n : ToSet(g[i]) = ToSet(game_names) \cup {games[m] : m \in 1 .. i}}
<1> HIDE DEF n
<1>4. 0 \in S
  BY <1>1, <1>3
<1>5. ASSUME NEW i \in 0 .. n - 1, i \in S PROVE i + 1 \in S
  <2>1. i + 1 \in 1 .. n /\ (i + 1) - 1 = i /\ i \in 0 .. n /\ i + 1 \in 0 .. n
    BY <1>1
  <2>2. g[i + 1] = WithGame(g[i], games[i + 1]) /\ g[i] \in Tables /\ games[i + 1] \in Value
    BY <1>1, <1>3, <2>1
  <2>3. g[i + 1] \in WithAll(g[i], {games[i + 1]})
    BY <2>2, WithGameIs
  <2>4. ToSet(g[i + 1]) = ToSet(g[i]) \cup {games[i + 1]}
    BY <2>3 DEF WithAll
  <2>5. {games[m] : m \in 1 .. i} \cup {games[i + 1]} = {games[m] : m \in 1 .. i + 1}
    <3>1. 1 .. i + 1 = (1 .. i) \cup {i + 1}
      BY <2>1
    <3> QED  BY <3>1
  <2>6. ToSet(g[i]) = ToSet(game_names) \cup {games[m] : m \in 1 .. i}
    BY <1>5
  <2> QED  BY <2>1, <2>4, <2>5, <2>6
<1>6. n \in S
  <2>1. 0 .. n \subseteq S
    <3> HIDE DEF S
    <3> QED  BY <1>1, <1>4, <1>5, BoundedInduction
  <2> QED  BY <1>1, <2>1
<1>7. g[n] \in Tables /\ ToSet(g[n]) = ToSet(game_names) \cup ToSet(games)
  BY <1>1, <1>3, <1>6 DEF ToSet
<1> QED  BY <1>3, <1>7 DEF WithAll

-----------------------------------------------------------------------------
(* The table of mappings                                                   *)

\* The order of the table.
Below(e, f) == e.ip < f.ip \/ (e.ip = f.ip /\ e.port < f.port)

SortedMaps(maps) ==
  \A m, n \in 1 .. Len(maps) : m < n => Below(maps[m].from, maps[n].from)

MapTables == {maps \in Seq(Addrmap) : SortedMaps(maps)}

(* Two endpoints are the same or in order.                                 *)
LEMMA BelowIs ==
  ASSUME NEW e \in Endpoint, NEW f \in Endpoint
  PROVE  /\ e = f \/ Below(e, f) \/ Below(f, e)
         /\ ~(Below(e, f) /\ Below(f, e))
         /\ ~Below(e, e)
         /\ (e.ip > f.ip \/ (e.ip = f.ip /\ e.port >= f.port)) <=> ~Below(e, f)
<1>1. e.ip \in Nat /\ e.port \in Nat /\ f.ip \in Nat /\ f.port \in Nat
  BY DEF Endpoint
<1>2. e.ip = f.ip /\ e.port = f.port => e = f
  BY DEF Endpoint
<1> QED  BY <1>1, <1>2 DEF Below

(* The order is transitive.                                                *)
LEMMA BelowFollows ==
  ASSUME NEW e \in Endpoint, NEW f \in Endpoint, NEW g \in Endpoint, Below(e, f), Below(f, g)
  PROVE  Below(e, g)
<1>1. /\ e.ip \in Nat /\ e.port \in Nat /\ f.ip \in Nat /\ f.port \in Nat
      /\ g.ip \in Nat /\ g.port \in Nat
  BY DEF Endpoint
<1> QED  BY <1>1 DEF Below

(* Everything in front of the insertion point is lower than the new        *)
(* mapping, and, when it is not recorded yet, everything else is higher.   *)
LEMMA PointIs ==
  ASSUME NEW maps \in MapTables, NEW from \in Endpoint
  PROVE  /\ InsertionPoint(maps, from) \in 1 .. Len(maps) + 1
         /\ \A m \in 1 .. InsertionPoint(maps, from) - 1 : Below(maps[m].from, from)
         /\ ~Recorded(maps, from) =>
              \A m \in InsertionPoint(maps, from) .. Len(maps) : Below(from, maps[m].from)
<1> DEFINE n == Len(maps)
           F(m) == maps[m].from
           S == {i \in 1 .. n : F(i).ip > from.ip \/ (F(i).ip = from.ip /\ F(i).port >= from.port)}
           p == InsertionPoint(maps, from)
<1>1. /\ maps \in Seq(Addrmap) /\ n \in Nat /\ DOMAIN maps = 1 .. n
      /\ \A m, k \in 1 .. n : m < k => Below(F(m), F(k))
  BY DEF MapTables, SortedMaps
<1>2. \A m \in 1 .. n : F(m) \in Endpoint
  <2>1. \A m \in 1 .. n : maps[m] \in Addrmap
    BY <1>1
  <2> QED  BY <2>1 DEF Addrmap
<1>3. p = FirstIndex(S, n + 1)
  BY <1>1 DEF InsertionPoint
<1> HIDE DEF F, p
<1>4. \A m \in 1 .. n : m \in S <=> ~Below(F(m), from)
  BY <1>2, BelowIs
<1>5. S \in SUBSET Nat
  BY <1>1
<1> HIDE DEF S
<1>6. /\ S = {} => p = n + 1
      /\ S # {} => p \in S /\ \A j \in S : p <= j
  BY <1>3, <1>5, LeastIndex
<1>7. S \subseteq 1 .. n
  BY DEF S
<1>8. p \in 1 .. n + 1
  <2>1. p = n + 1 \/ p \in 1 .. n
    BY <1>6, <1>7
  <2> QED  BY <1>1, <2>1
<1>9. ASSUME NEW m \in 1 .. p - 1 PROVE Below(F(m), from)
  <2>1. m \in 1 .. n /\ ~(p <= m)
    BY <1>1, <1>8
  <2> QED  BY <1>4, <1>6, <2>1
<1>10. ASSUME ~Recorded(maps, from), NEW m \in p .. n PROVE Below(from, F(m))
  <2>1. p \in 1 .. n /\ m \in 1 .. n
    BY <1>1, <1>8
  <2>2. p \in S
    BY <1>1, <1>6, <2>1
  <2>3. F(p) # from
    BY <1>1, <1>10, <2>1 DEF Recorded, F, p
  <2>4. Below(from, F(p))
    BY <1>2, <1>4, <2>1, <2>2, <2>3, BelowIs
  <2>5. m = p \/ Below(F(p), F(m))
    BY <1>1, <2>1 DEF F
  <2> QED  BY <1>2, <2>1, <2>4, <2>5, BelowFollows
<1> QED  BY <1>8, <1>9, <1>10 DEF F, p

(* The sorted tables with one mapping more.                                *)
WithMap(maps, new) ==
  {t \in MapTables : ToSet(t) = ToSet(maps) \cup {new} /\ \A m \in 1 .. Len(maps) : maps[m].from # new.from}

(* Adding a mapping that is not recorded keeps the table sorted.           *)
LEMMA InsertAddrmapIs ==
  ASSUME NEW maps \in MapTables, NEW new \in Addrmap, ~Recorded(maps, new.from)
  PROVE  InsertAddrmap(maps, new) \in WithMap(maps, new)
<1> DEFINE n == Len(maps)
           p == InsertionPoint(maps, new.from) - 1
           t == InsertAt(maps, p + 1, new)
<1>1. maps \in Seq(Addrmap) /\ SortedMaps(maps) /\ n \in Nat /\ DOMAIN maps = 1 .. n
  BY DEF MapTables
<1>2. new.from \in Endpoint /\ \A m \in 1 .. n : maps[m].from \in Endpoint
  <2>1. \A m \in 1 .. n : maps[m] \in Addrmap
    BY <1>1
  <2> QED  BY <2>1 DEF Addrmap
<1>3. /\ p \in 0 .. n /\ p + 1 = InsertionPoint(maps, new.from)
      /\ \A m \in 1 .. p : Below(maps[m].from, new.from)
      /\ \A m \in p + 1 .. n : Below(new.from, maps[m].from)
  <2>1. /\ p + 1 \in 1 .. n + 1 /\ p + 1 = InsertionPoint(maps, new.from)
        /\ \A m \in 1 .. InsertionPoint(maps, new.from) - 1 : Below(maps[m].from, new.from)
        /\ \A m \in InsertionPoint(maps, new.from) .. n : Below(new.from, maps[m].from)
    BY <1>1, <1>2, PointIs
  <2> QED  BY <1>1, <2>1
<1>4. InsertAddrmap(maps, new) = t
  BY <1>3 DEF InsertAddrmap
<1> HIDE DEF p
<1>5. t \in Inserted(Addrmap, maps, p, new)
  BY <1>1, <1>3, InsertIs
<1> HIDE DEF t, n
<1>6. /\ t \in Seq(Addrmap) /\ Len(t) = n + 1 /\ DOMAIN t = 1 .. n + 1
      /\ \A m \in 1 .. n + 1 : t[m] = IF m <= p THEN maps[m] ELSE IF m = p + 1 THEN new ELSE maps[m - 1]
  BY <1>5, <1>1 DEF Inserted, n
<1>7. ASSUME NEW k \in 1 .. n + 1, NEW m \in 1 .. n + 1, k < m PROVE Below(t[k].from, t[m].from)
  <2>1. \A i, j \in 1 .. n : i < j => Below(maps[i].from, maps[j].from)
    BY <1>1 DEF SortedMaps, n
  <2>2. CASE m <= p
    <3>1. k \in 1 .. n /\ m \in 1 .. n /\ t[k] = maps[k] /\ t[m] = maps[m]
      BY <1>1, <1>3, <1>6, <1>7, <2>2
    <3> QED  BY <1>7, <2>1, <3>1
  <2>3. CASE m = p + 1
    <3>1. k \in 1 .. p /\ t[k] = maps[k] /\ t[m] = new
      BY <1>3, <1>6, <1>7, <2>3
    <3> QED  BY <1>3, <3>1
  <2>4. CASE m > p + 1
    <3>1. m - 1 \in p + 1 .. n /\ m - 1 \in 1 .. n /\ t[m] = maps[m - 1]
      BY <1>1, <1>3, <1>6, <2>4
    <3>2. CASE k <= p
      <4>1. t[k] = maps[k] /\ k \in 1 .. p /\ k \in 1 .. n /\ k < m - 1
        BY <1>1, <1>3, <1>6, <3>1, <3>2
      <4> QED  BY <2>1, <3>1, <4>1
    <3>3. CASE k = p + 1
      <4>1. t[k] = new
        BY <1>3, <1>6, <3>3
      <4> QED  BY <1>3, <3>1, <4>1
    <3>4. CASE k > p + 1
      <4>1. k - 1 \in 1 .. n /\ k - 1 < m - 1 /\ t[k] = maps[k - 1]
        BY <1>1, <1>3, <1>6, <1>7, <3>1, <3>4
      <4> QED  BY <2>1, <3>1, <4>1
    <3> QED  BY <1>3, <3>2, <3>3, <3>4
  <2> QED  BY <1>3, <2>2, <2>3, <2>4
<1>8. t \in MapTables
  BY <1>6, <1>7 DEF MapTables, SortedMaps
<1>9. ToSet(t) \subseteq ToSet(maps) \cup {new}
  <2>1. ASSUME NEW m \in 1 .. n + 1 PROVE t[m] \in ToSet(maps) \cup {new}
    <3>1. m <= p => m \in 1 .. n
      BY <1>1, <1>3
    <3>2. m > p + 1 => m - 1 \in 1 .. n
      BY <1>1, <1>3
    <3>3. m <= p \/ m = p + 1 \/ m > p + 1
      BY <1>1, <1>3
    <3>4. m <= p => t[m] = maps[m]
      BY <1>6
    <3>5. m = p + 1 => t[m] = new
      BY <1>3, <1>6
    <3>6. m > p + 1 => t[m] = maps[m - 1]
      BY <1>1, <1>3, <1>6
    <3> QED  BY <1>1, <3>1, <3>2, <3>3, <3>4, <3>5, <3>6 DEF ToSet
  <2> QED  BY <1>6, <2>1 DEF ToSet
<1>10. ToSet(maps) \cup {new} \subseteq ToSet(t)
  <2>1. ASSUME NEW m \in 1 .. n PROVE maps[m] \in ToSet(t)
    <3>1. CASE m <= p
      <4>1. m \in 1 .. n + 1 /\ t[m] = maps[m]
        BY <1>1, <1>6, <3>1
      <4> QED  BY <1>6, <4>1 DEF ToSet
    <3>2. CASE m > p
      <4>1. m + 1 \in 1 .. n + 1 /\ ~(m + 1 <= p) /\ m + 1 # p + 1 /\ (m + 1) - 1 = m
        BY <1>1, <1>3, <3>2
      <4>2. t[m + 1] = maps[m]
        BY <1>6, <4>1
      <4> QED  BY <1>6, <4>1, <4>2 DEF ToSet
    <3> QED  BY <1>3, <3>1, <3>2
  <2>2. p + 1 \in 1 .. n + 1 /\ t[p + 1] = new
    BY <1>1, <1>3, <1>6
  <2> QED  BY <1>1, <1>6, <2>1, <2>2 DEF ToSet
<1>11. ASSUME NEW m \in 1 .. n PROVE maps[m].from # new.from
  <2>1. m \in 1 .. p \/ m \in p + 1 .. n
    BY <1>3
  <2>2. Below(maps[m].from, new.from) \/ Below(new.from, maps[m].from)
    BY <1>3, <2>1
  <2> QED  BY <1>2, <2>2, BelowIs
<1> QED  BY <1>4, <1>8, <1>9, <1>10, <1>11 DEF WithMap, n

\* What the resolution of a list may leave.
Results == {r \in [ok : BOOLEAN, maps : Seq(Addrmap)] : SortedMaps(r.maps)}

(* When it succeeds, it leaves the mappings of the list, and no two have   *)
(* the same source.                                                        *)
Sorting(list) ==
  {r \in Results :
     r.ok => /\ ToSet(r.maps) = ToSet(list)
             /\ \A m, n \in 1 .. Len(list) : list[m].from = list[n].from => m = n}

(* Sv_ResolveAddressMappings sorts the list or fails.                      *)
LEMMA InsertAllIs ==
  ASSUME NEW list \in Seq(Addrmap)
  PROVE  InsertAllAddrmaps(list) \in Sorting(list)
<1> DEFINE n == Len(list)
           start == [ok |-> TRUE, maps |-> <<>>]
<1>1. n \in Nat /\ DOMAIN list = 1 .. n /\ \A i \in 1 .. n : list[i] \in Addrmap
  OBVIOUS
<1>2. start \in Results
  <2>1. <<>> \in Seq(Addrmap) /\ SortedMaps(<<>>)
    BY DEF SortedMaps
  <2> QED  BY <2>1 DEF Results
<1>3. ASSUME NEW r \in Results, NEW new \in Addrmap
      PROVE  /\ InsertNew(r, new) \in Results
             /\ InsertNew(r, new).ok => r.ok /\ InsertNew(r, new).maps \in WithMap(r.maps, new)
  <2>1. r \in [ok : BOOLEAN, maps : Seq(Addrmap)] /\ r.maps \in MapTables
    BY DEF Results, MapTables
  <2>2. CASE ~r.ok \/ Recorded(r.maps, new.from)
    <3>1. InsertNew(r, new) = [ok |-> FALSE, maps |-> r.maps]
      BY <2>1, <2>2 DEF InsertNew
    <3> QED  BY <2>1, <3>1 DEF Results, MapTables
  <2>3. CASE ~(~r.ok \/ Recorded(r.maps, new.from))
    <3>1. InsertNew(r, new) = [ok |-> TRUE, maps |-> InsertAddrmap(r.maps, new)]
      BY <2>1, <2>3 DEF InsertNew
    <3>2. InsertAddrmap(r.maps, new) \in WithMap(r.maps, new)
      BY <2>1, <2>3, InsertAddrmapIs
    <3>3. InsertAddrmap(r.maps, new) \in MapTables
      BY <3>2 DEF WithMap
    <3> QED  BY <2>3, <3>1, <3>2, <3>3 DEF Results, MapTables
  <2> QED  BY <2>2, <2>3
<1>4. PICK g \in [0 .. n -> Results] :
        /\ g[0] = start
        /\ \A i \in 1 .. n : g[i] = InsertNew(g[i - 1], list[i])
        /\ InsertAllAddrmaps(list) = g[n]
  <2>1. \A i \in 1 .. n, r \in Results : InsertNew(r, list[i]) \in Results
    BY <1>1, <1>3
  <2> HIDE DEF n
  <2>2. MapsRun(list, Results) # {}
    BY <1>1, <1>2, <2>1, MapsRuns DEF n
  <2> QED  BY <2>2 DEF MapsRun, n
<1> DEFINE S == {i \in 0 .. n : g[i].ok =>
                   /\ ToSet(g[i].maps) = {list[m] : m \in 1 .. i}
                   /\ \A m, k \in 1 .. i : list[m].from = list[k].from => m = k}
<1> HIDE DEF n
<1>5. 0 \in S
  <2>1. ToSet(<<>>) = {}
    BY DEF ToSet
  <2>2. g[0].maps = <<>> /\ 0 \in 0 .. n
    BY <1>1, <1>4
  <2>3. 1 .. 0 = {}
    OBVIOUS
  <2> QED  BY <2>1, <2>2, <2>3
<1>6. ASSUME NEW i \in 0 .. n - 1, i \in S PROVE i + 1 \in S
  <2>1. i + 1 \in 1 .. n /\ (i + 1) - 1 = i /\ i \in 0 .. n /\ i + 1 \in 0 .. n
    BY <1>1
  <2> DEFINE r == g[i]
             new == list[i + 1]
             next == g[i + 1]
  <2>2. next = InsertNew(r, new) /\ r \in Results /\ new \in Addrmap
    BY <1>1, <1>4, <2>1
  <2>3. next.ok => r.ok /\ next.maps \in WithMap(r.maps, new)
    BY <1>3, <2>2
  <2>4. r.ok => /\ ToSet(r.maps) = {list[m] : m \in 1 .. i}
                /\ \A m, k \in 1 .. i : list[m].from = list[k].from => m = k
    BY <1>6
  <2>5. 1 .. i + 1 = (1 .. i) \cup {i + 1}
    BY <2>1
  <2>6. SUFFICES ASSUME next.ok
                 PROVE  /\ ToSet(next.maps) = {list[m] : m \in 1 .. i + 1}
                        /\ \A m, k \in 1 .. i + 1 : list[m].from = list[k].from => m = k
    BY <2>1
  <2>7. ToSet(next.maps) = ToSet(r.maps) \cup {new} /\ \A m \in 1 .. Len(r.maps) : r.maps[m].from # new.from
    BY <2>3, <2>6 DEF WithMap
  <2>8. r.maps \in Seq(Addrmap)
    BY <2>2 DEF Results
  <2>9. \A e \in ToSet(r.maps) : e.from # new.from
    BY <2>7, <2>8 DEF ToSet
  <2>10. ToSet(r.maps) = {list[m] : m \in 1 .. i}
    BY <2>3, <2>4, <2>6
  <2>11. \A m \in 1 .. i : list[m].from # new.from
    BY <2>9, <2>10
  <2>12. \A m, k \in 1 .. i : list[m].from = list[k].from => m = k
    BY <2>3, <2>4, <2>6
  <2>13. ASSUME NEW m \in 1 .. i + 1, NEW k \in 1 .. i + 1, list[m].from = list[k].from PROVE m = k
    <3>1. (m \in 1 .. i \/ m = i + 1) /\ (k \in 1 .. i \/ k = i + 1)
      BY <2>5
    <3> QED  BY <2>11, <2>12, <2>13, <3>1
  <2>14. {list[m] : m \in 1 .. i + 1} = {list[m] : m \in 1 .. i} \cup {new}
    BY <2>5
  <2> QED  BY <2>7, <2>10, <2>13, <2>14
<1>7. n \in S
  <2>1. 0 .. n \subseteq S
    <3> HIDE DEF S
    <3> QED  BY <1>1, <1>5, <1>6, BoundedInduction
  <2>2. n \in 0 .. n
    BY <1>1
  <2> HIDE DEF S
  <2> QED  BY <2>1, <2>2
<1>8. g[n] \in Results /\ {list[m] : m \in 1 .. n} = ToSet(list)
  BY <1>1, <1>4 DEF ToSet
<1> QED  BY <1>4, <1>7, <1>8 DEF Sorting, n

(* What a lookup must give: the exact mapping, else the one for all ports  *)
(* of the address, else none.                                              *)
Lookup(maps, addr) ==
  {found \in 0 .. Len(maps) :
     LET general == [addr EXCEPT !.port = 0]
         Has(from) == \E m \in 1 .. Len(maps) : maps[m].from = from
     IN  /\ Has(addr) => found # 0 /\ maps[found].from = addr
         /\ ~Has(addr) /\ Has(general) => found # 0 /\ maps[found].from = general
         /\ ~Has(addr) /\ ~Has(general) => found = 0}

(* Sv_GetAddrmap finds it in a sorted table.                               *)
THEOREM GetAddrmapIs ==
  ASSUME NEW maps \in MapTables, NEW addr \in Endpoint
  PROVE  Sv_GetAddrmap(maps, addr) \in Lookup(maps, addr)
<1> DEFINE n == Len(maps)
           F(m) == maps[m].from
           Of == {i \in 1 .. n : F(i).ip = addr.ip /\ \A j \in 1 .. i : F(j).ip <= addr.ip}
           From == {i \in Of : F(i).port >= addr.port}
           stop == FirstIndex(From, n + 1)
           Passed == {i \in Of : i < stop /\ F(i).port = 0}
           general == [addr EXCEPT !.port = 0]
           Has(from) == \E m \in 1 .. n : F(m) = from
           found == Sv_GetAddrmap(maps, addr)
<1>1. /\ maps \in Seq(Addrmap) /\ n \in Nat /\ DOMAIN maps = 1 .. n
      /\ \A m, k \in 1 .. n : m < k => Below(F(m), F(k))
  BY DEF MapTables, SortedMaps
<1>2. /\ \A m \in 1 .. n : F(m) \in Endpoint /\ F(m).ip \in Nat /\ F(m).port \in Nat
      /\ addr.ip \in Nat /\ addr.port \in Nat /\ general \in Endpoint
      /\ general.ip = addr.ip /\ general.port = 0
  <2>1. \A m \in 1 .. n : maps[m] \in Addrmap
    BY <1>1
  <2>2. \A m \in 1 .. n : F(m) \in Endpoint
    BY <2>1 DEF Addrmap
  <2> HIDE DEF F
  <2> QED  BY <2>2 DEF Endpoint
<1>3. found = IF stop \in 1 .. n /\ F(stop).port = addr.port THEN stop ELSE FirstIndex(Passed, 0)
  BY <1>1 DEF Sv_GetAddrmap
<1> HIDE DEF F, found, general
<1>4. \A i \in 1 .. n : i \in Of <=> F(i).ip = addr.ip
  <2> SUFFICES ASSUME NEW i \in 1 .. n, F(i).ip = addr.ip, NEW j \in 1 .. i PROVE F(j).ip <= addr.ip
    OBVIOUS
  <2>1. j \in 1 .. n /\ (j = i \/ j < i)
    BY <1>1
  <2>2. j < i => Below(F(j), F(i))
    BY <1>1, <2>1
  <2> QED  BY <1>2, <2>1, <2>2 DEF Below
<1>5. Of \subseteq 1 .. n
  OBVIOUS
<1>6. From \in SUBSET Nat /\ Passed \in SUBSET Nat /\ From \subseteq Of /\ Passed \subseteq Of
  BY <1>1
<1> HIDE DEF Of
<1>7. /\ From = {} => stop = n + 1
      /\ From # {} => stop \in From /\ \A j \in From : stop <= j
  BY <1>6, LeastIndex
<1>8. /\ Passed = {} => FirstIndex(Passed, 0) = 0
      /\ Passed # {} => FirstIndex(Passed, 0) \in Passed
  BY <1>6, LeastIndex
<1> HIDE DEF stop
<1>9. CASE Has(addr)
  <2>1. PICK m \in 1 .. n : F(m) = addr
    BY <1>9
  <2>2. m \in From
    BY <1>2, <1>4, <2>1
  <2>3. stop \in From /\ stop <= m
    BY <1>7, <2>2
  <2>4. stop \in 1 .. n /\ F(stop).ip = addr.ip /\ F(stop).port >= addr.port
    BY <1>4, <1>5, <2>3
  <2>5. stop < m => Below(F(stop), F(m))
    BY <1>1, <2>4
  <2>6. stop = m
    BY <1>1, <1>2, <2>1, <2>3, <2>4, <2>5 DEF Below
  <2>7. found = m
    BY <1>3, <2>1, <2>6
  <2> QED  BY <1>1, <1>9, <2>1, <2>7 DEF Lookup, F, found
<1>10. CASE ~Has(addr)
  <2>1. \A m \in 1 .. n : ~(F(m).ip = addr.ip /\ F(m).port = addr.port)
    <3>1. \A m \in 1 .. n : F(m).ip = addr.ip /\ F(m).port = addr.port => F(m) = addr
      BY <1>2 DEF Endpoint
    <3> QED  BY <1>10, <3>1
  <2>2. stop \in 1 .. n => F(stop).ip = addr.ip
    <3>1. stop \in 1 .. n => stop \in From
      BY <1>1, <1>7
    <3> QED  BY <1>4, <1>6, <3>1
  <2>3. found = FirstIndex(Passed, 0)
    BY <1>3, <2>1, <2>2
  <2>4. CASE Has(general)
    <3>1. PICK m \in 1 .. n : F(m) = general
      BY <2>4
    <3>2. m \in Of /\ F(m).port = 0 /\ addr.port > 0
      BY <1>2, <1>4, <2>1, <3>1
    <3>3. m < stop
      <4>1. CASE From = {}
        BY <1>1, <1>7, <4>1
      <4>2. CASE From # {}
        <5>1. stop \in 1 .. n /\ F(stop).ip = addr.ip /\ F(stop).port >= addr.port
          BY <1>4, <1>5, <1>7, <4>2
        <5>2. stop < m => Below(F(stop), F(m))
          BY <1>1, <5>1
        <5>3. stop # m
          BY <1>2, <3>2, <5>1
        <5> QED  BY <1>1, <1>2, <3>2, <3>1, <5>1, <5>2, <5>3 DEF Below
      <4> QED  BY <4>1, <4>2
    <3>4. found \in Passed
      BY <1>8, <2>3, <3>2, <3>3
    <3>5. found \in 1 .. n /\ F(found).ip = addr.ip /\ F(found).port = 0
      BY <1>4, <1>5, <3>4
    <3>6. F(found) = general
      BY <1>2, <3>5 DEF Endpoint
    <3> QED  BY <1>1, <1>10, <2>4, <3>5, <3>6 DEF Lookup, F, general, found
  <2>5. CASE ~Has(general)
    <3>1. Passed = {}
      <4> SUFFICES ASSUME NEW m \in Passed PROVE FALSE
        OBVIOUS
      <4>1. m \in 1 .. n /\ F(m).ip = addr.ip /\ F(m).port = 0
        BY <1>4, <1>5
      <4>2. F(m) = general
        BY <1>2, <4>1 DEF Endpoint
      <4> QED  BY <2>5, <4>1, <4>2
    <3>2. found = 0
      BY <1>8, <2>3, <3>1
    <3> QED  BY <1>1, <1>10, <2>5, <3>2 DEF Lookup, F, general, found
  <2> QED  BY <2>4, <2>5
<1> QED  BY <1>9, <1>10

-----------------------------------------------------------------------------
(* Types                                                                   *)

Socket == [name : Value \cup {NoName}, family : Family \cup {"unresolved"}, port : Nat,
           optional : BOOLEAN, open : BOOLEAN]

Settings ==
  {s \in [Flag \cup Setting \cup {"verbose"} -> Value \cup {NoName, "given"}] :
     s["port"] \in DOMAIN IntOf \cup {NoName}}

IsTyped ==
  /\ TypeOK
  /\ game_names \in Tables
  /\ reject_when_known \in BOOLEAN
  /\ settings \in Settings
  /\ listen_sockets \in [0 .. MAX_LISTEN_SOCKETS - 1 -> Socket]

(* The values before the start.                                            *)
LEMMA InitTyped == Init => IsTyped
<1> SUFFICES ASSUME Init PROVE IsTyped
  OBVIOUS
<1>1. argv \in Seq(Argument) /\ ind \in 1 .. Len(argv) + 1
  BY StartupAssumption DEF Init
<1>2. phase \in ToSet(Phases)
  <2>1. Phases[1] = "options" /\ 1 \in DOMAIN Phases
    BY DEF Phases
  <2> QED  BY <2>1 DEF Init, ToSet
<1>3. game_names \in Seq(Value) /\ addrmaps \in Seq(Addrmap) /\ game_names \in Tables
  <2>1. <<>> \in Seq(Value) /\ <<>> \in Seq(Addrmap) /\ SortedNames(<<>>)
    BY DEF SortedNames
  <2> QED  BY <2>1 DEF Init, Tables
<1>4. nb_sockets \in 0 .. MAX_LISTEN_SOCKETS /\ sock_ind \in 0 .. MAX_LISTEN_SOCKETS
  BY DEF Init, MAX_LISTEN_SOCKETS
<1>5. settings \in Settings
  <2>1. "port" \in Flag \cup Setting \cup {"verbose"}
    BY DEF Setting
  <2> QED  BY <2>1 DEF Init, Settings
<1>6. listen_sockets \in [0 .. MAX_LISTEN_SOCKETS - 1 -> Socket]
  <2>1. NewSocket(NoName) \in Socket
    BY DEF NewSocket, Socket
  <2> QED  BY <2>1 DEF Init
<1> QED  BY <1>1, <1>2, <1>3, <1>4, <1>5, <1>6 DEF IsTyped, TypeOK, Init

(* The cursor after an option.                                             *)
LEMMA NextOptionIs ==
  ASSUME Reads, NEW option, Is(option)
  PROVE  NextOption \in ind + 1 .. Len(argv) + 1 /\ NextOption \in 1 .. Len(argv) + 1 /\ NextOption > ind
<1>1. /\ ind \in 1 .. Len(argv) /\ Len(argv) \in Nat
      /\ AfterNeeded \in ind + 1 .. Len(argv) + 1 /\ AfterParams \in AfterNeeded .. Len(argv) + 1
  BY OptionIs
<1> QED  BY <1>1 DEF NextOption

(* Every phase is one of the list.                                         *)
LEMMA PhasesAre ==
  \A p : p \in ToSet(Phases) <=>
    p \in {"options", "mappings", "addresses", "security", "sockets", "running", "failed", "undefined"}
<1>1. DOMAIN Phases = 1 .. 8
  BY DEF Phases
<1>2. /\ Phases[1] = "options" /\ Phases[2] = "mappings" /\ Phases[3] = "addresses" /\ Phases[4] = "security"
      /\ Phases[5] = "sockets" /\ Phases[6] = "running" /\ Phases[7] = "failed" /\ Phases[8] = "undefined"
  BY DEF Phases
<1>3. ASSUME NEW p
      PROVE  p \in ToSet(Phases) <=> \E n \in 1 .. 8 : Phases[n] = p
  BY <1>1 DEF ToSet
<1>4. ASSUME NEW p
      PROVE  (\E n \in 1 .. 8 : Phases[n] = p) <=>
             p \in {"options", "mappings", "addresses", "security", "sockets", "running", "failed", "undefined"}
  <2>1. 1 \in 1 .. 8 /\ 2 \in 1 .. 8 /\ 3 \in 1 .. 8 /\ 4 \in 1 .. 8 /\ 5 \in 1 .. 8 /\ 6 \in 1 .. 8 /\ 7 \in 1 .. 8 /\ 8 \in 1 .. 8
    OBVIOUS
  <2>2. \A n \in 1 .. 8 : n = 1 \/ n = 2 \/ n = 3 \/ n = 4 \/ n = 5 \/ n = 6 \/ n = 7 \/ n = 8
    OBVIOUS
  <2> QED  BY <1>2, <2>1, <2>2
<1> QED  BY <1>3, <1>4

(* A step of the parser keeps the types.                                   *)
LEMMA ParserTyped ==
  ASSUME IsTyped, ParseCommandLine
  PROVE  IsTyped'
<1>1. /\ Reads /\ argv \in Seq(Argument) /\ families \subseteq Family /\ ind \in 1 .. Len(argv) + 1
      /\ game_names \in Seq(Value) /\ addrmaps \in Seq(Addrmap)
      /\ nb_sockets \in 0 .. MAX_LISTEN_SOCKETS /\ sock_ind \in 0 .. MAX_LISTEN_SOCKETS
      /\ game_names \in Tables /\ reject_when_known \in BOOLEAN /\ settings \in Settings
      /\ listen_sockets \in [0 .. MAX_LISTEN_SOCKETS - 1 -> Socket]
      /\ phase \in ToSet(Phases)
  BY DEF IsTyped, TypeOK, Reads
<1>2. \A p \in {"options", "mappings", "failed", "undefined"} : p \in ToSet(Phases)
  BY PhasesAre
<1>3. CASE UNCHANGED <<argv, families, ind, options, sockets, sock_ind>> /\ phase' \in ToSet(Phases)
  BY <1>1, <1>3 DEF IsTyped, TypeOK, options, sockets
<1>4. CASE BadOption
  BY <1>2, <1>3, <1>4 DEF BadOption, Fail
<1>5. CASE MisplacedParams
  BY <1>2, <1>3, <1>5 DEF MisplacedParams
<1>6. CASE ShowHelp
  BY <1>2, <1>3, <1>6 DEF ShowHelp, Fail
<1>7. CASE OptionsEnd
  BY <1>2, <1>3, <1>7 DEF OptionsEnd
<1>8. CASE ParamsRejected
  BY <1>2, <1>3, <1>8 DEF ParamsRejected, Fail
<1>9. CASE DeclarePolicy
  <2>1. CASE ~PolicyFits(Head(Params))
    BY <1>8, <1>9, <2>1 DEF DeclarePolicy
  <2>2. CASE PolicyFits(Head(Params))
    <3>1. Is("game-policy")
      BY <1>9 DEF DeclarePolicy
    <3>2. Params \in Seq(Value) /\ Params # <<>> /\ NextOption \in 1 .. Len(argv) + 1
      BY <1>1, <3>1, OptionIs, NextOptionIs DEF MinParams
    <3>3. Tail(Params) \in Seq(Value)
      BY <3>2
    <3>4. WithGames(Tail(Params)) \in WithAll(game_names, ToSet(Tail(Params)))
      BY <1>1, <3>3, WithGamesIs
    <3>5. /\ reject_when_known' = (Head(Params) = "reject") /\ game_names' = WithGames(Tail(Params)) /\ ind' = NextOption
          /\ UNCHANGED <<argv, families, phase, why, addrmaps, settings, sockets, sock_ind>>
      BY <1>9, <2>2 DEF DeclarePolicy
    <3>6. game_names' \in Tables /\ game_names' \in Seq(Value) /\ reject_when_known' \in BOOLEAN
      BY <3>4, <3>5 DEF WithAll, Tables
    <3> QED  BY <1>1, <3>2, <3>5, <3>6 DEF IsTyped, TypeOK, sockets
  <2> QED  BY <2>1, <2>2
<1>10. CASE Listen
  <2>1. CASE ~(Params[1] # EmptyString /\ Room)
    BY <1>8, <1>10, <2>1 DEF Listen
  <2>2. CASE Params[1] # EmptyString /\ Room
    <3>1. Is("listen")
      BY <1>10 DEF Listen
    <3>2. Params \in Seq(Value) /\ Params # <<>> /\ NextOption \in 1 .. Len(argv) + 1
      BY <1>1, <3>1, OptionIs, NextOptionIs DEF MinParams
    <3>3. Params[1] \in Value
      BY <3>2
    <3>4. NewSocket(Params[1]) \in Socket
      BY <3>3 DEF NewSocket, Socket
    <3>5. /\ listen_sockets' = [listen_sockets EXCEPT ![nb_sockets] = NewSocket(Params[1])]
          /\ nb_sockets' = nb_sockets + 1 /\ ind' = NextOption
          /\ UNCHANGED <<argv, families, phase, why, options, sock_ind>>
      BY <1>10, <2>2 DEF Listen
    <3>6. nb_sockets' \in 0 .. MAX_LISTEN_SOCKETS
      BY <1>1, <2>2, <3>5 DEF Room, MAX_LISTEN_SOCKETS
    <3>7. listen_sockets' \in [0 .. MAX_LISTEN_SOCKETS - 1 -> Socket]
      BY <1>1, <3>4, <3>5
    <3> QED  BY <1>1, <3>2, <3>5, <3>6, <3>7 DEF IsTyped, TypeOK, options
  <2> QED  BY <2>1, <2>2
<1>11. CASE AddMapping
  <2>1. CASE Params[1] \notin DOMAIN MappingOf
    BY <1>8, <1>11, <2>1 DEF AddMapping
  <2>2. CASE Params[1] \in DOMAIN MappingOf
    <3>1. NextOption \in 1 .. Len(argv) + 1
      BY <1>1, <1>11, NextOptionIs DEF AddMapping
    <3> DEFINE new == NewAddrmap(MappingOf[Params[1]][1], MappingOf[Params[1]][2])
    <3>2. new \in Addrmap
      <4>1. MappingOf[Params[1]] \in Value \X Value
        BY <2>2, StartupAssumption
      <4> QED  BY <4>1 DEF NewAddrmap, Addrmap, Unresolved, Endpoint
    <3>3. /\ addrmaps' = <<new>> \o addrmaps /\ ind' = NextOption
          /\ UNCHANGED <<argv, families, phase, why, game_names, reject_when_known, settings, sockets, sock_ind>>
      BY <1>11, <2>2 DEF AddMapping
    <3> HIDE DEF new
    <3>4. addrmaps' \in Seq(Addrmap)
      BY <1>1, <3>2, <3>3
    <3> QED  BY <1>1, <3>1, <3>3, <3>4 DEF IsTyped, TypeOK, sockets
  <2> QED  BY <2>1, <2>2
<1>12. ASSUME NEW option \in DOMAIN settings, Set(option) PROVE IsTyped'
  <2>1. CASE ~(Params = <<>> \/ Accepts(option, Params[1]))
    BY <1>8, <1>12, <2>1 DEF Set
  <2>2. CASE Params = <<>> \/ Accepts(option, Params[1])
    <3>1. Params \in Seq(Value) /\ NextOption \in 1 .. Len(argv) + 1
      BY <1>1, <1>12, OptionIs, NextOptionIs DEF Set
    <3>2. option = "port" => Params # <<>>
      BY <1>1, <1>12, OptionIs DEF Set, MinParams, Setting
    <3> DEFINE v == IF Params = <<>> THEN "given" ELSE Params[1]
    <3>3. v \in Value \cup {"given"} /\ (option = "port" => v \in DOMAIN IntOf)
      BY <2>2, <3>1, <3>2 DEF Accepts
    <3>4. /\ settings' = [settings EXCEPT ![option] = v] /\ ind' = NextOption
          /\ UNCHANGED <<argv, families, phase, why, game_names, reject_when_known, addrmaps, sockets, sock_ind>>
      BY <1>12, <2>2 DEF Set
    <3> HIDE DEF v
    <3>5. settings' \in Settings
      <4>1. "port" \in Flag \cup Setting \cup {"verbose"}
        BY DEF Setting
      <4>2. settings \in [Flag \cup Setting \cup {"verbose"} -> Value \cup {NoName, "given"}]
            /\ settings["port"] \in DOMAIN IntOf \cup {NoName}
        BY <1>1 DEF Settings
      <4>3. settings' \in [Flag \cup Setting \cup {"verbose"} -> Value \cup {NoName, "given"}]
        BY <3>3, <3>4, <4>2
      <4>4. settings'["port"] \in DOMAIN IntOf \cup {NoName}
        BY <3>3, <3>4, <4>1, <4>2
      <4> QED  BY <4>3, <4>4 DEF Settings
    <3> QED  BY <1>1, <3>1, <3>4, <3>5 DEF IsTyped, TypeOK, sockets
  <2> QED  BY <2>1, <2>2
<1> QED  BY <1>4, <1>5, <1>6, <1>7, <1>9, <1>10, <1>11, <1>12 DEF ParseCommandLine

(* The numbers strtol makes of a port are ports.                           *)
LEMMA PortIs ==
  ASSUME settings \in Settings
  PROVE  DefaultPort \in Nat
<1>1. settings["port"] \in DOMAIN IntOf \cup {NoName}
  BY DEF Settings
<1>2. CASE settings["port"] = NoName
  BY <1>2 DEF DefaultPort, DEFAULT_MASTER_PORT
<1>3. CASE settings["port"] # NoName
  <2>1. IntOf[settings["port"]] \in Int
    BY <1>1, <1>3, StartupAssumption
  <2>2. PICK n \in Int : n = IntOf[settings["port"]]
    BY <2>1
  <2>3. n % 65536 \in Nat
    OBVIOUS
  <2>4. DefaultPort = IntOf[settings["port"]] % 65536
    BY <1>3 DEF DefaultPort, PortOf
  <2> QED  BY <2>2, <2>3, <2>4
<1> QED  BY <1>2, <1>3

(* A step after the parser keeps the types.                                *)
LEMMA InitializeTyped ==
  ASSUME IsTyped, Initialize
  PROVE  IsTyped'
<1> USE DEF MAX_LISTEN_SOCKETS
<1>1. /\ Reads /\ argv \in Seq(Argument) /\ families \subseteq Family /\ ind \in 1 .. Len(argv) + 1
      /\ game_names \in Seq(Value) /\ addrmaps \in Seq(Addrmap)
      /\ nb_sockets \in 0 .. 8 /\ sock_ind \in 0 .. 8
      /\ game_names \in Tables /\ reject_when_known \in BOOLEAN /\ settings \in Settings
      /\ listen_sockets \in [0 .. 7 -> Socket]
      /\ phase \in ToSet(Phases)
  BY DEF IsTyped, TypeOK, Reads
<1>2. \A p \in {"addresses", "security", "sockets", "running", "failed"} : p \in ToSet(Phases)
  BY PhasesAre
<1>3. CASE /\ UNCHANGED <<argv, families, ind, game_names, reject_when_known, settings>>
           /\ phase' \in ToSet(Phases) /\ addrmaps' \in Seq(Addrmap)
           /\ nb_sockets' \in 0 .. 8 /\ sock_ind' \in 0 .. 8 /\ listen_sockets' \in [0 .. 7 -> Socket]
  BY <1>1, <1>3 DEF IsTyped, TypeOK
<1>4. Sys_CloseAllSockets => nb_sockets' \in 0 .. 8 /\ listen_sockets' \in [0 .. 7 -> Socket]
  <2> SUFFICES ASSUME Sys_CloseAllSockets PROVE nb_sockets' \in 0 .. 8 /\ listen_sockets' \in [0 .. 7 -> Socket]
    OBVIOUS
  <2>1. \A i \in 0 .. 7 : [listen_sockets[i] EXCEPT !.open = FALSE] \in Socket
    BY <1>1 DEF Socket
  <2>2. DOMAIN listen_sockets = 0 .. 7 /\ \A i \in 0 .. 7 : listen_sockets[i] \in Socket
    BY <1>1
  <2>3. nb_sockets' = 0
    BY DEF Sys_CloseAllSockets
  <2>4. listen_sockets' \in [0 .. 7 -> Socket]
    BY <2>1, <2>2 DEF Sys_CloseAllSockets
  <2> QED  BY <2>3, <2>4
<1>5. CASE Sv_ResolveAddressMappings
  <2>1. CASE \E i \in DOMAIN addrmaps : ~Resolves(addrmaps[i])
    BY <1>1, <1>2, <1>3, <1>5, <2>1 DEF Sv_ResolveAddressMappings, Fail, sockets
  <2>2. CASE ~\E i \in DOMAIN addrmaps : ~Resolves(addrmaps[i])
    <3> DEFINE list == [i \in DOMAIN addrmaps |-> Resolved(addrmaps[i])]
               result == InsertAllAddrmaps(list)
    <3>1. ASSUME NEW i \in DOMAIN addrmaps PROVE Resolved(addrmaps[i]) \in Addrmap
      <4>1. addrmaps[i] \in Addrmap /\ Resolves(addrmaps[i])
        BY <1>1, <2>2
      <4>2. ResolveIPv4[addrmaps[i].from_string] \in Endpoint /\ ResolveIPv4[addrmaps[i].to_string] \in Endpoint
        BY <4>1, StartupAssumption DEF Resolves
      <4> QED  BY <4>1, <4>2 DEF Resolved, Addrmap
    <3>2. list \in Seq(Addrmap)
      <4>1. DOMAIN addrmaps = 1 .. Len(addrmaps) /\ Len(addrmaps) \in Nat
        BY <1>1
      <4> QED  BY <3>1, <4>1
    <3>3. result \in Sorting(list)
      BY <3>2, InsertAllIs
    <3>4. result.ok \in BOOLEAN /\ result.maps \in Seq(Addrmap)
      BY <3>3 DEF Sorting, Results
    <3>5. /\ addrmaps' = result.maps
          /\ IF result.ok THEN phase' = "addresses" ELSE phase' = "failed"
          /\ UNCHANGED <<argv, families, ind, game_names, reject_when_known, settings, sockets, sock_ind>>
      BY <1>5, <2>2 DEF Sv_ResolveAddressMappings, Fail
    <3> HIDE DEF result
    <3> QED  BY <1>1, <1>2, <1>3, <3>4, <3>5 DEF sockets
  <2> QED  BY <2>1, <2>2
<1>6. CASE Sys_ResolveListenAddresses
  <2>1. DefaultPort \in Nat
    BY <1>1, PortIs
  <2>2. CASE nb_sockets = 0
    <3>1. DefaultSocket("AF_INET") \in Socket /\ DefaultSocket("AF_INET6") \in Socket
      BY <2>1 DEF DefaultSocket, NewSocket, Socket, Family
    <3>2. listen_sockets' \in [0 .. 7 -> Socket] /\ nb_sockets' = 2 /\ phase' = "security"
          /\ UNCHANGED <<argv, families, ind, options, sock_ind>>
      BY <1>1, <1>6, <2>2, <3>1 DEF Sys_ResolveListenAddresses
    <3> QED  BY <1>1, <1>2, <1>3, <3>2 DEF options
  <2>3. CASE nb_sockets # 0 /\ \E i \in 0 .. nb_sockets - 1 : listen_sockets[i].name \notin DOMAIN ResolveAny
    BY <1>1, <1>2, <1>3, <1>6, <2>3 DEF Sys_ResolveListenAddresses, Fail, options, sockets
  <2>4. CASE nb_sockets # 0 /\ ~\E i \in 0 .. nb_sockets - 1 : listen_sockets[i].name \notin DOMAIN ResolveAny
    <3>1. ASSUME NEW i \in 0 .. 7, i < nb_sockets PROVE WithAddress(listen_sockets[i]) \in Socket
      <4>1. listen_sockets[i].name \in DOMAIN ResolveAny
        BY <1>1, <2>4, <3>1
      <4>2. ResolveAny[listen_sockets[i].name] \in [family : Family, port : Nat]
        BY <4>1, StartupAssumption
      <4>3. listen_sockets[i] \in Socket
        BY <1>1
      <4> QED  BY <2>1, <4>2, <4>3 DEF WithAddress, Socket
    <3>2. /\ listen_sockets' = [i \in DOMAIN listen_sockets |->
                                  IF i < nb_sockets THEN WithAddress(listen_sockets[i]) ELSE listen_sockets[i]]
          /\ phase' = "security" /\ nb_sockets' = nb_sockets
          /\ UNCHANGED <<argv, families, ind, options, sock_ind>>
      BY <1>6, <2>4 DEF Sys_ResolveListenAddresses
    <3>3. DOMAIN listen_sockets = 0 .. 7 /\ \A i \in 0 .. 7 : listen_sockets[i] \in Socket
      BY <1>1
    <3>4. listen_sockets' \in [0 .. 7 -> Socket]
      BY <3>1, <3>2, <3>3
    <3> QED  BY <1>1, <1>2, <1>3, <3>2, <3>4 DEF options
  <2> QED  BY <2>2, <2>3, <2>4
<1>7. CASE Sys_SecurityInit
  BY <1>1, <1>2, <1>3, <1>7 DEF Sys_SecurityInit, options, sockets
<1>8. CASE OpenSocket
  <2>1. sock_ind \in 0 .. 7 /\ sock_ind' = sock_ind + 1 /\ nb_sockets' = nb_sockets /\ phase' = phase
        /\ UNCHANGED <<argv, families, ind, options>>
    BY <1>1, <1>8 DEF OpenSocket, HasSocket
  <2>2. listen_sockets' = [listen_sockets EXCEPT ![sock_ind].open = TRUE]
    BY <1>8 DEF OpenSocket, Opened
  <2>3. listen_sockets[sock_ind] \in Socket
    BY <1>1, <2>1
  <2>4. [listen_sockets[sock_ind] EXCEPT !.open = TRUE] \in Socket
    BY <2>3 DEF Socket
  <2>5. listen_sockets' \in [0 .. 7 -> Socket]
    BY <1>1, <2>1, <2>2, <2>4
  <2> QED  BY <1>1, <1>3, <2>1, <2>5 DEF options
<1>9. CASE DropOptional
  <2>1. /\ phase' = phase /\ nb_sockets' = nb_sockets - 1 /\ sock_ind < nb_sockets
        /\ UNCHANGED <<argv, families, ind, options, sock_ind>>
    BY <1>9 DEF DropOptional, HasSocket
  <2>2. listen_sockets' = [i \in DOMAIN listen_sockets |->
                          IF i >= sock_ind /\ i < nb_sockets - 2 THEN listen_sockets[i + 1] ELSE listen_sockets[i]]
    BY <1>9 DEF DropOptional
  <2>3. DOMAIN listen_sockets = 0 .. 7 /\ \A i \in 0 .. 7 : listen_sockets[i] \in Socket
    BY <1>1
  <2>4. \A i \in 0 .. 7 : i < nb_sockets - 2 => i + 1 \in 0 .. 7
    BY <1>1
  <2>5. listen_sockets' \in [0 .. 7 -> Socket]
    BY <2>2, <2>3, <2>4
  <2>6. nb_sockets' \in 0 .. 8
    BY <1>1, <2>1
  <2> QED  BY <1>1, <1>3, <2>1, <2>5, <2>6 DEF options
<1>10. CASE FamilyMissing
  BY <1>1, <1>2, <1>3, <1>4, <1>10 DEF FamilyMissing, Fail, options
<1>11. CASE SocketsEnd
  BY <1>1, <1>2, <1>3, <1>11 DEF SocketsEnd, Fail, options, sockets
<1>12. CASE CallFails
  <2>1. nb_sockets' \in 0 .. 8 /\ listen_sockets' \in [0 .. 7 -> Socket]
    BY <1>1, <1>4, <1>12 DEF CallFails, sockets
  <2>2. phase' = "failed" /\ UNCHANGED <<argv, families, ind, options, sock_ind>>
    BY <1>12 DEF CallFails, Fail
  <2> QED  BY <1>1, <1>2, <1>3, <2>1, <2>2 DEF options
<1> QED  BY <1>5, <1>6, <1>7, <1>8, <1>9, <1>10, <1>11, <1>12 DEF Initialize

(* A step keeps the types.                                                 *)
LEMMA NextTyped == IsTyped /\ [Next]_vars => IsTyped'
<1> SUFFICES ASSUME IsTyped, [Next]_vars PROVE IsTyped'
  OBVIOUS
<1>1. CASE UNCHANGED vars
  BY <1>1 DEF IsTyped, TypeOK, vars, options, sockets
<1> QED  BY <1>1, ParserTyped, InitializeTyped DEF Next, Done

(* The cursors stay within argv and the table of sockets: after the        *)
(* arithmetic of ParseCommandLine (dpmaster.c:578), after a ninth --listen  *)
(* (system.c:306) and after a record is dropped (system.c:405).            *)
THEOREM StartTypeCorrect == Spec => []TypeOK
<1>1. IsTyped => TypeOK
  BY DEF IsTyped
<1> QED  BY <1>1, InitTyped, NextTyped, PTL DEF Spec

-----------------------------------------------------------------------------
(* Progress                                                                *)

(* The rank of each phase.                                                 *)
LEMMA Ranks ==
  /\ Rank("options") = 1 /\ Rank("mappings") = 2 /\ Rank("addresses") = 3 /\ Rank("security") = 4
  /\ Rank("sockets") = 5 /\ Rank("running") = 6 /\ Rank("failed") = 7 /\ Rank("undefined") = 8
<1>1. DOMAIN Phases = 1 .. 8
  BY DEF Phases
<1>2. /\ Phases[1] = "options" /\ Phases[2] = "mappings" /\ Phases[3] = "addresses" /\ Phases[4] = "security"
      /\ Phases[5] = "sockets" /\ Phases[6] = "running" /\ Phases[7] = "failed" /\ Phases[8] = "undefined"
  BY DEF Phases
<1>3. \A n \in 1 .. 8 : n = 1 \/ n = 2 \/ n = 3 \/ n = 4 \/ n = 5 \/ n = 6 \/ n = 7 \/ n = 8
  OBVIOUS
<1>4. ASSUME NEW k \in 1 .. 8 PROVE Rank(Phases[k]) = k
  <2>1. \A n \in 1 .. 8 : Phases[n] = Phases[k] => n = k
    BY <1>2, <1>3
  <2> QED  BY <1>1, <2>1 DEF Rank
<1> QED  BY <1>2, <1>4

\* What StartMoves says of a step.
Advances ==
  \/ Rank(phase') > Rank(phase)
  \/ phase = "options" /\ phase' = phase /\ ind' > ind
  \/ phase = "sockets" /\ phase' = phase /\ nb_sockets' - sock_ind' < nb_sockets - sock_ind

(* A step that changes something advances the start.                       *)
LEMMA NextAdvances == IsTyped /\ [Next]_vars => [Advances]_vars
<1> SUFFICES ASSUME IsTyped, Next, vars' # vars PROVE Advances
  OBVIOUS
<1>1. /\ Reads /\ nb_sockets \in 0 .. 8 /\ sock_ind \in 0 .. 8
  BY DEF IsTyped, TypeOK, Reads, MAX_LISTEN_SOCKETS
<1>2. phase # "failed" /\ phase # "undefined" /\ phase' = "failed" => Advances
  <2>1. phase \in {"options", "mappings", "addresses", "security", "sockets", "running", "failed", "undefined"}
    BY PhasesAre DEF IsTyped, TypeOK
  <2> QED  BY <2>1, Ranks DEF Advances
<1>3. ASSUME NEW option, Is(option), ind' = NextOption, phase' = phase PROVE Advances
  BY <1>1, <1>3, NextOptionIs DEF Is, HasOption, Advances
<1>4. ASSUME NEW option, Is(option), ParamsRejected PROVE Advances
  BY <1>2, <1>4 DEF Is, HasOption, ParamsRejected, Fail
<1>5. CASE BadOption
  BY <1>2, <1>5 DEF BadOption, HasOption, Fail
<1>6. CASE MisplacedParams
  BY <1>6, Ranks DEF MisplacedParams, Is, HasOption, Advances
<1>7. CASE DeclarePolicy
  BY <1>3, <1>4, <1>7 DEF DeclarePolicy
<1>8. CASE Listen
  BY <1>3, <1>4, <1>8 DEF Listen
<1>9. CASE AddMapping
  BY <1>3, <1>4, <1>9 DEF AddMapping
<1>10. CASE ShowHelp
  BY <1>2, <1>10 DEF ShowHelp, Is, HasOption, Fail
<1>11. CASE \E option \in DOMAIN settings : Set(option)
  BY <1>3, <1>4, <1>11 DEF Set
<1>12. CASE OptionsEnd
  BY <1>12, Ranks DEF OptionsEnd, Advances
<1>13. CASE Sv_ResolveAddressMappings
  <2>1. phase = "mappings" /\ phase' \in {"addresses", "failed"}
    BY <1>13 DEF Sv_ResolveAddressMappings, Fail
  <2> QED  BY <2>1, Ranks DEF Advances
<1>14. CASE Sys_ResolveListenAddresses
  <2>1. phase = "addresses" /\ phase' \in {"security", "failed"}
    BY <1>14 DEF Sys_ResolveListenAddresses, Fail
  <2> QED  BY <2>1, Ranks DEF Advances
<1>15. CASE Sys_SecurityInit
  BY <1>15, Ranks DEF Sys_SecurityInit, Advances
<1>16. CASE OpenSocket
  BY <1>1, <1>16 DEF OpenSocket, HasSocket, Advances
<1>17. CASE DropOptional
  BY <1>1, <1>17 DEF DropOptional, HasSocket, Advances
<1>18. CASE FamilyMissing
  BY <1>2, <1>18 DEF FamilyMissing, HasSocket, Fail
<1>19. CASE SocketsEnd
  <2>1. phase = "sockets" /\ phase' \in {"running", "failed"}
    BY <1>19 DEF SocketsEnd, Fail
  <2> QED  BY <2>1, Ranks DEF Advances
<1>20. CASE CallFails
  <2>1. phase \in {"options", "mappings", "addresses", "security", "sockets"} /\ phase' = "failed"
    BY <1>20 DEF CallFails, Is, HasOption, Fail
  <2> QED  BY <1>2, <2>1
<1>21. ~Done
  BY DEF Done
<1>22. CASE ParseCommandLine
  BY <1>5, <1>6, <1>7, <1>8, <1>9, <1>10, <1>11, <1>12, <1>22 DEF ParseCommandLine
<1>23. CASE Initialize
  BY <1>13, <1>14, <1>15, <1>16, <1>17, <1>18, <1>19, <1>20, <1>23 DEF Initialize
<1> QED  BY <1>21, <1>22, <1>23 DEF Next

(* Every step of a start leaves less to do, so that every start ends: the  *)
(* two loops step by an amount they compute (dpmaster.c:637) and shorten   *)
(* the list they walk (system.c:405).                                      *)
THEOREM StartProgresses == Spec => StartMoves
<1>1. Spec => [][Advances]_vars
  BY InitTyped, NextTyped, NextAdvances, PTL DEF Spec
<1> QED  BY <1>1 DEF StartMoves, Advances

-----------------------------------------------------------------------------
(* What has been read of the command line                                  *)

Going == phase \notin {"failed", "undefined"}

\* The options the parser is done with.
ReadOf(option) == {i \in At(option) : i < ind}

\* The mapping of a --map, before it is resolved.
Source(i) == NewAddrmap(MappingOf[Text(i)][1], MappingOf[Text(i)][2])

\* The games of some options.
GamesOf(I) == {argv[j].text : j \in UNION {Values(i) \ {i + 1} : i \in I}}

\* The last of some indices.
LastOf(I) == CHOOSE i \in I : \A j \in I : j <= i

(* The command line does not change.                                       *)
LEMMA SameLine ==
  ASSUME argv' = argv
  PROVE  /\ Plain' <=> Plain
         /\ \A o : At(o)' = At(o)
         /\ \A i : Text(i)' = Text(i) /\ Values(i)' = Values(i) /\ Source(i)' = Source(i) /\ Declared(i)' = Declared(i)
         /\ \A i : argv'[i].text = argv[i].text
         /\ LastPort' = LastPort
<1>1. \A i : IsValue(i)' <=> IsValue(i)
  BY DEF IsValue
<1>2. \A o : At(o)' = At(o)
  BY DEF At
<1>3. \A i : Text(i)' = Text(i)
  BY DEF Text
<1>4. \A i : Values(i)' = Values(i)
  BY <1>1 DEF Values
<1>5. \A i : Source(i)' = Source(i) /\ Declared(i)' = Declared(i)
  BY <1>3 DEF Source, Declared
<1>6. Plain' <=> Plain
  <2>1. \A option : MinParams(option)' = MinParams(option)
    BY DEF MinParams
  <2> QED  BY <1>1, <2>1 DEF Plain
<1>7. LastPort' = LastPort
  <2> DEFINE last == CHOOSE i \in At("port") : \A j \in At("port") : j <= i
  <2>1. last' = last
    BY DEF At
  <2>2. PortOf(Text(last))' = PortOf(Text(last))
    <3>1. Text(last)' = Text(last)
      <4> HIDE DEF last
      <4> QED  BY <2>1 DEF Text
    <3> QED  BY <3>1 DEF PortOf
  <2> QED  BY <1>2, <2>2 DEF LastPort
<1> QED  BY <1>2, <1>3, <1>4, <1>5, <1>6, <1>7

(* When no option stands where a parameter must, everything up to the next *)
(* option is a value.                                                      *)
LEMMA ParamsAreValues ==
  ASSUME Reads, Plain, NEW option, Is(option), Attached = 0 \/ option # "game-policy"
  PROVE  \A j \in ind + 1 .. AfterParams - 1 : IsValue(j)
<1>1. /\ ind \in 1 .. Len(argv) /\ argv[ind].option = option /\ option \in Option /\ Len(argv) \in Nat
      /\ AfterNeeded \in ind + 1 .. Len(argv) + 1 /\ AfterParams \in AfterNeeded .. Len(argv) + 1
      /\ \A j \in AfterNeeded .. AfterParams - 1 : IsValue(j)
      /\ Attached = 0 => AfterNeeded = ind + 1 + MinParams(option)
      /\ Attached = 1 /\ MinParams(option) < 2 => AfterNeeded = ind + 1
      /\ Attached = (IF argv[ind].attached THEN 1 ELSE 0)
  BY OptionIs
<1>2. CASE Attached = 0
  <2>1. ind \in DOMAIN argv /\ ~argv[ind].attached
    BY <1>1, <1>2 DEF Reads
  <2>2. \A n \in 1 .. MinParams(option) : IsValue(ind + n)
    BY <1>1, <2>1 DEF Plain
  <2>3. MinParams(option) \in 0 .. 2
    BY DEF MinParams
  <2>4. ASSUME NEW j \in ind + 1 .. AfterParams - 1, j < AfterNeeded PROVE IsValue(j)
    <3>1. j - ind \in 1 .. MinParams(option) /\ ind + (j - ind) = j
      BY <1>1, <1>2, <2>3, <2>4
    <3> QED  BY <2>2, <3>1
  <2> QED  BY <1>1, <2>4
<1>3. CASE Attached = 1
  <2>1. MinParams(option) < 2
    BY <1>3 DEF MinParams
  <2> QED  BY <1>1, <1>3, <2>1
<1> QED  BY <1>1, <1>2, <1>3

(* After an option, that option is read, and no other.                     *)
LEMMA OptionRead ==
  ASSUME Reads, Plain, NEW option, Is(option), Attached = 0 \/ option # "game-policy",
         argv' = argv, ind' = NextOption
  PROVE  /\ \A o \in Option : ReadOf(o)' = ReadOf(o) \cup (IF o = option THEN {ind} ELSE {})
         /\ ind \in At(option)
<1>1. /\ ind \in 1 .. Len(argv) /\ argv[ind].option = option /\ option \in Option /\ Len(argv) \in Nat
      /\ AfterNeeded \in ind + 1 .. Len(argv) + 1 /\ AfterParams \in AfterNeeded .. Len(argv) + 1
  BY OptionIs
<1>2. \A j \in ind + 1 .. AfterParams - 1 : IsValue(j)
  BY ParamsAreValues
<1>3. DOMAIN argv = 1 .. Len(argv)
  BY DEF Reads
<1>4. "value" \notin Option
  BY DEF Option, Flag, Setting
<1>5. ind' = AfterParams
  BY DEF NextOption
<1>6. ASSUME NEW o \in Option, NEW i \in At(o) PROVE i < ind' <=> i < ind \/ i = ind
  <2>1. i \in 1 .. Len(argv) /\ argv[i].option = o
    BY <1>3 DEF At
  <2>2. ~IsValue(i)
    BY <1>4, <2>1 DEF IsValue
  <2>3. i \notin ind + 1 .. AfterParams - 1
    BY <1>2, <2>2
  <2> QED  BY <1>1, <1>5, <2>1, <2>3
<1>7. \A o \in Option : ind \in At(o) <=> o = option
  BY <1>1, <1>3 DEF At
<1>8. \A o : At(o)' = At(o)
  BY SameLine
<1>9. ASSUME NEW o \in Option PROVE ReadOf(o)' = ReadOf(o) \cup (IF o = option THEN {ind} ELSE {})
  <2>1. ReadOf(o)' = {i \in At(o) : i < ind'}
    BY <1>8 DEF ReadOf
  <2>2. {i \in At(o) : i < ind'} = {i \in At(o) : i < ind \/ i = ind}
    BY <1>6
  <2> QED  BY <1>7, <2>1, <2>2 DEF ReadOf
<1> QED  BY <1>1, <1>7, <1>9

(* The first parameter is what the command line says.                      *)
LEMMA TextIs ==
  ASSUME Reads, NEW option, Is(option), Params # <<>>
  PROVE  Params[1] = Text(ind)
<1>1. /\ ind \in 1 .. Len(argv) /\ Params \in Seq(Value)
      /\ Attached = 0 => \A n \in 1 .. Len(Params) : Params[n] = argv[ind + n].text
      /\ Attached = 1 => Params = <<argv[ind].text>> /\ argv[ind].attached
      /\ Attached = (IF argv[ind].attached THEN 1 ELSE 0)
  BY OptionIs
<1>2. 1 \in 1 .. Len(Params)
  BY <1>1
<1> QED  BY <1>1, <1>2 DEF Text

\* The steps of the parser that accept an option.
ReadPolicy ==
  /\ Is("game-policy") /\ Attached = 0 /\ PolicyFits(Head(Params))
  /\ reject_when_known' = (Head(Params) = "reject")
  /\ game_names' = WithGames(Tail(Params))
  /\ ind' = NextOption
  /\ UNCHANGED <<argv, families, phase, addrmaps, settings, sockets, sock_ind>>

ReadListen ==
  /\ Is("listen") /\ Room
  /\ listen_sockets' = [listen_sockets EXCEPT ![nb_sockets] = NewSocket(Params[1])]
  /\ nb_sockets' = nb_sockets + 1
  /\ ind' = NextOption
  /\ UNCHANGED <<argv, families, phase, game_names, reject_when_known, addrmaps, settings, sock_ind>>

ReadMap ==
  /\ Is("map") /\ Params[1] \in DOMAIN MappingOf
  /\ addrmaps' = <<NewAddrmap(MappingOf[Params[1]][1], MappingOf[Params[1]][2])>> \o addrmaps
  /\ ind' = NextOption
  /\ UNCHANGED <<argv, families, phase, game_names, reject_when_known, settings, sockets, sock_ind>>

ReadSetting(option) ==
  /\ Is(option) /\ option \in Flag \cup Setting \cup {"verbose"}
  /\ settings' = [settings EXCEPT ![option] = IF Params = <<>> THEN "given" ELSE Params[1]]
  /\ ind' = NextOption
  /\ UNCHANGED <<argv, families, phase, game_names, reject_when_known, addrmaps, sockets, sock_ind>>

SameReading == UNCHANGED <<argv, families, ind, game_names, reject_when_known, settings>>

(* The steps of a start that goes on.                                      *)
LEMMA StepIs ==
  ASSUME IsTyped, [Next]_vars, Going'
  PROVE  /\ Going /\ argv' = argv /\ families' = families
         /\ \/ phase = "options" /\ ReadPolicy
            \/ phase = "options" /\ ReadListen
            \/ phase = "options" /\ ReadMap
            \/ phase = "options" /\ \E option : ReadSetting(option)
            \/ SameReading /\ OptionsEnd
            \/ SameReading /\ Sv_ResolveAddressMappings /\ phase' = "addresses"
            \/ SameReading /\ Sys_ResolveListenAddresses /\ phase' = "security"
            \/ SameReading /\ Sys_SecurityInit
            \/ SameReading /\ OpenSocket
            \/ SameReading /\ DropOptional
            \/ SameReading /\ SocketsEnd /\ phase' = "running"
            \/ SameReading /\ UNCHANGED vars
<1>1. phase' # "failed" /\ phase' # "undefined"
  BY DEF Going
<1>2. ~ParamsRejected
  BY <1>1 DEF ParamsRejected, Fail
<1>3. CASE UNCHANGED vars
  BY <1>3 DEF vars, options, SameReading, Going
<1>4. CASE DeclarePolicy
  BY <1>2, <1>4 DEF DeclarePolicy, ReadPolicy, Is, HasOption, Going
<1>5. CASE Listen
  BY <1>2, <1>5 DEF Listen, ReadListen, Is, HasOption, Going, options
<1>6. CASE AddMapping
  BY <1>2, <1>6 DEF AddMapping, ReadMap, Is, HasOption, Going
<1>7. ASSUME NEW option \in DOMAIN settings, Set(option)
      PROVE  phase = "options" /\ ReadSetting(option) /\ argv' = argv /\ families' = families
  <2>1. DOMAIN settings = Flag \cup Setting \cup {"verbose"}
    BY DEF IsTyped, Settings
  <2> QED  BY <1>2, <1>7, <2>1 DEF Set, ReadSetting, Is, HasOption
<1>8. CASE OptionsEnd
  BY <1>8 DEF OptionsEnd, SameReading, Going, options
<1>9. CASE Sv_ResolveAddressMappings
  BY <1>1, <1>9 DEF Sv_ResolveAddressMappings, Fail, SameReading, Going
<1>10. CASE Sys_ResolveListenAddresses
  BY <1>1, <1>10 DEF Sys_ResolveListenAddresses, Fail, SameReading, Going, options
<1>11. CASE Sys_SecurityInit
  BY <1>11 DEF Sys_SecurityInit, SameReading, Going, options
<1>12. CASE OpenSocket
  BY <1>12 DEF OpenSocket, HasSocket, SameReading, Going, options
<1>13. CASE DropOptional
  BY <1>13 DEF DropOptional, HasSocket, SameReading, Going, options
<1>14. CASE SocketsEnd
  BY <1>1, <1>14 DEF SocketsEnd, Fail, SameReading, Going, options
<1>15. ~BadOption /\ ~MisplacedParams /\ ~ShowHelp /\ ~FamilyMissing /\ ~CallFails
  BY <1>1 DEF BadOption, MisplacedParams, ShowHelp, FamilyMissing, CallFails, Fail
<1>16. CASE ParseCommandLine
  <2>1. CASE \E option \in DOMAIN settings : Set(option)
    BY <1>7, <2>1 DEF Going
  <2> QED  BY <1>4, <1>5, <1>6, <1>8, <1>15, <1>16, <2>1 DEF ParseCommandLine
<1>17. CASE Initialize
  BY <1>9, <1>10, <1>11, <1>12, <1>13, <1>14, <1>15, <1>17 DEF Initialize
<1> QED  BY <1>3, <1>16, <1>17 DEF Next, Done

\* After the parser, the cursor is at the end.
Cursor == Going /\ phase # "options" => ind = Len(argv) + 1

(* A step keeps the cursor at the end.                                     *)
LEMMA CursorKept == ASSUME IsTyped, Cursor, [Next]_vars PROVE Cursor'
<1> SUFFICES ASSUME Going', phase' # "options" PROVE ind' = Len(argv') + 1
  BY DEF Cursor
<1>1. CASE SameReading /\ OptionsEnd
  <2>1. ind \notin DOMAIN argv /\ ind' = ind /\ argv' = argv
    BY <1>1 DEF OptionsEnd, SameReading
  <2> QED  BY <2>1 DEF IsTyped, TypeOK
<1>2. CASE SameReading /\ ~OptionsEnd
  <2>1. phase # "options"
    <3>1. CASE UNCHANGED vars
      BY <3>1 DEF vars
    <3> QED  BY <1>2, <3>1, StepIs DEF Sv_ResolveAddressMappings, Sys_ResolveListenAddresses, Sys_SecurityInit,
                OpenSocket, DropOptional, HasSocket, SocketsEnd, ReadPolicy, ReadListen, ReadMap, ReadSetting
  <2>2. Going
    BY StepIs
  <2> QED  BY <1>2, <2>1, <2>2 DEF Cursor, SameReading
<1> QED  BY <1>1, <1>2, StepIs DEF ReadPolicy, ReadListen, ReadMap, ReadSetting

(* Then every option is read.                                              *)
LEMMA AllRead ==
  ASSUME IsTyped, Cursor, Going, phase # "options"
  PROVE  \A o : ReadOf(o) = At(o)
<1>1. ind = Len(argv) + 1 /\ DOMAIN argv = 1 .. Len(argv) /\ Len(argv) \in Nat
  BY DEF Cursor, IsTyped, TypeOK
<1> QED  BY <1>1 DEF ReadOf, At

-----------------------------------------------------------------------------
(* The games                                                               *)

(* The table holds the games of the policies that are read, and these      *)
(* agree.                                                                  *)
GamesRead ==
  /\ ToSet(game_names) = GamesOf(ReadOf("game-policy"))
  /\ \A i \in ReadOf("game-policy") : argv[i + 1].text = IF reject_when_known THEN "reject" ELSE "accept"
  /\ game_names = <<>> => ReadOf("game-policy") = {} /\ reject_when_known

(* What an option adds.                                                    *)
LEMMA PolicyGames ==
  ASSUME IsTyped, Plain, Is("game-policy"), Attached = 0
  PROVE  /\ Head(Params) = argv[ind + 1].text
         /\ ToSet(Tail(Params)) = GamesOf({ind})
         /\ ToSet(Tail(Params)) # {}
         /\ Tail(Params) \in Seq(Value)
<1>1. Reads /\ argv \in Seq(Argument)
  BY DEF IsTyped, TypeOK, Reads
<1>2. /\ ind \in 1 .. Len(argv) /\ Len(argv) \in Nat
      /\ AfterNeeded = ind + 1 + MinParams("game-policy")
      /\ AfterParams \in AfterNeeded .. Len(argv) + 1
      /\ ~IsValue(AfterParams)
      /\ Params \in Seq(Value) /\ Len(Params) = AfterParams - ind - 1
      /\ \A n \in 1 .. Len(Params) : Params[n] = argv[ind + n].text
  BY <1>1, OptionIs
<1>3. MinParams("game-policy") = 2
  BY DEF MinParams
<1>4. AfterParams \in ind + 3 .. Len(argv) + 1 /\ Len(Params) \in Nat /\ Len(Params) >= 2
  BY <1>2, <1>3
<1>5. \A j \in ind + 1 .. AfterParams - 1 : IsValue(j)
  BY <1>1, ParamsAreValues
<1>6. Head(Params) = argv[ind + 1].text
  <2>1. 1 \in 1 .. Len(Params)
    BY <1>4
  <2> QED  BY <1>2, <2>1
<1> DEFINE t == Tail(Params)
<1>7. t \in Seq(Value) /\ Len(t) = Len(Params) - 1 /\ \A n \in 1 .. Len(Params) - 1 : t[n] = Params[n + 1]
  BY <1>2, <1>4
<1> HIDE DEF t
<1>8. Values(ind) = ind + 1 .. AfterParams - 1
  <2>1. ASSUME NEW j \in ind + 1 .. Len(argv), \A k \in ind + 1 .. j : IsValue(k)
        PROVE  j \in ind + 1 .. AfterParams - 1
    <3>1. j >= AfterParams => AfterParams \in ind + 1 .. j
      BY <1>2, <1>4
    <3> QED  BY <1>2, <1>4, <2>1, <3>1
  <2>2. ASSUME NEW j \in ind + 1 .. AfterParams - 1
        PROVE  j \in ind + 1 .. Len(argv) /\ \A k \in ind + 1 .. j : IsValue(k)
    <3>1. j \in ind + 1 .. Len(argv) /\ \A k \in ind + 1 .. j : k \in ind + 1 .. AfterParams - 1
      BY <1>2, <1>4
    <3> QED  BY <1>5, <3>1
  <2> QED  BY <2>1, <2>2 DEF Values
<1>9. GamesOf({ind}) = {argv[j].text : j \in ind + 2 .. AfterParams - 1}
  <2>1. Values(ind) \ {ind + 1} = ind + 2 .. AfterParams - 1
    BY <1>2, <1>4, <1>8
  <2>2. UNION {Values(i) \ {i + 1} : i \in {ind}} = ind + 2 .. AfterParams - 1
    BY <2>1
  <2> QED  BY <2>2 DEF GamesOf
<1>10. ASSUME NEW n \in 1 .. Len(t) PROVE t[n] \in GamesOf({ind})
  <2>1. n + 1 \in 1 .. Len(Params) /\ ind + (n + 1) \in ind + 2 .. AfterParams - 1 /\ n \in 1 .. Len(Params) - 1
    BY <1>2, <1>4, <1>7
  <2>2. t[n] = argv[ind + (n + 1)].text
    BY <1>2, <1>7, <2>1
  <2> QED  BY <1>9, <2>1, <2>2
<1>11. ASSUME NEW j \in ind + 2 .. AfterParams - 1 PROVE argv[j].text \in ToSet(t)
  <2> DEFINE n == j - ind - 1
  <2>1. n \in 1 .. Len(t) /\ n \in 1 .. Len(Params) - 1 /\ n + 1 \in 1 .. Len(Params) /\ ind + (n + 1) = j
    BY <1>2, <1>4, <1>7
  <2>2. t[n] = argv[j].text
    BY <1>2, <1>7, <2>1
  <2>3. DOMAIN t = 1 .. Len(t)
    BY <1>7
  <2> QED  BY <2>1, <2>2, <2>3 DEF ToSet
<1>12. ToSet(t) = GamesOf({ind})
  <2>1. DOMAIN t = 1 .. Len(t)
    BY <1>7
  <2>2. ToSet(t) \subseteq GamesOf({ind})
    BY <1>10, <2>1 DEF ToSet
  <2>3. GamesOf({ind}) \subseteq ToSet(t)
    BY <1>9, <1>11
  <2> QED  BY <2>2, <2>3
<1>13. ToSet(t) # {}
  <2>1. ind + 2 \in ind + 2 .. AfterParams - 1
    BY <1>2, <1>4
  <2> QED  BY <1>11, <2>1
<1> QED  BY <1>6, <1>7, <1>12, <1>13 DEF t

(* A step keeps what is read of the policies.                              *)
LEMMA GamesKept ==
  ASSUME IsTyped, [Next]_vars, Going', Plain, GamesRead
  PROVE  GamesRead'
<1>1. Reads /\ argv' = argv
  BY StepIs DEF IsTyped, TypeOK, Reads
<1>2. /\ \A I : GamesOf(I)' = {argv[j].text : j \in UNION {Values(i)' \ {i + 1} : i \in I'}}
      /\ \A o : At(o)' = At(o)
      /\ \A i : Values(i)' = Values(i) /\ argv'[i].text = argv[i].text
  BY <1>1, SameLine DEF GamesOf
<1> DEFINE R == ReadOf("game-policy")
<1>3. GamesOf(R)' = {argv[j].text : j \in UNION {Values(i) \ {i + 1} : i \in R'}}
  BY <1>1, <1>2 DEF GamesOf
<1>4. CASE R' = R /\ game_names' = game_names /\ reject_when_known' = reject_when_known
  <2>1. GamesOf(R)' = GamesOf(R)
    BY <1>3, <1>4 DEF GamesOf
  <2> QED  BY <1>2, <1>4, <2>1 DEF GamesRead
<1>5. ASSUME NEW option, option # "game-policy", Is(option), ind' = NextOption PROVE R' = R
  <2>1. "game-policy" \in Option
    BY DEF Option
  <2> QED  BY <1>1, <1>5, <2>1, OptionRead
<1>6. CASE SameReading
  BY <1>2, <1>4, <1>6 DEF SameReading, ReadOf
<1>7. CASE ReadListen
  BY <1>4, <1>5, <1>7 DEF ReadListen
<1>8. CASE ReadMap
  BY <1>4, <1>5, <1>8 DEF ReadMap
<1>9. ASSUME NEW option, ReadSetting(option) PROVE GamesRead'
  <2>1. option # "game-policy"
    BY <1>9 DEF ReadSetting, Flag, Setting
  <2> QED  BY <1>4, <1>5, <1>9, <2>1 DEF ReadSetting
<1>10. CASE ReadPolicy
  <2>1. /\ Is("game-policy") /\ Attached = 0 /\ PolicyFits(Head(Params)) /\ ind' = NextOption
        /\ reject_when_known' = (Head(Params) = "reject")
        /\ game_names' = WithGames(Tail(Params))
    BY <1>10 DEF ReadPolicy
  <2>2. R' = R \cup {ind}
    <3>1. "game-policy" \in Option
      BY DEF Option
    <3> QED  BY <1>1, <2>1, <3>1, OptionRead
  <2>3. /\ Head(Params) = argv[ind + 1].text
        /\ ToSet(Tail(Params)) = GamesOf({ind}) /\ ToSet(Tail(Params)) # {}
        /\ Tail(Params) \in Seq(Value)
    BY <2>1, PolicyGames
  <2>4. ToSet(game_names') = ToSet(game_names) \cup GamesOf({ind})
    <3>1. WithGames(Tail(Params)) \in WithAll(game_names, ToSet(Tail(Params)))
      BY <2>3, WithGamesIs DEF IsTyped
    <3> QED  BY <2>1, <2>3, <3>1 DEF WithAll
  <2>5. GamesOf(R)' = GamesOf(R) \cup GamesOf({ind})
    <3> DEFINE ValuesOf(I) == UNION {Values(i) \ {i + 1} : i \in I}
    <3>1. ValuesOf(R') = ValuesOf(R) \cup ValuesOf({ind})
      BY <2>2
    <3>2. GamesOf(R)' = {argv[j].text : j \in ValuesOf(R')}
      BY <1>3
    <3>3. GamesOf(R) = {argv[j].text : j \in ValuesOf(R)} /\ GamesOf({ind}) = {argv[j].text : j \in ValuesOf({ind})}
      BY DEF GamesOf
    <3> HIDE DEF ValuesOf
    <3> QED  BY <3>1, <3>2, <3>3
  <2>6. ToSet(game_names') = GamesOf(R)'
    BY <2>4, <2>5 DEF GamesRead
  <2>7. game_names' # <<>>
    <3>1. ToSet(<<>>) = {}
      BY DEF ToSet
    <3> QED  BY <2>3, <2>4, <3>1
  <2>8. Head(Params) = "reject" \/ Head(Params) = "accept"
    BY <2>1 DEF PolicyFits
  <2>9. argv[ind + 1].text = IF reject_when_known' THEN "reject" ELSE "accept"
    BY <2>1, <2>3, <2>8
  <2>10. R # {} => reject_when_known' = reject_when_known
    <3>1. R # {} => game_names # <<>>
      BY DEF GamesRead
    <3>2. reject_when_known \in BOOLEAN
      BY DEF IsTyped
    <3> QED  BY <2>1, <3>1, <3>2 DEF PolicyFits
  <2>11. \A i \in R' : argv[i + 1].text = IF reject_when_known' THEN "reject" ELSE "accept"
    BY <2>2, <2>9, <2>10 DEF GamesRead
  <2> QED  BY <1>1, <2>6, <2>7, <2>11 DEF GamesRead
<1> QED  BY <1>6, <1>7, <1>8, <1>9, <1>10, StepIs

(* What the invariants say together of the parser.                         *)
GamesInv == IsTyped /\ Cursor /\ (Going /\ Plain => GamesRead)

(* The invariant holds at the start.                                       *)
LEMMA GamesInit == Init => GamesInv
<1> SUFFICES ASSUME Init PROVE GamesInv
  OBVIOUS
<1>1. IsTyped /\ Cursor
  BY InitTyped DEF Init, Cursor
<1>2. \A o : ReadOf(o) = {}
  <2>1. ind = 1 /\ DOMAIN argv = 1 .. Len(argv)
    BY <1>1 DEF Init, IsTyped, TypeOK
  <2> QED  BY <2>1 DEF ReadOf, At
<1>3. GamesOf({}) = {} /\ ToSet(<<>>) = {}
  BY DEF GamesOf, ToSet
<1>4. GamesRead
  BY <1>2, <1>3 DEF Init, GamesRead
<1> QED  BY <1>1, <1>4 DEF GamesInv

(* A step keeps it.                                                        *)
LEMMA GamesNext == GamesInv /\ [Next]_vars => GamesInv'
<1> SUFFICES ASSUME GamesInv, [Next]_vars PROVE GamesInv'
  OBVIOUS
<1>1. IsTyped /\ Cursor /\ (Going /\ Plain => GamesRead)
  BY DEF GamesInv
<1>2. IsTyped' /\ Cursor'
  BY <1>1, NextTyped, CursorKept
<1>3. ASSUME Going', Plain' PROVE GamesRead'
  <2>1. Going /\ Plain
    BY <1>1, <1>3, StepIs, SameLine
  <2> QED  BY <1>1, <1>3, <2>1, GamesKept
<1> QED  BY <1>2, <1>3 DEF GamesInv

(* A master that runs accepts the games its command line accepts, in       *)
(* however many options and in whatever order they come ("All non-listed    *)
(* games will implicitely get the opposite policy").                       *)
THEOREM PolicyCorrect == Spec => []PolicyAsDeclared
<1>1. GamesInv => PolicyAsDeclared
  <2> SUFFICES ASSUME GamesInv, phase = "running", Plain, NEW game \in Value
               PROVE  Game_IsAccepted(game_names, reject_when_known, game) <=>
                        \A i \in At("game-policy") : argv[i + 1].text = "accept" <=> game \in Listed
    BY DEF PolicyAsDeclared
  <2>1. IsTyped /\ Cursor /\ Going /\ phase # "options" /\ GamesRead
    BY DEF GamesInv, Going
  <2>2. ReadOf("game-policy") = At("game-policy")
    BY <2>1, AllRead
  <2>3. /\ ToSet(game_names) = GamesOf(At("game-policy"))
        /\ \A i \in At("game-policy") : argv[i + 1].text = IF reject_when_known THEN "reject" ELSE "accept"
        /\ game_names = <<>> => At("game-policy") = {} /\ reject_when_known
    BY <2>1, <2>2 DEF GamesRead
  <2>4. Listed = ToSet(game_names)
    BY <2>3 DEF Listed, GamesOf
  <2>5. game_names \in Tables /\ game_names \in Seq(Value) /\ reject_when_known \in BOOLEAN
        /\ DOMAIN game_names = 1 .. Len(game_names) /\ Len(game_names) \in Nat
    BY <2>1 DEF IsTyped, TypeOK
  <2> DEFINE f == Game_Find(game_names, game)
  <2>6. f \in Findings(game_names, game)
    BY <2>5, GameFindIs
  <2> HIDE DEF f
  <2>7. f.known \in BOOLEAN /\ (f.known <=> game \in ToSet(game_names))
    <3>1. /\ f.known \in BOOLEAN /\ f.index \in 0 .. Len(game_names)
          /\ f.known => f.index < Len(game_names) /\ game_names[f.index + 1] = game
          /\ ~f.known => /\ \A m \in 1 .. f.index : Order[game_names[m]] < Order[game]
                         /\ \A m \in f.index + 1 .. Len(game_names) : Order[game] < Order[game_names[m]]
      BY <2>5, <2>6 DEF Findings, Tables
    <3>2. f.known => game \in ToSet(game_names)
      <4>1. f.known => f.index + 1 \in 1 .. Len(game_names)
        BY <2>5, <3>1
      <4> QED  BY <2>5, <3>1, <4>1 DEF ToSet
    <3>3. ASSUME ~f.known, game \in ToSet(game_names) PROVE FALSE
      <4>1. PICK m \in 1 .. Len(game_names) : game_names[m] = game
        BY <2>5, <3>3 DEF ToSet
      <4>2. Order[game] \in Int
        BY OrderAssumption
      <4>3. m \in 1 .. f.index \/ m \in f.index + 1 .. Len(game_names)
        BY <2>5, <3>1
      <4>4. Order[game] < Order[game]
        BY <3>1, <3>3, <4>1, <4>3
      <4> QED  BY <4>2, <4>4
    <3> QED  BY <3>1, <3>2, <3>3
  <2>8. Game_IsAccepted(game_names, reject_when_known, game) <=> (game \in Listed <=> ~reject_when_known)
    BY <2>4, <2>5, <2>7 DEF Game_IsAccepted, f
  <2>9. CASE At("game-policy") = {}
    <3>1. game_names = <<>>
      <4>1. ToSet(game_names) = {}
        BY <2>3, <2>9 DEF GamesOf
      <4>2. Len(game_names) = 0
        <5>1. Len(game_names) > 0 => 1 \in DOMAIN game_names
          BY <2>5
        <5>2. Len(game_names) > 0 => game_names[1] \in ToSet(game_names)
          BY <5>1 DEF ToSet
        <5> QED  BY <2>5, <4>1, <5>2
      <4> QED  BY <2>5, <4>2
    <3>2. reject_when_known /\ game \notin Listed
      BY <2>3, <2>4, <3>1 DEF ToSet
    <3> QED  BY <2>8, <2>9, <3>2
  <2>10. CASE At("game-policy") # {}
    <3>1. \A i \in At("game-policy") : argv[i + 1].text = "accept" <=> ~reject_when_known
      BY <2>3, <2>5
    <3> QED  BY <2>8, <2>10, <3>1
  <2> QED  BY <2>9, <2>10
<1> QED  BY <1>1, GamesInit, GamesNext, PTL DEF Spec

-----------------------------------------------------------------------------
(* The mappings                                                            *)

(* Each --map that is read has one element of the list.                    *)
Collected ==
  \E from \in [1 .. Len(addrmaps) -> ReadOf("map")] :
    /\ \A k \in 1 .. Len(addrmaps) : addrmaps[k] = Source(from[k])
    /\ \A k, m \in 1 .. Len(addrmaps) : from[k] = from[m] => k = m
    /\ \A i \in ReadOf("map") : \E k \in 1 .. Len(addrmaps) : from[k] = i

(* The sorted list holds the resolved mappings, no two with one source.    *)
Sorted ==
  /\ addrmaps \in MapTables
  /\ ToSet(addrmaps) = {Declared(i) : i \in At("map")}
  /\ \A i, j \in At("map") : Declared(i).from = Declared(j).from => i = j

MapsRead == IF phase \in {"options", "mappings"} THEN Collected ELSE Sorted

(* A new element for a new option.                                         *)
LEMMA CollectedMore ==
  ASSUME IsTyped, Plain, Collected, ReadMap
  PROVE  Collected'
<1>1. Reads /\ argv' = argv /\ addrmaps \in Seq(Addrmap)
  BY DEF IsTyped, TypeOK, Reads, ReadMap
<1> DEFINE R == ReadOf("map")
           n == Len(addrmaps)
<1>2. /\ Is("map") /\ ind' = NextOption
      /\ addrmaps' = <<NewAddrmap(MappingOf[Params[1]][1], MappingOf[Params[1]][2])>> \o addrmaps
      /\ Params[1] \in DOMAIN MappingOf
  BY DEF ReadMap
<1>3. Params[1] = Text(ind)
  <2>1. Params # <<>>
    BY <1>1, <1>2, OptionIs DEF MinParams
  <2> QED  BY <1>1, <1>2, <2>1, TextIs
<1>4. Source(ind) \in Addrmap /\ addrmaps' = <<Source(ind)>> \o addrmaps
  <2>1. MappingOf[Params[1]] \in Value \X Value
    BY <1>2, StartupAssumption
  <2>2. Source(ind) = NewAddrmap(MappingOf[Params[1]][1], MappingOf[Params[1]][2])
    BY <1>3 DEF Source
  <2>3. Source(ind) \in Addrmap
    BY <2>1, <2>2 DEF NewAddrmap, Addrmap, Unresolved, Endpoint
  <2> QED  BY <1>2, <2>2, <2>3
<1>5. R' = R \cup {ind} /\ ind \notin R
  <2>1. "map" \in Option
    BY DEF Option
  <2>2. R' = R \cup {ind}
    BY <1>1, <1>2, <2>1, OptionRead
  <2>3. ind \in Nat
    BY DEF IsTyped, TypeOK
  <2> QED  BY <2>2, <2>3 DEF ReadOf
<1>6. PICK from \in [1 .. n -> R] :
        /\ \A k \in 1 .. n : addrmaps[k] = Source(from[k])
        /\ \A k, m \in 1 .. n : from[k] = from[m] => k = m
        /\ \A i \in R : \E k \in 1 .. n : from[k] = i
  BY DEF Collected
<1>7. n \in Nat
  BY <1>1
<1>8. /\ Len(addrmaps') = n + 1 /\ addrmaps'[1] = Source(ind)
      /\ \A k \in 2 .. n + 1 : addrmaps'[k] = addrmaps[k - 1]
  <2> HIDE DEF n
  <2>1. <<Source(ind)>> \in Seq(Addrmap) /\ Len(<<Source(ind)>>) = 1 /\ <<Source(ind)>>[1] = Source(ind)
    BY <1>4
  <2> DEFINE s == <<Source(ind)>>
  <2> HIDE DEF s
  <2>2. s \in Seq(Addrmap) /\ Len(s) = 1 /\ s[1] = Source(ind) /\ addrmaps' = s \o addrmaps /\ n = Len(addrmaps)
    BY <1>4, <2>1 DEF s, n
  <2>3. /\ Len(s \o addrmaps) = Len(s) + Len(addrmaps)
        /\ \A k \in 1 .. Len(s) + Len(addrmaps) :
             (s \o addrmaps)[k] = IF k <= Len(s) THEN s[k] ELSE addrmaps[k - Len(s)]
    BY <1>1, <2>2, ConcatProperties
  <2> QED  BY <1>7, <2>2, <2>3
<1>9. \A k \in 2 .. n + 1 : k - 1 \in 1 .. n /\ k # 1
  BY <1>7
<1>10. \A k \in 1 .. n + 1 : k = 1 \/ k \in 2 .. n + 1
  BY <1>7
<1>11. PICK more \in [1 .. n + 1 -> R'] :
         more[1] = ind /\ \A k \in 2 .. n + 1 : more[k] = from[k - 1] /\ more[k] \in R
  <2> DEFINE new == [k \in 1 .. n + 1 |-> IF k = 1 THEN ind ELSE from[k - 1]]
  <2>1. ASSUME NEW k \in 2 .. n + 1 PROVE new[k] = from[k - 1] /\ from[k - 1] \in R
    BY <1>7, <1>9
  <2>2. 1 \in 1 .. n + 1
    BY <1>7
  <2>3. new \in [1 .. n + 1 -> R'] /\ new[1] = ind
    BY <1>5, <1>10, <2>1, <2>2
  <2> HIDE DEF new
  <2> QED  BY <2>1, <2>3
<1> HIDE DEF R, n
<1>12. \A k \in 1 .. n + 1 : addrmaps'[k] = Source(more[k])
  BY <1>6, <1>8, <1>9, <1>10, <1>11
<1>13. ASSUME NEW k \in 1 .. n + 1, NEW m \in 1 .. n + 1, more[k] = more[m] PROVE k = m
  <2>1. k = 1 => m = 1
    BY <1>5, <1>10, <1>11, <1>13
  <2>2. m = 1 => k = 1
    BY <1>5, <1>10, <1>11, <1>13
  <2>3. CASE k # 1 /\ m # 1
    <3>1. k \in 2 .. n + 1 /\ m \in 2 .. n + 1
      BY <1>10, <2>3
    <3>2. k - 1 \in 1 .. n /\ m - 1 \in 1 .. n /\ from[k - 1] = from[m - 1]
      BY <1>9, <1>11, <1>13, <3>1
    <3>3. k - 1 = m - 1
      BY <1>6, <3>2
    <3> QED  BY <3>1, <3>3
  <2> QED  BY <2>1, <2>2, <2>3
<1>14. ASSUME NEW i \in R' PROVE \E k \in 1 .. n + 1 : more[k] = i
  <2>1. CASE i = ind
    <3>1. 1 \in 1 .. n + 1
      BY <1>7
    <3> QED  BY <1>11, <2>1, <3>1
  <2>2. CASE i \in R
    <3>1. PICK k \in 1 .. n : from[k] = i
      BY <1>6, <2>2
    <3>2. k + 1 \in 2 .. n + 1 /\ k + 1 \in 1 .. n + 1 /\ (k + 1) - 1 = k
      BY <1>7
    <3> QED  BY <1>11, <3>1, <3>2
  <2> QED  BY <1>5, <2>1, <2>2
<1>15. \A k \in 1 .. n + 1 : addrmaps'[k] = Source(more[k])'
  <2>1. \A i : Source(i)' = Source(i)
    BY <1>1, SameLine
  <2> QED  BY <1>12, <2>1
<1>16. Len(addrmaps') = n + 1 /\ R' = ReadOf("map")'
  BY <1>8 DEF R
<1> QED  BY <1>11, <1>13, <1>14, <1>15, <1>16 DEF Collected

(* The resolution sorts the elements.                                      *)
LEMMA MapsResolved ==
  ASSUME IsTyped, Plain, Collected, ReadOf("map") = At("map"),
         Sv_ResolveAddressMappings, phase' = "addresses"
  PROVE  Sorted'
<1> DEFINE n == Len(addrmaps)
           list == [k \in DOMAIN addrmaps |-> Resolved(addrmaps[k])]
           result == InsertAllAddrmaps(list)
<1>1. addrmaps \in Seq(Addrmap) /\ n \in Nat /\ DOMAIN addrmaps = 1 .. n /\ argv' = argv
  BY DEF IsTyped, TypeOK, Sv_ResolveAddressMappings
<1>2. ~\E k \in DOMAIN addrmaps : ~Resolves(addrmaps[k])
  BY DEF Sv_ResolveAddressMappings, Fail
<1>3. result.ok /\ addrmaps' = result.maps
  BY <1>2 DEF Sv_ResolveAddressMappings, Fail
<1>4. ASSUME NEW k \in 1 .. n PROVE Resolved(addrmaps[k]) \in Addrmap
  <2>1. addrmaps[k] \in Addrmap /\ Resolves(addrmaps[k])
    BY <1>1, <1>2
  <2>2. ResolveIPv4[addrmaps[k].from_string] \in Endpoint /\ ResolveIPv4[addrmaps[k].to_string] \in Endpoint
    BY <2>1, StartupAssumption DEF Resolves
  <2> QED  BY <2>1, <2>2 DEF Resolved, Addrmap
<1>5. list \in Seq(Addrmap) /\ Len(list) = n /\ DOMAIN list = 1 .. n /\ \A k \in 1 .. n : list[k] = Resolved(addrmaps[k])
  BY <1>1, <1>4
<1> HIDE DEF list, n
<1>6. result \in Sorting(list)
  BY <1>5, InsertAllIs
<1> HIDE DEF result
<1>7. /\ addrmaps' \in Seq(Addrmap) /\ SortedMaps(addrmaps')
      /\ ToSet(addrmaps') = ToSet(list)
      /\ \A m, k \in 1 .. n : list[m].from = list[k].from => m = k
  BY <1>3, <1>5, <1>6 DEF Sorting, Results
<1>8. PICK from \in [1 .. n -> At("map")] :
        /\ \A k \in 1 .. n : addrmaps[k] = Source(from[k])
        /\ \A i \in At("map") : \E k \in 1 .. n : from[k] = i
  BY DEF Collected, n
<1>9. \A k \in 1 .. n : list[k] = Declared(from[k])
  BY <1>5, <1>8 DEF Declared, Source
<1>10. ToSet(list) = {Declared(i) : i \in At("map")}
  <2>1. ASSUME NEW k \in 1 .. n PROVE list[k] \in {Declared(i) : i \in At("map")}
    BY <1>8, <1>9
  <2>2. ASSUME NEW i \in At("map") PROVE Declared(i) \in ToSet(list)
    <3>1. PICK k \in 1 .. n : from[k] = i
      BY <1>8
    <3> QED  BY <1>5, <1>9, <3>1 DEF ToSet
  <2>3. ToSet(list) = {list[k] : k \in 1 .. n}
    BY <1>5 DEF ToSet
  <2> QED  BY <2>1, <2>2, <2>3
<1>11. ASSUME NEW i \in At("map"), NEW j \in At("map"), Declared(i).from = Declared(j).from PROVE i = j
  <2>1. PICK k \in 1 .. n : from[k] = i
    BY <1>8
  <2>2. PICK m \in 1 .. n : from[m] = j
    BY <1>8
  <2>3. list[k].from = list[m].from
    BY <1>9, <1>11, <2>1, <2>2
  <2>4. k = m
    BY <1>7, <2>3
  <2> QED  BY <2>1, <2>2, <2>4
<1>12. At("map")' = At("map") /\ \A i : Declared(i)' = Declared(i)
  BY <1>1, SameLine
<1>13. addrmaps' \in MapTables
  BY <1>7 DEF MapTables
<1>14. ToSet(addrmaps') = {Declared(i)' : i \in At("map")'}
  BY <1>7, <1>10, <1>12
<1>15. \A i, j \in At("map")' : Declared(i)'.from = Declared(j)'.from => i = j
  BY <1>11, <1>12
<1>16. MapTables' = MapTables
  BY DEF MapTables, SortedMaps
<1> QED  BY <1>13, <1>14, <1>15 DEF Sorted

(* A step that leaves the list and the command line alone.                 *)
LEMMA MapsSame ==
  ASSUME argv' = argv, addrmaps' = addrmaps
  PROVE  /\ ReadOf("map")' = ReadOf("map") /\ Collected => Collected'
         /\ Sorted => Sorted'
<1>1. At("map")' = At("map") /\ \A i : Declared(i)' = Declared(i) /\ Source(i)' = Source(i)
  BY SameLine
<1>2. Sorted => Sorted'
  BY <1>1 DEF Sorted
<1>3. ReadOf("map")' = ReadOf("map") /\ Collected => Collected'
  BY <1>1 DEF Collected
<1> QED  BY <1>2, <1>3

(* A step keeps what is read of the mappings.                              *)
LEMMA MapsKept ==
  ASSUME IsTyped, Cursor, [Next]_vars, Going', Plain, MapsRead
  PROVE  MapsRead'
<1>1. Reads /\ argv' = argv /\ Going
  BY StepIs DEF IsTyped, TypeOK, Reads
<1>2. \A p \in {"addresses", "security", "sockets", "running"} : p \notin {"options", "mappings"}
  OBVIOUS
<1>3. ASSUME NEW option, option # "map", Is(option), Attached = 0 \/ option # "game-policy", ind' = NextOption
      PROVE  ReadOf("map")' = ReadOf("map")
  <2>1. "map" \in Option
    BY DEF Option
  <2> QED  BY <1>1, <1>3, <2>1, OptionRead
<1>4. CASE ReadMap
  <2>1. phase = "options" /\ phase' = "options"
    BY <1>4 DEF ReadMap, Is, HasOption
  <2> QED  BY <1>4, <2>1, CollectedMore DEF MapsRead
<1>5. ASSUME phase = "options", phase' = phase, ReadOf("map")' = ReadOf("map"), addrmaps' = addrmaps PROVE MapsRead'
  BY <1>1, <1>5, MapsSame DEF MapsRead
<1>6. CASE phase = "options" /\ ReadPolicy
  BY <1>3, <1>5, <1>6 DEF ReadPolicy
<1>7. CASE phase = "options" /\ ReadListen
  BY <1>3, <1>5, <1>7 DEF ReadListen
<1>8. ASSUME phase = "options", NEW option, ReadSetting(option) PROVE MapsRead'
  <2>1. option # "map" /\ option # "game-policy"
    BY <1>8 DEF ReadSetting, Flag, Setting
  <2> QED  BY <1>3, <1>5, <1>8, <2>1 DEF ReadSetting
<1>9. CASE SameReading
  <2>1. ReadOf("map")' = ReadOf("map")
    BY <1>9 DEF SameReading, ReadOf, At
  <2>2. CASE OptionsEnd
    <3>1. phase \in {"options", "mappings"} /\ phase' \in {"options", "mappings"} /\ addrmaps' = addrmaps
      BY <2>2 DEF OptionsEnd, options
    <3> QED  BY <1>1, <2>1, <3>1, MapsSame DEF MapsRead
  <2>3. CASE Sv_ResolveAddressMappings /\ phase' = "addresses"
    <3>1. phase = "mappings"
      BY <2>3 DEF Sv_ResolveAddressMappings
    <3>2. ReadOf("map") = At("map")
      BY <1>1, <3>1, AllRead
    <3> QED  BY <2>3, <3>1, <3>2, MapsResolved DEF MapsRead
  <2>4. CASE Sys_ResolveListenAddresses /\ phase' = "security"
    <3>1. phase = "addresses" /\ addrmaps' = addrmaps
      BY <2>4 DEF Sys_ResolveListenAddresses, options
    <3> QED  BY <1>1, <2>4, <3>1, MapsSame DEF MapsRead
  <2>5. CASE Sys_SecurityInit
    <3>1. phase = "security" /\ phase' = "sockets" /\ addrmaps' = addrmaps
      BY <2>5 DEF Sys_SecurityInit, options
    <3> QED  BY <1>1, <3>1, MapsSame DEF MapsRead
  <2>6. CASE OpenSocket \/ DropOptional \/ (SocketsEnd /\ phase' = "running")
    <3>1. phase = "sockets" /\ phase' \in {"sockets", "running"} /\ addrmaps' = addrmaps
      BY <2>6 DEF OpenSocket, DropOptional, SocketsEnd, HasSocket, options
    <3> QED  BY <1>1, <3>1, MapsSame DEF MapsRead
  <2>7. CASE UNCHANGED vars
    <3>1. phase' = phase /\ addrmaps' = addrmaps
      BY <2>7 DEF vars, options
    <3> QED  BY <1>1, <2>1, <3>1, MapsSame DEF MapsRead
  <2>8. ~(phase = "options" /\ (ReadPolicy \/ ReadListen \/ ReadMap \/ \E option : ReadSetting(option)))
        \/ MapsRead'
    BY <1>4, <1>6, <1>7, <1>8
  <2> QED  BY <2>2, <2>3, <2>4, <2>5, <2>6, <2>7, <2>8, StepIs
<1> QED  BY <1>4, <1>6, <1>7, <1>8, <1>9, StepIs

\* The invariant of the mappings.
MapsInv == IsTyped /\ Cursor /\ (Going /\ Plain => MapsRead)

(* It holds at the start.                                                  *)
LEMMA MapsInit == Init => MapsInv
<1> SUFFICES ASSUME Init PROVE MapsInv
  OBVIOUS
<1>1. IsTyped /\ Cursor
  BY InitTyped DEF Init, Cursor
<1>2. ReadOf("map") = {}
  <2>1. ind = 1 /\ DOMAIN argv = 1 .. Len(argv)
    BY <1>1 DEF Init, IsTyped, TypeOK
  <2> QED  BY <2>1 DEF ReadOf, At
<1>3. Len(addrmaps) = 0 /\ phase = "options"
  BY DEF Init
<1>4. Collected
  <2>1. [k \in 1 .. 0 |-> 0] \in [1 .. 0 -> {}]
    OBVIOUS
  <2>2. 1 .. 0 = {}
    OBVIOUS
  <2> QED  BY <1>2, <1>3, <2>1, <2>2 DEF Collected
<1> QED  BY <1>1, <1>3, <1>4 DEF MapsInv, MapsRead

(* A step keeps it.                                                        *)
LEMMA MapsNext == MapsInv /\ [Next]_vars => MapsInv'
<1> SUFFICES ASSUME MapsInv, [Next]_vars PROVE MapsInv'
  OBVIOUS
<1>1. IsTyped /\ Cursor /\ (Going /\ Plain => MapsRead)
  BY DEF MapsInv
<1>2. IsTyped' /\ Cursor'
  BY <1>1, NextTyped, CursorKept
<1>3. ASSUME Going', Plain' PROVE MapsRead'
  <2>1. Going /\ Plain
    BY <1>1, <1>3, StepIs, SameLine
  <2> QED  BY <1>1, <1>3, <2>1, MapsKept
<1> QED  BY <1>2, <1>3 DEF MapsInv

(* A master that runs finds the mapping of every address in its sorted     *)
(* list (servers.c:547): the exact one, else the one for all ports of the  *)
(* address, else none; and no address has two.                             *)
THEOREM MappingCorrect == Spec => []MappingAsDeclared
<1>1. MapsInv => MappingAsDeclared
  <2> SUFFICES ASSUME MapsInv, phase = "running", Plain PROVE MappingAsDeclared
    BY DEF MappingAsDeclared
  <2>1. Sorted
    BY DEF MapsInv, MapsRead, Going
  <2>2. addrmaps \in MapTables /\ addrmaps \in Seq(Addrmap) /\ ToSet(addrmaps) = {Declared(i) : i \in At("map")}
        /\ DOMAIN addrmaps = 1 .. Len(addrmaps) /\ Len(addrmaps) \in Nat
    BY <2>1 DEF Sorted, MapTables
  <2>3. ASSUME NEW addr \in Lookups
        PROVE  LET found == Sv_GetAddrmap(addrmaps, addr)
                   exact == DeclaredFrom(addr)
                   general == DeclaredFrom([addr EXCEPT !.port = 0])
               IN  IF exact \cup general = {} THEN found = 0
                   ELSE found # 0 /\ addrmaps[found] \in IF exact # {} THEN exact ELSE general
    <3> DEFINE n == Len(addrmaps)
               found == Sv_GetAddrmap(addrmaps, addr)
               other == [addr EXCEPT !.port = 0]
               Has(from) == \E m \in 1 .. n : addrmaps[m].from = from
    <3>1. addr \in Endpoint
      <4>1. \A e \in Known : e \in Endpoint
        BY StartupAssumption DEF Known
      <4> QED  BY <4>1 DEF Lookups, Endpoint
    <3>2. found \in Lookup(addrmaps, addr)
      BY <2>2, <3>1, GetAddrmapIs
    <3> HIDE DEF found
    <3>3. /\ found \in 0 .. n
          /\ Has(addr) => found # 0 /\ addrmaps[found].from = addr
          /\ ~Has(addr) /\ Has(other) => found # 0 /\ addrmaps[found].from = other
          /\ ~Has(addr) /\ ~Has(other) => found = 0
      BY <3>2 DEF Lookup
    <3>4. ASSUME NEW from PROVE Has(from) <=> DeclaredFrom(from) # {}
      <4>1. Has(from) <=> \E e \in ToSet(addrmaps) : e.from = from
        BY <2>2 DEF ToSet
      <4>2. (\E e \in ToSet(addrmaps) : e.from = from) <=> \E i \in At("map") : Declared(i).from = from
        BY <2>2
      <4> QED  BY <4>1, <4>2 DEF DeclaredFrom
    <3>5. ASSUME found # 0, NEW from, addrmaps[found].from = from PROVE addrmaps[found] \in DeclaredFrom(from)
      <4>1. addrmaps[found] \in ToSet(addrmaps)
        <5>1. found \in DOMAIN addrmaps
          BY <2>2, <3>3, <3>5
        <5> QED  BY <5>1 DEF ToSet
      <4>2. PICK i \in At("map") : addrmaps[found] = Declared(i)
        BY <2>2, <4>1
      <4> QED  BY <3>5, <4>2 DEF DeclaredFrom
    <3>6. CASE DeclaredFrom(addr) # {}
      BY <3>3, <3>4, <3>5, <3>6 DEF found
    <3>7. CASE DeclaredFrom(addr) = {} /\ DeclaredFrom(other) # {}
      BY <3>3, <3>4, <3>5, <3>7 DEF found
    <3>8. CASE DeclaredFrom(addr) = {} /\ DeclaredFrom(other) = {}
      BY <3>3, <3>4, <3>8 DEF found
    <3> QED  BY <3>6, <3>7, <3>8
  <2> QED  BY <2>1, <2>3 DEF MappingAsDeclared, Sorted
<1> QED  BY <1>1, MapsInit, MapsNext, PTL DEF Spec

-----------------------------------------------------------------------------
(* The sockets                                                             *)

(* The port that is set is the one of the last --port that is read.        *)
PortRead ==
  IF ReadOf("port") = {} THEN settings["port"] = NoName
  ELSE settings["port"] \in Value /\ settings["port"] = Text(LastOf(ReadOf("port")))

(* A step keeps what is read of the port.                                  *)
LEMMA PortKept ==
  ASSUME IsTyped, [Next]_vars, Going', Plain, PortRead
  PROVE  PortRead'
<1> DEFINE R == ReadOf("port")
<1>1. Reads /\ argv' = argv /\ R \subseteq Nat
  BY StepIs DEF IsTyped, TypeOK, Reads, ReadOf, At
<1>2. ASSUME R' = R, settings'["port"] = settings["port"] PROVE PortRead'
  <2>1. LastOf(R)' = LastOf(R)
    BY <1>2 DEF LastOf
  <2>2. Text(LastOf(R))' = Text(LastOf(R))
    <3> DEFINE last == LastOf(R)
    <3>1. last' = last
      BY <2>1
    <3>2. Text(last)' = Text(last)
      <4> HIDE DEF last
      <4> QED  BY <1>1, <3>1 DEF Text
    <3> QED  BY <3>2
  <2> QED  BY <1>2, <2>2 DEF PortRead
<1>3. ASSUME NEW option, option # "port", Is(option), Attached = 0 \/ option # "game-policy", ind' = NextOption
      PROVE  R' = R
  <2>1. "port" \in Option
    BY DEF Option, Setting
  <2> QED  BY <1>1, <1>3, <2>1, OptionRead
<1>4. CASE SameReading
  <2>1. R' = R /\ settings' = settings
    BY <1>4 DEF SameReading, ReadOf, At
  <2> QED  BY <1>2, <2>1
<1>5. CASE ReadPolicy
  BY <1>2, <1>3, <1>5 DEF ReadPolicy
<1>6. CASE ReadListen
  BY <1>2, <1>3, <1>6 DEF ReadListen
<1>7. CASE ReadMap
  BY <1>2, <1>3, <1>7 DEF ReadMap
<1>8. ASSUME NEW option, ReadSetting(option), option # "port" PROVE PortRead'
  <2>1. option # "game-policy"
    BY <1>8 DEF ReadSetting, Flag, Setting
  <2>2. settings'["port"] = settings["port"]
    <3>1. "port" \in DOMAIN settings
      BY DEF IsTyped, Settings, Setting
    <3> QED  BY <1>8, <3>1 DEF ReadSetting
  <2> QED  BY <1>2, <1>3, <1>8, <2>1, <2>2 DEF ReadSetting
<1>9. CASE ReadSetting("port")
  <2>1. Is("port") /\ ind' = NextOption /\ "port" \in Option
    BY <1>9 DEF ReadSetting, Option, Setting
  <2>2. R' = R \cup {ind} /\ ind \in Nat
    BY <1>1, <2>1, OptionRead DEF Reads
  <2>3. Params # <<>> /\ Params \in Seq(Value)
    BY <1>1, <2>1, OptionIs DEF MinParams, Setting
  <2>4. Params[1] = Text(ind) /\ Params[1] \in Value
    BY <1>1, <2>1, <2>3, TextIs
  <2>5. settings'["port"] = Params[1]
    <3>1. "port" \in DOMAIN settings
      BY DEF IsTyped, Settings, Setting
    <3> QED  BY <1>9, <2>3, <3>1 DEF ReadSetting
  <2>6. \A j \in R : j < ind
    BY DEF ReadOf
  <2>7. LastOf(R') = ind
    <3>1. ind \in R' /\ \A j \in R' : j <= ind
      BY <1>1, <2>2, <2>6
    <3>2. ASSUME NEW i \in R', \A j \in R' : j <= i PROVE i = ind
      BY <1>1, <2>2, <3>1, <3>2
    <3> HIDE DEF R
    <3> QED  BY <3>1, <3>2 DEF LastOf
  <2>8. LastOf(R)' = ind /\ ind = LastOf(R')
    BY <2>7 DEF LastOf
  <2>9. Text(LastOf(R))' = Text(ind)
    <3> DEFINE last == LastOf(R)
    <3>1. last' = ind
      BY <2>8
    <3>2. Text(last)' = Text(ind)
      <4> HIDE DEF last
      <4> QED  BY <1>1, <3>1 DEF Text
    <3> QED  BY <3>2
  <2> QED  BY <2>2, <2>4, <2>5, <2>9 DEF PortRead
<1> QED  BY <1>4, <1>5, <1>6, <1>7, <1>8, <1>9, StepIs

(* At the end of the options it is the port of the last --port.            *)
LEMMA PortIsLast ==
  ASSUME IsTyped, Cursor, Going, phase # "options", PortRead
  PROVE  DefaultPort = LastPort
<1>1. ReadOf("port") = At("port")
  BY AllRead
<1>2. CASE At("port") = {}
  BY <1>1, <1>2 DEF PortRead, DefaultPort, LastPort
<1>3. CASE At("port") # {}
  <2>1. settings["port"] # NoName /\ settings["port"] = Text(LastOf(At("port")))
    BY <1>1, <1>3, StartupAssumption DEF PortRead
  <2> QED  BY <1>3, <2>1 DEF DefaultPort, LastPort, LastOf
<1> QED  BY <1>2, <1>3

(* Before the resolution: the first records have the names that are read,  *)
(* none is optional.                                                       *)
Named ==
  /\ \A k \in 0 .. nb_sockets - 1 : ~listen_sockets[k].optional
  /\ \A i \in ReadOf("listen") : \E k \in 0 .. nb_sockets - 1 : listen_sockets[k].name = Text(i)
  /\ ReadOf("listen") = {} => nb_sockets = 0
  /\ sock_ind = 0

\* The port of a --listen.
PortFor(i) == LET given == ResolveAny[Text(i)].port IN IF given = 0 THEN LastPort ELSE given

(* After it, with addresses on the command line: each has a record, none   *)
(* is optional.                                                            *)
Addressed ==
  /\ \A k \in 0 .. nb_sockets - 1 : ~listen_sockets[k].optional
  /\ \A i \in At("listen") :
       \E k \in 0 .. nb_sockets - 1 : listen_sockets[k].name = Text(i) /\ listen_sockets[k].port = PortFor(i)

(* After it, without: the record of a family is dropped only when the      *)
(* system does not support it.                                             *)
Defaulted ==
  /\ listen_sockets[0].family = "AF_INET" /\ listen_sockets[0].port = LastPort
  /\ listen_sockets[1].family = "AF_INET6" /\ listen_sockets[1].port = LastPort
  /\ nb_sockets <= 2
  /\ nb_sockets = 1 /\ sock_ind = 0 => "AF_INET" \notin families
  /\ nb_sockets = 1 /\ sock_ind = 1 => "AF_INET6" \notin families

\* The sockets before the cursor are open.
Opening ==
  /\ sock_ind <= nb_sockets
  /\ \A k \in 0 .. sock_ind - 1 : listen_sockets[k].open
  /\ phase = "running" => nb_sockets > 0 /\ sock_ind >= nb_sockets

ListensRead ==
  /\ PortRead
  /\ IF phase \in {"options", "mappings", "addresses"} THEN Named
     ELSE Opening /\ (IF At("listen") = {} THEN Defaulted ELSE Addressed)

(* A step that leaves the sockets alone.                                   *)
LEMMA SocketsSame ==
  ASSUME argv' = argv, families' = families, UNCHANGED <<sockets, sock_ind>>
  PROVE  /\ Named /\ ReadOf("listen")' = ReadOf("listen") => Named'
         /\ Addressed => Addressed'
         /\ Defaulted => Defaulted'
<1>1. /\ At("listen")' = At("listen") /\ LastPort' = LastPort
      /\ \A i : Text(i)' = Text(i)
  BY SameLine
<1>2. \A i : PortFor(i)' = PortFor(i)
  BY <1>1 DEF PortFor
<1>3. nb_sockets' = nb_sockets /\ listen_sockets' = listen_sockets /\ sock_ind' = sock_ind
  BY DEF sockets
<1>4. Named /\ ReadOf("listen")' = ReadOf("listen") => Named'
  BY <1>1, <1>3 DEF Named
<1>5. Addressed => Addressed'
  BY <1>1, <1>2, <1>3 DEF Addressed
<1>6. Defaulted => Defaulted'
  BY <1>1, <1>3 DEF Defaulted
<1> QED  BY <1>4, <1>5, <1>6

(* An accepted --listen has a record of its own.                           *)
LEMMA NamedMore ==
  ASSUME IsTyped, ReadListen, Plain, Named
  PROVE  Named'
<1> DEFINE R == ReadOf("listen")
           n == nb_sockets
           socks == listen_sockets
<1>1. /\ Reads /\ argv' = argv /\ n \in 0 .. 8 /\ socks \in [0 .. 7 -> Socket]
      /\ Is("listen") /\ n < 8 /\ ind' = NextOption /\ nb_sockets' = n + 1 /\ sock_ind' = sock_ind
      /\ listen_sockets' = [socks EXCEPT ![n] = NewSocket(Params[1])]
  BY DEF IsTyped, TypeOK, Reads, ReadListen, Room, MAX_LISTEN_SOCKETS
<1>2. R' = R \cup {ind}
  <2>1. "listen" \in Option
    BY DEF Option
  <2> QED  BY <1>1, <2>1, OptionRead
<1>3. Params[1] = Text(ind)
  <2>1. Params # <<>>
    BY <1>1, OptionIs DEF MinParams
  <2> QED  BY <1>1, <2>1, TextIs
<1>4. /\ listen_sockets'[n] = NewSocket(Text(ind))
      /\ \A k \in 0 .. n - 1 : listen_sockets'[k] = socks[k]
  <2>1. DOMAIN socks = 0 .. 7 /\ n \in 0 .. 7
    BY <1>1
  <2>2. \A k \in 0 .. n - 1 : k \in 0 .. 7 /\ k # n
    BY <1>1
  <2> QED  BY <1>1, <1>3, <2>1, <2>2
<1>5. \A k \in 0 .. nb_sockets' - 1 : k = n \/ k \in 0 .. n - 1
  BY <1>1
<1>6. n \in 0 .. nb_sockets' - 1 /\ \A k \in 0 .. n - 1 : k \in 0 .. nb_sockets' - 1
  BY <1>1
<1>7. \A i : Text(i)' = Text(i)
  BY <1>1, SameLine
<1>8. NewSocket(Text(ind)).name = Text(ind) /\ ~NewSocket(Text(ind)).optional
  BY DEF NewSocket
<1>9. \A k \in 0 .. nb_sockets' - 1 : ~listen_sockets'[k].optional
  BY <1>4, <1>5, <1>8 DEF Named
<1>10. ASSUME NEW i \in R' PROVE \E k \in 0 .. nb_sockets' - 1 : listen_sockets'[k].name = Text(i)'
  <2>1. CASE i = ind
    BY <1>4, <1>6, <1>7, <1>8, <2>1
  <2>2. CASE i \in R
    <3>1. PICK k \in 0 .. n - 1 : socks[k].name = Text(i)
      BY <2>2 DEF Named
    <3> QED  BY <1>4, <1>6, <1>7, <3>1
  <2> QED  BY <1>2, <2>1, <2>2
<1>11. R' # {} /\ sock_ind' = 0
  BY <1>1, <1>2 DEF Named
<1> QED  BY <1>9, <1>10, <1>11 DEF Named

(* The resolution gives the records their ports, or makes two records.     *)
LEMMA SocketsResolved ==
  ASSUME IsTyped, Cursor, phase = "addresses", PortRead, Named, Sys_ResolveListenAddresses, phase' = "security"
  PROVE  Opening' /\ (IF At("listen") = {} THEN Defaulted' ELSE Addressed')
<1> DEFINE n == nb_sockets
           socks == listen_sockets
<1>1. /\ Going /\ phase # "options" /\ argv' = argv /\ families' = families /\ sock_ind' = sock_ind
      /\ n \in 0 .. 8 /\ socks \in [0 .. 7 -> Socket] /\ sock_ind = 0
  BY DEF IsTyped, TypeOK, Sys_ResolveListenAddresses, Going, Named, MAX_LISTEN_SOCKETS
<1>2. DefaultPort = LastPort /\ ReadOf("listen") = At("listen")
  BY <1>1, PortIsLast, AllRead
<1>3. LastPort' = LastPort /\ At("listen")' = At("listen") /\ \A i : Text(i)' = Text(i)
  BY <1>1, SameLine
<1>4. \A i : PortFor(i)' = PortFor(i)
  BY <1>3 DEF PortFor
<1>5. nb_sockets' \in Nat => Opening'
  <2>1. 0 .. 0 - 1 = {}
    OBVIOUS
  <2> QED  BY <1>1, <2>1 DEF Opening
<1>6. CASE n = 0
  <2>1. listen_sockets' = [socks EXCEPT ![0] = DefaultSocket("AF_INET"), ![1] = DefaultSocket("AF_INET6")]
        /\ nb_sockets' = 2
    BY <1>6 DEF Sys_ResolveListenAddresses
  <2>2. At("listen") = {}
    <3>1. 0 .. n - 1 = {}
      BY <1>6
    <3> QED  BY <1>2, <3>1 DEF Named
  <2>3. listen_sockets'[0] = DefaultSocket("AF_INET") /\ listen_sockets'[1] = DefaultSocket("AF_INET6")
    BY <1>1, <2>1
  <2>4. \A family : DefaultSocket(family).family = family /\ DefaultSocket(family).port = LastPort
    BY <1>2 DEF DefaultSocket, NewSocket
  <2>5. Defaulted'
    BY <1>1, <1>3, <2>1, <2>3, <2>4 DEF Defaulted
  <2> QED  BY <1>5, <2>1, <2>2, <2>5
<1>7. CASE n # 0
  <2>1. /\ listen_sockets' = [i \in DOMAIN socks |-> IF i < n THEN WithAddress(socks[i]) ELSE socks[i]]
        /\ nb_sockets' = n
    BY <1>7 DEF Sys_ResolveListenAddresses, Fail
  <2>2. At("listen") # {}
    BY <1>2, <1>7 DEF Named
  <2>3. \A k \in 0 .. n - 1 : listen_sockets'[k] = WithAddress(socks[k])
    <3>1. \A k \in 0 .. n - 1 : k \in 0 .. 7 /\ k < n
      BY <1>1
    <3>2. DOMAIN socks = 0 .. 7
      BY <1>1
    <3> QED  BY <2>1, <3>1, <3>2
  <2>4. ASSUME NEW k \in 0 .. n - 1
        PROVE  /\ WithAddress(socks[k]).name = socks[k].name
               /\ WithAddress(socks[k]).optional = socks[k].optional
               /\ WithAddress(socks[k]).port = LET given == ResolveAny[socks[k].name].port
                                               IN  IF given = 0 THEN LastPort ELSE given
    <3>1. k \in 0 .. 7
      BY <1>1
    <3>2. socks[k] \in Socket
      BY <1>1, <3>1
    <3> QED  BY <1>2, <3>2 DEF WithAddress, Socket
  <2>5. ASSUME NEW i \in At("listen")
        PROVE  \E k \in 0 .. nb_sockets' - 1 : listen_sockets'[k].name = Text(i) /\ listen_sockets'[k].port = PortFor(i)
    <3>1. PICK k \in 0 .. n - 1 : socks[k].name = Text(i)
      BY <1>2 DEF Named
    <3>2. listen_sockets'[k].name = Text(i) /\ listen_sockets'[k].port = PortFor(i)
      BY <2>3, <2>4, <3>1 DEF PortFor
    <3> QED  BY <2>1, <3>2
  <2>6. \A k \in 0 .. nb_sockets' - 1 : ~listen_sockets'[k].optional
    BY <2>1, <2>3, <2>4 DEF Named
  <2>7. Addressed'
    BY <1>3, <1>4, <2>5, <2>6 DEF Addressed
  <2> QED  BY <1>1, <1>5, <2>1, <2>2, <2>7
<1> QED  BY <1>6, <1>7

(* Opening a socket changes nothing else of its record.                    *)
LEMMA SocketOpened ==
  ASSUME IsTyped, OpenSocket, Opening
  PROVE  Opening' /\ (Addressed => Addressed') /\ (Defaulted => Defaulted')
<1> DEFINE n == nb_sockets
           socks == listen_sockets
<1>1. /\ argv' = argv /\ families' = families /\ sock_ind' = sock_ind + 1 /\ nb_sockets' = n
      /\ phase = "sockets" /\ phase' = phase
      /\ n \in 0 .. 8 /\ sock_ind \in 0 .. n - 1 /\ socks \in [0 .. 7 -> Socket]
      /\ listen_sockets' = [socks EXCEPT ![sock_ind].open = TRUE] /\ socks[sock_ind].family \in families
  BY DEF IsTyped, TypeOK, OpenSocket, HasSocket, Current, Opened, MAX_LISTEN_SOCKETS
<1>2. LastPort' = LastPort /\ At("listen")' = At("listen") /\ \A i : Text(i)' = Text(i)
  BY <1>1, SameLine
<1>3. \A i : PortFor(i)' = PortFor(i)
  BY <1>2 DEF PortFor
<1>4. ASSUME NEW k \in 0 .. 7
      PROVE  /\ listen_sockets'[k].name = socks[k].name /\ listen_sockets'[k].family = socks[k].family
             /\ listen_sockets'[k].port = socks[k].port /\ listen_sockets'[k].optional = socks[k].optional
             /\ listen_sockets'[k].open = IF k = sock_ind THEN TRUE ELSE socks[k].open
  <2>1. socks[k] \in Socket /\ DOMAIN socks = 0 .. 7
    BY <1>1
  <2>2. listen_sockets'[k] = IF k = sock_ind THEN [socks[k] EXCEPT !.open = TRUE] ELSE socks[k]
    BY <1>1, <2>1
  <2> QED  BY <2>1, <2>2 DEF Socket
<1>5. \A k \in 0 .. n - 1 : k \in 0 .. 7
  BY <1>1
<1>6. Opening'
  <2>1. \A k \in 0 .. sock_ind' - 1 : k \in 0 .. 7 /\ (k = sock_ind \/ k \in 0 .. sock_ind - 1)
    BY <1>1
  <2>2. \A k \in 0 .. sock_ind' - 1 : listen_sockets'[k].open
    BY <1>4, <2>1 DEF Opening
  <2> QED  BY <1>1, <2>2 DEF Opening
<1>7. ASSUME Addressed PROVE Addressed'
  <2>1. \A k \in 0 .. nb_sockets' - 1 : ~listen_sockets'[k].optional
    BY <1>1, <1>4, <1>5, <1>7 DEF Addressed
  <2>2. ASSUME NEW i \in At("listen")
        PROVE  \E k \in 0 .. nb_sockets' - 1 : listen_sockets'[k].name = Text(i) /\ listen_sockets'[k].port = PortFor(i)
    <3>1. PICK k \in 0 .. n - 1 : socks[k].name = Text(i) /\ socks[k].port = PortFor(i)
      BY <1>7 DEF Addressed
    <3> QED  BY <1>1, <1>4, <1>5, <3>1
  <2> QED  BY <1>2, <1>3, <2>1, <2>2 DEF Addressed
<1>8. ASSUME Defaulted PROVE Defaulted'
  <2>1. 0 \in 0 .. 7 /\ 1 \in 0 .. 7
    OBVIOUS
  <2>2. ~(nb_sockets' = 1 /\ sock_ind' = 0)
    BY <1>1
  <2>3. nb_sockets' = 1 /\ sock_ind' = 1 => FALSE
    <3> SUFFICES ASSUME n = 1, sock_ind = 0 PROVE FALSE
      BY <1>1
    <3> QED  BY <1>1, <1>8 DEF Defaulted
  <2> QED  BY <1>1, <1>2, <1>4, <1>8, <2>1, <2>2, <2>3 DEF Defaulted
<1> QED  BY <1>6, <1>7, <1>8

(* Dropping a socket: it is one of the two records of the families, and    *)
(* no record moves.                                                        *)
LEMMA SocketDropped ==
  ASSUME IsTyped, DropOptional, Opening
  PROVE  Opening' /\ ~Addressed /\ (Defaulted => Defaulted')
<1> DEFINE n == nb_sockets
           socks == listen_sockets
<1>1. /\ argv' = argv /\ families' = families /\ sock_ind' = sock_ind /\ nb_sockets' = n - 1
      /\ phase = "sockets" /\ phase' = phase
      /\ n \in 0 .. 8 /\ sock_ind \in 0 .. n - 1 /\ socks \in [0 .. 7 -> Socket]
      /\ listen_sockets' = [i \in DOMAIN socks |->
                              IF i >= sock_ind /\ i < n - 2 THEN socks[i + 1] ELSE socks[i]]
      /\ socks[sock_ind].family \notin families /\ socks[sock_ind].optional
  BY DEF IsTyped, TypeOK, DropOptional, HasSocket, Current, MAX_LISTEN_SOCKETS
<1>2. LastPort' = LastPort
  BY <1>1, SameLine
<1>3. DOMAIN socks = 0 .. 7
  BY <1>1
<1>4. Opening'
  <2>1. ASSUME NEW k \in 0 .. sock_ind - 1 PROVE listen_sockets'[k] = socks[k]
    <3>1. k \in 0 .. 7 /\ ~(k >= sock_ind)
      BY <1>1
    <3> QED  BY <1>1, <1>3, <3>1
  <2>2. \A k \in 0 .. sock_ind' - 1 : listen_sockets'[k].open
    BY <1>1, <2>1 DEF Opening
  <2> QED  BY <1>1, <2>2 DEF Opening
<1>5. ~Addressed
  BY <1>1 DEF Addressed
<1>6. ASSUME Defaulted PROVE Defaulted'
  <2>1. n <= 2
    BY <1>6 DEF Defaulted
  <2>2. \A k \in 0 .. 1 : k \in 0 .. 7 /\ ~(k >= sock_ind /\ k < n - 2)
    BY <1>1, <2>1
  <2>3. listen_sockets'[0] = socks[0] /\ listen_sockets'[1] = socks[1]
    <3>1. \A k \in 0 .. 1 : listen_sockets'[k] = socks[k]
      BY <1>1, <1>3, <2>2
    <3> QED  BY <3>1
  <2>4. nb_sockets' = 1 => sock_ind \in 0 .. 1
    BY <1>1
  <2> QED  BY <1>1, <1>2, <1>6, <2>1, <2>3, <2>4 DEF Defaulted
<1> QED  BY <1>4, <1>5, <1>6

(* A step keeps what is read of the sockets.                               *)
LEMMA ListensKept ==
  ASSUME IsTyped, Cursor, [Next]_vars, Going', Plain, ListensRead
  PROVE  ListensRead'
<1>1. Reads /\ argv' = argv /\ families' = families /\ Going /\ PortRead /\ PortRead'
  BY StepIs, PortKept DEF IsTyped, TypeOK, Reads, ListensRead
<1>2. At("listen")' = At("listen")
  BY <1>1, SameLine
<1> DEFINE Early == {"options", "mappings", "addresses"}
<1>3. /\ phase \in Early => Named
      /\ phase \notin Early => Opening /\ (IF At("listen") = {} THEN Defaulted ELSE Addressed)
  BY DEF ListensRead
<1>4. /\ phase' \in Early /\ Named' => ListensRead'
      /\ phase' \notin Early /\ Opening' /\ (IF At("listen") = {} THEN Defaulted' ELSE Addressed') => ListensRead'
  BY <1>1, <1>2 DEF ListensRead
<1>5. \A p \in {"security", "sockets", "running"} : p \notin Early
  OBVIOUS
<1>6. ASSUME phase \in Early, phase' \in Early, ReadOf("listen")' = ReadOf("listen"),
             UNCHANGED <<sockets, sock_ind>>
      PROVE  ListensRead'
  BY <1>1, <1>3, <1>4, <1>6, SocketsSame
<1>7. ASSUME phase \notin Early, phase' \notin Early, UNCHANGED <<sockets, sock_ind>>,
             phase' = "running" => phase = "running" \/ (nb_sockets > 0 /\ sock_ind >= nb_sockets)
      PROVE  ListensRead'
  <2>1. Opening'
    BY <1>3, <1>7 DEF Opening, sockets
  <2> QED  BY <1>1, <1>3, <1>4, <1>7, <2>1, SocketsSame
<1>8. ASSUME NEW option, option # "listen", Is(option), Attached = 0 \/ option # "game-policy", ind' = NextOption
      PROVE  ReadOf("listen")' = ReadOf("listen")
  <2>1. "listen" \in Option
    BY DEF Option
  <2> QED  BY <1>1, <1>8, <2>1, OptionRead
<1>9. CASE phase = "options" /\ ReadListen
  <2>1. phase' = "options"
    BY <1>9 DEF ReadListen
  <2> QED  BY <1>3, <1>4, <1>9, <2>1, NamedMore
<1>10. CASE phase = "options" /\ ReadPolicy
  BY <1>6, <1>8, <1>10 DEF ReadPolicy
<1>11. CASE phase = "options" /\ ReadMap
  BY <1>6, <1>8, <1>11 DEF ReadMap
<1>12. ASSUME phase = "options", NEW option, ReadSetting(option) PROVE ListensRead'
  <2>1. option # "listen" /\ option # "game-policy"
    BY <1>12 DEF ReadSetting, Flag, Setting
  <2> QED  BY <1>6, <1>8, <1>12, <2>1 DEF ReadSetting
<1>13. CASE SameReading
  <2>1. ReadOf("listen")' = ReadOf("listen")
    BY <1>13 DEF SameReading, ReadOf, At
  <2>2. CASE OptionsEnd
    BY <1>6, <2>1, <2>2 DEF OptionsEnd
  <2>3. CASE Sv_ResolveAddressMappings /\ phase' = "addresses"
    BY <1>6, <2>1, <2>3 DEF Sv_ResolveAddressMappings
  <2>4. CASE Sys_ResolveListenAddresses /\ phase' = "security"
    <3>1. phase = "addresses"
      BY <2>4 DEF Sys_ResolveListenAddresses
    <3> QED  BY <1>1, <1>3, <1>4, <1>5, <2>4, <3>1, SocketsResolved
  <2>5. CASE Sys_SecurityInit
    BY <1>7, <2>5 DEF Sys_SecurityInit
  <2>6. CASE OpenSocket
    <3>1. phase = "sockets" /\ phase' = "sockets"
      BY <2>6 DEF OpenSocket, HasSocket
    <3> QED  BY <1>3, <1>4, <2>6, <3>1, SocketOpened
  <2>7. CASE DropOptional
    <3>1. phase = "sockets" /\ phase' = "sockets"
      BY <2>7 DEF DropOptional, HasSocket
    <3> QED  BY <1>3, <1>4, <2>7, <3>1, SocketDropped
  <2>8. CASE SocketsEnd /\ phase' = "running"
    <3>1. phase = "sockets" /\ sock_ind >= nb_sockets /\ ~(nb_sockets <= 0) /\ UNCHANGED <<sockets, sock_ind>>
      BY <2>8 DEF SocketsEnd, Fail
    <3>2. nb_sockets > 0
      BY <3>1 DEF IsTyped, TypeOK, MAX_LISTEN_SOCKETS
    <3> QED  BY <1>7, <2>8, <3>1, <3>2
  <2>9. CASE UNCHANGED vars
    <3>1. phase' = phase /\ UNCHANGED <<sockets, sock_ind>>
      BY <2>9 DEF vars
    <3> QED  BY <1>6, <1>7, <2>1, <3>1
  <2>10. ~(phase = "options" /\ (ReadPolicy \/ ReadListen \/ ReadMap \/ \E option : ReadSetting(option)))
         \/ ListensRead'
    BY <1>9, <1>10, <1>11, <1>12
  <2> QED  BY <2>2, <2>3, <2>4, <2>5, <2>6, <2>7, <2>8, <2>9, <2>10, StepIs
<1> QED  BY <1>9, <1>10, <1>11, <1>12, <1>13, StepIs

\* The invariant of the sockets.
ListensInv == IsTyped /\ Cursor /\ (Going /\ Plain => ListensRead)

(* It holds at the start.                                                  *)
LEMMA ListensInit == Init => ListensInv
<1> SUFFICES ASSUME Init PROVE ListensInv
  OBVIOUS
<1>1. IsTyped /\ Cursor
  BY InitTyped DEF Init, Cursor
<1>2. \A o : ReadOf(o) = {}
  <2>1. ind = 1 /\ DOMAIN argv = 1 .. Len(argv)
    BY <1>1 DEF Init, IsTyped, TypeOK
  <2> QED  BY <2>1 DEF ReadOf, At
<1>3. settings["port"] = NoName
  BY DEF Init, Setting
<1>4. Named
  BY <1>2 DEF Init, Named
<1>5. phase = "options"
  BY DEF Init
<1> QED  BY <1>1, <1>2, <1>3, <1>4, <1>5 DEF ListensInv, ListensRead, PortRead

(* A step keeps it.                                                        *)
LEMMA ListensNext == ListensInv /\ [Next]_vars => ListensInv'
<1> SUFFICES ASSUME ListensInv, [Next]_vars PROVE ListensInv'
  OBVIOUS
<1>1. IsTyped /\ Cursor /\ (Going /\ Plain => ListensRead)
  BY DEF ListensInv
<1>2. IsTyped' /\ Cursor'
  BY <1>1, NextTyped, CursorKept
<1>3. ASSUME Going', Plain' PROVE ListensRead'
  <2>1. Going /\ Plain
    BY <1>1, <1>3, StepIs, SameLine
  <2> QED  BY <1>1, <1>3, <2>1, ListensKept
<1> QED  BY <1>2, <1>3 DEF ListensInv

(* A master that runs listens on every address of its command line, or     *)
(* else on every family of the system, holds no record without a socket,   *)
(* and gives an address without a port the last --port (system.c:266).     *)
THEOREM ListensCorrect == Spec => []ListensAsDeclared
<1>1. ListensInv => ListensAsDeclared
  <2> SUFFICES ASSUME ListensInv, phase = "running", Plain PROVE ListensAsDeclared
    BY DEF ListensAsDeclared
  <2>1. /\ Opening /\ (IF At("listen") = {} THEN Defaulted ELSE Addressed)
        /\ nb_sockets \in 0 .. 8 /\ sock_ind \in 0 .. 8 /\ DOMAIN listen_sockets = 0 .. 7
    BY DEF ListensInv, ListensRead, Going, IsTyped, TypeOK, MAX_LISTEN_SOCKETS
  <2>2. nb_sockets > 0 /\ sock_ind = nb_sockets
    BY <2>1 DEF Opening
  <2>3. \A k \in 0 .. nb_sockets - 1 : OpenAt(k) /\ k \in DOMAIN listen_sockets
    BY <2>1, <2>2 DEF Opening, OpenAt
  <2>4. ASSUME NEW i \in At("listen")
        PROVE  \E k \in DOMAIN listen_sockets :
                 /\ OpenAt(k)
                 /\ listen_sockets[k].name = Text(i)
                 /\ listen_sockets[k].port = PortFor(i)
    <3>1. PICK k \in 0 .. nb_sockets - 1 : listen_sockets[k].name = Text(i) /\ listen_sockets[k].port = PortFor(i)
      BY <2>1 DEF Addressed
    <3> QED  BY <2>3, <3>1
  <2>5. ASSUME At("listen") = {}, NEW family \in families
        PROVE  \E k \in DOMAIN listen_sockets :
                 OpenAt(k) /\ listen_sockets[k].family = family /\ listen_sockets[k].port = LastPort
    <3>1. Defaulted /\ (family = "AF_INET" \/ family = "AF_INET6")
      BY <2>1, <2>5 DEF ListensInv, IsTyped, TypeOK, Family
    <3>2. CASE family = "AF_INET"
      <4>1. 0 \in 0 .. nb_sockets - 1
        BY <2>1, <2>2
      <4> QED  BY <2>3, <3>1, <3>2, <4>1 DEF Defaulted
    <3>3. CASE family = "AF_INET6"
      <4>1. nb_sockets # 1
        BY <2>2, <2>5, <3>1, <3>3 DEF Defaulted
      <4>2. 1 \in 0 .. nb_sockets - 1
        BY <2>1, <2>2, <4>1
      <4> QED  BY <2>3, <3>1, <3>3, <4>2 DEF Defaulted
    <3> QED  BY <3>1, <3>2, <3>3
  <2> QED  BY <2>3, <2>4, <2>5 DEF ListensAsDeclared, PortFor
<1> QED  BY <1>1, ListensInit, ListensNext, PTL DEF Spec
=============================================================================
