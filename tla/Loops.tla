-------------------------------- MODULE Loops --------------------------------
(* A loop with a known number of turns, as a recursive function.           *)
EXTENDS Integers

(* for (i = 1; i <= n; i++).  The set makes TLC evaluate a turn only once. *)
Loop(Body(_, _), start, n) ==
  LET after[i \in 0 .. n] ==
        IF i = 0 THEN start ELSE CHOOSE next \in {Body(v, i) : v \in {after[i - 1]}} : TRUE
  IN  IF n < 1 THEN start ELSE after[n]
=============================================================================
