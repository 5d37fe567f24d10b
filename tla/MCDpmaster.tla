----------------------------- MODULE MCDpmaster -----------------------------
(* Small instances of Dpmaster for TLC.                                    *)
EXTENDS DpmasterRegistry, DpmasterLoops, TLC

CONSTANTS h1, h2, h3, p1, p2, g1

(* Every host has a chain of its own.                                      *)
ChainPerHost == [a \in Address |-> HostOf(a)]

(* All addresses collide.                                                  *)
OneChain == [a \in Address |-> 0]

NoMapping == [a \in Address |-> NoAddress]

AnyServer == {[game |-> g1, opt_empty |-> TRUE, opt_full |-> TRUE,
               opt_ipv4 |-> TRUE, opt_ipv6 |-> TRUE]}

(* What tells infoResponses apart when only one kind of server is there.   *)
Answers == {info \in Info : info.state = "occupied" /\ info.game = g1}

Symmetry == Permutations(Host) \cup Permutations(Port)
=============================================================================
