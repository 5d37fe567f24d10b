---------------------------- MODULE MCGameServer ----------------------------
(* The instance of GameServer for TLC.                                     *)
EXTENDS GameServer

CONSTANTS h1, p1, g1

SelfAddress == <<h1, p1>>
ChainPerHost == [a \in Address |-> HostOf(a)]
NoMapping == [a \in Address |-> NoAddress]

AnyServer == {[game |-> g1, opt_empty |-> TRUE, opt_full |-> TRUE,
               opt_ipv4 |-> TRUE, opt_ipv6 |-> TRUE]}
=============================================================================
