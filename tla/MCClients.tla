------------------------------ MODULE MCClients ------------------------------
(* A small instance of Clients for TLC.                                    *)
EXTENDS Clients

CONSTANTS x1, x2, udp, page

(* The packets of the log server and of the CI server beside the pages.    *)
PacketsAndPages ==
  [t \in {udp, page} |-> IF t = udp THEN {"touch", "login", "alias", "status"} ELSE {"stats", "clean"}]

PagesOfOne == [t \in {udp, page} |-> IF t = udp THEN {x1, x2} ELSE {x1}]

(* A line that is skipped, and one that ends every round.                  *)
Malformed == << [exception |-> "FormatException"], [banned |-> x1] >>
TooLong == << [banned |-> x1], [exception |-> "OverflowException"], [banned |-> x2] >>
BanLists == {Malformed, TooLong}
=============================================================================
