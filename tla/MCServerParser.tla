---------------------------- MODULE MCServerParser ----------------------------
(* Small instances of ServerParser for TLC.                                *)
EXTENDS ServerParser

CONSTANTS h1, h2, s1, s2

OneCountry == [h \in Host |-> "c1"]
=============================================================================
