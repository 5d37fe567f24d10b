---------------------------- MODULE MCMatchServer ----------------------------
(* Small instances of MatchServer for TLC.                                 *)
EXTENDS MatchServer

CONSTANTS h1, h2, s1, s2, s3

OneCountry == [h \in Host |-> "c1"]
TwoCountries == [h \in Host |-> IF h = h1 THEN "c1" ELSE "c2"]

Symmetry == Permutations(Session)
=============================================================================
