--------------------------- MODULE MCServerBrowser ---------------------------
(* Small instances of ServerBrowser for TLC.                               *)
EXTENDS ServerBrowser

CONSTANTS a, b, c

(* Two answers of the master, of one packet each: the second one goes past *)
(* the end of the list, and the first one past that of the additional      *)
(* servers when it is appended.                                            *)
Answers == {<<a, b, c>>, <<b, a>>}

(* Host names in another order than the answer.                            *)
Names == (a :> 2) @@ (b :> 1) @@ (c :> 1) @@ (NoServer :> 0)
=============================================================================
