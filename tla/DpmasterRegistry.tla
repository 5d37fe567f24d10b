-------------------------- MODULE DpmasterRegistry --------------------------
(***************************************************************************)
(* The master server implements Registry: an address is present when a     *)
(* used slot holds it.  The quota is promised only when hash_ports is off. *)
(***************************************************************************)
EXTENDS Dpmaster

(* The end of the stay and the answers of the servers of a list.           *)
UntilOf(l) ==
  [a \in Address |-> IF Servers(l, a) = {} THEN -1
                     ELSE l.servers[CHOOSE i \in Servers(l, a) : TRUE].timeout]
AnsweredOf(l) == {a \in Address : \E i \in Servers(l, a) : l.servers[i].state \in InfoState}

Promise == INSTANCE Registry WITH
             Capacity <- max_nb_servers,
             Quota <- IF hash_ports THEN 0 ELSE max_per_address,
             FirstStay <- TIMEOUT_HEARTBEAT,
             Stay <- TIMEOUT_INFORESPONSE,
             Absent <- -1,
             until <- UntilOf(list),
             answered <- AnsweredOf(list),
             now <- crt_time

(* Every step of the master server is a step the registry allows: no       *)
(* server is put out before its time, none stays longer for a heartbeat,   *)
(* and a refused or late message changes nothing but cleans up.            *)
RegistrySpec == Promise!Spec
=============================================================================
