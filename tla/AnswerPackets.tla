---------------------------- MODULE AnswerPackets ----------------------------
(***************************************************************************)
(* The packets of a getserversResponse: how the master server splits a     *)
(* list of IPv4 servers (the loop of HandleGetServers, messages.c) and     *)
(* what the client reads from one packet (CL_ServersResponsePacket,        *)
(* patch_mw2_serverlist.cpp).                                              *)
(***************************************************************************)
EXTENDS Integers, SequencesExt, Loops

CONSTANTS
  Server,               \* addresses of game servers
  MAX_PACKET_SIZE_OUT,  \* bytes of the array packet
  headersize            \* bytes of the header

EntrySize == 7          \* '\', four bytes of address, two of port; also '\EOT' and three zeros

ASSUME PacketAssumption ==
  /\ MAX_PACKET_SIZE_OUT \in Nat
  /\ headersize \in Nat
  /\ headersize + EntrySize <= MAX_PACKET_SIZE_OUT

Packet == [servers : Seq(Server), end : BOOLEAN]

Empty == [servers |-> <<>>, end |-> FALSE]

HasRoom(p) == headersize + EntrySize * Len(p.servers) + EntrySize <= MAX_PACKET_SIZE_OUT

(* An answer under way: the packets sent and the packet being filled.      *)
MakeSpace(answer) ==
  IF HasRoom(answer.packet) THEN answer
  ELSE [sent |-> Append(answer.sent, answer.packet), packet |-> Empty]

AddEntry(answer, sv) == LET spaced == MakeSpace(answer) IN [spaced EXCEPT !.packet.servers = Append(@, sv)]

(* All packets for the servers found, the last one with the end mark.      *)
Packets(entries) ==
  LET filled == MakeSpace(Loop(LAMBDA answer, i : AddEntry(answer, entries[i]),
                               [sent |-> <<>>, packet |-> Empty], Len(entries)))
  IN  Append(filled.sent, [filled.packet EXCEPT !.end = TRUE])

(* The client leaves the loop at an entry that ends the packet, before it  *)
(* is stored: only an entry that something follows is read.                *)
Parsed(p) == IF p.end \/ p.servers = <<>> THEN p.servers ELSE Front(p.servers)
=============================================================================
