----------------------------- MODULE MCConnections -----------------------------
(***************************************************************************)
(* One participant that connects twice, the second time whenever it likes: *)
(* before, while or after the server gives up the first connection.        *)
(* Participants share no hub entry, presence or heartbeat.                 *)
(***************************************************************************)
EXTENDS Connections, TLC

CONSTANTS alice, first, second

MCIdentity == [c \in Connections |-> alice]

=============================================================================
