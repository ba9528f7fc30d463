------------------------------- MODULE MCWSClient -------------------------------
(***************************************************************************)
(* Three reconnects before giving up, the last two at the maximal delay.   *)
(***************************************************************************)
EXTENDS WSClient

CONSTANTS first, second

=============================================================================
