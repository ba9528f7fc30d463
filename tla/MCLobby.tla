--------------------------------- MODULE MCLobby ---------------------------------
(***************************************************************************)
(* Two participants: both connect for the first time, or both are in their *)
(* lobbies and bob reconnects, before or after his old connection has      *)
(* ended.                                                                  *)
(***************************************************************************)
EXTENDS Lobby

CONSTANTS alice, bob, cAlice, cBob, cBobAgain

MCIdentity == [c \in Connections |-> IF c = cAlice THEN alice ELSE bob]

MCBothConnect == {[settled |-> {}, rejected |-> {cBobAgain}]}
MCBobReconnects == {[settled |-> {cAlice, cBob}, rejected |-> {}]}
MCStarts == MCBothConnect \cup MCBobReconnects

=============================================================================
