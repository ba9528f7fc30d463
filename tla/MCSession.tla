------------------------------- MODULE MCSession -------------------------------
(***************************************************************************)
(* One session, one handler for each of its two players.  The first move   *)
(* is a corner or the centre and the next four are a few positions, one of *)
(* them out of range; from the sixth move on the clients send any position.*)
(***************************************************************************)
EXTENDS SessionRefinement, TLC

CONSTANTS alice, bob, hAlice, hAliceAgain, hBob, s1

\* hAliceAgain is a second connection of alice, made while the goroutine of
\* the first is still inside ApplyMove.
MCOwner == [h \in Handlers |-> IF h = hBob THEN bob ELSE alice]
MCPositionsAt ==
  [n \in 0..9 |-> CASE n = 0 -> {0, 4}
                    [] n = 1 -> {1, 4, 9}
                    [] n = 2 -> {2, 3, 8}
                    [] n = 3 -> {2, 6, 7}
                    [] n = 4 -> {3, 5, 6}
                    [] OTHER -> Cells]

=============================================================================
