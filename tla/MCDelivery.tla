------------------------------- MODULE MCDelivery -------------------------------
(***************************************************************************)
(* One game of two players, which the inviter wins with its third move     *)
(* unless one of them stops playing.  bob has two connections.             *)
(***************************************************************************)
EXTENDS Delivery, TLC

CONSTANTS alice, bob, hAlice, hBob, hBobAgain, s1

MCOwner == [h \in Handlers |-> IF h = hAlice THEN alice ELSE bob]
MCPositionsAt == [n \in 0..9 |-> Cells]
MCClickAt ==
  [n \in 0..9 |-> CASE n = 0 -> {0} [] n = 1 -> {3} [] n = 2 -> {1} [] n = 3 -> {4}
                    [] n = 4 -> {2} [] OTHER -> {8}]
\* Only the first two moves.
MCTwoMoves == [n \in 0..9 |-> IF n < 2 THEN MCClickAt[n] ELSE {}]

\* bob's connections are all alike, and crowded or not together.
MCSymmetry == Permutations({hBob, hBobAgain})

=============================================================================
