----------------------------- MODULE MCPersistence -----------------------------
(***************************************************************************)
(* One session between two participants with one handler each.  The games  *)
(* are a win of X in five moves, a win of O in six, and a draw.            *)
(***************************************************************************)
EXTENDS Persistence, TLC

CONSTANTS alice, bob, hAlice, hBob, s1

MCOwner == (hAlice :> alice) @@ (hBob :> bob)

MCPositionsAt ==
  [n \in 0..9 |-> CASE n = 0 -> {0} [] n = 1 -> {3} [] n = 2 -> {1, 0} [] n = 3 -> {4}
                    [] n = 4 -> {2, 8} [] n = 5 -> {5, 2} [] n = 6 -> {5} [] n = 7 -> {7}
                    [] n = 8 -> {6} [] OTHER -> {}]

=============================================================================
