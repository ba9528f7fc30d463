----------------------------- MODULE MCMatchmaking -----------------------------
(***************************************************************************)
(* Matchmaking with participants who may invite anyone, and short scripted *)
(* games: X completes the top row on the fifth move.                       *)
(***************************************************************************)
EXTENDS Matchmaking, TLC

CONSTANTS alice, bob, carol, hAlice, hBob, hBobAgain, hCarol

MCOwner ==
  [h \in Handlers |-> CASE h = hAlice -> alice
                        [] h \in {hBob, hBobAgain} -> bob
                        [] h = hCarol -> carol]

MCPositionsAt ==
  [n \in 0..9 |-> CASE n = 0 -> {0} [] n = 1 -> {3} [] n = 2 -> {1}
                    [] n = 3 -> {4} [] n = 4 -> {2} [] OTHER -> {}]

\* Games that are not played: all that happens is answering.
MCNoPositions == [n \in 0..9 |-> {}]

\* The participants with one handler each are all alike, and so are the uuids of
\* the invitations and those of the sessions.
HandlerOf(p) == CHOOSE h \in Handlers : Owner[h] = p

WithHandlers(f) == f @@ [h \in Handlers |-> HandlerOf(f[Owner[h]])]

MCSymmetry ==
  {WithHandlers(f) @@ g @@ k : f \in Permutations(Participants),
                               g \in Permutations(InvitationIds), k \in Permutations(SessionIds)}

=============================================================================
