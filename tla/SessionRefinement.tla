--------------------------- MODULE SessionRefinement ---------------------------
(***************************************************************************)
(* Every session of the session manager implements TicTacToe.  The abstract *)
(* move happens when ApplyMove stores the board; until the handler has      *)
(* followed up with the turn, the status and the result, those are          *)
(* predicted from the board, and from then on they are the stored fields.   *)
(***************************************************************************)
EXTENDS SessionManager

CONSTANT Watched  \* the session whose game is compared, any one of them

ASSUME WatchedAssumption == Watched \in SessionIds

Stored == sessions[Watched]

\* A handler has written the board of the watched session and is at one of pcs.
Pending(pcs) == \E h \in Handlers : call[h].sid = Watched /\ call[h].pc \in pcs

AbsBoard == IF Stored = NoSession THEN NewBoard ELSE Stored.board

AbsTurn ==
  IF Stored = NoSession THEN MarkX
  ELSE IF Pending({"insert", "pass"}) /\ ~Over(Stored.board) THEN Opponent(Stored.turn)
  ELSE Stored.turn

AbsStatus ==
  IF Stored = NoSession THEN "active"
  ELSE IF Pending({"insert", "finish"}) /\ Over(Stored.board) THEN "completed"
  ELSE Stored.status

AbsOutcome ==
  IF Stored = NoSession THEN "none"
  ELSE IF Pending({"insert", "finish", "result"}) /\ Over(Stored.board)
       THEN IF Winner(Stored.board) = Empty THEN "draw" ELSE Winner(Stored.board)
  ELSE IF Stored.isDraw THEN "draw"
  ELSE IF Stored.winner = NoOne THEN "none"
  ELSE MarkFor(Stored, Stored.winner)

Game == INSTANCE TicTacToe WITH
  board <- AbsBoard, turn <- AbsTurn, status <- AbsStatus, outcome <- AbsOutcome

\* What the players of a session see of it, through all the intermediate steps
\* of ApplyMove and any interleaving of the two handlers, follows the rules.
GameRules == Game!Spec

=============================================================================
