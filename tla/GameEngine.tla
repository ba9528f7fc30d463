------------------------------- MODULE GameEngine -------------------------------
(***************************************************************************)
(* The rules engine of server/internal/game/engine.go: a pure library that *)
(* validates a placement, builds the next board and detects a win or a     *)
(* full board.  It has no state; the session manager calls it.             *)
(***************************************************************************)
EXTENDS Integers, FiniteSets

Empty == ""
MarkX == "X"
MarkO == "O"

Marks == {MarkX, MarkO}

\* Row-major positions of the 3x3 grid.
Cells == 0..8

Boards == [Cells -> Marks \cup {Empty}]

NewBoard == [c \in Cells |-> Empty]

\* The order matters: Winner reports the first complete line.
winningLines == << <<0, 1, 2>>, <<3, 4, 5>>, <<6, 7, 8>>,
                   <<0, 3, 6>>, <<1, 4, 7>>, <<2, 5, 8>>,
                   <<0, 4, 8>>, <<2, 4, 6>> >>

\* Mutant: the third cell of a line is not compared.
CompleteLinesTwoCells(b) ==
  {i \in 1..8 : LET line == winningLines[i]
                IN  b[line[1]] # Empty /\ b[line[1]] = b[line[2]]}

CompleteLines(b) ==
  {i \in 1..8 : LET line == winningLines[i]
                IN  /\ b[line[1]] # Empty
                    /\ b[line[1]] = b[line[2]]
                    /\ b[line[1]] = b[line[3]]}

\* The winning mark, or Empty for the (Empty, false) result.
Winner(b) ==
  IF CompleteLines(b) = {}
  THEN Empty
  ELSE LET first == CHOOSE i \in CompleteLines(b) :
                      \A j \in CompleteLines(b) : i <= j
       IN  b[winningLines[first][1]]

IsFull(b) == \A c \in Cells : b[c] # Empty

\* Mutant: the turn passes to nobody after X.
OpponentOfO(mark) == IF mark = MarkO THEN MarkX ELSE Empty

Opponent(mark) == IF mark = MarkX THEN MarkO ELSE MarkX

\* Mutant: only the range is validated.
MoveErrorRangeOnly(b, position) ==
  IF position \notin Cells THEN "ErrPositionOutOfRange" ELSE "nil"

\* ApplyMove returns (board, error): here the error, below the board it comes with.
MoveError(b, position) ==
  IF position \notin Cells THEN "ErrPositionOutOfRange"
  ELSE IF b[position] # Empty THEN "ErrCellTaken"
  ELSE "nil"

ApplyMove(b, position, mark) == [b EXCEPT ![position] = mark]

\* How many cells are taken: the number of the move that made the board.
countMoves(b) == Cardinality({c \in Cells : b[c] # Empty})

=============================================================================
