------------------------------- MODULE TicTacToe -------------------------------
(***************************************************************************)
(* What one game promises its players, whatever the server does inside:    *)
(* marks alternate starting with X, a taken cell is never overwritten, and *)
(* the move that makes three in a row, or fills the board without one,     *)
(* ends the game with the right outcome.  A move is a single step here.    *)
(* The lines are stated by geometry, independently of the engine's table.  *)
(***************************************************************************)
EXTENDS Integers

VARIABLES board, turn, status, outcome

vars == <<board, turn, status, outcome>>

Marks == {"X", "O"}
Blank == ""
Grid == 0..8

Row(c) == c \div 3
Column(c) == c % 3

Lines == {{c \in Grid : Row(c) = i} : i \in 0..2}
           \cup {{c \in Grid : Column(c) = i} : i \in 0..2}
           \cup {{c \in Grid : Row(c) = Column(c)},
                 {c \in Grid : Row(c) + Column(c) = 2}}

ThreeInARow(b, mark) == \E line \in Lines : \A c \in line : b[c] = mark
Full(b) == \A c \in Grid : b[c] # Blank

Init ==
  /\ board = [c \in Grid |-> Blank]
  /\ turn = "X"
  /\ status = "active"
  /\ outcome = "none"

\* mark is placed on a free cell by the player whose turn it is.
Place(mark, c) ==
  /\ status = "active"
  /\ turn = mark
  /\ board[c] = Blank
  /\ board' = [board EXCEPT ![c] = mark]

Continue(mark) ==
  /\ ~ThreeInARow(board', mark)
  /\ ~Full(board')
  /\ turn' = IF mark = "X" THEN "O" ELSE "X"
  /\ UNCHANGED <<status, outcome>>

Finish(mark) ==
  /\ \/ ThreeInARow(board', mark) /\ outcome' = mark
     \/ ~ThreeInARow(board', mark) /\ Full(board') /\ outcome' = "draw"
  /\ status' = "completed"
  /\ UNCHANGED turn

Move(mark, c) == Place(mark, c) /\ (Continue(mark) \/ Finish(mark))

Next == \E mark \in Marks, c \in Grid : Move(mark, c)

Spec == Init /\ [][Next]_vars

=============================================================================
