---------------------------- MODULE GameRulesProofs ----------------------------
(***************************************************************************)
(* The proof that every session implements TicTacToe, for any sets of      *)
(* participants, handlers and sessions, while no participant has two       *)
(* handlers that apply a move.                                             *)
(***************************************************************************)
EXTENDS SessionRefinement, SessionManagerProofs

-----------------------------------------------------------------------------
(* The engine's table of lines is the geometry of the grid.                *)

\* The lines of the grid, each as the set of its cells.
LEMMA LinesOfTheGrid ==
  Game!Lines = {{0, 1, 2}, {3, 4, 5}, {6, 7, 8},
                {0, 3, 6}, {1, 4, 7}, {2, 5, 8},
                {0, 4, 8}, {2, 4, 6}}
<1>1. \A c \in 0..8 : Game!Row(c) = IF c < 3 THEN 0 ELSE IF c < 6 THEN 1 ELSE 2
  BY DEF Game!Row
<1>2. \A c \in 0..8 : Game!Column(c) = c - 3 * Game!Row(c)
  BY <1>1 DEF Game!Column
<1>3. /\ {c \in 0..8 : Game!Row(c) = 0} = {0, 1, 2}
      /\ {c \in 0..8 : Game!Row(c) = 1} = {3, 4, 5}
      /\ {c \in 0..8 : Game!Row(c) = 2} = {6, 7, 8}
  BY <1>1
<1>4. /\ {c \in 0..8 : Game!Column(c) = 0} = {0, 3, 6}
      /\ {c \in 0..8 : Game!Column(c) = 1} = {1, 4, 7}
      /\ {c \in 0..8 : Game!Column(c) = 2} = {2, 5, 8}
  BY <1>1, <1>2
<1>5. {c \in 0..8 : Game!Row(c) = Game!Column(c)} = {0, 4, 8}
  BY <1>1, <1>2
<1>6. {c \in 0..8 : Game!Row(c) + Game!Column(c) = 2} = {2, 4, 6}
  BY <1>1, <1>2
<1>7. 0..2 = {0, 1, 2}
  OBVIOUS
<1>8. /\ {{c \in 0..8 : Game!Row(c) = i} : i \in 0..2} = {{0, 1, 2}, {3, 4, 5}, {6, 7, 8}}
      /\ {{c \in 0..8 : Game!Column(c) = i} : i \in 0..2} = {{0, 3, 6}, {1, 4, 7}, {2, 5, 8}}
  <2> DEFINE InRow(i) == {c \in 0..8 : Game!Row(c) = i}
             InColumn(i) == {c \in 0..8 : Game!Column(c) = i}
  <2>1. /\ InRow(0) = {0, 1, 2} /\ InRow(1) = {3, 4, 5} /\ InRow(2) = {6, 7, 8}
        /\ InColumn(0) = {0, 3, 6} /\ InColumn(1) = {1, 4, 7} /\ InColumn(2) = {2, 5, 8}
    BY <1>3, <1>4
  <2> HIDE DEF InRow, InColumn
  <2>2. {InRow(i) : i \in 0..2} = {InRow(0), InRow(1), InRow(2)}
        /\ {InColumn(i) : i \in 0..2} = {InColumn(0), InColumn(1), InColumn(2)}
    BY <1>7
  <2>3. {InRow(i) : i \in 0..2} = {{0, 1, 2}, {3, 4, 5}, {6, 7, 8}}
        /\ {InColumn(i) : i \in 0..2} = {{0, 3, 6}, {1, 4, 7}, {2, 5, 8}}
    BY <2>1, <2>2
  <2> QED BY <2>3 DEF InRow, InColumn
<1> QED BY <1>5, <1>6, <1>8 DEF Game!Lines, Game!Grid

\* The engine's table lists them.
LEMMA LinesOfTheTable ==
  {{winningLines[i][1], winningLines[i][2], winningLines[i][3]} : i \in 1..8} = Game!Lines
<1> DEFINE line(i) == {winningLines[i][1], winningLines[i][2], winningLines[i][3]}
<1>1. /\ line(1) = {0, 1, 2} /\ line(2) = {3, 4, 5} /\ line(3) = {6, 7, 8}
      /\ line(4) = {0, 3, 6} /\ line(5) = {1, 4, 7} /\ line(6) = {2, 5, 8}
      /\ line(7) = {0, 4, 8} /\ line(8) = {2, 4, 6}
  BY DEF winningLines
<1>2. \A i \in 1..8 : i = 1 \/ i = 2 \/ i = 3 \/ i = 4 \/ i = 5 \/ i = 6 \/ i = 7 \/ i = 8
  OBVIOUS
<1> HIDE DEF line
<1>3. {line(i) : i \in 1..8} = {line(1), line(2), line(3), line(4), line(5), line(6), line(7), line(8)}
  BY <1>2
<1>4. {line(i) : i \in 1..8} = Game!Lines
  BY <1>1, <1>3, LinesOfTheGrid
<1> QED BY <1>4 DEF line

\* Three in a row, by geometry, is a complete line of the table with that mark.
LEMMA ThreeIsComplete ==
  ASSUME NEW b, NEW mark \in Marks
  PROVE  Game!ThreeInARow(b, mark) <=> \E i \in CompleteLines(b) : b[winningLines[i][1]] = mark
<1>1. mark # Empty
  BY DEF Marks, MarkX, MarkO, Empty
<1> DEFINE line(i) == {winningLines[i][1], winningLines[i][2], winningLines[i][3]}
<1>2. ASSUME NEW i \in 1..8
      PROVE  (\A c \in line(i) : b[c] = mark)
               <=> i \in CompleteLines(b) /\ b[winningLines[i][1]] = mark
  BY <1>1, <1>2 DEF CompleteLines
<1>3. CompleteLines(b) \subseteq 1..8
  BY DEF CompleteLines
<1>4. Game!Lines = {line(i) : i \in 1..8}
  BY LinesOfTheTable
<1> HIDE DEF line
<1>5. Game!ThreeInARow(b, mark) <=> \E i \in 1..8 : \A c \in line(i) : b[c] = mark
  BY <1>4 DEF Game!ThreeInARow
<1> QED BY <1>2, <1>3, <1>5

\* A move on a board without a complete line completes lines of its own mark
\* only: every complete line goes through its cell.
LEMMA MoveWins ==
  ASSUME NEW b \in Boards, NEW c \in Cells, b[c] = Empty, NEW mark \in Marks, Winner(b) = Empty
  PROVE  LET next == ApplyMove(b, c, mark)
         IN  /\ Winner(next) \in {Empty, mark}
             /\ Winner(next) = mark <=> Game!ThreeInARow(next, mark)
<1> DEFINE next == ApplyMove(b, c, mark)
<1>1. CompleteLines(b) = {}
  BY WinnerOfBoard
<1>2. next[c] = mark /\ \A d \in Cells \ {c} : next[d] = b[d]
  BY DEF ApplyMove, Boards
<1>3. mark # Empty
  BY DEF Marks, MarkX, MarkO, Empty
<1>4. ASSUME NEW i \in CompleteLines(next) PROVE next[winningLines[i][1]] = mark
  <2>1. i \in 1..8 /\ i \notin CompleteLines(b)
    BY <1>1 DEF CompleteLines
  <2>2. winningLines[i][1] \in Cells /\ winningLines[i][2] \in Cells /\ winningLines[i][3] \in Cells
    BY <2>1, LinesAreCells
  <2>3. /\ next[winningLines[i][1]] # Empty
        /\ next[winningLines[i][1]] = next[winningLines[i][2]]
        /\ next[winningLines[i][1]] = next[winningLines[i][3]]
    BY <1>4 DEF CompleteLines
  <2>4. ~ /\ b[winningLines[i][1]] # Empty
          /\ b[winningLines[i][1]] = b[winningLines[i][2]]
          /\ b[winningLines[i][1]] = b[winningLines[i][3]]
    BY <2>1 DEF CompleteLines
  <2> QED BY <1>2, <2>2, <2>3, <2>4
<1> HIDE DEF next
<1>5. Winner(next) \in {Empty, mark} /\ (Winner(next) = mark <=> CompleteLines(next) # {})
  BY <1>3, <1>4, WinnerOfBoard
<1>6. Game!ThreeInARow(next, mark) <=> CompleteLines(next) # {}
  BY <1>4, ThreeIsComplete
<1> QED BY <1>5, <1>6 DEF next

-----------------------------------------------------------------------------
(* The mapping: every step is a move of the watched game, or leaves it.    *)

\* The pcs the mapping looks at: the board is stored, its outcome not yet.
Reporting == {"insert", "pass", "finish", "result"}

\* A handler that reports on the watched session neither before nor after its
\* step does not change who does.
LEMMA PendingKept ==
  ASSUME TypeInv, NEW h \in Handlers, NEW new, call' = [call EXCEPT ![h] = new],
         call[h].sid # Watched \/ call[h].pc \notin Reporting,
         new.sid # Watched \/ new.pc \notin Reporting
  PROVE  \A pcs \in SUBSET Reporting : Pending(pcs)' <=> Pending(pcs)
BY DEF Pending, TypeInv, TypeOK

\* So a step that also leaves the watched session alone leaves its game alone.
LEMMA OtherStutters ==
  ASSUME TypeInv, NEW h \in Handlers, NEW new, call' = [call EXCEPT ![h] = new],
         call[h].sid # Watched \/ call[h].pc \notin Reporting,
         new.sid # Watched \/ new.pc \notin Reporting,
         sessions'[Watched] = sessions[Watched]
  PROVE  UNCHANGED Game!vars
<1>1. /\ Pending({"insert", "pass"})' <=> Pending({"insert", "pass"})
      /\ Pending({"insert", "finish"})' <=> Pending({"insert", "finish"})
      /\ Pending({"insert", "finish", "result"})' <=> Pending({"insert", "finish", "result"})
  BY PendingKept DEF Reporting
<1>2. Stored' = Stored
  BY DEF Stored
<1>3. UNCHANGED <<AbsBoard, AbsTurn>>
  BY <1>1, <1>2 DEF AbsBoard, AbsTurn
<1>4. UNCHANGED AbsStatus
  BY <1>1, <1>2 DEF AbsStatus
<1>5. UNCHANGED AbsOutcome
  BY <1>1, <1>2 DEF AbsOutcome
<1> QED BY <1>3, <1>4, <1>5 DEF Game!vars

\* The busy handler of the watched session is the only one to report on it.
LEMMA PendingAlone ==
  ASSUME OneMoverEach, GameInv, NEW h \in Handlers,
         call[h].pc \in Busy, call[h].sid = Watched, NEW next, Goto(h, next)
  PROVE  \A pcs \in SUBSET Reporting :
           /\ Pending(pcs) <=> call[h].pc \in pcs
           /\ Pending(pcs)' <=> next \in pcs
<1>1. \A g \in Handlers : call[g].sid = Watched /\ call[g].pc \in Reporting => g = h
  BY BusyIsExclusive DEF Reporting, Busy, Section
<1>2. call'[h].pc = next /\ call'[h].sid = Watched
  BY GameInvTypes, GotoFields
<1>3. \A g \in Handlers \ {h} : call'[g] = call[g]
  BY GameInvTypes, GotoFields DEF TypeInv, TypeOK
<1> QED BY <1>1, <1>2, <1>3 DEF Pending

LEMMA WriteBoardIsAMove ==
  ASSUME OneMoverEach, GameInv, NEW h \in Handlers, WriteBoard(h), call[h].sid = Watched
  PROVE  Game!Next
<1>1. /\ call[h].pc = "write" /\ call[h].pc \in Busy /\ Goto(h, "insert")
      /\ sessions' = [sessions EXCEPT ![Watched].board = call[h].board]
      /\ Stored = CurrentSession(h) /\ Stored.status = "active" /\ call[h].position \in Cells
  BY DEF WriteBoard, At, Busy, Section, GameInv, Orderly, Stored, CurrentSession
<1>2. Stored \in Session /\ Stored # NoSession /\ TypeInv /\ call[h] \in Call
  BY <1>1, BusySession
<1>3. PICK next \in Boards, mark \in Marks, c \in Cells :
        /\ next = call[h].board /\ mark = call[h].mark /\ c = call[h].position
        /\ Stored.turn = mark /\ Stored.board[c] = Empty
        /\ next = ApplyMove(Stored.board, c, mark)
  <2>1. call[h].mark \in Marks /\ Stored.turn = call[h].mark
    BY <1>1, BusyHolds DEF HoldsTurn
  <2>2. FreshWrite(h)
    BY <1>1 DEF GameInv, LockInv, WriteIsFresh, At
  <2> QED BY <1>1, <1>2, <2>1, <2>2 DEF FreshWrite, Call
<1>4. /\ Stored'.board = next /\ Stored'.turn = mark /\ Stored'.status = "active"
      /\ Stored'.winner = Stored.winner /\ Stored'.isDraw = Stored.isDraw /\ Stored' # NoSession
  <2> DEFINE s == [Stored EXCEPT !.board = next]
  <2>1. sessions' = [sessions EXCEPT ![Watched] = s]
    BY <1>1, <1>2, <1>3, WatchedAssumption DEF Stored, TypeInv, TypeOK
  <2>2. s \in Session /\ s.board = next /\ s.turn = mark /\ s.status = "active"
        /\ s.winner = Stored.winner /\ s.isDraw = Stored.isDraw
    BY <1>1, <1>2, <1>3 DEF Session
  <2> HIDE DEF s
  <2>3. Stored' = s
    BY <1>2, <2>1, WatchedAssumption DEF Stored, TypeInv, TypeOK
  <2> QED BY <2>2, <2>3, NoSessionAssumption
<1>5. /\ ~Pending({"insert", "pass"}) /\ ~Pending({"insert", "finish"})
      /\ ~Pending({"insert", "finish", "result"})
      /\ Pending({"insert", "pass"})' /\ Pending({"insert", "finish"})'
      /\ Pending({"insert", "finish", "result"})'
  BY <1>1, PendingAlone DEF Reporting
<1>6. Stored.winner = NoOne /\ Stored.isDraw = FALSE /\ ~Over(Stored.board)
  <2>1. ~Ending(Watched)
    BY <1>5 DEF Pending, Ending
  <2> QED BY <1>1, <1>2, <2>1, WatchedAssumption DEF GameInv, Undecided, Stored
<1>7. /\ AbsBoard = Stored.board /\ AbsTurn = mark /\ AbsStatus = "active" /\ AbsOutcome = "none"
  BY <1>1, <1>2, <1>3, <1>5, <1>6 DEF AbsBoard, AbsTurn, AbsStatus, AbsOutcome
<1>8. AbsBoard' = next
  BY <1>4 DEF AbsBoard
<1>9. Game!Place(mark, c)
  BY <1>3, <1>7, <1>8 DEF Game!Place, Game!Blank, Empty, ApplyMove
<1>10. /\ Winner(next) \in {Empty, mark}
       /\ Winner(next) = mark <=> Game!ThreeInARow(next, mark)
       /\ mark # Empty
  <2>1. Stored.board \in Boards /\ Winner(Stored.board) = Empty
    BY <1>2, <1>6 DEF Session, Over
  <2>2. mark # Empty
    BY DEF Marks, MarkX, MarkO, Empty
  <2> QED BY <1>3, <2>1, <2>2, MoveWins
<1>11. Game!Full(next) <=> IsFull(next)
  BY DEF Game!Full, Game!Grid, Game!Blank, IsFull, Cells, Empty
<1>12. CASE Over(next)
  <2>1. AbsTurn' = mark /\ AbsStatus' = "completed"
        /\ AbsOutcome' = IF Winner(next) = Empty THEN "draw" ELSE Winner(next)
    BY <1>4, <1>5, <1>12 DEF AbsTurn, AbsStatus, AbsOutcome
  <2>2. Game!Finish(mark)
    BY <1>7, <1>8, <1>10, <1>11, <1>12, <2>1 DEF Game!Finish, Over
  <2> QED BY <1>9, <2>2 DEF Game!Next, Game!Move, Game!Marks, Game!Grid, Marks, MarkX, MarkO, Cells
<1>13. CASE ~Over(next)
  <2>1. AbsTurn' = Opponent(mark) /\ AbsStatus' = "active" /\ AbsOutcome' = "none"
    BY <1>4, <1>5, <1>6, <1>13 DEF AbsTurn, AbsStatus, AbsOutcome
  <2>2. Game!Continue(mark)
    BY <1>7, <1>8, <1>10, <1>11, <1>13, <2>1 DEF Game!Continue, Over, Opponent, MarkX, MarkO
  <2> QED BY <1>9, <2>2 DEF Game!Next, Game!Move, Game!Marks, Game!Grid, Marks, MarkX, MarkO, Cells
<1> QED BY <1>12, <1>13

\* The steps that report the outcome of a move change none of what is promised:
\* the mapping predicted it from the board.
LEMMA InsertMoveStutters ==
  ASSUME OneMoverEach, GameInv, NEW h \in Handlers, InsertMove(h), call[h].sid = Watched
  PROVE  UNCHANGED Game!vars
<1>1. /\ call[h].pc = "insert" /\ call[h].pc \in Busy /\ Stored' = Stored
      /\ Stored.board = call[h].board
      /\ Goto(h, IF Over(Stored.board) THEN "finish" ELSE "pass")
  BY DEF InsertMove, At, Busy, Section, GameInv, Orderly, Stored, CurrentSession
<1>2. CASE Over(Stored.board)
  <2>1. /\ Pending({"insert", "finish"}) /\ Pending({"insert", "finish"})'
        /\ Pending({"insert", "finish", "result"}) /\ Pending({"insert", "finish", "result"})'
    BY <1>1, <1>2, PendingAlone DEF Reporting
  <2> QED BY <1>1, <1>2, <2>1 DEF Game!vars, AbsBoard, AbsTurn, AbsStatus, AbsOutcome
<1>3. CASE ~Over(Stored.board)
  <2>1. Pending({"insert", "pass"}) /\ Pending({"insert", "pass"})'
    BY <1>1, <1>3, PendingAlone DEF Reporting
  <2> QED BY <1>1, <1>3, <2>1 DEF Game!vars, AbsBoard, AbsTurn, AbsStatus, AbsOutcome
<1> QED BY <1>2, <1>3

LEMMA PassTurnStutters ==
  ASSUME OneMoverEach, GameInv, NEW h \in Handlers, PassTurn(h), call[h].sid = Watched
  PROVE  UNCHANGED Game!vars
<1>1. /\ call[h].pc = "pass" /\ call[h].pc \in Busy /\ Goto(h, "save")
      /\ sessions' = [sessions EXCEPT ![Watched].turn = Opponent(call[h].mark)]
      /\ Stored = CurrentSession(h) /\ Stored.board = call[h].board /\ ~Over(Stored.board)
  BY DEF PassTurn, At, Busy, Section, GameInv, Orderly, Stored, CurrentSession
<1>2. Stored \in Session /\ Stored # NoSession /\ TypeInv /\ call[h].mark = Stored.turn
  BY <1>1, BusySession, BusyHolds DEF HoldsTurn
<1> DEFINE s == [Stored EXCEPT !.turn = Opponent(Stored.turn)]
<1>3. sessions' = [sessions EXCEPT ![Watched] = s]
  BY <1>1, <1>2, WatchedAssumption DEF Stored, TypeInv, TypeOK
<1>4. /\ s.board = Stored.board /\ s.turn = Opponent(Stored.turn) /\ s.status = Stored.status
      /\ s.winner = Stored.winner /\ s.isDraw = Stored.isDraw /\ s.x = Stored.x /\ s.o = Stored.o
      /\ s \in Session
  BY <1>2 DEF Session, Opponent, Marks
<1>5. s # NoSession
  BY <1>4, NoSessionAssumption
<1> HIDE DEF s
<1>6. Stored' = s
  BY <1>2, <1>3, WatchedAssumption DEF Stored, TypeInv, TypeOK
<1>7. Pending({"insert", "pass"}) /\ ~Pending({"insert", "pass"})'
  BY <1>1, PendingAlone DEF Reporting
<1>8. AbsBoard' = AbsBoard /\ AbsTurn' = AbsTurn
  BY <1>1, <1>2, <1>4, <1>5, <1>6, <1>7 DEF AbsBoard, AbsTurn
<1>9. AbsStatus' = AbsStatus
  BY <1>1, <1>2, <1>4, <1>5, <1>6 DEF AbsStatus
<1>10. AbsOutcome' = AbsOutcome
  BY <1>1, <1>2, <1>4, <1>5, <1>6 DEF AbsOutcome, MarkFor
<1> QED BY <1>8, <1>9, <1>10 DEF Game!vars

LEMMA FinishStatusStutters ==
  ASSUME OneMoverEach, GameInv, NEW h \in Handlers, FinishStatus(h), call[h].sid = Watched
  PROVE  UNCHANGED Game!vars
<1>1. /\ call[h].pc = "finish" /\ call[h].pc \in Busy /\ Goto(h, "result")
      /\ sessions' = [sessions EXCEPT ![Watched].status = "completed"]
      /\ Stored = CurrentSession(h) /\ Stored.board = call[h].board /\ Over(Stored.board)
  BY DEF FinishStatus, At, Busy, Section, GameInv, Orderly, Stored, CurrentSession
<1>2. Stored \in Session /\ Stored # NoSession /\ TypeInv
  BY <1>1, BusySession
<1> DEFINE s == [Stored EXCEPT !.status = "completed"]
<1>3. sessions' = [sessions EXCEPT ![Watched] = s]
  BY <1>1, <1>2, WatchedAssumption DEF Stored, TypeInv, TypeOK
<1>4. s.board = Stored.board /\ s.turn = Stored.turn /\ s.status = "completed" /\ s \in Session
  BY <1>2 DEF Session
<1>5. s # NoSession
  BY <1>4, NoSessionAssumption
<1> HIDE DEF s
<1>6. Stored' = s
  BY <1>2, <1>3, WatchedAssumption DEF Stored, TypeInv, TypeOK
<1>7. /\ Pending({"insert", "finish"})
      /\ Pending({"insert", "finish", "result"}) /\ Pending({"insert", "finish", "result"})'
  BY <1>1, PendingAlone DEF Reporting
<1> QED BY <1>1, <1>2, <1>4, <1>5, <1>6, <1>7
        DEF Game!vars, AbsBoard, AbsTurn, AbsStatus, AbsOutcome

\* The stored result is the outcome that the mapping predicted.
LEMMA FinishResultStutters ==
  ASSUME OneMoverEach, GameInv, NEW h \in Handlers, FinishResult(h), call[h].sid = Watched
  PROVE  UNCHANGED Game!vars
<1> DEFINE b == Stored.board
           won == WinnerID(Stored, b)
           draw == (Winner(b) = Empty)
<1>1. /\ call[h].pc = "result" /\ call[h].pc \in Busy /\ Goto(h, "save")
      /\ sessions' = [sessions EXCEPT ![Watched].winner = won, ![Watched].isDraw = draw]
      /\ Stored = CurrentSession(h) /\ Over(b) /\ Stored.status = "completed"
  BY DEF FinishResult, At, Busy, Section, GameInv, Orderly, Stored, CurrentSession
<1>2. Stored \in Session /\ Stored # NoSession /\ TypeInv /\ Stored.x # Stored.o
  BY <1>1, BusySession, WatchedAssumption DEF GameInv, PlayersDiffer, Stored
<1>3. Winner(b) \in Marks \cup {Empty}
  <2>1. \A i \in CompleteLines(b) : b[winningLines[i][1]] \in Marks \cup {Empty}
    BY <1>2, LinesAreCells DEF CompleteLines, Session, Boards
  <2> QED BY <2>1, WinnerOfBoard
<1>4. /\ won \in Participants \cup {NoOne} /\ draw \in BOOLEAN
      /\ draw => won = NoOne
      /\ ~draw => won # NoOne /\ MarkFor(Stored, won) = Winner(b)
  BY <1>2, <1>3, NoneAssumption DEF WinnerID, MarkFor, Session, Marks, MarkX, MarkO, Empty
<1>5. /\ Pending({"insert", "finish", "result"}) /\ ~Pending({"insert", "finish", "result"})'
      /\ ~Pending({"insert", "finish"}) /\ ~Pending({"insert", "finish"})'
  BY <1>1, PendingAlone DEF Reporting
<1>6. AbsOutcome = IF draw THEN "draw" ELSE Winner(b)
  BY <1>1, <1>2, <1>5 DEF AbsOutcome
<1>7. PICK w \in Participants \cup {NoOne}, d \in BOOLEAN : w = won /\ d = draw
  BY <1>4
<1> DEFINE r == [Stored EXCEPT !.winner = w, !.isDraw = d]
<1>8. sessions' = [sessions EXCEPT ![Watched] = r]
  <2> HIDE DEF won, draw
  <2> QED BY <1>1, <1>2, <1>7, WatchedAssumption DEF Stored, TypeInv, TypeOK
<1>9. /\ r.board = b /\ r.turn = Stored.turn /\ r.status = Stored.status
      /\ r.winner = w /\ r.isDraw = d /\ r.x = Stored.x /\ r.o = Stored.o /\ r \in Session
  BY <1>2 DEF Session
<1>10. r # NoSession
  BY <1>9, NoSessionAssumption
<1> HIDE DEF r
<1>11. Stored' = r
  BY <1>2, <1>8, WatchedAssumption DEF Stored, TypeInv, TypeOK
<1>12. AbsBoard' = AbsBoard /\ AbsTurn' = AbsTurn /\ AbsStatus' = AbsStatus
  BY <1>1, <1>2, <1>5, <1>9, <1>10, <1>11 DEF AbsBoard, AbsTurn, AbsStatus
<1>13. AbsOutcome' = AbsOutcome
  <2> DEFINE outcome == IF d THEN "draw" ELSE IF w = NoOne THEN "none" ELSE MarkFor(r, w)
  <2>1. AbsOutcome' = outcome
    BY <1>5, <1>9, <1>10, <1>11 DEF AbsOutcome
  <2>2. MarkFor(r, w) = MarkFor(Stored, w)
    BY <1>9 DEF MarkFor
  <2> QED BY <1>4, <1>6, <1>7, <2>1, <2>2
<1> QED BY <1>12, <1>13 DEF Game!vars

\* A game that has not been created yet already is as the rules start it.
LEMMA CreateStutters ==
  ASSUME GameInv, NEW h \in Handlers, NEW sid \in SessionIds, NEW x \in Participants,
         NEW o \in Participants, Create(h, sid, x, o)
  PROVE  UNCHANGED Game!vars
<1> DEFINE new == [Idle EXCEPT !.pc = "insertSession", !.sid = sid]
           s == NewSession(x, o)
<1>1. /\ TypeInv /\ call[h].pc = "idle" /\ call' = [call EXCEPT ![h] = new]
      /\ sessions[sid] = NoSession /\ sessions' = [sessions EXCEPT ![sid] = s]
  BY GameInvTypes DEF Create, At
<1>2. new.pc = "insertSession"
  BY DEF Idle
<1>3. /\ s \in Session /\ s # NoSession /\ s.board = NewBoard /\ s.turn = MarkX
      /\ s.status = "active" /\ s.winner = NoOne /\ s.isDraw = FALSE
  BY NewSessionType, NoSessionAssumption DEF NewSession
<1> HIDE DEF new, s
<1>4. CASE sid # Watched
  <2>1. sessions'[Watched] = sessions[Watched]
    BY <1>1, <1>4, WatchedAssumption DEF TypeInv, TypeOK
  <2> QED BY <1>1, <1>2, <2>1, OtherStutters DEF Reporting
<1>5. CASE sid = Watched
  <2>1. Stored = NoSession /\ Stored' = s
    BY <1>1, <1>5 DEF Stored, TypeInv, TypeOK
  <2>2. ASSUME NEW k \in Handlers, call'[k].sid = Watched PROVE call'[k].pc \notin Reporting
    <3>1. CASE k = h
      BY <1>1, <1>2, <3>1 DEF Reporting, TypeInv, TypeOK
    <3>2. CASE k # h
      BY <1>1, <1>5, <2>2, <3>2 DEF Reporting, TypeInv, TypeOK, Located, At, CurrentSession
    <3> QED BY <3>1, <3>2
  <2>3. /\ ~Pending({"insert", "pass"})' /\ ~Pending({"insert", "finish"})'
        /\ ~Pending({"insert", "finish", "result"})'
    BY <2>2 DEF Pending, Reporting
  <2>4. AbsBoard' = AbsBoard /\ AbsTurn' = AbsTurn
    BY <1>3, <2>1, <2>3 DEF AbsBoard, AbsTurn
  <2>5. AbsStatus' = AbsStatus /\ AbsOutcome' = AbsOutcome
    BY <1>3, <2>1, <2>3 DEF AbsStatus, AbsOutcome
  <2> QED BY <2>4, <2>5 DEF Game!vars
<1> QED BY <1>4, <1>5

\* The steps that neither change a session nor report on one.
LEMMA SilentStutters ==
  ASSUME GameInv, NEW h \in Handlers,
         \/ \E sid \in SessionIds : \E n \in 0..9 : \E position \in PositionsAt[n] :
              ReceiveMove(h, sid, position)
         \/ CheckTurn(h) \/ ComputeBoard(h) \/ SaveSession(h)
         \/ InsertSession(h) \/ CompleteSession(h)
         \/ RefuseTurn(h) \/ RefusePosition(h) \/ AnnounceStart(h) \/ Reply(h)
  PROVE  UNCHANGED Game!vars
<1>1. UNCHANGED sessions /\ call[h].pc \notin Reporting
  BY DEF ReceiveMove, CheckTurn, ComputeBoard, SaveSession, InsertSession, CompleteSession,
     RefuseTurn, RefusePosition, AnnounceStart, Reply, At, Reporting
<1>2. ASSUME NEW new, call' = [call EXCEPT ![h] = new], new.pc \notin Reporting
      PROVE  UNCHANGED Game!vars
  BY <1>1, <1>2, GameInvTypes, OtherStutters
<1>3. ASSUME NEW sid \in SessionIds, NEW position, ReceiveMove(h, sid, position)
      PROVE  UNCHANGED Game!vars
  <2> DEFINE new == [Idle EXCEPT !.pc = "turn", !.sid = sid, !.position = position]
  <2>1. call' = [call EXCEPT ![h] = new] /\ new.pc = "turn"
    BY <1>3 DEF ReceiveMove, Idle
  <2> HIDE DEF new
  <2> QED BY <1>2, <2>1 DEF Reporting
<1>4. CASE CheckTurn(h)
  <2> DEFINE new == [call[h] EXCEPT !.pc = "board", !.mark = MarkFor(CurrentSession(h), Owner[h])]
  <2>1. call' = [call EXCEPT ![h] = new] /\ new.pc = "board"
    BY <1>4, GameInvTypes DEF CheckTurn, TypeInv, TypeOK, Call
  <2> HIDE DEF new
  <2> QED BY <1>2, <2>1 DEF Reporting
<1>5. CASE ComputeBoard(h)
  <2> DEFINE next == ApplyMove(CurrentSession(h).board, call[h].position, call[h].mark)
             new == [call[h] EXCEPT !.pc = "write", !.board = next]
  <2>1. call' = [call EXCEPT ![h] = new]
    BY <1>5, GameInvTypes DEF ComputeBoard, TypeInv, TypeOK
  <2> HIDE DEF next
  <2>2. new.pc = "write"
    BY GameInvTypes DEF TypeInv, TypeOK, Call
  <2> HIDE DEF new
  <2> QED BY <1>2, <2>1, <2>2 DEF Reporting
<1>6. CASE \E next \in {"started", "complete", "reply"} : Goto(h, next)
  <2>1. PICK next \in {"started", "complete", "reply"} : Goto(h, next)
    BY <1>6
  <2>2. PICK new : call' = [call EXCEPT ![h] = new] /\ new.pc = next
    BY <2>1, GameInvTypes, GotoFields
  <2> QED BY <1>2, <2>2 DEF Reporting
<1>7. CASE Return(h)
  <2>1. Idle.pc \notin Reporting
    BY DEF Idle, Reporting
  <2> QED BY <1>2, <1>7, <2>1 DEF Return
<1> QED BY <1>3, <1>4, <1>5, <1>6, <1>7
        DEF SaveSession, InsertSession, CompleteSession, RefuseTurn, RefusePosition, AnnounceStart,
            Reply

\* What happens to another session leaves the watched game alone.
LEMMA ElsewhereStutters ==
  ASSUME GameInv, NEW h \in Handlers, call[h].sid # Watched,
         WriteBoard(h) \/ PassTurn(h) \/ FinishStatus(h) \/ FinishResult(h) \/ InsertMove(h)
  PROVE  UNCHANGED Game!vars
<1>1. \E next : Goto(h, next)
  BY DEF WriteBoard, PassTurn, FinishStatus, FinishResult, InsertMove
<1>2. PICK new : call' = [call EXCEPT ![h] = new] /\ new.sid # Watched
  BY <1>1, GameInvTypes, GotoFields
<1>3. sessions'[Watched] = sessions[Watched]
  BY GameInvTypes, WatchedAssumption
     DEF WriteBoard, PassTurn, FinishStatus, FinishResult, InsertMove, TypeInv, TypeOK
<1> QED BY <1>2, <1>3, GameInvTypes, OtherStutters

LEMMA StepRefines ==
  ASSUME OneMoverEach, GameInv, [Next]_vars
  PROVE  [Game!Next]_Game!vars
<1>1. CASE Next
  <2>1. PICK h \in Handlers :
           \/ \E sid \in SessionIds, x \in Participants, o \in Participants : Create(h, sid, x, o)
           \/ \E sid \in SessionIds : \E n \in 0..9 : \E position \in PositionsAt[n] :
                ReceiveMove(h, sid, position)
           \/ CheckTurn(h) \/ ComputeBoard(h)
           \/ WriteBoard(h) \/ PassTurn(h) \/ FinishStatus(h) \/ FinishResult(h)
           \/ SaveSession(h)
           \/ InsertSession(h) \/ InsertMove(h) \/ CompleteSession(h)
           \/ RefuseTurn(h) \/ RefusePosition(h) \/ AnnounceStart(h) \/ Reply(h)
    BY <1>1, NextCases
  <2>2. CASE WriteBoard(h) \/ PassTurn(h) \/ FinishStatus(h) \/ FinishResult(h) \/ InsertMove(h)
    <3>1. CASE call[h].sid = Watched
      BY <2>2, <3>1, WriteBoardIsAMove, PassTurnStutters, FinishStatusStutters,
         FinishResultStutters, InsertMoveStutters
    <3>2. CASE call[h].sid # Watched
      BY <2>2, <3>2, ElsewhereStutters
    <3> QED BY <3>1, <3>2
  <2> QED BY <2>1, <2>2, CreateStutters, SilentStutters
<1>2. CASE UNCHANGED vars
  BY <1>2 DEF vars, Game!vars, AbsBoard, AbsTurn, AbsStatus, AbsOutcome, Stored, Pending, MarkFor
<1> QED BY <1>1, <1>2

LEMMA InitRefines == ASSUME Init PROVE Game!Init
<1>1. Stored = NoSession
  BY WatchedAssumption DEF Init, Stored
<1> QED BY <1>1 DEF Game!Init, AbsBoard, AbsTurn, AbsStatus, AbsOutcome, Game!Grid, Game!Blank,
        NewBoard, Cells, Empty, MarkX

\* As long as no participant has two handlers that apply a move, every session
\* of the session manager implements the rules of one game, through all
\* interleavings of its steps.
THEOREM OrderlySessionsImplementGames == Spec /\ []OneMoverEach => GameRules
<1>1. OneMoverEach /\ GameInv /\ [Next]_vars => GameInv'
  BY NextGameInv
<1>2. OneMoverEach /\ GameInv /\ [Next]_vars => [Game!Next]_Game!vars
  BY StepRefines
<1>3. Init => Game!Init
  BY InitRefines
<1> QED BY <1>1, <1>2, <1>3, InitGameInv, PTL DEF Spec, GameRules, Game!Spec

\* One handler for each participant is enough for that.
THEOREM SessionsImplementGames ==
  ASSUME OneHandlerEach
  PROVE  Spec => GameRules
<1>1. OneMoverEach
  BY OneHandlerIsEnough
<1> QED BY <1>1, OrderlySessionsImplementGames, PTL

=============================================================================
