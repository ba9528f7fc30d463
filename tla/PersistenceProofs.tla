--------------------------- MODULE PersistenceProofs ---------------------------
(***************************************************************************)
(* Proofs about what the database holds: that it never contradicts the     *)
(* games, whatever fails and whenever the process ends, and that without   *)
(* failures it holds the result of every game.                             *)
(*                                                                         *)
(* They rest on the invariants of the session manager, GameInv and         *)
(* TurnsInv.  A handler whose statement takes effect has left no trace of  *)
(* it in memory that another handler could disturb meanwhile, because the  *)
(* turn is still its own.                                                  *)
(***************************************************************************)
EXTENDS Persistence, SessionManagerProofs

-----------------------------------------------------------------------------
(* Types.                                                                  *)

\* Types, with the reason why main never fails to connect once too often.
DbTypeInv ==
  /\ DbTypeOK /\ Located
  /\ process = "connecting" => attempts < MaxAttempts

LEMMA DbTypesInclude == DbTypeInv => TypeInv
BY DEF DbTypeInv, DbTypeOK, TypeInv

\* Whatever a handler does is a step of the session manager.
LEMMA HandlerSteps ==
  ASSUME NEW h \in Handlers, HandlerStep(h)
  PROVE  /\ Next
         /\ Input(h) \/ CreateStep(h) \/ ApplyMoveStep(h)
BY DEF HandlerStep, InsertSessionRow, InsertMoveRow, CompleteSessionRow, Next, CreateStep,
   ApplyMoveStep

LEMMA HandlerStepTypes ==
  ASSUME DbTypeInv, NEW h \in Handlers, HandlerStep(h), UNCHANGED server
  PROVE  DbTypeInv'
<1>1. TypeInv /\ TypeInv'
  BY HandlerSteps, NextTypeInv, DbTypesInclude
<1>2. /\ rows' \in [SessionIds -> Row \cup {NoRow}]
      /\ moves' \subseteq MoveRow
      /\ failed' \in BOOLEAN
  <2>1. CASE UNCHANGED tables
    BY <2>1 DEF tables, DbTypeInv, DbTypeOK
  <2>2. CASE Fails
    BY <2>2 DEF Fails, DbTypeInv, DbTypeOK
  <2>3. CASE InsertSessionRow(h) /\ ~Fails
    <3>1. ~At(h, "idle") /\ UNCHANGED <<moves, failed>>
      BY <2>3 DEF InsertSessionRow, InsertSession, At
    <3>2. PICK status \in {"active", CurrentSession(h).status} :
            rows' = [rows EXCEPT ![call[h].sid] = [status |-> status, winner |-> NoOne]]
      BY <2>3 DEF InsertSessionRow
    <3>3. [status |-> status, winner |-> NoOne] \in Row
      BY <1>1, <3>1, SessionOfCall DEF Session, Row
    <3> QED BY <3>1, <3>2, <3>3 DEF DbTypeInv, DbTypeOK
  <2>4. CASE InsertMoveRow(h) /\ ~Fails /\ ~UNCHANGED tables
    <3>1. ~At(h, "idle") /\ moves' = moves \cup {MoveOf(h)} /\ UNCHANGED <<rows, failed>>
      BY <2>4 DEF InsertMoveRow, InsertMove, At
    <3>2. MoveOf(h) \in MoveRow
      BY <1>1, <3>1, SessionOfCall, CountType, OwnerAssumption DEF MoveOf, MoveRow, MoveNumber, Call
    <3> QED BY <3>1, <3>2 DEF DbTypeInv, DbTypeOK
  <2>5. CASE CompleteSessionRow(h) /\ ~Fails
    <3>1. ~At(h, "idle") /\ UNCHANGED <<moves, failed>>
      BY <2>5 DEF CompleteSessionRow, CompleteSession, At
    <3>2. Result(CurrentSession(h)) \in Row
      BY <1>1, <3>1, SessionOfCall DEF Session, Row, Result
    <3>3. rows' = IF rows[call[h].sid] = NoRow THEN rows
                  ELSE [rows EXCEPT ![call[h].sid] = Result(CurrentSession(h))]
      BY <2>5 DEF CompleteSessionRow
    <3> QED BY <3>1, <3>2, <3>3 DEF DbTypeInv, DbTypeOK
  <2> QED BY <2>1, <2>2, <2>3, <2>4, <2>5 DEF HandlerStep
<1> QED BY <1>1, <1>2 DEF DbTypeInv, DbTypeOK, TypeInv, server

\* The process ends: the memory is as at the start of another.
LEMMA EndsInit ==
  ASSUME Ends
  PROVE  Init'
BY DEF Ends, Init

LEMMA InitTypesNext == Init' => TypeInv'
BY InitTypeInv, PTL

LEMMA NextDbTypeInv ==
  ASSUME DbTypeInv, [DbNext]_<<vars, dbVars>>
  PROVE  DbTypeInv'
<1>1. CASE process = "serving" /\ (\E h \in Handlers : HandlerStep(h)) /\ UNCHANGED server
  BY <1>1, HandlerStepTypes
<1>2. CASE StartUp \/ StartsAgain
  <2>1. UNCHANGED <<vars, tables, lost, interrupted>>
    BY <1>2 DEF StartUp, Connected, ConnectFails, WaitEnds, StartsAgain
  <2>2. /\ process' \in {"connecting", "waiting", "serving", "exited", "gaveUp"}
        /\ attempts' \in 0..MaxAttempts /\ starts' \in 0..MaxStarts
        /\ process' = "connecting" => attempts' < MaxAttempts
    BY <1>2, StartAssumption
       DEF StartUp, Connected, ConnectFails, WaitEnds, StartsAgain,
           DbTypeInv, DbTypeOK
  <2> QED BY <2>1, <2>2 DEF DbTypeInv, DbTypeOK, TypeOK, Located, At, CurrentSession, vars, tables
<1>3. CASE Ends
  <2>1. TypeInv'
    BY <1>3, EndsInit, InitTypesNext
  <2>2. /\ lost' \in [SessionIds -> Session \cup {NoSession}]
        /\ interrupted' \subseteq SessionIds
        /\ process' = "exited" /\ UNCHANGED <<tables, attempts, starts>>
    BY <1>3 DEF Ends, DbTypeInv, DbTypeOK, TypeOK, Call
  <2> QED BY <2>1, <2>2 DEF DbTypeInv, DbTypeOK, TypeInv, tables
<1>4. CASE UNCHANGED <<vars, dbVars>>
  BY <1>4 DEF vars, dbVars, tables, server, DbTypeInv, DbTypeOK, TypeOK, Located, At, CurrentSession
<1> QED BY <1>1, <1>2, <1>3, <1>4 DEF DbNext

LEMMA InitDbTypeInv == DbInit => DbTypeInv
<1> SUFFICES ASSUME DbInit PROVE DbTypeInv
  OBVIOUS
<1>1. TypeInv
  BY InitTypeInv DEF DbInit
<1>2. attempts \in 0..MaxAttempts /\ starts \in 0..MaxStarts /\ attempts < MaxAttempts
  BY StartAssumption DEF DbInit
<1>3. /\ rows \in [SessionIds -> Row \cup {NoRow}]
      /\ lost \in [SessionIds -> Session \cup {NoSession}]
  BY DEF DbInit
<1>4. /\ moves \subseteq MoveRow /\ interrupted \subseteq SessionIds /\ failed \in BOOLEAN
      /\ process \in {"connecting", "waiting", "serving", "exited", "gaveUp"}
  BY DEF DbInit
<1> QED BY <1>1, <1>2, <1>3, <1>4 DEF DbTypeInv, DbTypeOK, TypeInv

\* The database and the process stay within their types, and main gives up
\* after exactly maxAttempts.
THEOREM DbTypesHold == DbSpec => []DbTypeOK
<1>1. DbTypeInv /\ [DbNext]_<<vars, dbVars>> => DbTypeInv'
  BY NextDbTypeInv
<1>2. DbTypeInv => DbTypeOK
  BY DEF DbTypeInv
<1> QED BY <1>1, <1>2, InitDbTypeInv, PTL DEF DbSpec

-----------------------------------------------------------------------------
(* The sessions, in memory or as they were last.                           *)

\* A uuid is not used again: no session is both lost and in memory.
Gone == \A sid \in SessionIds : lost[sid] # NoSession => sessions[sid] = NoSession

MemoryInv == DbTypeInv /\ GameInv /\ TurnsInv /\ OpeningInv /\ Gone

\* The games of a process that has ended are not played on, those of the
\* present one are.
LEMMA GameInvNext ==
  ASSUME OneHandlerEach, MemoryInv, NEW h \in Handlers, HandlerStep(h)
  PROVE  GameInv' /\ TurnsInv' /\ OpeningInv'
BY HandlerSteps, NextGameInv, OneHandlerIsEnough, NextTurnsInv, NextOpeningInv DEF MemoryInv

LEMMA InitGameInvNext == Init' => GameInv' /\ TurnsInv' /\ OpeningInv'
BY InitGameInv, InitTurnsInv, InitOpeningInv, PTL

\* A mark stays where it is, and the players of a session are its for good,
\* even when the process has ended.
LEMMA MarksStay ==
  ASSUME MemoryInv, NEW h \in Handlers, HandlerStep(h), FreshIds, UNCHANGED server,
         NEW sid \in SessionIds, Truth(sid) # NoSession
  PROVE  /\ Truth(sid)' # NoSession
         /\ Truth(sid)'.x = Truth(sid).x /\ Truth(sid)'.o = Truth(sid).o
         /\ \A c \in Cells : Truth(sid).board[c] # Empty =>
              Truth(sid)'.board[c] = Truth(sid).board[c]
<1>1. TypeInv /\ lost' = lost
  BY DbTypesInclude DEF MemoryInv, server
<1>2. CASE sessions'[sid] = sessions[sid]
  <2>1. Truth(sid)' = Truth(sid)
    BY <1>1, <1>2 DEF Truth
  <2> QED BY <2>1
<1>3. CASE sessions'[sid] # sessions[sid]
  <2>1. CASE sessions[sid] = NoSession
    <3>1. lost[sid] = NoSession
      BY <1>3, <2>1 DEF FreshIds
    <3> QED BY <2>1, <3>1 DEF Truth
  <2>2. CASE sessions[sid] # NoSession
    <3>1. /\ sessions'[sid] # NoSession
          /\ sessions'[sid].x = sessions[sid].x /\ sessions'[sid].o = sessions[sid].o
          /\ \A c \in Cells : sessions[sid].board[c] # Empty =>
               sessions'[sid].board[c] = sessions[sid].board[c]
      BY <2>2, BoardGrows, HandlerSteps DEF MemoryInv, GameInv
    <3> QED BY <2>2, <3>1 DEF Truth
  <2> QED BY <2>1, <2>2
<1> QED BY <1>2, <1>3

\* A settled result is final.
LEMMA SettledStays ==
  ASSUME MemoryInv, NEW h \in Handlers, HandlerStep(h),
         NEW sid \in SessionIds, sessions[sid] # NoSession, Settled(sid)
  PROVE  /\ sessions'[sid] # NoSession /\ Settled(sid)'
         /\ sessions'[sid].status = sessions[sid].status
         /\ sessions'[sid].winner = sessions[sid].winner
<1>1. TypeInv
  BY DbTypesInclude DEF MemoryInv
<1>2. /\ sessions'[sid] # NoSession
      /\ sessions'[sid].status = sessions[sid].status
      /\ sessions'[sid].winner = sessions[sid].winner
  <2>1. CASE sessions'[sid] = sessions[sid]
    BY <2>1
  <2>2. CASE sessions'[sid] # sessions[sid]
    <3>1. WriteBoard(h) \/ PassTurn(h) \/ FinishStatus(h) \/ FinishResult(h)
      BY <1>1, <2>2, SessionsAfter, HandlerSteps
    <3> DEFINE c == call[h]
               s == sessions[sid]
               t == sessions'[sid]
    <3>2. /\ c.sid = sid /\ t \in Session
          /\ t.status = IF c.pc = "finish" THEN "completed" ELSE s.status
          /\ t.winner = IF c.pc = "result" THEN WinnerID(s, c.board) ELSE s.winner
      BY <1>1, <2>2, <3>1, FieldEffects
    <3>3. c.pc # "result" /\ s.status = "completed"
      BY <3>2 DEF Settled
    <3> QED BY <3>2, <3>3, NoSessionAssumption
  <2> QED BY <2>1, <2>2
<1>3. ASSUME NEW g \in Handlers, call'[g].sid = sid, call'[g].pc = "result" PROVE FALSE
  <2>1. CASE g # h
    <3>1. call'[g] = call[g]
      BY <1>1, <2>1, HandlerSteps, StepIsAlone DEF Alone
    <3> QED BY <1>3, <3>1 DEF Settled
  <2>2. CASE g = h
    <3>1. FinishStatus(h)
      BY <1>1, <1>3, <2>2, HandlerSteps, StepIsAlone
    <3>2. call[h].pc = "finish" /\ call[h].sid = sid
      BY <1>1, <1>3, <2>2, <3>1, FieldCalls DEF Moved
    <3>3. sessions[sid].status = "active"
      BY <3>2 DEF MemoryInv, GameInv, Orderly, Section, CurrentSession
    <3> QED BY <3>3 DEF Settled
  <2> QED BY <2>1, <2>2
<1> QED BY <1>2, <1>3 DEF Settled

LEMMA NextMemoryInv ==
  ASSUME OneHandlerEach, MemoryInv, [DbNext]_<<vars, dbVars>>
  PROVE  MemoryInv'
<1>1. DbTypeInv'
  BY NextDbTypeInv DEF MemoryInv
<1>2. CASE (\E h \in Handlers : HandlerStep(h)) /\ FreshIds /\ UNCHANGED server
  <2>1. GameInv' /\ TurnsInv' /\ OpeningInv'
    BY <1>2, GameInvNext
  <2>2. Gone'
    BY <1>2 DEF FreshIds, Gone, server
  <2> QED BY <1>1, <2>1, <2>2 DEF MemoryInv
<1>3. CASE Ends
  <2>1. GameInv' /\ TurnsInv' /\ OpeningInv'
    BY <1>3, EndsInit, InitGameInvNext
  <2>2. Gone'
    BY <1>3 DEF Ends, Gone
  <2> QED BY <1>1, <2>1, <2>2 DEF MemoryInv
<1>4. CASE UNCHANGED <<vars, lost>>
  <2>1. GameInv' /\ TurnsInv' /\ OpeningInv'
    BY <1>4, NextGameInv, OneHandlerIsEnough, NextTurnsInv, NextOpeningInv DEF MemoryInv
  <2>2. Gone'
    BY <1>4 DEF vars, Gone, MemoryInv
  <2> QED BY <1>1, <2>1, <2>2 DEF MemoryInv
<1> QED BY <1>2, <1>3, <1>4
        DEF DbNext, StartUp, Connected, ConnectFails, WaitEnds, StartsAgain, dbVars, server

LEMMA InitMemoryInv == DbInit => MemoryInv
BY InitDbTypeInv, InitGameInv, InitTurnsInv, InitOpeningInv DEF DbInit, MemoryInv, Gone

-----------------------------------------------------------------------------
(* The history of the moves.                                               *)

\* A row of moves tells of a mark on the board, with the right parity, and no
\* other row tells of it.
RowIsTrue(m) ==
  LET s == Truth(m.sid)
  IN  /\ s # NoSession
      /\ m.position \in Cells
      /\ s.board[m.position] = MarkFor(s, m.participant)
      /\ MarkFor(s, m.participant) # Empty
      /\ m.participant = s.x <=> m.number % 2 = 1
      /\ \A n \in moves : n.sid = m.sid /\ n.position = m.position => n = m

\* The mark a handler is about to insert is on its board, and on no row.
Unwritten(h) ==
  LET c == call[h]
  IN  c.pc = "insert" =>
        /\ c.position \in Cells /\ c.board[c.position] = c.mark
        /\ \A m \in moves : ~(m.sid = c.sid /\ m.position = c.position)

HistoryInv ==
  /\ \A m \in moves : RowIsTrue(m)
  /\ \A h \in Handlers : Unwritten(h)

LEMMA CountOfMarks ==
  ASSUME NEW b \in Boards
  PROVE  countMoves(b) = Cardinality(MarksOf(b, MarkX)) + Cardinality(MarksOf(b, MarkO))
<1> DEFINE X == MarksOf(b, MarkX)
           O == MarksOf(b, MarkO)
<1>1. {c \in Cells : b[c] # Empty} = X \cup O /\ X \cap O = {}
  BY DEF MarksOf, Boards, Marks, MarkX, MarkO, Empty
<1>2. /\ IsFiniteSet(X) /\ IsFiniteSet(O)
      /\ Cardinality(X) \in Nat /\ Cardinality(O) \in Nat
  BY MarksAreFinite
<1> HIDE DEF X, O
<1>3. Cardinality(X \cup O) = Cardinality(X) + Cardinality(O) - Cardinality(X \cap O)
  BY <1>2, FS_Union
<1>4. Cardinality(X \cap O) = 0
  BY <1>1, FS_EmptySet
<1> QED BY <1>1, <1>2, <1>3, <1>4 DEF countMoves, X, O

\* X makes the odd moves.
LEMMA OddMovesOfX ==
  ASSUME NEW b \in Boards, NEW mark \in Marks, Lead(b) = LeadAfter(mark)
  PROVE  countMoves(b) % 2 = 1 <=> mark = MarkX
<1>1. PICK x \in Nat : x = Cardinality(MarksOf(b, MarkX))
  BY MarksAreFinite
<1>2. PICK o \in Nat : o = Cardinality(MarksOf(b, MarkO))
  BY MarksAreFinite
<1>3. countMoves(b) = x + o /\ x - o = LeadAfter(mark)
  BY <1>1, <1>2, CountOfMarks DEF Lead
<1>4. CASE mark = MarkX
  <2>1. countMoves(b) = 2 * o + 1
    BY <1>3, <1>4 DEF LeadAfter
  <2> QED BY <1>4, <2>1
<1>5. CASE mark # MarkX
  <2>1. countMoves(b) = 2 * o
    BY <1>3, <1>5 DEF LeadAfter
  <2> QED BY <1>5, <2>1
<1> QED BY <1>4, <1>5

\* A row stays true as long as no other row tells of the same cell.
LEMMA RowStaysTrue ==
  ASSUME MemoryInv, HistoryInv, NEW h \in Handlers, HandlerStep(h), FreshIds, UNCHANGED server,
         NEW m \in moves,
         \A n \in moves' \ moves : ~(n.sid = m.sid /\ n.position = m.position)
  PROVE  RowIsTrue(m)'
<1>1. RowIsTrue(m) /\ m.sid \in SessionIds
  BY DEF HistoryInv, MemoryInv, DbTypeInv, DbTypeOK, MoveRow
<1>2. /\ Truth(m.sid)' # NoSession
      /\ Truth(m.sid)'.x = Truth(m.sid).x /\ Truth(m.sid)'.o = Truth(m.sid).o
      /\ \A c \in Cells : Truth(m.sid).board[c] # Empty =>
           Truth(m.sid)'.board[c] = Truth(m.sid).board[c]
  BY <1>1, MarksStay DEF RowIsTrue
<1>3. MarkFor(Truth(m.sid)', m.participant) = MarkFor(Truth(m.sid), m.participant)
  BY <1>2 DEF MarkFor
<1> DEFINE t == Truth(m.sid)'
<1>4. /\ t # NoSession /\ m.position \in Cells
      /\ t.board[m.position] = MarkFor(t, m.participant) /\ MarkFor(t, m.participant) # Empty
      /\ m.participant = t.x <=> m.number % 2 = 1
  BY <1>1, <1>2, <1>3 DEF RowIsTrue
<1>5. \A n \in moves' : n.sid = m.sid /\ n.position = m.position => n = m
  BY <1>1 DEF RowIsTrue
<1> HIDE DEF t
<1> QED BY <1>4, <1>5 DEF RowIsTrue, t

\* The row of a move.
LEMMA NewRowIsTrue ==
  ASSUME MemoryInv, HistoryInv, NEW h \in Handlers, InsertMove(h), UNCHANGED server,
         NEW m, m = MoveOf(h), moves' = moves \cup {m}
  PROVE  RowIsTrue(m)'
<1> DEFINE c == call[h]
           s == sessions[c.sid]
<1>1. TypeInv /\ c.pc = "insert" /\ c.pc \in Busy /\ c.pc \in Section /\ UNCHANGED sessions
  BY DbTypesInclude DEF MemoryInv, InsertMove, At, Busy, Section
<1>2. /\ s # NoSession /\ s \in Session /\ s.board \in Boards /\ c.mark \in Marks
      /\ Lead(s.board) = LeadAfter(c.mark)
  BY <1>1, BusyTurn DEF MemoryInv, HasPlaced
<1>3. c.mark = MarkFor(s, Owner[h]) /\ s.board = c.board
  BY <1>1 DEF MemoryInv, GameInv, LockInv, TurnIsHeld, HoldsTurn, Orderly, CurrentSession
<1>4. c.position \in Cells /\ c.board[c.position] = c.mark
      /\ \A n \in moves : ~(n.sid = c.sid /\ n.position = c.position)
  BY <1>1 DEF HistoryInv, Unwritten
<1>5. /\ m.sid = c.sid /\ m.participant = Owner[h] /\ m.position = c.position
      /\ m.number = countMoves(c.board)
  BY DEF MoveOf, MoveNumber
<1>6. Truth(m.sid)' = s
  BY <1>1, <1>2, <1>5 DEF Truth
<1>7. s.board[m.position] = MarkFor(s, m.participant) /\ MarkFor(s, m.participant) # Empty
  BY <1>2, <1>3, <1>4, <1>5 DEF Marks, MarkX, MarkO, Empty
<1>8. m.participant = s.x <=> m.number % 2 = 1
  <2>1. c.mark = MarkX <=> Owner[h] = s.x
    BY <1>2, <1>3 DEF MarkFor, Marks, MarkX, MarkO, Empty
  <2>2. countMoves(c.board) % 2 = 1 <=> c.mark = MarkX
    BY <1>2, <1>3, OddMovesOfX
  <2> QED BY <1>5, <2>1, <2>2
<1>9. \A n \in moves' : n.sid = m.sid /\ n.position = m.position => n = m
  BY <1>4, <1>5
<1> QED BY <1>2, <1>4, <1>5, <1>6, <1>7, <1>8, <1>9 DEF RowIsTrue

\* Only a move is added to the table, by a handler at its statement.
LEMMA MovesAfter ==
  ASSUME NEW h \in Handlers, HandlerStep(h)
  PROVE  \/ UNCHANGED moves
         \/ InsertMove(h) /\ moves' = moves \cup {MoveOf(h)}
BY DEF HandlerStep, InsertSessionRow, InsertMoveRow, CompleteSessionRow, Fails, tables

LEMMA HandlerHistory ==
  ASSUME OneHandlerEach, MemoryInv, HistoryInv, NEW h \in Handlers, HandlerStep(h), FreshIds,
         UNCHANGED server
  PROVE  HistoryInv'
<1>1. TypeInv /\ Alone(h) /\ (call'[h].pc = "insert" => WriteBoard(h))
  BY HandlerSteps, StepIsAlone, DbTypesInclude DEF MemoryInv
<1>2. \A m \in moves' \ moves : /\ InsertMove(h) /\ m = MoveOf(h) /\ m.sid = call[h].sid
                                /\ m.position = call[h].position /\ call[h].pc = "insert"
  BY MovesAfter DEF MoveOf, InsertMove, At
<1>3. ASSUME NEW m \in moves' PROVE RowIsTrue(m)'
  <2>1. CASE m \in moves
    <3>1. \A n \in moves' \ moves : ~(n.sid = m.sid /\ n.position = m.position)
      BY <1>2, <2>1 DEF HistoryInv, Unwritten
    <3> QED BY <2>1, <3>1, RowStaysTrue
  <2>2. CASE m \notin moves
    <3>1. InsertMove(h) /\ moves' = moves \cup {MoveOf(h)} /\ m = MoveOf(h)
      BY <1>2, <2>2, <1>3, MovesAfter
    <3> QED BY <3>1, NewRowIsTrue
  <2> QED BY <2>1, <2>2
<1>4. ASSUME NEW g \in Handlers \ {h} PROVE Unwritten(g)'
  <2>1. call'[g] = call[g] /\ Unwritten(g)
    BY <1>1 DEF Alone, HistoryInv
  <2>2. ASSUME call[g].pc = "insert", NEW m \in moves' \ moves PROVE m.sid # call[g].sid
    <3>1. m.sid = call[h].sid /\ call[h].pc = "insert"
      BY <1>2, <2>2
    <3> QED BY <2>2, <3>1, BusyIsExclusive, OneHandlerIsEnough DEF MemoryInv, Busy, Section
  <2> QED BY <2>1, <2>2 DEF Unwritten
<1>5. Unwritten(h)'
  <2> SUFFICES ASSUME call'[h].pc = "insert" PROVE Unwritten(h)'
    BY DEF Unwritten
  <2> DEFINE c == call[h]
             s == sessions[c.sid]
  <2>1. c.pc = "write" /\ Moved(h, "insert")
    BY <1>1, FieldCalls
  <2>2. s.board[c.position] = Empty /\ c.board = ApplyMove(s.board, c.position, c.mark)
        /\ c.position \in Cells
    BY <2>1 DEF MemoryInv, GameInv, LockInv, WriteIsFresh, FreshWrite, CurrentSession, At, Orderly
  <2>3. s # NoSession /\ s.board \in Boards
    BY <2>1, BusyTurn DEF MemoryInv, Busy, Section
  <2>4. c.board[c.position] = c.mark
    BY <2>2, <2>3 DEF ApplyMove, Boards
  <2>5. UNCHANGED moves
    BY <1>2, <2>1, MovesAfter DEF InsertMove, At
  <2>6. ASSUME NEW m \in moves, m.sid = c.sid, m.position = c.position PROVE FALSE
    <3>1. RowIsTrue(m) /\ Truth(m.sid) = s
      BY <2>3, <2>6 DEF HistoryInv, Truth
    <3> QED BY <2>2, <2>6, <3>1 DEF RowIsTrue
  <2> QED BY <2>1, <2>2, <2>4, <2>5, <2>6 DEF Unwritten, Moved
<1> QED BY <1>3, <1>4, <1>5 DEF HistoryInv

\* The end of the process changes what the history is about in no way.
LEMMA TruthSurvives ==
  ASSUME Ends, NEW sid \in SessionIds
  PROVE  Truth(sid)' = Truth(sid)
BY DEF Ends, Truth

LEMMA NextHistoryInv ==
  ASSUME OneHandlerEach, MemoryInv, HistoryInv, [DbNext]_<<vars, dbVars>>
  PROVE  HistoryInv'
<1>1. CASE (\E h \in Handlers : HandlerStep(h)) /\ FreshIds /\ UNCHANGED server
  BY <1>1, HandlerHistory
<1>2. CASE Ends
  <2>1. moves' = moves /\ \A h \in Handlers : call'[h].pc = "idle"
    BY <1>2 DEF Ends, Idle, tables
  <2>2. ASSUME NEW m \in moves PROVE RowIsTrue(m)'
    <3>1. Truth(m.sid)' = Truth(m.sid)
      BY <1>2, TruthSurvives DEF MemoryInv, DbTypeInv, DbTypeOK, MoveRow
    <3> QED BY <2>1, <3>1 DEF HistoryInv, RowIsTrue
  <2> QED BY <2>1, <2>2 DEF HistoryInv, Unwritten
<1>3. CASE UNCHANGED <<vars, lost, moves>>
  BY <1>3 DEF vars, HistoryInv, RowIsTrue, Unwritten, Truth
<1> QED BY <1>1, <1>2, <1>3
        DEF DbNext, StartUp, Connected, ConnectFails, WaitEnds, StartsAgain, dbVars, tables, server

\* When no participant has two handlers, the table of moves never contradicts
\* the games: whatever statement fails, and whenever the process ends.
THEOREM TrueHistory ==
  ASSUME OneHandlerEach
  PROVE  DbSpec => []HistoryIsTrue
<1>1. DbInit => HistoryInv
  BY DEF DbInit, Init, HistoryInv, Unwritten, Idle
<1>2. MemoryInv /\ HistoryInv /\ [DbNext]_<<vars, dbVars>> => MemoryInv' /\ HistoryInv'
  BY NextMemoryInv, NextHistoryInv
<1>3. HistoryInv => HistoryIsTrue
  BY DEF HistoryInv, RowIsTrue, HistoryIsTrue
<1> QED BY <1>1, <1>2, <1>3, InitMemoryInv, PTL DEF DbSpec

-----------------------------------------------------------------------------
(* The results.                                                            *)

\* A row that says completed tells a result nobody will change any more.
ResultTold(sid) ==
  rows[sid] # NoRow /\ rows[sid].status = "completed" =>
    /\ Truth(sid) # NoSession
    /\ Truth(sid).status = "completed" /\ rows[sid].winner = Truth(sid).winner
    /\ sessions[sid] # NoSession => Settled(sid)

\* A handler that has still to write the row of sid, or its result.
Creating(sid) == \E h \in Handlers : call[h].sid = sid /\ call[h].pc = "insertSession"
IsCompleting(c) == c.pc \in {"result", "save", "complete"} /\ Over(c.board)
Completing(sid) == \E h \in Handlers : call[h].sid = sid /\ IsCompleting(call[h])

\* Without failures the row of a session agrees with it, but for what the calls
\* in flight have still to write.
Recorded(sid) ==
  ~failed /\ sessions[sid] # NoSession =>
    \/ Creating(sid)
    \/ rows[sid] = Result(sessions[sid])
    \/ rows[sid] # NoRow /\ Completing(sid)

RecordedForGood(sid) ==
  ~failed /\ lost[sid] # NoSession /\ sid \notin interrupted => rows[sid] = Result(lost[sid])

\* While a session is being inserted it is active and has no result.
LEMMA CreatingIsActive ==
  ASSUME MemoryInv, NEW h \in Handlers, call[h].pc = "insertSession"
  PROVE  /\ CurrentSession(h) \in Session /\ call[h].sid \in SessionIds
         /\ CurrentSession(h) # NoSession
         /\ CurrentSession(h).status = "active" /\ CurrentSession(h).winner = NoOne
<1>1. /\ call[h].sid \in SessionIds /\ CurrentSession(h) \in Session
      /\ CurrentSession(h) # NoSession
  BY DbTypesInclude, SessionOfCall, NoSessionAssumption DEF MemoryInv, At
<1>2. CurrentSession(h).status = "active"
  BY DEF MemoryInv, OpeningInv, Opening
<1>3. CurrentSession(h).winner = NoOne
  BY <1>1, <1>2 DEF MemoryInv, GameInv, Undecided, CurrentSession
<1> QED BY <1>1, <1>2, <1>3

\* When the result is written it is settled.
LEMMA CompleteIsSettled ==
  ASSUME MemoryInv, NEW h \in Handlers, call[h].pc = "complete"
  PROVE  /\ CurrentSession(h) \in Session /\ call[h].sid \in SessionIds
         /\ CurrentSession(h) # NoSession
         /\ Settled(call[h].sid)
<1>1. /\ call[h].sid \in SessionIds /\ CurrentSession(h) \in Session
      /\ CurrentSession(h) # NoSession
  BY DbTypesInclude, SessionOfCall, NoSessionAssumption DEF MemoryInv, At
<1> QED BY <1>1 DEF MemoryInv, TurnsInv, Timely

\* What a handler does to the rows: the two statements on the table sessions,
\* when they take effect.
LEMMA RowsAfter ==
  ASSUME MemoryInv, NEW h \in Handlers, HandlerStep(h)
  PROVE  LET c == call[h]
         IN  /\ c.pc = "insertSession" /\ ~failed' =>
                  rows' = [rows EXCEPT ![c.sid] = [status |-> "active", winner |-> NoOne]]
             /\ c.pc = "complete" /\ ~failed' =>
                  rows' = IF rows[c.sid] = NoRow THEN rows
                          ELSE [rows EXCEPT ![c.sid] = Result(CurrentSession(h))]
             /\ c.pc \in {"insertSession", "complete"} =>
                  UNCHANGED sessions /\ Alone(h)
             /\ c.pc \notin {"insertSession", "complete"} => rows' = rows
             /\ failed => failed'
             /\ \/ UNCHANGED rows
                \/ /\ c.pc = "insertSession"
                   /\ rows' = [rows EXCEPT ![c.sid] = [status |-> "active", winner |-> NoOne]]
                \/ /\ c.pc = "complete"
                   /\ rows' = [rows EXCEPT ![c.sid] = Result(CurrentSession(h))]
<1>1. TypeInv /\ Alone(h)
  BY HandlerSteps, StepIsAlone, DbTypesInclude DEF MemoryInv
<1>2. CASE InsertSessionRow(h)
  <2>1. call[h].pc = "insertSession" /\ UNCHANGED sessions
    BY <1>2 DEF InsertSessionRow, InsertSession, At
  <2>2. CurrentSession(h).status = "active"
    BY <2>1, CreatingIsActive
  <2> QED BY <1>1, <1>2, <2>1, <2>2 DEF InsertSessionRow, Fails
<1>3. CASE CompleteSessionRow(h)
  <2>1. call[h].pc = "complete" /\ UNCHANGED sessions
    BY <1>3 DEF CompleteSessionRow, CompleteSession, At
  <2> QED BY <1>1, <1>3, <2>1 DEF CompleteSessionRow, Fails
<1>4. CASE InsertMoveRow(h)
  <2>1. call[h].pc = "insert" /\ rows' = rows /\ (failed => failed')
    BY <1>4 DEF InsertMoveRow, InsertMove, At, Fails, tables
  <2> QED BY <2>1
<1>5. CASE ~Waiting(h) /\ UNCHANGED tables
  BY <1>5 DEF Waiting, tables
<1> QED BY <1>2, <1>3, <1>4, <1>5 DEF HandlerStep

LEMMA HandlerResultTold ==
  ASSUME MemoryInv, NEW h \in Handlers, HandlerStep(h), FreshIds, UNCHANGED server,
         NEW sid \in SessionIds, ResultTold(sid)
  PROVE  ResultTold(sid)'
<1> DEFINE c == call[h]
<1>1. /\ TypeInv /\ lost' = lost /\ rows \in [SessionIds -> Row \cup {NoRow}]
  BY DbTypesInclude DEF MemoryInv, server, DbTypeInv, DbTypeOK
<1>2. CASE rows'[sid] = rows[sid]
  <2> SUFFICES ASSUME rows[sid] # NoRow, rows[sid].status = "completed" PROVE ResultTold(sid)'
    BY <1>2 DEF ResultTold
  <2>1. /\ Truth(sid) # NoSession /\ Truth(sid).status = "completed"
        /\ rows[sid].winner = Truth(sid).winner
        /\ sessions[sid] # NoSession => Settled(sid)
    BY DEF ResultTold
  <2>2. CASE sessions[sid] # NoSession
    <3>1. /\ sessions'[sid] # NoSession /\ Settled(sid)'
          /\ sessions'[sid].status = sessions[sid].status
          /\ sessions'[sid].winner = sessions[sid].winner
      BY <2>1, <2>2, SettledStays
    <3> QED BY <1>2, <2>1, <2>2, <3>1 DEF ResultTold, Truth
  <2>3. CASE sessions[sid] = NoSession
    <3>1. sessions'[sid] = NoSession
      BY <2>1, <2>3 DEF Truth, FreshIds
    <3> QED BY <1>1, <1>2, <2>1, <2>3, <3>1 DEF ResultTold, Truth
  <2> QED BY <2>2, <2>3
<1>3. CASE c.pc = "insertSession" /\ sid = c.sid
           /\ rows' = [rows EXCEPT ![c.sid] = [status |-> "active", winner |-> NoOne]]
  <2>1. rows'[sid].status = "active"
    BY <1>1, <1>3
  <2> QED BY <2>1 DEF ResultTold
<1>4. CASE c.pc = "complete" /\ sid = c.sid
           /\ rows' = [rows EXCEPT ![c.sid] = Result(CurrentSession(h))]
  <2>1. sessions[sid] # NoSession /\ Settled(sid)
    BY <1>4, CompleteIsSettled DEF CurrentSession
  <2>2. /\ sessions'[sid] # NoSession /\ Settled(sid)'
        /\ sessions'[sid].status = "completed"
        /\ sessions'[sid].winner = sessions[sid].winner
    BY <2>1, SettledStays DEF Settled
  <2>3. rows'[sid].winner = sessions[sid].winner
    BY <1>1, <1>4 DEF Result, CurrentSession
  <2> QED BY <2>2, <2>3 DEF ResultTold, Truth
<1> QED BY <1>1, <1>2, <1>3, <1>4, RowsAfter

\* Only Create makes a session.
LEMMA NewSessionIsCreated ==
  ASSUME TypeInv, NEW h \in Handlers, Input(h) \/ CreateStep(h) \/ ApplyMoveStep(h),
         NEW sid \in SessionIds, sessions[sid] = NoSession, sessions'[sid] # NoSession
  PROVE  \E t \in SessionIds, x \in Participants : Create(h, t, x, Owner[h])
<1>1. CASE (\E t \in SessionIds : \E n \in 0..9 : \E position \in PositionsAt[n] :
               ReceiveMove(h, t, position))
           \/ CreateStep(h) \/ ApplyMoveStep(h)
  BY <1>1, PlayersKept
<1> QED BY <1>1 DEF Input

\* A call that completes a game goes on until its result is written.
LEMMA CompletingGoesOn ==
  ASSUME TypeInv, NEW h \in Handlers, Input(h) \/ CreateStep(h) \/ ApplyMoveStep(h),
         IsCompleting(call[h]), call[h].pc # "complete"
  PROVE  call'[h].sid = call[h].sid /\ IsCompleting(call'[h])
<1>1. FinishResult(h) \/ SaveSession(h)
  BY DEF IsCompleting, Input, CreateStep, ApplyMoveStep, Create, ReceiveMove, InsertSession,
     AnnounceStart, CheckTurn, RefuseTurn, ComputeBoard, RefusePosition, WriteBoard, InsertMove,
     PassTurn, FinishStatus, CompleteSession, Reply, At
<1>2. CASE FinishResult(h)
  BY <1>2, FieldCalls DEF Moved, IsCompleting
<1>3. CASE SaveSession(h)
  BY <1>3, QuietEffects DEF Moved, IsCompleting
<1> QED BY <1>1, <1>2, <1>3

LEMMA HandlerRecorded ==
  ASSUME OneHandlerEach, MemoryInv, NEW h \in Handlers, HandlerStep(h), FreshIds,
         UNCHANGED server, NEW sid \in SessionIds, Recorded(sid)
  PROVE  Recorded(sid)'
<1> DEFINE c == call[h]
<1>1. /\ TypeInv /\ rows \in [SessionIds -> Row \cup {NoRow}] /\ Alone(h)
      /\ call'[h].pc = "insertSession" => \E t \in SessionIds, x \in Participants \ {Owner[h]} :
           Create(h, t, x, Owner[h])
  BY HandlerSteps, StepIsAlone, DbTypesInclude DEF MemoryInv, DbTypeInv, DbTypeOK
<1> SUFFICES ASSUME ~failed', sessions'[sid] # NoSession PROVE Recorded(sid)'
  BY DEF Recorded
<1>2. ~failed
  BY RowsAfter
<1>3. CASE sessions[sid] = NoSession
  <2>1. PICK t \in SessionIds, x \in Participants : Create(h, t, x, Owner[h])
    BY <1>1, <1>3, NewSessionIsCreated, HandlerSteps
  <2>2. call'[h].pc = "insertSession" /\ call'[h].sid = t
        /\ \A u \in SessionIds \ {t} : sessions'[u] = sessions[u]
    BY <1>1, <2>1, CreateEffects, OwnerAssumption
  <2>3. Creating(sid)'
    BY <1>3, <2>2 DEF Creating
  <2> QED BY <2>3 DEF Recorded
<1>4. CASE sessions[sid] # NoSession
  <2>1. CASE Creating(sid)
    <3>1. PICK g \in Handlers : call[g].sid = sid /\ call[g].pc = "insertSession"
      BY <2>1 DEF Creating
    <3>2. CASE g = h
      <4>1. rows' = [rows EXCEPT ![sid] = [status |-> "active", winner |-> NoOne]]
            /\ UNCHANGED sessions
        BY <3>1, <3>2, RowsAfter
      <4>2. sessions[sid].status = "active" /\ sessions[sid].winner = NoOne
        BY <3>1, <3>2, CreatingIsActive DEF CurrentSession
      <4>3. rows'[sid] = Result(sessions'[sid])
        BY <1>1, <4>1, <4>2 DEF Result
      <4> QED BY <4>3 DEF Recorded
    <3>3. CASE g # h
      <4>1. Creating(sid)'
        BY <1>1, <3>1, <3>3 DEF Creating, Alone
      <4> QED BY <4>1 DEF Recorded
    <3> QED BY <3>2, <3>3
  <2>2. CASE ~Creating(sid) /\ c.pc = "complete" /\ c.sid = sid
    <3>1. rows[sid] # NoRow
      <4>1. Result(sessions[sid]) \in Row
        BY <2>2, CompleteIsSettled DEF Result, Row, Session, CurrentSession
      <4> QED BY <1>2, <1>4, <2>2, <4>1, NotARow DEF Recorded
    <3>2. rows'[sid] = Result(sessions[sid]) /\ UNCHANGED sessions
      BY <1>1, <2>2, <3>1, RowsAfter DEF CurrentSession
    <3> QED BY <3>2 DEF Recorded
  <2>3. CASE ~Creating(sid) /\ ~(c.pc = "complete" /\ c.sid = sid)
    <3>1. rows'[sid] = rows[sid]
      BY <1>1, <2>3, RowsAfter DEF Creating
    <3>2. rows[sid] = Result(sessions[sid]) \/ (rows[sid] # NoRow /\ Completing(sid))
      BY <1>2, <1>4, <2>3 DEF Recorded
    <3>3. CASE rows[sid] # NoRow /\ Completing(sid)
      <4>1. PICK g \in Handlers : call[g].sid = sid /\ IsCompleting(call[g])
        BY <3>3 DEF Completing
      <4>2. call'[g].sid = sid /\ IsCompleting(call'[g])
        <5>1. CASE g # h
          BY <1>1, <4>1, <5>1 DEF Alone
        <5>2. CASE g = h
          BY <1>1, <2>3, <4>1, <5>2, CompletingGoesOn, HandlerSteps
        <5> QED BY <5>1, <5>2
      <4>3. Completing(sid)'
        BY <4>2 DEF Completing, IsCompleting
      <4> QED BY <3>1, <3>3, <4>3 DEF Recorded
    <3>4. CASE rows[sid] = Result(sessions[sid]) /\ Result(sessions'[sid]) = Result(sessions[sid])
      BY <3>1, <3>4 DEF Recorded
    <3>5. CASE rows[sid] = Result(sessions[sid]) /\ Result(sessions'[sid]) # Result(sessions[sid])
      <4>1. /\ WriteBoard(h) \/ PassTurn(h) \/ FinishStatus(h) \/ FinishResult(h)
        BY <1>1, <1>4, <3>5, SessionsAfter, HandlerSteps
      <4>2. c.sid = sid /\ sessions[sid] \in Session /\ c.pc \in {"finish", "result"}
        BY <1>1, <3>5, <4>1, FieldEffects, FieldCalls DEF Result
      <4>3. (FinishStatus(h) /\ Moved(h, "result")) \/ (FinishResult(h) /\ Moved(h, "save"))
        BY <1>1, <4>1, <4>2, FieldCalls
      <4>4. Over(c.board)
        BY <4>2 DEF MemoryInv, GameInv, Orderly
      <4>5. call'[h].sid = sid /\ IsCompleting(call'[h])
        BY <4>2, <4>3, <4>4 DEF Moved, IsCompleting
      <4>6. Completing(sid)'
        BY <4>5 DEF Completing, IsCompleting
      <4>7. rows[sid] # NoRow
        BY <3>5, <4>2, NotARow DEF Result, Row, Session
      <4> QED BY <3>1, <4>6, <4>7 DEF Recorded
    <3> QED BY <3>2, <3>3, <3>4, <3>5
  <2> QED BY <2>1, <2>2, <2>3
<1> QED BY <1>3, <1>4

ResultsInv ==
  \A sid \in SessionIds : ResultTold(sid) /\ Recorded(sid) /\ RecordedForGood(sid)

\* The process ends: the sessions no handler was working on are on record.
LEMMA EndsResults ==
  ASSUME MemoryInv, ResultsInv, Ends
  PROVE  ResultsInv'
<1> SUFFICES ASSUME NEW sid \in SessionIds
             PROVE  ResultTold(sid)' /\ Recorded(sid)' /\ RecordedForGood(sid)'
  BY DEF ResultsInv
<1>1. /\ sessions'[sid] = NoSession /\ rows' = rows /\ failed' = failed
      /\ lost'[sid] = IF sessions[sid] = NoSession THEN lost[sid] ELSE sessions[sid]
      /\ interrupted' = interrupted \cup ({call[h].sid : h \in Handlers} \ {NoSession})
  BY DEF Ends, tables
<1>2. ResultTold(sid) /\ Recorded(sid) /\ RecordedForGood(sid)
  BY DEF ResultsInv
<1>3. ResultTold(sid)'
  <2>1. Truth(sid)' = Truth(sid)
    BY TruthSurvives
  <2> QED BY <1>1, <1>2, <2>1 DEF ResultTold
<1>4. Recorded(sid)'
  BY <1>1 DEF Recorded
<1>5. RecordedForGood(sid)'
  <2> SUFFICES ASSUME ~failed, lost'[sid] # NoSession, sid \notin interrupted'
               PROVE  rows[sid] = Result(lost'[sid])
    BY <1>1 DEF RecordedForGood
  <2>1. \A h \in Handlers : call[h].sid # sid
    BY <1>1, NoneAssumption
  <2>2. CASE sessions[sid] = NoSession
    BY <1>1, <1>2, <2>2 DEF RecordedForGood
  <2>3. CASE sessions[sid] # NoSession
    BY <1>1, <1>2, <2>1, <2>3 DEF Recorded, Creating, Completing
  <2> QED BY <2>2, <2>3
<1> QED BY <1>3, <1>4, <1>5

LEMMA NextResultsInv ==
  ASSUME OneHandlerEach, MemoryInv, ResultsInv, [DbNext]_<<vars, dbVars>>
  PROVE  ResultsInv'
<1>1. CASE (\E h \in Handlers : HandlerStep(h)) /\ FreshIds /\ UNCHANGED server
  <2>1. PICK h \in Handlers : HandlerStep(h)
    BY <1>1
  <2>2. ASSUME NEW sid \in SessionIds PROVE RecordedForGood(sid)'
    <3>1. lost' = lost /\ interrupted' = interrupted /\ (failed => failed')
      BY <1>1, <2>1, RowsAfter DEF server
    <3>2. ASSUME lost[sid] # NoSession PROVE rows'[sid] = rows[sid]
      <4>1. sessions[sid] = NoSession
        BY <3>2 DEF MemoryInv, Gone
      <4>2. call[h].pc \in {"insertSession", "complete"} => call[h].sid # sid
        BY <4>1, CreatingIsActive, CompleteIsSettled DEF CurrentSession
      <4> QED BY <2>1, <4>2, RowsAfter DEF MemoryInv, DbTypeInv, DbTypeOK
    <3> QED BY <3>1, <3>2 DEF ResultsInv, RecordedForGood
  <2> QED BY <1>1, <2>1, <2>2, HandlerResultTold, HandlerRecorded DEF ResultsInv
<1>2. CASE Ends
  BY <1>2, EndsResults
<1>3. CASE UNCHANGED <<vars, lost, rows, failed, interrupted>>
  BY <1>3 DEF vars, ResultsInv, ResultTold, Recorded, RecordedForGood, Truth, Settled, Creating,
     Completing, IsCompleting
<1> QED BY <1>1, <1>2, <1>3
        DEF DbNext, StartUp, Connected, ConnectFails, WaitEnds, StartsAgain, dbVars, tables, server

LEMMA ResultsHold ==
  ASSUME OneHandlerEach
  PROVE  DbSpec => [](MemoryInv /\ ResultsInv)
<1>1. DbInit => ResultsInv
  BY DEF DbInit, Init, ResultsInv, ResultTold, Recorded, RecordedForGood
<1>2. MemoryInv /\ ResultsInv /\ [DbNext]_<<vars, dbVars>> => MemoryInv' /\ ResultsInv'
  BY NextMemoryInv, NextResultsInv
<1> QED BY <1>1, <1>2, InitMemoryInv, PTL DEF DbSpec

\* When no participant has two handlers, a row that says completed tells the
\* result of the game, and goes on telling it.
THEOREM TrueResults ==
  ASSUME OneHandlerEach
  PROVE  DbSpec => []ResultIsTrue
<1>1. ResultsInv => ResultIsTrue
  BY DEF ResultsInv, ResultTold, ResultIsTrue
<1> QED BY <1>1, ResultsHold, PTL

\* And as long as no statement fails, the result of every game is on record as
\* soon as its last call has returned, whenever the process ends.
THEOREM ResultsAreKept ==
  ASSUME OneHandlerEach
  PROVE  DbSpec => []ResultIsKept
<1>1. ResultsInv => ResultIsKept
  <2> SUFFICES ASSUME ResultsInv, NEW sid \in SessionIds \ interrupted, ~failed,
                      Truth(sid) # NoSession, \A h \in Handlers : At(h, "idle")
               PROVE  rows[sid] = Result(Truth(sid))
    BY DEF ResultIsKept, Result
  <2>1. Recorded(sid) /\ RecordedForGood(sid)
    BY DEF ResultsInv
  <2>2. ~Creating(sid) /\ ~Completing(sid)
    BY DEF Creating, Completing, IsCompleting, At
  <2> QED BY <2>1, <2>2 DEF Recorded, RecordedForGood, Truth
<1> QED BY <1>1, ResultsHold, PTL

=============================================================================
