-------------------------- MODULE SessionManagerProofs --------------------------
(***************************************************************************)
(* Proofs about the session manager, for any sets of participants,         *)
(* handlers and sessions and for any positions the clients send:           *)
(*                                                                         *)
(*   TypeInv       types, and calls are about sessions that exist          *)
(*   RecoveryInv   the index of the store leads to current games           *)
(*   LockInv       the turn is a lock, and protects the board              *)
(*   GameInv       ApplyMove, from the turn check to the stored result     *)
(*   GaugeInv      the gauge is off by the calls in flight                 *)
(*   TurnsInv      the marks alternate                                     *)
(*   OpeningInv    a game that is being created has not been answered yet  *)
(*                                                                         *)
(* The first two hold for any number of handlers of a participant, the     *)
(* next ones when one of them moves at a time, the last when there is one. *)
(***************************************************************************)
EXTENDS SessionManager, FiniteSetTheorems, TLAPS

\* Types together with the existence of the session a call works on.
TypeInv == TypeOK /\ Located

-----------------------------------------------------------------------------
(* The operators of the engine and the store.                              *)

\* A placement keeps the board a board, whatever the position.
LEMMA ApplyMoveType ==
  ASSUME NEW b \in Boards, NEW position, NEW mark \in Marks \cup {Empty}
  PROVE  ApplyMove(b, position, mark) \in Boards
BY DEF ApplyMove, Boards

\* SaveSession only ever indexes the session it saves.
LEMMA IndexAfterSaveType ==
  ASSUME NEW index \in [Participants -> SessionIds \cup {NoSession}],
         NEW sid \in SessionIds, NEW s
  PROVE  IndexAfterSave(index, sid, s) \in [Participants -> SessionIds \cup {NoSession}]
BY DEF IndexAfterSave

LEMMA NewSessionType ==
  ASSUME NEW x \in Participants, NEW o \in Participants
  PROVE  NewSession(x, o) \in Session
BY DEF NewSession, Session, NewBoard, Boards, Marks, Empty, MarkX

LEMMA IdleType == Idle \in Call
BY DEF Idle, Call, Pcs, NewBoard, Boards, Empty

LEMMA InitTypeInv == Init => TypeInv
BY IdleType DEF Init, TypeInv, TypeOK, Located, At, Idle

-----------------------------------------------------------------------------
(* Each kind of step keeps the types.                                      *)

\* A handler moves on, and the session of its call is still there.
LEMMA CallMoves ==
  ASSUME TypeInv, NEW h \in Handlers, NEW new \in Call,
         call' = [call EXCEPT ![h] = new],
         sessions' \in [SessionIds -> Session \cup {NoSession}],
         sessionByParticipant' \in [Participants -> SessionIds \cup {NoSession}],
         activeGames' \in Int,
         \A sid \in SessionIds : sessions[sid] # NoSession => sessions'[sid] # NoSession,
         new.pc # "idle" => new.sid \in SessionIds /\ sessions'[new.sid] # NoSession
  PROVE  TypeInv'
<1>1. call' \in [Handlers -> Call]
  BY DEF TypeInv, TypeOK
<1>2. TypeOK'
  BY <1>1 DEF TypeOK
<1>3. Located'
  <2> SUFFICES ASSUME NEW g \in Handlers, call'[g].pc # "idle"
               PROVE  call'[g].sid \in SessionIds /\ sessions'[call'[g].sid] # NoSession
    BY DEF Located, At, CurrentSession
  <2>1. CASE g = h
    BY <2>1 DEF TypeInv, TypeOK
  <2>2. CASE g # h
    BY <2>2 DEF TypeInv, TypeOK, Located, At, CurrentSession
  <2> QED BY <2>1, <2>2
<1> QED BY <1>2, <1>3 DEF TypeInv

\* Most steps of a call touch nothing but its pc.
LEMMA GotoTypes ==
  ASSUME TypeInv, NEW h \in Handlers, ~At(h, "idle"), NEW next \in Pcs, Goto(h, next),
         sessions' \in [SessionIds -> Session \cup {NoSession}],
         sessionByParticipant' \in [Participants -> SessionIds \cup {NoSession}],
         activeGames' \in Int,
         \A sid \in SessionIds : sessions[sid] # NoSession => sessions'[sid] # NoSession
  PROVE  TypeInv'
<1> DEFINE new == [call[h] EXCEPT !.pc = next]
<1>1. call[h] \in Call /\ call' = [call EXCEPT ![h] = new]
  BY DEF TypeInv, TypeOK, Goto
<1>2. new \in Call /\ new.sid = call[h].sid
  BY <1>1 DEF Call
<1>3. new.sid \in SessionIds /\ sessions'[new.sid] # NoSession
  BY <1>2 DEF TypeInv, Located, CurrentSession
<1> HIDE DEF new
<1> QED BY <1>1, <1>2, <1>3, CallMoves

\* A call returns.
LEMMA ReturnTypes ==
  ASSUME TypeInv, NEW h \in Handlers, Return(h), activeGames' \in Int,
         UNCHANGED <<sessions, sessionByParticipant>>
  PROVE  TypeInv'
<1>1. Idle.pc = "idle"
  BY DEF Idle
<1> QED BY <1>1, IdleType, CallMoves DEF Return, TypeInv, TypeOK

\* The session of a call is a session, and assigning fields of the right type
\* to it leaves it one.
LEMMA SessionOfCall ==
  ASSUME TypeInv, NEW h \in Handlers, ~At(h, "idle")
  PROVE  /\ call[h] \in Call
         /\ call[h].sid \in SessionIds
         /\ CurrentSession(h) \in Session
         /\ \A s \in Session :
              /\ [sessions EXCEPT ![call[h].sid] = s] \in [SessionIds -> Session \cup {NoSession}]
              /\ \A sid \in SessionIds : sessions[sid] # NoSession =>
                   [sessions EXCEPT ![call[h].sid] = s][sid] # NoSession
BY NoSessionAssumption DEF TypeInv, TypeOK, Located, CurrentSession

\* Create keeps the types: the session it stores is new.
LEMMA CreateTypes ==
  ASSUME TypeInv, NEW h \in Handlers, NEW sid \in SessionIds,
         NEW x \in Participants, NEW o \in Participants, Create(h, sid, x, o)
  PROVE  TypeInv'
<1> DEFINE new == [Idle EXCEPT !.pc = "insertSession", !.sid = sid]
<1>1. new \in Call /\ new.sid = sid
  BY IdleType DEF Call, Pcs
<1>2. /\ sessions' = [sessions EXCEPT ![sid] = NewSession(x, o)]
      /\ sessionByParticipant' = IndexAfterSave(sessionByParticipant, sid, NewSession(x, o))
      /\ call' = [call EXCEPT ![h] = new]
      /\ activeGames' = activeGames
  BY DEF Create
<1>3. NewSession(x, o) \in Session /\ NewSession(x, o) # NoSession
  BY NewSessionType, NoSessionAssumption
<1>4. /\ sessions' \in [SessionIds -> Session \cup {NoSession}]
      /\ sessions'[sid] # NoSession
      /\ \A t \in SessionIds : sessions[t] # NoSession => sessions'[t] # NoSession
  BY <1>2, <1>3 DEF TypeInv, TypeOK
<1>5. sessionByParticipant' \in [Participants -> SessionIds \cup {NoSession}]
  BY <1>2, IndexAfterSaveType DEF TypeInv, TypeOK
<1>6. activeGames' \in Int
  BY <1>2 DEF TypeInv, TypeOK
<1> HIDE DEF new
<1> QED BY <1>1, <1>2, <1>4, <1>5, <1>6, CallMoves

\* ReceiveMove starts a call on a session that exists.
LEMMA ReceiveMoveTypes ==
  ASSUME TypeInv, NEW h \in Handlers, NEW sid \in SessionIds,
         NEW n \in 0..9, NEW position \in PositionsAt[n], ReceiveMove(h, sid, position)
  PROVE  TypeInv'
<1> DEFINE new == [Idle EXCEPT !.pc = "turn", !.sid = sid, !.position = position]
<1>1. position \in Int
  BY PositionsAssumption
<1>2. new \in Call /\ new.sid = sid
  BY <1>1, IdleType DEF Call, Pcs
<1>3. call' = [call EXCEPT ![h] = new] /\ UNCHANGED <<sessions, sessionByParticipant, activeGames>>
  BY DEF ReceiveMove
<1>4. sessions[sid] # NoSession
  BY DEF ReceiveMove
<1> HIDE DEF new
<1> QED BY <1>2, <1>3, <1>4, CallMoves DEF TypeInv, TypeOK

LEMMA CheckTurnTypes ==
  ASSUME TypeInv, NEW h \in Handlers, CheckTurn(h)
  PROVE  TypeInv'
<1> DEFINE new == [call[h] EXCEPT !.pc = "board", !.mark = MarkFor(CurrentSession(h), Owner[h])]
<1>1. ~At(h, "idle") /\ call' = [call EXCEPT ![h] = new]
      /\ UNCHANGED <<sessions, sessionByParticipant, activeGames>>
  BY SessionOfCall DEF CheckTurn, At, TypeInv, TypeOK
<1>2. MarkFor(CurrentSession(h), Owner[h]) \in Marks \cup {Empty}
  BY DEF MarkFor, Marks
<1>3. new \in Call /\ new.sid = call[h].sid
  BY <1>1, <1>2, SessionOfCall DEF Call, Pcs
<1>4. new.sid \in SessionIds /\ sessions'[new.sid] # NoSession
  BY <1>1, <1>3, SessionOfCall DEF TypeInv, Located, CurrentSession
<1> HIDE DEF new
<1> QED BY <1>1, <1>3, <1>4, CallMoves DEF TypeInv, TypeOK

LEMMA ComputeBoardTypes ==
  ASSUME TypeInv, NEW h \in Handlers, ComputeBoard(h)
  PROVE  TypeInv'
<1> DEFINE next == ApplyMove(CurrentSession(h).board, call[h].position, call[h].mark)
           new == [call[h] EXCEPT !.pc = "write", !.board = next]
<1>1. ~At(h, "idle") /\ call' = [call EXCEPT ![h] = new]
      /\ UNCHANGED <<sessions, sessionByParticipant, activeGames>>
  BY SessionOfCall DEF ComputeBoard, At, TypeInv, TypeOK
<1>2. next \in Boards
  BY <1>1, SessionOfCall, ApplyMoveType DEF Session, Call
<1> HIDE DEF next
<1>3. new \in Call /\ new.sid = call[h].sid
  BY <1>1, <1>2, SessionOfCall DEF Call, Pcs
<1>4. new.sid \in SessionIds /\ sessions'[new.sid] # NoSession
  BY <1>1, <1>3, SessionOfCall DEF TypeInv, Located, CurrentSession
<1> HIDE DEF new
<1> QED BY <1>1, <1>3, <1>4, CallMoves DEF TypeInv, TypeOK

\* The four steps that assign fields of the session.
LEMMA FieldStepTypes ==
  ASSUME TypeInv, NEW h \in Handlers,
         WriteBoard(h) \/ PassTurn(h) \/ FinishStatus(h) \/ FinishResult(h)
  PROVE  TypeInv'
<1> DEFINE Assigned(s) == sessions' = [sessions EXCEPT ![call[h].sid] = s]
<1>1. ~At(h, "idle") /\ UNCHANGED <<sessionByParticipant, activeGames>>
  BY DEF WriteBoard, PassTurn, FinishStatus, FinishResult, At
<1>2. \E s \in Session : Assigned(s)
  <2>1. CASE WriteBoard(h)
    <3>1. Assigned([CurrentSession(h) EXCEPT !.board = call[h].board])
      BY <2>1, <1>1, SessionOfCall DEF WriteBoard, CurrentSession, TypeInv, TypeOK
    <3>2. [CurrentSession(h) EXCEPT !.board = call[h].board] \in Session
      BY <1>1, SessionOfCall DEF Session, Call
    <3> QED BY <3>1, <3>2
  <2>2. CASE PassTurn(h)
    <3>1. Assigned([CurrentSession(h) EXCEPT !.turn = Opponent(call[h].mark)])
      BY <2>2, <1>1, SessionOfCall DEF PassTurn, CurrentSession, TypeInv, TypeOK
    <3>2. [CurrentSession(h) EXCEPT !.turn = Opponent(call[h].mark)] \in Session
      BY <1>1, SessionOfCall DEF Session, Opponent, Marks
    <3> QED BY <3>1, <3>2
  <2>3. CASE FinishStatus(h)
    <3>1. Assigned([CurrentSession(h) EXCEPT !.status = "completed"])
      BY <2>3, <1>1, SessionOfCall DEF FinishStatus, CurrentSession, TypeInv, TypeOK
    <3>2. [CurrentSession(h) EXCEPT !.status = "completed"] \in Session
      BY <1>1, SessionOfCall DEF Session
    <3> QED BY <3>1, <3>2
  <2>4. CASE FinishResult(h)
    <3> DEFINE won == WinnerID(CurrentSession(h), call[h].board)
               draw == (Winner(call[h].board) = Empty)
    <3>1. won \in Participants \cup {NoOne} /\ draw \in BOOLEAN
      BY <1>1, SessionOfCall DEF Session, WinnerID
    <3>2. sessions' = [sessions EXCEPT ![call[h].sid].winner = won, ![call[h].sid].isDraw = draw]
      BY <2>4 DEF FinishResult
    <3> HIDE DEF won, draw
    <3>3. Assigned([CurrentSession(h) EXCEPT !.winner = won, !.isDraw = draw])
      BY <3>2, <1>1, SessionOfCall DEF CurrentSession, TypeInv, TypeOK
    <3>4. [CurrentSession(h) EXCEPT !.winner = won, !.isDraw = draw] \in Session
      BY <3>1, <1>1, SessionOfCall DEF Session
    <3> QED BY <3>3, <3>4
  <2> QED BY <2>1, <2>2, <2>3, <2>4
<1>3. /\ sessions' \in [SessionIds -> Session \cup {NoSession}]
      /\ \A sid \in SessionIds : sessions[sid] # NoSession => sessions'[sid] # NoSession
  BY <1>1, <1>2, SessionOfCall
<1>4. \E next \in Pcs : Goto(h, next)
  BY DEF WriteBoard, PassTurn, FinishStatus, FinishResult, Pcs
<1> QED BY <1>1, <1>3, <1>4, GotoTypes DEF TypeInv, TypeOK

LEMMA SaveSessionTypes ==
  ASSUME TypeInv, NEW h \in Handlers, SaveSession(h)
  PROVE  TypeInv'
<1>1. ~At(h, "idle") /\ UNCHANGED <<sessions, activeGames>> /\ \E next \in Pcs : Goto(h, next)
  BY DEF SaveSession, At, Pcs
<1>2. sessionByParticipant' \in [Participants -> SessionIds \cup {NoSession}]
  BY <1>1, SessionOfCall, IndexAfterSaveType DEF SaveSession, TypeInv, TypeOK
<1> QED BY <1>1, <1>2, GotoTypes DEF TypeInv, TypeOK

\* The steps that only move on: the waits for PostgreSQL.
LEMMA WaitTypes ==
  ASSUME TypeInv, NEW h \in Handlers, InsertSession(h) \/ InsertMove(h) \/ CompleteSession(h)
  PROVE  TypeInv'
<1>1. /\ ~At(h, "idle") /\ UNCHANGED <<sessions, sessionByParticipant, activeGames>>
      /\ \E next \in Pcs : Goto(h, next)
  BY DEF InsertSession, InsertMove, CompleteSession, At, Pcs
<1> QED BY <1>1, GotoTypes DEF TypeInv, TypeOK

LEMMA ReturnStepTypes ==
  ASSUME TypeInv, NEW h \in Handlers,
         RefuseTurn(h) \/ RefusePosition(h) \/ AnnounceStart(h) \/ Reply(h)
  PROVE  TypeInv'
<1>1. Return(h) /\ UNCHANGED <<sessions, sessionByParticipant>>
  BY DEF RefuseTurn, RefusePosition, AnnounceStart, Reply
<1>2. activeGames' \in Int
  BY DEF RefuseTurn, RefusePosition, AnnounceStart, Reply, GamesEnded, TypeInv, TypeOK
<1> QED BY <1>1, <1>2, ReturnTypes

\* Whoever plays a session plays it for good, and only Create makes one.
LEMMA PlayersKept ==
  ASSUME TypeInv, NEW h \in Handlers,
         \/ \E sid \in SessionIds : \E n \in 0..9 : \E position \in PositionsAt[n] :
              ReceiveMove(h, sid, position)
         \/ CreateStep(h) \/ ApplyMoveStep(h)
  PROVE  \A sid \in SessionIds :
           /\ sessions'[sid] = NoSession <=> sessions[sid] = NoSession
           /\ sessions[sid] # NoSession =>
                sessions'[sid].x = sessions[sid].x /\ sessions'[sid].o = sessions[sid].o
<1>1. CASE ~(WriteBoard(h) \/ PassTurn(h) \/ FinishStatus(h) \/ FinishResult(h))
  <2>1. UNCHANGED sessions
    BY <1>1 DEF ReceiveMove, CreateStep, InsertSession, AnnounceStart, ApplyMoveStep, CheckTurn,
       RefuseTurn, ComputeBoard, RefusePosition, InsertMove, SaveSession, CompleteSession, Reply
  <2> QED BY <2>1
<1>2. CASE WriteBoard(h) \/ PassTurn(h) \/ FinishStatus(h) \/ FinishResult(h)
  <2>1. ~At(h, "idle")
    BY <1>2 DEF WriteBoard, PassTurn, FinishStatus, FinishResult, At
  <2>2. PICK sid \in SessionIds : sid = call[h].sid /\ sessions[sid] \in Session
    BY <2>1, SessionOfCall DEF CurrentSession
  <2>3. \A t \in SessionIds \ {sid} : sessions'[t] = sessions[t]
    BY <1>2, <2>2 DEF WriteBoard, PassTurn, FinishStatus, FinishResult, TypeInv, TypeOK
  <2>4. /\ sessions'[sid].x = sessions[sid].x
        /\ sessions'[sid].o = sessions[sid].o
    <3>1. CASE WriteBoard(h)
      BY <2>2, <3>1 DEF WriteBoard, Session, TypeInv, TypeOK
    <3>2. CASE PassTurn(h)
      BY <2>2, <3>2 DEF PassTurn, Session, TypeInv, TypeOK
    <3>3. CASE FinishStatus(h)
      BY <2>2, <3>3 DEF FinishStatus, Session, TypeInv, TypeOK
    <3>4. CASE FinishResult(h)
      <4> DEFINE won == WinnerID(CurrentSession(h), call[h].board)
                 draw == (Winner(call[h].board) = Empty)
      <4>1. sessions' = [sessions EXCEPT ![sid].winner = won, ![sid].isDraw = draw]
        BY <2>2, <3>4 DEF FinishResult
      <4> HIDE DEF won, draw
      <4> QED BY <2>2, <4>1 DEF Session, TypeInv, TypeOK
    <3> QED BY <1>2, <3>1, <3>2, <3>3, <3>4
  <2>5. sessions'[sid] # NoSession /\ sessions[sid] # NoSession
    <3>1. call'[h].pc # "idle" /\ call'[h].sid = sid
      BY <1>2, <2>2 DEF WriteBoard, PassTurn, FinishStatus, FinishResult, Goto, TypeInv, TypeOK, Call
    <3> QED BY <1>2, <2>1, <2>2, <3>1, FieldStepTypes DEF TypeInv, Located, CurrentSession, At
  <2> QED BY <2>2, <2>3, <2>4, <2>5
<1> QED BY <1>1, <1>2

\* The steps of Next, named once for all the proofs that go through them.
LEMMA NextCases ==
  ASSUME Next
  PROVE  \E h \in Handlers :
           \/ \E sid \in SessionIds, x \in Participants, o \in Participants : Create(h, sid, x, o)
           \/ \E sid \in SessionIds : \E n \in 0..9 : \E position \in PositionsAt[n] :
                ReceiveMove(h, sid, position)
           \/ CheckTurn(h) \/ ComputeBoard(h)
           \/ WriteBoard(h) \/ PassTurn(h) \/ FinishStatus(h) \/ FinishResult(h)
           \/ SaveSession(h)
           \/ InsertSession(h) \/ InsertMove(h) \/ CompleteSession(h)
           \/ RefuseTurn(h) \/ RefusePosition(h) \/ AnnounceStart(h) \/ Reply(h)
<1>1. PICK h \in Handlers : Input(h) \/ CreateStep(h) \/ ApplyMoveStep(h)
  BY DEF Next
<1>2. CASE Input(h)
  BY <1>2, OwnerAssumption DEF Input
<1>3. CASE CreateStep(h)
  BY <1>3 DEF CreateStep
<1>4. CASE ApplyMoveStep(h)
  BY <1>4 DEF ApplyMoveStep
<1> QED BY <1>1, <1>2, <1>3, <1>4

LEMMA NextTypeInv == TypeInv /\ [Next]_vars => TypeInv'
<1> SUFFICES ASSUME TypeInv, [Next]_vars PROVE TypeInv'
  OBVIOUS
<1>1. CASE Next
  BY <1>1, NextCases, CreateTypes, ReceiveMoveTypes, CheckTurnTypes, ComputeBoardTypes,
     FieldStepTypes, SaveSessionTypes, WaitTypes, ReturnStepTypes
<1>2. CASE UNCHANGED vars
  BY <1>2 DEF vars, TypeInv, TypeOK, Located, At, CurrentSession
<1> QED BY <1>1, <1>2

\* The state of the session manager is always well typed, and a call is always
\* about a session that the store holds.
THEOREM TypeCorrect == Spec => []TypeInv
<1> QED BY InitTypeInv, NextTypeInv, PTL DEF Spec

\* In particular TypeOK, which the runs check.
THEOREM TypesHold == Spec => []TypeOK
<1>1. TypeInv => TypeOK
  BY DEF TypeInv
<1> QED BY <1>1, TypeCorrect, PTL

-----------------------------------------------------------------------------
(* Recovery.  What it hands out, for any number of handlers: two           *)
(* connections of one participant do not weaken it.  The invariant is      *)
(* inductive together with the types.                                      *)

RecoveryInv == TypeInv /\ RecoverIsCurrent

\* What RecoverIsCurrent says of one participant.
Leads(p) ==
  LET sid == Recover(p)
  IN  sid # NoSession =>
        /\ sessions[sid] # NoSession
        /\ p \in Players(sessions[sid])
        /\ sessions[sid].status = "active" \/ Finishing(sid)

LEMMA LeadsEverywherePrime == RecoverIsCurrent' <=> \A p \in Participants : Leads(p)'
BY DEF RecoverIsCurrent, Leads

\* What the invariant says of an entry of the index.
LEMMA EntryLeads ==
  ASSUME TypeInv, RecoverIsCurrent, NEW p \in Participants, Recover(p) # NoSession
  PROVE  \E sid \in SessionIds :
           /\ sid = Recover(p) /\ sessions[sid] # NoSession /\ p \in Players(sessions[sid])
           /\ sessions[sid].status = "active" \/ Finishing(sid)
<1>1. Recover(p) \in SessionIds
  BY DEF TypeInv, TypeOK, Recover
<1> QED BY <1>1 DEF RecoverIsCurrent

\* A handler on its way to SaveSession stays on it while others move, and when
\* it stores the result.
LEMMA FinishingStays ==
  ASSUME TypeInv, NEW h \in Handlers, NEW new, call' = [call EXCEPT ![h] = new],
         \/ call[h].pc \notin {"result", "save"}
         \/ new.pc = "save" /\ new.sid = call[h].sid,
         NEW sid, Finishing(sid)
  PROVE  Finishing(sid)'
<1>1. PICK k \in Handlers : call[k].sid = sid /\ call[k].pc \in {"result", "save"}
  BY DEF Finishing
<1>2. CASE k = h
  BY <1>1, <1>2 DEF Finishing, TypeInv, TypeOK
<1>3. CASE k # h
  BY <1>1, <1>3 DEF Finishing, TypeInv, TypeOK
<1> QED BY <1>2, <1>3

\* A step that leaves the index alone keeps every entry good if a session keeps
\* its players and does not complete without someone on the way to SaveSession.
LEMMA IndexKept ==
  ASSUME RecoveryInv, NEW h \in Handlers, NEW new, call' = [call EXCEPT ![h] = new],
         \/ call[h].pc \notin {"result", "save"}
         \/ new.pc = "save" /\ new.sid = call[h].sid,
         UNCHANGED sessionByParticipant,
         \A sid \in SessionIds : sessions[sid] # NoSession =>
           /\ sessions'[sid] # NoSession
           /\ sessions'[sid].x = sessions[sid].x
           /\ sessions'[sid].o = sessions[sid].o
           /\ \/ sessions'[sid].status = sessions[sid].status
              \/ Finishing(sid)'
  PROVE  RecoverIsCurrent'
<1> SUFFICES ASSUME NEW p \in Participants PROVE Leads(p)'
  BY LeadsEverywherePrime
<1>1. Recover(p)' = Recover(p)
  BY DEF Recover
<1>2. CASE Recover(p) = NoSession
  BY <1>1, <1>2 DEF Leads
<1>3. CASE Recover(p) # NoSession
  <2>1. PICK sid \in SessionIds :
          /\ sid = Recover(p) /\ sessions[sid] # NoSession /\ p \in Players(sessions[sid])
          /\ sessions[sid].status = "active" \/ Finishing(sid)
    BY <1>3, EntryLeads DEF RecoveryInv
  <2>2. sessions'[sid] # NoSession /\ p \in Players(sessions'[sid])
    BY <2>1 DEF Players
  <2>3. sessions'[sid].status = "active" \/ Finishing(sid)'
    <3>1. CASE Finishing(sid)
      BY <3>1, FinishingStays DEF RecoveryInv
    <3>2. CASE sessions[sid].status = "active"
      BY <2>1, <3>2
    <3> QED BY <2>1, <3>1, <3>2
  <2> QED BY <1>1, <2>1, <2>2, <2>3 DEF Leads
<1> QED BY <1>2, <1>3

-----------------------------------------------------------------------------

\* Goto, as an assignment of the whole call.
LEMMA GotoAssigns ==
  ASSUME TypeInv, NEW h \in Handlers, NEW next, Goto(h, next)
  PROVE  \E new : call' = [call EXCEPT ![h] = new] /\ new.pc = next /\ new.sid = call[h].sid
<1> DEFINE new == [call[h] EXCEPT !.pc = next]
<1>1. call' = [call EXCEPT ![h] = new] /\ new.pc = next /\ new.sid = call[h].sid
  BY DEF TypeInv, TypeOK, Goto, Call
<1> QED BY <1>1

\* A new session is active, and its players are indexed to it.
LEMMA CreateRecovery ==
  ASSUME RecoveryInv, NEW h \in Handlers, NEW sid \in SessionIds,
         NEW x \in Participants, NEW o \in Participants, Create(h, sid, x, o)
  PROVE  RecoverIsCurrent'
<1> DEFINE s == NewSession(x, o)
           new == [Idle EXCEPT !.pc = "insertSession", !.sid = sid]
<1>1. /\ TypeInv /\ sessions[sid] = NoSession /\ call[h].pc = "idle"
      /\ sessions' = [sessions EXCEPT ![sid] = s]
      /\ sessionByParticipant' = IndexAfterSave(sessionByParticipant, sid, s)
      /\ call' = [call EXCEPT ![h] = new]
  BY DEF Create, At, RecoveryInv
<1>2. s.status = "active" /\ Players(s) = {x, o} /\ s # NoSession
  BY NewSessionType, NoSessionAssumption DEF NewSession, Players
<1> HIDE DEF s, new
<1>3. sessions'[sid] = s /\ \A t \in SessionIds \ {sid} : sessions'[t] = sessions[t]
  BY <1>1 DEF TypeInv, TypeOK
<1> SUFFICES ASSUME NEW p \in Participants PROVE Leads(p)'
  BY LeadsEverywherePrime
<1>4. CASE p \in Players(s)
  <2>1. Recover(p)' = sid
    BY <1>1, <1>2, <1>4 DEF Recover, IndexAfterSave
  <2> QED BY <1>2, <1>3, <1>4, <2>1 DEF Leads
<1>5. CASE p \notin Players(s)
  <2>1. Recover(p)' = Recover(p)
    BY <1>1, <1>5 DEF Recover, IndexAfterSave
  <2>2. CASE Recover(p) = NoSession
    BY <2>1, <2>2 DEF Leads
  <2>3. CASE Recover(p) # NoSession
    <3>1. PICK t \in SessionIds :
            /\ t = Recover(p) /\ sessions[t] # NoSession /\ p \in Players(sessions[t])
            /\ sessions[t].status = "active" \/ Finishing(t)
      BY <1>1, <2>3, EntryLeads DEF RecoveryInv
    <3>2. sessions'[t] = sessions[t]
      BY <1>1, <1>3, <3>1
    <3>3. Finishing(t) => Finishing(t)'
      BY <1>1, FinishingStays DEF RecoveryInv
    <3> QED BY <2>1, <3>1, <3>2, <3>3 DEF Leads
  <2> QED BY <2>2, <2>3
<1> QED BY <1>4, <1>5

\* SaveSession clears the entries of a completed session, which are the only
\* ones that the handler leaving "save" was answering for.
LEMMA SaveSessionRecovery ==
  ASSUME RecoveryInv, NEW h \in Handlers, SaveSession(h)
  PROVE  RecoverIsCurrent'
<1>1. TypeInv /\ call[h].pc = "save" /\ UNCHANGED sessions /\ \E next : Goto(h, next)
  BY DEF SaveSession, RecoveryInv, At
<1>2. PICK sid \in SessionIds : sid = call[h].sid
  BY <1>1, SessionOfCall DEF At
<1>3. PICK s \in Session : s = sessions[sid]
  BY <1>1, <1>2, SessionOfCall DEF At, CurrentSession
<1>4. s # NoSession /\ sessionByParticipant' = IndexAfterSave(sessionByParticipant, sid, s)
  BY <1>2, <1>3, NoSessionAssumption DEF SaveSession, CurrentSession
<1> SUFFICES ASSUME NEW p \in Participants PROVE Leads(p)'
  BY LeadsEverywherePrime
<1>5. CASE p \in Players(s)
  <2>1. Recover(p)' = IF s.status = "active" THEN sid ELSE NoSession
    BY <1>4, <1>5 DEF Recover, IndexAfterSave
  <2> QED BY <1>1, <1>3, <1>4, <1>5, <2>1 DEF Leads
<1>6. CASE p \notin Players(s)
  <2>1. Recover(p)' = Recover(p)
    BY <1>4, <1>6 DEF Recover, IndexAfterSave
  <2>2. CASE Recover(p) = NoSession
    BY <2>1, <2>2 DEF Leads
  <2>3. CASE Recover(p) # NoSession
    <3>1. PICK t \in SessionIds :
            /\ t = Recover(p) /\ sessions[t] # NoSession /\ p \in Players(sessions[t])
            /\ sessions[t].status = "active" \/ Finishing(t)
      BY <1>1, <2>3, EntryLeads DEF RecoveryInv
    <3>2. t # sid
      BY <1>3, <1>6, <3>1
    <3>3. Finishing(t) => Finishing(t)'
      <4>1. SUFFICES ASSUME NEW k \in Handlers, call[k].sid = t, call[k].pc \in {"result", "save"}
                     PROVE  call'[k] = call[k]
        BY DEF Finishing
      <4>2. k # h
        BY <1>2, <3>2, <4>1
      <4> QED BY <1>1, <4>2 DEF Goto, TypeInv, TypeOK
    <3> QED BY <1>1, <2>1, <3>1, <3>3 DEF Leads
  <2> QED BY <2>2, <2>3
<1> QED BY <1>5, <1>6

\* The steps that change neither a session nor the index, from a pc that
\* answers for no entry.
LEMMA QuietRecovery ==
  ASSUME RecoveryInv, NEW h \in Handlers,
         UNCHANGED <<sessions, sessionByParticipant>>, call[h].pc \notin {"result", "save"},
         NEW new, call' = [call EXCEPT ![h] = new]
  PROVE  RecoverIsCurrent'
BY IndexKept

\* The steps that assign fields of the session of the call.
LEMMA FieldRecovery ==
  ASSUME RecoveryInv, NEW h \in Handlers,
         WriteBoard(h) \/ PassTurn(h) \/ FinishStatus(h) \/ FinishResult(h)
  PROVE  RecoverIsCurrent'
<1>1. TypeInv /\ ~At(h, "idle") /\ UNCHANGED sessionByParticipant
  BY DEF RecoveryInv, WriteBoard, PassTurn, FinishStatus, FinishResult, At
<1>2. PICK sid \in SessionIds : sid = call[h].sid /\ sessions[sid] \in Session
  BY <1>1, SessionOfCall DEF CurrentSession
<1>3. PICK next : Goto(h, next) /\ next # "idle" /\ (call[h].pc = "result" => next = "save")
                  /\ (FinishStatus(h) => next = "result")
  BY DEF WriteBoard, PassTurn, FinishStatus, FinishResult, At
<1>4. PICK new : call' = [call EXCEPT ![h] = new] /\ new.pc = next /\ new.sid = sid
  BY <1>1, <1>2, <1>3, GotoAssigns
<1>5. \/ call[h].pc \notin {"result", "save"}
      \/ new.pc = "save" /\ new.sid = call[h].sid
  BY <1>2, <1>3, <1>4 DEF WriteBoard, PassTurn, FinishStatus, FinishResult, At
<1>6. \A t \in SessionIds \ {sid} : sessions'[t] = sessions[t]
  BY <1>1, <1>2 DEF WriteBoard, PassTurn, FinishStatus, FinishResult, TypeInv, TypeOK
<1>7. /\ sessions'[sid].x = sessions[sid].x
      /\ sessions'[sid].o = sessions[sid].o
      /\ FinishStatus(h) \/ sessions'[sid].status = sessions[sid].status
  <2>1. CASE WriteBoard(h)
    BY <1>1, <1>2, <2>1 DEF WriteBoard, Session, TypeInv, TypeOK
  <2>2. CASE PassTurn(h)
    BY <1>1, <1>2, <2>2 DEF PassTurn, Session, TypeInv, TypeOK
  <2>3. CASE FinishStatus(h)
    BY <1>1, <1>2, <2>3 DEF FinishStatus, Session, TypeInv, TypeOK
  <2>4. CASE FinishResult(h)
    <3> DEFINE won == WinnerID(CurrentSession(h), call[h].board)
               draw == (Winner(call[h].board) = Empty)
    <3>1. sessions' = [sessions EXCEPT ![sid].winner = won, ![sid].isDraw = draw]
      BY <1>2, <2>4 DEF FinishResult
    <3> HIDE DEF won, draw
    <3> QED BY <1>1, <1>2, <3>1 DEF Session, TypeInv, TypeOK
  <2> QED BY <2>1, <2>2, <2>3, <2>4
<1>8. sessions'[sid] # NoSession
  <2>1. call'[h].pc # "idle" /\ call'[h].sid = sid
    BY <1>1, <1>3, <1>4 DEF TypeInv, TypeOK
  <2> QED BY <1>1, <2>1, FieldStepTypes DEF TypeInv, Located, CurrentSession, At
<1>9. FinishStatus(h) => Finishing(sid)'
  BY <1>1, <1>3, <1>4 DEF Finishing, TypeInv, TypeOK
<1> QED BY <1>1, <1>4, <1>5, <1>6, <1>7, <1>8, <1>9, IndexKept

LEMMA NextRecoveryInv == RecoveryInv /\ [Next]_vars => RecoveryInv'
<1> SUFFICES ASSUME RecoveryInv, [Next]_vars PROVE RecoverIsCurrent'
  BY NextTypeInv DEF RecoveryInv
<1>1. CASE Next
  <2>1. PICK h \in Handlers :
           \/ \E sid \in SessionIds, x \in Participants, o \in Participants : Create(h, sid, x, o)
           \/ WriteBoard(h) \/ PassTurn(h) \/ FinishStatus(h) \/ FinishResult(h)
           \/ SaveSession(h)
           \/ /\ UNCHANGED <<sessions, sessionByParticipant>>
              /\ call[h].pc \notin {"result", "save"}
              /\ \E new : call' = [call EXCEPT ![h] = new]
    <3>1. ASSUME NEW h \in Handlers,
                 \/ \E sid \in SessionIds : \E n \in 0..9 : \E position \in PositionsAt[n] :
                      ReceiveMove(h, sid, position)
                 \/ CheckTurn(h) \/ ComputeBoard(h)
                 \/ InsertSession(h) \/ InsertMove(h) \/ CompleteSession(h)
                 \/ RefuseTurn(h) \/ RefusePosition(h) \/ AnnounceStart(h) \/ Reply(h)
          PROVE  /\ UNCHANGED <<sessions, sessionByParticipant>>
                 /\ call[h].pc \notin {"result", "save"}
      BY <3>1 DEF ReceiveMove, CheckTurn, ComputeBoard, InsertSession, InsertMove,
         CompleteSession, RefuseTurn, RefusePosition, AnnounceStart, Reply, At
    <3>2. ASSUME NEW h \in Handlers,
                 \/ \E sid \in SessionIds : \E n \in 0..9 : \E position \in PositionsAt[n] :
                      ReceiveMove(h, sid, position)
                 \/ CheckTurn(h) \/ ComputeBoard(h)
                 \/ InsertSession(h) \/ InsertMove(h) \/ CompleteSession(h)
                 \/ RefuseTurn(h) \/ RefusePosition(h) \/ AnnounceStart(h) \/ Reply(h)
          PROVE  \E new : call' = [call EXCEPT ![h] = new]
      BY <3>2 DEF ReceiveMove, CheckTurn, ComputeBoard, InsertSession, InsertMove,
         CompleteSession, RefuseTurn, RefusePosition, AnnounceStart, Reply, Goto, Return
    <3> QED BY <1>1, <3>1, <3>2, NextCases
  <2> QED BY <2>1, CreateRecovery, FieldRecovery, SaveSessionRecovery, QuietRecovery
<1>2. CASE UNCHANGED vars
  BY <1>2 DEF vars, RecoveryInv, RecoverIsCurrent, Recover, Players, Finishing
<1> QED BY <1>1, <1>2

\* Recovery never hands out a game that is over, unless the handler that ended
\* it is still on its way to SaveSession; and only to the players of the game.
\* It needs no assumption on how many handlers a participant has.
THEOREM RecoveryCorrect == Spec => []RecoverIsCurrent
<1>1. Init => RecoveryInv
  BY InitTypeInv DEF Init, RecoveryInv, RecoverIsCurrent, Recover
<1>2. RecoveryInv => RecoverIsCurrent
  BY DEF RecoveryInv
<1> QED BY <1>1, <1>2, NextRecoveryInv, PTL DEF Spec

-----------------------------------------------------------------------------
(* The turn is a lock, and it protects the board.  The invariant LockInv   *)
(* says that a handler in the section holds the turn of its session with   *)
(* its own participant's mark; two such handlers of one session serve the  *)
(* same participant, and OneMoverEach makes them one.                      *)

\* From the turn check to the stored result.
IsMoving(c) == c.pc \in {"turn", "board", "write", "insert", "pass", "finish", "result"}

\* No participant has two handlers that apply a move.  A participant with one
\* handler has not, nor has one whose old handlers no longer get any moves.
OneMoverEach ==
  \A g, h \in Handlers :
    Owner[g] = Owner[h] /\ IsMoving(call[g]) /\ IsMoving(call[h]) => g = h

LEMMA OneHandlerIsEnough == OneHandlerEach => OneMoverEach
BY DEF OneHandlerEach, OneMoverEach

LEMMA LockInvTypes == LockInv => TypeInv
BY DEF LockInv, TypeInv

\* Two handlers that hold the turn of one session are one handler.
LEMMA TurnIsExclusive ==
  ASSUME OneMoverEach, LockInv,
         NEW g \in Handlers, NEW h \in Handlers,
         call[g].pc \in Section, call[h].pc \in Section, call[g].sid = call[h].sid
  PROVE  g = h
<1>1. HoldsTurn(g) /\ HoldsTurn(h) /\ CurrentSession(g) = CurrentSession(h)
  BY DEF LockInv, TurnIsHeld, CurrentSession
<1>2. MarkFor(CurrentSession(h), Owner[g]) = MarkFor(CurrentSession(h), Owner[h])
      /\ MarkFor(CurrentSession(h), Owner[h]) \in Marks
  BY <1>1 DEF HoldsTurn
<1>3. Owner[g] = Owner[h]
  BY <1>2 DEF MarkFor, Marks, MarkX, MarkO, Empty
<1> QED BY <1>3 DEF OneMoverEach, IsMoving, Section

LEMMA ExclusiveIsALock == OneMoverEach /\ LockInv => TurnIsALock
BY TurnIsExclusive DEF TurnIsALock, InSection

LEMMA InitLockInv == Init => LockInv
BY InitTypeInv DEF Init, LockInv, TypeInv, TurnIsHeld, WriteIsFresh, Idle, Section, At

\* The part of LockInv that one handler carries.
Guarded(h) ==
  /\ call[h].pc \in Section => HoldsTurn(h)
  /\ At(h, "write") => FreshWrite(h)

\* A step leaves g alone: its call, and what its call relies on of the session.
Undisturbed(g) ==
  /\ call'[g] = call[g]
  /\ call[g].pc \in Section =>
       LET s == CurrentSession(g)
           t == sessions'[call[g].sid]
       IN  t.x = s.x /\ t.o = s.o /\ t.turn = s.turn /\ t.board = s.board

LEMMA UndisturbedIsGuarded ==
  ASSUME LockInv, NEW g \in Handlers, Undisturbed(g)
  PROVE  Guarded(g)'
<1>1. call[g].pc \in Section => HoldsTurn(g)'
  BY DEF LockInv, TurnIsHeld, HoldsTurn, Undisturbed, MarkFor, CurrentSession
<1>2. At(g, "write") => FreshWrite(g)'
  <2> SUFFICES ASSUME At(g, "write") PROVE FreshWrite(g)'
    OBVIOUS
  <2>1. call'[g] = call[g] /\ sessions'[call[g].sid].board = CurrentSession(g).board
    BY DEF Undisturbed, At, Section
  <2>2. FreshWrite(g)
    BY DEF LockInv, WriteIsFresh
  <2> QED BY <2>1, <2>2 DEF FreshWrite, CurrentSession
<1> QED BY <1>1, <1>2 DEF Guarded, Undisturbed, At

LEMMA GuardedIsLockInv ==
  ASSUME TypeInv', \A g \in Handlers : Guarded(g)'
  PROVE  LockInv'
BY DEF LockInv, TypeInv, TurnIsHeld, WriteIsFresh, Guarded

-----------------------------------------------------------------------------

\* A step that changes no session disturbs nobody else.
LEMMA QuietForOthers ==
  ASSUME TypeInv, NEW h \in Handlers, NEW new, call' = [call EXCEPT ![h] = new],
         UNCHANGED sessions
  PROVE  \A g \in Handlers \ {h} : Undisturbed(g)
BY DEF TypeInv, TypeOK, Undisturbed, CurrentSession

\* A step of a handler in the section that changes its session disturbs nobody
\* else: nobody else is in the section of that session.
LEMMA SectionForOthers ==
  ASSUME OneMoverEach, LockInv, NEW h \in Handlers, call[h].pc \in Section,
         NEW new, call' = [call EXCEPT ![h] = new],
         NEW s, sessions' = [sessions EXCEPT ![call[h].sid] = s]
  PROVE  \A g \in Handlers \ {h} : Undisturbed(g)
<1> SUFFICES ASSUME NEW g \in Handlers \ {h} PROVE Undisturbed(g)
  OBVIOUS
<1>1. call'[g] = call[g]
  BY DEF LockInv, TypeOK
<1>2. ASSUME call[g].pc \in Section PROVE sessions'[call[g].sid] = sessions[call[g].sid]
  <2>1. call[g].sid # call[h].sid
    BY <1>2, TurnIsExclusive
  <2> QED BY <2>1 DEF LockInv, TypeOK
<1> QED BY <1>1, <1>2 DEF Undisturbed, CurrentSession

\* Goto, as an assignment of the whole call.
LEMMA GotoCall ==
  ASSUME TypeInv, NEW h \in Handlers, NEW next, Goto(h, next)
  PROVE  /\ call' = [call EXCEPT ![h] = [call[h] EXCEPT !.pc = next]]
         /\ call'[h].pc = next /\ call'[h].sid = call[h].sid
         /\ call'[h].mark = call[h].mark
BY DEF TypeInv, TypeOK, Goto, Call

\* Calls that begin or end outside the section carry nothing.
LEMMA OutsideIsGuarded ==
  ASSUME NEW h \in Handlers, call'[h].pc \notin Section
  PROVE  Guarded(h)'
BY DEF Guarded, Section, At

LEMMA CreateLock ==
  ASSUME LockInv, NEW h \in Handlers, NEW sid \in SessionIds, NEW x, NEW o, Create(h, sid, x, o)
  PROVE  \A g \in Handlers : Guarded(g)'
<1>1. TypeInv
  BY LockInvTypes
<1>2. \A g \in Handlers \ {h} : Undisturbed(g)
  <2> SUFFICES ASSUME NEW g \in Handlers \ {h} PROVE Undisturbed(g)
    OBVIOUS
  <2>1. call'[g] = call[g]
    BY <1>1 DEF Create, TypeInv, TypeOK
  <2>2. ASSUME call[g].pc \in Section PROVE sessions'[call[g].sid] = sessions[call[g].sid]
    <3>1. sessions[call[g].sid] # NoSession /\ call[g].sid \in SessionIds
      BY <1>1, <2>2 DEF TypeInv, Located, CurrentSession, Section, At
    <3> QED BY <1>1, <3>1 DEF Create, TypeInv, TypeOK
  <2> QED BY <2>1, <2>2 DEF Undisturbed, CurrentSession
<1>3. call'[h].pc = "insertSession"
  BY <1>1 DEF Create, TypeInv, TypeOK, Idle
<1> QED BY <1>2, <1>3, UndisturbedIsGuarded, OutsideIsGuarded DEF Section

\* Steps that change no session and end outside the section.
LEMMA LeaveLock ==
  ASSUME LockInv, NEW h \in Handlers,
         \/ \E sid \in SessionIds : \E n \in 0..9 : \E position \in PositionsAt[n] :
              ReceiveMove(h, sid, position)
         \/ SaveSession(h) \/ InsertSession(h) \/ CompleteSession(h)
         \/ RefuseTurn(h) \/ RefusePosition(h) \/ AnnounceStart(h) \/ Reply(h)
  PROVE  \A g \in Handlers : Guarded(g)'
<1>1. TypeInv
  BY LockInvTypes
<1>2. UNCHANGED sessions
  BY DEF ReceiveMove, SaveSession, InsertSession, CompleteSession, RefuseTurn,
         RefusePosition, AnnounceStart, Reply
<1>3. \E new : call' = [call EXCEPT ![h] = new] /\ new.pc \notin Section
  <2>1. ASSUME NEW next \in Pcs \ Section, Goto(h, next)
        PROVE  \E new : call' = [call EXCEPT ![h] = new] /\ new.pc \notin Section
    <3>1. call' = [call EXCEPT ![h] = [call[h] EXCEPT !.pc = next]] /\ call[h] \in Call
      BY <1>1, <2>1, GotoCall DEF TypeInv, TypeOK
    <3>2. [call[h] EXCEPT !.pc = next].pc = next
      BY <3>1 DEF Call
    <3> QED BY <3>1, <3>2
  <2>2. CASE Return(h)
    <3>1. Idle.pc \notin Section
      BY DEF Idle, Section
    <3> QED BY <2>2, <3>1 DEF Return
  <2>3. ASSUME NEW sid, NEW position, ReceiveMove(h, sid, position)
        PROVE  \E new : call' = [call EXCEPT ![h] = new] /\ new.pc \notin Section
    <3> DEFINE new == [Idle EXCEPT !.pc = "turn", !.sid = sid, !.position = position]
    <3>1. call' = [call EXCEPT ![h] = new]
      BY <2>3 DEF ReceiveMove
    <3>2. new.pc = "turn"
      BY DEF Idle
    <3> HIDE DEF new
    <3> QED BY <3>1, <3>2 DEF Section
  <2>4. CASE SaveSession(h)
    <3>1. \E next \in Pcs \ Section : Goto(h, next)
      BY <2>4 DEF SaveSession, Section, Pcs
    <3> QED BY <3>1, <2>1
  <2>5. CASE InsertSession(h) \/ CompleteSession(h)
    <3>1. \E next \in Pcs \ Section : Goto(h, next)
      BY <2>5 DEF InsertSession, CompleteSession, Section, Pcs
    <3> QED BY <3>1, <2>1
  <2>6. CASE RefuseTurn(h) \/ RefusePosition(h) \/ AnnounceStart(h) \/ Reply(h)
    BY <2>6, <2>2 DEF RefuseTurn, RefusePosition, AnnounceStart, Reply
  <2> QED BY <2>3, <2>4, <2>5, <2>6
<1>4. call'[h].pc \notin Section
  BY <1>1, <1>3 DEF TypeInv, TypeOK
<1>5. \A g \in Handlers \ {h} : Undisturbed(g)
  BY <1>1, <1>2, <1>3, QuietForOthers
<1> QED BY <1>4, <1>5, UndisturbedIsGuarded, OutsideIsGuarded

\* The turn check lets in only the participant whose turn it is.
LEMMA CheckTurnLock ==
  ASSUME LockInv, NEW h \in Handlers, CheckTurn(h)
  PROVE  \A g \in Handlers : Guarded(g)'
<1>1. TypeInv
  BY LockInvTypes
<1> DEFINE mark == MarkFor(CurrentSession(h), Owner[h])
           new == [call[h] EXCEPT !.pc = "board", !.mark = mark]
<1>2. call' = [call EXCEPT ![h] = new] /\ UNCHANGED sessions /\ MayMove(CurrentSession(h), Owner[h])
  BY <1>1 DEF CheckTurn, TypeInv, TypeOK
<1>3. call'[h].pc = "board" /\ call'[h].mark = mark /\ call'[h].sid = call[h].sid
  BY <1>1, <1>2 DEF TypeInv, TypeOK, Call
<1>4. mark \in Marks /\ CurrentSession(h).turn = mark
  BY <1>2 DEF MayMove, MarkFor, Marks
<1>5. Guarded(h)'
  BY <1>2, <1>3, <1>4 DEF Guarded, HoldsTurn, CurrentSession, At
<1>6. \A g \in Handlers \ {h} : Undisturbed(g)
  <2> HIDE DEF new
  <2> QED BY <1>1, <1>2, QuietForOthers
<1> QED BY <1>5, <1>6, UndisturbedIsGuarded

LEMMA ComputeBoardLock ==
  ASSUME LockInv, NEW h \in Handlers, ComputeBoard(h)
  PROVE  \A g \in Handlers : Guarded(g)'
<1>1. TypeInv
  BY LockInvTypes
<1> DEFINE b == CurrentSession(h).board
           next == ApplyMove(b, call[h].position, call[h].mark)
           new == [call[h] EXCEPT !.pc = "write", !.board = next]
<1>2. call' = [call EXCEPT ![h] = new] /\ UNCHANGED sessions
      /\ MoveError(b, call[h].position) = "nil" /\ call[h].pc = "board"
  BY <1>1 DEF ComputeBoard, TypeInv, TypeOK, At
<1>3. b[call[h].position] = Empty
  BY <1>2 DEF MoveError
<1>4. /\ call'[h].pc = "write" /\ call'[h].mark = call[h].mark /\ call'[h].sid = call[h].sid
      /\ call'[h].position = call[h].position /\ call'[h].board = next
  <2> HIDE DEF next
  <2> QED BY <1>1, <1>2 DEF TypeInv, TypeOK, Call
<1>5. HoldsTurn(h)
  BY <1>2 DEF LockInv, TurnIsHeld, Section
<1>6. HoldsTurn(h)' /\ FreshWrite(h)'
  BY <1>2, <1>3, <1>4, <1>5 DEF HoldsTurn, FreshWrite, CurrentSession
<1>7. \A g \in Handlers \ {h} : Undisturbed(g)
  <2> HIDE DEF new
  <2> QED BY <1>1, <1>2, QuietForOthers
<1> QED BY <1>6, <1>7, UndisturbedIsGuarded DEF Guarded

LEMMA WriteBoardLock ==
  ASSUME OneMoverEach, LockInv, NEW h \in Handlers, WriteBoard(h)
  PROVE  \A g \in Handlers : Guarded(g)'
<1>1. TypeInv /\ call[h].pc = "write" /\ call[h].pc \in Section
  BY LockInvTypes DEF WriteBoard, At, Section
<1>2. call[h] \in Call /\ call[h].sid \in SessionIds /\ CurrentSession(h) \in Session
  BY <1>1, SessionOfCall DEF At
<1> DEFINE s == [CurrentSession(h) EXCEPT !.board = call[h].board]
<1>3. sessions' = [sessions EXCEPT ![call[h].sid] = s] /\ Goto(h, "insert")
  BY <1>1, <1>2 DEF WriteBoard, CurrentSession, TypeInv, TypeOK
<1>4. s.x = CurrentSession(h).x /\ s.o = CurrentSession(h).o /\ s.turn = CurrentSession(h).turn
  BY <1>2 DEF Session
<1>5. HoldsTurn(h)
  BY <1>1 DEF LockInv, TurnIsHeld
<1> HIDE DEF s
<1>6. /\ call'[h].pc = "insert" /\ call'[h].mark = call[h].mark
      /\ CurrentSession(h)' = s
  BY <1>1, <1>2, <1>3, GotoCall DEF CurrentSession, TypeInv, TypeOK
<1>7. Guarded(h)'
  BY <1>4, <1>5, <1>6 DEF Guarded, HoldsTurn, MarkFor, At
<1>8. \A g \in Handlers \ {h} : Undisturbed(g)
  BY <1>1, <1>3, GotoCall, SectionForOthers
<1> QED BY <1>7, <1>8, UndisturbedIsGuarded

\* InsertMove stays in the section and changes no session.
LEMMA InsertMoveLock ==
  ASSUME LockInv, NEW h \in Handlers, InsertMove(h)
  PROVE  \A g \in Handlers : Guarded(g)'
<1>1. TypeInv /\ call[h].pc \in Section /\ UNCHANGED sessions
  BY LockInvTypes DEF InsertMove, At, Section
<1>2. PICK next \in {"finish", "pass"} : Goto(h, next)
  BY DEF InsertMove
<1>3. HoldsTurn(h)
  BY <1>1 DEF LockInv, TurnIsHeld
<1>4. Guarded(h)'
  BY <1>1, <1>2, <1>3, GotoCall DEF Guarded, HoldsTurn, CurrentSession, At
<1>5. \A g \in Handlers \ {h} : Undisturbed(g)
  BY <1>1, <1>2, GotoCall, QuietForOthers
<1> QED BY <1>4, <1>5, UndisturbedIsGuarded

\* The two steps that leave the section by changing the session.
LEMMA ReleaseLock ==
  ASSUME OneMoverEach, LockInv, NEW h \in Handlers, PassTurn(h) \/ FinishStatus(h)
  PROVE  \A g \in Handlers : Guarded(g)'
<1>1. TypeInv /\ call[h].pc \in Section
  BY LockInvTypes DEF PassTurn, FinishStatus, At, Section
<1>2. \E s : sessions' = [sessions EXCEPT ![call[h].sid] = s]
  <2>1. CASE PassTurn(h)
    BY <2>1 DEF PassTurn
  <2>2. CASE FinishStatus(h)
    BY <2>2 DEF FinishStatus
  <2> QED BY <2>1, <2>2
<1>3. PICK next \in Pcs \ Section : Goto(h, next)
  BY DEF PassTurn, FinishStatus, Pcs, Section
<1>4. Guarded(h)'
  BY <1>1, <1>3, GotoCall, OutsideIsGuarded
<1>5. \A g \in Handlers \ {h} : Undisturbed(g)
  BY <1>1, <1>2, <1>3, GotoCall, SectionForOthers
<1> QED BY <1>4, <1>5, UndisturbedIsGuarded

\* The result is stored outside the section, in fields nobody in it relies on.
LEMMA FinishResultLock ==
  ASSUME LockInv, NEW h \in Handlers, FinishResult(h)
  PROVE  \A g \in Handlers : Guarded(g)'
<1>1. TypeInv /\ ~At(h, "idle")
  BY LockInvTypes DEF FinishResult, At
<1>2. call[h].sid \in SessionIds /\ CurrentSession(h) \in Session
  BY <1>1, SessionOfCall
<1> DEFINE won == WinnerID(CurrentSession(h), call[h].board)
           draw == (Winner(call[h].board) = Empty)
           s == [CurrentSession(h) EXCEPT !.winner = won, !.isDraw = draw]
<1>3. Goto(h, "save")
      /\ sessions' = [sessions EXCEPT ![call[h].sid].winner = won, ![call[h].sid].isDraw = draw]
  BY DEF FinishResult
<1> HIDE DEF won, draw
<1>4. sessions' = [sessions EXCEPT ![call[h].sid] = s]
  BY <1>1, <1>2, <1>3 DEF CurrentSession, TypeInv, TypeOK
<1>5. LET t == CurrentSession(h)
      IN  s.x = t.x /\ s.o = t.o /\ s.turn = t.turn /\ s.board = t.board
  BY <1>2 DEF Session
<1> HIDE DEF s
<1>6. Guarded(h)'
  BY <1>1, <1>3, GotoCall, OutsideIsGuarded DEF Section
<1>7. \A g \in Handlers \ {h} : Undisturbed(g)
  <2> SUFFICES ASSUME NEW g \in Handlers \ {h} PROVE Undisturbed(g)
    OBVIOUS
  <2>1. call'[g] = call[g]
    BY <1>1, <1>3, GotoCall DEF TypeInv, TypeOK
  <2>2. CASE call[g].sid = call[h].sid
    <3>1. sessions'[call[g].sid] = s
      BY <1>1, <1>2, <1>4, <2>2 DEF TypeInv, TypeOK
    <3> QED BY <1>5, <2>1, <2>2, <3>1 DEF Undisturbed, CurrentSession
  <2>3. CASE call[g].sid # call[h].sid
    <3>1. sessions'[call[g].sid] = sessions[call[g].sid]
      BY <1>1, <1>4, <2>3 DEF TypeInv, TypeOK
    <3> QED BY <2>1, <3>1 DEF Undisturbed, CurrentSession
  <2> QED BY <2>2, <2>3
<1> QED BY <1>6, <1>7, UndisturbedIsGuarded

LEMMA NextLockInv == OneMoverEach /\ LockInv /\ [Next]_vars => LockInv'
<1> SUFFICES ASSUME OneMoverEach, LockInv, [Next]_vars PROVE LockInv'
  OBVIOUS
<1>1. TypeInv'
  BY LockInvTypes, NextTypeInv
<1>2. CASE Next
  <2>1. \A g \in Handlers : Guarded(g)'
    BY <1>2, NextCases, CreateLock, LeaveLock, CheckTurnLock, ComputeBoardLock, WriteBoardLock,
       InsertMoveLock, ReleaseLock, FinishResultLock
  <2> QED BY <1>1, <2>1, GuardedIsLockInv
<1>3. CASE UNCHANGED vars
  <2>1. \A g \in Handlers : Undisturbed(g)
    BY <1>3 DEF vars, Undisturbed, CurrentSession
  <2> QED BY <1>1, <2>1, UndisturbedIsGuarded, GuardedIsLockInv
<1> QED BY <1>2, <1>3

-----------------------------------------------------------------------------

\* When no participant has two handlers, the unlocked accesses of ApplyMove to
\* one Session never overlap: the turn is a lock.
THEOREM MutualExclusion ==
  ASSUME OneHandlerEach
  PROVE  Spec => []TurnIsALock
<1>1. LockInv => TurnIsALock
  BY ExclusiveIsALock, OneHandlerIsEnough
<1>2. LockInv /\ [Next]_vars => LockInv'
  BY NextLockInv, OneHandlerIsEnough
<1> QED BY <1>1, <1>2, InitLockInv, PTL DEF Spec

\* Then no move is lost either: what a handler stores is the stored board with
\* its own mark on a cell that is still free.
THEOREM NoLostUpdate ==
  ASSUME OneHandlerEach
  PROVE  Spec => []WriteIsFresh
<1>1. LockInv => WriteIsFresh
  BY DEF LockInv
<1>2. LockInv /\ [Next]_vars => LockInv'
  BY NextLockInv, OneHandlerIsEnough
<1> QED BY <1>1, <1>2, InitLockInv, PTL DEF Spec

-----------------------------------------------------------------------------
(* The engine's lines.                                                     *)

\* The engine's lines lie on the grid.
LEMMA LinesAreCells == \A i \in 1..8 : \A k \in 1..3 : winningLines[i][k] \in Cells
<1> SUFFICES ASSUME NEW i \in 1..8, NEW k \in 1..3 PROVE winningLines[i][k] \in Cells
  OBVIOUS
<1>1. i = 1 \/ i = 2 \/ i = 3 \/ i = 4 \/ i = 5 \/ i = 6 \/ i = 7 \/ i = 8
  OBVIOUS
<1>2. k = 1 \/ k = 2 \/ k = 3
  OBVIOUS
<1>3. winningLines[i][k] \in {0, 1, 2, 3, 4, 5, 6, 7, 8}
  BY <1>1, <1>2 DEF winningLines
<1> QED BY <1>3 DEF Cells

\* What the engine reports as the winner: a mark that fills some line, if any.
LEMMA WinnerOfBoard ==
  ASSUME NEW b
  PROVE  /\ CompleteLines(b) = {} => Winner(b) = Empty
         /\ CompleteLines(b) # {} =>
              \E i \in CompleteLines(b) : Winner(b) = b[winningLines[i][1]] /\ Winner(b) # Empty
<1> DEFINE S == CompleteLines(b)
<1>1. S \subseteq 1..8 /\ \A i \in S : b[winningLines[i][1]] # Empty
  BY DEF CompleteLines
<1> HIDE DEF S
<1>2. ASSUME S # {} PROVE \E i \in S : \A j \in S : i <= j
  <2> SUFFICES ASSUME \A i \in S : \E j \in S : j < i PROVE FALSE
    BY <1>1
  <2>1. 1 \notin S
    BY <1>1
  <2>2. 2 \notin S
    BY <1>1, <2>1
  <2>3. 3 \notin S
    BY <1>1, <2>1, <2>2
  <2>4. 4 \notin S
    BY <1>1, <2>1, <2>2, <2>3
  <2>5. 5 \notin S
    BY <1>1, <2>1, <2>2, <2>3, <2>4
  <2>6. 6 \notin S
    BY <1>1, <2>1, <2>2, <2>3, <2>4, <2>5
  <2>7. 7 \notin S
    BY <1>1, <2>1, <2>2, <2>3, <2>4, <2>5, <2>6
  <2>8. S \subseteq {8}
    BY <1>1, <2>1, <2>2, <2>3, <2>4, <2>5, <2>6, <2>7
  <2>9. PICK i \in S : TRUE
    BY <1>2
  <2> QED BY <2>8, <2>9
<1>3. ASSUME S # {}
      PROVE  (CHOOSE i \in S : \A j \in S : i <= j) \in S
  BY <1>2, <1>3, Zenon
<1> QED BY <1>1, <1>3 DEF Winner, S

LEMMA NewBoardIsNotOver == ~Over(NewBoard)
<1>1. \A i \in 1..8 : winningLines[i][1] \in Cells
  BY LinesAreCells
<1>2. CompleteLines(NewBoard) = {}
  BY <1>1 DEF CompleteLines, NewBoard
<1>3. Winner(NewBoard) = Empty
  BY <1>2, WinnerOfBoard
<1>4. ~IsFull(NewBoard)
  BY DEF IsFull, NewBoard, Cells
<1> QED BY <1>3, <1>4 DEF Over

-----------------------------------------------------------------------------
(* The invariant of ApplyMove, from the turn check to the stored result.   *)

\* A handler that holds the turn, up to the step that stores the result.
Busy == Section \cup {"result"}

PlayersDiffer == \A sid \in SessionIds :
  sessions[sid] # NoSession => sessions[sid].x # sessions[sid].o

\* What a handler may rely on of its session s.  The last part makes up for a
\* status check that has become stale at the turn check.
Orderly(h) ==
  LET s == CurrentSession(h)
      c == call[h]
  IN  /\ c.pc \in Section => s.status = "active"
      /\ c.pc = "write" => c.position \in Cells
      /\ c.pc \in {"insert", "pass", "finish", "result"} => s.board = c.board
      /\ c.pc = "pass" => ~Over(c.board)
      /\ c.pc \in {"finish", "result"} => Over(c.board)
      /\ c.pc = "result" => /\ HoldsTurn(h) /\ s.status = "completed"
                            /\ s.winner = NoOne /\ s.isDraw = FALSE
      /\ c.pc = "turn" /\ s.status # "active" => ~MayMove(s, Owner[h])

\* A handler has stored the last board of sid and has not yet said so.
Ending(sid) == \E h \in Handlers : call[h].sid = sid /\ call[h].pc \in {"insert", "finish"}

\* An active game has no result, and is not over unless somebody is ending it.
Undecided(sid) ==
  LET s == sessions[sid]
  IN  s # NoSession /\ s.status = "active" =>
        /\ s.winner = NoOne /\ s.isDraw = FALSE
        /\ Over(s.board) => Ending(sid)

GameInv ==
  /\ LockInv /\ PlayersDiffer
  /\ \A h \in Handlers : Orderly(h)
  /\ \A sid \in SessionIds : Undecided(sid)

LEMMA GameInvTypes == GameInv => TypeInv
BY LockInvTypes DEF GameInv

LEMMA BusyHolds == ASSUME GameInv, NEW h \in Handlers, call[h].pc \in Busy PROVE HoldsTurn(h)
BY DEF GameInv, LockInv, TurnIsHeld, Orderly, Busy

\* The turn keeps them apart: at most one handler is busy with a session.
LEMMA BusyIsExclusive ==
  ASSUME OneMoverEach, GameInv,
         NEW g \in Handlers, NEW h \in Handlers,
         call[g].pc \in Busy, call[h].pc \in Busy, call[g].sid = call[h].sid
  PROVE  g = h
<1>1. HoldsTurn(g) /\ HoldsTurn(h) /\ CurrentSession(g) = CurrentSession(h)
  BY BusyHolds DEF CurrentSession
<1>2. MarkFor(CurrentSession(h), Owner[g]) = MarkFor(CurrentSession(h), Owner[h])
      /\ MarkFor(CurrentSession(h), Owner[h]) \in Marks
  BY <1>1 DEF HoldsTurn
<1>3. Owner[g] = Owner[h]
  BY <1>2 DEF MarkFor, Marks, MarkX, MarkO, Empty
<1> QED BY <1>3 DEF OneMoverEach, IsMoving, Busy, Section

\* A step leaves g alone: its call, and what its call relies on of the session.
Calm(g) ==
  LET t == sessions'[call[g].sid]
  IN  /\ call'[g] = call[g]
      /\ call[g].pc \in Busy => t = CurrentSession(g)
      /\ call[g].pc = "turn" /\ t.status # "active" => ~MayMove(t, Owner[g])

LEMMA CalmIsOrderly ==
  ASSUME GameInv, NEW g \in Handlers, Calm(g)
  PROVE  Orderly(g)'
<1>1. Orderly(g) /\ call'[g] = call[g] /\ CurrentSession(g)' = sessions'[call[g].sid]
  BY DEF GameInv, Calm, CurrentSession
<1>2. CASE call[g].pc \in Busy
  <2>1. CurrentSession(g)' = CurrentSession(g) /\ call[g].pc # "turn"
    BY <1>1, <1>2 DEF Calm, Busy, Section
  <2>2. HoldsTurn(g) => HoldsTurn(g)'
    BY <1>1, <2>1 DEF HoldsTurn
  <2> QED BY <1>1, <2>1, <2>2 DEF Orderly
<1>3. CASE call[g].pc \notin Busy
  BY <1>1, <1>3 DEF Orderly, Calm, Busy, Section
<1> QED BY <1>2, <1>3

\* A step that changes no session disturbs nobody else.
LEMMA QuietIsCalm ==
  ASSUME GameInv, NEW h \in Handlers, NEW new, call' = [call EXCEPT ![h] = new],
         UNCHANGED sessions
  PROVE  \A g \in Handlers \ {h} : Calm(g)
BY GameInvTypes DEF TypeInv, TypeOK, Calm, CurrentSession, GameInv, Orderly

\* Nor does a step of the busy handler of a session that changes it to s: the
\* others' turn checks fail when s is over, because the turn stays with h.
LEMMA BusyIsCalm ==
  ASSUME OneMoverEach, GameInv, NEW h \in Handlers, call[h].pc \in Busy,
         NEW new, call' = [call EXCEPT ![h] = new],
         NEW s, sessions' = [sessions EXCEPT ![call[h].sid] = s],
         s.x = CurrentSession(h).x, s.o = CurrentSession(h).o,
         s.status = "active" \/ s.turn = CurrentSession(h).turn
  PROVE  \A g \in Handlers \ {h} : Calm(g)
<1> SUFFICES ASSUME NEW g \in Handlers \ {h} PROVE Calm(g)
  OBVIOUS
<1>1. TypeInv /\ call'[g] = call[g]
  BY GameInvTypes DEF TypeInv, TypeOK
<1>2. call[h].sid \in SessionIds /\ sessions'[call[h].sid] = s
  BY <1>1, SessionOfCall DEF At, Busy, Section, TypeInv, TypeOK
<1>3. CASE call[g].sid = call[h].sid
  <2>1. call[g].pc \notin Busy
    BY <1>3, BusyIsExclusive
  <2>2. ASSUME call[g].pc = "turn", s.status # "active" PROVE ~MayMove(s, Owner[g])
    <3>1. HoldsTurn(h) /\ s.turn = MarkFor(s, Owner[h]) /\ MarkFor(s, Owner[h]) \in Marks
      BY <2>2, BusyHolds DEF HoldsTurn, MarkFor
    <3>2. Owner[g] # Owner[h]
      BY <2>2 DEF OneMoverEach, IsMoving, Busy, Section
    <3> QED BY <3>1, <3>2 DEF MayMove, MarkFor, Marks, MarkX, MarkO, Empty
  <2> QED BY <1>1, <1>2, <1>3, <2>1, <2>2 DEF Calm
<1>4. CASE call[g].sid # call[h].sid
  <2>1. CASE call[g].pc = "idle"
    BY <1>1, <2>1 DEF Calm, Busy, Section
  <2>2. CASE call[g].pc # "idle"
    <3>1. sessions'[call[g].sid] = CurrentSession(g)
      BY <1>1, <1>2, <1>4, <2>2, SessionOfCall DEF At, CurrentSession, TypeInv, TypeOK
    <3> QED BY <1>1, <3>1 DEF Calm, GameInv, Orderly
  <2> QED BY <2>1, <2>2
<1> QED BY <1>3, <1>4

\* A session that a step leaves alone stays decided or undecided.
LEMMA UndecidedStays ==
  ASSUME GameInv, NEW h \in Handlers, NEW new, call' = [call EXCEPT ![h] = new],
         NEW sid \in SessionIds, sessions'[sid] = sessions[sid],
         \/ call[h].sid # sid
         \/ call[h].pc \notin {"insert", "finish"}
         \/ new.sid = sid /\ new.pc \in {"insert", "finish"}
  PROVE  Undecided(sid)'
<1>1. Ending(sid) => Ending(sid)'
  BY GameInvTypes DEF Ending, TypeInv, TypeOK
<1> QED BY <1>1 DEF GameInv, Undecided

-----------------------------------------------------------------------------
(* What each step does to it.                                              *)

\* The parts of GameInv that LockInv does not say.
Moves ==
  /\ \A g \in Handlers : Orderly(g)'
  /\ \A sid \in SessionIds : Undecided(sid)'

\* The steps that change no session, neither from nor to a busy pc but for the
\* turn check and ComputeBoard.
LEMMA QuietMoves ==
  ASSUME GameInv, NEW h \in Handlers, NEW new, call' = [call EXCEPT ![h] = new],
         UNCHANGED sessions, call[h].pc \notin {"insert", "finish"}, Orderly(h)'
  PROVE  Moves
BY QuietIsCalm, CalmIsOrderly, UndecidedStays DEF Moves

\* Calls that have returned, or wait for a reply or the database, rely on nothing.
LEMMA IdleIsOrderly ==
  ASSUME NEW h \in Handlers,
         call'[h].pc \in {"idle", "save", "complete", "reply", "insertSession", "started"}
  PROVE  Orderly(h)'
BY DEF Orderly, Section

\* Goto, field by field.
LEMMA GotoFields ==
  ASSUME TypeInv, NEW h \in Handlers, NEW next, Goto(h, next)
  PROVE  /\ \E new : call' = [call EXCEPT ![h] = new] /\ new.pc = next /\ new.sid = call[h].sid
         /\ call'[h].pc = next /\ call'[h].sid = call[h].sid
         /\ call'[h].mark = call[h].mark /\ call'[h].board = call[h].board
<1>1. call' = [call EXCEPT ![h] = [call[h] EXCEPT !.pc = next]] /\ call[h] \in Call
  BY GotoCall DEF TypeInv, TypeOK
<1> DEFINE new == [call[h] EXCEPT !.pc = next]
<1>2. new.pc = next /\ new.sid = call[h].sid /\ new.mark = call[h].mark /\ new.board = call[h].board
  BY <1>1 DEF Call
<1>3. call'[h] = new
  BY <1>1 DEF TypeInv, TypeOK
<1> HIDE DEF new
<1> QED BY <1>1, <1>2, <1>3 DEF new

LEMMA ReceiveMoves ==
  ASSUME GameInv, NEW h \in Handlers, NEW sid \in SessionIds, NEW position,
         ReceiveMove(h, sid, position)
  PROVE  Moves
<1> DEFINE new == [Idle EXCEPT !.pc = "turn", !.sid = sid, !.position = position]
<1>1. call' = [call EXCEPT ![h] = new] /\ UNCHANGED sessions
      /\ call[h].pc = "idle" /\ sessions[sid].status = "active"
  BY DEF ReceiveMove, At
<1>2. new.pc = "turn" /\ new.sid = sid
  BY DEF Idle
<1> HIDE DEF new
<1>3. call'[h] = new
  BY <1>1, GameInvTypes DEF TypeInv, TypeOK
<1>4. Orderly(h)'
  BY <1>1, <1>2, <1>3 DEF Orderly, CurrentSession, Section
<1> QED BY <1>1, <1>4, QuietMoves

\* A handler that passes the turn check finds an active session.
LEMMA CheckTurnMoves ==
  ASSUME GameInv, NEW h \in Handlers, CheckTurn(h)
  PROVE  Moves
<1> DEFINE mark == MarkFor(CurrentSession(h), Owner[h])
           new == [call[h] EXCEPT !.pc = "board", !.mark = mark]
<1>1. call' = [call EXCEPT ![h] = new] /\ UNCHANGED sessions
      /\ call[h].pc = "turn" /\ MayMove(CurrentSession(h), Owner[h])
  BY GameInvTypes DEF CheckTurn, At, TypeInv, TypeOK
<1> HIDE DEF mark
<1>2. call'[h].pc = "board" /\ call'[h].sid = call[h].sid
  BY <1>1, GameInvTypes DEF TypeInv, TypeOK, Call
<1> HIDE DEF new
<1>3. Orderly(h)'
  BY <1>1, <1>2 DEF Orderly, CurrentSession, GameInv
<1> QED BY <1>1, <1>3, QuietMoves

LEMMA ComputeBoardMoves ==
  ASSUME GameInv, NEW h \in Handlers, ComputeBoard(h)
  PROVE  Moves
<1> DEFINE next == ApplyMove(CurrentSession(h).board, call[h].position, call[h].mark)
           new == [call[h] EXCEPT !.pc = "write", !.board = next]
<1>1. call' = [call EXCEPT ![h] = new] /\ UNCHANGED sessions /\ call[h].pc = "board"
      /\ call[h].position \in Cells
  BY GameInvTypes DEF ComputeBoard, At, MoveError, TypeInv, TypeOK
<1> HIDE DEF next
<1>2. call'[h].pc = "write" /\ call'[h].sid = call[h].sid
      /\ call'[h].position = call[h].position
  BY <1>1, GameInvTypes DEF TypeInv, TypeOK, Call
<1> HIDE DEF new
<1>3. Orderly(h)'
  BY <1>1, <1>2 DEF Orderly, CurrentSession, GameInv, Section
<1> QED BY <1>1, <1>3, QuietMoves

\* The steps after which a handler relies on nothing.
LEMMA LeaveMoves ==
  ASSUME GameInv, NEW h \in Handlers,
         \/ SaveSession(h) \/ InsertSession(h) \/ CompleteSession(h)
         \/ RefuseTurn(h) \/ RefusePosition(h) \/ AnnounceStart(h) \/ Reply(h)
  PROVE  Moves
<1>1. UNCHANGED sessions /\ call[h].pc \notin {"insert", "finish"}
  BY DEF SaveSession, InsertSession, CompleteSession, RefuseTurn, RefusePosition, AnnounceStart,
     Reply, At
<1>2. CASE \E next \in {"complete", "reply", "started"} : Goto(h, next)
  BY <1>1, <1>2, GameInvTypes, GotoFields, IdleIsOrderly, QuietMoves
<1>3. CASE Return(h)
  <2>1. call'[h].pc = "idle"
    BY <1>3, GameInvTypes DEF Return, Idle, TypeInv, TypeOK
  <2> QED BY <1>1, <1>3, <2>1, IdleIsOrderly, QuietMoves DEF Return
<1> QED BY <1>2, <1>3
        DEF SaveSession, InsertSession, CompleteSession, RefuseTurn, RefusePosition, AnnounceStart,
            Reply

\* The outcome is decided on the local board, which is still the stored one.
LEMMA InsertMoveMoves ==
  ASSUME GameInv, NEW h \in Handlers, InsertMove(h)
  PROVE  Moves
<1>1. UNCHANGED sessions /\ call[h].pc = "insert"
      /\ CurrentSession(h).status = "active" /\ CurrentSession(h).board = call[h].board
  BY DEF InsertMove, At, GameInv, Orderly, Section
<1>2. Goto(h, IF Over(call[h].board) THEN "finish" ELSE "pass")
  BY DEF InsertMove
<1>3. PICK new : call' = [call EXCEPT ![h] = new] /\ new.sid = call[h].sid
                 /\ new.pc = IF Over(call[h].board) THEN "finish" ELSE "pass"
  BY <1>2, GameInvTypes, GotoFields
<1>4. call'[h].pc = (IF Over(call[h].board) THEN "finish" ELSE "pass")
      /\ call'[h].sid = call[h].sid /\ call'[h].board = call[h].board
  BY <1>2, GameInvTypes, GotoFields
<1>5. Orderly(h)'
  BY <1>1, <1>4 DEF Orderly, CurrentSession
<1>6. \A g \in Handlers : Orderly(g)'
  BY <1>1, <1>3, <1>5, QuietIsCalm, CalmIsOrderly
<1>7. ASSUME NEW sid \in SessionIds PROVE Undecided(sid)'
  <2>1. CASE sid # call[h].sid \/ Over(call[h].board)
    BY <1>1, <1>3, <2>1, UndecidedStays
  <2>2. CASE sid = call[h].sid /\ ~Over(call[h].board)
    <3>1. sessions'[sid] = sessions[sid] /\ sessions[sid].board = call[h].board
      BY <1>1, <2>2 DEF CurrentSession
    <3> QED BY <2>2, <3>1 DEF GameInv, Undecided
  <2> QED BY <2>1, <2>2
<1> QED BY <1>6, <1>7 DEF Moves

\* The four steps that change the session of their handler, which is busy.
LEMMA FieldMoves ==
  ASSUME OneMoverEach, GameInv, NEW h \in Handlers, call[h].pc \in Busy,
         NEW next, Goto(h, next),
         NEW s \in Session, sessions' = [sessions EXCEPT ![call[h].sid] = s],
         s.x = CurrentSession(h).x, s.o = CurrentSession(h).o,
         s.status = "active" \/ s.turn = CurrentSession(h).turn,
         Orderly(h)', Undecided(call[h].sid)'
  PROVE  Moves
<1>1. PICK new : call' = [call EXCEPT ![h] = new]
  BY GameInvTypes, GotoFields
<1>2. \A g \in Handlers : Orderly(g)'
  BY <1>1, BusyIsCalm, CalmIsOrderly
<1>3. \A sid \in SessionIds \ {call[h].sid} : sessions'[sid] = sessions[sid]
  BY GameInvTypes DEF TypeInv, TypeOK
<1>4. ASSUME NEW sid \in SessionIds PROVE Undecided(sid)'
  <2>1. CASE sid # call[h].sid
    BY <1>1, <1>3, <2>1, UndecidedStays
  <2>2. call'[h].sid = call[h].sid
    BY GameInvTypes, GotoFields
  <2> QED BY <2>1, <2>2
<1> QED BY <1>2, <1>4 DEF Moves

\* The session of a busy handler, as FieldMoves needs it.
LEMMA BusySession ==
  ASSUME GameInv, NEW h \in Handlers, call[h].pc \in Busy
  PROVE  /\ TypeInv /\ call[h] \in Call /\ call[h].sid \in SessionIds
         /\ CurrentSession(h) \in Session /\ CurrentSession(h) # NoSession
         /\ \A s : sessions' = [sessions EXCEPT ![call[h].sid] = s] =>
              sessions'[call[h].sid] = s
BY GameInvTypes, SessionOfCall, NoSessionAssumption DEF At, Busy, Section, TypeInv, TypeOK

LEMMA WriteBoardMoves ==
  ASSUME OneMoverEach, GameInv, NEW h \in Handlers, WriteBoard(h)
  PROVE  Moves
<1> DEFINE s == [CurrentSession(h) EXCEPT !.board = call[h].board]
           t == CurrentSession(h)
<1>1. call[h].pc = "write" /\ call[h].pc \in Busy /\ Goto(h, "insert") /\ t.status = "active"
  BY DEF WriteBoard, At, Busy, Section, GameInv, Orderly
<1>2. sessions' = [sessions EXCEPT ![call[h].sid] = s]
  BY <1>1, BusySession DEF WriteBoard, CurrentSession, TypeInv, TypeOK
<1>3. s \in Session /\ s.x = t.x /\ s.o = t.o /\ s.status = "active" /\ s.board = call[h].board
      /\ s.winner = t.winner /\ s.isDraw = t.isDraw
  BY <1>1, BusySession DEF Session, Call
<1> HIDE DEF s
<1>4. call'[h].pc = "insert" /\ call'[h].sid = call[h].sid /\ call'[h].board = call[h].board
  BY <1>1, GameInvTypes, GotoFields
<1>5. CurrentSession(h)' = s /\ sessions'[call[h].sid] = s
  <2>1. sessions'[call[h].sid] = s
    BY <1>1, <1>2, BusySession
  <2>2. CurrentSession(h)' = sessions'[call[h].sid]
    BY <1>4 DEF CurrentSession
  <2> QED BY <2>1, <2>2
<1>6. Orderly(h)'
  BY <1>3, <1>4, <1>5 DEF Orderly
<1>7. t.winner = NoOne /\ t.isDraw = FALSE
  BY <1>1, BusySession DEF GameInv, Undecided, CurrentSession
<1>8. Undecided(call[h].sid)'
  <2>1. PICK sid \in SessionIds : sid = call[h].sid
    BY <1>1, BusySession
  <2>2. Ending(sid)'
    BY <1>4, <2>1 DEF Ending
  <2>3. sessions'[sid].winner = NoOne /\ sessions'[sid].isDraw = FALSE
    BY <1>3, <1>5, <1>7, <2>1
  <2>4. Undecided(sid)'
    BY <2>2, <2>3 DEF Undecided
  <2> QED BY <1>4, <2>1, <2>4
<1> QED BY <1>1, <1>2, <1>3, <1>6, <1>8, FieldMoves

LEMMA PassTurnMoves ==
  ASSUME OneMoverEach, GameInv, NEW h \in Handlers, PassTurn(h)
  PROVE  Moves
<1> DEFINE s == [CurrentSession(h) EXCEPT !.turn = Opponent(call[h].mark)]
           t == CurrentSession(h)
<1>1. /\ call[h].pc = "pass" /\ call[h].pc \in Busy /\ Goto(h, "save") /\ t.status = "active"
      /\ t.board = call[h].board /\ ~Over(call[h].board)
  BY DEF PassTurn, At, Busy, Section, GameInv, Orderly
<1>2. sessions' = [sessions EXCEPT ![call[h].sid] = s]
  BY <1>1, BusySession DEF PassTurn, CurrentSession, TypeInv, TypeOK
<1>3. s \in Session /\ s.x = t.x /\ s.o = t.o /\ s.status = "active" /\ s.board = t.board
      /\ s.winner = t.winner /\ s.isDraw = t.isDraw
  BY <1>1, BusySession DEF Session, Call, Opponent, Marks
<1> HIDE DEF s
<1>4. call'[h].pc = "save" /\ call'[h].sid = call[h].sid
  BY <1>1, GameInvTypes, GotoFields
<1>5. t.winner = NoOne /\ t.isDraw = FALSE
  BY <1>1, BusySession DEF GameInv, Undecided, CurrentSession
<1>6. Undecided(call[h].sid)'
  <2>1. PICK sid \in SessionIds : sid = call[h].sid
    BY <1>1, BusySession
  <2>2. sessions'[sid] = s
    BY <1>1, <1>2, <2>1, BusySession
  <2>3. Undecided(sid)'
    BY <1>1, <1>3, <1>5, <2>2 DEF Undecided
  <2> QED BY <1>4, <2>1, <2>3
<1> QED BY <1>1, <1>2, <1>3, <1>4, <1>6, IdleIsOrderly, FieldMoves

\* The game is completed, and the turn stays with the player who completed it.
LEMMA FinishStatusMoves ==
  ASSUME OneMoverEach, GameInv, NEW h \in Handlers, FinishStatus(h)
  PROVE  Moves
<1> DEFINE s == [CurrentSession(h) EXCEPT !.status = "completed"]
           t == CurrentSession(h)
<1>1. /\ call[h].pc = "finish" /\ call[h].pc \in Busy /\ Goto(h, "result") /\ t.status = "active"
      /\ t.board = call[h].board /\ Over(call[h].board)
  BY DEF FinishStatus, At, Busy, Section, GameInv, Orderly
<1>2. sessions' = [sessions EXCEPT ![call[h].sid] = s]
  BY <1>1, BusySession DEF FinishStatus, CurrentSession, TypeInv, TypeOK
<1>3. s \in Session /\ s.x = t.x /\ s.o = t.o /\ s.status = "completed" /\ s.board = t.board
      /\ s.turn = t.turn /\ s.winner = t.winner /\ s.isDraw = t.isDraw
  BY <1>1, BusySession DEF Session
<1> HIDE DEF s
<1>4. call'[h].pc = "result" /\ call'[h].sid = call[h].sid /\ call'[h].board = call[h].board
      /\ call'[h].mark = call[h].mark
  BY <1>1, GameInvTypes, GotoFields
<1>5. CurrentSession(h)' = s /\ sessions'[call[h].sid] = s
  <2>1. sessions'[call[h].sid] = s
    BY <1>1, <1>2, BusySession
  <2>2. CurrentSession(h)' = sessions'[call[h].sid]
    BY <1>4 DEF CurrentSession
  <2> QED BY <2>1, <2>2
<1>6. t.winner = NoOne /\ t.isDraw = FALSE
  BY <1>1, BusySession DEF GameInv, Undecided, CurrentSession
<1>7. HoldsTurn(h)'
  BY <1>1, <1>3, <1>4, <1>5, BusyHolds DEF HoldsTurn, MarkFor
<1>8. Orderly(h)'
  BY <1>1, <1>3, <1>4, <1>5, <1>6, <1>7 DEF Orderly, Section
<1>9. Undecided(call[h].sid)'
  BY <1>3, <1>4, <1>5 DEF Undecided
<1> QED BY <1>1, <1>2, <1>3, <1>8, <1>9, FieldMoves

LEMMA FinishResultMoves ==
  ASSUME OneMoverEach, GameInv, NEW h \in Handlers, FinishResult(h)
  PROVE  Moves
<1> DEFINE won == WinnerID(CurrentSession(h), call[h].board)
           draw == (Winner(call[h].board) = Empty)
           s == [CurrentSession(h) EXCEPT !.winner = won, !.isDraw = draw]
           t == CurrentSession(h)
<1>1. /\ call[h].pc = "result" /\ call[h].pc \in Busy /\ Goto(h, "save")
      /\ t.status = "completed"
      /\ sessions' = [sessions EXCEPT ![call[h].sid].winner = won, ![call[h].sid].isDraw = draw]
  BY DEF FinishResult, At, Busy, Section, GameInv, Orderly
<1>2. won \in Participants \cup {NoOne} /\ draw \in BOOLEAN
  BY <1>1, BusySession DEF WinnerID, Session
<1> HIDE DEF won, draw
<1>3. sessions' = [sessions EXCEPT ![call[h].sid] = s]
  BY <1>1, BusySession DEF CurrentSession, TypeInv, TypeOK
<1>4. s \in Session /\ s.x = t.x /\ s.o = t.o /\ s.status = "completed" /\ s.turn = t.turn
  BY <1>1, <1>2, BusySession DEF Session
<1> HIDE DEF s
<1>5. call'[h].pc = "save" /\ call'[h].sid = call[h].sid
  BY <1>1, GameInvTypes, GotoFields
<1>6. Undecided(call[h].sid)'
  <2>1. sessions'[call[h].sid] = s
    BY <1>1, <1>3, BusySession
  <2> QED BY <1>4, <1>5, <2>1 DEF Undecided
<1> QED BY <1>1, <1>3, <1>4, <1>5, <1>6, IdleIsOrderly, FieldMoves

\* A new game is nobody's yet but its creator's, who is still answering.
LEMMA CreateMoves ==
  ASSUME GameInv, NEW h \in Handlers, NEW sid \in SessionIds,
         NEW x \in Participants, NEW o \in Participants, Create(h, sid, x, o)
  PROVE  Moves
<1> DEFINE new == [Idle EXCEPT !.pc = "insertSession", !.sid = sid]
           s == NewSession(x, o)
<1>1. /\ TypeInv /\ sessions[sid] = NoSession /\ call[h].pc = "idle"
      /\ sessions' = [sessions EXCEPT ![sid] = s] /\ call' = [call EXCEPT ![h] = new]
  BY GameInvTypes DEF Create, At
<1>2. new.pc = "insertSession"
  BY DEF Idle
<1>3. s.board = NewBoard /\ s.winner = NoOne /\ s.isDraw = FALSE
  BY DEF NewSession
<1> HIDE DEF new, s
<1>4. sessions'[sid] = s /\ \A t \in SessionIds \ {sid} : sessions'[t] = sessions[t]
  BY <1>1 DEF TypeInv, TypeOK
<1>5. ASSUME NEW g \in Handlers PROVE Orderly(g)'
  <2>1. CASE g = h
    BY <1>1, <1>2, <2>1, IdleIsOrderly DEF TypeInv, TypeOK
  <2>2. CASE g # h
    <3>1. call'[g] = call[g]
      BY <1>1, <2>2 DEF TypeInv, TypeOK
    <3>2. CASE call[g].pc = "idle"
      BY <3>1, <3>2, IdleIsOrderly
    <3>3. CASE call[g].pc # "idle"
      <4>1. sessions'[call[g].sid] = CurrentSession(g)
        BY <1>1, <1>4, <3>3 DEF TypeInv, Located, At, CurrentSession
      <4> QED BY <3>1, <4>1, CalmIsOrderly DEF Calm, GameInv, Orderly
    <3> QED BY <3>2, <3>3
  <2> QED BY <2>1, <2>2
<1>6. ASSUME NEW t \in SessionIds PROVE Undecided(t)'
  <2>1. CASE t = sid
    BY <1>3, <1>4, <2>1, NewBoardIsNotOver DEF Undecided
  <2>2. CASE t # sid
    BY <1>1, <1>4, <2>2, UndecidedStays
  <2> QED BY <2>1, <2>2
<1> QED BY <1>5, <1>6 DEF Moves

LEMMA NextMoves ==
  ASSUME OneMoverEach, GameInv, Next
  PROVE  Moves
BY NextCases, CreateMoves, ReceiveMoves, CheckTurnMoves, ComputeBoardMoves, WriteBoardMoves,
   PassTurnMoves, FinishStatusMoves, FinishResultMoves, InsertMoveMoves, LeaveMoves

\* Nobody is invited by themselves, and the players of a session are its for good.
LEMMA NextPlayersDiffer ==
  ASSUME TypeInv, PlayersDiffer, Next
  PROVE  PlayersDiffer'
<1>1. PICK h \in Handlers : Input(h) \/ CreateStep(h) \/ ApplyMoveStep(h)
  BY DEF Next
<1>2. ASSUME NEW sid \in SessionIds, NEW x \in Participants \ {Owner[h]},
             Create(h, sid, x, Owner[h])
      PROVE  PlayersDiffer'
  <2>1. sessions' = [sessions EXCEPT ![sid] = NewSession(x, Owner[h])]
    BY <1>2 DEF Create
  <2>2. sessions'[sid].x = x /\ sessions'[sid].o = Owner[h]
        /\ \A t \in SessionIds \ {sid} : sessions'[t] = sessions[t]
    BY <2>1 DEF TypeInv, TypeOK, NewSession
  <2> QED BY <2>2 DEF PlayersDiffer
<1>3. CASE (\E sid \in SessionIds : \E n \in 0..9 : \E position \in PositionsAt[n] :
               ReceiveMove(h, sid, position))
           \/ CreateStep(h) \/ ApplyMoveStep(h)
  BY <1>3, PlayersKept DEF PlayersDiffer
<1> QED BY <1>1, <1>2, <1>3 DEF Input

LEMMA NextGameInv == OneMoverEach /\ GameInv /\ [Next]_vars => GameInv'
<1> SUFFICES ASSUME OneMoverEach, GameInv, [Next]_vars PROVE GameInv'
  OBVIOUS
<1>1. LockInv'
  BY NextLockInv DEF GameInv
<1>2. CASE Next
  BY <1>1, <1>2, NextMoves, NextPlayersDiffer, GameInvTypes DEF Moves, GameInv
<1>3. CASE UNCHANGED vars
  <2>1. /\ \A h \in Handlers : Orderly(h)'
        /\ \A sid \in SessionIds : Undecided(sid)'
    BY <1>3 DEF vars, GameInv, Orderly, Undecided, Ending, HoldsTurn, CurrentSession
  <2> QED BY <1>1, <1>3, <2>1 DEF vars, GameInv, PlayersDiffer
<1> QED BY <1>2, <1>3

LEMMA InitGameInv == Init => GameInv
BY InitLockInv DEF Init, GameInv, PlayersDiffer, Orderly, Undecided, Idle, Section

\* Nobody moves in a game that is over, although its status is checked long
\* before the move is made.
THEOREM MovesInTime ==
  ASSUME OneHandlerEach
  PROVE  Spec => []MovesAreInTime
<1>1. GameInv /\ [Next]_vars => GameInv'
  BY NextGameInv, OneHandlerIsEnough
<1>2. GameInv => MovesAreInTime
  BY DEF GameInv, MovesAreInTime, Orderly
<1> QED BY <1>1, <1>2, InitGameInv, PTL DEF Spec

-----------------------------------------------------------------------------
(* The gauge of active games.                                              *)

IsActive(s) == s # NoSession /\ s.status = "active"
ActiveSessions == {sid \in SessionIds : IsActive(sessions[sid])}

\* A call that has created a session the gauge does not count yet, and one that
\* has completed a session the gauge still counts.
IsStarting(c) == c.pc \in {"insertSession", "started"}
HasEnded(c) == c.pc \in {"result", "save", "complete", "reply"} /\ Over(c.board)

Starting == {h \in Handlers : IsStarting(call[h])}
Ended == {h \in Handlers : HasEnded(call[h])}

\* The gauge is off by the calls in flight, each of which will correct it.
GaugeInv ==
  /\ IsFiniteSet(ActiveSessions) /\ IsFiniteSet(Starting) /\ IsFiniteSet(Ended)
  /\ activeGames = Cardinality(ActiveSessions) - Cardinality(Starting) + Cardinality(Ended)

\* What adding and removing one element does to a set and to its cardinality.
LEMMA OneMore ==
  ASSUME NEW S, IsFiniteSet(S), NEW x, x \notin S
  PROVE  IsFiniteSet(S \cup {x}) /\ Cardinality(S \cup {x}) = Cardinality(S) + 1
BY FS_AddElement

LEMMA OneLess ==
  ASSUME NEW S, IsFiniteSet(S), NEW x, x \in S
  PROVE  IsFiniteSet(S \ {x}) /\ Cardinality(S \ {x}) = Cardinality(S) - 1
BY FS_RemoveElement

LEMMA GaugeTypes ==
  ASSUME GaugeInv
  PROVE  /\ Cardinality(ActiveSessions) \in Nat /\ Cardinality(Starting) \in Nat
         /\ Cardinality(Ended) \in Nat
BY FS_CardinalityType DEF GaugeInv

\* The calls that count after a step of h.
LEMMA CallsAfter ==
  ASSUME TypeInv, NEW h \in Handlers, NEW new, call' = [call EXCEPT ![h] = new]
  PROVE  /\ Starting' = IF IsStarting(new) THEN Starting \cup {h} ELSE Starting \ {h}
         /\ Ended' = IF HasEnded(new) THEN Ended \cup {h} ELSE Ended \ {h}
<1>1. \A g \in Handlers : call'[g] = IF g = h THEN new ELSE call[g]
  BY DEF TypeInv, TypeOK
<1>2. Starting' = {g \in Handlers : IsStarting(call'[g])} /\ Ended' = {g \in Handlers : HasEnded(call'[g])}
  BY DEF Starting, Ended, IsStarting, HasEnded
<1> QED BY <1>1, <1>2 DEF Starting, Ended

LEMMA ActiveAfter ==
  ASSUME TypeInv, NEW sid \in SessionIds, NEW s, sessions' = [sessions EXCEPT ![sid] = s]
  PROVE  ActiveSessions' = IF IsActive(s) THEN ActiveSessions \cup {sid} ELSE ActiveSessions \ {sid}
<1>1. \A t \in SessionIds : sessions'[t] = IF t = sid THEN s ELSE sessions[t]
  BY DEF TypeInv, TypeOK
<1>2. ActiveSessions' = {t \in SessionIds : IsActive(sessions'[t])}
  BY DEF ActiveSessions, IsActive
<1> QED BY <1>1, <1>2 DEF ActiveSessions

\* A call that counts as much after its step as before.
LEMMA SameCalls ==
  ASSUME TypeInv, NEW h \in Handlers, NEW new, call' = [call EXCEPT ![h] = new],
         IsStarting(new) <=> IsStarting(call[h]), HasEnded(new) <=> HasEnded(call[h])
  PROVE  Starting' = Starting /\ Ended' = Ended
BY CallsAfter DEF Starting, Ended

\* Create: one more active game, and one more that the gauge does not count yet.
LEMMA CreateGauge ==
  ASSUME TypeInv, GaugeInv, NEW h \in Handlers, NEW sid \in SessionIds,
         NEW x \in Participants, NEW o \in Participants, Create(h, sid, x, o)
  PROVE  GaugeInv'
<1> DEFINE new == [Idle EXCEPT !.pc = "insertSession", !.sid = sid]
           s == NewSession(x, o)
<1>1. /\ call[h].pc = "idle" /\ call' = [call EXCEPT ![h] = new] /\ activeGames' = activeGames
      /\ sessions[sid] = NoSession /\ sessions' = [sessions EXCEPT ![sid] = s]
  BY DEF Create, At
<1>2. IsStarting(new) /\ ~HasEnded(new)
  BY DEF Idle, IsStarting, HasEnded
<1>3. IsActive(s)
  BY NewSessionType, NoSessionAssumption DEF IsActive, NewSession
<1> HIDE DEF new, s
<1>4. h \notin Starting /\ h \notin Ended /\ sid \notin ActiveSessions
  BY <1>1 DEF Starting, Ended, ActiveSessions, IsStarting, HasEnded, IsActive
<1>5. Starting' = Starting \cup {h} /\ Ended' = Ended
  <2>1. Ended \ {h} = Ended
    BY <1>4
  <2> QED BY <1>1, <1>2, <2>1, CallsAfter
<1>6. ActiveSessions' = ActiveSessions \cup {sid}
  BY <1>1, <1>3, ActiveAfter
<1>7. /\ IsFiniteSet(Starting') /\ Cardinality(Starting') = Cardinality(Starting) + 1
      /\ IsFiniteSet(ActiveSessions') /\ Cardinality(ActiveSessions') = Cardinality(ActiveSessions) + 1
  BY <1>4, <1>5, <1>6, OneMore DEF GaugeInv
<1> QED BY <1>1, <1>5, <1>7, GaugeTypes DEF GaugeInv

\* handleInviteRespond: the gauge counts it.
LEMMA AnnounceStartGauge ==
  ASSUME TypeInv, GaugeInv, NEW h \in Handlers, AnnounceStart(h)
  PROVE  GaugeInv'
<1>1. /\ call[h].pc = "started" /\ call' = [call EXCEPT ![h] = Idle]
      /\ activeGames' = activeGames + 1 /\ sessions' = sessions
  BY DEF AnnounceStart, At, Return
<1>2. ~IsStarting(Idle) /\ ~HasEnded(Idle) /\ h \in Starting /\ h \notin Ended
  BY <1>1 DEF Idle, IsStarting, HasEnded, Starting, Ended
<1>3. Starting' = Starting \ {h} /\ Ended' = Ended
  <2>1. Ended \ {h} = Ended
    BY <1>2
  <2> QED BY <1>1, <1>2, <2>1, CallsAfter
<1>4. ActiveSessions' = ActiveSessions
  BY <1>1 DEF ActiveSessions
<1>5. IsFiniteSet(Starting') /\ Cardinality(Starting') = Cardinality(Starting) - 1
  BY <1>2, <1>3, OneLess DEF GaugeInv
<1> QED BY <1>1, <1>3, <1>4, <1>5, GaugeTypes DEF GaugeInv

\* The move that completes a game: it was active until now, and is over.
LEMMA FinishStatusGauge ==
  ASSUME GameInv, GaugeInv, NEW h \in Handlers, FinishStatus(h)
  PROVE  GaugeInv'
<1>1. /\ call[h].pc = "finish" /\ call[h].pc \in Busy /\ Goto(h, "result")
      /\ activeGames' = activeGames
      /\ CurrentSession(h).status = "active" /\ Over(call[h].board)
  BY DEF FinishStatus, At, Busy, Section, GameInv, Orderly
<1>2. PICK sid \in SessionIds : sid = call[h].sid /\ TypeInv /\ sessions[sid] \in Session
  BY <1>1, BusySession DEF CurrentSession
<1> DEFINE s == [sessions[sid] EXCEPT !.status = "completed"]
<1>3. sessions' = [sessions EXCEPT ![sid] = s]
  BY <1>2 DEF FinishStatus, TypeInv, TypeOK
<1>4. ~IsActive(s) /\ sid \in ActiveSessions
  BY <1>1, <1>2, NoSessionAssumption DEF IsActive, ActiveSessions, Session, CurrentSession
<1> HIDE DEF s
<1>5. ActiveSessions' = ActiveSessions \ {sid}
  BY <1>2, <1>3, <1>4, ActiveAfter
<1>6. PICK new : call' = [call EXCEPT ![h] = new] /\ new.pc = "result" /\ new.board = call[h].board
  BY <1>1, <1>2, GotoCall DEF Call, TypeInv, TypeOK
<1>7. HasEnded(new) /\ ~IsStarting(new) /\ h \notin Starting /\ h \notin Ended
  BY <1>1, <1>6 DEF HasEnded, IsStarting, Starting, Ended
<1>8. Starting' = Starting /\ Ended' = Ended \cup {h}
  <2>1. Starting \ {h} = Starting
    BY <1>7
  <2> QED BY <1>2, <1>6, <1>7, <2>1, CallsAfter
<1>9. /\ IsFiniteSet(Ended') /\ Cardinality(Ended') = Cardinality(Ended) + 1
      /\ IsFiniteSet(ActiveSessions') /\ Cardinality(ActiveSessions') = Cardinality(ActiveSessions) - 1
  BY <1>4, <1>5, <1>7, <1>8, OneMore, OneLess DEF GaugeInv
<1> QED BY <1>1, <1>8, <1>9, GaugeTypes DEF GaugeInv

\* handleMove: the gauge no longer counts a game that this move completed.
LEMMA ReplyGauge ==
  ASSUME TypeInv, GaugeInv, NEW h \in Handlers, Reply(h)
  PROVE  GaugeInv'
<1>1. /\ call[h].pc = "reply" /\ call' = [call EXCEPT ![h] = Idle] /\ sessions' = sessions
      /\ activeGames' = activeGames - IF Over(call[h].board) THEN 1 ELSE 0
  BY DEF Reply, At, Return, GamesEnded
<1>2. /\ ~IsStarting(Idle) /\ ~HasEnded(Idle) /\ h \notin Starting
      /\ h \in Ended <=> Over(call[h].board)
  BY <1>1 DEF Idle, IsStarting, HasEnded, Starting, Ended
<1>3. Starting' = Starting /\ Ended' = Ended \ {h}
  BY <1>1, <1>2, CallsAfter
<1>4. ActiveSessions' = ActiveSessions
  BY <1>1 DEF ActiveSessions
<1>5. /\ IsFiniteSet(Ended')
      /\ Cardinality(Ended') = Cardinality(Ended) - IF Over(call[h].board) THEN 1 ELSE 0
  BY <1>2, <1>3, FS_RemoveElement, GaugeTypes DEF GaugeInv
<1> QED BY <1>1, <1>3, <1>4, <1>5, GaugeTypes DEF GaugeInv

\* The other steps change no status, and their calls count as before.
LEMMA OtherGauge ==
  ASSUME GameInv, GaugeInv, NEW h \in Handlers,
         \/ \E sid \in SessionIds : \E n \in 0..9 : \E position \in PositionsAt[n] :
              ReceiveMove(h, sid, position)
         \/ CheckTurn(h) \/ ComputeBoard(h)
         \/ WriteBoard(h) \/ PassTurn(h) \/ FinishResult(h)
         \/ SaveSession(h)
         \/ InsertSession(h) \/ InsertMove(h) \/ CompleteSession(h)
         \/ RefuseTurn(h) \/ RefusePosition(h)
  PROVE  GaugeInv'
<1>1. TypeInv /\ activeGames' = activeGames
  BY GameInvTypes DEF ReceiveMove, CheckTurn, ComputeBoard, WriteBoard, PassTurn, FinishResult,
     SaveSession, InsertSession, InsertMove, CompleteSession, RefuseTurn, RefusePosition
<1>2. ActiveSessions' = ActiveSessions
  <2>1. ASSUME NEW sid \in SessionIds, NEW s, sessions' = [sessions EXCEPT ![sid] = s],
               IsActive(s) <=> IsActive(sessions[sid])
        PROVE  ActiveSessions' = ActiveSessions
    BY <1>1, <2>1, ActiveAfter DEF ActiveSessions
  <2>2. CASE WriteBoard(h) \/ PassTurn(h) \/ FinishResult(h)
    <3>1. PICK sid \in SessionIds : sid = call[h].sid /\ sessions[sid] \in Session /\ call[h] \in Call
      BY <1>1, <2>2, SessionOfCall DEF WriteBoard, PassTurn, FinishResult, At, CurrentSession
    <3>2. CASE WriteBoard(h)
      <4> DEFINE s == [sessions[sid] EXCEPT !.board = call[h].board]
      <4>1. sessions' = [sessions EXCEPT ![sid] = s]
        BY <1>1, <3>1, <3>2 DEF WriteBoard, TypeInv, TypeOK
      <4>2. s.status = sessions[sid].status /\ s \in Session
        BY <3>1 DEF Session, Call
      <4> HIDE DEF s
      <4> QED BY <2>1, <3>1, <4>1, <4>2, NoSessionAssumption DEF IsActive
    <3>3. CASE PassTurn(h)
      <4> DEFINE s == [sessions[sid] EXCEPT !.turn = Opponent(call[h].mark)]
      <4>1. sessions' = [sessions EXCEPT ![sid] = s]
        BY <1>1, <3>1, <3>3 DEF PassTurn, TypeInv, TypeOK
      <4>2. s.status = sessions[sid].status /\ s \in Session
        BY <3>1 DEF Session, Opponent, Marks
      <4> HIDE DEF s
      <4> QED BY <2>1, <3>1, <4>1, <4>2, NoSessionAssumption DEF IsActive
    <3>4. CASE FinishResult(h)
      <4>1. PICK won \in Participants \cup {NoOne}, draw \in BOOLEAN :
              sessions' = [sessions EXCEPT ![sid].winner = won, ![sid].isDraw = draw]
        BY <3>1, <3>4 DEF FinishResult, CurrentSession, WinnerID, Session
      <4> DEFINE s == [sessions[sid] EXCEPT !.winner = won, !.isDraw = draw]
      <4>2. sessions' = [sessions EXCEPT ![sid] = s]
        BY <1>1, <3>1, <4>1 DEF TypeInv, TypeOK
      <4>3. s.status = sessions[sid].status /\ s \in Session
        BY <3>1 DEF Session
      <4> HIDE DEF s
      <4> QED BY <2>1, <3>1, <4>2, <4>3, NoSessionAssumption DEF IsActive
    <3> QED BY <2>2, <3>2, <3>3, <3>4
  <2>3. CASE UNCHANGED sessions
    BY <2>3 DEF ActiveSessions
  <2> QED BY <2>2, <2>3
          DEF ReceiveMove, CheckTurn, ComputeBoard, SaveSession, InsertSession, InsertMove,
              CompleteSession, RefuseTurn, RefusePosition
<1>3. Starting' = Starting /\ Ended' = Ended
  <2>1. CASE \E sid \in SessionIds : \E position : ReceiveMove(h, sid, position)
    <3>0. PICK sid \in SessionIds : \E position : ReceiveMove(h, sid, position)
      BY <2>1
    <3>1. PICK position : ReceiveMove(h, sid, position)
      BY <3>0
    <3> DEFINE new == [Idle EXCEPT !.pc = "turn", !.sid = sid, !.position = position]
    <3>2. call' = [call EXCEPT ![h] = new] /\ call[h].pc = "idle" /\ new.pc = "turn"
      BY <3>1 DEF ReceiveMove, At, Idle
    <3> HIDE DEF new
    <3> QED BY <1>1, <3>2, SameCalls DEF IsStarting, HasEnded
  <2>2. CASE CheckTurn(h)
    <3> DEFINE new == [call[h] EXCEPT !.pc = "board", !.mark = MarkFor(CurrentSession(h), Owner[h])]
    <3>1. call' = [call EXCEPT ![h] = new] /\ call[h].pc = "turn" /\ new.pc = "board"
      BY <1>1, <2>2 DEF CheckTurn, At, TypeInv, TypeOK, Call
    <3> HIDE DEF new
    <3> QED BY <1>1, <3>1, SameCalls DEF IsStarting, HasEnded
  <2>3. CASE ComputeBoard(h)
    <3> DEFINE next == ApplyMove(CurrentSession(h).board, call[h].position, call[h].mark)
               new == [call[h] EXCEPT !.pc = "write", !.board = next]
    <3>1. call' = [call EXCEPT ![h] = new] /\ call[h].pc = "board"
      BY <1>1, <2>3 DEF ComputeBoard, At, TypeInv, TypeOK
    <3> HIDE DEF next
    <3>2. new.pc = "write"
      BY <1>1 DEF TypeInv, TypeOK, Call
    <3> HIDE DEF new
    <3> QED BY <1>1, <3>1, <3>2, SameCalls DEF IsStarting, HasEnded
  <2>4. CASE RefuseTurn(h) \/ RefusePosition(h)
    <3>1. call' = [call EXCEPT ![h] = Idle] /\ call[h].pc \in {"turn", "board"} /\ Idle.pc = "idle"
      BY <2>4 DEF RefuseTurn, RefusePosition, Return, At, Idle
    <3> QED BY <1>1, <3>1, SameCalls DEF IsStarting, HasEnded
  <2>5. ASSUME NEW next, Goto(h, next),
               next \in {"insertSession", "started"} <=> call[h].pc \in {"insertSession", "started"},
               Over(call[h].board) =>
                 (next \in {"result", "save", "complete", "reply"}
                    <=> call[h].pc \in {"result", "save", "complete", "reply"})
        PROVE  Starting' = Starting /\ Ended' = Ended
    <3>1. PICK new : call' = [call EXCEPT ![h] = new] /\ new.pc = next /\ new.board = call[h].board
      BY <1>1, <2>5, GotoCall DEF Call, TypeInv, TypeOK
    <3> QED BY <1>1, <2>5, <3>1, SameCalls DEF IsStarting, HasEnded
  <2>6. CASE InsertMove(h) \/ SaveSession(h)
    <3>1. PICK next \in {"finish", "pass", "complete", "reply"} : Goto(h, next)
             /\ (InsertMove(h) => next \in {"finish", "pass"} /\ call[h].pc = "insert")
             /\ (SaveSession(h) => next \in {"complete", "reply"} /\ call[h].pc = "save")
      BY <2>6 DEF InsertMove, SaveSession, At
    <3> QED BY <2>5, <2>6, <3>1
  <2>7. CASE WriteBoard(h) \/ PassTurn(h) \/ FinishResult(h) \/ InsertSession(h) \/ CompleteSession(h)
    <3>1. PassTurn(h) => ~Over(call[h].board)
      BY DEF PassTurn, At, GameInv, Orderly
    <3> QED BY <2>5, <2>7, <3>1
            DEF WriteBoard, PassTurn, FinishResult, InsertSession, CompleteSession, At
  <2> QED BY <2>1, <2>2, <2>3, <2>4, <2>6, <2>7
<1> QED BY <1>1, <1>2, <1>3 DEF GaugeInv

LEMMA NextGaugeInv ==
  ASSUME GameInv, GaugeInv, [Next]_vars
  PROVE  GaugeInv'
<1>1. CASE Next
  BY <1>1, NextCases, GameInvTypes, CreateGauge, AnnounceStartGauge, FinishStatusGauge, ReplyGauge,
     OtherGauge
<1>2. CASE UNCHANGED vars
  BY <1>2 DEF vars, GaugeInv, ActiveSessions, Starting, Ended
<1> QED BY <1>1, <1>2

LEMMA InitGaugeInv == Init => GaugeInv
<1> SUFFICES ASSUME Init PROVE GaugeInv
  OBVIOUS
<1>1. ActiveSessions = {} /\ Starting = {} /\ Ended = {}
  BY DEF Init, ActiveSessions, IsActive, Starting, Ended, IsStarting, HasEnded, Idle
<1> QED BY <1>1, FS_EmptySet DEF Init, GaugeInv

LEMMA GaugeInvSettles == GaugeInv => GaugeSettles
<1> SUFFICES ASSUME GaugeInv, \A h \in Handlers : At(h, "idle")
             PROVE  activeGames = Cardinality(ActiveSessions)
  BY DEF GaugeSettles, ActiveSessions, IsActive
<1>1. Starting = {} /\ Ended = {}
  BY DEF Starting, Ended, IsStarting, HasEnded, At
<1> QED BY <1>1, FS_EmptySet, GaugeTypes DEF GaugeInv

\* When no participant has two handlers, the gauge of active games is right
\* whenever no call is in flight: no game is counted twice or ended twice.
THEOREM GaugeIsRight ==
  ASSUME OneHandlerEach
  PROVE  Spec => []GaugeSettles
<1>1. GameInv /\ GaugeInv /\ [Next]_vars => GameInv' /\ GaugeInv'
  BY NextGameInv, OneHandlerIsEnough, NextGaugeInv
<1> QED BY <1>1, InitGaugeInv, GaugeInvSettles, InitGameInv, PTL DEF Spec

-----------------------------------------------------------------------------
(* What a step does, field by field.                                       *)

\* The other handlers keep their calls.
Alone(h) == \A g \in Handlers \ {h} : call'[g] = call[g]

\* The call of h goes on to another pc.
Moved(h, next) ==
  /\ call'[h].pc = next /\ call'[h].sid = call[h].sid /\ call'[h].position = call[h].position
  /\ call'[h].mark = call[h].mark /\ call'[h].board = call[h].board

LEMMA GotoMoves ==
  ASSUME TypeInv, NEW h \in Handlers, NEW next, Goto(h, next)
  PROVE  Alone(h) /\ Moved(h, next)
<1>1. call' = [call EXCEPT ![h] = [call[h] EXCEPT !.pc = next]] /\ call[h] \in Call
  BY GotoCall DEF TypeInv, TypeOK
<1> DEFINE new == [call[h] EXCEPT !.pc = next]
<1>2. /\ new.pc = next /\ new.sid = call[h].sid /\ new.position = call[h].position
      /\ new.mark = call[h].mark /\ new.board = call[h].board
  BY <1>1 DEF Call
<1>3. call'[h] = new /\ Alone(h)
  BY <1>1 DEF Alone, TypeInv, TypeOK
<1> HIDE DEF new
<1> QED BY <1>2, <1>3 DEF Moved

\* The steps that assign fields of a session.
LEMMA FieldEffects ==
  ASSUME TypeInv, NEW h \in Handlers,
         WriteBoard(h) \/ PassTurn(h) \/ FinishStatus(h) \/ FinishResult(h)
  PROVE  LET c == call[h]
             s == sessions[c.sid]
             t == sessions'[c.sid]
         IN  /\ c.sid \in SessionIds /\ s \in Session /\ t \in Session
             /\ \A sid \in SessionIds \ {c.sid} : sessions'[sid] = sessions[sid]
             /\ t.x = s.x /\ t.o = s.o
             /\ t.board = IF c.pc = "write" THEN c.board ELSE s.board
             /\ t.turn = IF c.pc = "pass" THEN Opponent(c.mark) ELSE s.turn
             /\ t.status = IF c.pc = "finish" THEN "completed" ELSE s.status
             /\ t.winner = IF c.pc = "result" THEN WinnerID(s, c.board) ELSE s.winner
             /\ t.isDraw = IF c.pc = "result" THEN (Winner(c.board) = Empty) ELSE s.isDraw
<1> DEFINE c == call[h]
           s == sessions[c.sid]
<1>1. c \in Call /\ c.sid \in SessionIds /\ s \in Session
  BY SessionOfCall DEF WriteBoard, PassTurn, FinishStatus, FinishResult, At, CurrentSession
<1>2. ASSUME NEW t \in Session, sessions' = [sessions EXCEPT ![c.sid] = t]
      PROVE  sessions'[c.sid] = t /\ \A sid \in SessionIds \ {c.sid} : sessions'[sid] = sessions[sid]
  BY <1>1, <1>2 DEF TypeInv, TypeOK
<1>3. CASE WriteBoard(h)
  <2> DEFINE t == [s EXCEPT !.board = c.board]
  <2>1. c.pc = "write" /\ sessions' = [sessions EXCEPT ![c.sid] = t]
    BY <1>1, <1>3 DEF WriteBoard, At, TypeInv, TypeOK
  <2>2. /\ t \in Session /\ t.x = s.x /\ t.o = s.o /\ t.board = c.board /\ t.turn = s.turn
        /\ t.status = s.status /\ t.winner = s.winner /\ t.isDraw = s.isDraw
    BY <1>1 DEF Session, Call
  <2> HIDE DEF t
  <2> QED BY <1>1, <1>2, <2>1, <2>2
<1>4. CASE PassTurn(h)
  <2> DEFINE t == [s EXCEPT !.turn = Opponent(c.mark)]
  <2>1. c.pc = "pass" /\ sessions' = [sessions EXCEPT ![c.sid] = t]
    BY <1>1, <1>4 DEF PassTurn, At, TypeInv, TypeOK
  <2>2. /\ t \in Session /\ t.x = s.x /\ t.o = s.o /\ t.board = s.board
        /\ t.turn = Opponent(c.mark)
        /\ t.status = s.status /\ t.winner = s.winner /\ t.isDraw = s.isDraw
    BY <1>1 DEF Session, Opponent, Marks
  <2> HIDE DEF t
  <2> QED BY <1>1, <1>2, <2>1, <2>2
<1>5. CASE FinishStatus(h)
  <2> DEFINE t == [s EXCEPT !.status = "completed"]
  <2>1. c.pc = "finish" /\ sessions' = [sessions EXCEPT ![c.sid] = t]
    BY <1>1, <1>5 DEF FinishStatus, At, TypeInv, TypeOK
  <2>2. /\ t \in Session /\ t.x = s.x /\ t.o = s.o /\ t.board = s.board /\ t.turn = s.turn
        /\ t.status = "completed" /\ t.winner = s.winner /\ t.isDraw = s.isDraw
    BY <1>1 DEF Session
  <2> HIDE DEF t
  <2> QED BY <1>1, <1>2, <2>1, <2>2
<1>6. CASE FinishResult(h)
  <2> DEFINE w == WinnerID(s, c.board)
             d == (Winner(c.board) = Empty)
             t == [s EXCEPT !.winner = w, !.isDraw = d]
  <2>1. c.pc = "result" /\ w \in Participants \cup {NoOne} /\ d \in BOOLEAN
        /\ sessions' = [sessions EXCEPT ![c.sid].winner = w, ![c.sid].isDraw = d]
    BY <1>1, <1>6 DEF FinishResult, At, CurrentSession, WinnerID, Session
  <2> HIDE DEF w, d
  <2>2. sessions' = [sessions EXCEPT ![c.sid] = t]
    BY <1>1, <2>1 DEF TypeInv, TypeOK
  <2>3. /\ t \in Session /\ t.x = s.x /\ t.o = s.o /\ t.board = s.board /\ t.turn = s.turn
        /\ t.status = s.status /\ t.winner = w /\ t.isDraw = d
    BY <1>1, <2>1 DEF Session
  <2> HIDE DEF t
  <2> QED BY <1>1, <1>2, <2>1, <2>2, <2>3 DEF w, d
<1> QED BY <1>3, <1>4, <1>5, <1>6

\* The step after them.
LEMMA FieldCalls ==
  ASSUME TypeInv, NEW h \in Handlers
  PROVE  /\ WriteBoard(h) => call[h].pc = "write" /\ Alone(h) /\ Moved(h, "insert")
         /\ PassTurn(h) => call[h].pc = "pass" /\ Alone(h) /\ Moved(h, "save")
         /\ FinishStatus(h) => call[h].pc = "finish" /\ Alone(h) /\ Moved(h, "result")
         /\ FinishResult(h) => call[h].pc = "result" /\ Alone(h) /\ Moved(h, "save")
BY GotoMoves DEF WriteBoard, PassTurn, FinishStatus, FinishResult, At

\* The steps that change no session.
LEMMA QuietEffects ==
  ASSUME TypeInv, NEW h \in Handlers
  PROVE  /\ CheckTurn(h) => /\ call[h].pc = "turn" /\ Alone(h) /\ UNCHANGED sessions
                            /\ call'[h].pc = "board" /\ call'[h].sid = call[h].sid
         /\ ComputeBoard(h) => /\ call[h].pc = "board" /\ Alone(h) /\ UNCHANGED sessions
                               /\ call'[h].pc = "write" /\ call'[h].sid = call[h].sid
         /\ InsertMove(h) => /\ call[h].pc = "insert" /\ Alone(h) /\ UNCHANGED sessions
                             /\ Moved(h, IF Over(call[h].board) THEN "finish" ELSE "pass")
         /\ SaveSession(h) => /\ call[h].pc = "save" /\ Alone(h) /\ UNCHANGED sessions
                              /\ Moved(h, IF Over(call[h].board) THEN "complete" ELSE "reply")
         /\ InsertSession(h) => /\ call[h].pc = "insertSession" /\ Alone(h) /\ UNCHANGED sessions
                                /\ Moved(h, "started")
         /\ CompleteSession(h) => /\ call[h].pc = "complete" /\ Alone(h) /\ UNCHANGED sessions
                                  /\ Moved(h, "reply")
         /\ RefuseTurn(h) \/ RefusePosition(h) \/ AnnounceStart(h) \/ Reply(h) =>
              /\ call[h].pc \in {"turn", "board", "started", "reply"} /\ Alone(h)
              /\ UNCHANGED sessions /\ call'[h] = Idle
<1>1. CASE CheckTurn(h)
  <2> DEFINE new == [call[h] EXCEPT !.pc = "board", !.mark = MarkFor(CurrentSession(h), Owner[h])]
  <2>1. call' = [call EXCEPT ![h] = new] /\ call[h].pc = "turn" /\ UNCHANGED sessions
    BY <1>1 DEF CheckTurn, At, TypeInv, TypeOK
  <2>2. new.pc = "board" /\ new.sid = call[h].sid
    BY DEF TypeInv, TypeOK, Call
  <2> HIDE DEF new
  <2>3. call'[h].pc = "board" /\ call'[h].sid = call[h].sid /\ Alone(h)
    BY <2>1, <2>2 DEF TypeInv, TypeOK, Alone
  <2> QED BY <1>1, <2>1, <2>3 DEF CheckTurn, ComputeBoard, InsertMove, SaveSession, InsertSession,
             CompleteSession, RefuseTurn, RefusePosition, AnnounceStart, Reply, At
<1>2. CASE ComputeBoard(h)
  <2> DEFINE next == ApplyMove(CurrentSession(h).board, call[h].position, call[h].mark)
             new == [call[h] EXCEPT !.pc = "write", !.board = next]
  <2>1. call' = [call EXCEPT ![h] = new] /\ call[h].pc = "board" /\ UNCHANGED sessions
    BY <1>2 DEF ComputeBoard, At, TypeInv, TypeOK
  <2> HIDE DEF next
  <2>2. new.pc = "write" /\ new.sid = call[h].sid
    BY DEF TypeInv, TypeOK, Call
  <2> HIDE DEF new
  <2>3. call'[h].pc = "write" /\ call'[h].sid = call[h].sid /\ Alone(h)
    BY <2>1, <2>2 DEF TypeInv, TypeOK, Alone
  <2> QED BY <1>2, <2>1, <2>3 DEF CheckTurn, ComputeBoard, InsertMove, SaveSession, InsertSession,
             CompleteSession, RefuseTurn, RefusePosition, AnnounceStart, Reply, At
<1>3. ASSUME Return(h) PROVE Alone(h) /\ call'[h] = Idle
  BY <1>3 DEF Return, Alone, TypeInv, TypeOK
<1>4. /\ InsertMove(h) => /\ call[h].pc = "insert" /\ Alone(h) /\ UNCHANGED sessions
                          /\ Moved(h, IF Over(call[h].board) THEN "finish" ELSE "pass")
      /\ SaveSession(h) => /\ call[h].pc = "save" /\ Alone(h) /\ UNCHANGED sessions
                           /\ Moved(h, IF Over(call[h].board) THEN "complete" ELSE "reply")
      /\ InsertSession(h) => /\ call[h].pc = "insertSession" /\ Alone(h) /\ UNCHANGED sessions
                             /\ Moved(h, "started")
      /\ CompleteSession(h) => /\ call[h].pc = "complete" /\ Alone(h) /\ UNCHANGED sessions
                               /\ Moved(h, "reply")
  BY GotoMoves DEF InsertMove, SaveSession, InsertSession, CompleteSession, At
<1>5. RefuseTurn(h) \/ RefusePosition(h) \/ AnnounceStart(h) \/ Reply(h) =>
        /\ call[h].pc \in {"turn", "board", "started", "reply"} /\ Alone(h)
        /\ UNCHANGED sessions /\ call'[h] = Idle
  BY <1>3 DEF RefuseTurn, RefusePosition, AnnounceStart, Reply, At
<1> QED BY <1>1, <1>2, <1>4, <1>5

\* The steps that begin a call.
LEMMA ReceiveEffects ==
  ASSUME TypeInv, NEW h \in Handlers, NEW sid \in SessionIds, NEW position,
         ReceiveMove(h, sid, position)
  PROVE  /\ call[h].pc = "idle" /\ Alone(h) /\ UNCHANGED sessions
         /\ call'[h].pc = "turn" /\ call'[h].sid = sid
<1> DEFINE new == [Idle EXCEPT !.pc = "turn", !.sid = sid, !.position = position]
<1>1. call' = [call EXCEPT ![h] = new] /\ UNCHANGED sessions /\ call[h].pc = "idle"
  BY DEF ReceiveMove, At
<1>2. new.pc = "turn" /\ new.sid = sid
  BY DEF Idle
<1> HIDE DEF new
<1> QED BY <1>1, <1>2 DEF TypeInv, TypeOK, Alone

LEMMA CreateEffects ==
  ASSUME TypeInv, NEW h \in Handlers, NEW sid \in SessionIds, NEW x \in Participants,
         NEW o \in Participants, Create(h, sid, x, o)
  PROVE  /\ call[h].pc = "idle" /\ Alone(h)
         /\ call'[h].pc = "insertSession" /\ call'[h].sid = sid
         /\ sessions[sid] = NoSession /\ sessions'[sid] = NewSession(x, o)
         /\ NewSession(x, o) \in Session
         /\ \A t \in SessionIds \ {sid} : sessions'[t] = sessions[t]
<1> DEFINE new == [Idle EXCEPT !.pc = "insertSession", !.sid = sid]
           s == NewSession(x, o)
<1>1. /\ call' = [call EXCEPT ![h] = new] /\ call[h].pc = "idle" /\ sessions[sid] = NoSession
      /\ sessions' = [sessions EXCEPT ![sid] = s]
  BY DEF Create, At
<1>2. new.pc = "insertSession" /\ new.sid = sid /\ s \in Session
  BY NewSessionType DEF Idle
<1> HIDE DEF new, s
<1> QED BY <1>1, <1>2 DEF TypeInv, TypeOK, Alone, s

\* Every step is a step of one handler, and only FinishStatus goes on to "result".
LEMMA StepIsAlone ==
  ASSUME TypeInv, NEW h \in Handlers, Input(h) \/ CreateStep(h) \/ ApplyMoveStep(h)
  PROVE  /\ Alone(h)
         /\ call'[h].pc = "result" => FinishStatus(h)
         /\ call'[h].pc = "insert" => WriteBoard(h)
         /\ call'[h].pc = "complete" => SaveSession(h)
         /\ call'[h].pc = "insertSession" => \E sid \in SessionIds, x \in Participants \ {Owner[h]} :
              Create(h, sid, x, Owner[h])
<1>1. CASE \E sid \in SessionIds, x \in Participants \ {Owner[h]} : Create(h, sid, x, Owner[h])
  BY <1>1, CreateEffects, OwnerAssumption
<1>2. CASE \E sid \in SessionIds : \E position \in UNION {PositionsAt[n] : n \in 0..9} :
             ReceiveMove(h, sid, position)
  BY <1>2, ReceiveEffects
<1>3. CASE CheckTurn(h) \/ ComputeBoard(h) \/ InsertMove(h)
  BY <1>3, QuietEffects DEF Moved
<1>4. CASE SaveSession(h) \/ InsertSession(h) \/ CompleteSession(h)
  BY <1>4, QuietEffects DEF Moved
<1>5. CASE RefuseTurn(h) \/ RefusePosition(h) \/ AnnounceStart(h) \/ Reply(h)
  BY <1>5, QuietEffects DEF Idle
<1>6. CASE WriteBoard(h) \/ PassTurn(h) \/ FinishStatus(h) \/ FinishResult(h)
  BY <1>6, FieldCalls DEF Moved
<1> QED BY <1>1, <1>2, <1>3, <1>4, <1>5, <1>6 DEF Input, CreateStep, ApplyMoveStep

\* What a step does to the sessions.
LEMMA SessionsAfter ==
  ASSUME TypeInv, NEW h \in Handlers, Input(h) \/ CreateStep(h) \/ ApplyMoveStep(h)
  PROVE  \/ UNCHANGED sessions
         \/ WriteBoard(h) \/ PassTurn(h) \/ FinishStatus(h) \/ FinishResult(h)
         \/ \E sid \in SessionIds :
              /\ sessions[sid] = NoSession /\ sessions'[sid] # NoSession
              /\ \A t \in SessionIds \ {sid} : sessions'[t] = sessions[t]
<1>1. ASSUME NEW sid \in SessionIds, NEW x \in Participants, Create(h, sid, x, Owner[h])
      PROVE  /\ sessions[sid] = NoSession /\ sessions'[sid] # NoSession
             /\ \A t \in SessionIds \ {sid} : sessions'[t] = sessions[t]
  BY <1>1, CreateEffects, OwnerAssumption, NoSessionAssumption
<1>2. CASE \E sid \in SessionIds, x \in Participants : Create(h, sid, x, Owner[h])
  BY <1>1, <1>2
<1> QED BY <1>2
        DEF Input, CreateStep, ApplyMoveStep, ReceiveMove, InsertSession, AnnounceStart, CheckTurn,
            RefuseTurn, ComputeBoard, RefusePosition, InsertMove, SaveSession, CompleteSession, Reply

\* When no move is lost, a mark stays where it is.
LEMMA BoardGrows ==
  ASSUME LockInv, NEW h \in Handlers, Input(h) \/ CreateStep(h) \/ ApplyMoveStep(h),
         NEW sid \in SessionIds, sessions[sid] # NoSession
  PROVE  /\ sessions'[sid] # NoSession
         /\ sessions'[sid].x = sessions[sid].x /\ sessions'[sid].o = sessions[sid].o
         /\ \A c \in Cells : sessions[sid].board[c] # Empty =>
              sessions'[sid].board[c] = sessions[sid].board[c]
<1>1. CASE sessions'[sid] = sessions[sid]
  BY <1>1
<1>2. CASE sessions'[sid] # sessions[sid]
  <2> DEFINE c == call[h]
             s == sessions[sid]
             t == sessions'[sid]
  <2>1. TypeInv
    BY LockInvTypes
  <2>2. WriteBoard(h) \/ PassTurn(h) \/ FinishStatus(h) \/ FinishResult(h)
    BY <1>2, <2>1, SessionsAfter
  <2>3. /\ c.sid = sid /\ s \in Session /\ t \in Session /\ t.x = s.x /\ t.o = s.o
        /\ t.board = IF c.pc = "write" THEN c.board ELSE s.board
    BY <1>2, <2>1, <2>2, FieldEffects
  <2>4. ASSUME c.pc = "write", NEW d \in Cells, s.board[d] # Empty
        PROVE  c.board[d] = s.board[d]
    <3>1. s.board[c.position] = Empty /\ c.board = ApplyMove(s.board, c.position, c.mark)
      BY <2>3, <2>4 DEF LockInv, WriteIsFresh, FreshWrite, CurrentSession, At
    <3>2. s.board \in Boards
      BY <2>3 DEF Session
    <3> QED BY <2>4, <3>1, <3>2 DEF ApplyMove, Boards
  <2> QED BY <2>3, <2>4, NoSessionAssumption
<1> QED BY <1>1, <1>2

-----------------------------------------------------------------------------
(* The order of the marks.                                                 *)

MarksOf(b, mark) == {c \in Cells : b[c] = mark}

\* How many more marks X has on the board than O: one after a move of X, none
\* after a move of O.
Lead(b) == Cardinality(MarksOf(b, MarkX)) - Cardinality(MarksOf(b, MarkO))
LeadAfter(mark) == IF mark = MarkX THEN 1 ELSE 0

\* A handler has stored its mark, and has not yet passed the turn or completed the game.
HasPlaced(c) == c.pc \in {"insert", "pass", "finish"}
Placed(sid) == \E h \in Handlers : call[h].sid = sid /\ HasPlaced(call[h])

\* The game is completed, with its final result.
Settled(sid) ==
  /\ sessions[sid].status = "completed"
  /\ \A h \in Handlers : ~(call[h].sid = sid /\ call[h].pc = "result")

\* What a call knows of the marks on its board.
Timely(h) ==
  LET c == call[h]
      s == CurrentSession(h)
  IN  /\ HasPlaced(c) => Lead(s.board) = LeadAfter(c.mark)
      /\ c.pc = "complete" \/ (c.pc = "save" /\ Over(c.board)) => Settled(c.sid)

\* Whoever has the turn has it because the other player made the last mark.
Alternates(sid) ==
  LET s == sessions[sid]
  IN  s # NoSession =>
        /\ Lead(s.board) \in {0, 1}
        /\ s.status = "active" /\ ~Placed(sid) => Lead(s.board) = 1 - LeadAfter(s.turn)

TurnsInv ==
  /\ \A h \in Handlers : Timely(h)
  /\ \A sid \in SessionIds : Alternates(sid)

LEMMA MarksAreFinite ==
  ASSUME NEW b, NEW mark
  PROVE  IsFiniteSet(MarksOf(b, mark)) /\ Cardinality(MarksOf(b, mark)) \in Nat
<1>1. IsFiniteSet(Cells)
  <2>1. 0 \in Int /\ 8 \in Int
    OBVIOUS
  <2>2. IsFiniteSet(0..8)
    BY <2>1, FS_Interval, Zenon
  <2> QED BY <2>2 DEF Cells
<1>2. MarksOf(b, mark) \subseteq Cells
  BY DEF MarksOf
<1> QED BY <1>1, <1>2, FS_Subset, FS_CardinalityType

\* The number of a move lies between 0 and 9.
LEMMA CountType ==
  ASSUME NEW b
  PROVE  countMoves(b) \in 0..9
<1> DEFINE S == {c \in Cells : b[c] # Empty}
<1>1. 0 \in Int /\ 8 \in Int
  OBVIOUS
<1>2. IsFiniteSet(0..8) /\ Cardinality(0..8) = IF 0 > 8 THEN 0 ELSE 8 - 0 + 1
  BY <1>1, FS_Interval, Zenon
<1>3. S \subseteq 0..8
  BY DEF Cells
<1> HIDE DEF S
<1>4. IsFiniteSet(S) /\ Cardinality(S) <= Cardinality(0..8)
  BY <1>2, <1>3, FS_Subset, Zenon
<1>5. Cardinality(S) \in Nat
  BY <1>4, FS_CardinalityType
<1>6. Cardinality(0..8) = 9
  BY <1>2
<1> QED BY <1>4, <1>5, <1>6 DEF countMoves, S

\* A move on a free cell adds one mark of its player and none of the other's.
LEMMA LeadOfMove ==
  ASSUME NEW b \in Boards, NEW c \in Cells, b[c] = Empty, NEW mark \in Marks
  PROVE  /\ Lead(ApplyMove(b, c, mark)) = Lead(b) + (IF mark = MarkX THEN 1 ELSE -1)
         /\ MarksOf(ApplyMove(b, c, mark), Opponent(mark)) = MarksOf(b, Opponent(mark))
<1> DEFINE new == ApplyMove(b, c, mark)
<1>1. \A d \in Cells : new[d] = IF d = c THEN mark ELSE b[d]
  BY DEF ApplyMove, Boards
<1>2. /\ mark # Empty /\ Opponent(mark) # mark /\ Opponent(mark) # Empty
      /\ mark = MarkX => Opponent(mark) = MarkO
      /\ mark # MarkX => mark = MarkO /\ Opponent(mark) = MarkX
  BY DEF Marks, MarkX, MarkO, Empty, Opponent
<1> HIDE DEF new
<1>3. MarksOf(new, mark) = MarksOf(b, mark) \cup {c} /\ c \notin MarksOf(b, mark)
  BY <1>1, <1>2 DEF MarksOf
<1>4. MarksOf(new, Opponent(mark)) = MarksOf(b, Opponent(mark))
  BY <1>1, <1>2 DEF MarksOf
<1>5. Cardinality(MarksOf(new, mark)) = Cardinality(MarksOf(b, mark)) + 1
  BY <1>3, MarksAreFinite, OneMore
<1>6. Lead(new) = Lead(b) + (IF mark = MarkX THEN 1 ELSE -1)
  <2>1. /\ Cardinality(MarksOf(b, MarkX)) \in Nat /\ Cardinality(MarksOf(b, MarkO)) \in Nat
    BY MarksAreFinite
  <2>2. CASE mark = MarkX
    BY <1>2, <1>4, <1>5, <2>1, <2>2 DEF Lead
  <2>3. CASE mark # MarkX
    BY <1>2, <1>4, <1>5, <2>1, <2>3 DEF Lead
  <2> QED BY <2>2, <2>3
<1> QED BY <1>4, <1>6 DEF new

\* A board without a mark of O on which X does not lead by more than one is not over.
LEMMA FirstMoveIsNotOver ==
  ASSUME NEW b \in Boards, MarksOf(b, MarkO) = {}, Lead(b) \in {0, 1}
  PROVE  ~Over(b)
<1>1. \A c, d \in Cells : b[c] = MarkX /\ b[d] = MarkX => c = d
  <2> SUFFICES ASSUME NEW c \in Cells, NEW d \in Cells, b[c] = MarkX, b[d] = MarkX, c # d
               PROVE  FALSE
    OBVIOUS
  <2>1. IsFiniteSet({c}) /\ Cardinality({c}) = 1
    BY FS_Singleton
  <2>2. IsFiniteSet({c} \cup {d}) /\ Cardinality({c} \cup {d}) = 2
    BY <2>1, OneMore
  <2>3. {c} \cup {d} \subseteq MarksOf(b, MarkX)
    BY DEF MarksOf
  <2>4. Cardinality(MarksOf(b, MarkX)) >= 2
    BY <2>2, <2>3, MarksAreFinite, FS_Subset
  <2>5. Cardinality(MarksOf(b, MarkO)) = 0
    BY FS_EmptySet
  <2>6. Cardinality(MarksOf(b, MarkX)) \in Nat
    BY MarksAreFinite
  <2> QED BY <2>4, <2>5, <2>6 DEF Lead
<1>2. \A c \in Cells : b[c] = Empty \/ b[c] = MarkX
  BY DEF MarksOf, Boards, Marks
<1>3. CompleteLines(b) = {}
  <2> SUFFICES ASSUME NEW i \in 1..8, b[winningLines[i][1]] # Empty,
                      b[winningLines[i][1]] = b[winningLines[i][2]]
               PROVE  FALSE
    BY DEF CompleteLines
  <2>1. winningLines[i][1] \in Cells /\ winningLines[i][2] \in Cells
    BY LinesAreCells
  <2>2. winningLines[i][1] # winningLines[i][2]
    <3>1. i = 1 \/ i = 2 \/ i = 3 \/ i = 4 \/ i = 5 \/ i = 6 \/ i = 7 \/ i = 8
      OBVIOUS
    <3> QED BY <3>1 DEF winningLines
  <2> QED BY <1>1, <1>2, <2>1, <2>2
<1>4. ~IsFull(b)
  <2>1. 0 \in Cells /\ 1 \in Cells
    BY DEF Cells
  <2> QED BY <1>1, <1>2, <2>1 DEF IsFull
<1> QED BY <1>3, <1>4, WinnerOfBoard DEF Over

\* What TurnsInv becomes.
TurnsKept ==
  /\ \A h \in Handlers : Timely(h)'
  /\ \A sid \in SessionIds : Alternates(sid)'

\* The steps that change no session.
LEMMA QuietTurns ==
  ASSUME TurnsInv, NEW h \in Handlers, Alone(h), UNCHANGED sessions, call'[h].pc # "result",
         HasPlaced(call[h]) => HasPlaced(call'[h]) /\ call'[h].sid = call[h].sid,
         Timely(h)'
  PROVE  TurnsKept
<1>1. \A g \in Handlers \ {h} : call'[g] = call[g]
  BY DEF Alone
<1>2. ASSUME NEW sid PROVE Settled(sid) => Settled(sid)'
  BY <1>1 DEF Settled
<1>3. ASSUME NEW g \in Handlers \ {h} PROVE Timely(g)'
  <2>1. Timely(g)
    BY DEF TurnsInv
  <2> QED BY <1>1, <1>2, <2>1 DEF Timely, CurrentSession, HasPlaced
<1>4. ASSUME NEW sid \in SessionIds PROVE Placed(sid) => Placed(sid)'
  BY <1>1 DEF Placed
<1>5. ASSUME NEW sid \in SessionIds PROVE Alternates(sid)'
  BY <1>4 DEF Alternates, TurnsInv
<1> QED BY <1>3, <1>5 DEF TurnsKept

\* A call relies on nothing more.
LEMMA IdleIsTimely ==
  ASSUME NEW h \in Handlers,
         call'[h].pc \in {"idle", "turn", "board", "write", "result", "reply", "started"}
  PROVE  Timely(h)'
BY DEF Timely, HasPlaced

LEMMA QuietStepTurns ==
  ASSUME GameInv, TurnsInv, NEW h \in Handlers,
         \/ \E sid \in SessionIds : \E n \in 0..9 : \E position \in PositionsAt[n] :
              ReceiveMove(h, sid, position)
         \/ CheckTurn(h) \/ ComputeBoard(h) \/ InsertMove(h) \/ SaveSession(h)
         \/ InsertSession(h) \/ CompleteSession(h)
         \/ RefuseTurn(h) \/ RefusePosition(h) \/ AnnounceStart(h) \/ Reply(h)
  PROVE  TurnsKept
<1>1. TypeInv /\ Timely(h)
  BY GameInvTypes DEF TurnsInv
<1>2. CASE \E sid \in SessionIds : \E n \in 0..9 : \E position \in PositionsAt[n] :
             ReceiveMove(h, sid, position)
  <2>0. PICK sid \in SessionIds : \E position : ReceiveMove(h, sid, position)
    BY <1>2
  <2>1. PICK position : ReceiveMove(h, sid, position)
    BY <2>0
  <2> QED BY <1>1, <2>1, ReceiveEffects, IdleIsTimely, QuietTurns DEF HasPlaced
<1>3. CASE CheckTurn(h) \/ ComputeBoard(h) \/ InsertSession(h) \/ CompleteSession(h)
  BY <1>1, <1>3, QuietEffects, IdleIsTimely, QuietTurns DEF HasPlaced, Moved
<1>4. CASE RefuseTurn(h) \/ RefusePosition(h) \/ AnnounceStart(h) \/ Reply(h)
  BY <1>1, <1>4, QuietEffects, IdleIsTimely, QuietTurns DEF HasPlaced, Idle
<1>5. CASE InsertMove(h)
  <2>1. /\ call[h].pc = "insert" /\ Alone(h) /\ UNCHANGED sessions
        /\ Moved(h, IF Over(call[h].board) THEN "finish" ELSE "pass")
    BY <1>1, <1>5, QuietEffects
  <2>2. Timely(h)'
    BY <1>1, <2>1 DEF Timely, Moved, HasPlaced, CurrentSession
  <2> QED BY <2>1, <2>2, QuietTurns DEF HasPlaced, Moved
<1>6. CASE SaveSession(h)
  <2>1. /\ call[h].pc = "save" /\ Alone(h) /\ UNCHANGED sessions
        /\ Moved(h, IF Over(call[h].board) THEN "complete" ELSE "reply")
    BY <1>1, <1>6, QuietEffects
  <2>2. Settled(call[h].sid) => Settled(call[h].sid)'
    BY <2>1 DEF Settled, Moved, Alone
  <2>3. Timely(h)'
    BY <1>1, <2>1, <2>2 DEF Timely, Moved, HasPlaced, Settled
  <2> QED BY <2>1, <2>3, QuietTurns DEF HasPlaced, Moved
<1> QED BY <1>2, <1>3, <1>4, <1>5, <1>6

\* The handler of a busy step and the session it works on.
LEMMA BusyTurn ==
  ASSUME GameInv, TurnsInv, NEW h \in Handlers, call[h].pc \in Busy
  PROVE  LET c == call[h]
             s == sessions[c.sid]
         IN  /\ TypeInv /\ c.sid \in SessionIds /\ s # NoSession
             /\ s \in Session /\ s.board \in Boards /\ s.x # s.o
             /\ c.mark \in Marks /\ s.turn = c.mark /\ (c.mark = MarkO => Owner[h] = s.o)
             /\ Lead(s.board) \in {0, 1}
             /\ s.status = "active" /\ ~Placed(c.sid) => Lead(s.board) = 1 - LeadAfter(s.turn)
             /\ HasPlaced(c) => Lead(s.board) = LeadAfter(c.mark)
             /\ c.pc \in Section => s.status = "active"
             /\ c.pc # "result" => s.status = "active"
<1>1. /\ TypeInv /\ call[h].sid \in SessionIds /\ CurrentSession(h) \in Session
      /\ CurrentSession(h) # NoSession
  BY BusySession
<1>2. HoldsTurn(h)
  BY BusyHolds
<1>3. call[h].mark = MarkO => Owner[h] = CurrentSession(h).o
  BY <1>2 DEF HoldsTurn, MarkFor, MarkX, MarkO, Empty
<1>4. CurrentSession(h).x # CurrentSession(h).o
  BY <1>1 DEF GameInv, PlayersDiffer, CurrentSession
<1>5. Alternates(call[h].sid) /\ Timely(h) /\ Orderly(h)
  BY <1>1 DEF TurnsInv, GameInv
<1> QED BY <1>1, <1>2, <1>3, <1>4, <1>5
        DEF CurrentSession, HoldsTurn, Alternates, Timely, Orderly, Session, Busy

\* The four steps of a busy handler h that assign fields of its session: the
\* calls of the others know as much as before.
LEMMA OthersTimely ==
  ASSUME OneMoverEach, GameInv, TurnsInv, NEW h \in Handlers, call[h].pc \in Busy,
         Alone(h), call'[h].sid = call[h].sid,
         \A sid \in SessionIds \ {call[h].sid} : sessions'[sid] = sessions[sid],
         call'[h].pc = "result" => call[h].pc = "finish"
  PROVE  \A g \in Handlers \ {h} : Timely(g)'
<1> SUFFICES ASSUME NEW g \in Handlers \ {h} PROVE Timely(g)'
  OBVIOUS
<1>1. /\ call'[g] = call[g] /\ Timely(g) /\ TypeInv /\ CurrentSession(g)' = sessions'[call[g].sid]
      /\ CurrentSession(g) = sessions[call[g].sid]
  BY GameInvTypes DEF Alone, TurnsInv, CurrentSession
<1>2. ASSUME call[g].sid # call[h].sid, call[g].pc # "idle" PROVE Timely(g)'
  <2>1. call[g].sid \in SessionIds /\ sessions'[call[g].sid] = sessions[call[g].sid]
    BY <1>1, <1>2, SessionOfCall DEF At
  <2>2. Settled(call[g].sid) => Settled(call[g].sid)'
    BY <1>2, <2>1 DEF Settled, Alone
  <2> QED BY <1>1, <2>1, <2>2 DEF Timely, HasPlaced, Settled
<1>3. ASSUME call[g].sid = call[h].sid, call[g].pc # "idle" PROVE Timely(g)'
  <2>1. call[g].pc \notin Busy
    BY <1>3, BusyIsExclusive
  <2>2. ASSUME Settled(call[g].sid) PROVE FALSE
    <3>1. sessions[call[h].sid].status = "completed" /\ call[h].pc # "result"
      BY <1>3, <2>2 DEF Settled
    <3> QED BY <3>1, BusyTurn
  <2> QED BY <1>1, <1>3, <2>1, <2>2 DEF Timely, HasPlaced, Busy, Section
<1>4. ASSUME call[g].pc = "idle" PROVE Timely(g)'
  BY <1>1, <1>4, IdleIsTimely
<1> QED BY <1>2, <1>3, <1>4

\* The other sessions have the marks, the turn and the placing handler they had.
LEMMA OtherSessionsAlternate ==
  ASSUME TurnsInv, NEW h \in Handlers, Alone(h), call'[h].sid = call[h].sid,
         \A sid \in SessionIds \ {call[h].sid} : sessions'[sid] = sessions[sid],
         Alternates(call[h].sid)'
  PROVE  \A sid \in SessionIds : Alternates(sid)'
<1> SUFFICES ASSUME NEW sid \in SessionIds, sid # call[h].sid PROVE Alternates(sid)'
  BY DEF Alternates, Placed
<1>1. Placed(sid) => Placed(sid)'
  BY DEF Placed, Alone
<1> QED BY <1>1 DEF TurnsInv, Alternates

LEMMA FieldTurns ==
  ASSUME OneMoverEach, GameInv, TurnsInv, NEW h \in Handlers,
         WriteBoard(h) \/ PassTurn(h) \/ FinishStatus(h) \/ FinishResult(h)
  PROVE  TurnsKept
<1> DEFINE c == call[h]
           s == sessions[c.sid]
           t == sessions'[c.sid]
<1>1. c.pc \in Busy /\ TypeInv
  BY GameInvTypes DEF WriteBoard, PassTurn, FinishStatus, FinishResult, At, Busy, Section
<1>2. /\ \A sid \in SessionIds \ {c.sid} : sessions'[sid] = sessions[sid]
      /\ c.sid \in SessionIds
      /\ t.x = s.x /\ t.o = s.o
      /\ t.board = IF c.pc = "write" THEN c.board ELSE s.board
      /\ t.turn = IF c.pc = "pass" THEN Opponent(c.mark) ELSE s.turn
      /\ t.status = IF c.pc = "finish" THEN "completed" ELSE s.status
  BY <1>1, FieldEffects
<1>3. /\ WriteBoard(h) => c.pc = "write" /\ Alone(h) /\ Moved(h, "insert")
      /\ PassTurn(h) => c.pc = "pass" /\ Alone(h) /\ Moved(h, "save")
      /\ FinishStatus(h) => c.pc = "finish" /\ Alone(h) /\ Moved(h, "result")
      /\ FinishResult(h) => c.pc = "result" /\ Alone(h) /\ Moved(h, "save")
  BY <1>1, FieldCalls
<1>4. /\ Alone(h) /\ call'[h].sid = c.sid
      /\ call'[h].pc = "result" => c.pc = "finish"
  BY <1>3 DEF Moved
<1>5. /\ c.mark \in Marks /\ s.turn = c.mark /\ (c.mark = MarkO => Owner[h] = s.o)
      /\ Lead(s.board) \in {0, 1} /\ s.board \in Boards
      /\ s.status = "active" /\ ~Placed(c.sid) => Lead(s.board) = 1 - LeadAfter(s.turn)
      /\ HasPlaced(c) => Lead(s.board) = LeadAfter(c.mark)
      /\ c.pc # "result" => s.status = "active"
      /\ s.x # s.o
  BY <1>1, BusyTurn
<1>6. Orderly(h)
  BY DEF GameInv
<1>7. CASE WriteBoard(h)
  <2>1. c.pc = "write" /\ Moved(h, "insert")
    BY <1>3, <1>7
  <2>2. s.board[c.position] = Empty /\ c.board = ApplyMove(s.board, c.position, c.mark)
        /\ c.position \in Cells
    BY <1>6, <2>1 DEF GameInv, LockInv, WriteIsFresh, FreshWrite, CurrentSession, At, Orderly
  <2>3. ~Placed(c.sid)
    BY <1>1, <2>1, BusyIsExclusive DEF Placed, HasPlaced, Busy, Section
  <2>4. /\ Lead(t.board) = Lead(s.board) + (IF c.mark = MarkX THEN 1 ELSE -1)
        /\ MarksOf(t.board, Opponent(c.mark)) = MarksOf(s.board, Opponent(c.mark))
    BY <1>2, <1>5, <2>1, <2>2, LeadOfMove
  <2>5. Lead(s.board) = 1 - LeadAfter(c.mark)
    BY <1>5, <2>1, <2>3
  <2>6. Lead(t.board) = LeadAfter(c.mark)
    BY <2>4, <2>5 DEF LeadAfter
  <2>7. \A g \in Handlers \ {h} : Timely(g)'
    BY <1>1, <1>2, <1>4, <2>1, OthersTimely
  <2>8. Timely(h)'
    BY <1>4, <2>1, <2>6 DEF Timely, Moved, HasPlaced, CurrentSession
  <2>9. Alternates(c.sid)'
    <3>1. PICK sid \in SessionIds : sid = c.sid
      BY <1>2
    <3>2. Placed(sid)'
      BY <1>4, <2>1, <3>1 DEF Placed, Moved, HasPlaced
    <3>3. Lead(sessions'[sid].board) \in {0, 1}
      BY <2>6, <3>1 DEF LeadAfter
    <3>4. Alternates(sid)'
      BY <3>2, <3>3 DEF Alternates
    <3> QED BY <1>4, <3>1, <3>4
  <2> QED BY <1>2, <1>4, <2>7, <2>8, <2>9, OtherSessionsAlternate DEF TurnsKept
<1>8. CASE PassTurn(h)
  <2>1. c.pc = "pass" /\ Moved(h, "save") /\ HasPlaced(c) /\ ~Over(c.board)
    BY <1>3, <1>6, <1>8 DEF HasPlaced, Orderly
  <2>2. t.board = s.board /\ t.status = s.status /\ t.turn = Opponent(c.mark)
        /\ Lead(s.board) = LeadAfter(c.mark)
    BY <1>2, <1>5, <2>1
  <2>3. Lead(t.board) \in {0, 1} /\ Lead(t.board) = 1 - LeadAfter(t.turn)
    BY <1>5, <2>2 DEF LeadAfter, Opponent, Marks, MarkX, MarkO
  <2>4. \A g \in Handlers \ {h} : Timely(g)'
    BY <1>1, <1>2, <1>4, <2>2, OthersTimely
  <2>5. Timely(h)'
    BY <2>1 DEF Timely, Moved, HasPlaced
  <2>6. Alternates(c.sid)'
    BY <1>4, <2>3 DEF Alternates
  <2> QED BY <1>2, <1>4, <2>4, <2>5, <2>6, OtherSessionsAlternate DEF TurnsKept
<1>9. CASE FinishStatus(h)
  <2>1. c.pc = "finish" /\ Moved(h, "result") /\ Over(s.board)
    BY <1>3, <1>6, <1>9 DEF Orderly, CurrentSession
  <2>2. t.board = s.board /\ t.status = "completed"
    BY <1>2, <2>1
  <2>3. \A g \in Handlers \ {h} : Timely(g)'
    BY <1>1, <1>2, <1>4, <2>1, <2>2, OthersTimely
  <2>4. Timely(h)'
    BY <2>1, IdleIsTimely DEF Moved
  <2>5. Alternates(c.sid)'
    BY <1>4, <1>5, <2>2 DEF Alternates
  <2> QED BY <1>2, <1>4, <2>3, <2>4, <2>5, OtherSessionsAlternate DEF TurnsKept
<1>10. CASE FinishResult(h)
  <2>1. c.pc = "result" /\ Moved(h, "save") /\ s.status = "completed"
    BY <1>3, <1>6, <1>10 DEF Orderly, CurrentSession
  <2>2. t.board = s.board /\ t.status = "completed"
    BY <1>2, <2>1
  <2>3. ASSUME NEW g \in Handlers \ {h} PROVE Timely(g)'
    <3>1. \A k \in Handlers : call'[k].pc = "result" => k # h /\ call'[k] = call[k]
      BY <1>4, <2>1 DEF Alone, Moved
    <3> QED BY <1>1, <1>2, <1>4, <2>1, <2>2, OthersTimely
  <2>4. ASSUME NEW g \in Handlers PROVE ~(call'[g].sid = c.sid /\ call'[g].pc = "result")
    <3>1. CASE g = h
      BY <2>1, <3>1 DEF Moved
    <3>2. CASE g # h
      BY <1>1, <1>4, <2>1, <3>2, BusyIsExclusive DEF Alone, Busy
    <3> QED BY <3>1, <3>2
  <2>5. Timely(h)'
    BY <1>4, <2>1, <2>2, <2>4 DEF Timely, Settled, Moved, HasPlaced
  <2>6. Alternates(c.sid)'
    BY <1>4, <1>5, <2>2 DEF Alternates
  <2> QED BY <1>2, <1>4, <2>3, <2>5, <2>6, OtherSessionsAlternate DEF TurnsKept
<1> QED BY <1>7, <1>8, <1>9, <1>10

LEMMA NewBoardLead == Lead(NewBoard) = 0 /\ MarksOf(NewBoard, MarkO) = {}
<1>1. MarksOf(NewBoard, MarkO) = {} /\ MarksOf(NewBoard, MarkX) = {}
  BY DEF MarksOf, NewBoard, MarkO, MarkX, Empty
<1> QED BY <1>1, FS_EmptySet DEF Lead

\* A new game: X begins, and O is still creating it.
LEMMA CreateTurns ==
  ASSUME GameInv, TurnsInv, NEW h \in Handlers, NEW sid \in SessionIds,
         NEW x \in Participants, Create(h, sid, x, Owner[h])
  PROVE  TurnsKept
<1> DEFINE s == NewSession(x, Owner[h])
<1>1. TypeInv /\ Owner[h] \in Participants
  BY GameInvTypes, OwnerAssumption
<1>2. /\ call[h].pc = "idle" /\ Alone(h)
      /\ call'[h].pc = "insertSession" /\ call'[h].sid = sid
      /\ sessions[sid] = NoSession /\ sessions'[sid] = s
      /\ \A t \in SessionIds \ {sid} : sessions'[t] = sessions[t]
  BY <1>1, CreateEffects
<1>3. s.o = Owner[h] /\ s.board = NewBoard /\ s.turn = MarkX /\ s.status = "active"
  BY DEF NewSession
<1> HIDE DEF s
<1>4. Timely(h)'
  BY <1>2, <1>3, NewBoardLead DEF Timely, HasPlaced, CurrentSession
<1>5. ASSUME NEW g \in Handlers \ {h}, call[g].pc # "idle" PROVE Timely(g)'
  <2>1. /\ call'[g] = call[g] /\ Timely(g) /\ call[g].sid \in SessionIds
        /\ call[g].sid # sid /\ sessions'[call[g].sid] = sessions[call[g].sid]
    BY <1>1, <1>2, <1>5, SessionOfCall DEF Alone, TurnsInv, At, CurrentSession, TypeInv, Located
  <2>2. Settled(call[g].sid) => Settled(call[g].sid)'
    BY <1>2, <2>1 DEF Settled, Alone
  <2> QED BY <2>1, <2>2 DEF Timely, HasPlaced, CurrentSession, Settled
<1>6. ASSUME NEW g \in Handlers \ {h}, call[g].pc = "idle" PROVE Timely(g)'
  BY <1>2, <1>6, IdleIsTimely DEF Alone
<1>7. ASSUME NEW t \in SessionIds PROVE Alternates(t)'
  <2>1. CASE t = sid
    BY <1>2, <1>3, <2>1, NewBoardLead DEF Alternates, LeadAfter
  <2>2. CASE t # sid
    <3>1. Placed(t) => Placed(t)'
      BY <1>2 DEF Placed, Alone, HasPlaced
    <3> QED BY <1>2, <2>2, <3>1 DEF Alternates, TurnsInv
  <2> QED BY <2>1, <2>2
<1> QED BY <1>4, <1>5, <1>6, <1>7 DEF TurnsKept

LEMMA NextTurnsInv ==
  ASSUME OneMoverEach, GameInv, TurnsInv, [Next]_vars
  PROVE  TurnsInv'
<1>1. TurnsKept => TurnsInv'
  BY DEF TurnsKept, TurnsInv
<1>2. CASE Next
  <2>1. PICK h \in Handlers : Input(h) \/ CreateStep(h) \/ ApplyMoveStep(h)
    BY <1>2 DEF Next
  <2> QED BY <1>1, <2>1, CreateTurns, QuietStepTurns, FieldTurns
          DEF Input, CreateStep, ApplyMoveStep
<1>3. CASE UNCHANGED vars
  <2>1. \A h \in Handlers : Timely(h)'
    BY <1>3 DEF vars, TurnsInv, Timely, HasPlaced, CurrentSession, Settled
  <2>2. \A sid \in SessionIds : Alternates(sid)'
    BY <1>3 DEF vars, TurnsInv, Alternates, Placed, HasPlaced
  <2> QED BY <2>1, <2>2 DEF TurnsInv
<1> QED BY <1>2, <1>3

LEMMA InitTurnsInv == Init => TurnsInv
BY DEF Init, TurnsInv, Timely, Alternates, HasPlaced, Idle

LEMMA AlternatingMarks == TurnsInv => MarksAlternate
<1> SUFFICES ASSUME TurnsInv, NEW sid \in SessionIds, sessions[sid] # NoSession
             PROVE  Cardinality({c \in Cells : sessions[sid].board[c] = MarkX})
                      - Cardinality({c \in Cells : sessions[sid].board[c] = MarkO}) \in {0, 1}
  BY DEF MarksAlternate
<1> QED BY DEF TurnsInv, Alternates, Lead, MarksOf

\* When no participant has two handlers, the marks of every game alternate, as
\* the README promises.  MCTwoHandlers shows what happens when one has.
THEOREM TurnOrder ==
  ASSUME OneHandlerEach
  PROVE  Spec => []MarksAlternate
<1>1. GameInv /\ TurnsInv /\ [Next]_vars => GameInv' /\ TurnsInv'
  BY NextGameInv, OneHandlerIsEnough, NextTurnsInv
<1> QED BY <1>1, AlternatingMarks, InitGameInv, InitTurnsInv, PTL DEF Spec

-----------------------------------------------------------------------------
(* The beginning of a game.                                                *)

\* While a session is being inserted its second player, who has one handler, is
\* busy creating it and has not moved.
Opening(h) ==
  LET s == CurrentSession(h)
  IN  call[h].pc = "insertSession" =>
        Owner[h] = s.o /\ s.status = "active" /\ MarksOf(s.board, MarkO) = {}

OpeningInv == \A h \in Handlers : Opening(h)

\* The moves of others leave a session that g is inserting in its opening.
LEMMA FieldOpening ==
  ASSUME OneHandlerEach, GameInv, TurnsInv, NEW h \in Handlers,
         WriteBoard(h) \/ PassTurn(h) \/ FinishStatus(h) \/ FinishResult(h),
         NEW g \in Handlers \ {h}, call[g].pc = "insertSession", Opening(g)
  PROVE  Opening(g)'
<1> DEFINE c == call[h]
           s == sessions[c.sid]
           t == sessions'[c.sid]
<1>1. /\ TypeInv /\ c.pc \in Busy /\ call[g].sid \in SessionIds
      /\ CurrentSession(g) = sessions[call[g].sid]
      /\ CurrentSession(g)' = sessions'[call'[g].sid]
  BY GameInvTypes, SessionOfCall
     DEF WriteBoard, PassTurn, FinishStatus, FinishResult, At, Busy, Section, CurrentSession
<1>2. call'[g] = call[g]
  BY <1>1, FieldCalls DEF Alone
<1>3. CASE call[g].sid # c.sid
  <2>1. sessions'[call[g].sid] = sessions[call[g].sid]
    BY <1>1, <1>3, FieldEffects
  <2> QED BY <1>1, <1>2, <2>1 DEF Opening
<1>4. CASE call[g].sid = c.sid
  <2>1. Owner[g] = s.o /\ s.status = "active" /\ MarksOf(s.board, MarkO) = {}
    BY <1>1, <1>4 DEF Opening
  <2>2. Owner[h] # s.o
    BY <2>1 DEF OneHandlerEach
  <2>3. /\ c.sid \in SessionIds /\ c.mark = MarkX /\ s.board \in Boards /\ Lead(s.board) \in {0, 1}
    BY <1>1, <2>2, BusyTurn DEF Marks
  <2>4. t.o = s.o
    BY <1>1, FieldEffects
  <2>5. t.status = "active"
    <3>1. c.pc # "finish"
      <4>1. ~Over(s.board)
        BY <2>1, <2>3, FirstMoveIsNotOver
      <4> QED BY <4>1 DEF GameInv, Orderly, CurrentSession
    <3> QED BY <1>1, <2>1, <3>1, FieldEffects
  <2>6. MarksOf(t.board, MarkO) = {}
    <3>1. CASE c.pc = "write"
      <4>1. s.board[c.position] = Empty /\ c.board = ApplyMove(s.board, c.position, c.mark)
            /\ c.position \in Cells
        BY <3>1 DEF GameInv, LockInv, WriteIsFresh, FreshWrite, CurrentSession, At, Orderly
      <4>2. t.board = c.board
        BY <1>1, <3>1, FieldEffects
      <4> QED BY <2>1, <2>3, <4>1, <4>2, LeadOfMove DEF Marks, Opponent
    <3>2. CASE c.pc # "write"
      BY <1>1, <2>1, <3>2, FieldEffects
    <3> QED BY <3>1, <3>2
  <2> QED BY <1>1, <1>2, <1>4, <2>1, <2>4, <2>5, <2>6 DEF Opening
<1> QED BY <1>3, <1>4

LEMMA CreateOpening ==
  ASSUME TypeInv, OpeningInv, NEW h \in Handlers, NEW sid \in SessionIds,
         NEW x \in Participants, Create(h, sid, x, Owner[h])
  PROVE  OpeningInv'
<1> DEFINE s == NewSession(x, Owner[h])
<1>1. /\ Alone(h) /\ call'[h].sid = sid
      /\ sessions[sid] = NoSession /\ sessions'[sid] = s
      /\ \A t \in SessionIds \ {sid} : sessions'[t] = sessions[t]
  BY CreateEffects, OwnerAssumption
<1>2. s.o = Owner[h] /\ s.board = NewBoard /\ s.status = "active"
  BY DEF NewSession
<1> HIDE DEF s
<1>3. Opening(h)'
  BY <1>1, <1>2, NewBoardLead DEF Opening, CurrentSession
<1>4. ASSUME NEW g \in Handlers \ {h} PROVE Opening(g)'
  <2>1. call[g].pc = "insertSession" => call[g].sid \in SessionIds \ {sid}
    BY <1>1, SessionOfCall DEF At, CurrentSession, TypeInv, Located
  <2> QED BY <1>1, <2>1 DEF Alone, OpeningInv, Opening, CurrentSession
<1> QED BY <1>3, <1>4 DEF OpeningInv

LEMMA NextOpeningInv ==
  ASSUME OneHandlerEach, GameInv, TurnsInv, OpeningInv, [Next]_vars
  PROVE  OpeningInv'
<1>1. ASSUME NEW h \in Handlers, Input(h) \/ CreateStep(h) \/ ApplyMoveStep(h)
      PROVE  OpeningInv'
  <2>1. TypeInv
    BY GameInvTypes
  <2>2. CASE call'[h].pc = "insertSession"
    BY <1>1, <2>1, <2>2, StepIsAlone, CreateOpening
  <2>3. CASE call'[h].pc # "insertSession"
    <3>1. Alone(h) /\ Opening(h)'
      BY <1>1, <2>1, <2>3, StepIsAlone DEF Opening
    <3>2. ASSUME NEW g \in Handlers \ {h}, call[g].pc = "insertSession" PROVE Opening(g)'
      <4>1. Opening(g) /\ call'[g] = call[g] /\ call[g].sid \in SessionIds
            /\ CurrentSession(g) # NoSession
        BY <2>1, <3>1, <3>2, SessionOfCall DEF OpeningInv, Alone, At, TypeInv, Located
      <4>2. CASE WriteBoard(h) \/ PassTurn(h) \/ FinishStatus(h) \/ FinishResult(h)
        BY <3>2, <4>1, <4>2, FieldOpening
      <4>3. CASE sessions'[call[g].sid] = sessions[call[g].sid]
        BY <4>1, <4>3 DEF Opening, CurrentSession
      <4> QED BY <1>1, <2>1, <4>1, <4>2, <4>3, SessionsAfter DEF CurrentSession
    <3> QED BY <3>1, <3>2 DEF OpeningInv, Opening, Alone
  <2> QED BY <2>2, <2>3
<1>2. CASE UNCHANGED vars
  BY <1>2 DEF vars, OpeningInv, Opening, CurrentSession
<1> QED BY <1>1, <1>2 DEF Next

LEMMA InitOpeningInv == Init => OpeningInv
BY DEF Init, OpeningInv, Opening, Idle

=============================================================================
