----------------------------- MODULE SessionManager -----------------------------
(***************************************************************************)
(* server/internal/session/manager.go over the session half of             *)
(* server/internal/store/memory.go, as run by the connection goroutines of *)
(* server/internal/ws/gateway.go.                                          *)
(*                                                                         *)
(* A handler is one connection goroutine: it dispatches the messages of    *)
(* its participant one at a time, so it is inside at most one call.        *)
(* MemoryStore's methods are atomic (they hold its mutex), but the Session *)
(* they return is a pointer: ApplyMove reads and writes its fields with no *)
(* lock at all, and waits for PostgreSQL in the middle.  Every such access *)
(* is a step of its own here, named by the pc it leaves:                   *)
(*                                                                         *)
(*   idle -> turn -> board -> write -> insert -+-> pass ---------> save    *)
(*                                             +-> finish -> result -> save*)
(*   save -> [complete ->] reply -> idle       (ApplyMove)                 *)
(*   idle -> insertSession -> started -> idle  (Create)                    *)
(***************************************************************************)
EXTENDS GameEngine

CONSTANTS
  Participants,   \* participant ids
  Handlers,       \* connection goroutines
  Owner,          \* the participant a handler serves
  SessionIds,     \* the uuids of the sessions that can be created
  PositionsAt,    \* bound: the positions clients send when n cells are taken
  NoSession, NoOne

ASSUME OwnerAssumption == Owner \in [Handlers -> Participants]
ASSUME PositionsAssumption == PositionsAt \in [0..9 -> SUBSET Int]
ASSUME NoneAssumption == NoSession \notin SessionIds /\ NoOne \notin Participants

VARIABLES
  sessions,             \* MemoryStore.sessions and the structs it points to
  sessionByParticipant, \* MemoryStore.sessionByParticipant
  call,                 \* what each handler is executing, with its locals
  activeGames           \* the ActiveGames gauge

vars == <<sessions, sessionByParticipant, call, activeGames>>

Session == [x : Participants, o : Participants, board : Boards, turn : Marks,
            status : {"active", "completed"},
            winner : Participants \cup {NoOne}, isDraw : BOOLEAN]

ASSUME NoSessionAssumption == NoSession \notin Session

Pcs == {"idle", "turn", "board", "write", "insert", "pass", "finish", "result",
        "save", "complete", "reply", "insertSession", "started"}

Call == [pc : Pcs, sid : SessionIds \cup {NoSession}, position : Int,
         mark : Marks \cup {Empty}, board : Boards]

Idle == [pc |-> "idle", sid |-> NoSession, position |-> 0,
         mark |-> Empty, board |-> NewBoard]

\* No two goroutines serve the same participant.
OneHandlerEach == \A g, h \in Handlers : Owner[g] = Owner[h] => g = h

TypeOK ==
  /\ sessions \in [SessionIds -> Session \cup {NoSession}]
  /\ sessionByParticipant \in [Participants -> SessionIds \cup {NoSession}]
  /\ call \in [Handlers -> Call]
  /\ activeGames \in Int

Init ==
  /\ sessions = [sid \in SessionIds |-> NoSession]
  /\ sessionByParticipant = [p \in Participants |-> NoSession]
  /\ call = [h \in Handlers |-> Idle]
  /\ activeGames = 0

-----------------------------------------------------------------------------
(* The entities and the store.                                             *)

MarkFor(s, p) == IF p = s.x THEN MarkX ELSE IF p = s.o THEN MarkO ELSE Empty

Players(s) == {s.x, s.o}

\* Mutant: the entry of the second player is not deleted.
IndexAfterSaveKeepsO(index, sid, s) ==
  [p \in Participants |->
     IF p \notin Players(s) \/ (s.status # "active" /\ p = s.o) THEN index[p]
     ELSE IF s.status = "active" THEN sid ELSE NoSession]

\* SaveSession: the index entries of both players follow the session's status.
IndexAfterSave(index, sid, s) ==
  [p \in Participants |->
     IF p \notin Players(s) THEN index[p]
     ELSE IF s.status = "active" THEN sid ELSE NoSession]

\* Recover(p), as the (session, ok) of GetActiveSessionForParticipant.
Recover(p) == sessionByParticipant[p]

\* The unsynchronised steps of a call go from one pc to the next.
At(h, pc) == call[h].pc = pc
Goto(h, pc) == call' = [call EXCEPT ![h].pc = pc]
Return(h) == call' = [call EXCEPT ![h] = Idle]

CurrentSession(h) == sessions[call[h].sid]

-----------------------------------------------------------------------------
(* Create, called by RespondInvitation in the handler of the invitee, o.   *)

NewSession(x, o) ==
  [x |-> x, o |-> o, board |-> NewBoard, turn |-> MarkX, status |-> "active",
   winner |-> NoOne, isDraw |-> FALSE]

Create(h, sid, x, o) ==
  /\ At(h, "idle")
  /\ sessions[sid] = NoSession
  /\ LET s == NewSession(x, o)
     IN  /\ sessions' = [sessions EXCEPT ![sid] = s]
         /\ sessionByParticipant' = IndexAfterSave(sessionByParticipant, sid, s)
  /\ call' = [call EXCEPT ![h] = [Idle EXCEPT !.pc = "insertSession", !.sid = sid]]
  /\ UNCHANGED activeGames

\* InsertSession: its error is only logged.
InsertSession(h) ==
  /\ At(h, "insertSession")
  /\ Goto(h, "started")
  /\ UNCHANGED <<sessions, sessionByParticipant, activeGames>>

\* handleInviteRespond counts the game and broadcasts game_started.
AnnounceStart(h) ==
  /\ At(h, "started")
  /\ activeGames' = activeGames + 1
  /\ Return(h)
  /\ UNCHANGED <<sessions, sessionByParticipant>>

-----------------------------------------------------------------------------
(* ApplyMove.                                                              *)

\* A move message is read, the session found and its status is active.  When
\* the session is unknown or completed the reply is an error and no state
\* changes, which is a stuttering step.
ReceiveMove(h, sid, position) ==
  /\ At(h, "idle")
  /\ sessions[sid] # NoSession
  /\ sessions[sid].status = "active"
  /\ position \in PositionsAt[countMoves(sessions[sid].board)]
  /\ call' = [call EXCEPT ![h] = [Idle EXCEPT !.pc = "turn", !.sid = sid,
                                              !.position = position]]
  /\ UNCHANGED <<sessions, sessionByParticipant, activeGames>>

\* Mutant: any participant of the session may move at any time.
MayMoveAnyTurn(s, p) == MarkFor(s, p) # Empty

\* p plays in s and it is p's turn.
MayMove(s, p) == MarkFor(s, p) # Empty /\ s.turn = MarkFor(s, p)

CheckTurn(h) ==
  /\ At(h, "turn")
  /\ MayMove(CurrentSession(h), Owner[h])
  /\ call' = [call EXCEPT ![h].pc = "board",
                          ![h].mark = MarkFor(CurrentSession(h), Owner[h])]
  /\ UNCHANGED <<sessions, sessionByParticipant, activeGames>>

\* ErrNotAParticipant or ErrNotYourTurn.
RefuseTurn(h) ==
  /\ At(h, "turn")
  /\ ~MayMove(CurrentSession(h), Owner[h])
  /\ Return(h)
  /\ UNCHANGED <<sessions, sessionByParticipant, activeGames>>

\* game.ApplyMove reads the whole board and returns the next one.
ComputeBoard(h) ==
  /\ At(h, "board")
  /\ MoveError(CurrentSession(h).board, call[h].position) = "nil"
  /\ call' = [call EXCEPT
       ![h].pc = "write",
       ![h].board = ApplyMove(CurrentSession(h).board, call[h].position, call[h].mark)]
  /\ UNCHANGED <<sessions, sessionByParticipant, activeGames>>

\* ErrPositionOutOfRange or ErrCellTaken.
RefusePosition(h) ==
  /\ At(h, "board")
  /\ MoveError(CurrentSession(h).board, call[h].position) # "nil"
  /\ Return(h)
  /\ UNCHANGED <<sessions, sessionByParticipant, activeGames>>

WriteBoard(h) ==
  /\ At(h, "write")
  /\ sessions' = [sessions EXCEPT ![call[h].sid].board = call[h].board]
  /\ Goto(h, "insert")
  /\ UNCHANGED <<sessionByParticipant, activeGames>>

Over(b) == Winner(b) # Empty \/ IsFull(b)

\* InsertMove returns (its error is only logged) and the outcome is decided
\* on the local board.
InsertMove(h) ==
  /\ At(h, "insert")
  /\ Goto(h, IF Over(call[h].board) THEN "finish" ELSE "pass")
  /\ UNCHANGED <<sessions, sessionByParticipant, activeGames>>

PassTurn(h) ==
  /\ At(h, "pass")
  /\ sessions' = [sessions EXCEPT ![call[h].sid].turn = Opponent(call[h].mark)]
  /\ Goto(h, "save")
  /\ UNCHANGED <<sessionByParticipant, activeGames>>

\* Mutant: the turn is passed although the game is over.
FinishStatusPassesTurn(h) ==
  /\ At(h, "finish")
  /\ sessions' = [sessions EXCEPT ![call[h].sid].status = "completed",
                                 ![call[h].sid].turn = Opponent(call[h].mark)]
  /\ Goto(h, "result")
  /\ UNCHANGED <<sessionByParticipant, activeGames>>

FinishStatus(h) ==
  /\ At(h, "finish")
  /\ sessions' = [sessions EXCEPT ![call[h].sid].status = "completed"]
  /\ Goto(h, "result")
  /\ UNCHANGED <<sessionByParticipant, activeGames>>

\* The winner's id, or NoOne and a draw.
WinnerID(s, b) ==
  IF Winner(b) = Empty THEN NoOne ELSE IF Winner(b) = MarkO THEN s.o ELSE s.x

FinishResult(h) ==
  /\ At(h, "result")
  /\ sessions' = [sessions EXCEPT
       ![call[h].sid].winner = WinnerID(CurrentSession(h), call[h].board),
       ![call[h].sid].isDraw = (Winner(call[h].board) = Empty)]
  /\ Goto(h, "save")
  /\ UNCHANGED <<sessionByParticipant, activeGames>>

\* SaveSession stores the same pointer again and refreshes the index from the
\* status the session has now.
SaveSession(h) ==
  /\ At(h, "save")
  /\ sessionByParticipant' =
       IndexAfterSave(sessionByParticipant, call[h].sid, CurrentSession(h))
  /\ Goto(h, IF Over(call[h].board) THEN "complete" ELSE "reply")
  /\ UNCHANGED <<sessions, activeGames>>

\* CompleteSession: its error is only logged.
CompleteSession(h) ==
  /\ At(h, "complete")
  /\ Goto(h, "reply")
  /\ UNCHANGED <<sessions, sessionByParticipant, activeGames>>

\* Mutant: the gauge goes down for full boards only.
GamesEndedWhenFull(b) == IF IsFull(b) THEN 1 ELSE 0

\* What a completed move takes off the gauge.
GamesEnded(b) == IF Over(b) THEN 1 ELSE 0

\* handleMove updates the gauge and broadcasts move_applied or game_completed.
Reply(h) ==
  /\ At(h, "reply")
  /\ activeGames' = activeGames - GamesEnded(call[h].board)
  /\ Return(h)
  /\ UNCHANGED <<sessions, sessionByParticipant>>

-----------------------------------------------------------------------------

ApplyMoveStep(h) ==
  \/ CheckTurn(h) \/ RefuseTurn(h) \/ ComputeBoard(h) \/ RefusePosition(h)
  \/ WriteBoard(h) \/ InsertMove(h) \/ PassTurn(h) \/ FinishStatus(h)
  \/ FinishResult(h) \/ SaveSession(h) \/ CompleteSession(h) \/ Reply(h)

CreateStep(h) == InsertSession(h) \/ AnnounceStart(h)

Input(h) ==
  \/ \E sid \in SessionIds, x \in Participants \ {Owner[h]} : Create(h, sid, x, Owner[h])
  \/ \E sid \in SessionIds : \E position \in UNION {PositionsAt[n] : n \in 0..9} :
       ReceiveMove(h, sid, position)

Next == \E h \in Handlers : Input(h) \/ CreateStep(h) \/ ApplyMoveStep(h)

Spec == Init /\ [][Next]_vars

\* A goroutine that has something to do is eventually scheduled, and a call
\* to PostgreSQL eventually returns (with or without an error).
Fairness == \A h \in Handlers : WF_vars(CreateStep(h) \/ ApplyMoveStep(h))

FairSpec == Spec /\ Fairness

-----------------------------------------------------------------------------
(* Correctness.                                                            *)

\* The accesses to the Session between the turn check and the write that
\* gives the turn or the game away.
Section == {"board", "write", "insert", "pass", "finish"}

InSection(h, sid) == call[h].pc \in Section /\ call[h].sid = sid

\* The turn is the only thing that keeps two goroutines from working on one
\* Session at once: ApplyMove takes no lock.  When every participant has one
\* handler, at most one handler is past the turn check of a session and has
\* not yet passed the turn or completed the game.
TurnIsALock ==
  \A sid \in SessionIds : \A g, h \in Handlers :
    InSection(g, sid) /\ InSection(h, sid) => g = h

FreshWrite(h) ==
  LET b == CurrentSession(h).board
  IN  /\ b[call[h].position] = Empty
      /\ call[h].board = ApplyMove(b, call[h].position, call[h].mark)

\* No lost update: the board a handler is about to store still is the stored
\* board with its own mark added on a free cell.
WriteIsFresh == \A h \in Handlers : At(h, "write") => FreshWrite(h)

\* What makes the turn a lock, as an inductive invariant.  A call is about a
\* session that exists, and a handler in the section holds the turn of its
\* session with the mark of its own participant.
Located ==
  \A h \in Handlers : ~At(h, "idle") =>
    call[h].sid \in SessionIds /\ CurrentSession(h) # NoSession

HoldsTurn(h) ==
  /\ call[h].mark \in Marks
  /\ call[h].mark = MarkFor(CurrentSession(h), Owner[h])
  /\ CurrentSession(h).turn = call[h].mark

TurnIsHeld == \A h \in Handlers : call[h].pc \in Section => HoldsTurn(h)

LockInv == TypeOK /\ Located /\ TurnIsHeld /\ WriteIsFresh

\* No move reaches a game that is over: ApplyMove checks the status once, when
\* the message is read, and a check that has become stale is made good by the
\* turn, which the move that completes a game leaves with its own player.
MovesAreInTime ==
  \A h \in Handlers : call[h].pc \in Section => CurrentSession(h).status = "active"

Finishing(sid) ==
  \E h \in Handlers : call[h].sid = sid /\ call[h].pc \in {"result", "save"}

\* Recovery never hands out a game that is over: an index entry leads to a
\* game its participant plays, and the game is active unless the handler that
\* completed it is still on its way to SaveSession.
RecoverIsCurrent ==
  \A p \in Participants : Recover(p) # NoSession =>
    LET sid == Recover(p)
    IN  /\ sessions[sid] # NoSession
        /\ p \in Players(sessions[sid])
        /\ sessions[sid].status = "active" \/ Finishing(sid)

\* Once no call is in flight the ActiveGames gauge is the number of active
\* sessions: no game is counted twice, or ended twice.
GaugeSettles ==
  (\A h \in Handlers : At(h, "idle")) =>
    activeGames = Cardinality({sid \in SessionIds : sessions[sid] # NoSession
                                 /\ sessions[sid].status = "active"})

\* The README's turn order (README.md, In-Game Play, 1): in every session the
\* marks on the board alternate, X first.
MarksAlternate ==
  \A sid \in SessionIds : sessions[sid] # NoSession =>
    LET Count(mark) == Cardinality({c \in Cells : sessions[sid].board[c] = mark})
    IN  Count(MarkX) - Count(MarkO) \in {0, 1}

\* The players of a completed game are released: neither can recover it any
\* more, so both can be invited again.
FinishedGamesRelease ==
  \A sid \in SessionIds :
    (sessions[sid] # NoSession /\ sessions[sid].status = "completed")
      ~> (\A p \in Participants : Recover(p) # sid)

=============================================================================
