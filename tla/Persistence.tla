------------------------------- MODULE Persistence -------------------------------
(***************************************************************************)
(* The session manager with the database it writes to, and the process     *)
(* both live in: the INSERTs and the UPDATE of server/internal/db          *)
(* /postgres.go under the constraints of migrations/V2 and V3, and the     *)
(* start-up and the end of server/cmd/server/main.go.                      *)
(*                                                                         *)
(* A statement takes effect at some moment of the handler's wait, or       *)
(* fails, or takes effect and fails to say so; the caller only logs an     *)
(* error, so the last two look the same to it.  The process may end at any *)
(* moment, with every handler where it is, and all it has in memory is     *)
(* lost.  A shutdown on SIGTERM is no different: it waits for no handler,  *)
(* because http.Server.Shutdown does not know of upgraded connections.     *)
(***************************************************************************)
EXTENDS SessionManager

CONSTANTS
  MaxAttempts,  \* maxAttempts of connectWithRetry
  MaxStarts,    \* bound: how often somebody starts the server again
  NoRow

ASSUME StartAssumption == MaxAttempts \in Nat \ {0} /\ MaxStarts \in Nat

VARIABLES
  rows,         \* the table sessions: what it says of each session
  moves,        \* the table moves
  failed,       \* history: a statement has failed for reasons of its own
  process,      \* what main is doing
  attempts,     \* db.Connect has failed so often
  starts,       \* how often the server has been started again
  lost,         \* history: the sessions of earlier processes, as they were last
  interrupted   \* history: those of them that a handler was working on

tables == <<rows, moves, failed>>
server == <<process, attempts, starts, lost, interrupted>>
dbVars == <<tables, server>>

Row == [status : {"active", "completed"}, winner : Participants \cup {NoOne}]

ASSUME NotARow == NoRow \notin Row

MoveRow == [sid : SessionIds, participant : Participants, position : Int, number : 0..9]

DbTypeOK ==
  /\ TypeOK
  /\ rows \in [SessionIds -> Row \cup {NoRow}]
  /\ moves \subseteq MoveRow
  /\ failed \in BOOLEAN
  /\ process \in {"connecting", "waiting", "serving", "exited", "gaveUp"}
  /\ attempts \in 0..MaxAttempts /\ starts \in 0..MaxStarts
  /\ lost \in [SessionIds -> Session \cup {NoSession}]
  /\ interrupted \subseteq SessionIds

DbInit ==
  /\ Init
  /\ rows = [sid \in SessionIds |-> NoRow]
  /\ moves = {}
  /\ failed = FALSE
  /\ process = "connecting" /\ attempts = 0 /\ starts = 0
  /\ lost = [sid \in SessionIds |-> NoSession]
  /\ interrupted = {}

-----------------------------------------------------------------------------
(* Statements.                                                             *)

\* Without effect: the connection to PostgreSQL is lost, a timeout, a full disk.
Fails == failed' = TRUE /\ UNCHANGED <<rows, moves>>

\* INSERT INTO sessions, with the status when the statement was sent.
InsertSessionRow(h) ==
  /\ InsertSession(h)
  /\ \/ Fails
     \/ \E status \in {"active", CurrentSession(h).status} :
          /\ rows' = [rows EXCEPT ![call[h].sid] = [status |-> status, winner |-> NoOne]]
          /\ UNCHANGED <<moves, failed>>

\* Mutant: numbered before the mark is placed.
MoveNumberBefore(b) == countMoves(b) - 1

MoveNumber(b) == countMoves(b)

MoveOf(h) ==
  [sid |-> call[h].sid, participant |-> Owner[h], position |-> call[h].position,
   number |-> MoveNumber(call[h].board)]

\* The foreign key to the session, and UNIQUE (session_id, move_number).
Acceptable(m) ==
  /\ rows[m.sid] # NoRow
  /\ ~\E n \in moves : n.sid = m.sid /\ n.number = m.number

InsertMoveRow(h) ==
  /\ InsertMove(h)
  /\ \/ Fails
     \/ /\ Acceptable(MoveOf(h))
        /\ moves' = moves \cup {MoveOf(h)}
        /\ UNCHANGED <<rows, failed>>
     \/ ~Acceptable(MoveOf(h)) /\ UNCHANGED tables

\* Mutant: the result is written without the winner.
ResultWithoutWinner(s) == [status |-> s.status, winner |-> NoOne]

Result(s) == [status |-> s.status, winner |-> s.winner]

\* UPDATE sessions, of no row if there is none.
CompleteSessionRow(h) ==
  /\ CompleteSession(h)
  /\ \/ Fails
     \/ /\ rows' = IF rows[call[h].sid] = NoRow THEN rows
                   ELSE [rows EXCEPT ![call[h].sid] = Result(CurrentSession(h))]
        /\ UNCHANGED <<moves, failed>>

Waiting(h) == call[h].pc \in {"insertSession", "insert", "complete"}

\* A uuid is never used twice.
FreshIds == \A sid \in SessionIds : lost[sid] # NoSession => sessions'[sid] = NoSession

HandlerStep(h) ==
  \/ InsertSessionRow(h) \/ InsertMoveRow(h) \/ CompleteSessionRow(h)
  \/ /\ ~Waiting(h)
     /\ Input(h) \/ CreateStep(h) \/ ApplyMoveStep(h)
     /\ UNCHANGED tables

-----------------------------------------------------------------------------
(* The process.                                                            *)

Connected ==
  /\ process = "connecting"
  /\ process' = "serving"
  /\ UNCHANGED <<vars, tables, attempts, starts, lost, interrupted>>

ConnectFails ==
  /\ process = "connecting"
  /\ process' = "waiting"
  /\ attempts' = attempts + 1
  /\ UNCHANGED <<vars, tables, starts, lost, interrupted>>

\* Two seconds have passed, after the last failure too: main exits then.
WaitEnds ==
  /\ process = "waiting"
  /\ process' = IF attempts = MaxAttempts THEN "gaveUp" ELSE "connecting"
  /\ UNCHANGED <<vars, tables, attempts, starts, lost, interrupted>>

StartUp == Connected \/ ConnectFails \/ WaitEnds

\* SIGTERM, a panic, or the end of the machine.
Ends ==
  /\ process \notin {"exited", "gaveUp"}
  /\ process' = "exited"
  /\ lost' = [sid \in SessionIds |-> IF sessions[sid] = NoSession THEN lost[sid] ELSE sessions[sid]]
  /\ interrupted' = interrupted \cup ({call[h].sid : h \in Handlers} \ {NoSession})
  /\ sessions' = [sid \in SessionIds |-> NoSession]
  /\ sessionByParticipant' = [p \in Participants |-> NoSession]
  /\ call' = [h \in Handlers |-> Idle]
  /\ activeGames' = 0
  /\ UNCHANGED <<tables, attempts, starts>>

\* Nothing in docker-compose.yml starts the server again; somebody does.
StartsAgain ==
  /\ process \in {"exited", "gaveUp"} /\ starts < MaxStarts
  /\ process' = "connecting" /\ attempts' = 0 /\ starts' = starts + 1
  /\ UNCHANGED <<vars, tables, lost, interrupted>>

DbNext ==
  \/ /\ process = "serving"
     /\ \E h \in Handlers : HandlerStep(h)
     /\ FreshIds
     /\ UNCHANGED server
  \/ StartUp \/ Ends \/ StartsAgain

DbSpec == DbInit /\ [][DbNext]_<<vars, dbVars>>

-----------------------------------------------------------------------------
(* Correctness.                                                            *)

\* The session as the memory has it, or last had it.
Truth(sid) == IF sessions[sid] # NoSession THEN sessions[sid] ELSE lost[sid]

\* The history never contradicts the game, whatever fails and whenever the
\* process ends: a row of moves is a mark of its participant on the board, X
\* has the odd numbers, and no two rows of a session tell of the same cell.
HistoryIsTrue ==
  \A m \in moves :
    LET s == Truth(m.sid)
    IN  /\ s.board[m.position] = MarkFor(s, m.participant)
        /\ m.participant = s.x <=> m.number % 2 = 1
        /\ \A n \in moves : n.sid = m.sid /\ n.position = m.position => n = m

\* A row that says completed tells the result of the game, for good.
ResultIsTrue ==
  \A sid \in SessionIds : rows[sid] # NoRow /\ rows[sid].status = "completed" =>
    Truth(sid).status = "completed" /\ rows[sid].winner = Truth(sid).winner

\* As long as no statement fails, the result of every game is on record once
\* its last call has returned, and still is when the process has ended, unless
\* that was in the middle of a call.
ResultIsKept ==
  \A sid \in SessionIds \ interrupted :
    (~failed /\ Truth(sid) # NoSession /\ \A h \in Handlers : At(h, "idle")) =>
      rows[sid] = [status |-> Truth(sid).status, winner |-> Truth(sid).winner]

\* "connectWithRetry will continue to retry until Postgres is ready, or until
\* the context is canceled" (main.go:25): after a failed attempt there is
\* another one, or the process has been told to end.
RetriesUntilReady ==
  [][process = "waiting" => process' \in {"waiting", "connecting", "exited"}]_<<vars, dbVars>>

=============================================================================
