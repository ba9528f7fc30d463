-------------------------------- MODULE Delivery --------------------------------
(***************************************************************************)
(* What the players get to see: the session half of the messages that      *)
(* server/internal/ws/gateway.go sends, the queues of                      *)
(* server/internal/hub/hub.go that carry them, and the session that        *)
(* client/src/store/useStore.ts keeps for GameBoard.                       *)
(*                                                                         *)
(* A goroutine copies the Session into a message with no lock (ToDTO), and *)
(* looks the recipients up one by one in the hub, so two goroutines may    *)
(* fill the queue of one client in either order.  The client shows the     *)
(* last message it has read.  Other messages share the queue, and what     *)
(* finds it full is dropped.  A handler is one connection here:            *)
(*                                                                         *)
(*   new -> recover -> [board -> rest ->] welcome -> reading -> gone       *)
(*   reading -> (a call) -> board -> rest -> send -> send -> reading       *)
(***************************************************************************)
EXTENDS SessionManager, Sequences

CONSTANTS
  QueueSize,     \* the capacity of Client.send
  MaxClicks,     \* bound: how many moves of a client are on their way at once
  Inviters,      \* bound: who may invite, and so play X
  ClickAt,       \* bound: the cells a player who sees n marks may click
  Overlap,       \* bound: may a client reconnect while its old goroutine is in a call?
  Crowded,       \* bound: the connections whose queues other messages may fill
  NoHandler,
  NoView         \* no session: the lobby is shown

ASSUME DeliveryAssumption ==
  /\ QueueSize \in Nat /\ MaxClicks \in Nat
  /\ Inviters \subseteq Participants
  /\ ClickAt \in [0..9 -> SUBSET Cells]
  /\ Overlap \in BOOLEAN
  /\ Crowded \subseteq Handlers
  /\ NoHandler \notin Handlers

VARIABLES
  clients,    \* Hub.clients: whose connection messages go to
  queue,      \* the session messages in the send channel and the socket of a connection
  outgoing,   \* what a handler is sending
  clicks,     \* the moves a client has sent and the handler has not read
  view,       \* the session in the client's store
  shown,      \* history: the fullest board each player has been shown
  missed      \* history: the fullest board that a connection's queue had no room for

history == <<shown, missed>>
messages == <<clients, queue, outgoing, clicks, view, history>>
deliveryVars == <<vars, messages>>

DTO == [sid : SessionIds, board : Boards, turn : Marks, status : {"active", "completed"}]
View == DTO \cup {NoView}

ASSUME NoViewAssumption == NoView \notin DTO

Sending == [pc : {"new", "recover", "board", "rest", "welcome", "send", "reading", "gone"},
            sid : SessionIds \cup {NoSession}, to : Seq(Participants), board : Boards,
            dto : View]

DeliveryTypeOK ==
  /\ TypeOK
  /\ clients \in [Participants -> Handlers \cup {NoHandler}]
  /\ queue \in [Handlers -> Seq(View)]
  /\ outgoing \in [Handlers -> Sending]
  /\ clicks \in [Handlers -> Seq([sid : SessionIds, position : Cells])]
  /\ view \in [Participants -> View]
  /\ shown \in [Participants -> [SessionIds -> 0..9]]
  /\ missed \in [Handlers -> [SessionIds -> 0..9]]

Nothing == [pc |-> "reading", sid |-> NoSession, to |-> <<>>, board |-> NewBoard,
            dto |-> NoView]

DeliveryInit ==
  /\ Init
  /\ clients = [p \in Participants |-> NoHandler]
  /\ queue = [h \in Handlers |-> <<>>]
  /\ outgoing = [h \in Handlers |-> [Nothing EXCEPT !.pc = "new"]]
  /\ clicks = [h \in Handlers |-> <<>>]
  /\ view = [p \in Participants |-> NoView]
  /\ shown = [p \in Participants |-> [sid \in SessionIds |-> 0]]
  /\ missed = [h \in Handlers |-> [sid \in SessionIds |-> 0]]

-----------------------------------------------------------------------------
(* Sending.                                                                *)

Sends(h, pc) == outgoing[h].pc = pc
Proceed(h, pc) == outgoing' = [outgoing EXCEPT ![h].pc = pc]
Sent(h) == outgoing' = [outgoing EXCEPT ![h] = Nothing]

\* What counts keeps of a message: how full the board of its session is.
Noted(counts, m) ==
  IF m = NoView \/ counts[m.sid] >= countMoves(m.board) THEN counts
  ELSE [counts EXCEPT ![m.sid] = countMoves(m.board)]

\* Client.Enqueue: a message that finds the queue full is dropped.  Presence,
\* invitations, errors and heartbeat_acks take the same slots: while a client is
\* slow to read there may be any number of them.
Enqueue(h, m) ==
  \/ /\ Len(queue[h]) < QueueSize
     /\ queue' = [queue EXCEPT ![h] = Append(@, m)]
     /\ UNCHANGED missed
  \/ /\ Len(queue[h]) = QueueSize \/ h \in Crowded
     /\ missed' = [missed EXCEPT ![h] = Noted(@, m)]
     /\ UNCHANGED queue

\* Mutant: the player who has moved is expected to know.
RecipientsOnlyO(s) == <<s.o>>

\* Mutant: a retry of a message that was not dropped.
RecipientsTwice(s) == <<s.x, s.o, s.x, s.o>>

\* broadcastToParticipants sends to X first.
Recipients(s) == <<s.x, s.o>>

Broadcast(sid) ==
  [Nothing EXCEPT !.pc = "board", !.sid = sid, !.to = Recipients(sessions[sid])]

\* ToDTO copies the board, and then the turn and the status.
ReadBoard(h) ==
  /\ Sends(h, "board")
  /\ outgoing' = [outgoing EXCEPT ![h].pc = "rest",
                                  ![h].board = sessions[outgoing[h].sid].board]
  /\ UNCHANGED <<vars, clients, queue, clicks, view, history>>

ReadRest(h) ==
  /\ Sends(h, "rest")
  /\ LET s == sessions[outgoing[h].sid]
         dto == [sid |-> outgoing[h].sid, board |-> outgoing[h].board,
                 turn |-> s.turn, status |-> s.status]
     IN  outgoing' = [outgoing EXCEPT ![h].pc = IF outgoing[h].to = <<>>
                                                THEN "welcome" ELSE "send",
                                      ![h].dto = dto]
  /\ UNCHANGED <<vars, clients, queue, clicks, view, history>>

\* Hub.Send looks the next recipient up when its turn comes.
SendNext(h) ==
  /\ Sends(h, "send")
  /\ LET recipient == clients[Head(outgoing[h].to)]
     IN  IF recipient = NoHandler THEN UNCHANGED <<queue, missed>>
         ELSE Enqueue(recipient, outgoing[h].dto)
  /\ IF Len(outgoing[h].to) = 1 THEN Sent(h)
     ELSE outgoing' = [outgoing EXCEPT ![h].to = Tail(@)]
  /\ UNCHANGED <<vars, clients, clicks, view, shown>>

-----------------------------------------------------------------------------
(* Connections.                                                            *)

\* Register: messages go to h from now on.  What was on its way on the
\* participant's old connection is lost.
Connect(h) ==
  /\ Sends(h, "new")
  /\ Overlap \/ \A g \in Handlers : Owner[g] = Owner[h] => At(g, "idle")
  /\ clients' = [clients EXCEPT ![Owner[h]] = h]
  /\ queue' = [g \in Handlers |-> IF Owner[g] = Owner[h] THEN <<>> ELSE queue[g]]
  /\ clicks' = [g \in Handlers |-> IF Owner[g] = Owner[h] THEN <<>> ELSE clicks[g]]
  /\ Proceed(h, "recover")
  /\ UNCHANGED <<vars, view, history>>

\* sendWelcome: the active session, if there is one, is copied.
WelcomeRecover(h) ==
  /\ Sends(h, "recover")
  /\ outgoing' = [outgoing EXCEPT
       ![h].pc = IF Recover(Owner[h]) = NoSession THEN "welcome" ELSE "board",
       ![h].sid = Recover(Owner[h])]
  /\ UNCHANGED <<vars, clients, queue, clicks, view, history>>

\* Only after that is the message queued, behind what others have sent.
SendWelcome(h) ==
  /\ Sends(h, "welcome")
  /\ IF clients[Owner[h]] = h THEN Enqueue(h, outgoing[h].dto) ELSE UNCHANGED <<queue, missed>>
  /\ Sent(h)
  /\ UNCHANGED <<vars, clients, clicks, view, shown>>

\* readLoop ends, and Unregister removes the entry if it still is h's.
DisconnectClient(h) ==
  /\ Sends(h, "reading")
  /\ At(h, "idle")
  /\ Proceed(h, "gone")
  /\ clients' = [clients EXCEPT ![Owner[h]] = IF @ = h THEN NoHandler ELSE @]
  /\ queue' = [queue EXCEPT ![h] = <<>>]
  /\ clicks' = [clicks EXCEPT ![h] = <<>>]
  /\ UNCHANGED <<vars, view, history>>

-----------------------------------------------------------------------------
(* Calls.                                                                  *)

\* The invitee accepts.  How they came to agree is Matchmaking's matter; the
\* inviter has been welcomed.
StartGame(h, sid, x) ==
  /\ Sends(h, "reading")
  /\ x \in Inviters
  /\ \E g \in Handlers : Owner[g] = x /\ outgoing[g].pc \in {"reading", "gone"}
  /\ Create(h, sid, x, Owner[h])
  /\ UNCHANGED messages

\* The next move of the client is read.  One for a game that is over only
\* earns it an error.
ReadMove(h) ==
  /\ Sends(h, "reading")
  /\ clicks[h] # <<>>
  /\ LET move == Head(clicks[h])
     IN  \/ ReceiveMove(h, move.sid, move.position)
         \/ At(h, "idle") /\ sessions[move.sid].status # "active" /\ UNCHANGED vars
  /\ clicks' = [clicks EXCEPT ![h] = Tail(@)]
  /\ UNCHANGED <<clients, queue, outgoing, view, history>>

\* A call goes on.  When it has succeeded, its session is sent to the players.
CallStep(h) ==
  /\ CreateStep(h) \/ ApplyMoveStep(h)
  /\ outgoing' = IF At(h, "started") \/ At(h, "reply")
                 THEN [outgoing EXCEPT ![h] = Broadcast(call[h].sid)]
                 ELSE outgoing
  /\ UNCHANGED <<clients, queue, clicks, view, history>>

-----------------------------------------------------------------------------
(* Clients.                                                                *)

Connection(p) == clients[p]
Connected(p) == clients[p] # NoHandler

\* The handlers of welcome, game_started, move_applied and game_completed:
\* the session they carry replaces the one in the store.
ClientReads(p) ==
  /\ Connected(p)
  /\ queue[Connection(p)] # <<>>
  /\ LET dto == Head(queue[Connection(p)])
     IN  /\ view' = [view EXCEPT ![p] = dto]
         /\ shown' = [shown EXCEPT ![p] = Noted(@, dto)]
  /\ queue' = [queue EXCEPT ![Connection(p)] = Tail(@)]
  /\ UNCHANGED <<vars, clients, outgoing, clicks, missed>>

SelfMark(p, sid) == IF sessions[sid].x = p THEN MarkX ELSE MarkO

\* What the player is told.
IsMyTurn(p) ==
  view[p] # NoView /\ view[p].status = "active" /\ view[p].turn = SelfMark(p, view[p].sid)

\* A cell of GameBoard is enabled, and clicked; move sends it.
ClientClicks(p) ==
  /\ Connected(p)
  /\ IsMyTurn(p)
  /\ Len(clicks[Connection(p)]) < MaxClicks
  /\ \E position \in ClickAt[countMoves(view[p].board)] :
       /\ view[p].board[position] = Empty
       /\ clicks' = [clicks EXCEPT ![Connection(p)] =
                       Append(@, [sid |-> view[p].sid, position |-> position])]
  /\ UNCHANGED <<vars, clients, queue, outgoing, view, history>>

\* "Back to Lobby".
LeaveGame(p) ==
  /\ view[p] # NoView /\ view[p].status = "completed"
  /\ view' = [view EXCEPT ![p] = NoView]
  /\ UNCHANGED <<vars, clients, queue, outgoing, clicks, history>>

-----------------------------------------------------------------------------

SendStep(h) == ReadBoard(h) \/ ReadRest(h) \/ SendNext(h)

ConnectionStep(h) ==
  Connect(h) \/ WelcomeRecover(h) \/ SendWelcome(h) \/ DisconnectClient(h)

ClientAction(p) == ClientReads(p) \/ ClientClicks(p) \/ LeaveGame(p)

DeliveryNext ==
  \/ \E h \in Handlers :
       \/ SendStep(h) \/ ConnectionStep(h) \/ ReadMove(h) \/ CallStep(h)
       \/ \E sid \in SessionIds, x \in Participants \ {Owner[h]} : StartGame(h, sid, x)
  \/ \E p \in Participants : ClientAction(p)

DeliverySpec == DeliveryInit /\ [][DeliveryNext]_deliveryVars

-----------------------------------------------------------------------------
(* Correctness.                                                            *)

\* The messages in the queue of h that carry session sid.
Unread(h, sid) ==
  {i \in DOMAIN queue[h] : queue[h][i] # NoView /\ queue[h][i].sid = sid}

\* No change of a game is sent twice to one connection: besides the welcome, its
\* queue holds at most one message for the start and one for every move, however
\* the players' goroutines overtake each other and whoever reconnects.
OneMessagePerMove ==
  \A h \in Handlers, sid \in SessionIds : sessions[sid] # NoSession =>
    Cardinality(Unread(h, sid)) <= countMoves(sessions[sid].board) + 2

\* Torn, late or reordered, what a player is shown has happened: every mark in
\* the view is on the server's board.
ViewIsPast ==
  \A p \in Participants : view[p] # NoView =>
    \A c \in Cells : view[p].board[c] \in {Empty, sessions[view[p].sid].board[c]}

\* No call is running, and no message is on its way.
Quiet ==
  /\ \A h \in Handlers :
       At(h, "idle") /\ outgoing[h].pc \in {"new", "reading", "gone"} /\ clicks[h] = <<>>
  /\ \A p \in Participants : Connected(p) => queue[Connection(p)] = <<>>

\* No move is withheld but by a queue that is full: once all is quiet, every
\* connected player has been shown the board of its game, with all its moves, at
\* some time, unless the very message that had them, or the welcome, found no room
\* in the queue of its connection.  Its game is the one that Recover finds: a
\* player in two games (PlayersRecover) who reconnects is brought back to one of
\* them.
NothingIsWithheld ==
  Quiet => \A p \in Participants : Connected(p) /\ Recover(p) # NoSession =>
    LET sid == Recover(p)
    IN  countMoves(sessions[sid].board) \in {shown[p][sid], missed[Connection(p)][sid]}

\* "A valid move is applied to the in-memory board, persisted as a Move row, and
\* broadcast to both players as move_applied" (README.md, In-Game Play, 2): once
\* all is quiet, both players, if they are connected, have been shown it.
BothAreShown ==
  Quiet => \A p \in Participants : Connected(p) /\ Recover(p) # NoSession =>
    shown[p][Recover(p)] = countMoves(sessions[Recover(p)].board)

\* "broadcast to both players as move_applied, this repeats for every move in
\* the game" (README.md, In-Game Play, 2): in an active game of two connected
\* players in which nothing is on its way, one of them is told to move.
NoStandoff ==
  Quiet => \A sid \in SessionIds :
    (/\ sessions[sid] # NoSession /\ sessions[sid].status = "active"
     /\ \A p \in Players(sessions[sid]) : Connected(p))
      => \E p \in Players(sessions[sid]) : IsMyTurn(p)

=============================================================================
