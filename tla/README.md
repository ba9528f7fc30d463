# Tic-Tac-Toe: TLA+ models, checks and proofs

This directory holds a formal model of the tic-tac-toe server in `server/` (Go),
its database schema in `migrations/`, and the connection, the store and the lobby
of the desktop client in `client/`: TLA+ modules, the configurations that
model-check them with TLC, and theorems checked by TLAPS. `PROJECT.json`
lists, for every definition, the source lines it models, and every run,
finding, hazard and theorem.

    tlc -config MCSession.cfg MCSession.tla     # any of the runs below
    tlapm SessionManagerProofs.tla              # any of the proof modules

## 1. The system

### Components

| Component | State | Operations | What makes it correct |
| --- | --- | --- | --- |
| Game engine, `internal/game/engine.go` | none | `ApplyMove`, `Winner`, `IsFull`, `Opponent` | a taken cell is never overwritten; exactly three in a row wins; a full board without one is a draw |
| Session manager, `internal/session/manager.go` | none of its own: the fields of `domain.Session`, through pointers the store hands out | `Create`, `Recover`, `ApplyMove` (with `finish`) | turns alternate; no lost update; the result is the board's; players are released when a game ends |
| Matchmaking, `internal/matchmaking/matchmaking.go` | none of its own | `CreateInvitation`, `RespondInvitation` | a game needs an invitation and the invitee's consent; one answer per invitation; one game per player |
| In-memory store, `internal/store/memory.go` | `online`, `invitations`, `sessions`, `sessionByParticipant`, `heartbeats`, under one mutex | one method per access | the index leads to active games of their players |
| Hub, `internal/hub/hub.go` | `clients`, per client a 32-slot queue, `done`, the socket | `Register`, `Unregister`, `Get`, `Send`, `Broadcast`, `Close`, `WritePump` | one live connection per participant; no cleanup hits a successor; what is dropped is missed by nobody but the one whose queue is full |
| Gateway, `internal/ws/gateway.go` | the locals of one goroutine per connection | `HandleWS`, the handshake, `dispatch` and its handlers, `handleDisconnect`, `SweepStaleConnections` | presence follows the connections; silent peers are reaped |
| Database, `internal/db/postgres.go`, `migrations/` | tables `participants`, `sessions`, `moves`, `invitations` (unused) | four statements | the history is true and complete; results are kept |
| Server main, `cmd/server/main.go` | ticker, signal context | `runHeartbeatSweep`, `connectWithRetry`, shutdown | the sweep keeps running; a start-up goes on until the database is ready; what the tables say survives the process |
| Client connection, `client/src/ws/client.ts` | socket, attempts, timers, status | `connect`, `close`, `open`, `scheduleReconnect` | reconnects until it succeeds or gives up; one socket |
| Client store, `client/src/store/useStore.ts` | `self`, `online`, `invitations`, `session`, `lastError` | one handler per server message, `invite`, `respondInvite`, `move`, `leaveGame` | shows what the server says: who can be invited, which invitations are open, how the game stands |
| Electron shell, `client/electron/` | `identity.json`, a loopback port | `claimUserDataSlot`, identity, config | instances do not share an identity |
| Protocol, metrics, logging, config, UI, monitoring | | | |

### How they interact

Every WebSocket connection is a goroutine in `HandleWS`: handshake (presence,
heartbeat, participant row), `Hub.Register` (which closes the connection it
replaces), welcome, lobby, presence broadcast, then `readLoop`, which dispatches
one message at a time and calls matchmaking or the session manager
synchronously; these call the store and, through the repository, PostgreSQL.
When the read fails the goroutine unregisters, clears the presence and
broadcasts. A second goroutine per connection, `WritePump`, drains the send
queue, and one more goroutine sweeps stale connections every few seconds.

### What is hard

* The store's mutex covers single map accesses. The `*Session` it returns is
  read and written with no lock, by the goroutines of both players, around
  waits for PostgreSQL.
* A participant that reconnects has two goroutines until the old one notices:
  both may be inside `ApplyMove` or `RespondInvitation`, and the cleanup of the
  old one races the set-up of the new one.
* Checks (turn, target of an invitation, index, heartbeat, presence) are made
  in one critical section and used in another.
* What a player sees is a copy of the session made without a lock, looked up
  and queued for each player in turn, by whichever goroutine made the change;
  the client shows the last copy it reads.
* The client's reconnection is driven by events of one socket after another, a
  shared attempt counter and one timer handle.
* Database errors are only logged; a statement may fail, or take effect and
  fail to say so; a session can be played before its row exists; the process
  may end in the middle of any call, and only the tables remain.
* `lobby_state` is read from the store piece by piece and queued later, after the
  connection has become reachable: broadcasts and invitations of other
  goroutines overtake it.

The hazards, each at its line and with the properties that watch it, are in
`PROJECT.json`.

## 2. The modules

    TicTacToe        GameEngine
         ^               ^
         | refines       | EXTENDS
    SessionRefinement -> SessionManager <- Matchmaking, Persistence, Delivery
                              ^   (Matchmaking implements SessionManager)
                              |
                  SessionManagerProofs <- GameRulesProofs (about SessionRefinement),
                                          MatchmakingProofs, PersistenceProofs,
                                          DeliveryProofs

    Connections <- Lobby                           WSClient <- WSClientProofs
         ^           ^
    ConnectionsProofs <- LobbyProofs

**`GameEngine`**: the rules engine as operators: boards are functions from the
nine cells, `Winner` reports the first complete line in the order of
`winningLines`, `MoveError` and `ApplyMove` are the two results of `ApplyMove`.
It also has `countMoves`.

**`TicTacToe`**: what a game promises, independent of the code: one atomic move
per step, lines stated by geometry, the final move decides the outcome.

**`SessionManager`**: `Create`, `Recover` and `ApplyMove` as run by handlers, the
connection goroutines. `Owner` gives the participant of a handler; nothing
makes it injective, so a reconnected participant is one with two handlers.
Each access to a `Session` field and each store call is an action, and a
handler's `call` record holds its pc and its locals (`mark`, `board`). The pcs
are in the header of the module. Messages refused before anything is read that
may change (unknown session, completed session) change nothing and are
stuttering steps. The `ActiveGames` gauge of the gateway's handlers is part of
the model. Abstracted: ids are model values, times and usernames are left out,
the two writes of `WinnerID` and `IsDraw` are one step.

**`SessionRefinement`**: the refinement mapping from one session, any one, to
`TicTacToe`. The abstract move happens at the board write (manager.go:87); until
the handler has written turn, status and result, the mapping predicts them from
the board. `GameRules == Game!Spec`.

**`Matchmaking`**: invitations in front of the session manager, each call of the
store or of the manager a step. Whether a participant is online comes from
another component and may go either way at `LookupInvitee`. `answers` is a
history variable: which handlers answered an invitation, and with which session;
an invitee who has reconnected has two of them, and both may answer.
`SessionManagerSteps` says that the whole implements `SessionManager!Spec`.

**`Connections`**: the life of a connection from accept to farewell, the hub, the
presence and heartbeat maps and the sweep. Time is abstracted to "the last
heartbeat is older than `heartbeatTimeout` or not"; the sweep reads its clock
once (`sweep.overdue`), as the code does. A peer may close, or go silent without
a trace; a write to a silent peer may fail and close the client.

**`Persistence`**: the session manager with the tables it writes, under the
foreign key and the UNIQUE constraint of V3. A statement takes effect somewhere
in the handler's wait, or fails; failing after having taken effect looks to the
caller like success, because errors are only logged. Around it is the process:
`connectWithRetry` attempt by attempt (`Connected`, `ConnectFails`, `WaitEnds`, after
the last of which it has given up), its end with every handler wherever it
is (`Ends`: sessions, index, calls and gauge are gone, the tables stay) and its
next start. SIGTERM is such an end: `http.Server.Shutdown` leaves upgraded connections alone, so main waits for no
handler. `failed`, `lost` (the sessions as the memory last had them) and
`interrupted` (those a call was about when the process ended) are history
variables.

**`Delivery`**: the session manager with both ends of its messages. A handler that
has created a session or applied a move copies the session in two steps
(`ReadBoard`, `ReadRest`: `ToDTO` takes no lock) and enqueues the copy for X and
for O, each looked up in `clients`, the hub's map, at that moment (`SendNext`).
`Connect` is `Register` and the end of the connection it replaces; `sendWelcome`
copies the active session and queues it afterwards. `ClientReads` is the
client store's handlers, which all replace the session, and `ClientClicks` an
enabled cell of `GameBoard`. Of a message only the board, the turn and the
status are kept. Messages that carry no session (errors, acknowledgements,
presence, invitations) are not in the modelled queue, but take slots of the real
one: `Enqueue` drops a message when session messages alone fill the queue, and may
drop any message for a connection in the bound `Crowded`, whose other slots may
all be taken. Whether they are depends on how much other traffic its client has
left unread, which nothing limits.
`WritePump` and the socket are part of the queue. `shown` and `missed` are history
variables: the fullest board of a session that a player has been shown, and that the
queue of a connection had no room for.

**`Lobby`**: the connections of `Connections`, whose actions it takes over and
conjoins with what is sent. `sendWelcome`, the three reads of `lobbyState` (the
online participants, one `Recover` for each, the invitations) and the sending of
the result are steps, and so is every message a handler sends (`todo`,
`SendNext`), with the `IsConnected` check of `announceAvailability` apart from the
broadcast it guards. `inbox` is a connection's queue, the socket and what the
client has not read. At the other end are the handlers of the client store
(`ListAfter`, `ShownAfter`) and the buttons of `PlayGameDialog` and `Lobby`. The
calls of matchmaking and of the session manager are one step each, their inner
steps being the subject of `Matchmaking` and `SessionManager`; a game is three of
them: accepted, any move that does not end the game (which indexes both players again),
and the last move of either player. A session goes by
the id of its invitation. Sets stand for the client's arrays: an invitation that
is listed twice is removed twice. The sweep, silent peers and dropped messages
are left to `Connections` and `Delivery`. A client may invite while it plays, which
its screen does not offer and the server refuses. `overtaken` and `overlapped` are
history variables.

**`WSClient`**: the client's socket, its reconnect timer, its heartbeat interval and
the identity it presents. Each event handler is an action; JavaScript runs them
one at a time. `timer` is the set of timers that are pending and `intervals`
the number of heartbeats, so that losing a handle would show. The delays are in
units of the configuration, with every jitter. `reachable` is the server and the
network together: while it holds, this client's connection is accepted and
kept. The server's part of the handshake is only which id it answers with.
`failures` is a history variable. `close()` has no caller and is left out.

**Mutants.** Next to some definitions there is a variant marked *Mutant*: the
definition as a plausible bug would have it. Nothing uses it; put in place of
the definition it makes TLC report the property `PROJECT.json` names with it.

## 3. The runs

| Run | Configuration | Result |
| --- | --- | --- |
| `session` | MCSession.cfg: two players with one handler each, one session, clients send taken, out-of-range and out-of-turn positions | `TypeOK`, `TurnIsALock`, `WriteIsFresh`, `MovesAreInTime`, `GameRules`, and `FinishedGamesRelease` under fairness (1.08 million states) |
| `two_handlers` | MCTwoHandlers.cfg: the first player has a second handler | `MarksAlternate` violated |
| `matchmaking` | MCMatchmaking.cfg: three participants, two invitations, two sessions that may overlap, whole games | `MatchTypeOK`, `GamesAreAgreed`, `RecoverIsCurrent`, `GaugeSettles`, `SessionManagerSteps` (0.8 million states up to symmetry) |
| `players_recover` | MCPlayersRecover.cfg: two participants, whole games | `PlayersRecover` violated |
| `connections` | MCConnections.cfg: two connections of one participant, the sweep, the fairness below | `ConnTypeOK`, `HubAgrees`, `NoGhosts`, `OnlineSilenceIsReaped` |
| `silence` | MCSilence.cfg: the same | `SilenceIsReaped` violated |
| `persistence` | MCPersistence.cfg: wins of either player and a draw, any statement may fail, the process may end anywhere | `DbTypeOK`, `HistoryIsTrue`, `ResultIsTrue`, `ResultIsKept` (0.7 million states) |
| `wsclient` | MCWSClient.cfg: three reconnects, the last two at the maximal delay, the fairness below | `ClientTypeOK`, `OneLifeline`, `OneHeartbeat`, `Backoff`, `GivesUpLate`, `ComesBack` |
| `identity` | MCIdentity.cfg: the same | `KeepsIdentity` violated |
| `delivery` | MCDelivery.cfg: one whole game, two connections of one player, queues of three that other messages may fill at any time | `DeliveryTypeOK`, `OneMessagePerMove`, `ViewIsPast`, `NothingIsWithheld` (1.6 million states up to symmetry) |
| `standoff` | MCStandoff.cfg: one connection each | `NoStandoff` violated |
| `lobby` | MCLobby.cfg: two clients that connect at once, or that are connected and one of them reconnects; one invitation | `LobbyTypeOK`, `SomeoneIsListed`, `InvitationsArrive`, `ShownIsOpen`, `NeverListsItself` (1.3 million states) |

### Further configurations

Beside the runs there are configurations for single questions, most of them about
something the repository says and the code does not do. What TLC reports for each:

| Configuration | What it is about | TLC |
| --- | --- | --- |
| MCSecondConnection.cfg | `MCMatchmaking`: bob has two handlers; two invitations, two sessions that are not played | `OneAnswerEach`, `GamesAreAgreed` hold (59 thousand states) |
| MCTwoAnswers.cfg | the same, one invitation | `AnsweredOnce` violated |
| MCRetry.cfg | `MCPersistence`: a database that stays away | `RetriesUntilReady` violated |
| MCDropped.cfg | `MCDelivery`: two moves, queues of five, one of bob's connections shares its queue | `BothAreShown` violated |
| MCBothConnect.cfg | `MCLobby`: two clients connect at once | `EveryoneIsListed` violated |
| MCLateFarewell.cfg | `MCLobby`: both are connected, one reconnects | `EveryoneIsListed` violated |
| MCDeclined.cfg | the same | `DeclineClears` violated |
| MCAccepted.cfg | the same | `AcceptClears` violated |

### Bounds, and why they are enough

* `PositionsAt[n]` bounds the positions clients send when n cells are taken. In
  `session` the first five moves choose among two or three positions, which
  lead into rows, columns, diagonals and draws, one of them is taken already or
  out of range; from the sixth move on any position may be sent. The other runs
  ask about sessions and not about boards, and play scripted games that end in
  the ways their properties tell apart.
* A participant has one handler, or two where a run is about reconnecting. A
  third adds no new kind of step. The theorems about handlers and connections
  hold for any number of them.
* Two sessions and two invitations are the fewest that can be confused.
  Participants share no hub entry, presence or heartbeat, so one participant is
  enough for `Connections`, and two connections are the fewest that race; its
  safety theorems are for any number.
* In `delivery` bob invites alice (`Inviters`), so it is X, who begins, wins and is
  sent every message first, who reconnects; in `standoff` either may invite. A player who sees n
  marks clicks the cell `ClickAt[n]`, may click it again while the first click is under way, and may stop; one more click may be
  on its way (`MaxClicks`). `Overlap = FALSE` keeps bob from reconnecting while
  his old goroutine is inside a call: that breaks the turn lock (`two_handlers`)
  and with it what the views can be compared with. The old goroutine may still
  be sending. Queues are of 3 (`QueueSize`) instead of 32, and those of bob's
  connections are shared (`Crowded`): any message for them may find its queue full.
  Alice's fills with session messages alone. What the size of a queue changes is
  when it is full; the theorems hold for every size and whoever is crowded.
  MCDropped.cfg has queues of 5, more than the session messages of its two moves
  (`MCTwoMoves`) fill.
* MCSecondConnection.cfg plays no moves (`MCNoPositions`): it is about the calls of
  `RespondInvitation`, which a game neither waits for nor changes.
* Three reconnects take the client through the growing delay, the cap and giving
  up. Two ids are enough to tell a new participant from the old one.
* `persistence` has one session: rows of different sessions share no constraint,
  and uuids are not used again after a restart, so a session of a later process
  meets nothing that an earlier one left. Three attempts to connect instead of 15
  take the loop through its first, a middle and its last round.
* In `lobby` a participant is settled, new, or reconnecting, and the two initial
  states (`MCStarts`) combine these; a connection that shall play no part has had
  its hello rejected. With both clients reconnecting, or two invitations, there
  are more than ten million states; parts of these were explored and showed
  nothing new. A client has one request under way, and only bob closes
  connections (`Leaving`): when both connect the two are alike, and next to a
  reconnect it saves half of the states. All five properties are proved for any
  number of clients, connections and invitations.
* `SYMMETRY` is used where no liveness is checked: in `matchmaking` and
  `players_recover` over the uuids, and over the participants together with their
  handlers, and in `delivery` over bob's two connections. Neither the
  specification nor the bounds tell them apart.
* No deadlock check: when every session has been used and every game is over
  nothing is left to do.

### Fairness

* `SessionManager!Fairness`: a handler inside a call goes on. Goroutines are
  scheduled, and calls to PostgreSQL return, with an error or without; the code
  sets no timeout, so this is an assumption on the driver and the network.
  Nothing obliges a client to send anything.
* `ConnFairness`: the same for connection goroutines (a hello that does not come
  times out), the sweep is driven by a ticker, and time passes: a heartbeat gets
  old when nobody is left who could send one. Peers owe nothing, and a write to
  a silent peer need not fail.

* `ClientSpec`: an event that is due is delivered and a timer fires. The server,
  the network and the user owe nothing; `ComesBack` is about executions in which
  the server stays reachable from some time on and the user does not quit.
* `MatchSpec`, `DbSpec`, `DeliverySpec` and `LobbySpec` have no fairness: their
  properties are about reachable states and single steps.

### What the violations show

Each violated run is a difference between what the code does and what the
repository says, quoted in `PROJECT.json`; 6 to 12 are the further configurations,
and the comments of their properties have the quotations.

1. `two_handlers`: a player whose old goroutine waits for `InsertMove` moves
   again over the new connection: the turn has not been passed yet.
2. `players_recover`: only creating an invitation checks for an active game, so two
   accepted invitations give a participant two games; when one of them ends the
   index entries of the players are deleted, whichever game they lead to.
3. `silence`: `SetOffline` of a replaced connection may follow `SetOnline` of its
   successor, and the sweep only looks at participants that are online.
4. `identity`: `initialize` captures the identity of the launch. On the first launch
   it has no id, so every reconnect before the client is started again makes a
   new participant, and the game is left behind.
5. `standoff`: O accepts, or moves, and its goroutine is delayed between queueing
   the session for X and for O; X answers, and X's goroutine queues the newer
   session for O first. O's client reads the older one last and waits for X.
   A page of the trace is enough to see it; nothing sends the session again
   until one of them reconnects.
6. MCTwoAnswers: an invitee whose connection has just been replaced has two
   goroutines. Both may get the invitation and pass the check before one deletes it;
   `DeleteInvitation` does not say whether it deleted anything. One invitation then
   starts two games, and (2) follows.
7. MCRetry: the comment on `connectWithRetry` promises to go on until PostgreSQL is
   ready or the context is canceled. The loop ends after `maxAttempts`.
8. MCBothConnect: a greeting that is broadcast between another connection's
   `ListOnline` and its `lobby_state` is overwritten by the older list: one of the two
   sees the other, but not both.
9. MCLateFarewell: the goroutine of a replaced connection may broadcast its farewell
   after the greeting of its successor. Whoever is in the lobby then takes a
   connected participant off the list until its next presence changes.
10. MCDeclined: the inviter reconnects, its invitations are read for the
    `lobby_state`, the invitee declines, `invite_canceled` is queued, and the older
    `lobby_state` after it. "Invite sent" then stands in the place of "Play".
11. MCAccepted: nothing takes an accepted invitation out of the inviter's
    store (useStore.ts:85): after the game the other player is listed with "Invite
    sent" instead of "Play", until a reconnect.
12. MCDropped: the slots of a client that is slow to read are taken by other messages,
    and `move_applied` is lost. The player is not shown the move until the next
    message of the session, which may be one it has to make.

`NothingIsWithheld` speaks of the game that `Recover` finds, because TLC, given two
sessions, found the statement about every game of a player false: one who is in
two games (2) and reconnects is brought back to one of them, and sees no more of
the other. A player who disconnects before it reads the move that ends its
game is not shown that either: the game has left the index.

`SomeoneIsListed`, `InvitationsArrive` and `ShownIsOpen` are what the code keeps of
8 to 11 and of what the README says of invitations. Their conditions name
what they leave out:

* `overlapped`: a client has connected before its old goroutine had said farewell (9).
* `overtaken`, on the side of an invitation that is made: it is saved between the
  invitee's `ListInvitationsForParticipant` and its `lobby_state`, and so
  received and then wiped.
* `overtaken`, on the side of one that is answered: a handler has read it and not sent it
  yet when it is deleted (10); or the invitee answers with another message about
  it still to be read, which brings it back; or the answer is read by a goroutine that
  has been replaced, when its successor has sent its `lobby_state` already. A greeting
  that has not come to the invitations yet, or a cancellation in the queue, is no
  exception.
* An inviter's own accepted invitation (11).
* To be listed is not to be invited: with 10 or 11 the button is not there.

1, 6 and 9 need a participant with two goroutines, and 3, 4 and 10 a reconnect; the
others need neither.

## 4. The proofs

All theorems are for any sets of participants, handlers, connections, sessions
and invitations, and for any bounds, under the ASSUMEs on the constants. "One
handler" says that the theorem assumes `OneHandlerEach` besides: no participant
is served by two handlers. "One at a time" is weaker: one handler, or players
who reconnect, but not while their old goroutine is in a call (`~Overlap`).

| Theorem | States | Assumes |
| --- | --- | --- |
| `SessionManagerProofs!TypesHold` | `Spec => []TypeOK` | |
| `SessionManagerProofs!RecoveryCorrect` | `Spec => []RecoverIsCurrent` | |
| `SessionManagerProofs!MutualExclusion` | `Spec => []TurnIsALock` | one handler |
| `SessionManagerProofs!NoLostUpdate` | `Spec => []WriteIsFresh` | one handler |
| `SessionManagerProofs!MovesInTime` | `Spec => []MovesAreInTime` | one handler |
| `SessionManagerProofs!TurnOrder` | `Spec => []MarksAlternate` | one handler |
| `SessionManagerProofs!GaugeIsRight` | `Spec => []GaugeSettles` | one handler |
| `GameRulesProofs!OrderlySessionsImplementGames` | `Spec /\ []OneMoverEach => GameRules` (the refinement of `TicTacToe`) | |
| `GameRulesProofs!SessionsImplementGames` | `Spec => GameRules` | one handler |
| `MatchmakingProofs!MatchTypesHold` | `MatchSpec => []MatchTypeOK` | |
| `MatchmakingProofs!GamesAgreed` | `MatchSpec => []GamesAreAgreed` | |
| `MatchmakingProofs!ConnectionsAnswerOnce` | `MatchSpec => []OneAnswerEach` | |
| `MatchmakingProofs!MatchmakingImplementsSession` | `MatchSpec => SessionManagerSteps` (the refinement of `SessionManager`) | |
| `MatchmakingProofs!RecoveryBehindMatchmaking` | `MatchSpec => []RecoverIsCurrent` | |
| `MatchmakingProofs!GaugeBehindMatchmaking` | `MatchSpec => []GaugeSettles` | one handler |
| `PersistenceProofs!DbTypesHold` | `DbSpec => []DbTypeOK` | |
| `PersistenceProofs!TrueHistory` | `DbSpec => []HistoryIsTrue` | one handler |
| `PersistenceProofs!TrueResults` | `DbSpec => []ResultIsTrue` | one handler |
| `PersistenceProofs!ResultsAreKept` | `DbSpec => []ResultIsKept` | one handler |
| `DeliveryProofs!DeliveryTypesHold` | `DeliverySpec => []DeliveryTypeOK` | |
| `DeliveryProofs!RecoveryWhenReconnecting` | `DeliverySpec => []RecoverIsCurrent` | |
| `DeliveryProofs!ReconnectingPlayersMoveOnce` | `DeliverySpec => [](TurnIsALock /\ WriteIsFresh /\ MovesAreInTime)` | one at a time |
| `DeliveryProofs!DeliveryImplementsSession` | `DeliverySpec => Spec` (the refinement of `SessionManager`) | |
| `DeliveryProofs!ReconnectingPlayersPlayByTheRules` | `DeliverySpec => GameRules` | one at a time |
| `DeliveryProofs!ReconnectingPlayersAlternate` | `DeliverySpec => [](MarksAlternate /\ GaugeSettles)` | one at a time |
| `DeliveryProofs!ShownIsPast` | `DeliverySpec => []ViewIsPast` | one at a time |
| `DeliveryProofs!OneMessageEach` | `DeliverySpec => []OneMessagePerMove` | one at a time |
| `DeliveryProofs!QueuesAreBounded` | `DeliverySpec => []QueueBound`: at most ten session messages for each game that is unread, and the welcome | one at a time |
| `DeliveryProofs!NoMoveIsWithheld` | `DeliverySpec => []NothingIsWithheld` | one at a time |
| `ConnectionsProofs!ConnTypesHold` | `ConnSpec => []ConnTypeOK` | |
| `ConnectionsProofs!OneLiveConnection` | `ConnSpec => []HubAgrees` | |
| `ConnectionsProofs!PresenceIsAnsweredFor` | `ConnSpec => []NoGhosts` | |
| `WSClientProofs!ClientTypesHold` | `ClientSpec => []ClientTypeOK` | |
| `WSClientProofs!ExactlyOneLifeline` | `ClientSpec => []OneLifeline` | |
| `WSClientProofs!ExactlyOneHeartbeat` | `ClientSpec => []OneHeartbeat` | |
| `WSClientProofs!PersistsAsConfigured` | `ClientSpec => []GivesUpLate` | |
| `WSClientProofs!BacksOff` | `ClientSpec => []Backoff` | |
| `LobbyProofs!LobbyTypesHold` | `LobbySpec => []LobbyTypeOK` | |
| `LobbyProofs!LobbiesUseConnections` | `LobbySpec => [](HubAgrees /\ NoGhosts) /\ [][ConnNext]_connVars` | |
| `LobbyProofs!NoOneListsItself` | `LobbySpec => []NeverListsItself` | |
| `LobbyProofs!InvitationsAreNotLost` | `LobbySpec => []InvitationsArrive` | |
| `LobbyProofs!WhatIsShownIsOpen` | `LobbySpec => []ShownIsOpen` | |
| `LobbyProofs!SomeoneIsAlwaysListed` | `LobbySpec => []SomeoneIsListed` | |

*The turn lock.* `TurnIsALock` alone is not inductive: nothing in it says why a
second handler cannot pass the check. `LockInv` adds that a handler in the
section has the mark of its own participant and that the stored turn is that
mark (`TurnIsHeld`), that calls are about sessions that exist (`Located`), and
that the board to be written is the stored one plus a mark (`WriteIsFresh`).
Two handlers in the section of one session then have the same mark, hence the
same participant; every other write to the session comes from the handler in
its section. The lemmas ask for less than `OneHandlerEach`: `OneMoverEach`, in
the current state no two handlers of one participant are inside a move. That
is what lets `DeliveryProofs` use them for players who reconnect. Run
`two_handlers` shows that something of the kind is needed.

*The game.* `GameInv` adds what a call knows of its session past the turn check:
it is still active although the status was read long ago, its board is the one
the call has written, and a board that is over belongs to exactly one call that
is about to say so (`Orderly`, `Undecided`). `MovesAreInTime` follows, and so
does the refinement: `GameRulesProofs` shows first that the engine's table
`winningLines` is the eight lines of the geometry, that `Winner` and `IsFull`
decide what `TicTacToe` says they do, and then, write by write, that each is the
abstract move, the abstract decision or a stutter.

*Turns.* `TurnsInv` counts the marks: X leads O by one after its move and by none
after O's, whoever has the turn has it because the other made the last mark,
and a settled game stays settled. All this needs `OneMoverEach` only; what
`Persistence` adds, that O has not moved while it is still creating the game
(`OpeningInv`), needs one handler.

*Recovery.* `RecoverIsCurrent` is inductive with `TypeOK` and the fact that a call
past its first step is about a session that exists and, between the status
write and the save, completed; it does not need the turn lock. The exception
for `Finishing` is the window between manager.go:122 and :126.

*The gauge.* `activeGames` is at all times the number of active sessions, less those
whose creation is not counted yet, plus those whose end is not (`GaugeInv`). Every
step moves one session into or out of one of the three sets; that no session
enters or leaves one twice is `GameInv`.

*Matchmaking.* A step of `MatchNext` either leaves all variables of the session
manager alone or is one of its steps, which is the refinement; so theorems about
`Spec` carry over. `GamesAreAgreed` needs that a call remembers what it has read
of the invitation (`Minds`). `OneAnswerEach` needs that a handler which is about to
delete an invitation has not answered it, and that one which has cannot find it again: an
answer comes after the deletion, and uuids are not used twice. Nothing of the kind
holds of two handlers of one invitee: MCTwoAnswers.cfg has the double answer.

*Persistence.* The process may end in the middle of everything, so the
invariants speak of `Truth(sid)`, the session in memory or, when it is gone, as
the memory last had it. `HistoryInv`: a row of `moves` is a mark of its
participant on that board, its number has the right parity, no other row has its
cell, and a call that is about to insert has its mark on the board and on no
row. `ResultsInv`: a row that says completed is right for good, and without
failed statements a row is behind its session only by what a call in flight has
still to write.

*Delivery.* A client's moves arrive on the connection the hub has for it; so with
`~Overlap` a participant with several connections still has one that moves
(`OneConnectionInv`), which gives `OneMoverEach` and with it `GameInv`. `PastInv`
says that all boards that are being copied, queued or shown consist of marks that
are on the server's board. A message is torn when the board changes between the two
reads of `ToDTO`; it is in the past all the same because boards only grow, and
that is what the turn lock guarantees. A message that is dropped, or lost with its
connection, takes nothing from that argument.

`DeliverySpec` implements `Spec`, and `OneMoverEach` is an invariant of it, so the
game of reconnecting players is a game by `OrderlySessionsImplementGames`, and
`TurnsInv` and `GaugeInv` are preserved as they are.

*How much is queued.* A handler that has written a move, or created a session, owes
each of the two players one message until it has come to it (`Owes`; `Debtors` of a
player and a session are the handlers that do). `RouteInv` says that what is being
sent goes to the two players of its session and that the hub's entry of a participant is a
connection of it. `QueueInv` keeps accounts: for a connection and a session, the
messages in the queue and the debtors are together no more than what has
happened to the session, its beginning and its moves, and one more for one
session that the welcome may have carried. A move adds a debtor and something
that has happened; queueing turns a debtor into a message; dropping, reading and
reconnecting only take away. Adding the accounts up over the sessions in a queue gives
`QueueBound`: ten for each, and the welcome. That is about session messages. The
slots are shared with the others, so no bound on these keeps them from being
dropped, which is why `NothingIsWithheld` speaks of drops and does not exclude
them.

*What is withheld.* `WayInv` is about a connected player and the game that
`Recover` finds: its present board has been shown, or is in the queue, or is about
to be sent to the player by a handler that has not copied the board yet or has
copied it as it is, or the player's own connection has still to make or queue its
welcome (`OnItsWay`). A new move makes a new sender; a torn copy has its board
from the first of its two reads, and the player who changed it in between is one
more sender. The message that is read last need not be the one: it is enough that it is
read at some time, which `standoff` shows to be all there is. When a message finds
the queue full, its board is the one the connection has `missed`, and that is
what the statement then says. It is inductive because `shown` and `missed` only grow, and
neither is ever fuller than the server's board (`CountsPast`): a count that equals the
present board is of the present board, until the next move makes its new senders.

*Connections.* `ConnTypeOK`, `HubAgrees` and `NoGhosts` are inductive together.
`HubAgrees` counts a connection that is about to be closed by the goroutine that
displaced it as closed; `NoGhosts` hands the answer for a participant's presence
on from `SetOnline` to `Register` to `Unregister` to `SetOffline`.

*The client.* None of its properties is inductive. `ClientInv` says what each
state of the socket allows: no timer while a socket is alive, at most one timer
and as many failures as attempts after a close that scheduled, none and one
failure more after a close that gave up, and an interval that only the close
event of its own socket has still to stop. `Backoff` follows because the timer
is set from the number of attempts just before it grows.

*The lobby.* `LobbyTypeInv` has the invariants of `Connections`, whose steps all
connection steps of `Lobby` are. The others follow a piece of news from its source
to the client. `SelfInv`, for the client's own name: it is on no list that is
being made or under way, a client that does not know its name is sent its
welcome before its lobby, and after the lobby either the client knows its name
and does not list it or another list is coming. `ArrivalInv`, for a pending
invitation and its invitee: it is in the list about to be sent, or a handler is
still to tell it, or it is on its way with nothing behind it that takes it away
(`Tells`), or it is shown, or being answered, with nothing on its way that takes it
away (`Spares`). It needs that a cancellation is of an invitation that is over
(`CancelInv`) and that a handler sends all before it reads again (`DispatchInv`).
`GoneInv` is the same for an invitation that is over and everybody: it is on no
list about to be sent, and its inviter is still to be told, or what is on the way
ends with something that takes it away (`Clears`), or it is not shown and nothing on
the way mentions it (`Silent`). An invitation gets there by being answered, so
`AnswerInv` says what is known while an answer is under way: no handler has it left
to tell, and the connection it was clicked on does not show it any more. There is
no second connection to ask about: `HubAgrees` makes the one whose request is read
the hub's, unless a newer one is about to close it, and then its participant is
still being greeted. `PartiesInv` leaves everybody else out. The history variable
`overtaken` is in the statements: `ArrivalInv` and `GoneInv` are false of an
invitation in it.

`PresenceInv` is about two clients at once. Their snapshots do not matter for it:
of two that are connected, the one whose `lobby_state` was queued last greets
everybody after that, so the other will list it (`ListedAt`: the greeting is still
to be sent, or on its way with nothing behind it that hides the participant, or
read). From then on that is only disturbed by the games of the participant who is
listed, and `ListedAt` asks for nothing while one of them lasts. What is left is that no
news of its absence is sent late: the farewell of an older goroutine cannot come,
since there is no older goroutine (`OneEach`, where `overlapped` is needed), and the
two announcements that a game has begun are made by O's goroutine, which has to
send them before it can read O's first move, without which the game cannot end
(`HidingInv`). The proof found that the order of the two `lobby_state`s decides, and
not that of the two `ListOnline`s.

*Only model-checked.*

* Liveness: `FinishedGamesRelease`, `OnlineSilenceIsReaped` and `ComesBack`. Fairness
  and ENABLED are outside what the provers handle.
* The models' relation to the code: that is what the map in `PROJECT.json` is for.

## 5. Not modelled

* A session is in the store before its row is in the table, so X's first move can
  violate the foreign key and be lost from the history. `Persistence` has these
  behaviours; no property forbids them.
* The sweep reads a heartbeat, looks the connection up and closes it in three
  steps, so it can close a connection that is younger than the heartbeat it has
  read (gateway.go:267). `Connections` has this; nothing says it must not happen, and
  the client reconnects.
* Database calls have no timeout (gateway.go:124). A goroutine that waits for ever
  stays in the middle of its handshake or call; fairness assumes it does not.
* Connections and sessions across a restart of the server: every client sees its
  socket close, which `WSClient` has, and starts from nothing on the server, which is
  the initial state of `Connections` and `Lobby`.
* Formats, logging, metrics other than `ActiveGames`, configuration, the user
  interface, deployment.
* The upsert of `participants` changes a username that nothing reads.
* `claimUserDataSlot` and the Electron windows.
* `DeleteSession`, `OpponentOf` and the table `invitations` have no user.

## 6. Plan

Done: the session manager first, since a wrong game is the worst this system can
do, then matchmaking, connections, persistence with the process around it, the
delivery of what the players see, the client's reconnection, the lobby; and the
safety proofs of all of them, with the refinements between them.

What is left is out of the provers' reach (liveness) or not modelled (section 5).
