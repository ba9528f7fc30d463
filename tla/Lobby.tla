---------------------------------- MODULE Lobby ----------------------------------
(***************************************************************************)
(* What the lobbies of the clients show: the presence and the invitations  *)
(* that server/internal/ws/gateway.go sends over the connections of module *)
(* Connections, and the online and invitations lists that client/src/store *)
(* /useStore.ts makes of them.                                             *)
(*                                                                         *)
(* A goroutine reads the store and sends what it has read later; others    *)
(* broadcast in between.  The calls of the matchmaking service and of the  *)
(* session manager are atomic here: Matchmaking and SessionManager show    *)
(* their steps.  What is sent follows, message by message.                 *)
(*                                                                         *)
(* The session that comes of an invitation goes by the invitation's id.    *)
(***************************************************************************)
EXTENDS Connections, Sequences

CONSTANTS
  InvitationIds,  \* bound: the invitations that are ever made
  Starts,         \* bound: the connections that are settled, or were rejected, at
                  \* the start; the others are yet to be made
  Leaving,        \* bound: the connections that their clients may close
  NoInvitation, NoRequest

ASSUME LobbyAssumption ==
  /\ NoInvitation \notin InvitationIds
  /\ Starts \subseteq [settled : SUBSET Connections, rejected : SUBSET Connections]
  /\ \A start \in Starts : \A c, d \in start.settled : Identity[c] = Identity[d] => c = d

VARIABLES
  invitation,  \* what each invitation says, kept after it has been deleted
  pending,     \* the keys of MemoryStore.invitations
  active,      \* the sessions with status active
  moved,       \* the sessions in which O has moved
  inSession,   \* MemoryStore.sessionByParticipant
  snapshot,    \* the locals of sendWelcome and lobbyState
  todo,        \* what a handler has still to send
  inbox,       \* the send channel of a connection, with what the socket holds
  request,     \* what the client has sent and the server has not read
  using,       \* the connection a client has made last
  knowsSelf,   \* the clients whose store has self
  list,        \* online in the store of a client
  shown,       \* the ids of invitations in the store of a client
  overtaken,   \* history: invitations that changed while older news was yet to come
  overlapped   \* history: a client has connected before its old goroutine ended

stored == <<invitation, pending, active, moved, inSession>>
sending == <<snapshot, todo, inbox>>
client == <<request, using, knowsSelf, list, shown>>
history == <<overtaken, overlapped>>
lobbyVars == <<stored, sending, client, history>>

-----------------------------------------------------------------------------
(* Messages.                                                               *)

Welcomed == [type |-> "welcome"]
LobbyState(ps, is) == [type |-> "lobby_state", online |-> ps, invitations |-> is]
PresenceUpdate(p, b) == [type |-> "presence_update", participant |-> p, online |-> b]
Invited(i) == [type |-> "invite", id |-> i]   \* invite_sent and invite_received
InviteCanceled(i) == [type |-> "invite_canceled", id |-> i]

Messages ==
  {Welcomed} \cup {LobbyState(ps, is) : ps \in SUBSET Participants, is \in SUBSET InvitationIds}
  \cup {PresenceUpdate(p, b) : p \in Participants, b \in BOOLEAN}
  \cup {Invited(i) : i \in InvitationIds} \cup {InviteCanceled(i) : i \in InvitationIds}

InviteCreate(p) == [type |-> "invite_create", to |-> p]
InviteRespond(i, b) == [type |-> "invite_respond", id |-> i, accept |-> b]

Requests == {InviteCreate(p) : p \in Participants}
  \cup {InviteRespond(i, b) : i \in InvitationIds, b \in BOOLEAN}

ASSUME NothingAsked == NoRequest \notin Requests

\* To the handler's own client, through Hub.Send, to all, or, if the
\* participant is connected then, presence to all.
ToSelf(m) == [how |-> "self", who |-> NoOne, message |-> m]
ToOne(p, m) == [how |-> "one", who |-> p, message |-> m]
ToAll(m) == [how |-> "all", who |-> NoOne, message |-> m]
IfConnected(p) == [how |-> "ifConnected", who |-> p, message |-> PresenceUpdate(p, TRUE)]

Sends == [how : {"self", "one", "all", "ifConnected"}, who : Participants \cup {NoOne},
          message : Messages]

Snapshots == [at : {"welcome", "online", "check", "send"}, left : SUBSET Participants,
              online : SUBSET Participants, invitations : SUBSET InvitationIds]

NoSnapshot == [at |-> "welcome", left |-> {}, online |-> {}, invitations |-> {}]

Invitation == [from : Participants, to : Participants]

ASSUME NotAnInvitation == NoInvitation \notin Invitation

LobbyTypeOK ==
  /\ ConnTypeOK
  /\ invitation \in [InvitationIds -> Invitation \cup {NoInvitation}]
  /\ \A ids \in {pending, active, moved, overtaken} : ids \subseteq InvitationIds
  /\ pending \cap (active \cup moved) = {}
  /\ inSession \in [Participants -> InvitationIds \cup {NoInvitation}]
  /\ snapshot \in [Connections -> Snapshots]
  /\ todo \in [Connections -> Seq(Sends)]
  /\ inbox \in [Connections -> Seq(Messages)]
  /\ request \in [Connections -> Requests \cup {NoRequest}]
  /\ using \in [Participants -> Connections \cup {NoConnection}]
  /\ knowsSelf \subseteq Participants
  /\ list \in [Participants -> SUBSET Participants]
  /\ shown \in [Participants -> SUBSET InvitationIds]
  /\ overlapped \in BOOLEAN

\* Nobody yet, or some have connected, one after the other.
StartWith(settled, rejected) ==
  /\ pc = [c \in Connections |-> IF c \in settled THEN "read"
                                ELSE IF c \in rejected THEN "done" ELSE "off"]
  /\ socket = [c \in Connections |-> IF c \in settled THEN "open"
                                    ELSE IF c \in rejected THEN "closed" ELSE "none"]
  /\ hub = [p \in Participants |->
              IF \E c \in settled : Identity[c] = p
              THEN CHOOSE c \in settled : Identity[c] = p ELSE NoConnection]
  /\ displaced = [c \in Connections |-> NoConnection]
  /\ online = {Identity[c] : c \in settled}
  /\ heartbeats = [p \in Participants |-> IF p \in online THEN "fresh" ELSE "none"]
  /\ sweep = SweepIdle
  /\ invitation = [i \in InvitationIds |-> NoInvitation]
  /\ pending = {} /\ active = {} /\ moved = {}
  /\ inSession = [p \in Participants |-> NoInvitation]
  /\ snapshot = [c \in Connections |-> NoSnapshot]
  /\ todo = [c \in Connections |-> <<>>]
  /\ inbox = [c \in Connections |-> <<>>]
  /\ request = [c \in Connections |-> NoRequest]
  /\ using = hub
  /\ knowsSelf = online
  /\ list = [p \in Participants |-> IF p \in online THEN online \ {p} ELSE {}]
  /\ shown = [p \in Participants |-> {}]
  /\ overtaken = {} /\ overlapped = FALSE

LobbyInit == \E start \in Starts : StartWith(start.settled, start.rejected)

-----------------------------------------------------------------------------
(* Sending.  Queues are long enough here: module Delivery has the drops.   *)

\* What is queued on a closed connection is never written.
Enqueued(cs, m) ==
  [c \in Connections |-> IF c \in cs /\ socket[c] = "open" THEN Append(inbox[c], m) ELSE inbox[c]]

\* Hub.clients.
Clients == {hub[p] : p \in Participants} \ {NoConnection}

Broadcast(m) == inbox' = Enqueued(Clients, m)

\* What was under way on a connection that is closed is lost.
Lost == inbox' = [c \in Connections |-> IF socket'[c] = "closed" THEN <<>> ELSE inbox[c]]

SendWelcome(c) ==
  /\ pc[c] = "welcome"
  /\ snapshot[c].at = "welcome"
  /\ snapshot' = [snapshot EXCEPT ![c].at = "online"]
  /\ inbox' = Enqueued({c}, Welcomed)
  /\ UNCHANGED <<connVars, stored, todo, client, history>>

\* Mutant: the participant itself is not left out.
OthersAndItself(ps, p) == ps

Others(ps, p) == ps \ {p}

\* lobbyState: ListOnline.
SnapshotOnline(c) ==
  /\ snapshot[c].at = "online"
  /\ snapshot' = [snapshot EXCEPT ![c] = [@ EXCEPT !.at = "check",
                                                   !.left = Others(online, Identity[c])]]
  /\ UNCHANGED <<connVars, stored, todo, inbox, client, history>>

\* Recover, for one participant after the other.
SnapshotCheck(c, p) ==
  /\ snapshot[c].at = "check"
  /\ p \in snapshot[c].left
  /\ snapshot' = [snapshot EXCEPT
       ![c].left = @ \ {p},
       ![c].online = IF inSession[p] = NoInvitation THEN @ \cup {p} ELSE @]
  /\ UNCHANGED <<connVars, stored, todo, inbox, client, history>>

Involves(i, p) == p \in {invitation[i].from, invitation[i].to}

\* Mutant: only the invitations that p has sent.
InvitationsOfInviter(p) == {i \in pending : invitation[i].from = p}

\* ListInvitationsForParticipant.
InvitationsOf(p) == {i \in pending : Involves(i, p)}

SnapshotInvitations(c) ==
  /\ snapshot[c].at = "check"
  /\ snapshot[c].left = {}
  /\ snapshot' = [snapshot EXCEPT
       ![c].at = "send", ![c].invitations = InvitationsOf(Identity[c])]
  /\ UNCHANGED <<connVars, stored, todo, inbox, client, history>>

SendLobby(c) ==
  /\ snapshot[c].at = "send"
  /\ Welcome(c)
  /\ snapshot' = [snapshot EXCEPT ![c] = NoSnapshot]
  /\ inbox' = Enqueued({c}, LobbyState(snapshot[c].online, snapshot[c].invitations))
  /\ UNCHANGED <<stored, todo, client, history>>

\* broadcastPresence.
Greet(c) ==
  /\ AnnounceOnline(c)
  /\ Broadcast(PresenceUpdate(Identity[c], TRUE))
  /\ UNCHANGED <<stored, snapshot, todo, client, history>>

BidFarewell(c) ==
  /\ AnnounceOffline(c)
  /\ Broadcast(PresenceUpdate(Identity[c], FALSE))
  /\ UNCHANGED <<stored, snapshot, todo, client, history>>

\* A handler sends its next message.  After the last it reads again.
SendNext(c) ==
  /\ pc[c] = "dispatch"
  /\ todo[c] # <<>>
  /\ LET s == Head(todo[c])
         proceed == s.how = "ifConnected" /\ hub[s.who] # NoConnection
         rest == IF proceed THEN <<ToAll(s.message)>> \o Tail(todo[c]) ELSE Tail(todo[c])
     IN  /\ todo' = [todo EXCEPT ![c] = rest]
         /\ inbox' = CASE s.how = "self" -> Enqueued({c}, s.message)
                       [] s.how = "one" -> Enqueued({hub[s.who]}, s.message)
                       [] s.how = "all" -> Enqueued(Clients, s.message)
                       [] OTHER -> inbox
         /\ IF rest = <<>> THEN Dispatched(c) ELSE UNCHANGED connVars
  /\ UNCHANGED <<stored, snapshot, client, history>>

-----------------------------------------------------------------------------
(* The handlers.                                                           *)

Asked(c, type) == request[c] # NoRequest /\ request[c].type = type

\* The request is read, and sends will follow.
Read(c, sends) ==
  /\ ReadMessage(c)
  /\ todo' = [todo EXCEPT ![c] = sends]
  /\ request' = [request EXCEPT ![c] = NoRequest]
  /\ UNCHANGED <<snapshot, inbox, using, knowsSelf, list, shown, overlapped>>

\* CreateInvitation's checks.
MayInvite(p, q) ==
  p # q /\ {p, q} \subseteq online /\ inSession[p] = NoInvitation /\ inSession[q] = NoInvitation

\* The invitations of p have been read from the store and are not sent yet.
BeingListed(p) == \E c \in Connections : Identity[c] = p /\ snapshot[c].at = "send"

Mentions(m, i) == m = Invited(i) \/ (m.type = "lobby_state" /\ i \in m.invitations)

\* The handshake of c goes on, or its lobby_state is being made.
Greeting(c) == pc[c] \in {"hello", "online", "heartbeat", "upsert", "register", "closeOld", "welcome"}

\* News of i that has been read from the store and is not sent yet.
Unsent(i) ==
  \E c \in Connections :
    \/ snapshot[c].at = "send" /\ i \in snapshot[c].invitations
    \/ \E k \in DOMAIN todo[c] : todo[c][k].message = Invited(i)

\* News of i that the client behind c has still to read: its lobby_state is yet
\* to come, or to be read, or the inviter's handler has not told it.
Unread(i, c) ==
  \/ Greeting(c)
  \/ \E k \in DOMAIN inbox[c] : Mentions(inbox[c][k], i)
  \/ \E d \in Connections : \E k \in DOMAIN todo[d] : todo[d][k].message = Invited(i)

\* Replaced twice, c is read from although its client has its lobby_state anew.
Outlives(c) == \E d \in Connections \ {c} : hub[Identity[c]] = d /\ ~Greeting(d)

OvertakenIf(condition, i) == overtaken' = IF condition THEN overtaken \cup {i} ELSE overtaken

HandleInviteCreate(c, i) ==
  /\ Asked(c, "invite_create")
  /\ invitation[i] = NoInvitation
  /\ LET p == Identity[c]
         q == request[c].to
     IN  /\ MayInvite(p, q)
         /\ invitation' = [invitation EXCEPT ![i] = [from |-> p, to |-> q]]
         /\ pending' = pending \cup {i}
         /\ OvertakenIf(BeingListed(q), i)
         /\ Read(c, <<ToSelf(Invited(i)), ToOne(q, Invited(i))>>)
  /\ UNCHANGED <<active, moved, inSession>>

\* Mutant: it is the invitee who is told.
CanceledForInvitee(i) == <<ToOne(invitation[i].to, InviteCanceled(i))>>

Canceled(i) == <<ToOne(invitation[i].from, InviteCanceled(i))>>

Unavailable(i) == <<ToAll(PresenceUpdate(invitation[i].from, FALSE)),
                    ToAll(PresenceUpdate(invitation[i].to, FALSE))>>

\* Mutant: announced as if the game had begun.
AvailableInverted(i) == Unavailable(i)

\* announceAvailability.
Available(i) == <<IfConnected(invitation[i].from), IfConnected(invitation[i].to)>>

\* The invitation is pending, and the responder its target.
MayAnswer(c, i) == i \in pending /\ invitation[i].to = Identity[c]

\* Mutant: the invitation is not deleted.
AnswerKept(c, i) == MayAnswer(c, i) /\ UNCHANGED <<pending, overtaken>>

\* GetInvitation and DeleteInvitation.
Answer(c, i) ==
  /\ MayAnswer(c, i)
  /\ pending' = pending \ {i}
  /\ OvertakenIf(Unsent(i) \/ Outlives(c), i)

\* SaveSession of a session that is active.
Indexed(i) == inSession' = [p \in Participants |-> IF Involves(i, p) THEN i ELSE inSession[p]]

HandleAccept(c) ==
  /\ Asked(c, "invite_respond") /\ request[c].accept
  /\ LET i == request[c].id
     IN  /\ Answer(c, i)
         /\ active' = active \cup {i}
         /\ Indexed(i)
         /\ Read(c, Unavailable(i))
  /\ UNCHANGED <<invitation, moved>>

HandleDecline(c) ==
  /\ Asked(c, "invite_respond") /\ ~request[c].accept
  /\ Answer(c, request[c].id)
  /\ Read(c, Canceled(request[c].id))
  /\ UNCHANGED <<invitation, active, moved, inSession>>

\* An error, which nobody's lobby shows.
HandleRefused(c) ==
  /\ pc[c] = "read" /\ socket[c] = "open"
  /\ \/ Asked(c, "invite_create") /\ ~MayInvite(Identity[c], request[c].to)
     \/ Asked(c, "invite_respond") /\ ~MayAnswer(c, request[c].id)
  /\ request' = [request EXCEPT ![c] = NoRequest]
  /\ UNCHANGED <<connVars, stored, sending, using, knowsSelf, list, shown, history>>

\* A move that does not end the game, of either player.
HandleMove(c, i) ==
  /\ pc[c] = "read" /\ socket[c] = "open"
  /\ i \in active
  /\ Involves(i, Identity[c])
  /\ moved' = IF Identity[c] = invitation[i].to THEN moved \cup {i} ELSE moved
  /\ Indexed(i)
  /\ UNCHANGED <<connVars, invitation, pending, active, sending, client, history>>

\* The last move of either player: SaveSession of the completed session.
HandleLastMove(c, i) ==
  /\ request[c] = NoRequest
  /\ i \in active \cap moved
  /\ Involves(i, Identity[c])
  /\ active' = active \ {i}
  /\ inSession' = [p \in Participants |-> IF Involves(i, p) THEN NoInvitation ELSE inSession[p]]
  /\ Read(c, Available(i))
  /\ UNCHANGED <<invitation, pending, moved, overtaken>>

-----------------------------------------------------------------------------
(* The clients.                                                            *)

\* A client connects: after its last connection, as far as it knows, or in a
\* new process.
ClientConnects(c) ==
  /\ AcceptSocket(c)
  /\ using' = [using EXCEPT ![Identity[c]] = c]
  /\ overlapped' = (overlapped \/ \E d \in Connections :
                      Identity[d] = Identity[c] /\ pc[d] \notin {"off", "done"})
  /\ \/ UNCHANGED <<knowsSelf, list, shown>>
     \/ /\ knowsSelf' = knowsSelf \ {Identity[c]}
        /\ list' = [list EXCEPT ![Identity[c]] = {}]
        /\ shown' = [shown EXCEPT ![Identity[c]] = {}]
  /\ UNCHANGED <<stored, sending, request, overtaken>>

Live(p) == using[p] # NoConnection /\ socket[using[p]] = "open"

ListAfter(p, m) ==
  CASE m.type = "lobby_state" -> m.online
    [] m.type = "presence_update" /\ ~(p \in knowsSelf /\ m.participant = p) ->
         IF m.online THEN list[p] \cup {m.participant} ELSE list[p] \ {m.participant}
    [] OTHER -> list[p]

ShownAfter(p, m) ==
  CASE m.type = "lobby_state" -> m.invitations
    [] m.type = "invite" -> shown[p] \cup {m.id}
    [] m.type = "invite_canceled" -> shown[p] \ {m.id}
    [] OTHER -> shown[p]

ClientReads(p) ==
  /\ Live(p)
  /\ inbox[using[p]] # <<>>
  /\ LET m == Head(inbox[using[p]])
     IN  /\ list' = [list EXCEPT ![p] = ListAfter(p, m)]
         /\ shown' = [shown EXCEPT ![p] = ShownAfter(p, m)]
         /\ knowsSelf' = IF m = Welcomed THEN knowsSelf \cup {p} ELSE knowsSelf
  /\ inbox' = [inbox EXCEPT ![using[p]] = Tail(@)]
  /\ UNCHANGED <<connVars, stored, snapshot, todo, request, using, history>>

\* The client has nothing else under way (a bound) and sends r.
Ask(p, r) ==
  /\ Live(p) /\ p \in knowsSelf
  /\ request[using[p]] = NoRequest
  /\ request' = [request EXCEPT ![using[p]] = r]
  /\ UNCHANGED <<connVars, stored, sending, using, knowsSelf, list, overlapped>>

\* "Invite sent" in the place of "Play".
InviteSent(p, q) == \E i \in shown[p] : invitation[i] = [from |-> p, to |-> q]

\* Bound: there are uuids left for all that are under way.
UuidLeft == Cardinality({c \in Connections : Asked(c, "invite_create")})
              < Cardinality({i \in InvitationIds : invitation[i] = NoInvitation})

\* "Play" in PlayGameDialog.
ClientInvites(p, q) ==
  /\ q \in list[p] /\ ~InviteSent(p, q)
  /\ UuidLeft
  /\ Ask(p, InviteCreate(q))
  /\ UNCHANGED <<shown, overtaken>>

\* "Accept" or "Decline" in Lobby; the invitation is removed at once.
ClientResponds(p, i, accept) ==
  /\ i \in shown[p] /\ invitation[i].to = p
  /\ Ask(p, InviteRespond(i, accept))
  /\ shown' = [shown EXCEPT ![p] = @ \ {i}]
  /\ OvertakenIf(Unread(i, using[p]), i)

-----------------------------------------------------------------------------

\* Steps of Connections that send nothing.
Plain(c) ==
  /\ \/ ReadHello(c) \/ SetOnline(c) \/ FirstHeartbeat(c) \/ UpsertParticipant(c)
     \/ Register(c) \/ ReadFails(c) \/ Unregister(c) \/ UnregisterSuperseded(c)
     \/ SetOffline(c)
  /\ UNCHANGED lobbyVars

\* Steps that close a socket.  The sweep and a failing write close sockets too,
\* whenever they like, as PeerCloses does.
Closes(c) ==
  /\ RejectHello(c) \/ CloseOld(c) \/ (c \in Leaving /\ PeerCloses(c))
  /\ Lost
  /\ UNCHANGED <<stored, snapshot, todo, client, history>>

ServerStep(c) ==
  \/ Plain(c) \/ Closes(c)
  \/ SendWelcome(c) \/ SnapshotOnline(c) \/ (\E p \in Participants : SnapshotCheck(c, p))
  \/ SnapshotInvitations(c) \/ SendLobby(c) \/ Greet(c) \/ BidFarewell(c) \/ SendNext(c)
  \/ HandleAccept(c) \/ HandleDecline(c) \/ HandleRefused(c)
  \/ \E i \in InvitationIds :
       HandleInviteCreate(c, i) \/ HandleMove(c, i) \/ HandleLastMove(c, i)

ClientStep(p) ==
  \/ ClientReads(p)
  \/ \E q \in Participants : ClientInvites(p, q)
  \/ \E i \in InvitationIds, accept \in BOOLEAN : ClientResponds(p, i, accept)

LobbyNext ==
  \/ \E c \in Connections : ServerStep(c) \/ ClientConnects(c)
  \/ \E p \in Participants : ClientStep(p)

LobbySpec == LobbyInit /\ [][LobbyNext]_<<connVars, lobbyVars>>

-----------------------------------------------------------------------------
(* Correctness.                                                            *)

\* No goroutine has anything to do and nothing is on its way.
Quiet ==
  \A c \in Connections :
    \/ pc[c] \in {"off", "done"}
    \/ pc[c] = "read" /\ socket[c] = "open" /\ inbox[c] = <<>> /\ request[c] = NoRequest

Connected(p) == Live(p) /\ hub[p] = using[p]

Idle(p) == \A i \in active : ~Involves(i, p)

\* "The server broadcasts presence_update so every other connected client sees
\* this participant appear in their lobby" (README.md, Startup, Connection & Lobby,
\* 5): two clients who are connected and idle list each other.
EveryoneIsListed ==
  Quiet => \A p, q \in Participants :
    (p # q /\ Connected(p) /\ Connected(q) /\ Idle(p) /\ Idle(q)) => q \in list[p]

\* What the code keeps of that: a lobby_state may overwrite a greeting, but of two
\* clients who are connected and idle, one lists the other, however their
\* connecting, their snapshots and the announcements of their games overlap, if
\* nobody has reconnected before its old goroutine had said farewell.  (To be
\* listed is not to be invited: "Invite sent" may stand in the place of "Play".)
SomeoneIsListed ==
  (Quiet /\ ~overlapped) => \A p, q \in Participants :
    (p # q /\ Connected(p) /\ Connected(q) /\ Idle(p) /\ Idle(q)) =>
      q \in list[p] \/ p \in list[q]

\* Reconnects lose no invitation but these: an invitee who is connected is shown
\* every invitation that is pending, unless it was saved in the gap between
\* ListInvitationsForParticipant and the sending of its lobby_state, or the
\* invitee has answered it with news of it still to be read.
InvitationsArrive ==
  Quiet => \A i \in pending \ overtaken :
    Connected(invitation[i].to) => i \in shown[invitation[i].to]

\* The other way round: what a lobby shows can still be answered, or is an
\* invitation of its own that has been accepted, unless it was overtaken: deleted
\* when a handler had read it from the store (for a lobby_state, or as the
\* inviter's) and not sent it yet, or answered by an invitee who had another
\* message about it to read, or whose answer was read after the lobby_state of
\* its next connection but one.
ShownIsOpen ==
  Quiet => \A p \in Participants : Connected(p) =>
    \A i \in shown[p] \ overtaken :
      i \in pending \/ (invitation[i].from = p /\ i \in active \cup moved)

\* "The server deletes the invitation and notifies only the inviter with
\* invite_canceled" (README.md, Invitation declined, 2): an inviter is not left
\* with an invitation that has been declined, for which "Invite sent" would stand
\* in the place of "Play".
DeclineClears ==
  Quiet => \A i \in InvitationIds : invitation[i] # NoInvitation =>
    \/ i \in pending \cup active \cup moved
    \/ Connected(invitation[i].from) => i \notin shown[invitation[i].from]

\* "Lobby showing online participants and pending invitations" (README.md,
\* Features): who is back in the lobby is not shown an invitation that has been
\* accepted and played.
AcceptClears ==
  Quiet => \A p \in Participants :
    Connected(p) /\ Idle(p) => shown[p] \cap moved = {}

\* "never let a participant add themselves to their own online/invitable list"
\* (useStore.ts:73): not even through what is sent to a new connection before
\* its welcome, when the client does not know yet who it is.
NeverListsItself == Quiet => \A p \in Participants : Connected(p) => p \notin list[p]

=============================================================================
