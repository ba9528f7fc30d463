------------------------------ MODULE Connections ------------------------------
(***************************************************************************)
(* The life of a WebSocket connection on the server: HandleWS of           *)
(* server/internal/ws/gateway.go, the registry of server/internal/hub/     *)
(* hub.go, the presence and heartbeat maps of server/internal/store/       *)
(* memory.go, and the heartbeat sweep of server/cmd/server/main.go.        *)
(*                                                                         *)
(* Every connection runs in a goroutine of its own and takes the hub's or  *)
(* the store's mutex for one access at a time; a pc names the access that  *)
(* comes next:                                                             *)
(*                                                                         *)
(*  off -> hello -> online -> heartbeat -> upsert -> register -> closeOld  *)
(*   -> welcome -> announce -> read <-> dispatch                           *)
(*  read -> unregister -> offline -> farewell -> done                      *)
(*                                                                         *)
(* A participant that reconnects has two goroutines until the first has    *)
(* noticed that its socket is closed.                                      *)
(***************************************************************************)
EXTENDS Integers, FiniteSets

CONSTANTS
  Participants,
  Connections,  \* bound: the connections that are ever made
  Identity,     \* the participant id the hello of a connection carries
  NoConnection, NoOne

ASSUME IdentityAssumption == Identity \in [Connections -> Participants]
ASSUME NobodyAssumption == NoConnection \notin Connections /\ NoOne \notin Participants

VARIABLES
  pc,          \* what the goroutine of a connection does next
  socket,      \* its socket, seen from the server
  hub,         \* Hub.clients
  displaced,   \* the connection Register found in the hub
  online,      \* the keys of MemoryStore.online
  heartbeats,  \* MemoryStore.heartbeats: younger than heartbeatTimeout or not
  sweep        \* SweepStaleConnections, with its locals

connVars == <<pc, socket, hub, displaced, online, heartbeats, sweep>>

Pcs == {"off", "hello", "online", "heartbeat", "upsert", "register", "closeOld",
        "welcome", "announce", "read", "dispatch", "unregister", "offline",
        "farewell", "done"}

\* "silent": the peer will not send anything any more (it is frozen, or gone
\* without a trace), and the transport has not reported it.
Sockets == {"none", "open", "silent", "closed"}

Sweep == [pc : {"idle", "check", "get", "close"},
          todo : SUBSET Participants,     \* left of ListOnline
          overdue : SUBSET Participants,  \* silent for too long when now was read
          target : Participants \cup {NoOne},
          conn : Connections \cup {NoConnection}]

SweepIdle == [pc |-> "idle", todo |-> {}, overdue |-> {},
              target |-> NoOne, conn |-> NoConnection]

ConnTypeOK ==
  /\ pc \in [Connections -> Pcs]
  /\ socket \in [Connections -> Sockets]
  /\ hub \in [Participants -> Connections \cup {NoConnection}]
  /\ displaced \in [Connections -> Connections \cup {NoConnection}]
  /\ online \subseteq Participants
  /\ heartbeats \in [Participants -> {"none", "fresh", "stale"}]
  /\ sweep \in Sweep
  /\ sweep.pc = "get" => sweep.target \in Participants
  /\ sweep.pc = "close" => sweep.conn \in Connections

ConnInit ==
  /\ pc = [c \in Connections |-> "off"]
  /\ socket = [c \in Connections |-> "none"]
  /\ hub = [p \in Participants |-> NoConnection]
  /\ displaced = [c \in Connections |-> NoConnection]
  /\ online = {}
  /\ heartbeats = [p \in Participants |-> "none"]
  /\ sweep = SweepIdle

Step(c, from, to) == pc[c] = from /\ pc' = [pc EXCEPT ![c] = to]

\* Client.Close, once or more often.
Closed(s, c) == [s EXCEPT ![c] = "closed"]

-----------------------------------------------------------------------------
(* HandleWS and performHandshake.                                          *)

AcceptSocket(c) ==
  /\ Step(c, "off", "hello")
  /\ socket' = [socket EXCEPT ![c] = "open"]
  /\ UNCHANGED <<hub, displaced, online, heartbeats, sweep>>

\* No hello within helloTimeout, a closed socket, or another message.
RejectHello(c) ==
  /\ Step(c, "hello", "done")
  /\ socket' = Closed(socket, c)
  /\ UNCHANGED <<hub, displaced, online, heartbeats, sweep>>

\* A hello that was sent is read even if the peer has gone since.
ReadHello(c) ==
  /\ Step(c, "hello", "online")
  /\ UNCHANGED <<socket, hub, displaced, online, heartbeats, sweep>>

SetOnline(c) ==
  /\ Step(c, "online", "heartbeat")
  /\ online' = online \cup {Identity[c]}
  /\ UNCHANGED <<socket, hub, displaced, heartbeats, sweep>>

FirstHeartbeat(c) ==
  /\ Step(c, "heartbeat", "upsert")
  /\ heartbeats' = [heartbeats EXCEPT ![Identity[c]] = "fresh"]
  /\ UNCHANGED <<socket, hub, displaced, online, sweep>>

\* UpsertParticipant returns; its error is only logged.
UpsertParticipant(c) ==
  /\ Step(c, "upsert", "register")
  /\ UNCHANGED <<socket, hub, displaced, online, heartbeats, sweep>>

Register(c) ==
  /\ Step(c, "register", "closeOld")
  /\ displaced' = [displaced EXCEPT ![c] = hub[Identity[c]]]
  /\ hub' = [hub EXCEPT ![Identity[c]] = c]
  /\ UNCHANGED <<socket, online, heartbeats, sweep>>

SocketsAfterRegister(s, old) == IF old = NoConnection THEN s ELSE Closed(s, old)

\* Outside the hub's mutex, and before the caller goes on.
CloseOld(c) ==
  /\ Step(c, "closeOld", "welcome")
  /\ socket' = SocketsAfterRegister(socket, displaced[c])
  /\ UNCHANGED <<hub, displaced, online, heartbeats, sweep>>

\* sendWelcome and the lobby_state change nothing but the send queue of c.
Welcome(c) ==
  /\ Step(c, "welcome", "announce")
  /\ UNCHANGED <<socket, hub, displaced, online, heartbeats, sweep>>

\* presence_update goes to the send queues of all.
AnnounceOnline(c) ==
  /\ Step(c, "announce", "read")
  /\ UNCHANGED <<socket, hub, displaced, online, heartbeats, sweep>>

-----------------------------------------------------------------------------
(* readLoop and dispatch.                                                  *)

ReadHeartbeat(c) ==
  /\ pc[c] = "read"
  /\ socket[c] = "open"
  /\ heartbeats' = [heartbeats EXCEPT ![Identity[c]] = "fresh"]
  /\ UNCHANGED <<pc, socket, hub, displaced, online, sweep>>

\* An invitation, an answer or a move, which may wait for PostgreSQL.
ReadMessage(c) ==
  /\ socket[c] = "open"
  /\ Step(c, "read", "dispatch")
  /\ UNCHANGED <<socket, hub, displaced, online, heartbeats, sweep>>

Dispatched(c) ==
  /\ Step(c, "dispatch", "read")
  /\ UNCHANGED <<socket, hub, displaced, online, heartbeats, sweep>>

ReadFails(c) ==
  /\ socket[c] = "closed"
  /\ Step(c, "read", "unregister")
  /\ UNCHANGED <<socket, hub, displaced, online, heartbeats, sweep>>

-----------------------------------------------------------------------------
(* handleDisconnect.                                                       *)

\* Mutant: the entry of the participant is removed whoever's it is.
IsCurrentOfAnyone(c) == hub[Identity[c]] # NoConnection

IsCurrent(c) == hub[Identity[c]] = c

Unregister(c) ==
  /\ IsCurrent(c)
  /\ Step(c, "unregister", "offline")
  /\ hub' = [hub EXCEPT ![Identity[c]] = NoConnection]
  /\ UNCHANGED <<socket, displaced, online, heartbeats, sweep>>

\* A newer connection has taken the entry: nothing to do.
UnregisterSuperseded(c) ==
  /\ ~IsCurrent(c)
  /\ Step(c, "unregister", "done")
  /\ UNCHANGED <<socket, hub, displaced, online, heartbeats, sweep>>

\* Mutant: presence is left alone.
WithoutPresenceKept(ps, p) == ps

WithoutPresence(ps, p) == ps \ {p}

SetOffline(c) ==
  /\ Step(c, "offline", "farewell")
  /\ online' = WithoutPresence(online, Identity[c])
  /\ UNCHANGED <<socket, hub, displaced, heartbeats, sweep>>

AnnounceOffline(c) ==
  /\ Step(c, "farewell", "done")
  /\ UNCHANGED <<socket, hub, displaced, online, heartbeats, sweep>>

-----------------------------------------------------------------------------
(* SweepStaleConnections.                                                  *)

SweepPc(name) == sweep.pc = name
OnlySweep == UNCHANGED <<pc, hub, displaced, online, heartbeats>>

\* now and ListOnline.
SweepStart ==
  /\ SweepPc("idle")
  /\ sweep' = [SweepIdle EXCEPT !.pc = "check", !.todo = online,
                 !.overdue = {p \in Participants : heartbeats[p] = "stale"}]
  /\ UNCHANGED socket /\ OnlySweep

\* Mutant: the participants that are on time are closed.
OverdueInverted(p) == heartbeats[p] = "fresh"

\* LastHeartbeat lies more than heartbeatTimeout before the sweep's now.
Overdue(p) == p \in sweep.overdue /\ heartbeats[p] = "stale"

SweepCheck(p) ==
  /\ SweepPc("check")
  /\ p \in sweep.todo
  /\ sweep' = IF Overdue(p)
              THEN [sweep EXCEPT !.pc = "get", !.todo = @ \ {p}, !.target = p]
              ELSE [sweep EXCEPT !.todo = @ \ {p}]
  /\ UNCHANGED socket /\ OnlySweep

\* Mutant: whether the hub has a connection is not looked at.
SweepGetUnchecked ==
  /\ SweepPc("get")
  /\ sweep' = [sweep EXCEPT !.pc = "close", !.conn = hub[sweep.target]]
  /\ UNCHANGED socket /\ OnlySweep

SweepGet ==
  /\ SweepPc("get")
  /\ sweep' = [sweep EXCEPT !.pc = IF hub[sweep.target] = NoConnection THEN "check" ELSE "close",
                            !.conn = hub[sweep.target]]
  /\ UNCHANGED socket /\ OnlySweep

SweepClose ==
  /\ SweepPc("close")
  /\ socket' = Closed(socket, sweep.conn)
  /\ sweep' = [sweep EXCEPT !.pc = "check", !.conn = NoConnection]
  /\ OnlySweep

SweepEnd ==
  /\ SweepPc("check")
  /\ sweep.todo = {}
  /\ sweep' = SweepIdle
  /\ UNCHANGED socket /\ OnlySweep

-----------------------------------------------------------------------------
(* The peers, the transport and the clock.                                 *)

OnlySocket == UNCHANGED <<pc, hub, displaced, online, heartbeats, sweep>>

PeerCloses(c) ==
  /\ socket[c] = "open"
  /\ socket' = Closed(socket, c)
  /\ OnlySocket

PeerVanishes(c) ==
  /\ socket[c] = "open"
  /\ socket' = [socket EXCEPT ![c] = "silent"]
  /\ OnlySocket

\* WritePump, once there is one, closes the client when a write fails.
WriteFails(c) ==
  /\ socket[c] = "silent"
  /\ pc[c] \in {"welcome", "announce", "read", "dispatch"}
  /\ socket' = Closed(socket, c)
  /\ OnlySocket

\* heartbeatTimeout has passed since the last heartbeat of p.
Expire(p) ==
  /\ heartbeats[p] = "fresh"
  /\ heartbeats' = [heartbeats EXCEPT ![p] = "stale"]
  /\ UNCHANGED <<pc, socket, hub, displaced, online, sweep>>

-----------------------------------------------------------------------------

Handshake(c) ==
  \/ RejectHello(c) \/ ReadHello(c) \/ SetOnline(c) \/ FirstHeartbeat(c)
  \/ UpsertParticipant(c) \/ Register(c) \/ CloseOld(c) \/ Welcome(c)
  \/ AnnounceOnline(c)

Disconnect(c) ==
  \/ Dispatched(c) \/ ReadFails(c) \/ Unregister(c) \/ UnregisterSuperseded(c)
  \/ SetOffline(c) \/ AnnounceOffline(c)

SweepStep ==
  \/ SweepStart \/ (\E p \in Participants : SweepCheck(p))
  \/ SweepGet \/ SweepClose \/ SweepEnd

ConnNext ==
  \/ \E c \in Connections :
       \/ AcceptSocket(c) \/ Handshake(c) \/ ReadHeartbeat(c) \/ ReadMessage(c)
       \/ Disconnect(c) \/ PeerCloses(c) \/ PeerVanishes(c) \/ WriteFails(c)
  \/ \E p \in Participants : Expire(p)
  \/ SweepStep

ConnSpec == ConnInit /\ [][ConnNext]_connVars

\* Silence lasts: nobody is left who could send a heartbeat for p.
Silence(p) == \A c \in Connections : Identity[c] = p => socket[c] # "open"

\* Goroutines are scheduled, PostgreSQL answers, the hello has a timeout, the
\* sweep is driven by a ticker, and time passes.  Peers owe nothing.
ConnFairness ==
  /\ \A c \in Connections : WF_connVars(Handshake(c)) /\ WF_connVars(Disconnect(c))
  /\ \A p \in Participants : WF_connVars(Expire(p) /\ Silence(p))
  /\ WF_connVars(SweepStep)

ConnFairSpec == ConnSpec /\ ConnFairness

-----------------------------------------------------------------------------
(* Correctness.                                                            *)

\* Between Register and Unregister.
Registered == {"closeOld", "welcome", "announce", "read", "dispatch", "unregister"}

Closing(c) == \E d \in Connections : pc[d] = "closeOld" /\ displaced[d] = c

\* One live connection per participant: the hub's entry is a connection that
\* is being served, and of all the others that are being served the socket is
\* closed, or the goroutine that replaced it is about to close it.  So a
\* reconnect never leaks a connection, and never loses its own entry to the
\* cleanup of the connection it replaced.
HubAgrees ==
  \A c \in Connections :
    LET current == hub[Identity[c]] = c
    IN  /\ current => pc[c] \in Registered
        /\ pc[c] \in Registered => current \/ socket[c] = "closed" \/ Closing(c)

\* No ghosts: whoever the store calls online has an entry in the hub, or a
\* goroutine on its way to register one or to correct the presence.
NoGhosts ==
  \A p \in online :
    \/ hub[p] # NoConnection
    \/ \E c \in Connections :
         Identity[c] = p /\ pc[c] \in {"heartbeat", "upsert", "register", "offline"}

\* A peer that has gone silent is found by the sweep: its socket is closed as
\* long as the store calls the participant online.
OnlineSilenceIsReaped ==
  \A c \in Connections :
    (socket[c] = "silent" /\ hub[Identity[c]] = c)
      ~> (socket[c] = "closed" \/ Identity[c] \notin online)

\* "Lost connection: marked disconnected after a missed heartbeat" (README.md,
\* Error Handling): every silent connection is closed in the end.
SilenceIsReaped ==
  \A c \in Connections : (socket[c] = "silent") ~> (socket[c] = "closed")

=============================================================================
