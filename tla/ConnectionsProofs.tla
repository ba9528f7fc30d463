---------------------------- MODULE ConnectionsProofs ----------------------------
(***************************************************************************)
(* Proofs about connections, for any number of participants and of         *)
(* overlapping connections of each.  ConnTypeOK, HubAgrees and NoGhosts    *)
(* are inductive together.                                                 *)
(***************************************************************************)
EXTENDS Connections, TLAPS

ConnInv == ConnTypeOK /\ HubAgrees /\ NoGhosts

LEMMA SweepIdleType == SweepIdle \in Sweep
BY DEF SweepIdle, Sweep

LEMMA InitConnInv == ConnInit => ConnInv
<1> SUFFICES ASSUME ConnInit PROVE ConnInv
  OBVIOUS
<1>1. ConnTypeOK
  <2>1. sweep.pc \notin {"get", "close"}
    BY DEF ConnInit, SweepIdle
  <2> QED BY <2>1, SweepIdleType DEF ConnInit, ConnTypeOK, Pcs, Sockets
<1>2. HubAgrees
  BY IdentityAssumption, NobodyAssumption DEF ConnInit, HubAgrees, Registered
<1>3. NoGhosts
  BY DEF ConnInit, NoGhosts
<1> QED BY <1>1, <1>2, <1>3 DEF ConnInv

\* The steps of a goroutine that stay on one side of Register and Unregister.
LEMMA GoroutineTypes ==
  ASSUME ConnTypeOK, NEW c \in Connections,
         AcceptSocket(c) \/ Handshake(c) \/ ReadHeartbeat(c) \/ ReadMessage(c) \/ Disconnect(c)
  PROVE  ConnTypeOK'
<1>1. pc' \in [Connections -> Pcs]
  BY DEF ConnTypeOK, AcceptSocket, Handshake, RejectHello, ReadHello, SetOnline, FirstHeartbeat,
         UpsertParticipant, Register, CloseOld, Welcome, AnnounceOnline, ReadHeartbeat,
         ReadMessage, Disconnect, Dispatched, ReadFails, Unregister, UnregisterSuperseded,
         SetOffline, AnnounceOffline, Step, Pcs
<1>2. socket' \in [Connections -> Sockets]
  BY DEF ConnTypeOK, AcceptSocket, Handshake, RejectHello, ReadHello, SetOnline, FirstHeartbeat,
         UpsertParticipant, Register, CloseOld, Welcome, AnnounceOnline, ReadHeartbeat,
         ReadMessage, Disconnect, Dispatched, ReadFails, Unregister, UnregisterSuperseded,
         SetOffline, AnnounceOffline, Closed, SocketsAfterRegister, Sockets
<1>3. /\ hub' \in [Participants -> Connections \cup {NoConnection}]
      /\ displaced' \in [Connections -> Connections \cup {NoConnection}]
  BY IdentityAssumption
     DEF ConnTypeOK, AcceptSocket, Handshake, RejectHello, ReadHello, SetOnline, FirstHeartbeat,
         UpsertParticipant, Register, CloseOld, Welcome, AnnounceOnline, ReadHeartbeat,
         ReadMessage, Disconnect, Dispatched, ReadFails, Unregister, UnregisterSuperseded,
         SetOffline, AnnounceOffline
<1>4. /\ online' \subseteq Participants
      /\ heartbeats' \in [Participants -> {"none", "fresh", "stale"}]
      /\ sweep' = sweep
  BY IdentityAssumption
     DEF ConnTypeOK, AcceptSocket, Handshake, RejectHello, ReadHello, SetOnline, FirstHeartbeat,
         UpsertParticipant, Register, CloseOld, Welcome, AnnounceOnline, ReadHeartbeat,
         ReadMessage, Disconnect, Dispatched, ReadFails, Unregister, UnregisterSuperseded,
         SetOffline, AnnounceOffline, WithoutPresence
<1> QED BY <1>1, <1>2, <1>3, <1>4 DEF ConnTypeOK

LEMMA OtherTypes ==
  ASSUME ConnTypeOK,
         \/ \E c \in Connections : PeerCloses(c) \/ PeerVanishes(c) \/ WriteFails(c)
         \/ \E p \in Participants : Expire(p)
         \/ SweepStep
  PROVE  ConnTypeOK'
<1>1. CASE \E c \in Connections : PeerCloses(c) \/ PeerVanishes(c) \/ WriteFails(c)
  BY <1>1 DEF ConnTypeOK, PeerCloses, PeerVanishes, WriteFails, OnlySocket, Closed, Sockets
<1>2. CASE \E p \in Participants : Expire(p)
  BY <1>2 DEF ConnTypeOK, Expire
<1>3. CASE SweepStep
  <2>1. sweep' \in Sweep
    <3>1. CASE SweepStart
      <4>1. sweep' = [SweepIdle EXCEPT !.pc = "check", !.todo = online,
                        !.overdue = {p \in Participants : heartbeats[p] = "stale"}]
        BY <3>1 DEF SweepStart
      <4> QED BY <4>1, SweepIdleType DEF ConnTypeOK, Sweep
    <3>2. ASSUME NEW p \in Participants, SweepCheck(p)
          PROVE  sweep' \in Sweep
      BY <3>2 DEF SweepCheck, ConnTypeOK, Sweep
    <3>3. CASE SweepGet
      <4>1. PICK next \in {"check", "close"} :
              sweep' = [sweep EXCEPT !.pc = next, !.conn = hub[sweep.target]]
        BY <3>3 DEF SweepGet
      <4>2. hub[sweep.target] \in Connections \cup {NoConnection}
        BY <3>3 DEF ConnTypeOK, SweepGet, SweepPc
      <4> QED BY <4>1, <4>2 DEF ConnTypeOK, Sweep
    <3>4. CASE SweepClose
      BY <3>4 DEF SweepClose, ConnTypeOK, Sweep
    <3>5. CASE SweepEnd
      BY <3>5, SweepIdleType DEF SweepEnd
    <3> QED BY <1>3, <3>1, <3>2, <3>3, <3>4, <3>5 DEF SweepStep
  <2>2. socket' \in [Connections -> Sockets]
    BY <1>3 DEF ConnTypeOK, SweepStep, SweepStart, SweepCheck, SweepGet, SweepClose, SweepEnd,
       Closed, Sockets
  <2>3. /\ sweep'.pc = "get" => sweep'.target \in Participants
        /\ sweep'.pc = "close" => sweep'.conn \in Connections
    <3>1. ASSUME NEW p \in Participants, SweepCheck(p)
          PROVE  /\ sweep'.pc = "get" => sweep'.target \in Participants
                 /\ sweep'.pc # "close"
      BY <3>1 DEF SweepCheck, ConnTypeOK, Sweep, SweepPc
    <3>2. CASE SweepStart \/ SweepEnd
      <4>1. SweepEnd => sweep'.pc = "idle"
        BY DEF SweepEnd, SweepIdle
      <4>2. SweepStart => sweep'.pc = "check"
        BY DEF SweepStart, SweepIdle
      <4> QED BY <3>2, <4>1, <4>2
    <3>3. CASE SweepGet
      <4>1. hub[sweep.target] \in Connections \cup {NoConnection}
        BY <3>3 DEF ConnTypeOK, SweepGet, SweepPc
      <4>2. CASE hub[sweep.target] = NoConnection
        <5>1. sweep' = [sweep EXCEPT !.pc = "check", !.conn = hub[sweep.target]]
          BY <3>3, <4>2 DEF SweepGet
        <5> QED BY <5>1 DEF ConnTypeOK, Sweep
      <4>3. CASE hub[sweep.target] # NoConnection
        <5>1. sweep' = [sweep EXCEPT !.pc = "close", !.conn = hub[sweep.target]]
          BY <3>3, <4>3 DEF SweepGet
        <5> QED BY <4>1, <4>3, <5>1 DEF ConnTypeOK, Sweep
      <4> QED BY <4>2, <4>3
    <3>4. CASE SweepClose
      BY <3>4 DEF SweepClose, ConnTypeOK, Sweep
    <3> QED BY <1>3, <3>1, <3>2, <3>3, <3>4 DEF SweepStep
  <2> QED BY <1>3, <2>1, <2>2, <2>3 DEF ConnTypeOK, SweepStep, SweepStart, SweepCheck, SweepGet,
             SweepClose, SweepEnd, OnlySweep
<1> QED BY <1>1, <1>2, <1>3

-----------------------------------------------------------------------------

\* A socket that is closed stays closed while its goroutine is registered.
ClosedStays ==
  \A c \in Connections : socket[c] = "closed" => socket'[c] = "closed" \/ pc[c] = "off"

\* Steps that touch neither the hub nor a pc at which it matters.
LEMMA HubUndisturbed ==
  ASSUME ConnInv, UNCHANGED <<hub, displaced>>, ClosedStays,
         \A c \in Connections : \/ pc'[c] = pc[c]
                                \/ {pc[c], pc'[c]} \subseteq Registered \ {"closeOld"}
                                \/ {pc[c], pc'[c]} \cap Registered = {}
  PROVE  HubAgrees'
<1> SUFFICES ASSUME NEW c \in Connections
             PROVE  LET current == hub'[Identity[c]] = c
                    IN  /\ current => pc'[c] \in Registered
                        /\ pc'[c] \in Registered =>
                             current \/ socket'[c] = "closed" \/ Closing(c)'
  BY DEF HubAgrees
<1>1. pc[c] \in Registered <=> pc'[c] \in Registered
  OBVIOUS
<1>2. Closing(c) => Closing(c)'
  BY DEF Closing, Registered
<1>3. pc[c] \in Registered => pc[c] # "off"
  BY DEF Registered
<1> QED BY <1>1, <1>2, <1>3 DEF ConnInv, HubAgrees, ClosedStays

LEMMA RegisterHub ==
  ASSUME ConnInv, NEW d \in Connections, Register(d)
  PROVE  HubAgrees'
<1>1. /\ pc[d] = "register" /\ pc' = [pc EXCEPT ![d] = "closeOld"]
      /\ hub' = [hub EXCEPT ![Identity[d]] = d] /\ UNCHANGED socket
      /\ displaced' = [displaced EXCEPT ![d] = hub[Identity[d]]]
  BY DEF Register, Step
<1>2. d \in Connections /\ Identity[d] \in Participants /\ ConnTypeOK /\ HubAgrees
  BY IdentityAssumption DEF ConnInv
<1> SUFFICES ASSUME NEW c \in Connections
             PROVE  /\ hub'[Identity[c]] = c => pc'[c] \in Registered
                    /\ pc'[c] \in Registered =>
                         hub'[Identity[c]] = c \/ socket'[c] = "closed" \/ Closing(c)'
  BY DEF HubAgrees
<1>3. CASE c = d
  BY <1>1, <1>2, <1>3 DEF ConnTypeOK, Registered
<1>4. CASE c # d
  <2>1. pc'[c] = pc[c]
    BY <1>1, <1>2, <1>4 DEF ConnTypeOK
  <2>2. Closing(c) => Closing(c)'
    BY <1>1, <1>2 DEF Closing, ConnTypeOK
  <2>3. CASE hub[Identity[c]] = c /\ Identity[c] = Identity[d]
    <3>1. pc'[d] = "closeOld" /\ displaced'[d] = c
      BY <1>1, <1>2, <2>3 DEF ConnTypeOK
    <3>2. Closing(c)'
      BY <3>1 DEF Closing
    <3> QED BY <1>2, <2>1, <2>3, <3>2 DEF HubAgrees
  <2>4. CASE ~(hub[Identity[c]] = c /\ Identity[c] = Identity[d])
    <3>1. hub'[Identity[c]] = c <=> hub[Identity[c]] = c
      BY <1>1, <1>2, <1>4, <2>4, IdentityAssumption DEF ConnTypeOK
    <3> QED BY <1>1, <1>2, <2>1, <2>2, <3>1 DEF HubAgrees
  <2> QED BY <2>3, <2>4
<1> QED BY <1>3, <1>4

LEMMA CloseOldHub ==
  ASSUME ConnInv, NEW d \in Connections, CloseOld(d)
  PROVE  HubAgrees'
<1>1. /\ pc[d] = "closeOld" /\ pc' = [pc EXCEPT ![d] = "welcome"] /\ UNCHANGED <<hub, displaced>>
      /\ socket' = IF displaced[d] = NoConnection THEN socket
                   ELSE [socket EXCEPT ![displaced[d]] = "closed"]
  BY DEF CloseOld, Step, SocketsAfterRegister, Closed
<1>2. ConnTypeOK /\ HubAgrees
  BY DEF ConnInv
<1> SUFFICES ASSUME NEW c \in Connections
             PROVE  /\ hub'[Identity[c]] = c => pc'[c] \in Registered
                    /\ pc'[c] \in Registered =>
                         hub'[Identity[c]] = c \/ socket'[c] = "closed" \/ Closing(c)'
  BY DEF HubAgrees
<1>3. pc'[c] \in Registered <=> pc[c] \in Registered
  BY <1>1, <1>2 DEF ConnTypeOK, Registered
<1>4. socket[c] = "closed" => socket'[c] = "closed"
  BY <1>1, <1>2 DEF ConnTypeOK
<1>5. Closing(c) => Closing(c)' \/ socket'[c] = "closed"
  <2> SUFFICES ASSUME NEW e \in Connections, pc[e] = "closeOld", displaced[e] = c
               PROVE  Closing(c)' \/ socket'[c] = "closed"
    BY DEF Closing
  <2>1. CASE e = d
    BY <1>1, <1>2, <2>1, NobodyAssumption DEF ConnTypeOK
  <2>2. CASE e # d
    BY <1>1, <1>2, <2>2 DEF ConnTypeOK, Closing
  <2> QED BY <2>1, <2>2
<1> QED BY <1>1, <1>2, <1>3, <1>4, <1>5 DEF HubAgrees

LEMMA UnregisterHub ==
  ASSUME ConnInv, NEW d \in Connections, Unregister(d) \/ UnregisterSuperseded(d)
  PROVE  HubAgrees'
<1>1. /\ pc[d] = "unregister" /\ UNCHANGED <<socket, displaced>>
      /\ \E next \in {"offline", "done"} : pc' = [pc EXCEPT ![d] = next]
      /\ \/ hub[Identity[d]] = d /\ hub' = [hub EXCEPT ![Identity[d]] = NoConnection]
         \/ hub[Identity[d]] # d /\ hub' = hub
  BY DEF Unregister, UnregisterSuperseded, Step, IsCurrent
<1>2. ConnTypeOK /\ HubAgrees /\ Identity[d] \in Participants
  BY IdentityAssumption DEF ConnInv
<1> SUFFICES ASSUME NEW c \in Connections
             PROVE  /\ hub'[Identity[c]] = c => pc'[c] \in Registered
                    /\ pc'[c] \in Registered =>
                         hub'[Identity[c]] = c \/ socket'[c] = "closed" \/ Closing(c)'
  BY DEF HubAgrees
<1>3. CASE c = d
  BY <1>1, <1>2, <1>3, NobodyAssumption DEF ConnTypeOK, Registered
<1>4. CASE c # d
  <2>1. pc'[c] = pc[c]
    BY <1>1, <1>2, <1>4 DEF ConnTypeOK
  <2>2. Closing(c) => Closing(c)'
    BY <1>1, <1>2 DEF Closing, ConnTypeOK
  <2>3. hub'[Identity[c]] = c <=> hub[Identity[c]] = c
    BY <1>1, <1>2, <1>4, IdentityAssumption, NobodyAssumption DEF ConnTypeOK
  <2> QED BY <1>1, <1>2, <2>1, <2>2, <2>3 DEF HubAgrees
<1> QED BY <1>3, <1>4

\* The other steps, one group at a time.
LEMMA RestHub ==
  ASSUME ConnInv, NEW c \in Connections,
         \/ AcceptSocket(c) \/ RejectHello(c) \/ ReadHello(c) \/ SetOnline(c)
         \/ FirstHeartbeat(c) \/ UpsertParticipant(c) \/ Welcome(c) \/ AnnounceOnline(c)
         \/ ReadHeartbeat(c) \/ ReadMessage(c) \/ Dispatched(c) \/ ReadFails(c)
         \/ SetOffline(c) \/ AnnounceOffline(c)
  PROVE  HubAgrees'
<1>1. ConnTypeOK
  BY DEF ConnInv
<1>2. UNCHANGED <<hub, displaced>>
  BY DEF AcceptSocket, RejectHello, ReadHello, SetOnline, FirstHeartbeat, UpsertParticipant,
         Welcome, AnnounceOnline, ReadHeartbeat, ReadMessage, Dispatched, ReadFails, SetOffline,
         AnnounceOffline
<1>3. ClosedStays
  BY <1>1 DEF ClosedStays, ConnTypeOK, AcceptSocket, RejectHello, ReadHello, SetOnline,
         FirstHeartbeat, UpsertParticipant, Welcome, AnnounceOnline, ReadHeartbeat, ReadMessage,
         Dispatched, ReadFails, SetOffline, AnnounceOffline, Step, Closed
<1>4. \A d \in Connections : \/ pc'[d] = pc[d]
                             \/ {pc[d], pc'[d]} \subseteq Registered \ {"closeOld"}
                             \/ {pc[d], pc'[d]} \cap Registered = {}
  BY <1>1 DEF ConnTypeOK, AcceptSocket, RejectHello, ReadHello, SetOnline, FirstHeartbeat,
         UpsertParticipant, Welcome, AnnounceOnline, ReadHeartbeat, ReadMessage, Dispatched,
         ReadFails, SetOffline, AnnounceOffline, Step, Registered
<1> QED BY <1>2, <1>3, <1>4, HubUndisturbed

LEMMA OutsideHub ==
  ASSUME ConnInv,
         \/ \E c \in Connections : PeerCloses(c) \/ PeerVanishes(c) \/ WriteFails(c)
         \/ \E p \in Participants : Expire(p)
         \/ SweepStep
  PROVE  HubAgrees'
<1>1. UNCHANGED <<pc, hub, displaced>>
  BY DEF PeerCloses, PeerVanishes, WriteFails, OnlySocket, Expire, SweepStep, SweepStart,
         SweepCheck, SweepGet, SweepClose, SweepEnd, OnlySweep
<1>2. ClosedStays
  BY DEF ConnInv, ConnTypeOK, ClosedStays, PeerCloses, PeerVanishes, WriteFails, Expire, Closed,
         SweepStep, SweepStart, SweepCheck, SweepGet, SweepClose, SweepEnd
<1> QED BY <1>1, <1>2, HubUndisturbed

-----------------------------------------------------------------------------

\* SetOnline, Register, Unregister and SetOffline hand the answer for a
\* participant's presence on from one to the next.
LEMMA GoroutineGhosts ==
  ASSUME ConnInv, NEW c \in Connections,
         AcceptSocket(c) \/ Handshake(c) \/ ReadHeartbeat(c) \/ ReadMessage(c) \/ Disconnect(c)
  PROVE  NoGhosts'
<1> SUFFICES ASSUME NEW p \in Participants, p \in online'
             PROVE  \/ hub'[p] # NoConnection
                    \/ \E d \in Connections : Identity[d] = p
                         /\ pc'[d] \in {"heartbeat", "upsert", "register", "offline"}
  <2>1. online' \subseteq Participants
    BY GoroutineTypes DEF ConnInv, ConnTypeOK
  <2> QED BY <2>1 DEF NoGhosts
<1>1. ConnTypeOK /\ NoGhosts
  BY DEF ConnInv
<1>2. CASE SetOnline(c)
  BY <1>1, <1>2 DEF SetOnline, Step, ConnTypeOK, NoGhosts
<1>3. CASE Register(c)
  BY <1>1, <1>3, NobodyAssumption, IdentityAssumption DEF Register, Step, ConnTypeOK, NoGhosts
<1>4. CASE Unregister(c)
  BY <1>1, <1>4, IdentityAssumption DEF Unregister, Step, ConnTypeOK, NoGhosts
<1>5. CASE SetOffline(c)
  BY <1>1, <1>5 DEF SetOffline, Step, ConnTypeOK, NoGhosts, WithoutPresence
<1>6. CASE FirstHeartbeat(c) \/ UpsertParticipant(c)
  BY <1>1, <1>6 DEF FirstHeartbeat, UpsertParticipant, Step, ConnTypeOK, NoGhosts
<1>7. CASE \/ AcceptSocket(c) \/ RejectHello(c) \/ ReadHello(c) \/ CloseOld(c) \/ Welcome(c)
           \/ AnnounceOnline(c) \/ ReadHeartbeat(c) \/ ReadMessage(c) \/ Dispatched(c)
           \/ ReadFails(c) \/ UnregisterSuperseded(c) \/ AnnounceOffline(c)
  <2>1. UNCHANGED <<hub, online>>
    BY <1>7 DEF AcceptSocket, RejectHello, ReadHello, CloseOld, Welcome, AnnounceOnline,
       ReadHeartbeat, ReadMessage, Dispatched, ReadFails, UnregisterSuperseded, AnnounceOffline
  <2>2. \A d \in Connections : pc'[d] = pc[d]
          \/ pc[d] \notin {"heartbeat", "upsert", "register", "offline"}
    BY <1>1, <1>7 DEF AcceptSocket, RejectHello, ReadHello, CloseOld, Welcome, AnnounceOnline,
       ReadHeartbeat, ReadMessage, Dispatched, ReadFails, UnregisterSuperseded, AnnounceOffline,
       Step, ConnTypeOK
  <2> QED BY <1>1, <2>1, <2>2 DEF NoGhosts
<1> QED BY <1>2, <1>3, <1>4, <1>5, <1>6, <1>7 DEF Handshake, Disconnect

LEMMA OutsideGhosts ==
  ASSUME ConnInv,
         \/ \E c \in Connections : PeerCloses(c) \/ PeerVanishes(c) \/ WriteFails(c)
         \/ \E p \in Participants : Expire(p)
         \/ SweepStep
  PROVE  NoGhosts'
<1>1. UNCHANGED <<pc, hub, online>>
  BY DEF PeerCloses, PeerVanishes, WriteFails, OnlySocket, Expire, SweepStep, SweepStart,
         SweepCheck, SweepGet, SweepClose, SweepEnd, OnlySweep
<1> QED BY <1>1 DEF ConnInv, NoGhosts

-----------------------------------------------------------------------------

LEMMA NextConnInv == ConnInv /\ [ConnNext]_connVars => ConnInv'
<1> SUFFICES ASSUME ConnInv, [ConnNext]_connVars PROVE ConnInv'
  OBVIOUS
<1>1. ASSUME NEW c \in Connections,
             AcceptSocket(c) \/ Handshake(c) \/ ReadHeartbeat(c) \/ ReadMessage(c) \/ Disconnect(c)
      PROVE  ConnInv'
  <2>1. ConnTypeOK' /\ NoGhosts'
    BY <1>1, GoroutineTypes, GoroutineGhosts DEF ConnInv
  <2>2. HubAgrees'
    BY <1>1, RegisterHub, CloseOldHub, UnregisterHub, RestHub DEF Handshake, Disconnect
  <2> QED BY <2>1, <2>2 DEF ConnInv
<1>2. ASSUME \/ \E c \in Connections : PeerCloses(c) \/ PeerVanishes(c) \/ WriteFails(c)
             \/ \E p \in Participants : Expire(p)
             \/ SweepStep
      PROVE  ConnInv'
  BY <1>2, OtherTypes, OutsideHub, OutsideGhosts DEF ConnInv
<1>3. CASE UNCHANGED connVars
  BY <1>3 DEF connVars, ConnInv, ConnTypeOK, HubAgrees, NoGhosts, Closing
<1> QED BY <1>1, <1>2, <1>3 DEF ConnNext

\* The types hold, and the sweep only asks the hub about a participant and only
\* closes a connection: what it found is still there in its locals when it uses it.
THEOREM ConnTypesHold == ConnSpec => []ConnTypeOK
<1>1. ConnInv => ConnTypeOK
  BY DEF ConnInv
<1> QED BY <1>1, InitConnInv, NextConnInv, PTL DEF ConnSpec

\* One live connection per participant: of all the connections of a participant
\* that are being served, those that are not the hub's entry are closed or about
\* to be closed by the goroutine that replaced them.
THEOREM OneLiveConnection == ConnSpec => []HubAgrees
<1>1. ConnInv => HubAgrees
  BY DEF ConnInv
<1> QED BY <1>1, InitConnInv, NextConnInv, PTL DEF ConnSpec

\* Nobody is called online without a connection in the hub or a goroutine that
\* still answers for it.
THEOREM PresenceIsAnsweredFor == ConnSpec => []NoGhosts
<1>1. ConnInv => NoGhosts
  BY DEF ConnInv
<1> QED BY <1>1, InitConnInv, NextConnInv, PTL DEF ConnSpec

=============================================================================
