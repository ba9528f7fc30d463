------------------------------ MODULE LobbyProofs ------------------------------
(***************************************************************************)
(* Proofs about what the lobbies show, for any participants, connections   *)
(* and invitations: the steps are those of module Connections, and what a  *)
(* client is sent leaves the client itself off its list.                   *)
(***************************************************************************)
EXTENDS Lobby, ConnectionsProofs

-----------------------------------------------------------------------------
(* The steps of the connections go on underneath.                          *)

LEMMA StartsAreSettled ==
  ASSUME NEW settled \in SUBSET Connections, NEW rejected \in SUBSET Connections,
         \A c, d \in settled : Identity[c] = Identity[d] => c = d,
         StartWith(settled, rejected)
  PROVE  /\ ConnInv
         /\ \A c \in Connections : hub[Identity[c]] = c <=> c \in settled
         /\ \A p \in Participants : hub[p] # NoConnection =>
              hub[p] \in settled /\ Identity[hub[p]] = p
<1>1. \A c \in Connections : Identity[c] \in Participants
  BY IdentityAssumption
<1>2. ASSUME NEW p \in Participants
      PROVE  \/ hub[p] = NoConnection /\ \A c \in settled : Identity[c] # p
             \/ hub[p] \in settled /\ Identity[hub[p]] = p
  <2>1. CASE \E c \in settled : Identity[c] = p
    <3>1. hub[p] = CHOOSE c \in settled : Identity[c] = p
      BY <2>1 DEF StartWith
    <3> QED BY <2>1, <3>1
  <2>2. CASE \A c \in settled : Identity[c] # p
    BY <2>2 DEF StartWith
  <2> QED BY <2>1, <2>2
<1>3. \A c \in Connections : hub[Identity[c]] = c <=> c \in settled
  BY <1>1, <1>2, NobodyAssumption
<1>4. \A p \in Participants : hub[p] # NoConnection => hub[p] \in settled /\ Identity[hub[p]] = p
  BY <1>2
<1>5. /\ pc = [c \in Connections |-> IF c \in settled THEN "read"
                                     ELSE IF c \in rejected THEN "done" ELSE "off"]
      /\ socket = [c \in Connections |-> IF c \in settled THEN "open"
                                         ELSE IF c \in rejected THEN "closed" ELSE "none"]
      /\ online = {Identity[c] : c \in settled}
      /\ displaced = [c \in Connections |-> NoConnection] /\ sweep = SweepIdle
      /\ hub \in [Participants -> Connections \cup {NoConnection}]
      /\ heartbeats \in [Participants -> {"none", "fresh", "stale"}]
  <2>1. \A p \in Participants : hub[p] \in Connections \cup {NoConnection}
    BY <1>2
  <2>2. hub \in [Participants -> Connections \cup {NoConnection}]
    BY <2>1 DEF StartWith
  <2> QED BY <2>2 DEF StartWith
<1>6. ConnTypeOK
  <2>1. sweep.pc \notin {"get", "close"}
    BY <1>5 DEF SweepIdle
  <2>2. online \subseteq Participants
    BY <1>1, <1>5
  <2> QED BY <1>5, <2>1, <2>2, SweepIdleType DEF ConnTypeOK, Pcs, Sockets
<1>7. HubAgrees
  BY <1>3, <1>5 DEF HubAgrees, Registered
<1>8. NoGhosts
  <2>1. ASSUME NEW c \in settled
        PROVE  hub[Identity[c]] # NoConnection
    BY <1>3, NobodyAssumption
  <2> QED BY <1>5, <2>1 DEF NoGhosts
<1> QED BY <1>3, <1>4, <1>6, <1>7, <1>8 DEF ConnInv

\* Every step of the lobby is one of the connections, or leaves them alone.
LEMMA LobbyStepsConnect == LobbyNext => [ConnNext]_connVars
<1>1. ASSUME NEW c \in Connections, Plain(c) \/ Closes(c)
      PROVE  ConnNext
  BY <1>1 DEF Plain, Closes, ConnNext, Handshake, Disconnect
<1>2. ASSUME NEW c \in Connections,
             \/ SendWelcome(c) \/ SnapshotOnline(c) \/ (\E p \in Participants : SnapshotCheck(c, p))
             \/ SnapshotInvitations(c) \/ HandleRefused(c)
             \/ \E i \in InvitationIds : HandleMove(c, i)
      PROVE  UNCHANGED connVars
  BY <1>2 DEF SendWelcome, SnapshotOnline, SnapshotCheck, SnapshotInvitations, HandleRefused,
              HandleMove
<1>3. ASSUME NEW c \in Connections, SendLobby(c) \/ Greet(c) \/ BidFarewell(c) \/ SendNext(c)
      PROVE  [ConnNext]_connVars
  BY <1>3 DEF SendLobby, Greet, BidFarewell, SendNext, ConnNext, Handshake, Disconnect
<1>4. ASSUME NEW c \in Connections,
             \/ HandleAccept(c) \/ HandleDecline(c)
             \/ \E i \in InvitationIds : HandleInviteCreate(c, i) \/ HandleLastMove(c, i)
      PROVE  ConnNext
  BY <1>4 DEF HandleAccept, HandleDecline, HandleInviteCreate, HandleLastMove, Read, ConnNext
<1>5. ASSUME NEW c \in Connections, ClientConnects(c)
      PROVE  ConnNext
  BY <1>5 DEF ClientConnects, ConnNext
<1>6. ASSUME NEW p \in Participants, ClientStep(p)
      PROVE  UNCHANGED connVars
  BY <1>6 DEF ClientStep, ClientReads, ClientInvites, ClientResponds, Ask
<1> QED BY <1>1, <1>2, <1>3, <1>4, <1>5, <1>6 DEF LobbyNext, ServerStep

-----------------------------------------------------------------------------
(* Types.                                                                  *)

\* What each kind of message and of request carries.
LEMMA MessageKinds ==
  ASSUME NEW m \in Messages
  PROVE  /\ m.type \in {"welcome", "lobby_state", "presence_update", "invite", "invite_canceled"}
         /\ m.type = "welcome" => m = Welcomed
         /\ m.type = "lobby_state" =>
              m.online \in SUBSET Participants /\ m.invitations \in SUBSET InvitationIds
         /\ m.type = "presence_update" => m.participant \in Participants /\ m.online \in BOOLEAN
         /\ m.type \in {"invite", "invite_canceled"} => m.id \in InvitationIds
BY DEF Messages, Welcomed, LobbyState, PresenceUpdate, Invited, InviteCanceled

LEMMA RequestKinds ==
  ASSUME NEW r \in Requests
  PROVE  /\ r.type = "invite_create" => r.to \in Participants
         /\ r.type = "invite_respond" => r.id \in InvitationIds /\ r.accept \in BOOLEAN
BY DEF Requests, InviteCreate, InviteRespond

\* What handlers are left to send: no welcome, and no lobby.
Announcements == {s \in Sends : s.message.type \notin {"welcome", "lobby_state"}}

StoredOK ==
  /\ invitation \in [InvitationIds -> Invitation \cup {NoInvitation}]
  /\ \A ids \in {pending, active, moved, overtaken} : ids \subseteq InvitationIds
  /\ pending \cap (active \cup moved) = {}
  /\ \A i \in pending \cup active \cup moved : invitation[i] # NoInvitation
  /\ inSession \in [Participants -> InvitationIds \cup {NoInvitation}]

SendingOK ==
  /\ snapshot \in [Connections -> Snapshots]
  /\ todo \in [Connections -> Seq(Announcements)]
  /\ inbox \in [Connections -> Seq(Messages)]

ClientsOK ==
  /\ request \in [Connections -> Requests \cup {NoRequest}]
  /\ using \in [Participants -> Connections \cup {NoConnection}]
  /\ \A p \in Participants : using[p] # NoConnection => Identity[using[p]] = p
  /\ knowsSelf \subseteq Participants
  /\ list \in [Participants -> SUBSET Participants]
  /\ shown \in [Participants -> SUBSET InvitationIds]
  /\ overlapped \in BOOLEAN

LobbyTypeInv == ConnInv /\ StoredOK /\ SendingOK /\ ClientsOK

LEMMA LobbyTypesInclude == LobbyTypeInv => LobbyTypeOK
<1> SUFFICES ASSUME LobbyTypeInv PROVE LobbyTypeOK
  OBVIOUS
<1>1. todo \in [Connections -> Seq(Sends)]
  <2>1. Announcements \subseteq Sends
    BY DEF Announcements
  <2>2. Seq(Announcements) \subseteq Seq(Sends)
    BY <2>1
  <2> QED BY <2>2 DEF LobbyTypeInv, SendingOK
<1> QED BY <1>1 DEF LobbyTypeInv, ConnInv, StoredOK, SendingOK, ClientsOK, LobbyTypeOK

LEMMA AskedTypes ==
  ASSUME LobbyTypeInv, NEW c \in Connections
  PROVE  /\ Asked(c, "invite_create") => request[c].to \in Participants
         /\ Asked(c, "invite_respond") => request[c].id \in InvitationIds
BY RequestKinds DEF LobbyTypeInv, ClientsOK, Asked

\* What the store keeps.
LEMMA StoredStays ==
  ASSUME LobbyTypeInv, LobbyNext
  PROVE  StoredOK'
<1>1. StoredOK /\ \A c \in Connections : Identity[c] \in Participants
  BY IdentityAssumption DEF LobbyTypeInv
<1>2. CASE UNCHANGED <<stored, overtaken>>
  BY <1>1, <1>2 DEF stored, StoredOK
<1>3. ASSUME NEW c \in Connections, NEW i \in InvitationIds, HandleInviteCreate(c, i)
      PROVE  StoredOK'
  <2>1. request[c].to \in Participants
    BY <1>3, AskedTypes DEF HandleInviteCreate
  <2>2. PICK new \in Invitation : invitation' = [invitation EXCEPT ![i] = new]
    BY <1>1, <1>3, <2>1 DEF HandleInviteCreate, Invitation
  <2>3. i \notin active \cup moved
    BY <1>1, <1>3 DEF HandleInviteCreate, StoredOK
  <2>4. /\ pending' = pending \cup {i} /\ UNCHANGED <<active, moved, inSession>>
        /\ overtaken' \subseteq overtaken \cup {i}
    BY <1>3 DEF HandleInviteCreate, OvertakenIf
  <2> QED BY <1>1, <2>2, <2>3, <2>4, NotAnInvitation DEF StoredOK
<1>4. ASSUME NEW c \in Connections, HandleAccept(c)
      PROVE  StoredOK'
  <2>1. PICK i \in InvitationIds : i = request[c].id /\ Answer(c, i)
    BY <1>4, AskedTypes DEF HandleAccept
  <2>2. /\ i \in pending /\ pending' = pending \ {i} /\ active' = active \cup {i}
        /\ overtaken' \subseteq overtaken \cup {i}
        /\ inSession' = [p \in Participants |-> IF Involves(i, p) THEN i ELSE inSession[p]]
        /\ UNCHANGED <<invitation, moved>>
    BY <1>4, <2>1 DEF HandleAccept, Answer, MayAnswer, OvertakenIf, Indexed
  <2>3. inSession' \in [Participants -> InvitationIds \cup {NoInvitation}]
    BY <1>1, <2>2 DEF StoredOK
  <2>4. /\ \A ids \in {pending', active', moved', overtaken'} : ids \subseteq InvitationIds
        /\ pending' \cap (active' \cup moved') = {}
        /\ \A j \in pending' \cup active' \cup moved' : invitation'[j] # NoInvitation
    BY <1>1, <2>2 DEF StoredOK
  <2> QED BY <1>1, <2>2, <2>3, <2>4 DEF StoredOK
<1>5. ASSUME NEW c \in Connections, HandleDecline(c)
      PROVE  StoredOK'
  <2>1. PICK i \in InvitationIds : i = request[c].id /\ Answer(c, i)
    BY <1>5, AskedTypes DEF HandleDecline
  <2>2. /\ pending' = pending \ {i} /\ overtaken' \subseteq overtaken \cup {i}
        /\ UNCHANGED <<invitation, active, moved, inSession>>
    BY <1>5, <2>1 DEF HandleDecline, Answer, MayAnswer, OvertakenIf
  <2> QED BY <1>1, <2>2 DEF StoredOK
<1>6. ASSUME NEW c \in Connections, NEW i \in InvitationIds, HandleMove(c, i)
      PROVE  StoredOK'
  <2>1. /\ i \in active /\ moved' \subseteq moved \cup {i}
        /\ UNCHANGED <<invitation, pending, active, overtaken>>
        /\ inSession' = [p \in Participants |-> IF Involves(i, p) THEN i ELSE inSession[p]]
    BY <1>6 DEF HandleMove, Indexed, history
  <2>2. inSession' \in [Participants -> InvitationIds \cup {NoInvitation}]
    BY <1>1, <2>1 DEF StoredOK
  <2> QED BY <1>1, <2>1, <2>2 DEF StoredOK
<1>7. ASSUME NEW c \in Connections, NEW i \in InvitationIds, HandleLastMove(c, i)
      PROVE  StoredOK'
  <2>1. /\ active' = active \ {i} /\ UNCHANGED <<invitation, pending, moved, overtaken>>
        /\ inSession' = [p \in Participants |-> IF Involves(i, p) THEN NoInvitation ELSE inSession[p]]
    BY <1>7 DEF HandleLastMove
  <2>2. inSession' \in [Participants -> InvitationIds \cup {NoInvitation}]
    BY <1>1, <2>1 DEF StoredOK
  <2> QED BY <1>1, <2>1, <2>2 DEF StoredOK
<1>8. ASSUME NEW p \in Participants, NEW i \in InvitationIds, NEW accept, ClientResponds(p, i, accept)
      PROVE  StoredOK'
  BY <1>1, <1>8 DEF ClientResponds, Ask, OvertakenIf, StoredOK, stored
<1>9. ASSUME NEW c \in Connections,
             \/ Plain(c) \/ Closes(c)
             \/ SendWelcome(c) \/ SnapshotOnline(c) \/ (\E p \in Participants : SnapshotCheck(c, p))
             \/ SnapshotInvitations(c) \/ SendLobby(c) \/ Greet(c) \/ BidFarewell(c) \/ SendNext(c)
             \/ HandleRefused(c) \/ ClientConnects(c)
      PROVE  UNCHANGED <<stored, overtaken>>
  BY <1>9 DEF Plain, Closes, SendWelcome, SnapshotOnline, SnapshotCheck, SnapshotInvitations,
     SendLobby, Greet, BidFarewell, SendNext, HandleRefused, ClientConnects, lobbyVars, history
<1>10. ASSUME NEW p \in Participants, ClientReads(p) \/ \E q \in Participants : ClientInvites(p, q)
       PROVE  UNCHANGED <<stored, overtaken>>
  BY <1>10 DEF ClientReads, ClientInvites, Ask, history
<1> QED BY <1>2, <1>3, <1>4, <1>5, <1>6, <1>7, <1>8, <1>9, <1>10
        DEF LobbyNext, ServerStep, ClientStep

\* What is sent.
LEMMA AnnouncementTypes ==
  ASSUME NEW i \in InvitationIds, NEW p \in Participants, NEW b \in BOOLEAN
  PROVE  /\ ToSelf(Invited(i)) \in Announcements
         /\ ToOne(p, Invited(i)) \in Announcements
         /\ ToOne(p, InviteCanceled(i)) \in Announcements
         /\ ToAll(PresenceUpdate(p, b)) \in Announcements
         /\ IfConnected(p) \in Announcements
<1>1. /\ Invited(i) \in Messages /\ InviteCanceled(i) \in Messages
      /\ \A a \in BOOLEAN : PresenceUpdate(p, a) \in Messages
  BY DEF Messages
<1>2. /\ Invited(i).type = "invite" /\ InviteCanceled(i).type = "invite_canceled"
      /\ \A a \in BOOLEAN : PresenceUpdate(p, a).type = "presence_update"
  BY DEF Invited, InviteCanceled, PresenceUpdate
<1> QED BY <1>1, <1>2 DEF ToSelf, ToOne, ToAll, IfConnected, Announcements, Sends

LEMMA EnqueuedType ==
  ASSUME inbox \in [Connections -> Seq(Messages)], NEW cs, NEW m \in Messages
  PROVE  Enqueued(cs, m) \in [Connections -> Seq(Messages)]
<1>1. ASSUME NEW c \in Connections
      PROVE  inbox[c] \in Seq(Messages) /\ Append(inbox[c], m) \in Seq(Messages)
  OBVIOUS
<1> QED BY <1>1 DEF Enqueued

\* What a handler still has to send after its next message: the rest, or, if
\* that asks for it, a broadcast and the rest.
LEMMA SendNextTypes ==
  ASSUME LobbyTypeInv, NEW c \in Connections, SendNext(c)
  PROVE  /\ todo' \in [Connections -> Seq(Announcements)]
         /\ \E m \in Messages :
              /\ m.type \notin {"welcome", "lobby_state"}
              /\ \E cs : inbox' = Enqueued(cs, m) \/ inbox' = inbox
<1>1. todo[c] \in Seq(Announcements) /\ todo[c] # <<>>
  BY DEF LobbyTypeInv, SendingOK, SendNext
<1>2. PICK s \in Announcements : s = Head(todo[c])
  BY <1>1
<1>3. Tail(todo[c]) \in Seq(Announcements)
  BY <1>1
<1>4. ToAll(s.message) \in Announcements /\ s.message \in Messages
  BY <1>2 DEF ToAll, Announcements, Sends
<1>5. PICK rest \in Seq(Announcements) : todo' = [todo EXCEPT ![c] = rest]
  <2>1. <<ToAll(s.message)>> \o Tail(todo[c]) \in Seq(Announcements)
    BY <1>3, <1>4
  <2> QED BY <1>2, <1>3, <2>1 DEF SendNext
<1>6. \E cs : inbox' = Enqueued(cs, s.message) \/ inbox' = inbox
  BY <1>2 DEF SendNext
<1> QED BY <1>2, <1>4, <1>5, <1>6 DEF LobbyTypeInv, SendingOK, Announcements

LEMMA SnapshotChanges ==
  ASSUME LobbyTypeInv, NEW c \in Connections, NEW new \in Snapshots,
         snapshot' = [snapshot EXCEPT ![c] = new]
  PROVE  /\ snapshot' \in [Connections -> Snapshots] /\ snapshot'[c] = new
         /\ \A d \in Connections \ {c} : snapshot'[d] = snapshot[d]
BY DEF LobbyTypeInv, SendingOK

\* The snapshot of a handler never has the handler's own participant in it
\* unless it had before.
LEMMA SnapshotSteps ==
  ASSUME LobbyTypeInv, NEW c \in Connections,
         \/ SendWelcome(c) \/ SnapshotOnline(c) \/ (\E p \in Participants : SnapshotCheck(c, p))
         \/ SnapshotInvitations(c) \/ SendLobby(c)
  PROVE  LET s == snapshot[c]
             t == snapshot'[c]
         IN  /\ snapshot' \in [Connections -> Snapshots]
             /\ \A d \in Connections \ {c} : snapshot'[d] = snapshot[d]
             /\ t.at # "welcome" => (s.at # "welcome" \/ SendWelcome(c))
             /\ SendLobby(c) => t.at = "welcome"
             /\ Identity[c] \notin s.left \cup s.online => Identity[c] \notin t.left \cup t.online
<1>1. snapshot[c] \in Snapshots /\ NoSnapshot \in Snapshots
  BY DEF LobbyTypeInv, SendingOK, Snapshots, NoSnapshot
<1>2. CASE SendWelcome(c)
  <2>1. [snapshot[c] EXCEPT !.at = "online"] \in Snapshots
    BY <1>1 DEF Snapshots
  <2>2. snapshot' = [snapshot EXCEPT ![c] = [snapshot[c] EXCEPT !.at = "online"]]
    BY <1>2 DEF SendWelcome, LobbyTypeInv, SendingOK
  <2>3. ~SendLobby(c)
    BY <1>2 DEF SendLobby, SendWelcome
  <2> QED BY <1>1, <1>2, <2>1, <2>2, <2>3, SnapshotChanges DEF Snapshots
<1>3. CASE SnapshotOnline(c)
  <2> DEFINE new == [snapshot[c] EXCEPT !.at = "check", !.left = Others(online, Identity[c])]
  <2>1. Others(online, Identity[c]) \in SUBSET Participants /\ Identity[c] \notin Others(online, Identity[c])
    BY DEF Others, LobbyTypeInv, ConnInv, ConnTypeOK
  <2>2. new \in Snapshots /\ new.left = Others(online, Identity[c]) /\ new.online = snapshot[c].online
    BY <1>1, <2>1 DEF Snapshots
  <2>3. snapshot' = [snapshot EXCEPT ![c] = new]
    BY <1>3 DEF SnapshotOnline, LobbyTypeInv, SendingOK
  <2>4. ~SendLobby(c) /\ snapshot[c].at # "welcome"
    BY <1>3 DEF SendLobby, SnapshotOnline
  <2> HIDE DEF new
  <2> QED BY <2>1, <2>2, <2>3, <2>4, SnapshotChanges
<1>4. ASSUME NEW p \in Participants, SnapshotCheck(c, p)
      PROVE  LET s == snapshot[c]
                 t == snapshot'[c]
             IN  /\ snapshot' \in [Connections -> Snapshots]
                 /\ \A d \in Connections \ {c} : snapshot'[d] = snapshot[d]
                 /\ s.at = "check"
                 /\ Identity[c] \notin s.left \cup s.online =>
                      Identity[c] \notin t.left \cup t.online
  <2> DEFINE found == IF inSession[p] = NoInvitation THEN snapshot[c].online \cup {p}
                      ELSE snapshot[c].online
             new == [snapshot[c] EXCEPT !.left = snapshot[c].left \ {p}, !.online = found]
  <2>1. found \in SUBSET Participants /\ p \in snapshot[c].left
    BY <1>1, <1>4 DEF Snapshots, SnapshotCheck
  <2>2. new \in Snapshots /\ new.left = snapshot[c].left \ {p} /\ new.online = found
    BY <1>1, <2>1 DEF Snapshots
  <2>3. snapshot' = [snapshot EXCEPT ![c] = new] /\ snapshot[c].at = "check"
    BY <1>4 DEF SnapshotCheck, LobbyTypeInv, SendingOK
  <2> HIDE DEF new
  <2> QED BY <2>1, <2>2, <2>3, SnapshotChanges
<1>5. CASE SnapshotInvitations(c)
  <2> DEFINE new == [snapshot[c] EXCEPT !.at = "send", !.invitations = InvitationsOf(Identity[c])]
  <2>1. InvitationsOf(Identity[c]) \in SUBSET InvitationIds
    BY DEF InvitationsOf, LobbyTypeInv, StoredOK
  <2>2. new \in Snapshots /\ new.left = snapshot[c].left /\ new.online = snapshot[c].online
    BY <1>1, <2>1 DEF Snapshots
  <2>3. snapshot' = [snapshot EXCEPT ![c] = new] /\ ~SendLobby(c) /\ snapshot[c].at # "welcome"
    BY <1>5 DEF SnapshotInvitations, SendLobby, LobbyTypeInv, SendingOK
  <2> HIDE DEF new
  <2> QED BY <2>2, <2>3, SnapshotChanges
<1>6. CASE SendLobby(c)
  <2>1. snapshot' = [snapshot EXCEPT ![c] = NoSnapshot]
    BY <1>6 DEF SendLobby
  <2>2. NoSnapshot.at = "welcome" /\ NoSnapshot.left = {} /\ NoSnapshot.online = {}
    BY DEF NoSnapshot
  <2> HIDE DEF NoSnapshot
  <2> QED BY <1>1, <2>1, <2>2, SnapshotChanges
<1>7. ASSUME NEW p \in Participants, SnapshotCheck(c, p)
      PROVE  ~SendLobby(c)
  BY <1>7 DEF SnapshotCheck, SendLobby
<1> QED BY <1>2, <1>3, <1>4, <1>5, <1>6, <1>7

\* A handler that has read a request announces something, or nothing.
LEMMA ReadTypes ==
  ASSUME LobbyTypeInv, NEW c \in Connections, NEW sends \in Seq(Announcements), Read(c, sends)
  PROVE  SendingOK' /\ UNCHANGED <<snapshot, inbox>>
BY DEF Read, LobbyTypeInv, SendingOK

LEMMA PairType == ASSUME NEW S, NEW a \in S, NEW b \in S PROVE <<a, b>> \in Seq(S)
OBVIOUS

LEMMA HandlerSends ==
  ASSUME LobbyTypeInv, NEW c \in Connections,
         \/ HandleAccept(c) \/ HandleDecline(c)
         \/ \E i \in InvitationIds : HandleInviteCreate(c, i) \/ HandleLastMove(c, i)
  PROVE  SendingOK' /\ UNCHANGED <<snapshot, inbox>>
<1>1. \A i \in InvitationIds : invitation[i] # NoInvitation => invitation[i] \in Invitation
  BY DEF LobbyTypeInv, StoredOK
<1>2. ASSUME NEW i \in InvitationIds, invitation[i] # NoInvitation
      PROVE  /\ Unavailable(i) \in Seq(Announcements) /\ Available(i) \in Seq(Announcements)
             /\ Canceled(i) \in Seq(Announcements)
  <2>1. invitation[i].from \in Participants /\ invitation[i].to \in Participants
    BY <1>1, <1>2 DEF Invitation
  <2>2. /\ ToAll(PresenceUpdate(invitation[i].from, FALSE)) \in Announcements
        /\ ToAll(PresenceUpdate(invitation[i].to, FALSE)) \in Announcements
        /\ IfConnected(invitation[i].from) \in Announcements
        /\ IfConnected(invitation[i].to) \in Announcements
        /\ ToOne(invitation[i].from, InviteCanceled(i)) \in Announcements
    BY <2>1, AnnouncementTypes
  <2>3. Unavailable(i) \in Seq(Announcements)
    BY <2>2, PairType, Zenon DEF Unavailable
  <2>4. Available(i) \in Seq(Announcements)
    BY <2>2, PairType, Zenon DEF Available
  <2>5. Canceled(i) \in Seq(Announcements)
    BY <2>2 DEF Canceled
  <2> QED BY <2>3, <2>4, <2>5
<1>3. \A i \in pending \cup active : i \in InvitationIds /\ invitation[i] # NoInvitation
  BY DEF LobbyTypeInv, StoredOK
<1>4. CASE HandleAccept(c)
  BY <1>2, <1>3, <1>4, ReadTypes DEF HandleAccept, Answer, MayAnswer
<1>5. CASE HandleDecline(c)
  BY <1>2, <1>3, <1>5, ReadTypes DEF HandleDecline, Answer, MayAnswer
<1>6. ASSUME NEW i \in InvitationIds, HandleInviteCreate(c, i)
      PROVE  SendingOK' /\ UNCHANGED <<snapshot, inbox>>
  <2>1. request[c].to \in Participants
    BY <1>6, AskedTypes DEF HandleInviteCreate
  <2>2. /\ ToSelf(Invited(i)) \in Announcements
        /\ ToOne(request[c].to, Invited(i)) \in Announcements
    BY <2>1, AnnouncementTypes
  <2>3. <<ToSelf(Invited(i)), ToOne(request[c].to, Invited(i))>> \in Seq(Announcements)
    BY <2>2
  <2> QED BY <1>6, <2>3, ReadTypes DEF HandleInviteCreate
<1>7. ASSUME NEW i \in InvitationIds, HandleLastMove(c, i)
      PROVE  SendingOK' /\ UNCHANGED <<snapshot, inbox>>
  BY <1>2, <1>3, <1>7, ReadTypes DEF HandleLastMove
<1> QED BY <1>4, <1>5, <1>6, <1>7

LEMMA PresenceTypes ==
  ASSUME NEW p \in Participants, NEW b \in BOOLEAN
  PROVE  PresenceUpdate(p, b) \in Messages /\ PresenceUpdate(p, b).type = "presence_update"
BY DEF Messages, PresenceUpdate

LEMMA WelcomeTypes ==
  /\ Welcomed \in Messages
  /\ \A ps \in SUBSET Participants, is \in SUBSET InvitationIds :
       /\ LobbyState(ps, is) \in Messages
       /\ LobbyState(ps, is).type = "lobby_state" /\ LobbyState(ps, is).online = ps
<1>1. Welcomed \in Messages
  BY DEF Messages
<1>2. ASSUME NEW ps \in SUBSET Participants, NEW is \in SUBSET InvitationIds
      PROVE  LobbyState(ps, is) \in Messages
  BY DEF Messages
<1>3. \A ps, is : LobbyState(ps, is).type = "lobby_state" /\ LobbyState(ps, is).online = ps
  BY DEF LobbyState
<1> QED BY <1>1, <1>2, <1>3

LEMMA SendingStays ==
  ASSUME LobbyTypeInv, LobbyNext
  PROVE  SendingOK'
<1>1. SendingOK /\ \A c \in Connections : Identity[c] \in Participants
  BY IdentityAssumption DEF LobbyTypeInv
<1>2. ASSUME UNCHANGED sending PROVE SendingOK'
  BY <1>1, <1>2 DEF sending, SendingOK
<1>3. ASSUME NEW c \in Connections, Plain(c) \/ HandleRefused(c) \/ ClientConnects(c)
      PROVE  UNCHANGED sending
  BY <1>3 DEF Plain, HandleRefused, ClientConnects, lobbyVars
<1>4. ASSUME NEW c \in Connections, Closes(c)
      PROVE  SendingOK'
  <2>1. <<>> \in Seq(Messages)
    OBVIOUS
  <2>2. inbox' \in [Connections -> Seq(Messages)]
    BY <1>1, <1>4, <2>1 DEF Closes, Lost, SendingOK
  <2> QED BY <1>1, <1>4, <2>2 DEF Closes, SendingOK
<1>5. ASSUME NEW c \in Connections,
             \/ SendWelcome(c) \/ SnapshotOnline(c) \/ (\E p \in Participants : SnapshotCheck(c, p))
             \/ SnapshotInvitations(c) \/ SendLobby(c)
      PROVE  SendingOK'
  <2>1. UNCHANGED todo /\ snapshot' \in [Connections -> Snapshots]
    BY <1>5, SnapshotSteps
       DEF SendWelcome, SnapshotOnline, SnapshotCheck, SnapshotInvitations, SendLobby
  <2>2. LobbyState(snapshot[c].online, snapshot[c].invitations) \in Messages
    BY <1>1, WelcomeTypes DEF SendingOK, Snapshots
  <2>3. inbox' \in [Connections -> Seq(Messages)]
    <3>1. CASE SendWelcome(c)
      BY <1>1, <3>1, WelcomeTypes, EnqueuedType DEF SendWelcome, SendingOK
    <3>2. CASE SendLobby(c)
      BY <1>1, <3>2, <2>2, EnqueuedType DEF SendLobby, SendingOK
    <3>3. CASE SnapshotOnline(c) \/ (\E p \in Participants : SnapshotCheck(c, p))
               \/ SnapshotInvitations(c)
      BY <1>1, <3>3 DEF SnapshotOnline, SnapshotCheck, SnapshotInvitations, SendingOK
    <3> QED BY <1>5, <3>1, <3>2, <3>3
  <2> QED BY <1>1, <2>1, <2>3 DEF SendingOK
<1>6. ASSUME NEW c \in Connections, Greet(c) \/ BidFarewell(c)
      PROVE  SendingOK'
  <2>1. PICK m \in Messages : Broadcast(m) /\ UNCHANGED <<snapshot, todo>>
    BY <1>1, <1>6, PresenceTypes DEF Greet, BidFarewell
  <2>2. inbox' \in [Connections -> Seq(Messages)]
    BY <1>1, <2>1, EnqueuedType DEF Broadcast, SendingOK
  <2> QED BY <1>1, <2>1, <2>2 DEF SendingOK
<1>7. ASSUME NEW c \in Connections, SendNext(c)
      PROVE  SendingOK'
  BY <1>1, <1>7, SendNextTypes, EnqueuedType DEF SendNext, SendingOK
<1>8. ASSUME NEW c \in Connections, NEW i \in InvitationIds, HandleMove(c, i)
      PROVE  UNCHANGED sending
  BY <1>8 DEF HandleMove
<1>9. ASSUME NEW p \in Participants, ClientStep(p)
      PROVE  SendingOK'
  <2>1. CASE ClientReads(p)
    <3>1. using[p] \in Connections
      BY <2>1 DEF ClientReads, Live, LobbyTypeInv, ClientsOK
    <3>2. Tail(inbox[using[p]]) \in Seq(Messages)
      BY <1>1, <2>1, <3>1 DEF ClientReads, SendingOK
    <3> QED BY <1>1, <2>1, <3>2 DEF ClientReads, SendingOK
  <2>2. CASE ~ClientReads(p)
    BY <1>1, <1>9, <2>2 DEF ClientStep, ClientInvites, ClientResponds, Ask, sending, SendingOK
  <2> QED BY <2>1, <2>2
<1> QED BY <1>2, <1>3, <1>4, <1>5, <1>6, <1>7, <1>8, <1>9, HandlerSends DEF LobbyNext, ServerStep

\* What the clients keep.
LEMMA ClientsStay ==
  ASSUME LobbyTypeInv, LobbyNext
  PROVE  ClientsOK'
<1>1. ClientsOK /\ \A c \in Connections : Identity[c] \in Participants
  BY IdentityAssumption DEF LobbyTypeInv
<1>2. ASSUME UNCHANGED <<client, overlapped>> PROVE ClientsOK'
  BY <1>1, <1>2 DEF client, ClientsOK
<1>3. ASSUME NEW c \in Connections, ServerStep(c)
      PROVE  ClientsOK'
  <2>1. CASE /\ ~HandleRefused(c) /\ ~HandleAccept(c) /\ ~HandleDecline(c)
             /\ \A i \in InvitationIds : ~HandleInviteCreate(c, i) /\ ~HandleLastMove(c, i)
    <3>1. UNCHANGED <<client, overlapped>>
      BY <1>3, <2>1 DEF ServerStep, Plain, Closes, SendWelcome, SnapshotOnline, SnapshotCheck,
         SnapshotInvitations, SendLobby, Greet, BidFarewell, SendNext, HandleMove, lobbyVars,
         history
    <3> QED BY <1>2, <3>1
  <2>2. CASE \/ HandleRefused(c) \/ HandleAccept(c) \/ HandleDecline(c)
             \/ \E i \in InvitationIds : HandleInviteCreate(c, i) \/ HandleLastMove(c, i)
    <3>1. request' = [request EXCEPT ![c] = NoRequest]
          /\ UNCHANGED <<using, knowsSelf, list, shown, overlapped>>
      BY <2>2 DEF HandleRefused, HandleAccept, HandleDecline, HandleInviteCreate, HandleLastMove,
                  Read, history
    <3> QED BY <1>1, <3>1 DEF ClientsOK
  <2> QED BY <2>1, <2>2
<1>4. ASSUME NEW c \in Connections, ClientConnects(c)
      PROVE  ClientsOK'
  BY <1>1, <1>4, NobodyAssumption DEF ClientConnects, ClientsOK
<1>5. ASSUME NEW p \in Participants, ClientReads(p)
      PROVE  ClientsOK'
  <2>1. using[p] \in Connections /\ inbox[using[p]] \in Seq(Messages) /\ inbox[using[p]] # <<>>
    BY <1>5 DEF ClientReads, Live, LobbyTypeInv, ClientsOK, SendingOK
  <2>2. PICK m \in Messages : m = Head(inbox[using[p]])
    BY <2>1
  <2>3. /\ list' = [list EXCEPT ![p] = ListAfter(p, m)]
        /\ shown' = [shown EXCEPT ![p] = ShownAfter(p, m)]
        /\ knowsSelf' \subseteq knowsSelf \cup {p} /\ UNCHANGED <<request, using, overlapped>>
    BY <1>5, <2>2 DEF ClientReads, history
  <2>4. list[p] \in SUBSET Participants /\ shown[p] \in SUBSET InvitationIds
    BY <1>1 DEF ClientsOK
  <2>5. ListAfter(p, m) \in SUBSET Participants
    BY <2>4, MessageKinds DEF ListAfter
  <2>6. ShownAfter(p, m) \in SUBSET InvitationIds
    BY <2>4, MessageKinds DEF ShownAfter
  <2>7. list' \in [Participants -> SUBSET Participants]
    BY <1>1, <2>3, <2>5 DEF ClientsOK
  <2>8. shown' \in [Participants -> SUBSET InvitationIds]
    BY <1>1, <2>3, <2>6 DEF ClientsOK
  <2> QED BY <1>1, <2>3, <2>7, <2>8 DEF ClientsOK
<1>6. ASSUME NEW p \in Participants, NEW r \in Requests, Ask(p, r),
             shown' \in [Participants -> SUBSET InvitationIds]
      PROVE  ClientsOK'
  BY <1>1, <1>6 DEF Ask, ClientsOK
<1>7. ASSUME NEW p \in Participants, NEW q \in Participants, ClientInvites(p, q)
      PROVE  ClientsOK'
  <2>1. InviteCreate(q) \in Requests
    BY DEF Requests
  <2> QED BY <1>1, <1>6, <1>7, <2>1 DEF ClientInvites, ClientsOK
<1>8. ASSUME NEW p \in Participants, NEW i \in InvitationIds, NEW accept \in BOOLEAN,
             ClientResponds(p, i, accept)
      PROVE  ClientsOK'
  <2>1. InviteRespond(i, accept) \in Requests
    BY DEF Requests
  <2>2. shown' \in [Participants -> SUBSET InvitationIds]
    BY <1>1, <1>8 DEF ClientResponds, ClientsOK
  <2> QED BY <1>6, <1>8, <2>1, <2>2 DEF ClientResponds
<1> QED BY <1>3, <1>4, <1>5, <1>7, <1>8 DEF LobbyNext, ClientStep

LEMMA NextLobbyTypeInv == LobbyTypeInv /\ [LobbyNext]_<<connVars, lobbyVars>> => LobbyTypeInv'
<1> SUFFICES ASSUME LobbyTypeInv, [LobbyNext]_<<connVars, lobbyVars>> PROVE LobbyTypeInv'
  OBVIOUS
<1>1. CASE LobbyNext
  <2>1. ConnInv'
    BY <1>1, LobbyStepsConnect, NextConnInv DEF LobbyTypeInv
  <2> QED BY <1>1, <2>1, StoredStays, SendingStays, ClientsStay DEF LobbyTypeInv
<1>2. CASE UNCHANGED <<connVars, lobbyVars>>
  <2>1. ConnInv'
    BY <1>2, NextConnInv DEF LobbyTypeInv
  <2> QED BY <1>2, <2>1
          DEF LobbyTypeInv, lobbyVars, stored, sending, client, history, StoredOK, SendingOK, ClientsOK
<1> QED BY <1>1, <1>2

LEMMA InitLobbyTypeInv == LobbyInit => LobbyTypeInv
<1> SUFFICES ASSUME LobbyInit PROVE LobbyTypeInv
  OBVIOUS
<1>1. PICK start \in Starts : StartWith(start.settled, start.rejected)
  BY DEF LobbyInit
<1>2. PICK settled, rejected : settled = start.settled /\ rejected = start.rejected
  OBVIOUS
<1>3. /\ settled \in SUBSET Connections /\ rejected \in SUBSET Connections
      /\ \A c, d \in settled : Identity[c] = Identity[d] => c = d
      /\ StartWith(settled, rejected)
  BY <1>1, <1>2, LobbyAssumption
<1>4. /\ ConnInv
      /\ \A p \in Participants : hub[p] # NoConnection => hub[p] \in settled /\ Identity[hub[p]] = p
  BY <1>3, StartsAreSettled
<1>5. StoredOK
  BY <1>3 DEF StartWith, StoredOK
<1>6. SendingOK
  <2>1. NoSnapshot \in Snapshots
    BY DEF NoSnapshot, Snapshots
  <2>2. <<>> \in Seq(Announcements) /\ <<>> \in Seq(Messages)
    OBVIOUS
  <2> QED BY <1>3, <2>1, <2>2 DEF StartWith, SendingOK
<1>7. ClientsOK
  <2>1. hub \in [Participants -> Connections \cup {NoConnection}] /\ online \in SUBSET Participants
    BY <1>4 DEF ConnInv, ConnTypeOK
  <2>2. /\ request = [c \in Connections |-> NoRequest] /\ using = hub /\ knowsSelf = online
        /\ list = [p \in Participants |-> IF p \in online THEN online \ {p} ELSE {}]
        /\ shown = [p \in Participants |-> {}] /\ overlapped = FALSE
    BY <1>3 DEF StartWith
  <2> QED BY <1>4, <2>1, <2>2 DEF ClientsOK
<1> QED BY <1>4, <1>5, <1>6, <1>7 DEF LobbyTypeInv

\* The types of the lobbies, of what is on its way to them and of what is kept
\* about the invitations they show.
THEOREM LobbyTypesHold == LobbySpec => []LobbyTypeOK
<1>1. LobbySpec => []LobbyTypeInv
  BY InitLobbyTypeInv, NextLobbyTypeInv, PTL DEF LobbySpec
<1> QED BY <1>1, LobbyTypesInclude, PTL

\* The connections under the lobbies take the steps of module Connections and
\* no others, and keep its promises, also when some have been settled from the
\* start: one live connection per participant, and no ghosts.
THEOREM LobbiesUseConnections == LobbySpec => [](HubAgrees /\ NoGhosts) /\ [][ConnNext]_connVars
<1>1. LobbySpec => []LobbyTypeInv
  BY InitLobbyTypeInv, NextLobbyTypeInv, PTL DEF LobbySpec
<1>2. LobbyTypeInv => HubAgrees /\ NoGhosts
  BY DEF LobbyTypeInv, ConnInv
<1>3. [LobbyNext]_<<connVars, lobbyVars>> => [ConnNext]_connVars
  BY LobbyStepsConnect DEF connVars
<1> QED BY <1>1, <1>2, <1>3, PTL DEF LobbySpec

-----------------------------------------------------------------------------
(* A client and its own name.                                              *)

IsLobby(m) == m.type = "lobby_state"
HasLobby(s) == \E k \in DOMAIN s : IsLobby(s[k])
HasWelcome(s) == \E k \in DOMAIN s : s[k] = Welcomed

\* Every lobby_state in s comes after a welcome.
WelcomeFirst(s) == \A k \in DOMAIN s : IsLobby(s[k]) => \E j \in 1..(k - 1) : s[j] = Welcomed

\* No lobby_state in s lists p.
LeavesOut(s, p) == \A k \in DOMAIN s : IsLobby(s[k]) => p \notin s[k].online

\* c is the connection its client uses.
Own(c) == using[Identity[c]] = c /\ socket[c] = "open"

\* The lobby_state of c has been sent, or never will be.
AfterLobby(c) ==
  pc[c] \notin {"off", "hello", "online", "heartbeat", "upsert", "register", "closeOld", "welcome"}

\* What is being made for the client of c, and what is on its way to it, leave
\* the client out.  A client that does not know its name is sent its welcome
\* before its lobby; and once the lobby has been sent the client's list is
\* without itself, and stays so because the client knows its name, or there is
\* a lobby on the way that will replace it.
SelfAt(c) ==
  LET p == Identity[c]
  IN  /\ pc[c] = "off" => socket[c] # "open" /\ inbox[c] = <<>>
      /\ pc[c] # "welcome" => snapshot[c].at = "welcome"
      /\ p \notin snapshot[c].left \cup snapshot[c].online
      /\ LeavesOut(inbox[c], p)
      /\ Own(c) => /\ p \in knowsSelf \/ WelcomeFirst(inbox[c])
                   /\ snapshot[c].at # "welcome" => p \in knowsSelf \/ HasWelcome(inbox[c])
                   /\ AfterLobby(c) => (p \in knowsSelf /\ p \notin list[p]) \/ HasLobby(inbox[c])

SelfInv == \A c \in Connections : SelfAt(c)

LEMMA AppendFacts ==
  ASSUME NEW s \in Seq(Messages), NEW m \in Messages, NEW p
  PROVE  /\ HasLobby(s) \/ IsLobby(m) => HasLobby(Append(s, m))
         /\ HasWelcome(s) \/ m = Welcomed => HasWelcome(Append(s, m))
         /\ WelcomeFirst(s) /\ (IsLobby(m) => HasWelcome(s)) => WelcomeFirst(Append(s, m))
         /\ LeavesOut(s, p) /\ (IsLobby(m) => p \notin m.online) => LeavesOut(Append(s, m), p)
<1> PICK n \in Nat : n = Len(s)
  OBVIOUS
<1> PICK t : t = Append(s, m)
  OBVIOUS
<1>1. /\ DOMAIN s = 1..n /\ DOMAIN t = 1..(n + 1) /\ t[n + 1] = m
      /\ \A k \in 1..n : t[k] = s[k]
  OBVIOUS
<1>2. HasLobby(s) \/ IsLobby(m) => HasLobby(t)
  BY <1>1 DEF HasLobby
<1>3. HasWelcome(s) \/ m = Welcomed => HasWelcome(t)
  BY <1>1 DEF HasWelcome
<1>4. WelcomeFirst(s) /\ (IsLobby(m) => HasWelcome(s)) => WelcomeFirst(t)
  <2> SUFFICES ASSUME WelcomeFirst(s), IsLobby(m) => HasWelcome(s), NEW k \in 1..(n + 1), IsLobby(t[k])
               PROVE  \E j \in 1..(k - 1) : t[j] = Welcomed
    BY <1>1 DEF WelcomeFirst
  <2>1. CASE k \in 1..n
    <3>1. PICK j \in 1..(k - 1) : s[j] = Welcomed
      BY <1>1, <2>1 DEF WelcomeFirst
    <3> QED BY <1>1, <2>1, <3>1
  <2>2. CASE k = n + 1
    <3>1. PICK j \in 1..n : s[j] = Welcomed
      BY <1>1, <2>2 DEF HasWelcome
    <3> QED BY <1>1, <2>2, <3>1
  <2> QED BY <2>1, <2>2
<1>5. LeavesOut(s, p) /\ (IsLobby(m) => p \notin m.online) => LeavesOut(t, p)
  <2> SUFFICES ASSUME LeavesOut(s, p), IsLobby(m) => p \notin m.online,
                      NEW k \in 1..(n + 1), IsLobby(t[k])
               PROVE  p \notin t[k].online
    BY <1>1 DEF LeavesOut
  <2>1. CASE k \in 1..n
    BY <1>1, <2>1 DEF LeavesOut
  <2>2. CASE k = n + 1
    BY <1>1, <2>2
  <2> QED BY <2>1, <2>2
<1> QED BY <1>2, <1>3, <1>4, <1>5

LEMMA TailFacts ==
  ASSUME NEW s \in Seq(Messages), s # <<>>, NEW p
  PROVE  /\ HasLobby(s) => IsLobby(Head(s)) \/ HasLobby(Tail(s))
         /\ HasWelcome(s) => Head(s) = Welcomed \/ HasWelcome(Tail(s))
         /\ WelcomeFirst(s) => ~IsLobby(Head(s)) /\ (Head(s) = Welcomed \/ WelcomeFirst(Tail(s)))
         /\ LeavesOut(s, p) =>
              (IsLobby(Head(s)) => p \notin Head(s).online) /\ LeavesOut(Tail(s), p)
<1> PICK n \in Nat : n = Len(s) /\ n # 0
  OBVIOUS
<1> PICK t : t = Tail(s)
  OBVIOUS
<1> PICK m : m = Head(s)
  OBVIOUS
<1>1. /\ DOMAIN s = 1..n /\ DOMAIN t = 1..(n - 1) /\ s[1] = m
      /\ \A k \in 1..(n - 1) : t[k] = s[k + 1]
  OBVIOUS
<1>2. HasLobby(s) => IsLobby(m) \/ HasLobby(t)
  <2> SUFFICES ASSUME NEW k \in 1..n, IsLobby(s[k]) PROVE IsLobby(m) \/ HasLobby(t)
    BY <1>1 DEF HasLobby
  <2>1. k = 1 \/ (k - 1 \in 1..(n - 1) /\ t[k - 1] = s[k])
    BY <1>1
  <2> QED BY <1>1, <2>1 DEF HasLobby
<1>3. HasWelcome(s) => m = Welcomed \/ HasWelcome(t)
  <2> SUFFICES ASSUME NEW k \in 1..n, s[k] = Welcomed PROVE m = Welcomed \/ HasWelcome(t)
    BY <1>1 DEF HasWelcome
  <2>1. k = 1 \/ (k - 1 \in 1..(n - 1) /\ t[k - 1] = s[k])
    BY <1>1
  <2> QED BY <1>1, <2>1 DEF HasWelcome
<1>4. WelcomeFirst(s) => ~IsLobby(m)
  BY <1>1 DEF WelcomeFirst
<1>5. WelcomeFirst(s) => m = Welcomed \/ WelcomeFirst(t)
  <2> SUFFICES ASSUME WelcomeFirst(s), m # Welcomed, NEW k \in 1..(n - 1), IsLobby(t[k])
               PROVE  \E j \in 1..(k - 1) : t[j] = Welcomed
    BY <1>1 DEF WelcomeFirst
  <2>1. k + 1 \in 1..n /\ s[k + 1] = t[k]
    BY <1>1
  <2>2. PICK j \in 1..k : s[j] = Welcomed
    BY <1>1, <2>1 DEF WelcomeFirst
  <2>3. j - 1 \in 1..(k - 1) /\ j - 1 \in 1..(n - 1) /\ t[j - 1] = s[j]
    BY <1>1, <2>2
  <2> QED BY <2>2, <2>3
<1>6. LeavesOut(s, p) => (IsLobby(m) => p \notin m.online) /\ LeavesOut(t, p)
  BY <1>1 DEF LeavesOut
<1> QED BY <1>2, <1>3, <1>4, <1>5, <1>6

LEMMA EmptyFacts ==
  ASSUME NEW p
  PROVE  WelcomeFirst(<<>>) /\ LeavesOut(<<>>, p)
BY DEF WelcomeFirst, LeavesOut

\* Whatever else happens to c: its goroutine goes on without a lobby_state, its
\* socket is closed, or an announcement is queued for its client.
LEMMA SelfKept ==
  ASSUME LobbyTypeInv, LobbyTypeInv', NEW c \in Connections, SelfAt(c),
         pc'[c] = "off" => pc[c] = "off",
         pc[c] = "welcome" => pc'[c] = "welcome",
         socket'[c] = "open" => socket[c] = "open",
         Own(c)' => /\ Own(c) /\ (AfterLobby(c)' => AfterLobby(c))
                    /\ Identity[c] \in knowsSelf => Identity[c] \in knowsSelf'
                    /\ list'[Identity[c]] = list[Identity[c]],
         snapshot'[c] = snapshot[c],
         \/ inbox'[c] = inbox[c]
         \/ inbox'[c] = <<>> /\ socket'[c] # "open"
         \/ /\ socket[c] = "open"
            /\ \E m \in Messages : ~IsLobby(m) /\ inbox'[c] = Append(inbox[c], m)
  PROVE  SelfAt(c)'
<1> PICK p \in Participants : p = Identity[c]
  BY IdentityAssumption
<1>1. inbox[c] \in Seq(Messages)
  BY DEF LobbyTypeInv, SendingOK
<1>2. /\ LeavesOut(inbox'[c], p)
      /\ Own(c)' => /\ WelcomeFirst(inbox[c]) => WelcomeFirst(inbox'[c])
                    /\ HasWelcome(inbox[c]) => HasWelcome(inbox'[c])
                    /\ HasLobby(inbox[c]) => HasLobby(inbox'[c])
  <2>1. LeavesOut(inbox[c], p)
    BY DEF SelfAt
  <2>2. CASE inbox'[c] = inbox[c]
    BY <2>1, <2>2
  <2>3. CASE inbox'[c] = <<>> /\ socket'[c] # "open"
    BY <2>3, EmptyFacts DEF Own
  <2>4. CASE \E m \in Messages : ~IsLobby(m) /\ inbox'[c] = Append(inbox[c], m)
    BY <1>1, <2>1, <2>4, AppendFacts
  <2> QED BY <2>2, <2>3, <2>4
<1>3. pc'[c] = "off" => socket'[c] # "open" /\ inbox'[c] = <<>>
  BY DEF SelfAt
<1>4. (pc'[c] # "welcome" => snapshot'[c].at = "welcome")
      /\ p \notin snapshot'[c].left \cup snapshot'[c].online
  BY DEF SelfAt
<1>6. Own(c)' => /\ p \in knowsSelf' \/ WelcomeFirst(inbox'[c])
                 /\ snapshot'[c].at # "welcome" => p \in knowsSelf' \/ HasWelcome(inbox'[c])
                 /\ AfterLobby(c)' => (p \in knowsSelf' /\ p \notin list'[p]) \/ HasLobby(inbox'[c])
  <2>1. Own(c)' =>
        /\ p \in knowsSelf \/ WelcomeFirst(inbox[c])
        /\ snapshot[c].at # "welcome" => p \in knowsSelf \/ HasWelcome(inbox[c])
        /\ AfterLobby(c) => (p \in knowsSelf /\ p \notin list[p]) \/ HasLobby(inbox[c])
    BY DEF SelfAt
  <2> QED BY <1>2, <2>1
<1> QED BY <1>2, <1>3, <1>4, <1>6 DEF SelfAt

\* What the goroutine of d does is one of these to c.
LEMMA PlainSteps ==
  ASSUME LobbyTypeInv, NEW c \in Connections, NEW d \in Connections,
         \/ Plain(d) \/ Greet(d) \/ BidFarewell(d) \/ SendNext(d) \/ HandleAccept(d) \/ HandleDecline(d)
         \/ HandleRefused(d)
         \/ \E i \in InvitationIds :
              HandleInviteCreate(d, i) \/ HandleMove(d, i) \/ HandleLastMove(d, i)
  PROVE  /\ pc'[c] = "off" => pc[c] = "off"
         /\ pc[c] = "welcome" => pc'[c] = "welcome"
         /\ AfterLobby(c)' => AfterLobby(c)
         /\ UNCHANGED <<socket, snapshot, using, knowsSelf, list>>
<1>1. \/ UNCHANGED pc
      \/ \E from, to \in Pcs : /\ Step(d, from, to) /\ to # "off" /\ from # "welcome"
                               /\ to \in {"announce", "read", "dispatch", "unregister", "offline",
                                          "farewell", "done"} =>
                                    from \in {"announce", "read", "dispatch", "unregister", "offline",
                                              "farewell", "done"}
  BY DEF Plain, Greet, BidFarewell, SendNext, HandleAccept, HandleDecline, HandleRefused,
         HandleInviteCreate, HandleMove, HandleLastMove, Read, Pcs, connVars,
         ReadHello, SetOnline, FirstHeartbeat, UpsertParticipant, Register, ReadFails, Unregister,
         UnregisterSuperseded, SetOffline, AnnounceOnline, AnnounceOffline, ReadMessage, Dispatched
<1>2. pc \in [Connections -> Pcs]
  BY DEF LobbyTypeInv, ConnInv, ConnTypeOK
<1>3. /\ pc'[c] = "off" => pc[c] = "off"
      /\ pc[c] = "welcome" => pc'[c] = "welcome"
      /\ AfterLobby(c)' => AfterLobby(c)
  BY <1>1, <1>2 DEF Step, AfterLobby, Pcs
<1>4. UNCHANGED <<socket, snapshot, using, knowsSelf, list>>
  BY DEF Plain, Greet, BidFarewell, SendNext, HandleAccept, HandleDecline, HandleRefused,
         HandleInviteCreate, HandleMove, HandleLastMove, Read, connVars, lobbyVars, sending, client,
         ReadHello, SetOnline, FirstHeartbeat, UpsertParticipant, Register, ReadFails, Unregister,
         UnregisterSuperseded, SetOffline, AnnounceOnline, AnnounceOffline, ReadMessage, Dispatched
<1> QED BY <1>3, <1>4

LEMMA PlainQueues ==
  ASSUME LobbyTypeInv, NEW c \in Connections, NEW d \in Connections,
         \/ Plain(d) \/ Greet(d) \/ BidFarewell(d) \/ SendNext(d) \/ HandleAccept(d) \/ HandleDecline(d)
         \/ HandleRefused(d)
         \/ \E i \in InvitationIds :
              HandleInviteCreate(d, i) \/ HandleMove(d, i) \/ HandleLastMove(d, i)
  PROVE  \/ inbox'[c] = inbox[c]
         \/ /\ socket[c] = "open"
            /\ \E m \in Messages : ~IsLobby(m) /\ inbox'[c] = Append(inbox[c], m)
<1>1. ASSUME NEW cs, NEW m \in Messages, ~IsLobby(m), inbox' = Enqueued(cs, m)
      PROVE  \/ inbox'[c] = inbox[c]
             \/ /\ socket[c] = "open"
                /\ \E n \in Messages : ~IsLobby(n) /\ inbox'[c] = Append(inbox[c], n)
  BY <1>1 DEF Enqueued
<1>2. CASE Greet(d) \/ BidFarewell(d)
  <2>1. PICK m \in Messages : Broadcast(m) /\ m.type = "presence_update"
    BY <1>2, PresenceTypes, IdentityAssumption DEF Greet, BidFarewell
  <2> QED BY <1>1, <2>1 DEF Broadcast, IsLobby
<1>3. CASE SendNext(d)
  <2>1. PICK m \in Messages : /\ m.type \notin {"welcome", "lobby_state"}
                              /\ \E cs : inbox' = Enqueued(cs, m) \/ inbox' = inbox
    BY <1>3, SendNextTypes
  <2> QED BY <1>1, <2>1 DEF IsLobby
<1>4. CASE \/ HandleAccept(d) \/ HandleDecline(d)
           \/ \E i \in InvitationIds : HandleInviteCreate(d, i) \/ HandleLastMove(d, i)
  BY <1>4, HandlerSends
<1>5. CASE Plain(d) \/ HandleRefused(d) \/ \E i \in InvitationIds : HandleMove(d, i)
  BY <1>5 DEF Plain, HandleRefused, HandleMove, lobbyVars, sending
<1> QED BY <1>2, <1>3, <1>4, <1>5

\* The goroutine of c makes and sends its lobby_state.
LEMMA SelfWelcomed ==
  ASSUME LobbyTypeInv, NEW c \in Connections, SelfAt(c),
         \/ SendWelcome(c) \/ SnapshotOnline(c) \/ (\E p \in Participants : SnapshotCheck(c, p))
         \/ SnapshotInvitations(c) \/ SendLobby(c)
  PROVE  SelfAt(c)'
<1> PICK p \in Participants : p = Identity[c]
  BY IdentityAssumption
<1>1. /\ inbox \in [Connections -> Seq(Messages)] /\ inbox[c] \in Seq(Messages)
      /\ snapshot[c] \in Snapshots /\ pc \in [Connections -> Pcs]
  BY DEF LobbyTypeInv, SendingOK, ConnInv, ConnTypeOK
<1>2. /\ pc[c] = "welcome"
      /\ UNCHANGED <<socket, using, knowsSelf, list>>
      /\ ~SendLobby(c) => UNCHANGED pc
      /\ SendLobby(c) => pc'[c] = "announce"
  <2>1. snapshot[c].at # "welcome" => pc[c] = "welcome"
    BY DEF SelfAt
  <2>2. CASE SendLobby(c)
    BY <1>1, <2>2 DEF SendLobby, Welcome, Step, client
  <2>3. CASE ~SendLobby(c)
    BY <2>1, <2>3 DEF SendWelcome, SnapshotOnline, SnapshotCheck, SnapshotInvitations, connVars, client
  <2> QED BY <2>2, <2>3
<1>3. /\ p \notin snapshot'[c].left \cup snapshot'[c].online
      /\ SendLobby(c) => snapshot'[c].at = "welcome"
      /\ snapshot'[c].at # "welcome" => (snapshot[c].at # "welcome" \/ SendWelcome(c))
  BY SnapshotSteps DEF SelfAt
<1>4. CASE SendWelcome(c)
  <2>1. inbox'[c] = IF socket[c] = "open" THEN Append(inbox[c], Welcomed) ELSE inbox[c]
    BY <1>4 DEF SendWelcome, Enqueued
  <2>2. Welcomed \in Messages /\ ~IsLobby(Welcomed)
    BY WelcomeTypes DEF Welcomed, IsLobby
  <2>3. /\ LeavesOut(inbox'[c], p)
        /\ Own(c) => (p \in knowsSelf \/ WelcomeFirst(inbox'[c])) /\ HasWelcome(inbox'[c])
    BY <1>1, <2>1, <2>2, AppendFacts DEF SelfAt, Own
  <2> QED BY <1>2, <1>3, <1>4, <2>3 DEF SelfAt, Own, AfterLobby, SendLobby, SendWelcome
<1>5. CASE SendLobby(c)
  <2>1. PICK m \in Messages : /\ m = LobbyState(snapshot[c].online, snapshot[c].invitations)
                              /\ IsLobby(m) /\ m.online = snapshot[c].online
    BY <1>1, WelcomeTypes DEF Snapshots, IsLobby
  <2>2. inbox'[c] = IF socket[c] = "open" THEN Append(inbox[c], m) ELSE inbox[c]
    BY <1>5, <2>1 DEF SendLobby, Enqueued
  <2>3. p \notin m.online /\ snapshot[c].at # "welcome"
    BY <1>5, <2>1 DEF SelfAt, SendLobby
  <2>4. /\ LeavesOut(inbox'[c], p)
        /\ Own(c) => (p \in knowsSelf \/ WelcomeFirst(inbox'[c])) /\ HasLobby(inbox'[c])
    BY <1>1, <2>1, <2>2, <2>3, AppendFacts DEF SelfAt, Own
  <2> QED BY <1>2, <1>3, <1>5, <2>4 DEF SelfAt, Own, AfterLobby
<1>6. CASE SnapshotOnline(c) \/ (\E q \in Participants : SnapshotCheck(c, q)) \/ SnapshotInvitations(c)
  <2>1. UNCHANGED inbox /\ ~SendWelcome(c) /\ ~SendLobby(c)
    BY <1>6 DEF SnapshotOnline, SnapshotCheck, SnapshotInvitations, SendWelcome, SendLobby
  <2> QED BY <1>2, <1>3, <2>1 DEF SelfAt, Own, AfterLobby
<1> QED BY <1>4, <1>5, <1>6

\* The client of c reads what comes next.
LEMMA SelfReads ==
  ASSUME LobbyTypeInv, NEW c \in Connections, SelfAt(c), Own(c), ClientReads(Identity[c])
  PROVE  SelfAt(c)'
<1> PICK p \in Participants : p = Identity[c]
  BY IdentityAssumption
<1>1. inbox[c] \in Seq(Messages) /\ inbox[c] # <<>> /\ using[p] = c /\ inbox'[c] = Tail(inbox[c])
  BY DEF LobbyTypeInv, SendingOK, ClientReads, Own
<1>2. PICK m \in Messages : m = Head(inbox[c])
  BY <1>1
<1>3. /\ list'[p] = ListAfter(p, m) /\ UNCHANGED <<pc, socket, snapshot, using>>
      /\ m = Welcomed => p \in knowsSelf'
      /\ p \in knowsSelf => p \in knowsSelf'
  BY <1>1, <1>2 DEF ClientReads, connVars, LobbyTypeInv, ClientsOK
<1>4. /\ LeavesOut(inbox'[c], p)
      /\ p \in knowsSelf' \/ WelcomeFirst(inbox'[c])
      /\ snapshot[c].at # "welcome" => p \in knowsSelf' \/ HasWelcome(inbox'[c])
  BY <1>1, <1>2, <1>3, TailFacts DEF SelfAt
<1>5. AfterLobby(c) => (p \in knowsSelf' /\ p \notin list'[p]) \/ HasLobby(inbox'[c])
  <2> SUFFICES ASSUME AfterLobby(c), ~HasLobby(inbox'[c])
               PROVE  p \in knowsSelf' /\ p \notin list'[p]
    OBVIOUS
  <2>1. (p \in knowsSelf /\ p \notin list[p]) \/ HasLobby(inbox[c])
    BY DEF SelfAt
  <2>2. CASE IsLobby(m)
    <3>1. p \notin m.online /\ p \in knowsSelf
      BY <1>1, <1>2, <2>2, TailFacts DEF SelfAt
    <3> QED BY <1>3, <2>2, <3>1 DEF ListAfter, IsLobby
  <2>3. CASE ~IsLobby(m)
    <3>1. p \in knowsSelf /\ p \notin list[p]
      BY <1>1, <1>2, <2>1, <2>3, TailFacts
    <3> QED BY <1>3, <2>3, <3>1 DEF ListAfter, IsLobby
  <2> QED BY <2>2, <2>3
<1>6. pc[c] # "off"
  BY <1>1 DEF SelfAt
<1> QED BY <1>3, <1>4, <1>5, <1>6 DEF SelfAt, Own, AfterLobby

\* A client connects as c: nothing has been sent on it.
LEMMA SelfConnects ==
  ASSUME LobbyTypeInv, NEW c \in Connections, SelfAt(c), ClientConnects(c)
  PROVE  SelfAt(c)'
<1>1. pc[c] = "off" /\ pc'[c] = "hello" /\ inbox'[c] = inbox[c] /\ snapshot'[c] = snapshot[c]
  BY DEF ClientConnects, AcceptSocket, Step, sending, LobbyTypeInv, ConnInv, ConnTypeOK
<1>2. inbox'[c] = <<>> /\ snapshot'[c].at = "welcome"
  BY <1>1 DEF SelfAt
<1>3. WelcomeFirst(inbox'[c])
  BY <1>2, EmptyFacts
<1> QED BY <1>1, <1>2, <1>3 DEF SelfAt, AfterLobby

LEMMA NextSelfInv ==
  ASSUME LobbyTypeInv, LobbyTypeInv', SelfInv, LobbyNext
  PROVE  SelfInv'
<1> SUFFICES ASSUME NEW c \in Connections PROVE SelfAt(c)'
  BY DEF SelfInv
<1> PICK p \in Participants : p = Identity[c]
  BY IdentityAssumption
<1>1. SelfAt(c)
  BY DEF SelfInv
<1>2. ASSUME NEW d \in Connections,
             \/ Plain(d) \/ Greet(d) \/ BidFarewell(d) \/ SendNext(d)
             \/ HandleAccept(d) \/ HandleDecline(d) \/ HandleRefused(d)
             \/ \E i \in InvitationIds :
                  HandleInviteCreate(d, i) \/ HandleMove(d, i) \/ HandleLastMove(d, i)
      PROVE  SelfAt(c)'
  <2>1. /\ pc'[c] = "off" => pc[c] = "off"
        /\ pc[c] = "welcome" => pc'[c] = "welcome"
        /\ AfterLobby(c)' => AfterLobby(c)
        /\ UNCHANGED <<socket, snapshot, using, knowsSelf, list>>
    BY <1>2, PlainSteps
  <2>2. \/ inbox'[c] = inbox[c]
        \/ /\ socket[c] = "open"
           /\ \E m \in Messages : ~IsLobby(m) /\ inbox'[c] = Append(inbox[c], m)
    BY <1>2, PlainQueues
  <2>3. Own(c)' => Own(c)
    BY <2>1 DEF Own
  <2> QED BY <1>1, <2>1, <2>2, <2>3, SelfKept
<1>3. ASSUME NEW d \in Connections, Closes(d)
      PROVE  SelfAt(c)'
  <2>1. /\ pc \in [Connections -> Pcs] /\ socket \in [Connections -> Sockets]
        /\ displaced \in [Connections -> Connections \cup {NoConnection}]
    BY DEF LobbyTypeInv, ConnInv, ConnTypeOK
  <2>2. /\ UNCHANGED <<snapshot, using, knowsSelf, list>>
        /\ inbox'[c] = IF socket'[c] = "closed" THEN <<>> ELSE inbox[c]
    BY <1>3 DEF Closes, Lost, client
  <2>3. /\ pc'[c] = "off" => pc[c] = "off"
        /\ pc[c] = "welcome" => pc'[c] = "welcome"
        /\ socket'[c] = "open" => socket[c] = "open" /\ (AfterLobby(c)' => AfterLobby(c))
    <3>1. CASE RejectHello(d)
      BY <2>1, <3>1 DEF RejectHello, Step, Closed, AfterLobby
    <3>2. CASE CloseOld(d)
      BY <2>1, <3>2 DEF CloseOld, Step, SocketsAfterRegister, Closed, AfterLobby
    <3>3. CASE PeerCloses(d)
      BY <2>1, <3>3 DEF PeerCloses, OnlySocket, Closed, AfterLobby
    <3> QED BY <1>3, <3>1, <3>2, <3>3 DEF Closes
  <2>4. Own(c)' => Own(c) /\ (AfterLobby(c)' => AfterLobby(c))
    BY <2>2, <2>3 DEF Own
  <2>5. inbox'[c] = inbox[c] \/ (inbox'[c] = <<>> /\ socket'[c] # "open")
    BY <2>2
  <2> QED BY <1>1, <2>2, <2>3, <2>4, <2>5, SelfKept
<1>4. ASSUME NEW d \in Connections,
             \/ SendWelcome(d) \/ SnapshotOnline(d) \/ (\E q \in Participants : SnapshotCheck(d, q))
             \/ SnapshotInvitations(d) \/ SendLobby(d)
      PROVE  SelfAt(c)'
  <2>1. CASE d = c
    BY <1>1, <1>4, <2>1, SelfWelcomed
  <2>2. CASE d # c
    <3>1. snapshot'[c] = snapshot[c]
      BY <1>4, <2>2, SnapshotSteps
    <3>2. inbox'[c] = inbox[c]
      BY <1>4, <2>2 DEF SendWelcome, SnapshotOnline, SnapshotCheck, SnapshotInvitations, SendLobby,
                        Enqueued, LobbyTypeInv, SendingOK
    <3>3. pc'[c] = pc[c] /\ UNCHANGED <<socket, using, knowsSelf, list>>
      BY <1>4, <2>2 DEF SendWelcome, SnapshotOnline, SnapshotCheck, SnapshotInvitations, SendLobby,
                        Welcome, Step, connVars, client, LobbyTypeInv, ConnInv, ConnTypeOK
    <3>4. Own(c)' => Own(c) /\ (AfterLobby(c)' => AfterLobby(c))
      BY <3>3 DEF Own, AfterLobby
    <3> QED BY <1>1, <3>1, <3>2, <3>3, <3>4, SelfKept
  <2> QED BY <2>1, <2>2
<1>5. ASSUME NEW d \in Connections, ClientConnects(d)
      PROVE  SelfAt(c)'
  <2>1. CASE d = c
    BY <1>1, <1>5, <2>1, SelfConnects
  <2>2. CASE d # c
    <3>1. pc'[c] = pc[c] /\ socket'[c] = socket[c] /\ UNCHANGED sending
      BY <1>5, <2>2 DEF ClientConnects, AcceptSocket, Step, LobbyTypeInv, ConnInv, ConnTypeOK
    <3>2. CASE Identity[d] = p
      <4>1. using'[p] = d
        BY <1>5, <3>2 DEF ClientConnects, LobbyTypeInv, ClientsOK
      <4>2. ~Own(c)'
        BY <2>2, <4>1 DEF Own
      <4> QED BY <1>1, <3>1, <4>2, SelfKept DEF sending
    <3>3. CASE Identity[d] # p
      <4>1. using'[p] = using[p] /\ list'[p] = list[p] /\ (p \in knowsSelf => p \in knowsSelf')
        BY <1>5, <3>3 DEF ClientConnects, LobbyTypeInv, ClientsOK
      <4>2. Own(c)' => Own(c) /\ (AfterLobby(c)' => AfterLobby(c))
        BY <3>1, <4>1 DEF Own, AfterLobby
      <4> QED BY <1>1, <3>1, <4>1, <4>2, SelfKept DEF sending
    <3> QED BY <3>2, <3>3
  <2> QED BY <2>1, <2>2
<1>6. ASSUME NEW q \in Participants, ClientReads(q)
      PROVE  SelfAt(c)'
  <2>1. UNCHANGED <<pc, socket, snapshot, using>>
    BY <1>6 DEF ClientReads, connVars
  <2>2. CASE using[q] = c
    <3>1. q = p /\ Own(c)
      BY <1>6, <2>2, NobodyAssumption DEF ClientReads, Live, Own, LobbyTypeInv, ClientsOK
    <3> QED BY <1>1, <1>6, <3>1, SelfReads
  <2>3. CASE using[q] # c
    <3>1. inbox'[c] = inbox[c]
      BY <1>6, <2>3 DEF ClientReads, LobbyTypeInv, SendingOK
    <3>2. Own(c)' => /\ Own(c) /\ (AfterLobby(c)' => AfterLobby(c)) /\ q # p
      BY <2>1, <2>3 DEF Own, AfterLobby
    <3>3. q # p => list'[p] = list[p] /\ (p \in knowsSelf => p \in knowsSelf')
      BY <1>6 DEF ClientReads, LobbyTypeInv, ClientsOK
    <3> QED BY <1>1, <2>1, <3>1, <3>2, <3>3, SelfKept
  <2> QED BY <2>2, <2>3
<1>7. ASSUME NEW q \in Participants, ClientStep(q), ~ClientReads(q)
      PROVE  SelfAt(c)'
  <2>1. UNCHANGED <<pc, socket, snapshot, inbox, using, knowsSelf, list>>
    BY <1>7 DEF ClientStep, ClientInvites, ClientResponds, Ask, connVars, sending
  <2>2. Own(c)' => Own(c) /\ (AfterLobby(c)' => AfterLobby(c))
    BY <2>1 DEF Own, AfterLobby
  <2> QED BY <1>1, <2>1, <2>2, SelfKept
<1> QED BY <1>2, <1>3, <1>4, <1>5, <1>6, <1>7 DEF LobbyNext, ServerStep

LEMMA InitSelfInv == LobbyInit => SelfInv
<1> SUFFICES ASSUME LobbyInit, NEW c \in Connections PROVE SelfAt(c)
  BY DEF SelfInv
<1> PICK p \in Participants : p = Identity[c]
  BY IdentityAssumption
<1>1. PICK start \in Starts : StartWith(start.settled, start.rejected)
  BY DEF LobbyInit
<1>2. PICK settled, rejected : settled = start.settled /\ rejected = start.rejected
  OBVIOUS
<1>3. /\ settled \in SUBSET Connections /\ rejected \in SUBSET Connections
      /\ \A a, b \in settled : Identity[a] = Identity[b] => a = b
      /\ StartWith(settled, rejected)
  BY <1>1, <1>2, LobbyAssumption
<1>4. /\ pc = [d \in Connections |-> IF d \in settled THEN "read"
                                     ELSE IF d \in rejected THEN "done" ELSE "off"]
      /\ socket = [d \in Connections |-> IF d \in settled THEN "open"
                                         ELSE IF d \in rejected THEN "closed" ELSE "none"]
      /\ online = {Identity[d] : d \in settled}
      /\ snapshot = [d \in Connections |-> NoSnapshot] /\ inbox = [d \in Connections |-> <<>>]
      /\ knowsSelf = online
      /\ list = [q \in Participants |-> IF q \in online THEN online \ {q} ELSE {}]
  BY <1>3 DEF StartWith
<1>5. /\ pc[c] = "off" => socket[c] # "open"
      /\ inbox[c] = <<>> /\ snapshot[c].at = "welcome"
      /\ p \notin snapshot[c].left \cup snapshot[c].online
  BY <1>4 DEF NoSnapshot
<1>6. socket[c] = "open" => p \in knowsSelf
  BY <1>4
<1>7. p \notin list[p]
  BY <1>4
<1> QED BY <1>5, <1>6, <1>7, EmptyFacts DEF SelfAt, Own

\* "never let a participant add themselves to their own online/invitable list"
\* (useStore.ts:73): the name of a client is not on its list when everything
\* that was sent to it has arrived, however its connections, its snapshots and
\* the announcements of others overlapped, and whether or not it knew its name.
THEOREM NoOneListsItself == LobbySpec => []NeverListsItself
<1>1. LobbyTypeInv /\ SelfInv => NeverListsItself
  <2> SUFFICES ASSUME LobbyTypeInv, SelfInv, Quiet, NEW p \in Participants, Connected(p)
               PROVE  p \notin list[p]
    BY DEF NeverListsItself
  <2>1. PICK c \in Connections : c = using[p] /\ Identity[c] = p
    BY DEF Connected, Live, LobbyTypeInv, ClientsOK
  <2>2. hub[p] = c /\ Own(c)
    BY <2>1 DEF Connected, Live, Own
  <2>3. pc[c] = "read" /\ inbox[c] = <<>>
    BY <2>1, <2>2 DEF LobbyTypeInv, ConnInv, HubAgrees, Registered, Quiet
  <2> QED BY <2>1, <2>2, <2>3 DEF SelfInv, SelfAt, AfterLobby, HasLobby
<1>2. LobbyTypeInv /\ SelfInv /\ [LobbyNext]_<<connVars, lobbyVars>> => SelfInv'
  <2> SUFFICES ASSUME LobbyTypeInv, SelfInv, [LobbyNext]_<<connVars, lobbyVars>> PROVE SelfInv'
    OBVIOUS
  <2>1. CASE LobbyNext
    BY <2>1, NextLobbyTypeInv, NextSelfInv
  <2>2. CASE UNCHANGED <<connVars, lobbyVars>>
    BY <2>2 DEF connVars, lobbyVars, sending, client, SelfInv, SelfAt, Own, AfterLobby
  <2> QED BY <2>1, <2>2
<1>3. LobbySpec => [](LobbyTypeInv /\ SelfInv)
  BY InitLobbyTypeInv, InitSelfInv, NextLobbyTypeInv, <1>2, PTL DEF LobbySpec
<1> QED BY <1>1, <1>3, PTL

-----------------------------------------------------------------------------
(* Invitations on their way.                                               *)

\* Once s has been read, i is shown: it is mentioned in s, and no lobby_state
\* that comes later takes it away.
Tells(s, i) ==
  \E k \in DOMAIN s :
    /\ Mentions(s[k], i)
    /\ \A j \in DOMAIN s : (j > k /\ IsLobby(s[j])) => i \in s[j].invitations

\* No lobby_state in s takes i away.
Spares(s, i) == \A k \in DOMAIN s : IsLobby(s[k]) => i \in s[k].invitations

\* A handler is still to tell the invitee.
ToBeTold(i) ==
  \E d \in Connections : \E k \in DOMAIN todo[d] :
    todo[d][k] = ToOne(invitation[i].to, Invited(i))

\* The client has clicked an answer to i, and the server has not read it.
Answering(c, i) == request[c] \in {InviteRespond(i, b) : b \in BOOLEAN}

\* What the client of c is going to be shown of i, an invitation to it that
\* has not been overtaken by older news: it is in the lobby_state that will be
\* sent; and after that it is still to be told, or is on its way, or it is
\* shown unless it is being answered.
ArrivesAt(c, i) ==
  Own(c) =>
    /\ snapshot[c].at = "send" => i \in snapshot[c].invitations
    /\ (AfterLobby(c) /\ hub[Identity[c]] = c) =>
         \/ ToBeTold(i)
         \/ Tells(inbox[c], i)
         \/ Spares(inbox[c], i) /\ (i \in shown[Identity[c]] \/ Answering(c, i))

ArrivalInv ==
  \A i \in pending \ overtaken, c \in Connections :
    Identity[c] = invitation[i].to => ArrivesAt(c, i)

\* What is left to send is sent before the next request is read.
DispatchInv == \A c \in Connections : todo[c] # <<>> => pc[c] = "dispatch"

\* A cancellation is of an invitation that is over.
CancelInv ==
  \A i \in InvitationIds, c \in Connections :
    (i \in pending \/ invitation[i] = NoInvitation) =>
      /\ \A k \in DOMAIN todo[c] : todo[c][k].message # InviteCanceled(i)
      /\ \A k \in DOMAIN inbox[c] : inbox[c][k] # InviteCanceled(i)

LEMMA MentionFacts ==
  ASSUME NEW i \in InvitationIds, NEW m \in Messages
  PROVE  /\ Invited(i) \in Messages /\ ~IsLobby(Invited(i)) /\ Mentions(Invited(i), i)
         /\ IsLobby(m) => (Mentions(m, i) <=> i \in m.invitations)
         /\ m.type = "invite_canceled" => m = InviteCanceled(m.id)
         /\ m.type = "invite" => m = Invited(m.id)
         /\ Mentions(m, i) => IsLobby(m) \/ (m.type = "invite" /\ m.id = i)
<1>1. Invited(i) \in Messages
  BY DEF Messages
<1>2. Invited(i).type = "invite" /\ Invited(i).id = i
  BY DEF Invited
<1>3. /\ m.type = "invite_canceled" => m = InviteCanceled(m.id)
      /\ m.type = "invite" => m = Invited(m.id)
  BY DEF Messages, Welcomed, LobbyState, PresenceUpdate, Invited, InviteCanceled
<1> QED BY <1>1, <1>2, <1>3 DEF Mentions, IsLobby

LEMMA AppendTells ==
  ASSUME NEW s \in Seq(Messages), NEW m \in Messages, NEW i, IsLobby(m) => i \in m.invitations
  PROVE  /\ Tells(s, i) \/ Mentions(m, i) => Tells(Append(s, m), i)
         /\ Spares(s, i) => Spares(Append(s, m), i)
<1> PICK n \in Nat : n = Len(s)
  OBVIOUS
<1> PICK t : t = Append(s, m)
  OBVIOUS
<1>1. /\ DOMAIN s = 1..n /\ DOMAIN t = 1..(n + 1) /\ t[n + 1] = m
      /\ \A k \in 1..n : t[k] = s[k]
  OBVIOUS
<1>2. \A k \in 1..(n + 1) : k \in 1..n \/ k = n + 1
  OBVIOUS
<1>3. Tells(s, i) => Tells(t, i)
  <2> SUFFICES ASSUME NEW k \in 1..n, Mentions(s[k], i),
                      \A j \in 1..n : (j > k /\ IsLobby(s[j])) => i \in s[j].invitations
               PROVE  Tells(t, i)
    BY <1>1 DEF Tells
  <2>1. \A j \in 1..(n + 1) : (j > k /\ IsLobby(t[j])) => i \in t[j].invitations
    BY <1>1, <1>2
  <2>2. k \in 1..(n + 1) /\ Mentions(t[k], i)
    BY <1>1
  <2> QED BY <1>1, <2>1, <2>2 DEF Tells
<1>4. Mentions(m, i) => Tells(t, i)
  <2> SUFFICES ASSUME Mentions(m, i) PROVE Tells(t, i)
    OBVIOUS
  <2>1. n + 1 \in 1..(n + 1) /\ \A j \in 1..(n + 1) : ~(j > n + 1)
    OBVIOUS
  <2> QED BY <1>1, <2>1 DEF Tells
<1>5. Spares(s, i) => Spares(t, i)
  BY <1>1, <1>2 DEF Spares
<1> QED BY <1>3, <1>4, <1>5

LEMMA TailTells ==
  ASSUME NEW s \in Seq(Messages), s # <<>>, NEW i
  PROVE  /\ Tells(s, i) => Tells(Tail(s), i) \/ (Mentions(Head(s), i) /\ Spares(Tail(s), i))
         /\ Spares(s, i) => (IsLobby(Head(s)) => i \in Head(s).invitations) /\ Spares(Tail(s), i)
<1> PICK n \in Nat : n = Len(s) /\ n # 0
  OBVIOUS
<1> PICK t : t = Tail(s)
  OBVIOUS
<1> PICK m : m = Head(s)
  OBVIOUS
<1>1. /\ DOMAIN s = 1..n /\ DOMAIN t = 1..(n - 1) /\ s[1] = m /\ 1 \in 1..n
      /\ \A k \in 1..(n - 1) : t[k] = s[k + 1] /\ k + 1 \in 1..n
  OBVIOUS
<1>2. Tells(s, i) => Tells(t, i) \/ (Mentions(m, i) /\ Spares(t, i))
  <2> SUFFICES ASSUME NEW k \in 1..n, Mentions(s[k], i),
                      \A j \in 1..n : (j > k /\ IsLobby(s[j])) => i \in s[j].invitations
               PROVE  Tells(t, i) \/ (Mentions(m, i) /\ Spares(t, i))
    BY <1>1 DEF Tells
  <2>1. CASE k = 1
    <3>1. \A j \in 1..(n - 1) : j + 1 > k
      BY <2>1
    <3> QED BY <1>1, <2>1, <3>1 DEF Spares
  <2>2. CASE k # 1
    <3>1. k - 1 \in 1..(n - 1) /\ (k - 1) + 1 = k
      BY <2>2
    <3>2. \A j \in 1..(n - 1) : j > k - 1 => j + 1 > k
      OBVIOUS
    <3>3. \A j \in 1..(n - 1) : (j > k - 1 /\ IsLobby(t[j])) => i \in t[j].invitations
      BY <1>1, <3>2
    <3>4. Mentions(t[k - 1], i)
      BY <1>1, <3>1
    <3> QED BY <1>1, <3>1, <3>3, <3>4 DEF Tells
  <2> QED BY <2>1, <2>2
<1>3. Spares(s, i) => (IsLobby(m) => i \in m.invitations) /\ Spares(t, i)
  BY <1>1 DEF Spares
<1> QED BY <1>2, <1>3

\* s is the next message of d, which goes out, and the others stay.
NextIsSent(d, s) ==
  /\ 1 \in DOMAIN todo[d] /\ s = todo[d][1] /\ s.message \in Messages /\ ~IsLobby(s.message)
  /\ \A k \in DOMAIN todo[d] :
       k # 1 => \E j \in DOMAIN todo'[d] : todo'[d][j] = todo[d][k]
  /\ \A j \in DOMAIN todo'[d] :
       \E k \in DOMAIN todo[d] : todo'[d][j].message = todo[d][k].message
  /\ s.how # "ifConnected" =>
       \A j \in DOMAIN todo'[d] : \E k \in DOMAIN todo[d] : todo'[d][j] = todo[d][k]
  /\ s.how = "ifConnected" =>
       \A j \in DOMAIN todo'[d] : \/ todo'[d][j] = ToAll(s.message)
                                  \/ \E k \in DOMAIN todo[d] : todo'[d][j] = todo[d][k]
  /\ \A e \in Connections \ {d} : todo'[e] = todo[e]
  /\ pc[d] = "dispatch" /\ (todo'[d] # <<>> => pc' = pc)
  /\ \A e \in Connections \ {d} : pc'[e] = pc[e]
  /\ \E cs : inbox' = Enqueued(cs, s.message) \/ inbox' = inbox
  /\ s.how = "self" => inbox' = Enqueued({d}, s.message)
  /\ s.how = "one" => inbox' = Enqueued({hub[s.who]}, s.message)
  /\ s.how = "all" => inbox' = Enqueued(Clients, s.message)
  /\ s.how = "ifConnected" /\ hub[s.who] # NoConnection =>
       1 \in DOMAIN todo'[d] /\ todo'[d][1] = ToAll(s.message)

LEMMA SendNextMoves ==
  ASSUME LobbyTypeInv, NEW d \in Connections, SendNext(d)
  PROVE  \E s \in Announcements : NextIsSent(d, s)
<1>1. todo[d] \in Seq(Announcements) /\ todo[d] # <<>> /\ todo \in [Connections -> Seq(Announcements)]
  BY DEF LobbyTypeInv, SendingOK, SendNext
<1>2. PICK s \in Announcements : s = Head(todo[d])
  BY <1>1
<1> PICK n \in Nat : n = Len(todo[d]) /\ n # 0
  BY <1>1
<1> PICK t : t = Tail(todo[d])
  OBVIOUS
<1> PICK b : b = <<ToAll(s.message)>>
  OBVIOUS
<1>3. /\ DOMAIN todo[d] = 1..n /\ DOMAIN t = 1..(n - 1) /\ todo[d][1] = s /\ 1 \in 1..n
      /\ t \in Seq(Announcements)
      /\ \A k \in 1..(n - 1) : t[k] = todo[d][k + 1]
  BY <1>1, <1>2
<1>4. ToAll(s.message) \in Announcements /\ ToAll(s.message).message = s.message
  BY <1>2 DEF ToAll, Announcements, Sends
<1>5. /\ DOMAIN (b \o t) = 1..n /\ (b \o t)[1] = ToAll(s.message)
      /\ \A k \in 2..n : (b \o t)[k] = t[k - 1]
  BY <1>1, <1>3, <1>4
<1>6. PICK rest : /\ rest = t \/ (rest = b \o t /\ s.how = "ifConnected")
                  /\ s.how = "ifConnected" /\ hub[s.who] # NoConnection => rest = b \o t
                  /\ todo' = [todo EXCEPT ![d] = rest]
                  /\ IF rest = <<>> THEN Dispatched(d) ELSE UNCHANGED connVars
  <2> DEFINE proceed == s.how = "ifConnected" /\ hub[s.who] # NoConnection
             rest == IF proceed THEN b \o t ELSE t
  <2>1. /\ todo' = [todo EXCEPT ![d] = rest]
        /\ IF rest = <<>> THEN Dispatched(d) ELSE UNCHANGED connVars
    BY <1>2, Zenon DEF SendNext
  <2>2. /\ rest = t \/ (rest = b \o t /\ s.how = "ifConnected")
        /\ s.how = "ifConnected" /\ hub[s.who] # NoConnection => rest = b \o t
    BY Zenon
  <2> HIDE DEF rest
  <2> QED BY <2>1, <2>2, Zenon
<1>7. todo'[d] = rest /\ \A e \in Connections \ {d} : todo'[e] = todo[e]
  BY <1>1, <1>6
<1>8. \A k \in 1..n : k # 1 => \E j \in DOMAIN rest : rest[j] = todo[d][k]
  <2> SUFFICES ASSUME NEW k \in 1..n, k # 1 PROVE \E j \in DOMAIN rest : rest[j] = todo[d][k]
    OBVIOUS
  <2>1. k - 1 \in 1..(n - 1) /\ t[k - 1] = todo[d][k]
    BY <1>3
  <2>2. k \in 2..n
    OBVIOUS
  <2>3. CASE rest = t
    BY <1>3, <2>1, <2>3
  <2>4. CASE rest = b \o t
    BY <1>5, <2>1, <2>2, <2>4
  <2> QED BY <1>6, <2>3, <2>4
<1>9. \A j \in DOMAIN rest : \E k \in 1..n : rest[j].message = todo[d][k].message
  <2>1. CASE rest = t
    <3>1. \A j \in 1..(n - 1) : j + 1 \in 1..n /\ t[j] = todo[d][j + 1]
      BY <1>3
    <3> QED BY <1>3, <2>1, <3>1
  <2>2. CASE rest = b \o t
    <3>1. \A j \in 1..n : j # 1 => j \in 2..n /\ (j - 1) + 1 = j /\ j - 1 \in 1..(n - 1)
      OBVIOUS
    <3>2. \A j \in 1..n : j # 1 => rest[j] = todo[d][j]
      BY <1>3, <1>5, <2>2, <3>1
    <3>3. rest[1].message = todo[d][1].message
      BY <1>3, <1>4, <1>5, <2>2
    <3> QED BY <1>3, <1>5, <2>2, <3>2, <3>3
  <2> QED BY <1>6, <2>1, <2>2
<1>10. /\ pc[d] = "dispatch" /\ (rest # <<>> => pc' = pc)
       /\ \A e \in Connections \ {d} : pc'[e] = pc[e]
  BY <1>6 DEF SendNext, Dispatched, Step, connVars, LobbyTypeInv, ConnInv, ConnTypeOK
<1>11. /\ \E cs : inbox' = Enqueued(cs, s.message) \/ inbox' = inbox
       /\ s.how = "self" => inbox' = Enqueued({d}, s.message)
       /\ s.how = "one" => inbox' = Enqueued({hub[s.who]}, s.message)
       /\ s.how = "all" => inbox' = Enqueued(Clients, s.message)
       /\ s.how = "ifConnected" => inbox' = inbox
  BY <1>2 DEF SendNext
<1>12. s.message \in Messages /\ ~IsLobby(s.message)
  BY DEF Announcements, Sends, IsLobby
<1>13. \A j \in DOMAIN rest :
         \/ s.how = "ifConnected" /\ rest[j] = ToAll(s.message)
         \/ \E k \in 1..n : rest[j] = todo[d][k]
  <2>1. CASE rest = t
    <3>1. \A j \in 1..(n - 1) : j + 1 \in 1..n /\ t[j] = todo[d][j + 1]
      BY <1>3
    <3> QED BY <1>3, <2>1, <3>1
  <2>2. CASE rest = b \o t /\ s.how = "ifConnected"
    <3>1. \A j \in 1..n : j # 1 => j \in 2..n /\ (j - 1) + 1 = j /\ j - 1 \in 1..(n - 1)
      OBVIOUS
    <3>2. \A j \in 1..n : j # 1 => rest[j] = todo[d][j]
      BY <1>3, <1>5, <2>2, <3>1
    <3> QED BY <1>3, <1>5, <2>2, <3>2
  <2> QED BY <1>6, <2>1, <2>2
<1>14. /\ s.how # "ifConnected" =>
            \A j \in DOMAIN todo'[d] : \E k \in DOMAIN todo[d] : todo'[d][j] = todo[d][k]
       /\ s.how = "ifConnected" =>
            \A j \in DOMAIN todo'[d] : \/ todo'[d][j] = ToAll(s.message)
                                       \/ \E k \in DOMAIN todo[d] : todo'[d][j] = todo[d][k]
  BY <1>3, <1>7, <1>13
<1>15. /\ 1 \in DOMAIN todo[d] /\ s = todo[d][1]
       /\ \A k \in DOMAIN todo[d] : k # 1 => \E j \in DOMAIN todo'[d] : todo'[d][j] = todo[d][k]
       /\ \A j \in DOMAIN todo'[d] :
            \E k \in DOMAIN todo[d] : todo'[d][j].message = todo[d][k].message
       /\ todo'[d] # <<>> => pc' = pc
  BY <1>3, <1>7, <1>8, <1>9, <1>10
<1>16. s.how = "ifConnected" /\ hub[s.who] # NoConnection =>
         1 \in DOMAIN todo'[d] /\ todo'[d][1] = ToAll(s.message)
  BY <1>5, <1>6, <1>7
<1> QED BY <1>7, <1>10, <1>11, <1>12, <1>14, <1>15, <1>16 DEF NextIsSent

\* A handler that reads a request has nothing left to send.
LEMMA NextDispatchInv ==
  ASSUME LobbyTypeInv, DispatchInv, LobbyNext
  PROVE  DispatchInv'
<1> SUFFICES ASSUME NEW c \in Connections, todo'[c] # <<>> PROVE pc'[c] = "dispatch"
  BY DEF DispatchInv
<1>1. pc \in [Connections -> Pcs] /\ todo \in [Connections -> Seq(Announcements)]
  BY DEF LobbyTypeInv, SendingOK, ConnInv, ConnTypeOK
<1>2. ASSUME NEW d \in Connections, Plain(d) \/ Closes(d) \/ Greet(d) \/ BidFarewell(d)
      PROVE  pc'[c] = "dispatch"
  <2>1. UNCHANGED todo
    BY <1>2 DEF Plain, Closes, Greet, BidFarewell, lobbyVars, sending
  <2>2. pc[c] = "dispatch"
    BY <2>1 DEF DispatchInv
  <2>3. pc[d] = "dispatch" => pc' = pc
    BY <1>2 DEF Plain, Closes, Greet, BidFarewell,
       ReadHello, SetOnline, FirstHeartbeat, UpsertParticipant, Register, ReadFails, Unregister,
       UnregisterSuperseded, SetOffline, AnnounceOnline, AnnounceOffline, RejectHello, CloseOld,
       PeerCloses, OnlySocket, Step
  <2>4. d # c => pc'[c] = pc[c]
    BY <1>1, <1>2 DEF Plain, Closes, Greet, BidFarewell,
       ReadHello, SetOnline, FirstHeartbeat, UpsertParticipant, Register, ReadFails, Unregister,
       UnregisterSuperseded, SetOffline, AnnounceOnline, AnnounceOffline, RejectHello, CloseOld,
       PeerCloses, OnlySocket, Step
  <2> QED BY <2>2, <2>3, <2>4
<1>3. ASSUME NEW d \in Connections, SendNext(d)
      PROVE  pc'[c] = "dispatch"
  <2>1. PICK s \in Announcements : NextIsSent(d, s)
    BY <1>3, SendNextMoves
  <2>2. /\ pc[d] = "dispatch" /\ (todo'[d] # <<>> => pc' = pc)
        /\ \A e \in Connections \ {d} : pc'[e] = pc[e] /\ todo'[e] = todo[e]
    BY <2>1 DEF NextIsSent
  <2> QED BY <2>2 DEF DispatchInv
<1>4. ASSUME NEW d \in Connections,
             \/ HandleAccept(d) \/ HandleDecline(d)
             \/ \E i \in InvitationIds : HandleInviteCreate(d, i) \/ HandleLastMove(d, i)
      PROVE  pc'[c] = "dispatch"
  <2>1. PICK sends : Read(d, sends)
    BY <1>4 DEF HandleAccept, HandleDecline, HandleInviteCreate, HandleLastMove
  <2> QED BY <1>1, <2>1 DEF Read, ReadMessage, Step, DispatchInv
<1>5. ASSUME NEW d \in Connections,
             \/ SendWelcome(d) \/ SnapshotOnline(d) \/ (\E p \in Participants : SnapshotCheck(d, p))
             \/ SnapshotInvitations(d) \/ HandleRefused(d) \/ \E i \in InvitationIds : HandleMove(d, i)
      PROVE  pc'[c] = "dispatch"
  BY <1>5 DEF SendWelcome, SnapshotOnline, SnapshotCheck, SnapshotInvitations, HandleRefused,
              HandleMove, connVars, sending, DispatchInv
<1>6. ASSUME NEW d \in Connections, SendLobby(d) \/ ClientConnects(d)
      PROVE  pc'[c] = "dispatch"
  BY <1>1, <1>6 DEF SendLobby, Welcome, ClientConnects, AcceptSocket, Step, sending, DispatchInv
<1>7. ASSUME NEW p \in Participants, ClientStep(p)
      PROVE  pc'[c] = "dispatch"
  BY <1>7 DEF ClientStep, ClientReads, ClientInvites, ClientResponds, Ask, connVars, sending, DispatchInv
<1> QED BY <1>2, <1>3, <1>4, <1>5, <1>6, <1>7 DEF LobbyNext, ServerStep

\* Invitations are made once and answered once, and what was overtaken stays so.
LEMMA InvitationSteps ==
  ASSUME LobbyTypeInv, LobbyNext, NEW i \in InvitationIds
  PROVE  /\ overtaken \subseteq overtaken'
         /\ i \in pending' => \/ \E d \in Connections : HandleInviteCreate(d, i)
                              \/ i \in pending /\ invitation'[i] = invitation[i]
         /\ invitation'[i] = NoInvitation => invitation[i] = NoInvitation
<1>1. invitation \in [InvitationIds -> Invitation \cup {NoInvitation}]
  BY DEF LobbyTypeInv, StoredOK
<1>2. ASSUME NEW d \in Connections, NEW j \in InvitationIds, HandleInviteCreate(d, j)
      PROVE  /\ overtaken \subseteq overtaken'
             /\ j # i => pending' \ {j} \subseteq pending /\ invitation'[i] = invitation[i]
             /\ j = i => invitation[i] = NoInvitation
  <2>1. overtaken \subseteq overtaken'
    BY <1>2 DEF HandleInviteCreate, OvertakenIf
  <2> QED BY <1>1, <1>2, <2>1 DEF HandleInviteCreate
<1>3. ASSUME NEW d \in Connections, HandleAccept(d) \/ HandleDecline(d)
      PROVE  overtaken \subseteq overtaken' /\ pending' \subseteq pending /\ UNCHANGED invitation
  BY <1>3 DEF HandleAccept, HandleDecline, Answer, MayAnswer, OvertakenIf
<1>4. ASSUME NEW d \in Connections,
             \/ Plain(d) \/ Closes(d) \/ Greet(d) \/ BidFarewell(d) \/ SendNext(d)
             \/ SendWelcome(d) \/ SnapshotOnline(d) \/ (\E p \in Participants : SnapshotCheck(d, p))
             \/ SnapshotInvitations(d) \/ SendLobby(d) \/ HandleRefused(d) \/ ClientConnects(d)
             \/ \E j \in InvitationIds : HandleMove(d, j) \/ HandleLastMove(d, j)
      PROVE  UNCHANGED <<overtaken, pending, invitation>>
  BY <1>4 DEF Plain, Closes, Greet, BidFarewell, SendNext, SendWelcome, SnapshotOnline, SnapshotCheck,
     SnapshotInvitations, SendLobby, HandleRefused, ClientConnects, HandleMove, HandleLastMove,
     lobbyVars, stored, history
<1>5. ASSUME NEW p \in Participants, ClientStep(p)
      PROVE  overtaken \subseteq overtaken' /\ UNCHANGED <<pending, invitation>>
  BY <1>5 DEF ClientStep, ClientReads, ClientInvites, ClientResponds, Ask, OvertakenIf, stored, history
<1>6. CASE \E d \in Connections, j \in InvitationIds : HandleInviteCreate(d, j)
  BY <1>2, <1>6
<1>7. CASE ~\E d \in Connections, j \in InvitationIds : HandleInviteCreate(d, j)
  BY <1>3, <1>4, <1>5, <1>7 DEF LobbyNext, ServerStep
<1> QED BY <1>6, <1>7

\* What happens to a queue: it is cleared, read, or gets one message, which is
\* a cancellation only if a handler had that left to send.
LEMMA InboxSteps ==
  ASSUME LobbyTypeInv, LobbyNext, NEW c \in Connections
  PROVE  \/ inbox'[c] = inbox[c] \/ inbox'[c] = <<>>
         \/ inbox[c] # <<>> /\ inbox'[c] = Tail(inbox[c])
         \/ \E m \in Messages :
              /\ inbox'[c] = Append(inbox[c], m)
              /\ \/ m.type # "invite_canceled"
                 \/ \E d \in Connections : \E k \in DOMAIN todo[d] : m = todo[d][k].message
<1>1. inbox \in [Connections -> Seq(Messages)] /\ snapshot \in [Connections -> Snapshots]
  BY DEF LobbyTypeInv, SendingOK
<1> DEFINE Goal == \/ inbox'[c] = inbox[c] \/ inbox'[c] = <<>>
                   \/ inbox[c] # <<>> /\ inbox'[c] = Tail(inbox[c])
                   \/ \E m \in Messages :
                        /\ inbox'[c] = Append(inbox[c], m)
                        /\ \/ m.type # "invite_canceled"
                           \/ \E d \in Connections : \E k \in DOMAIN todo[d] : m = todo[d][k].message
<1>2. ASSUME NEW cs, NEW m \in Messages, inbox' = Enqueued(cs, m),
             \/ m.type # "invite_canceled"
             \/ \E d \in Connections : \E k \in DOMAIN todo[d] : m = todo[d][k].message
      PROVE  Goal
  BY <1>2 DEF Enqueued
<1> HIDE DEF Goal
<1>3. ASSUME UNCHANGED inbox PROVE Goal
  BY <1>3 DEF Goal
<1>4. ASSUME NEW d \in Connections, SendWelcome(d) \/ SendLobby(d) \/ Greet(d) \/ BidFarewell(d)
      PROVE  Goal
  <2>1. PICK m \in Messages : m.type # "invite_canceled" /\ \E cs : inbox' = Enqueued(cs, m)
    <3>1. Welcomed.type = "welcome"
      BY DEF Welcomed
    <3>2. CASE SendWelcome(d)
      BY <3>1, <3>2, WelcomeTypes DEF SendWelcome
    <3>3. CASE SendLobby(d)
      BY <1>1, <3>3, WelcomeTypes DEF SendLobby, Snapshots
    <3>4. CASE Greet(d) \/ BidFarewell(d)
      BY <3>4, PresenceTypes, IdentityAssumption DEF Greet, BidFarewell, Broadcast
    <3> QED BY <1>4, <3>2, <3>3, <3>4
  <2> QED BY <1>2, <2>1
<1>5. ASSUME NEW d \in Connections, SendNext(d)
      PROVE  Goal
  <2>1. PICK m \in Messages :
          /\ \E cs : inbox' = Enqueued(cs, m) \/ inbox' = inbox
          /\ \E k \in DOMAIN todo[d] : m = todo[d][k].message
    <3>1. PICK s \in Announcements : NextIsSent(d, s)
      BY <1>5, SendNextMoves
    <3>2. /\ 1 \in DOMAIN todo[d] /\ s = todo[d][1] /\ s.message \in Messages
          /\ \E cs : inbox' = Enqueued(cs, s.message) \/ inbox' = inbox
      BY <3>1 DEF NextIsSent
    <3> QED BY <3>2
  <2> QED BY <1>2, <1>3, <2>1
<1>6. ASSUME NEW d \in Connections, Closes(d)
      PROVE  Goal
  BY <1>6 DEF Closes, Lost, Goal
<1>7. ASSUME NEW d \in Connections,
             \/ Plain(d) \/ SnapshotOnline(d) \/ (\E p \in Participants : SnapshotCheck(d, p))
             \/ SnapshotInvitations(d) \/ HandleRefused(d) \/ ClientConnects(d)
             \/ \E i \in InvitationIds : HandleMove(d, i)
      PROVE  UNCHANGED inbox
  BY <1>7 DEF Plain, SnapshotOnline, SnapshotCheck, SnapshotInvitations, HandleRefused, ClientConnects,
              HandleMove, lobbyVars, sending
<1>8. ASSUME NEW p \in Participants, ClientReads(p)
      PROVE  Goal
  BY <1>1, <1>8 DEF ClientReads, Goal
<1>9. ASSUME NEW p \in Participants, ClientStep(p), ~ClientReads(p)
      PROVE  UNCHANGED inbox
  BY <1>9 DEF ClientStep, ClientInvites, ClientResponds, Ask, sending
<1>10. Goal
  BY <1>3, <1>4, <1>5, <1>6, <1>7, <1>8, <1>9, HandlerSends DEF LobbyNext, ServerStep
<1> QED BY <1>10 DEF Goal

LEMMA CancelKinds ==
  ASSUME NEW i \in InvitationIds, NEW j \in InvitationIds, NEW p, NEW b
  PROVE  /\ InviteCanceled(i).type = "invite_canceled"
         /\ InviteCanceled(i) = InviteCanceled(j) => i = j
         /\ InviteCanceled(i) # Invited(j) /\ InviteCanceled(i) # PresenceUpdate(p, b)
<1>1. InviteCanceled(i).type = "invite_canceled" /\ InviteCanceled(i).id = i /\ InviteCanceled(j).id = j
  BY DEF InviteCanceled
<1>2. Invited(j).type = "invite" /\ PresenceUpdate(p, b).type = "presence_update"
  BY DEF Invited, PresenceUpdate
<1> QED BY <1>1, <1>2

LEMMA PairOf == ASSUME NEW a, NEW b PROVE
  DOMAIN <<a, b>> = 1..2 /\ <<a, b>>[1] = a /\ <<a, b>>[2] = b
OBVIOUS

LEMMA NextCancelInv ==
  ASSUME LobbyTypeInv, CancelInv, LobbyNext
  PROVE  CancelInv'
<1> SUFFICES ASSUME NEW i \in InvitationIds, NEW c \in Connections,
                    i \in pending' \/ invitation'[i] = NoInvitation
             PROVE  /\ \A k \in DOMAIN todo'[c] : todo'[c][k].message # InviteCanceled(i)
                    /\ \A k \in DOMAIN inbox'[c] : inbox'[c][k] # InviteCanceled(i)
  BY DEF CancelInv
<1>1. /\ inbox \in [Connections -> Seq(Messages)] /\ todo \in [Connections -> Seq(Announcements)]
      /\ invitation \in [InvitationIds -> Invitation \cup {NoInvitation}]
  BY DEF LobbyTypeInv, SendingOK, StoredOK
<1>2. i \in pending \/ invitation[i] = NoInvitation
  BY InvitationSteps DEF HandleInviteCreate
<1>3. \A d \in Connections : /\ \A k \in DOMAIN todo[d] : todo[d][k].message # InviteCanceled(i)
                             /\ \A k \in DOMAIN inbox[d] : inbox[d][k] # InviteCanceled(i)
  BY <1>2 DEF CancelInv
<1>4. \A k \in DOMAIN inbox'[c] : inbox'[c][k] # InviteCanceled(i)
  <2>1. CASE inbox'[c] = inbox[c] \/ inbox'[c] = <<>>
    BY <1>3, <2>1
  <2>2. CASE inbox[c] # <<>> /\ inbox'[c] = Tail(inbox[c])
    <3>1. \A k \in DOMAIN Tail(inbox[c]) : k + 1 \in DOMAIN inbox[c] /\ Tail(inbox[c])[k] = inbox[c][k + 1]
      BY <1>1, <2>2
    <3> QED BY <1>3, <2>2, <3>1
  <2>3. ASSUME NEW m \in Messages, inbox'[c] = Append(inbox[c], m),
               \/ m.type # "invite_canceled"
               \/ \E d \in Connections : \E k \in DOMAIN todo[d] : m = todo[d][k].message
        PROVE  \A k \in DOMAIN inbox'[c] : inbox'[c][k] # InviteCanceled(i)
    <3>1. m # InviteCanceled(i)
      BY <1>3, <2>3, CancelKinds
    <3>2. \A k \in DOMAIN Append(inbox[c], m) :
            Append(inbox[c], m)[k] = m \/ (k \in DOMAIN inbox[c] /\ Append(inbox[c], m)[k] = inbox[c][k])
      BY <1>1
    <3> QED BY <1>3, <2>3, <3>1, <3>2
  <2> QED BY <2>1, <2>2, <2>3, InboxSteps
<1>5. \A k \in DOMAIN todo'[c] : todo'[c][k].message # InviteCanceled(i)
  <2>1. ASSUME UNCHANGED todo PROVE \A k \in DOMAIN todo'[c] : todo'[c][k].message # InviteCanceled(i)
    BY <1>3, <2>1
  <2>2. ASSUME NEW d \in Connections, SendNext(d)
        PROVE  \A k \in DOMAIN todo'[c] : todo'[c][k].message # InviteCanceled(i)
    <3>1. PICK s \in Announcements : NextIsSent(d, s)
      BY <2>2, SendNextMoves
    <3>2. /\ \A j \in DOMAIN todo'[d] : \E k \in DOMAIN todo[d] : todo'[d][j].message = todo[d][k].message
          /\ \A e \in Connections \ {d} : todo'[e] = todo[e]
      BY <3>1 DEF NextIsSent
    <3> QED BY <1>3, <3>2
  <2>3. ASSUME NEW d \in Connections, NEW sends, Read(d, sends),
               \A k \in DOMAIN sends : sends[k].message # InviteCanceled(i)
        PROVE  \A k \in DOMAIN todo'[c] : todo'[c][k].message # InviteCanceled(i)
    BY <1>1, <1>3, <2>3 DEF Read
  <2>4. \A p, m : ToAll(m).message = m /\ ToSelf(m).message = m /\ ToOne(p, m).message = m
                  /\ IfConnected(p).message = PresenceUpdate(p, TRUE)
    BY DEF ToAll, ToSelf, ToOne, IfConnected
  <2>5. ASSUME NEW j \in InvitationIds
        PROVE  /\ \A k \in DOMAIN Unavailable(j) : Unavailable(j)[k].message # InviteCanceled(i)
               /\ \A k \in DOMAIN Available(j) : Available(j)[k].message # InviteCanceled(i)
    <3>1. \A a, b : a.message # InviteCanceled(i) /\ b.message # InviteCanceled(i) =>
            \A k \in DOMAIN <<a, b>> : <<a, b>>[k].message # InviteCanceled(i)
      BY PairOf
    <3>2. \A p : /\ ToAll(PresenceUpdate(p, FALSE)).message # InviteCanceled(i)
                 /\ IfConnected(p).message # InviteCanceled(i)
      <4>1. \A p, b : PresenceUpdate(p, b) # InviteCanceled(i)
        BY CancelKinds
      <4>2. \A p : IfConnected(p).message = PresenceUpdate(p, TRUE)
        BY DEF IfConnected
      <4>3. \A p : ToAll(PresenceUpdate(p, FALSE)).message = PresenceUpdate(p, FALSE)
        BY DEF ToAll
      <4> QED BY <4>1, <4>2, <4>3, Zenon
    <3> QED BY <3>1, <3>2, Zenon DEF Unavailable, Available
  <2>6. ASSUME NEW d \in Connections, HandleAccept(d)
        PROVE  \A k \in DOMAIN todo'[c] : todo'[c][k].message # InviteCanceled(i)
    BY <2>3, <2>5, <2>6, AskedTypes DEF HandleAccept
  <2>7. ASSUME NEW d \in Connections, HandleDecline(d)
        PROVE  \A k \in DOMAIN todo'[c] : todo'[c][k].message # InviteCanceled(i)
    <3>1. PICK j \in InvitationIds : j = request[d].id /\ Answer(d, j) /\ Read(d, Canceled(j))
      BY <2>7, AskedTypes DEF HandleDecline
    <3>2. j # i
      <4>1. j \in pending /\ invitation'[j] = invitation[j] /\ j \notin pending'
        BY <2>7, <3>1 DEF HandleDecline, Answer, MayAnswer
      <4> QED BY <4>1 DEF LobbyTypeInv, StoredOK
    <3>3. \A k \in DOMAIN Canceled(j) : Canceled(j)[k].message # InviteCanceled(i)
      <4>1. DOMAIN Canceled(j) = {1} /\ Canceled(j)[1] = ToOne(invitation[j].from, InviteCanceled(j))
        BY DEF Canceled
      <4> QED BY <2>4, <3>2, <4>1, CancelKinds
    <3> QED BY <2>3, <3>1, <3>3
  <2>8. ASSUME NEW d \in Connections, NEW j \in InvitationIds, HandleInviteCreate(d, j)
        PROVE  \A k \in DOMAIN todo'[c] : todo'[c][k].message # InviteCanceled(i)
    <3>1. PICK q : Read(d, <<ToSelf(Invited(j)), ToOne(q, Invited(j))>>)
      BY <2>8 DEF HandleInviteCreate
    <3>2. ToSelf(Invited(j)).message # InviteCanceled(i) /\ ToOne(q, Invited(j)).message # InviteCanceled(i)
      BY <2>4, CancelKinds
    <3> QED BY <2>3, <3>1, <3>2, PairOf
  <2>9. ASSUME NEW d \in Connections, NEW j \in InvitationIds, HandleLastMove(d, j)
        PROVE  \A k \in DOMAIN todo'[c] : todo'[c][k].message # InviteCanceled(i)
    BY <2>3, <2>5, <2>9 DEF HandleLastMove
  <2>10. ASSUME NEW d \in Connections,
                \/ Plain(d) \/ Closes(d) \/ Greet(d) \/ BidFarewell(d) \/ HandleRefused(d)
                \/ SendWelcome(d) \/ SnapshotOnline(d) \/ (\E p \in Participants : SnapshotCheck(d, p))
                \/ SnapshotInvitations(d) \/ SendLobby(d) \/ ClientConnects(d)
                \/ \E j \in InvitationIds : HandleMove(d, j)
         PROVE  UNCHANGED todo
    BY <2>10 DEF Plain, Closes, Greet, BidFarewell, HandleRefused, SendWelcome, SnapshotOnline,
       SnapshotCheck, SnapshotInvitations, SendLobby, ClientConnects, HandleMove, lobbyVars, sending
  <2>11. ASSUME NEW p \in Participants, ClientStep(p)
         PROVE  UNCHANGED todo
    BY <2>11 DEF ClientStep, ClientReads, ClientInvites, ClientResponds, Ask, sending
  <2> QED BY <2>1, <2>2, <2>6, <2>7, <2>8, <2>9, <2>10, <2>11 DEF LobbyNext, ServerStep
<1> QED BY <1>4, <1>5

\* As long as c remains the connection of its client, what is going to arrive
\* on it still arrives if none of its parts is lost.
LEMMA ArrivesKept ==
  ASSUME NEW c \in Connections, NEW i \in InvitationIds, ArrivesAt(c, i),
         Own(c)' =>
           /\ Own(c)
           /\ snapshot'[c].at = "send" => i \in snapshot'[c].invitations
           /\ (AfterLobby(c)' /\ hub'[Identity[c]] = c) =>
                /\ AfterLobby(c) /\ hub[Identity[c]] = c
                /\ ToBeTold(i) => ToBeTold(i)' \/ Tells(inbox'[c], i)
                /\ Tells(inbox[c], i) => Tells(inbox'[c], i)
                /\ Spares(inbox[c], i) => Spares(inbox'[c], i)
                /\ i \in shown[Identity[c]] => i \in shown'[Identity[c]]
                /\ Answering(c, i) => Answering(c, i)'
  PROVE  ArrivesAt(c, i)'
BY DEF ArrivesAt

\* The connections go on: no message is lost but those of other connections.
LEMMA ArrivesOnPlain ==
  ASSUME LobbyTypeInv, NEW c \in Connections, NEW i \in InvitationIds, ArrivesAt(c, i),
         NEW d \in Connections, Plain(d) \/ Closes(d) \/ Greet(d) \/ BidFarewell(d)
  PROVE  ArrivesAt(c, i)'
<1> PICK p \in Participants : p = Identity[c]
  BY IdentityAssumption
<1>1. /\ pc \in [Connections -> Pcs] /\ socket \in [Connections -> Sockets]
      /\ hub \in [Participants -> Connections \cup {NoConnection}]
      /\ displaced \in [Connections -> Connections \cup {NoConnection}]
      /\ Identity \in [Connections -> Participants] /\ NoConnection \notin Connections
      /\ inbox[c] \in Seq(Messages)
  BY IdentityAssumption, NobodyAssumption DEF LobbyTypeInv, ConnInv, ConnTypeOK, SendingOK
<1>2. UNCHANGED <<invitation, snapshot, todo, request, using, shown>>
  BY DEF Plain, Closes, Greet, BidFarewell, lobbyVars, stored, sending, client
<1>3. ToBeTold(i)' = ToBeTold(i) /\ Answering(c, i)' = Answering(c, i)
  BY <1>2 DEF ToBeTold, Answering
<1>4. CASE Plain(d) \/ Greet(d) \/ BidFarewell(d)
  <2>1. UNCHANGED socket /\ (AfterLobby(c)' => AfterLobby(c))
    BY <1>4, PlainSteps
  <2>2. AfterLobby(c)' /\ hub'[p] = c => hub[p] = c
    <3>1. CASE Register(d)
      <4>1. pc'[d] = "closeOld" /\ hub' = [hub EXCEPT ![Identity[d]] = d]
        BY <1>1, <3>1 DEF Register, Step
      <4> QED BY <1>1, <4>1 DEF AfterLobby
    <3>2. CASE Unregister(d)
      BY <1>1, <3>2 DEF Unregister
    <3>3. CASE ~Register(d) /\ ~Unregister(d)
      BY <1>4, <3>3 DEF Plain, Greet, BidFarewell, ReadHello, SetOnline, FirstHeartbeat,
         UpsertParticipant, ReadFails, UnregisterSuperseded, SetOffline, AnnounceOnline, AnnounceOffline
    <3> QED BY <3>1, <3>2, <3>3
  <2>3. /\ Tells(inbox[c], i) => Tells(inbox'[c], i)
        /\ Spares(inbox[c], i) => Spares(inbox'[c], i)
    <3>1. \/ inbox'[c] = inbox[c]
          \/ \E m \in Messages : ~IsLobby(m) /\ inbox'[c] = Append(inbox[c], m)
      BY <1>4, PlainQueues
    <3>2. ASSUME NEW m \in Messages, ~IsLobby(m)
          PROVE  /\ Tells(inbox[c], i) => Tells(Append(inbox[c], m), i)
                 /\ Spares(inbox[c], i) => Spares(Append(inbox[c], m), i)
      BY <1>1, <3>2, AppendTells
    <3> QED BY <3>1, <3>2
  <2>4. Own(c)' = Own(c)
    BY <1>2, <2>1 DEF Own
  <2>5. snapshot'[c].at = "send" /\ Own(c) => i \in snapshot'[c].invitations
    BY <1>2 DEF ArrivesAt
  <2> QED BY <1>2, <1>3, <2>1, <2>2, <2>3, <2>4, <2>5, ArrivesKept
<1>5. CASE Closes(d)
  <2>1. UNCHANGED hub /\ inbox'[c] = (IF socket'[c] = "closed" THEN <<>> ELSE inbox[c])
    BY <1>5 DEF Closes, Lost, RejectHello, CloseOld, PeerCloses, OnlySocket
  <2>2. socket'[c] = "open" => socket[c] = "open" /\ (AfterLobby(c)' => AfterLobby(c))
    <3>1. CASE RejectHello(d)
      BY <1>1, <3>1 DEF RejectHello, Step, Closed, AfterLobby
    <3>2. CASE CloseOld(d)
      BY <1>1, <3>2 DEF CloseOld, Step, SocketsAfterRegister, Closed, AfterLobby
    <3>3. CASE PeerCloses(d)
      BY <1>1, <3>3 DEF PeerCloses, OnlySocket, Closed, AfterLobby
    <3> QED BY <1>5, <3>1, <3>2, <3>3 DEF Closes
  <2>3. Own(c)' => Own(c) /\ inbox'[c] = inbox[c] /\ (AfterLobby(c)' => AfterLobby(c))
    BY <1>2, <2>1, <2>2 DEF Own
  <2>4. snapshot'[c].at = "send" /\ Own(c) => i \in snapshot'[c].invitations
    BY <1>2 DEF ArrivesAt
  <2> QED BY <1>2, <1>3, <2>1, <2>3, <2>4, ArrivesKept
<1> QED BY <1>4, <1>5

\* What a handler sends next, it was still to tell, and has told then.
LEMMA ArrivesOnSend ==
  ASSUME LobbyTypeInv, NEW c \in Connections, NEW i \in InvitationIds, ArrivesAt(c, i),
         invitation[i].to = Identity[c], NEW d \in Connections, SendNext(d)
  PROVE  ArrivesAt(c, i)'
<1> PICK p \in Participants : p = Identity[c]
  BY IdentityAssumption
<1>1. inbox \in [Connections -> Seq(Messages)] /\ inbox[c] \in Seq(Messages)
  BY DEF LobbyTypeInv, SendingOK
<1>2. UNCHANGED <<invitation, snapshot, request, using, shown, hub, socket>>
  BY DEF SendNext, Dispatched, connVars, stored, client
<1>3. AfterLobby(c)' => AfterLobby(c)
  BY PlainSteps
<1>0. PICK s \in Announcements : NextIsSent(d, s)
  BY SendNextMoves
<1>4. /\ 1 \in DOMAIN todo[d] /\ s = todo[d][1] /\ s.message \in Messages /\ ~IsLobby(s.message)
      /\ \A k \in DOMAIN todo[d] : k # 1 => \E j \in DOMAIN todo'[d] : todo'[d][j] = todo[d][k]
      /\ \A e \in Connections \ {d} : todo'[e] = todo[e]
      /\ \E cs : inbox' = Enqueued(cs, s.message) \/ inbox' = inbox
      /\ s.how = "one" => inbox' = Enqueued({hub[s.who]}, s.message)
  BY <1>0 DEF NextIsSent
<1>5. inbox'[c] = inbox[c] \/ inbox'[c] = Append(inbox[c], s.message)
  BY <1>4 DEF Enqueued
<1>6. /\ Tells(inbox[c], i) => Tells(inbox'[c], i)
      /\ Spares(inbox[c], i) => Spares(inbox'[c], i)
  BY <1>1, <1>4, <1>5, AppendTells
<1>7. ToBeTold(i) /\ socket[c] = "open" /\ hub[p] = c => ToBeTold(i)' \/ Tells(inbox'[c], i)
  <2> SUFFICES ASSUME NEW e \in Connections, NEW k \in DOMAIN todo[e],
                      todo[e][k] = ToOne(p, Invited(i)), socket[c] = "open", hub[p] = c
               PROVE  ToBeTold(i)' \/ Tells(inbox'[c], i)
    BY DEF ToBeTold
  <2>1. CASE e # d
    BY <1>2, <1>4, <2>1 DEF ToBeTold
  <2>2. CASE e = d /\ k # 1
    <3>1. PICK j \in DOMAIN todo'[d] : todo'[d][j] = ToOne(p, Invited(i))
      BY <1>4, <2>2
    <3> QED BY <1>2, <3>1 DEF ToBeTold
  <2>3. CASE e = d /\ k = 1
    <3>1. s.how = "one" /\ s.who = p /\ s.message = Invited(i)
      BY <1>4, <2>3 DEF ToOne
    <3>2. inbox'[c] = Append(inbox[c], Invited(i))
      BY <1>4, <3>1 DEF Enqueued
    <3>3. /\ Invited(i) \in Messages /\ Mentions(Invited(i), i) /\ ~IsLobby(Invited(i))
      BY <3>1, <1>4 DEF Mentions
    <3> QED BY <1>1, <3>2, <3>3, AppendTells
  <2> QED BY <2>1, <2>2, <2>3
<1>8. Own(c)' = Own(c) /\ Answering(c, i)' = Answering(c, i) /\ (Own(c) => socket[c] = "open")
  BY <1>2 DEF Own, Answering
<1>9. snapshot'[c].at = "send" /\ Own(c) => i \in snapshot'[c].invitations
  BY <1>2 DEF ArrivesAt
<1> QED BY <1>2, <1>3, <1>6, <1>7, <1>8, <1>9, ArrivesKept

\* The lobby_state of c lists i.
LEMMA ArrivesOnWelcome ==
  ASSUME LobbyTypeInv, SelfInv, NEW c \in Connections, NEW i \in pending, ArrivesAt(c, i),
         invitation[i].to = Identity[c], NEW d \in Connections,
         \/ SendWelcome(d) \/ SnapshotOnline(d) \/ (\E p \in Participants : SnapshotCheck(d, p))
         \/ SnapshotInvitations(d) \/ SendLobby(d)
  PROVE  ArrivesAt(c, i)'
<1> PICK p \in Participants : p = Identity[c]
  BY IdentityAssumption
<1>1. /\ inbox \in [Connections -> Seq(Messages)] /\ inbox[c] \in Seq(Messages)
      /\ snapshot \in [Connections -> Snapshots] /\ snapshot[c] \in Snapshots
      /\ pc \in [Connections -> Pcs] /\ i \in InvitationIds
  BY DEF LobbyTypeInv, SendingOK, StoredOK, ConnInv, ConnTypeOK
<1>2. UNCHANGED <<invitation, todo, request, using, shown, hub, socket>>
  BY DEF SendWelcome, SnapshotOnline, SnapshotCheck, SnapshotInvitations, SendLobby, Welcome,
         connVars, stored, client
<1>3. Own(c)' = Own(c) /\ Answering(c, i)' = Answering(c, i) /\ ToBeTold(i)' = ToBeTold(i)
      /\ (Own(c) => socket[c] = "open")
  BY <1>2 DEF Own, Answering, ToBeTold
<1>4. CASE d # c
  <2>1. snapshot'[c] = snapshot[c]
    BY <1>4, SnapshotSteps
  <2>2. inbox'[c] = inbox[c] /\ pc'[c] = pc[c]
    BY <1>1, <1>4 DEF SendWelcome, SnapshotOnline, SnapshotCheck, SnapshotInvitations, SendLobby,
                      Enqueued, Welcome, Step, connVars
  <2>3. AfterLobby(c)' = AfterLobby(c)
    BY <2>2 DEF AfterLobby
  <2>4. snapshot'[c].at = "send" /\ Own(c) => i \in snapshot'[c].invitations
    BY <2>1 DEF ArrivesAt
  <2> QED BY <1>1, <1>2, <1>3, <2>1, <2>2, <2>3, <2>4, ArrivesKept
<1>5. CASE d = c /\ SendLobby(c)
  <2>1. snapshot'[c].at # "send"
    BY <1>5, SnapshotSteps
  <2>2. PICK m \in Messages : /\ m = LobbyState(snapshot[c].online, snapshot[c].invitations)
                              /\ IsLobby(m) /\ m.invitations = snapshot[c].invitations
    <3>1. \A ps, is : LobbyState(ps, is).invitations = is
      BY DEF LobbyState
    <3> QED BY <1>1, <3>1, WelcomeTypes DEF Snapshots, IsLobby
  <2>3. socket[c] = "open" => inbox'[c] = Append(inbox[c], m)
    BY <1>5, <2>2 DEF SendLobby, Enqueued
  <2>4. Own(c) => i \in m.invitations /\ Mentions(m, i)
    BY <1>5, <2>2 DEF ArrivesAt, SendLobby, Mentions, IsLobby
  <2>5. Own(c) => Tells(inbox'[c], i)
    BY <1>1, <1>3, <2>3, <2>4, AppendTells
  <2> QED BY <1>3, <2>1, <2>5 DEF ArrivesAt
<1>6. CASE d = c /\ ~SendLobby(c)
  <2>1. snapshot[c].at # "welcome" => pc[c] = "welcome"
    BY DEF SelfInv, SelfAt
  <2>2. pc[c] = "welcome" /\ UNCHANGED pc
    BY <1>6, <2>1 DEF SendWelcome, SnapshotOnline, SnapshotCheck, SnapshotInvitations, connVars
  <2>3. ~AfterLobby(c)'
    BY <2>2 DEF AfterLobby
  <2>4. snapshot'[c].at = "send" => i \in snapshot'[c].invitations
    <3>1. CASE SnapshotInvitations(c)
      BY <1>1, <3>1 DEF SnapshotInvitations, InvitationsOf, Involves, Snapshots
    <3>2. CASE ~SnapshotInvitations(c)
      <4>1. snapshot[c] = [at |-> snapshot[c].at, left |-> snapshot[c].left,
                           online |-> snapshot[c].online, invitations |-> snapshot[c].invitations]
        BY <1>1 DEF Snapshots
      <4>2. snapshot'[c].at # "send"
        <5>1. CASE SendWelcome(c)
          BY <1>1, <4>1, <5>1 DEF SendWelcome
        <5>2. CASE SnapshotOnline(c)
          BY <1>1, <4>1, <5>2 DEF SnapshotOnline
        <5>3. ASSUME NEW q \in Participants, SnapshotCheck(c, q)
              PROVE  snapshot'[c].at # "send"
          <6>1. snapshot[c].at = "check"
            BY <5>3 DEF SnapshotCheck
          <6> QED BY <1>1, <4>1, <5>3, <6>1 DEF SnapshotCheck
        <5> QED BY <1>6, <3>2, <5>1, <5>2, <5>3
      <4> QED BY <4>2
    <3> QED BY <3>1, <3>2
  <2> QED BY <2>3, <2>4 DEF ArrivesAt
<1> QED BY <1>4, <1>5, <1>6

\* A handler reads a request: what it has to tell is added to what others have,
\* and an answer that it reads is not to i, which stays pending.
LEMMA ArrivesOnRequest ==
  ASSUME LobbyTypeInv, DispatchInv, NEW c \in Connections, NEW i \in pending, ArrivesAt(c, i),
         i \in pending', invitation'[i] = invitation[i], invitation[i].to = Identity[c],
         NEW d \in Connections,
         \/ HandleAccept(d) \/ HandleDecline(d) \/ HandleRefused(d)
         \/ \E j \in InvitationIds :
              HandleInviteCreate(d, j) \/ HandleMove(d, j) \/ HandleLastMove(d, j)
  PROVE  ArrivesAt(c, i)'
<1>1. /\ todo \in [Connections -> Seq(Announcements)]
      /\ request \in [Connections -> Requests \cup {NoRequest}]
      /\ i \in InvitationIds
  BY DEF LobbyTypeInv, SendingOK, ClientsOK, StoredOK
<1>2. /\ AfterLobby(c)' => AfterLobby(c)
      /\ UNCHANGED <<socket, snapshot, using, hub, inbox, shown>>
  <2>1. AfterLobby(c)' => AfterLobby(c)
    BY PlainSteps
  <2> QED BY <2>1 DEF HandleAccept, HandleDecline, HandleRefused, HandleInviteCreate, HandleMove,
          HandleLastMove, Read, ReadMessage, connVars, sending, client
<1>3. ToBeTold(i) => ToBeTold(i)'
  <2> SUFFICES ASSUME NEW e \in Connections, NEW k \in DOMAIN todo[e],
                      todo[e][k] = ToOne(invitation[i].to, Invited(i))
               PROVE  ToBeTold(i)'
    BY DEF ToBeTold
  <2>1. todo'[e] = todo[e]
    <3>1. CASE UNCHANGED todo
      BY <3>1
    <3>2. ASSUME NEW sends, Read(d, sends) PROVE todo'[e] = todo[e]
      <4>1. pc[d] = "read" /\ todo' = [todo EXCEPT ![d] = sends]
        BY <3>2 DEF Read, ReadMessage, Step
      <4>2. todo[d] = <<>>
        BY <4>1 DEF DispatchInv
      <4> QED BY <1>1, <4>1, <4>2
    <3> QED BY <3>1, <3>2 DEF HandleAccept, HandleDecline, HandleRefused, HandleInviteCreate,
            HandleMove, HandleLastMove, sending
  <2> QED BY <2>1 DEF ToBeTold
<1>4. Answering(c, i) => Answering(c, i)'
  <2> SUFFICES ASSUME NEW b \in BOOLEAN, request[c] = InviteRespond(i, b)
               PROVE  request'[c] = request[c]
    BY DEF Answering
  <2>1. request[c].type = "invite_respond" /\ request[c].id = i /\ request[c] # NoRequest
    <3>1. InviteRespond(i, b) \in Requests
      BY <1>1 DEF Requests
    <3> QED BY <3>1, NothingAsked DEF InviteRespond
  <2>2. request' = [request EXCEPT ![d] = NoRequest] \/ UNCHANGED request
    BY DEF HandleAccept, HandleDecline, HandleRefused, HandleInviteCreate, HandleMove,
           HandleLastMove, Read, client
  <2>3. d = c => UNCHANGED request
    BY <2>1 DEF HandleAccept, HandleDecline, HandleRefused, HandleInviteCreate, HandleMove,
                HandleLastMove, Answer, MayAnswer, Asked, client
  <2> QED BY <1>1, <2>2, <2>3
<1>5. Own(c)' = Own(c)
  BY <1>2 DEF Own
<1>6. snapshot'[c].at = "send" /\ Own(c) => i \in snapshot'[c].invitations
  BY <1>2 DEF ArrivesAt
<1> QED BY <1>1, <1>2, <1>3, <1>4, <1>5, <1>6, ArrivesKept

\* A client connects, or starts again: its new connection has its lobby_state
\* still to come.
LEMMA ArrivesOnConnect ==
  ASSUME LobbyTypeInv, SelfInv, NEW c \in Connections, NEW i \in InvitationIds, ArrivesAt(c, i),
         invitation[i].to = Identity[c], NEW d \in Connections, ClientConnects(d)
  PROVE  ArrivesAt(c, i)'
<1> PICK p \in Participants : p = Identity[c]
  BY IdentityAssumption
<1>1. /\ pc \in [Connections -> Pcs] /\ using \in [Participants -> Connections \cup {NoConnection}]
      /\ shown \in [Participants -> SUBSET InvitationIds] /\ Identity[d] \in Participants
      /\ socket \in [Connections -> Sockets]
  BY IdentityAssumption DEF LobbyTypeInv, ConnInv, ConnTypeOK, ClientsOK
<1>2. /\ UNCHANGED <<invitation, snapshot, todo, inbox, request, hub>>
      /\ using' = [using EXCEPT ![Identity[d]] = d]
      /\ pc[d] = "off" /\ pc'[d] = "hello" /\ (c # d => pc'[c] = pc[c] /\ socket'[c] = socket[c])
      /\ Identity[d] # p => shown'[p] = shown[p]
  BY <1>1 DEF ClientConnects, AcceptSocket, Step, stored, sending
<1>3. CASE c = d
  <2>1. snapshot[c].at = "welcome"
    BY <1>2, <1>3 DEF SelfInv, SelfAt
  <2>2. ~AfterLobby(c)'
    BY <1>2, <1>3 DEF AfterLobby
  <2> QED BY <1>2, <2>1, <2>2 DEF ArrivesAt
<1>4. CASE c # d /\ Identity[d] = p
  <2>1. ~Own(c)'
    BY <1>1, <1>2, <1>4 DEF Own
  <2> QED BY <2>1 DEF ArrivesAt
<1>5. CASE c # d /\ Identity[d] # p
  <2>1. Own(c)' = Own(c) /\ AfterLobby(c)' = AfterLobby(c)
    BY <1>1, <1>2, <1>5 DEF Own, AfterLobby
  <2>2. ToBeTold(i)' = ToBeTold(i) /\ Answering(c, i)' = Answering(c, i)
    BY <1>2 DEF ToBeTold, Answering
  <2>3. snapshot'[c].at = "send" /\ Own(c) => i \in snapshot'[c].invitations
    BY <1>2 DEF ArrivesAt
  <2> QED BY <1>2, <1>5, <2>1, <2>2, <2>3, ArrivesKept
<1> QED BY <1>3, <1>4, <1>5

\* A client reads: what it reads shows i or spares it.
LEMMA ArrivesOnRead ==
  ASSUME LobbyTypeInv, CancelInv, NEW c \in Connections, NEW i \in pending, ArrivesAt(c, i),
         invitation[i].to = Identity[c], NEW q \in Participants, ClientReads(q)
  PROVE  ArrivesAt(c, i)'
<1> PICK p \in Participants : p = Identity[c]
  BY IdentityAssumption
<1>1. /\ inbox \in [Connections -> Seq(Messages)] /\ inbox[c] \in Seq(Messages) /\ i \in InvitationIds
      /\ shown \in [Participants -> SUBSET InvitationIds]
      /\ using[q] \in Connections /\ Identity[using[q]] = q
  BY DEF LobbyTypeInv, SendingOK, StoredOK, ClientsOK, ClientReads, Live
<1>2. UNCHANGED <<invitation, snapshot, todo, request, using, hub, socket, pc>>
  BY DEF ClientReads, connVars, stored
<1>3. /\ Own(c)' = Own(c) /\ AfterLobby(c)' = AfterLobby(c)
      /\ ToBeTold(i)' = ToBeTold(i) /\ Answering(c, i)' = Answering(c, i)
  BY <1>2 DEF Own, AfterLobby, ToBeTold, Answering
<1>4. snapshot'[c].at = "send" /\ Own(c) => i \in snapshot'[c].invitations
  BY <1>2 DEF ArrivesAt
<1>5. CASE using[q] # c
  <2>1. inbox'[c] = inbox[c]
    BY <1>1, <1>5 DEF ClientReads
  <2>2. Own(c) => shown'[p] = shown[p]
    BY <1>1, <1>5 DEF Own, ClientReads
  <2> QED BY <1>1, <1>2, <1>3, <1>4, <2>1, <2>2, ArrivesKept
<1>6. CASE using[q] = c
  <2>1. q = p /\ inbox[c] # <<>> /\ inbox'[c] = Tail(inbox[c])
    BY <1>1, <1>6 DEF ClientReads
  <2>2. PICK m \in Messages : m = Head(inbox[c]) /\ m = inbox[c][1] /\ 1 \in DOMAIN inbox[c]
    BY <1>1, <2>1
  <2>3. shown'[p] = ShownAfter(p, m)
    BY <1>1, <1>6, <2>1, <2>2 DEF ClientReads
  <2>4. /\ Tells(inbox[c], i) => Tells(inbox'[c], i) \/ (Mentions(m, i) /\ Spares(inbox'[c], i))
        /\ Spares(inbox[c], i) => (IsLobby(m) => i \in m.invitations) /\ Spares(inbox'[c], i)
    BY <1>1, <2>1, <2>2, TailTells
  <2>5. Mentions(m, i) => i \in shown'[p]
    BY <1>1, <2>3, MentionFacts DEF ShownAfter, IsLobby
  <2>6. i \in shown[p] /\ (IsLobby(m) => i \in m.invitations) => i \in shown'[p]
    <3>1. m # InviteCanceled(i)
      BY <1>1, <2>2 DEF CancelInv
    <3>2. m.type = "invite_canceled" => m.id # i
      BY <1>1, <3>1, MentionFacts
    <3> QED BY <2>3, <3>2 DEF ShownAfter, IsLobby
  <2> QED BY <1>2, <1>3, <1>4, <2>4, <2>5, <2>6 DEF ArrivesAt
<1> QED BY <1>5, <1>6

\* A client asks: an answer to i, when nothing about i is on its way, or
\* something else.
LEMMA ArrivesOnAsk ==
  ASSUME LobbyTypeInv, NEW c \in Connections, NEW i \in pending, ArrivesAt(c, i),
         i \notin overtaken', invitation[i].to = Identity[c], NEW q \in Participants,
         \/ \E r \in Participants : ClientInvites(q, r)
         \/ \E j \in InvitationIds, accept \in BOOLEAN : ClientResponds(q, j, accept)
  PROVE  ArrivesAt(c, i)'
<1> PICK p \in Participants : p = Identity[c]
  BY IdentityAssumption
<1>1. /\ i \in InvitationIds /\ shown \in [Participants -> SUBSET InvitationIds]
      /\ request \in [Connections -> Requests \cup {NoRequest}]
      /\ inbox \in [Connections -> Seq(Messages)]
  BY DEF LobbyTypeInv, SendingOK, StoredOK, ClientsOK
<1>2. PICK r : Ask(q, r)
  BY DEF ClientInvites, ClientResponds
<1>3. UNCHANGED <<invitation, snapshot, todo, inbox, using, hub, socket, pc>>
  BY <1>2 DEF Ask, connVars, stored, sending
<1>4. /\ Own(c)' = Own(c) /\ AfterLobby(c)' = AfterLobby(c) /\ ToBeTold(i)' = ToBeTold(i)
  BY <1>3 DEF Own, AfterLobby, ToBeTold
<1>5. snapshot'[c].at = "send" /\ Own(c) => i \in snapshot'[c].invitations
  BY <1>3 DEF ArrivesAt
<1>6. Answering(c, i) => Answering(c, i)'
  <2> SUFFICES ASSUME NEW b \in BOOLEAN, request[c] = InviteRespond(i, b)
               PROVE  request'[c] = request[c]
    BY DEF Answering
  <2>1. request[c] # NoRequest
    <3>1. InviteRespond(i, b) \in Requests
      BY <1>1 DEF Requests
    <3> QED BY <3>1, NothingAsked
  <2> QED BY <1>1, <1>2, <2>1 DEF Ask
<1>7. CASE i \in shown[p] => i \in shown'[p]
  <2>1. inbox'[c] = inbox[c] /\ hub' = hub
    BY <1>3
  <2> QED BY <1>1, <1>4, <1>5, <1>6, <1>7, <2>1, ArrivesKept
<1>8. ASSUME NEW j \in InvitationIds, NEW accept \in BOOLEAN, ClientResponds(q, j, accept),
             i \in shown[p], i \notin shown'[p]
      PROVE  ArrivesAt(c, i)'
  <2>1. j = i /\ q = p
    BY <1>1, <1>8 DEF ClientResponds
  <2>2. ~Unread(i, using[p])
    BY <1>8, <2>1 DEF ClientResponds, OvertakenIf
  <2>3. ~ToBeTold(i)
    <3>1. ToOne(p, Invited(i)).message = Invited(i)
      BY DEF ToOne
    <3> QED BY <2>2, <3>1 DEF Unread, ToBeTold
  <2>4. Own(c) => ~Tells(inbox[c], i)
    BY <2>2 DEF Unread, Tells, Own
  <2>5. Own(c) => Answering(c, i)'
    <3>1. Own(c) => request'[c] = InviteRespond(i, accept)
      BY <1>1, <1>8, <2>1 DEF Own, ClientResponds, Ask
    <3> QED BY <3>1 DEF Answering
  <2> QED BY <1>3, <1>4, <1>5, <2>3, <2>4, <2>5 DEF ArrivesAt
<1>9. ASSUME NEW s \in Participants, ClientInvites(q, s)
      PROVE  shown'[p] = shown[p]
  BY <1>9 DEF ClientInvites
<1> QED BY <1>7, <1>8, <1>9

\* A new invitation: its invitee is to be told, and no lobby_state that lacks
\* it is about to be sent to the invitee.
LEMMA ArrivesWhenMade ==
  ASSUME LobbyTypeInv, DispatchInv, NEW c \in Connections, NEW d \in Connections,
         NEW i \in InvitationIds, HandleInviteCreate(d, i),
         i \notin overtaken', invitation'[i].to = Identity[c]
  PROVE  ArrivesAt(c, i)'
<1> PICK q : q = request[d].to
  OBVIOUS
<1>1. /\ invitation \in [InvitationIds -> Invitation \cup {NoInvitation}]
      /\ todo \in [Connections -> Seq(Announcements)]
  BY DEF LobbyTypeInv, StoredOK, SendingOK
<1>2. invitation'[i].to = q /\ ~BeingListed(q)
  BY <1>1 DEF HandleInviteCreate, OvertakenIf
<1>3. snapshot'[c].at # "send"
  BY <1>2 DEF HandleInviteCreate, Read, BeingListed
<1>4. ToBeTold(i)'
  <2>1. todo'[d] = <<ToSelf(Invited(i)), ToOne(q, Invited(i))>>
    BY <1>1 DEF HandleInviteCreate, Read
  <2>2. 2 \in DOMAIN todo'[d] /\ todo'[d][2] = ToOne(q, Invited(i))
    BY <2>1, PairOf
  <2> QED BY <1>2, <2>2 DEF ToBeTold
<1> QED BY <1>3, <1>4 DEF ArrivesAt

LEMMA NextArrivalInv ==
  ASSUME LobbyTypeInv, SelfInv, DispatchInv, CancelInv, ArrivalInv, LobbyNext
  PROVE  ArrivalInv'
<1> SUFFICES ASSUME NEW i \in pending' \ overtaken', NEW c \in Connections,
                    Identity[c] = invitation'[i].to
             PROVE  ArrivesAt(c, i)'
  BY DEF ArrivalInv
<1>1. i \in InvitationIds
  BY StoredStays DEF StoredOK
<1>2. CASE \E d \in Connections : HandleInviteCreate(d, i)
  BY <1>1, <1>2, ArrivesWhenMade
<1>3. CASE ~\E d \in Connections : HandleInviteCreate(d, i)
  <2>1. i \in pending /\ i \notin overtaken /\ invitation'[i] = invitation[i]
    BY <1>1, <1>3, InvitationSteps
  <2>2. ArrivesAt(c, i) /\ invitation[i].to = Identity[c]
    BY <2>1 DEF ArrivalInv
  <2>3. ASSUME NEW d \in Connections, ServerStep(d)
        PROVE  ArrivesAt(c, i)'
    <3>1. CASE Plain(d) \/ Closes(d) \/ Greet(d) \/ BidFarewell(d)
      BY <1>1, <2>2, <3>1, ArrivesOnPlain
    <3>2. CASE SendNext(d)
      BY <1>1, <2>2, <3>2, ArrivesOnSend
    <3>3. CASE \/ SendWelcome(d) \/ SnapshotOnline(d) \/ (\E p \in Participants : SnapshotCheck(d, p))
               \/ SnapshotInvitations(d) \/ SendLobby(d)
      BY <2>1, <2>2, <3>3, ArrivesOnWelcome
    <3>4. CASE \/ HandleAccept(d) \/ HandleDecline(d) \/ HandleRefused(d)
               \/ \E j \in InvitationIds :
                    HandleInviteCreate(d, j) \/ HandleMove(d, j) \/ HandleLastMove(d, j)
      BY <2>1, <2>2, <3>4, ArrivesOnRequest
    <3> QED BY <2>3, <3>1, <3>2, <3>3, <3>4 DEF ServerStep
  <2>4. ASSUME NEW d \in Connections, ClientConnects(d)
        PROVE  ArrivesAt(c, i)'
    BY <1>1, <2>2, <2>4, ArrivesOnConnect
  <2>5. ASSUME NEW q \in Participants, ClientReads(q)
        PROVE  ArrivesAt(c, i)'
    BY <2>1, <2>2, <2>5, ArrivesOnRead
  <2>6. ASSUME NEW q \in Participants,
               \/ \E r \in Participants : ClientInvites(q, r)
               \/ \E j \in InvitationIds, accept \in BOOLEAN : ClientResponds(q, j, accept)
        PROVE  ArrivesAt(c, i)'
    BY <2>1, <2>2, <2>6, ArrivesOnAsk
  <2> QED BY <2>3, <2>4, <2>5, <2>6 DEF LobbyNext, ClientStep
<1> QED BY <1>2, <1>3

LobbyInv == LobbyTypeInv /\ SelfInv /\ DispatchInv /\ CancelInv /\ ArrivalInv

LEMMA InitLobbyInv == LobbyInit => LobbyInv
<1> SUFFICES ASSUME LobbyInit PROVE LobbyInv
  OBVIOUS
<1>1. /\ pending = {} /\ todo = [c \in Connections |-> <<>>] /\ inbox = [c \in Connections |-> <<>>]
  BY DEF LobbyInit, StartWith
<1>2. DispatchInv /\ CancelInv /\ ArrivalInv
  BY <1>1 DEF DispatchInv, CancelInv, ArrivalInv
<1> QED BY <1>2, InitLobbyTypeInv, InitSelfInv DEF LobbyInv

LEMMA NextLobbyInv == LobbyInv /\ [LobbyNext]_<<connVars, lobbyVars>> => LobbyInv'
<1> SUFFICES ASSUME LobbyInv, [LobbyNext]_<<connVars, lobbyVars>> PROVE LobbyInv'
  OBVIOUS
<1>1. CASE LobbyNext
  BY <1>1, NextLobbyTypeInv, NextSelfInv, NextDispatchInv, NextCancelInv, NextArrivalInv DEF LobbyInv
<1>2. CASE UNCHANGED <<connVars, lobbyVars>>
  <2>1. UNCHANGED <<pc, socket, hub, invitation, pending, snapshot, todo, inbox, request, using,
                    knowsSelf, list, shown, overtaken>>
    BY <1>2 DEF connVars, lobbyVars, stored, sending, client, history
  <2>2. LobbyTypeInv'
    BY <1>2, NextLobbyTypeInv DEF LobbyInv
  <2>3. SelfInv'
    BY <2>1 DEF LobbyInv, SelfInv, SelfAt, Own, AfterLobby
  <2>4. DispatchInv' /\ CancelInv'
    BY <2>1 DEF LobbyInv, DispatchInv, CancelInv
  <2>5. ArrivalInv'
    BY <2>1 DEF LobbyInv, ArrivalInv, ArrivesAt, Own, AfterLobby, ToBeTold, Answering
  <2> QED BY <2>2, <2>3, <2>4, <2>5 DEF LobbyInv
<1> QED BY <1>1, <1>2

\* Reconnects lose no invitation but two kinds: when everything that was sent has
\* arrived, an invitee who is connected is shown every pending invitation, however often
\* and in whatever order it was listed, sent, read and answered meanwhile, but
\* for one that was saved in the gap between ListInvitationsForParticipant and
\* its lobby_state, or answered with news of it still to be read.
THEOREM InvitationsAreNotLost == LobbySpec => []InvitationsArrive
<1>1. LobbyInv => InvitationsArrive
  <2> SUFFICES ASSUME LobbyInv, Quiet, NEW i \in pending \ overtaken, Connected(invitation[i].to)
               PROVE  i \in shown[invitation[i].to]
    BY DEF InvitationsArrive
  <2>1. i \in InvitationIds /\ invitation[i].to \in Participants
    BY DEF LobbyInv, LobbyTypeInv, StoredOK, Invitation
  <2>2. PICK p \in Participants : p = invitation[i].to
    BY <2>1
  <2>3. PICK c \in Connections : c = using[p] /\ Identity[c] = p
    BY <2>2 DEF Connected, Live, LobbyInv, LobbyTypeInv, ClientsOK
  <2>4. hub[p] = c /\ Own(c)
    BY <2>2, <2>3 DEF Connected, Live, Own
  <2>5. pc[c] = "read" /\ inbox[c] = <<>> /\ request[c] = NoRequest
    BY <2>3, <2>4 DEF LobbyInv, LobbyTypeInv, ConnInv, HubAgrees, Registered, Quiet
  <2>6. ~ToBeTold(i)
    BY DEF LobbyInv, DispatchInv, Quiet, ToBeTold
  <2>7. ~Answering(c, i)
    <3>1. \A b \in BOOLEAN : InviteRespond(i, b) \in Requests
      BY <2>1 DEF Requests
    <3> QED BY <2>5, <3>1, NothingAsked DEF Answering
  <2>8. ~Tells(inbox[c], i)
    BY <2>5 DEF Tells
  <2>9. ArrivesAt(c, i) /\ AfterLobby(c)
    BY <2>2, <2>3, <2>5 DEF LobbyInv, ArrivalInv, AfterLobby
  <2> QED BY <2>2, <2>3, <2>4, <2>6, <2>7, <2>8, <2>9 DEF ArrivesAt
<1>2. LobbySpec => []LobbyInv
  BY InitLobbyInv, NextLobbyInv, PTL DEF LobbySpec
<1> QED BY <1>1, <1>2, PTL

-----------------------------------------------------------------------------
(* What a step does, part by part.                                         *)

\* A connection that serves its client got there step by step.
LEMMA ServingSteps ==
  ASSUME LobbyTypeInv, LobbyNext, NEW c \in Connections
  PROVE  /\ AfterLobby(c) => AfterLobby(c)'
         /\ socket'[c] = "open" =>
              /\ socket[c] = "open" \/ pc'[c] = "hello"
              /\ AfterLobby(c)' => AfterLobby(c) \/ SendLobby(c)
         /\ hub'[Identity[c]] = c => hub[Identity[c]] = c \/ pc'[c] = "closeOld"
<1> PICK p \in Participants : p = Identity[c]
  BY IdentityAssumption
<1>1. /\ pc \in [Connections -> Pcs] /\ socket \in [Connections -> Sockets]
      /\ hub \in [Participants -> Connections \cup {NoConnection}]
      /\ displaced \in [Connections -> Connections \cup {NoConnection}]
      /\ NoConnection \notin Connections /\ Identity \in [Connections -> Participants]
  BY NobodyAssumption, IdentityAssumption DEF LobbyTypeInv, ConnInv, ConnTypeOK
<1> DEFINE Later == {"announce", "read", "dispatch", "unregister", "offline", "farewell", "done"}
           Goal == /\ AfterLobby(c) => AfterLobby(c)'
                   /\ socket'[c] = "open" =>
                        /\ socket[c] = "open" \/ pc'[c] = "hello"
                        /\ AfterLobby(c)' => AfterLobby(c) \/ SendLobby(c)
                   /\ hub'[p] = c => hub[p] = c \/ pc'[c] = "closeOld"
<1>2. ASSUME NEW d \in Connections, NEW from \in Pcs, NEW to \in Pcs, Step(d, from, to),
             to \in Later => from \in Later, from \in Later => to \in Later,
             UNCHANGED <<socket, hub>>
      PROVE  Goal
  <2>1. pc'[c] = pc[c] \/ (pc[c] = from /\ pc'[c] = to)
    BY <1>1, <1>2 DEF Step
  <2>2. AfterLobby(c)' = AfterLobby(c)
    BY <1>1, <1>2, <2>1 DEF AfterLobby, Pcs
  <2> QED BY <1>2, <2>2
<1>3. ASSUME UNCHANGED connVars PROVE Goal
  BY <1>3 DEF connVars, AfterLobby
<1>4. ASSUME NEW d \in Connections,
             \/ ReadHello(d) \/ SetOnline(d) \/ FirstHeartbeat(d) \/ UpsertParticipant(d)
             \/ AnnounceOnline(d) \/ ReadMessage(d) \/ Dispatched(d) \/ ReadFails(d)
             \/ UnregisterSuperseded(d) \/ SetOffline(d) \/ AnnounceOffline(d)
      PROVE  Goal
  <2> HIDE DEF Goal
  <2> SUFFICES \E from, to \in Pcs :
                 /\ Step(d, from, to)
                 /\ to \in Later => from \in Later
                 /\ from \in Later => to \in Later
                 /\ UNCHANGED <<socket, hub>>
    BY <1>2
  <2> QED BY <1>4 DEF Pcs, ReadHello, SetOnline, FirstHeartbeat, UpsertParticipant, AnnounceOnline,
          ReadMessage, Dispatched, ReadFails, UnregisterSuperseded, SetOffline, AnnounceOffline
<1>5. ASSUME NEW d \in Connections, Register(d)
      PROVE  Goal
  <2>1. /\ pc' = [pc EXCEPT ![d] = "closeOld"] /\ pc[d] = "register"
        /\ hub' = [hub EXCEPT ![Identity[d]] = d] /\ UNCHANGED socket
    BY <1>5 DEF Register, Step
  <2>2. c # d => pc'[c] = pc[c] /\ (hub'[p] = c => hub[p] = c)
    BY <1>1, <2>1
  <2>3. c = d => pc'[c] = "closeOld" /\ pc[c] = "register" /\ hub'[p] = c
    BY <1>1, <2>1
  <2> QED BY <2>1, <2>2, <2>3 DEF AfterLobby
<1>6. ASSUME NEW d \in Connections, Unregister(d)
      PROVE  Goal
  <2>1. /\ pc' = [pc EXCEPT ![d] = "offline"] /\ pc[d] = "unregister"
        /\ hub' = [hub EXCEPT ![Identity[d]] = NoConnection] /\ UNCHANGED socket
    BY <1>6 DEF Unregister, Step
  <2>2. c # d => pc'[c] = pc[c]
    BY <1>1, <2>1
  <2>3. c = d => pc'[c] = "offline" /\ pc[c] = "unregister"
    BY <1>1, <2>1
  <2>4. hub'[p] = c => hub[p] = c
    BY <1>1, <2>1
  <2> QED BY <2>1, <2>2, <2>3, <2>4 DEF AfterLobby
<1>7. ASSUME NEW d \in Connections, Closes(d)
      PROVE  Goal
  <2>1. UNCHANGED hub /\ (socket'[c] = "open" => socket[c] = "open")
    BY <1>1, <1>7 DEF Closes, RejectHello, CloseOld, PeerCloses, OnlySocket, Closed, SocketsAfterRegister
  <2>2. CASE RejectHello(d)
    <3>1. pc' = [pc EXCEPT ![d] = "done"] /\ pc[d] = "hello" /\ socket' = [socket EXCEPT ![d] = "closed"]
      BY <2>2 DEF RejectHello, Step, Closed
    <3>2. c # d => pc'[c] = pc[c]
      BY <1>1, <3>1
    <3>3. c = d => pc[c] = "hello" /\ pc'[c] = "done" /\ socket'[c] = "closed"
      BY <1>1, <3>1
    <3> QED BY <2>1, <3>2, <3>3 DEF AfterLobby
  <2>3. CASE CloseOld(d)
    <3>1. pc' = [pc EXCEPT ![d] = "welcome"] /\ pc[d] = "closeOld"
      BY <2>3 DEF CloseOld, Step
    <3>2. c # d => pc'[c] = pc[c]
      BY <1>1, <3>1
    <3>3. c = d => pc[c] = "closeOld" /\ pc'[c] = "welcome"
      BY <1>1, <3>1
    <3> QED BY <2>1, <3>2, <3>3 DEF AfterLobby
  <2>4. CASE PeerCloses(d)
    BY <2>1, <2>4 DEF PeerCloses, OnlySocket, AfterLobby
  <2> QED BY <1>7, <2>2, <2>3, <2>4 DEF Closes
<1>8. ASSUME NEW d \in Connections, SendLobby(d)
      PROVE  Goal
  <2>1. pc' = [pc EXCEPT ![d] = "announce"] /\ pc[d] = "welcome" /\ UNCHANGED <<socket, hub>>
    BY <1>8 DEF SendLobby, Welcome, Step
  <2>2. c # d => pc'[c] = pc[c]
    BY <1>1, <2>1
  <2>3. c = d => pc[c] = "welcome" /\ pc'[c] = "announce"
    BY <1>1, <2>1
  <2> QED BY <1>8, <2>1, <2>2, <2>3 DEF AfterLobby
<1>9. ASSUME NEW d \in Connections, ClientConnects(d)
      PROVE  Goal
  <2>1. /\ pc' = [pc EXCEPT ![d] = "hello"] /\ pc[d] = "off" /\ UNCHANGED hub
        /\ socket' = [socket EXCEPT ![d] = "open"]
    BY <1>9 DEF ClientConnects, AcceptSocket, Step
  <2>2. c # d => pc'[c] = pc[c] /\ socket'[c] = socket[c]
    BY <1>1, <2>1
  <2>3. c = d => pc[c] = "off" /\ pc'[c] = "hello"
    BY <1>1, <2>1
  <2> QED BY <2>1, <2>2, <2>3 DEF AfterLobby
<1> HIDE DEF Goal
<1>10. ASSUME NEW d \in Connections, Plain(d) \/ Greet(d) \/ BidFarewell(d)
       PROVE  Goal
  BY <1>4, <1>5, <1>6, <1>10 DEF Plain, Greet, BidFarewell
<1>11. ASSUME NEW d \in Connections,
              \/ HandleAccept(d) \/ HandleDecline(d) \/ HandleRefused(d) \/ SendNext(d)
              \/ SendWelcome(d) \/ SnapshotOnline(d) \/ (\E q \in Participants : SnapshotCheck(d, q))
              \/ SnapshotInvitations(d)
              \/ \E i \in InvitationIds :
                   HandleInviteCreate(d, i) \/ HandleMove(d, i) \/ HandleLastMove(d, i)
       PROVE  Goal
  <2>1. ReadMessage(d) \/ Dispatched(d) \/ UNCHANGED connVars
    BY <1>11 DEF HandleAccept, HandleDecline, HandleRefused, SendNext, SendWelcome, SnapshotOnline,
       SnapshotCheck, SnapshotInvitations, HandleInviteCreate, HandleMove, HandleLastMove, Read
  <2> QED BY <1>3, <1>4, <2>1
<1>12. ASSUME NEW q \in Participants, ClientStep(q)
       PROVE  Goal
  <2>1. UNCHANGED connVars
    BY <1>12 DEF ClientStep, ClientReads, ClientInvites, ClientResponds, Ask
  <2> QED BY <1>3, <2>1
<1>13. Goal
  BY <1>7, <1>8, <1>9, <1>10, <1>11, <1>12 DEF LobbyNext, ServerStep
<1> QED BY <1>13 DEF Goal

Alive(c) == pc[c] \notin {"off", "done"}

\* A goroutine begins with its connection, and greets after its lobby_state.
LEMMA PhaseSteps ==
  ASSUME LobbyTypeInv, LobbyNext, NEW c \in Connections
  PROVE  /\ Alive(c)' => Alive(c) \/ ClientConnects(c)
         /\ pc[c] = "announce" => pc'[c] = "announce" \/ Greet(c)
         /\ SendLobby(c) => pc'[c] = "announce"
<1>1. pc \in [Connections -> Pcs]
  BY DEF LobbyTypeInv, ConnInv, ConnTypeOK
<1> DEFINE Goal == /\ Alive(c)' => Alive(c) \/ ClientConnects(c)
                   /\ pc[c] = "announce" => pc'[c] = "announce" \/ Greet(c)
<1>2. ASSUME NEW d \in Connections, NEW from, NEW to, Step(d, from, to),
             from \notin {"off", "done"}, from = "announce" => Greet(d)
      PROVE  Goal
  <2>1. pc'[c] = pc[c] \/ (d = c /\ pc[c] = from)
    BY <1>1, <1>2 DEF Step
  <2> QED BY <1>2, <2>1 DEF Alive
<1>3. UNCHANGED pc => Goal
  BY DEF Alive
<1> HIDE DEF Goal
<1>4. ASSUME NEW d \in Connections,
             Plain(d) \/ Closes(d) \/ SendLobby(d) \/ Greet(d) \/ BidFarewell(d)
      PROVE  Goal
  <2>1. CASE Greet(d)
    BY <1>2, <2>1 DEF Greet, AnnounceOnline
  <2>2. CASE PeerCloses(d) /\ Closes(d)
    BY <1>3, <2>2 DEF PeerCloses, OnlySocket
  <2>3. CASE Plain(d) \/ RejectHello(d) \/ CloseOld(d) \/ SendLobby(d) \/ BidFarewell(d)
    <3>1. \E from \in Pcs \ {"off", "done", "announce"}, to \in Pcs : Step(d, from, to)
      BY <2>3 DEF Plain, SendLobby, BidFarewell, ReadHello, SetOnline, FirstHeartbeat, UpsertParticipant,
         Register, ReadFails, Unregister, UnregisterSuperseded, SetOffline, RejectHello, CloseOld,
         Welcome, AnnounceOffline, Pcs
    <3> QED BY <1>2, <3>1
  <2> QED BY <1>4, <2>1, <2>2, <2>3 DEF Closes
<1>5. ASSUME NEW d \in Connections, ClientConnects(d)
      PROVE  Goal
  <2>1. pc[d] = "off" /\ pc' = [pc EXCEPT ![d] = "hello"]
    BY <1>5 DEF ClientConnects, AcceptSocket, Step
  <2>2. CASE c = d
    BY <1>5, <2>1, <2>2 DEF Goal
  <2>3. CASE c # d
    BY <1>1, <2>1, <2>3 DEF Goal, Alive
  <2> QED BY <2>2, <2>3
<1>6. ASSUME NEW d \in Connections,
             \/ HandleAccept(d) \/ HandleDecline(d) \/ HandleRefused(d) \/ SendNext(d)
             \/ SendWelcome(d) \/ SnapshotOnline(d) \/ (\E q \in Participants : SnapshotCheck(d, q))
             \/ SnapshotInvitations(d)
             \/ \E i \in InvitationIds :
                  HandleInviteCreate(d, i) \/ HandleMove(d, i) \/ HandleLastMove(d, i)
      PROVE  Goal
  <2>1. Step(d, "read", "dispatch") \/ Step(d, "dispatch", "read") \/ UNCHANGED pc
    BY <1>6 DEF HandleAccept, HandleDecline, HandleRefused, SendNext, SendWelcome, SnapshotOnline,
       SnapshotCheck, SnapshotInvitations, HandleInviteCreate, HandleMove, HandleLastMove, Read,
       ReadMessage, Dispatched, connVars
  <2> QED BY <1>2, <1>3, <2>1
<1>7. ASSUME NEW q \in Participants, ClientStep(q)
      PROVE  UNCHANGED pc
  BY <1>7 DEF ClientStep, ClientReads, ClientInvites, ClientResponds, Ask, connVars
<1>8. Goal
  BY <1>3, <1>4, <1>5, <1>6, <1>7 DEF LobbyNext, ServerStep
<1>9. SendLobby(c) => pc'[c] = "announce"
  BY <1>1 DEF SendLobby, Welcome, Step
<1> QED BY <1>8, <1>9 DEF Goal

Greeted(p) == PresenceUpdate(p, TRUE)
Gone(p) == PresenceUpdate(p, FALSE)

\* What connections send themselves, but for lobby_state.
SentByConnection(m) ==
  \/ m = Welcomed
  \/ \E d \in Connections : Greet(d) /\ m = Greeted(Identity[d])
  \/ \E d \in Connections : BidFarewell(d) /\ m = Gone(Identity[d])

\* A queue loses what is lost with its connection and what its client reads,
\* and gets a lobby_state, what a handler sends, or what mentions nothing.
LEMMA QueueSteps ==
  ASSUME LobbyTypeInv, LobbyNext, NEW c \in Connections
  PROVE  \/ inbox'[c] = inbox[c]
         \/ inbox'[c] = <<>> /\ socket'[c] # "open"
         \/ /\ inbox[c] # <<>> /\ inbox'[c] = Tail(inbox[c])
            /\ using[Identity[c]] = c /\ ClientReads(Identity[c])
         \/ /\ SendLobby(c)
            /\ inbox'[c] = Append(inbox[c], LobbyState(snapshot[c].online, snapshot[c].invitations))
         \/ \E m \in Messages : /\ m.type \in {"welcome", "presence_update"} /\ SentByConnection(m)
                                /\ inbox'[c] = Append(inbox[c], m)
         \/ \E d \in Connections : \E s \in Announcements :
              /\ 1 \in DOMAIN todo[d] /\ s = todo[d][1]
              /\ inbox'[c] = Append(inbox[c], s.message)
              /\ s.how = "self" => c = d
              /\ s.how = "one" => c = hub[s.who]
              /\ SendNext(d) /\ s.message \in Messages /\ ~IsLobby(s.message)
<1> DEFINE Sent(d, s) == /\ 1 \in DOMAIN todo[d] /\ s = todo[d][1]
                         /\ inbox'[c] = Append(inbox[c], s.message)
                         /\ s.how = "self" => c = d
                         /\ s.how = "one" => c = hub[s.who]
                         /\ SendNext(d) /\ s.message \in Messages /\ ~IsLobby(s.message)
           Goal == \/ inbox'[c] = inbox[c]
                   \/ inbox'[c] = <<>> /\ socket'[c] # "open"
                   \/ /\ inbox[c] # <<>> /\ inbox'[c] = Tail(inbox[c])
                      /\ using[Identity[c]] = c /\ ClientReads(Identity[c])
                   \/ /\ SendLobby(c)
                      /\ inbox'[c] = Append(inbox[c], LobbyState(snapshot[c].online, snapshot[c].invitations))
                   \/ \E m \in Messages : /\ m.type \in {"welcome", "presence_update"} /\ SentByConnection(m)
                                          /\ inbox'[c] = Append(inbox[c], m)
                   \/ \E d \in Connections : \E s \in Announcements : Sent(d, s)
<1>1. inbox \in [Connections -> Seq(Messages)]
  BY DEF LobbyTypeInv, SendingOK
<1>2. \A cs, m : inbox' = Enqueued(cs, m) =>
                   inbox'[c] = inbox[c] \/ (c \in cs /\ inbox'[c] = Append(inbox[c], m))
  BY DEF Enqueued
<1>3. ASSUME NEW d \in Connections, SendWelcome(d) \/ Greet(d) \/ BidFarewell(d)
      PROVE  Goal
  <2>1. \E m \in Messages : /\ m.type \in {"welcome", "presence_update"} /\ SentByConnection(m)
                            /\ \E cs : inbox' = Enqueued(cs, m)
    <3>1. Welcomed.type = "welcome"
      BY DEF Welcomed
    <3>2. CASE SendWelcome(d)
      BY <3>1, <3>2, WelcomeTypes DEF SendWelcome, SentByConnection
    <3>3. CASE Greet(d)
      <4>1. PICK m : m = Greeted(Identity[d])
        OBVIOUS
      <4>2. m \in Messages /\ m.type = "presence_update"
        BY <4>1, PresenceTypes, IdentityAssumption, Zenon DEF Greeted
      <4>3. inbox' = Enqueued(Clients, m)
        BY <3>3, <4>1, Zenon DEF Greet, Broadcast, Greeted
      <4>4. SentByConnection(m)
        BY <3>3, <4>1 DEF SentByConnection
      <4> QED BY <4>2, <4>3, <4>4
    <3>4. CASE BidFarewell(d)
      <4>1. PICK m : m = Gone(Identity[d])
        OBVIOUS
      <4>2. m \in Messages /\ m.type = "presence_update"
        BY <4>1, PresenceTypes, IdentityAssumption, Zenon DEF Gone
      <4>3. inbox' = Enqueued(Clients, m)
        BY <3>4, <4>1, Zenon DEF BidFarewell, Broadcast, Gone
      <4>4. SentByConnection(m)
        BY <3>4, <4>1 DEF SentByConnection
      <4> QED BY <4>2, <4>3, <4>4
    <3> QED BY <1>3, <3>2, <3>3, <3>4
  <2> QED BY <1>2, <2>1
<1>4. ASSUME NEW d \in Connections, SendLobby(d)
      PROVE  Goal
  <2>1. inbox' = Enqueued({d}, LobbyState(snapshot[d].online, snapshot[d].invitations))
    BY <1>4 DEF SendLobby
  <2> QED BY <1>2, <1>4, <2>1
<1>5. ASSUME NEW d \in Connections, SendNext(d)
      PROVE  Goal
  <2>0. PICK s \in Announcements : NextIsSent(d, s)
    BY <1>5, SendNextMoves
  <2>1. /\ 1 \in DOMAIN todo[d] /\ s = todo[d][1] /\ s.message \in Messages /\ ~IsLobby(s.message)
        /\ \E cs : inbox' = Enqueued(cs, s.message) \/ inbox' = inbox
        /\ s.how = "self" => inbox' = Enqueued({d}, s.message)
        /\ s.how = "one" => inbox' = Enqueued({hub[s.who]}, s.message)
    BY <2>0 DEF NextIsSent
  <2>2. ASSUME inbox'[c] # inbox[c] PROVE Sent(d, s)
    <3>1. inbox'[c] = Append(inbox[c], s.message)
      BY <1>2, <2>1, <2>2
    <3>2. s.how = "self" => c = d
      BY <1>2, <2>1, <2>2
    <3>3. s.how = "one" => c = hub[s.who]
      BY <1>2, <2>1, <2>2
    <3> QED BY <1>5, <2>1, <3>1, <3>2, <3>3
  <2> HIDE DEF Sent
  <2> QED BY <2>2
<1>6. ASSUME NEW d \in Connections, Closes(d)
      PROVE  Goal
  BY <1>6 DEF Closes, Lost
<1>7. ASSUME NEW q \in Participants, ClientReads(q)
      PROVE  Goal
  <2>1. inbox' = [inbox EXCEPT ![using[q]] = Tail(@)] /\ inbox[using[q]] # <<>>
    BY <1>7 DEF ClientReads
  <2>2. using[q] = c => Identity[c] = q
    BY NobodyAssumption DEF LobbyTypeInv, ClientsOK
  <2> QED BY <1>1, <1>7, <2>1, <2>2
<1>8. ASSUME NEW d \in Connections,
             \/ Plain(d) \/ SnapshotOnline(d) \/ (\E p \in Participants : SnapshotCheck(d, p))
             \/ SnapshotInvitations(d) \/ HandleRefused(d) \/ ClientConnects(d)
             \/ \E i \in InvitationIds : HandleMove(d, i)
      PROVE  UNCHANGED inbox
  BY <1>8 DEF Plain, SnapshotOnline, SnapshotCheck, SnapshotInvitations, HandleRefused, ClientConnects,
              HandleMove, lobbyVars, sending
<1>9. ASSUME NEW p \in Participants, ClientStep(p), ~ClientReads(p)
      PROVE  UNCHANGED inbox
  BY <1>9 DEF ClientStep, ClientInvites, ClientResponds, Ask, sending
<1>10. UNCHANGED inbox => Goal
  OBVIOUS
<1> HIDE DEF Goal
<1>11. Goal
  BY <1>3, <1>4, <1>5, <1>6, <1>7, <1>8, <1>9, <1>10, HandlerSends DEF LobbyNext, ServerStep
<1> QED BY <1>11 DEF Goal

\* A client is shown more only by reading, or less; it uses another connection
\* only by opening it.
LEMMA ClientSteps ==
  ASSUME LobbyTypeInv, LobbyNext, NEW p \in Participants
  PROVE  /\ shown'[p] \subseteq shown[p] \/ ClientReads(p)
         /\ list'[p] = list[p] \/ ClientReads(p) \/ pc'[using'[p]] = "hello"
         /\ using'[p] = using[p] \/ pc'[using'[p]] = "hello"
<1>1. /\ shown \in [Participants -> SUBSET InvitationIds]
      /\ list \in [Participants -> SUBSET Participants]
      /\ using \in [Participants -> Connections \cup {NoConnection}]
      /\ pc \in [Connections -> Pcs]
  BY DEF LobbyTypeInv, ClientsOK, ConnInv, ConnTypeOK
<1> DEFINE Goal == /\ shown'[p] \subseteq shown[p] \/ ClientReads(p)
                   /\ list'[p] = list[p] \/ ClientReads(p) \/ pc'[using'[p]] = "hello"
                   /\ using'[p] = using[p] \/ pc'[using'[p]] = "hello"
<1>2. ASSUME UNCHANGED <<shown, using, list>> PROVE Goal
  BY <1>2
<1>3. ASSUME NEW d \in Connections, ServerStep(d)
      PROVE  UNCHANGED <<shown, using, list>>
  BY <1>3 DEF ServerStep, Plain, Closes, SendWelcome, SnapshotOnline, SnapshotCheck,
     SnapshotInvitations, SendLobby, Greet, BidFarewell, SendNext, HandleAccept, HandleDecline,
     HandleRefused, HandleInviteCreate, HandleMove, HandleLastMove, Read, lobbyVars, client
<1>4. ASSUME NEW d \in Connections, ClientConnects(d)
      PROVE  Goal
  <2>1. shown'[p] \subseteq shown[p]
    BY <1>1, <1>4 DEF ClientConnects
  <2>2. using'[p] = using[p] \/ (Identity[d] = p /\ using'[p] = d)
    BY <1>1, <1>4 DEF ClientConnects
  <2>3. pc'[d] = "hello"
    BY <1>1, <1>4 DEF ClientConnects, AcceptSocket, Step
  <2>4. list'[p] = list[p] \/ (Identity[d] = p /\ using'[p] = d)
    BY <1>1, <1>4 DEF ClientConnects
  <2> QED BY <2>1, <2>2, <2>3, <2>4
<1>5. ASSUME NEW q \in Participants, ClientStep(q)
      PROVE  Goal
  <2>1. UNCHANGED using
    BY <1>5 DEF ClientStep, ClientReads, ClientInvites, ClientResponds, Ask
  <2>2. CASE ClientReads(q)
    BY <1>1, <2>1, <2>2 DEF ClientReads
  <2>3. CASE \E r \in Participants : ClientInvites(q, r)
    BY <2>1, <2>3 DEF ClientInvites, Ask
  <2>4. CASE \E i \in InvitationIds, accept \in BOOLEAN : ClientResponds(q, i, accept)
    BY <1>1, <2>1, <2>4 DEF ClientResponds, Ask
  <2> QED BY <1>5, <2>2, <2>3, <2>4 DEF ClientStep
<1> HIDE DEF Goal
<1>6. Goal
  BY <1>2, <1>3, <1>4, <1>5 DEF LobbyNext
<1> QED BY <1>6 DEF Goal

\* A connection carries an answer that its client has just clicked, or already
\* did.
LEMMA AskSteps ==
  ASSUME LobbyTypeInv, LobbyNext, NEW c \in Connections, NEW i \in InvitationIds, Answering(c, i)'
  PROVE  \/ Answering(c, i)
         \/ /\ using[Identity[c]] = c
            /\ \E accept \in BOOLEAN : ClientResponds(Identity[c], i, accept)
<1>1. /\ request \in [Connections -> Requests \cup {NoRequest}]
      /\ \A p \in Participants : using[p] = c => Identity[c] = p
  BY NobodyAssumption DEF LobbyTypeInv, ClientsOK
<1>2. PICK b \in BOOLEAN : request'[c] = InviteRespond(i, b)
  BY DEF Answering
<1>3. /\ InviteRespond(i, b) \in Requests /\ InviteRespond(i, b) # NoRequest
      /\ InviteRespond(i, b).type = "invite_respond" /\ InviteRespond(i, b).id = i
  <2>1. InviteRespond(i, b) \in Requests
    BY DEF Requests
  <2> QED BY <2>1, NothingAsked DEF InviteRespond
<1>4. ASSUME request'[c] = request[c] PROVE Answering(c, i)
  BY <1>2, <1>4 DEF Answering
<1>5. ASSUME NEW d \in Connections, ServerStep(d) \/ ClientConnects(d)
      PROVE  Answering(c, i)
  <2>1. UNCHANGED request \/ request' = [request EXCEPT ![d] = NoRequest]
    BY <1>5 DEF ServerStep, Plain, Closes, SendWelcome, SnapshotOnline, SnapshotCheck,
       SnapshotInvitations, SendLobby, Greet, BidFarewell, SendNext, HandleAccept, HandleDecline,
       HandleRefused, HandleInviteCreate, HandleMove, HandleLastMove, Read, lobbyVars, client,
       ClientConnects
  <2>2. request'[c] = request[c]
    BY <1>1, <1>2, <1>3, <2>1
  <2> QED BY <1>4, <2>2
<1>6. ASSUME NEW q \in Participants, ClientReads(q)
      PROVE  Answering(c, i)
  BY <1>4, <1>6 DEF ClientReads
<1>7. ASSUME NEW q \in Participants, NEW r, Ask(q, r), request'[c] # request[c]
      PROVE  using[q] = c /\ r = InviteRespond(i, b)
  BY <1>1, <1>2, <1>7 DEF Ask
<1>8. ASSUME NEW q \in Participants, NEW r \in Participants, ClientInvites(q, r)
      PROVE  Answering(c, i)
  <2>1. InviteCreate(r) # InviteRespond(i, b)
    BY <1>3 DEF InviteCreate
  <2> QED BY <1>4, <1>7, <1>8, <2>1 DEF ClientInvites
<1>9. ASSUME NEW q \in Participants, NEW j \in InvitationIds, NEW accept \in BOOLEAN,
             ClientResponds(q, j, accept)
      PROVE  \/ Answering(c, i)
             \/ using[Identity[c]] = c /\ ClientResponds(Identity[c], i, accept)
  <2>1. InviteRespond(j, accept) = InviteRespond(i, b) => j = i
    BY DEF InviteRespond
  <2>2. Ask(q, InviteRespond(j, accept))
    BY <1>9 DEF ClientResponds
  <2>3. CASE request'[c] # request[c]
    <3>1. using[q] = c /\ j = i
      BY <1>7, <2>1, <2>2, <2>3
    <3>2. Identity[c] = q
      BY <1>1, <3>1
    <3> QED BY <1>9, <3>1, <3>2
  <2> QED BY <1>4, <2>3
<1> QED BY <1>5, <1>6, <1>8, <1>9 DEF LobbyNext, ClientStep

\* What a handler has still to send was so before, or is made of it, or it has
\* just read a request.
LEMMA TodoSteps ==
  ASSUME LobbyTypeInv, DispatchInv, LobbyNext, NEW d \in Connections
  PROVE  /\ \A k \in DOMAIN todo[d] : \/ \E j \in DOMAIN todo'[d] : todo'[d][j] = todo[d][k]
                                      \/ k = 1 /\ SendNext(d)
         /\ \/ \A j \in DOMAIN todo'[d] :
                 \/ \E k \in DOMAIN todo[d] : todo'[d][j] = todo[d][k]
                 \/ \E k \in DOMAIN todo[d] : /\ todo[d][k].how = "ifConnected"
                                              /\ todo'[d][j].message = todo[d][k].message
            \/ \E i \in InvitationIds :
                 \/ /\ HandleInviteCreate(d, i)
                    /\ todo'[d] = <<ToSelf(Invited(i)), ToOne(request[d].to, Invited(i))>>
                 \/ HandleAccept(d) /\ i = request[d].id /\ todo'[d] = Unavailable(i)
                 \/ HandleDecline(d) /\ i = request[d].id /\ todo'[d] = Canceled(i)
                 \/ HandleLastMove(d, i) /\ todo'[d] = Available(i)
<1>1. todo \in [Connections -> Seq(Announcements)]
  BY DEF LobbyTypeInv, SendingOK
<1> DEFINE Kept == /\ \A k \in DOMAIN todo[d] : \/ \E j \in DOMAIN todo'[d] : todo'[d][j] = todo[d][k]
                                                \/ k = 1 /\ SendNext(d)
                   /\ \A j \in DOMAIN todo'[d] :
                        \/ \E k \in DOMAIN todo[d] : todo'[d][j] = todo[d][k]
                        \/ \E k \in DOMAIN todo[d] : /\ todo[d][k].how = "ifConnected"
                                                     /\ todo'[d][j].message = todo[d][k].message
           Made(i) == \/ /\ HandleInviteCreate(d, i)
                         /\ todo'[d] = <<ToSelf(Invited(i)), ToOne(request[d].to, Invited(i))>>
                      \/ HandleAccept(d) /\ i = request[d].id /\ todo'[d] = Unavailable(i)
                      \/ HandleDecline(d) /\ i = request[d].id /\ todo'[d] = Canceled(i)
                      \/ HandleLastMove(d, i) /\ todo'[d] = Available(i)
<1>2. todo'[d] = todo[d] => Kept
  OBVIOUS
<1>3. ASSUME SendNext(d) PROVE Kept
  <2>0. PICK s \in Announcements : NextIsSent(d, s)
    BY <1>3, SendNextMoves
  <2>1. /\ 1 \in DOMAIN todo[d] /\ s = todo[d][1]
        /\ \A k \in DOMAIN todo[d] :
             k # 1 => \E j \in DOMAIN todo'[d] : todo'[d][j] = todo[d][k]
        /\ s.how # "ifConnected" =>
             \A j \in DOMAIN todo'[d] : \E k \in DOMAIN todo[d] : todo'[d][j] = todo[d][k]
        /\ s.how = "ifConnected" =>
             \A j \in DOMAIN todo'[d] : \/ todo'[d][j] = ToAll(s.message)
                                        \/ \E k \in DOMAIN todo[d] : todo'[d][j] = todo[d][k]
    BY <2>0 DEF NextIsSent
  <2>2. ToAll(s.message).message = s.message
    BY DEF ToAll
  <2> QED BY <1>3, <2>1, <2>2
<1>4. ASSUME NEW e \in Connections, SendNext(e), e # d PROVE todo'[d] = todo[d]
  BY <1>1, <1>4 DEF SendNext
<1>5. ASSUME NEW e \in Connections, NEW sends, Read(e, sends)
      PROVE  /\ pc[e] = "read" /\ todo[e] = <<>> /\ todo'[e] = sends
             /\ e # d => todo'[d] = todo[d]
  <2>1. pc[e] = "read" /\ todo' = [todo EXCEPT ![e] = sends]
    BY <1>5 DEF Read, ReadMessage, Step
  <2> QED BY <1>1, <2>1 DEF DispatchInv
<1> HIDE DEF Kept
<1>6. ASSUME NEW e \in Connections, NEW i \in InvitationIds, HandleInviteCreate(e, i)
      PROVE  Kept \/ (todo[d] = <<>> /\ Made(i))
  <2>1. Read(e, <<ToSelf(Invited(i)), ToOne(request[e].to, Invited(i))>>)
    BY <1>6 DEF HandleInviteCreate
  <2> QED BY <1>2, <1>5, <1>6, <2>1
<1>7. ASSUME NEW e \in Connections, HandleAccept(e)
      PROVE  Kept \/ (todo[d] = <<>> /\ \E i \in InvitationIds : Made(i))
  <2>1. Read(e, Unavailable(request[e].id)) /\ request[e].id \in InvitationIds
    BY <1>7, AskedTypes DEF HandleAccept
  <2> QED BY <1>2, <1>5, <1>7, <2>1
<1>8. ASSUME NEW e \in Connections, HandleDecline(e)
      PROVE  Kept \/ (todo[d] = <<>> /\ \E i \in InvitationIds : Made(i))
  <2>1. Read(e, Canceled(request[e].id)) /\ request[e].id \in InvitationIds
    BY <1>8, AskedTypes DEF HandleDecline
  <2> QED BY <1>2, <1>5, <1>8, <2>1
<1>9. ASSUME NEW e \in Connections, NEW i \in InvitationIds, HandleLastMove(e, i)
      PROVE  Kept \/ (todo[d] = <<>> /\ Made(i))
  <2>1. Read(e, Available(i))
    BY <1>9 DEF HandleLastMove
  <2> QED BY <1>2, <1>5, <1>9, <2>1
<1>10. ASSUME NEW e \in Connections,
              \/ Plain(e) \/ Closes(e) \/ Greet(e) \/ BidFarewell(e) \/ HandleRefused(e)
              \/ SendWelcome(e) \/ SnapshotOnline(e) \/ (\E p \in Participants : SnapshotCheck(e, p))
              \/ SnapshotInvitations(e) \/ SendLobby(e) \/ ClientConnects(e)
              \/ \E j \in InvitationIds : HandleMove(e, j)
       PROVE  UNCHANGED todo
  BY <1>10 DEF Plain, Closes, Greet, BidFarewell, HandleRefused, SendWelcome, SnapshotOnline,
     SnapshotCheck, SnapshotInvitations, SendLobby, ClientConnects, HandleMove, lobbyVars, sending
<1>11. ASSUME NEW p \in Participants, ClientStep(p)
       PROVE  UNCHANGED todo
  BY <1>11 DEF ClientStep, ClientReads, ClientInvites, ClientResponds, Ask, sending
<1> HIDE DEF Made
<1>12. Kept \/ (todo[d] = <<>> /\ \E i \in InvitationIds : Made(i))
  BY <1>2, <1>3, <1>4, <1>6, <1>7, <1>8, <1>9, <1>10, <1>11 DEF LobbyNext, ServerStep
<1> QED BY <1>12 DEF Kept, Made

\* What is about to be listed is pending, or was about to be listed.
LEMMA ListingSteps ==
  ASSUME LobbyTypeInv, LobbyNext, NEW c \in Connections, NEW i \in InvitationIds,
         snapshot'[c].at = "send", i \in snapshot'[c].invitations
  PROVE  \/ snapshot[c].at = "send" /\ i \in snapshot[c].invitations
         \/ i \in pending /\ i \in pending' /\ Involves(i, Identity[c])
<1>1. snapshot \in [Connections -> Snapshots] /\ snapshot[c] \in Snapshots
  BY DEF LobbyTypeInv, SendingOK
<1>2. snapshot[c] = [at |-> snapshot[c].at, left |-> snapshot[c].left,
                     online |-> snapshot[c].online, invitations |-> snapshot[c].invitations]
  BY <1>1 DEF Snapshots
<1>3. CASE snapshot'[c] = snapshot[c]
  BY <1>3
<1>4. CASE SendWelcome(c)
  BY <1>1, <1>2, <1>4 DEF SendWelcome
<1>5. CASE SnapshotOnline(c)
  BY <1>1, <1>2, <1>5 DEF SnapshotOnline
<1>6. ASSUME NEW q \in Participants, SnapshotCheck(c, q)
      PROVE  FALSE
  <2>1. snapshot[c].at = "check"
    BY <1>6 DEF SnapshotCheck
  <2> QED BY <1>1, <1>2, <1>6, <2>1 DEF SnapshotCheck
<1>7. CASE SnapshotInvitations(c)
  BY <1>1, <1>7 DEF SnapshotInvitations, InvitationsOf, stored
<1>8. CASE SendLobby(c)
  BY <1>1, <1>8 DEF SendLobby, NoSnapshot
<1>9. ASSUME NEW d \in Connections, d # c,
             \/ SendWelcome(d) \/ SnapshotOnline(d) \/ (\E p \in Participants : SnapshotCheck(d, p))
             \/ SnapshotInvitations(d) \/ SendLobby(d)
      PROVE  snapshot'[c] = snapshot[c]
  BY <1>9, SnapshotSteps
<1>10. ASSUME NEW d \in Connections,
              \/ Plain(d) \/ Closes(d) \/ Greet(d) \/ BidFarewell(d) \/ SendNext(d) \/ HandleAccept(d)
              \/ HandleDecline(d) \/ HandleRefused(d) \/ ClientConnects(d)
              \/ \E j \in InvitationIds :
                   HandleInviteCreate(d, j) \/ HandleMove(d, j) \/ HandleLastMove(d, j)
       PROVE  UNCHANGED snapshot
  BY <1>10 DEF Plain, Closes, Greet, BidFarewell, SendNext, HandleAccept, HandleDecline, HandleRefused,
     ClientConnects, HandleInviteCreate, HandleMove, HandleLastMove, Read, lobbyVars, sending
<1>11. ASSUME NEW q \in Participants, ClientStep(q)
       PROVE  UNCHANGED snapshot
  BY <1>11 DEF ClientStep, ClientReads, ClientInvites, ClientResponds, Ask, sending
<1> QED BY <1>3, <1>4, <1>5, <1>6, <1>7, <1>8, <1>9, <1>10, <1>11 DEF LobbyNext, ServerStep

\* An invitation stays what it is, a game that was agreed stays on record, and
\* only an answer makes an invitation no longer pending.
LEMMA RecordSteps ==
  ASSUME LobbyTypeInv, LobbyNext, NEW i \in InvitationIds, invitation[i] # NoInvitation
  PROVE  /\ invitation'[i] = invitation[i]
         /\ i \in active \cup moved => i \in active' \cup moved'
         /\ i \in pending' => i \in pending
         /\ i \in pending /\ i \notin pending' =>
              \E d \in Connections : /\ request[d] # NoRequest /\ request[d].type = "invite_respond"
                                     /\ request[d].id = i
                                     /\ HandleAccept(d) \/ HandleDecline(d)
<1>1. invitation \in [InvitationIds -> Invitation \cup {NoInvitation}]
  BY DEF LobbyTypeInv, StoredOK
<1> DEFINE Goal == /\ invitation'[i] = invitation[i]
                   /\ i \in active \cup moved => i \in active' \cup moved'
                   /\ i \in pending' => i \in pending
                   /\ i \in pending /\ i \notin pending' =>
                        \E d \in Connections : /\ request[d] # NoRequest /\ request[d].type = "invite_respond"
                                               /\ request[d].id = i
                                               /\ HandleAccept(d) \/ HandleDecline(d)
<1>2. ASSUME NEW d \in Connections, NEW j \in InvitationIds, HandleInviteCreate(d, j)
      PROVE  Goal
  <2>1. j # i /\ invitation'[i] = invitation[i]
    BY <1>1, <1>2 DEF HandleInviteCreate
  <2> QED BY <1>2, <2>1 DEF HandleInviteCreate
<1>3. ASSUME NEW d \in Connections, HandleAccept(d) \/ HandleDecline(d)
      PROVE  Goal
  <2>1. /\ Asked(d, "invite_respond") /\ pending' = pending \ {request[d].id}
        /\ UNCHANGED <<invitation, moved>>
        /\ active' = active \/ active' = active \cup {request[d].id}
    BY <1>3 DEF HandleAccept, HandleDecline, Answer, MayAnswer
  <2> QED BY <1>3, <2>1 DEF Asked
<1>4. ASSUME NEW d \in Connections, NEW j \in InvitationIds, HandleMove(d, j) \/ HandleLastMove(d, j)
      PROVE  Goal
  BY <1>4 DEF HandleMove, HandleLastMove
<1>5. ASSUME NEW d \in Connections,
             \/ Plain(d) \/ Closes(d) \/ Greet(d) \/ BidFarewell(d) \/ SendNext(d)
             \/ SendWelcome(d) \/ SnapshotOnline(d) \/ (\E p \in Participants : SnapshotCheck(d, p))
             \/ SnapshotInvitations(d) \/ SendLobby(d) \/ HandleRefused(d) \/ ClientConnects(d)
      PROVE  UNCHANGED <<pending, invitation, active, moved>>
  BY <1>5 DEF Plain, Closes, Greet, BidFarewell, SendNext, SendWelcome, SnapshotOnline, SnapshotCheck,
     SnapshotInvitations, SendLobby, HandleRefused, ClientConnects, lobbyVars, stored
<1>6. ASSUME NEW p \in Participants, ClientStep(p)
      PROVE  UNCHANGED <<pending, invitation, active, moved>>
  BY <1>6 DEF ClientStep, ClientReads, ClientInvites, ClientResponds, Ask, stored
<1>7. UNCHANGED <<pending, invitation, active, moved>> => Goal
  OBVIOUS
<1> HIDE DEF Goal
<1>8. Goal
  BY <1>2, <1>3, <1>4, <1>5, <1>6, <1>7 DEF LobbyNext, ServerStep
<1> QED BY <1>8 DEF Goal

-----------------------------------------------------------------------------
(* Whom an invitation is for.                                              *)

Party(i, p) == invitation[i] # NoInvitation /\ Involves(i, p)

\* A message about i is for its two parties, and is sent to them.
AddressedToParties(s, d, i) ==
  s.message = Invited(i) =>
    /\ invitation[i] # NoInvitation
    /\ \/ s.how = "self" /\ Identity[d] = invitation[i].from
       \/ s.how = "one" /\ s.who = invitation[i].to

\* Invitations are shown, listed and told to their two parties alone, and
\* answered by the invitee; connections are displaced by others of the same
\* participant.
PartiesInv ==
  /\ \A p \in Participants : hub[p] # NoConnection => Identity[hub[p]] = p
  /\ \A c \in Connections : displaced[c] # NoConnection => Identity[displaced[c]] = Identity[c]
  /\ \A i \in InvitationIds :
       /\ \A p \in Participants : i \in shown[p] => Party(i, p)
       /\ \A c \in Connections :
            /\ \A k \in DOMAIN inbox[c] : Mentions(inbox[c][k], i) => Party(i, Identity[c])
            /\ snapshot[c].at = "send" /\ i \in snapshot[c].invitations => Party(i, Identity[c])
            /\ \A k \in DOMAIN todo[c] : AddressedToParties(todo[c][k], c, i)
            /\ Answering(c, i) => invitation[i] # NoInvitation /\ Identity[c] = invitation[i].to

LEMMA SendParts ==
  ASSUME NEW m, NEW p
  PROVE  /\ ToSelf(m).message = m /\ ToSelf(m).how = "self"
         /\ ToOne(p, m).message = m /\ ToOne(p, m).how = "one" /\ ToOne(p, m).who = p
         /\ ToAll(m).message = m /\ IfConnected(p).message = PresenceUpdate(p, TRUE)
<1>1. ToSelf(m).message = m /\ ToSelf(m).how = "self"
  BY DEF ToSelf
<1>2. ToOne(p, m).message = m /\ ToOne(p, m).how = "one" /\ ToOne(p, m).who = p
  BY DEF ToOne
<1>3. ToAll(m).message = m
  BY DEF ToAll
<1>4. IfConnected(p).message = PresenceUpdate(p, TRUE)
  BY Zenon DEF IfConnected
<1> QED BY <1>1, <1>2, <1>3, <1>4

LEMMA InvitedKinds ==
  ASSUME NEW i, NEW j, NEW p, NEW b
  PROVE  /\ Invited(i) = Invited(j) => i = j
         /\ Invited(i) # InviteCanceled(j) /\ Invited(i) # PresenceUpdate(p, b)
         /\ Invited(i).type = "invite"
<1>1. Invited(i).type = "invite" /\ Invited(i).id = i /\ Invited(j).id = j
  BY DEF Invited
<1>2. InviteCanceled(j).type = "invite_canceled" /\ PresenceUpdate(p, b).type = "presence_update"
  BY DEF InviteCanceled, PresenceUpdate
<1> QED BY <1>1, <1>2

LEMMA QueueParts ==
  ASSUME NEW s \in Seq(Messages), NEW m \in Messages
  PROVE  /\ \A k \in DOMAIN Append(s, m) :
              Append(s, m)[k] = m \/ \E j \in DOMAIN s : Append(s, m)[k] = s[j]
         /\ s # <<>> => /\ \A k \in DOMAIN Tail(s) : \E j \in DOMAIN s : Tail(s)[k] = s[j]
                        /\ 1 \in DOMAIN s /\ Head(s) = s[1] /\ Head(s) \in Messages
<1>1. \A k \in DOMAIN Append(s, m) :
        Append(s, m)[k] = m \/ (k \in DOMAIN s /\ Append(s, m)[k] = s[k])
  OBVIOUS
<1>2. ASSUME s # <<>>
      PROVE  /\ \A k \in DOMAIN Tail(s) : k + 1 \in DOMAIN s /\ Tail(s)[k] = s[k + 1]
             /\ 1 \in DOMAIN s /\ Head(s) = s[1] /\ Head(s) \in Messages
  BY <1>2
<1> QED BY <1>1, <1>2

\* i is told by those who were to tell it, or by who has just made it.
LEMMA TellSteps ==
  ASSUME LobbyTypeInv, DispatchInv, PartiesInv, LobbyNext, NEW i \in InvitationIds,
         NEW d \in Connections, NEW j \in DOMAIN todo'[d], todo'[d][j].message = Invited(i)
  PROVE  \/ \E k \in DOMAIN todo[d] : todo'[d][j] = todo[d][k]
         \/ /\ HandleInviteCreate(d, i)
            /\ todo'[d][j] \in {ToSelf(Invited(i)), ToOne(request[d].to, Invited(i))}
<1>1. CASE \/ \E k \in DOMAIN todo[d] : todo'[d][j] = todo[d][k]
           \/ \E k \in DOMAIN todo[d] : /\ todo[d][k].how = "ifConnected"
                                        /\ todo'[d][j].message = todo[d][k].message
  BY <1>1 DEF PartiesInv, AddressedToParties
<1>2. ASSUME NEW a, NEW b, todo'[d] = <<a, b>>
      PROVE  todo'[d][j] = a \/ todo'[d][j] = b
  BY <1>2, PairOf
<1>3. ASSUME NEW k \in InvitationIds, HandleInviteCreate(d, k),
             todo'[d] = <<ToSelf(Invited(k)), ToOne(request[d].to, Invited(k))>>
      PROVE  /\ HandleInviteCreate(d, i)
             /\ todo'[d][j] \in {ToSelf(Invited(i)), ToOne(request[d].to, Invited(i))}
  <2>1. todo'[d][j] = ToSelf(Invited(k)) \/ todo'[d][j] = ToOne(request[d].to, Invited(k))
    BY <1>2, <1>3
  <2>2. Invited(k) = Invited(i)
    <3>1. /\ ToSelf(Invited(k)).message = Invited(k)
          /\ ToOne(request[d].to, Invited(k)).message = Invited(k)
      BY SendParts
    <3> QED BY <2>1, <3>1
  <2>3. k = i
    BY <2>2, InvitedKinds
  <2> QED BY <1>3, <2>1, <2>3
<1>4. ASSUME NEW k \in InvitationIds, todo'[d] = Unavailable(k)
      PROVE  FALSE
  <2>1. PICK p : todo'[d][j] = ToAll(PresenceUpdate(p, FALSE))
    BY <1>2, <1>4, Zenon DEF Unavailable
  <2>2. ToAll(PresenceUpdate(p, FALSE)).message = PresenceUpdate(p, FALSE)
    BY SendParts, Zenon
  <2>3. Invited(i) # PresenceUpdate(p, FALSE)
    BY InvitedKinds, Zenon
  <2> QED BY <2>1, <2>2, <2>3, Zenon
<1>5. ASSUME NEW k \in InvitationIds, todo'[d] = Available(k)
      PROVE  FALSE
  <2>1. PICK p : todo'[d][j] = IfConnected(p)
    BY <1>2, <1>5, Zenon DEF Available
  <2>2. IfConnected(p).message = PresenceUpdate(p, TRUE)
    BY SendParts, Zenon
  <2>3. Invited(i) # PresenceUpdate(p, TRUE)
    BY InvitedKinds, Zenon
  <2> QED BY <2>1, <2>2, <2>3, Zenon
<1>6. ASSUME NEW k \in InvitationIds, todo'[d] = Canceled(k)
      PROVE  FALSE
  <2>1. todo'[d][j] = ToOne(invitation[k].from, InviteCanceled(k))
    BY <1>6 DEF Canceled
  <2>2. ToOne(invitation[k].from, InviteCanceled(k)).message = InviteCanceled(k)
    BY SendParts
  <2>3. Invited(i) # InviteCanceled(k)
    BY InvitedKinds
  <2> QED BY <2>1, <2>2, <2>3
<1> QED BY <1>1, <1>3, <1>4, <1>5, <1>6, TodoSteps

\* Only a lobby_state that lists i, or an invite that a handler was to send to
\* a party, mentions i.
LEMMA MentionSteps ==
  ASSUME LobbyTypeInv, LobbyNext, PartiesInv, NEW i \in InvitationIds, NEW c \in Connections
  PROVE  \/ inbox'[c] = inbox[c]
         \/ inbox'[c] = <<>> /\ socket'[c] # "open"
         \/ /\ inbox[c] # <<>> /\ inbox'[c] = Tail(inbox[c])
            /\ using[Identity[c]] = c /\ ClientReads(Identity[c])
         \/ \E m \in Messages :
              /\ inbox'[c] = Append(inbox[c], m)
              /\ SendLobby(c) <=> IsLobby(m)
              /\ IsLobby(m) => m.invitations = snapshot[c].invitations /\ snapshot[c].at = "send"
              /\ Mentions(m, i) /\ ~IsLobby(m) =>
                   /\ Party(i, Identity[c])
                   /\ \E d \in Connections : \E k \in DOMAIN todo[d] : todo[d][k].message = Invited(i)
<1>1. CASE SendLobby(c)
  <2>1. PICK m : m = LobbyState(snapshot[c].online, snapshot[c].invitations)
    OBVIOUS
  <2>2. m \in Messages /\ IsLobby(m) /\ m.invitations = snapshot[c].invitations
    <3>1. \A ps, is : LobbyState(ps, is).invitations = is
      BY DEF LobbyState
    <3>2. snapshot[c].online \in SUBSET Participants /\ snapshot[c].invitations \in SUBSET InvitationIds
      BY DEF LobbyTypeInv, SendingOK, Snapshots
    <3> QED BY <2>1, <3>1, <3>2, WelcomeTypes DEF IsLobby
  <2>3. inbox'[c] = inbox[c] \/ inbox'[c] = Append(inbox[c], m)
    BY <1>1, <2>1 DEF SendLobby, Enqueued, LobbyTypeInv, SendingOK
  <2> QED BY <1>1, <2>2, <2>3 DEF SendLobby
<1>2. ASSUME ~SendLobby(c), NEW m \in Messages, inbox'[c] = Append(inbox[c], m),
             m.type \in {"welcome", "presence_update"}
      PROVE  /\ ~IsLobby(m) /\ ~Mentions(m, i)
  BY <1>2, InvitedKinds DEF Mentions, IsLobby
<1>3. ASSUME ~SendLobby(c), NEW d \in Connections, NEW s \in Announcements,
             1 \in DOMAIN todo[d] /\ s = todo[d][1],
             s.how = "self" => c = d, s.how = "one" => c = hub[s.who],
             s.message \in Messages, ~IsLobby(s.message), Mentions(s.message, i)
      PROVE  /\ Party(i, Identity[c])
             /\ \E e \in Connections : \E k \in DOMAIN todo[e] : todo[e][k].message = Invited(i)
  <2>1. s.message = Invited(i)
    BY <1>3 DEF Mentions, IsLobby
  <2>2. AddressedToParties(s, d, i)
    BY <1>3 DEF PartiesInv
  <2>3. invitation[i] # NoInvitation /\ invitation[i].to \in Participants
    BY <2>1, <2>2 DEF AddressedToParties, LobbyTypeInv, StoredOK, Invitation
  <2>4. Identity[c] \in {invitation[i].from, invitation[i].to}
    <3>1. CASE s.how = "self" /\ Identity[d] = invitation[i].from
      BY <1>3, <3>1
    <3>2. CASE s.how = "one" /\ s.who = invitation[i].to
      <4>1. hub[invitation[i].to] = c /\ c # NoConnection
        BY <1>3, <3>2, NobodyAssumption
      <4> QED BY <2>3, <4>1 DEF PartiesInv
    <3> QED BY <2>1, <2>2, <3>1, <3>2 DEF AddressedToParties
  <2> QED BY <1>3, <2>1, <2>3, <2>4 DEF Party, Involves
<1> QED BY <1>1, <1>2, <1>3, QueueSteps

LEMMA EntriesStay ==
  ASSUME ConnTypeOK, [ConnNext]_connVars,
         \A p \in Participants : hub[p] # NoConnection => Identity[hub[p]] = p,
         \A c \in Connections : displaced[c] # NoConnection => Identity[displaced[c]] = Identity[c]
  PROVE  /\ \A p \in Participants : hub'[p] # NoConnection => Identity[hub'[p]] = p
         /\ \A c \in Connections : displaced'[c] # NoConnection => Identity[displaced'[c]] = Identity[c]
<1>1. /\ hub \in [Participants -> Connections \cup {NoConnection}]
      /\ displaced \in [Connections -> Connections \cup {NoConnection}]
      /\ Identity \in [Connections -> Participants]
  BY IdentityAssumption DEF ConnTypeOK
<1>2. CASE UNCHANGED <<hub, displaced>>
  BY <1>2
<1>3. ASSUME NEW d \in Connections, Register(d)
      PROVE  /\ hub' = [hub EXCEPT ![Identity[d]] = d]
             /\ displaced' = [displaced EXCEPT ![d] = hub[Identity[d]]]
  BY <1>3 DEF Register
<1>4. ASSUME NEW d \in Connections, Unregister(d)
      PROVE  hub' = [hub EXCEPT ![Identity[d]] = NoConnection] /\ UNCHANGED displaced
  BY <1>4 DEF Unregister
<1>5. \/ UNCHANGED <<hub, displaced>>
      \/ \E d \in Connections : Register(d) \/ Unregister(d)
  BY DEF ConnNext, connVars, AcceptSocket, Handshake, RejectHello, ReadHello, SetOnline, FirstHeartbeat,
     UpsertParticipant, CloseOld, Welcome, AnnounceOnline, ReadHeartbeat, ReadMessage, Disconnect,
     Dispatched, ReadFails, UnregisterSuperseded, SetOffline, AnnounceOffline, PeerCloses, PeerVanishes,
     WriteFails, OnlySocket, Expire, SweepStep, SweepStart, SweepCheck, SweepGet, SweepClose, SweepEnd,
     OnlySweep
<1>6. ASSUME NEW d \in Connections, Register(d) \/ Unregister(d)
      PROVE  /\ \A p \in Participants : hub'[p] # NoConnection => Identity[hub'[p]] = p
             /\ \A c \in Connections : displaced'[c] # NoConnection => Identity[displaced'[c]] = Identity[c]
  BY <1>1, <1>3, <1>4, <1>6
<1> QED BY <1>2, <1>5, <1>6

\* What a client reads mentions i, or i is shown no more than before.
LEMMA ReadMentions ==
  ASSUME LobbyTypeInv, NEW p \in Participants, ClientReads(p), NEW i \in InvitationIds,
         i \in shown'[p]
  PROVE  i \in shown[p] \/ Mentions(Head(inbox[using[p]]), i)
<1>1. shown'[p] = ShownAfter(p, Head(inbox[using[p]]))
  BY DEF ClientReads, LobbyTypeInv, ClientsOK
<1>2. Head(inbox[using[p]]) \in Messages
  BY DEF LobbyTypeInv, ClientsOK, SendingOK, ClientReads, Live
<1> QED BY <1>1, <1>2, MentionFacts DEF ShownAfter, Mentions

LEMMA NextPartiesInv ==
  ASSUME LobbyTypeInv, DispatchInv, PartiesInv, LobbyNext
  PROVE  PartiesInv'
<1>1. /\ \A p \in Participants : hub'[p] # NoConnection => Identity[hub'[p]] = p
      /\ \A c \in Connections : displaced'[c] # NoConnection => Identity[displaced'[c]] = Identity[c]
  BY EntriesStay, LobbyStepsConnect DEF PartiesInv, LobbyTypeInv, ConnInv
<1>2. /\ invitation \in [InvitationIds -> Invitation \cup {NoInvitation}]
      /\ inbox \in [Connections -> Seq(Messages)]
      /\ \A i \in pending : i \in InvitationIds /\ invitation[i] # NoInvitation
      /\ \A p \in Participants : using[p] # NoConnection => using[p] \in Connections /\ Identity[using[p]] = p
      /\ Identity \in [Connections -> Participants]
  BY IdentityAssumption DEF LobbyTypeInv, StoredOK, SendingOK, ClientsOK
<1>3. ASSUME NEW i \in InvitationIds, NEW p \in Participants, Party(i, p)
      PROVE  Party(i, p)'
  BY <1>3, RecordSteps DEF Party, Involves
<1>4. ASSUME NEW i \in InvitationIds, NEW p \in Participants, i \in shown'[p]
      PROVE  Party(i, p)
  <2>1. CASE i \in shown[p]
    BY <2>1 DEF PartiesInv
  <2>2. CASE i \notin shown[p]
    <3>1. ClientReads(p)
      BY <1>4, <2>2, ClientSteps
    <3>2. PICK c \in Connections : c = using[p] /\ Identity[c] = p /\ inbox[c] # <<>>
      BY <1>2, <3>1 DEF ClientReads, Live
    <3>3. Mentions(Head(inbox[c]), i)
      BY <1>4, <2>2, <3>1, <3>2, ReadMentions
    <3>4. 1 \in DOMAIN inbox[c] /\ Head(inbox[c]) = inbox[c][1]
      BY <1>2, <3>2
    <3> QED BY <3>2, <3>3, <3>4 DEF PartiesInv
  <2> QED BY <2>1, <2>2
<1>5. ASSUME NEW i \in InvitationIds, NEW c \in Connections,
             NEW k \in DOMAIN inbox'[c], Mentions(inbox'[c][k], i)
      PROVE  Party(i, Identity[c])
  <2>1. CASE \E j \in DOMAIN inbox[c] : inbox'[c][k] = inbox[c][j]
    BY <1>5, <2>1 DEF PartiesInv
  <2>2. ASSUME NEW m \in Messages, inbox'[c][k] = m,
               IsLobby(m) => m.invitations = snapshot[c].invitations /\ snapshot[c].at = "send",
               Mentions(m, i) /\ ~IsLobby(m) => Party(i, Identity[c])
        PROVE  Party(i, Identity[c])
    <3>1. CASE IsLobby(m)
      <4>1. i \in snapshot[c].invitations
        BY <1>5, <2>2, <3>1, MentionFacts
      <4> QED BY <2>2, <3>1, <4>1 DEF PartiesInv
    <3> QED BY <1>5, <2>2, <3>1
  <2>3. CASE inbox'[c] = inbox[c] \/ inbox'[c] = <<>>
    BY <1>5, <2>1, <2>3
  <2>4. CASE inbox[c] # <<>> /\ inbox'[c] = Tail(inbox[c])
    <3>1. \A j \in DOMAIN Tail(inbox[c]) : \E l \in DOMAIN inbox[c] : Tail(inbox[c])[j] = inbox[c][l]
      BY <1>2, <2>4, QueueParts, WelcomeTypes
    <3> QED BY <1>5, <2>1, <2>4, <3>1
  <2>5. ASSUME NEW m \in Messages, inbox'[c] = Append(inbox[c], m),
               IsLobby(m) => m.invitations = snapshot[c].invitations /\ snapshot[c].at = "send",
               Mentions(m, i) /\ ~IsLobby(m) => Party(i, Identity[c])
        PROVE  Party(i, Identity[c])
    <3>1. inbox'[c][k] = m \/ \E j \in DOMAIN inbox[c] : inbox'[c][k] = inbox[c][j]
      BY <1>2, <1>5, <2>5, QueueParts
    <3> QED BY <2>1, <2>2, <2>5, <3>1
  <2> QED BY <2>3, <2>4, <2>5, MentionSteps
<1>6. ASSUME NEW i \in InvitationIds, NEW c \in Connections,
             snapshot'[c].at = "send", i \in snapshot'[c].invitations
      PROVE  Party(i, Identity[c])
  BY <1>2, <1>6, ListingSteps DEF PartiesInv, Party
<1>7. ASSUME NEW i \in InvitationIds, NEW c \in Connections,
             NEW k \in DOMAIN todo'[c], todo'[c][k].message = Invited(i)
      PROVE  /\ invitation'[i] # NoInvitation
             /\ \/ todo'[c][k].how = "self" /\ Identity[c] = invitation'[i].from
                \/ todo'[c][k].how = "one" /\ todo'[c][k].who = invitation'[i].to
  <2>1. CASE \E j \in DOMAIN todo[c] : todo'[c][k] = todo[c][j]
    <3>1. PICK j \in DOMAIN todo[c] : todo'[c][k] = todo[c][j]
      BY <2>1
    <3>2. AddressedToParties(todo[c][j], c, i)
      BY DEF PartiesInv
    <3>3. invitation[i] # NoInvitation
      BY <1>7, <3>1, <3>2 DEF AddressedToParties
    <3> QED BY <1>7, <3>1, <3>2, <3>3, RecordSteps DEF AddressedToParties
  <2>2. CASE /\ HandleInviteCreate(c, i)
             /\ todo'[c][k] \in {ToSelf(Invited(i)), ToOne(request[c].to, Invited(i))}
    <3>1. invitation'[i] = [from |-> Identity[c], to |-> request[c].to]
      BY <1>2, <2>2 DEF HandleInviteCreate
    <3>2. request[c].to \in Participants
      BY <2>2, AskedTypes DEF HandleInviteCreate
    <3>3. invitation'[i] # NoInvitation
      BY <1>2, <3>1, <3>2, NotAnInvitation DEF Invitation
    <3>4. PICK q : q = request[c].to
      OBVIOUS
    <3>5. ToSelf(Invited(i)).how = "self"
      BY SendParts
    <3>6. ToOne(q, Invited(i)).how = "one" /\ ToOne(q, Invited(i)).who = q
      BY DEF ToOne
    <3> QED BY <2>2, <3>1, <3>3, <3>4, <3>5, <3>6
  <2> QED BY <1>7, <2>1, <2>2, TellSteps
<1>8. ASSUME NEW i \in InvitationIds, NEW c \in Connections, Answering(c, i)'
      PROVE  invitation'[i] # NoInvitation /\ Identity[c] = invitation'[i].to
  <2>1. invitation[i] # NoInvitation /\ Identity[c] = invitation[i].to
    <3>1. CASE Answering(c, i)
      BY <3>1 DEF PartiesInv
    <3>2. ASSUME NEW accept \in BOOLEAN, ClientResponds(Identity[c], i, accept)
          PROVE  invitation[i] # NoInvitation /\ Identity[c] = invitation[i].to
      BY <1>2, <3>2 DEF ClientResponds, PartiesInv, Party
    <3> QED BY <1>8, <3>1, <3>2, AskSteps
  <2> QED BY <2>1, RecordSteps
<1> QED BY <1>1, <1>2, <1>3, <1>4, <1>5, <1>6, <1>7, <1>8 DEF PartiesInv, AddressedToParties

-----------------------------------------------------------------------------
(* Invitations that are over.                                              *)

Silent(s, i) == \A k \in DOMAIN s : ~Mentions(s[k], i)

\* What takes i away from a client that is shown it.
TakesAway(m, i) == m = InviteCanceled(i) \/ (IsLobby(m) /\ i \notin m.invitations)

\* Once s has been read, i is not shown.
Clears(s, i) ==
  \E k \in DOMAIN s :
    /\ TakesAway(s[k], i)
    /\ \A j \in DOMAIN s : j > k => ~Mentions(s[j], i)

\* No handler has i left to tell.
AllTold(i) == \A d \in Connections : \A k \in DOMAIN todo[d] : todo[d][k].message # Invited(i)

\* While an answer to i is under way on c, the invitee is not shown i by c any
\* more.
AnsweredAt(c, i) ==
  /\ AllTold(i) /\ AfterLobby(c)
  /\ using[Identity[c]] = c => i \notin shown[Identity[c]] /\ Silent(inbox[c], i)

AnswerInv ==
  \A i \in pending \ overtaken, c \in Connections : Answering(c, i) => AnsweredAt(c, i)

\* A handler is still to tell the inviter.
ToBeCanceled(i) ==
  \E d \in Connections : \E k \in DOMAIN todo[d] :
    todo[d][k] = ToOne(invitation[i].from, InviteCanceled(i))

\* The invitations of its own that have been accepted stay in a client's store.
Excused(i, p) == invitation[i].from = p /\ i \in active \cup moved

\* What the client of c is going to be shown of i, an invitation that is over:
\* nothing in the lobby_state that will be sent; and after that it is still to
\* be told, or the news is on its way, or it is not shown.
GoneFrom(c, i) ==
  LET p == Identity[c]
  IN  /\ snapshot[c].at = "send" => i \notin snapshot[c].invitations
      /\ (Own(c) /\ AfterLobby(c) /\ hub[p] = c /\ ~Excused(i, p)) =>
           \/ p = invitation[i].from /\ ToBeCanceled(i)
           \/ Clears(inbox[c], i)
           \/ i \notin shown[p] /\ Silent(inbox[c], i)

IsOver(i) == i \notin pending \cup overtaken /\ invitation[i] # NoInvitation

GoneInv == \A i \in InvitationIds : IsOver(i) => AllTold(i) /\ \A c \in Connections : GoneFrom(c, i)

LEMMA AppendClears ==
  ASSUME NEW s \in Seq(Messages), NEW m \in Messages, NEW i
  PROVE  /\ ~Mentions(m, i) => /\ Silent(s, i) => Silent(Append(s, m), i)
                               /\ Clears(s, i) => Clears(Append(s, m), i)
         /\ TakesAway(m, i) => Clears(Append(s, m), i)
<1> PICK n \in Nat : n = Len(s)
  OBVIOUS
<1> PICK t : t = Append(s, m)
  OBVIOUS
<1>1. /\ DOMAIN s = 1..n /\ DOMAIN t = 1..(n + 1) /\ t[n + 1] = m
      /\ \A k \in 1..n : t[k] = s[k]
  OBVIOUS
<1>2. \A k \in 1..(n + 1) : k \in 1..n \/ k = n + 1
  OBVIOUS
<1>3. ~Mentions(m, i) /\ Silent(s, i) => Silent(t, i)
  BY <1>1, <1>2 DEF Silent
<1>4. ASSUME ~Mentions(m, i), Clears(s, i) PROVE Clears(t, i)
  <2>1. PICK k \in 1..n : TakesAway(s[k], i) /\ \A j \in 1..n : j > k => ~Mentions(s[j], i)
    BY <1>1, <1>4 DEF Clears
  <2>2. k \in 1..(n + 1) /\ TakesAway(t[k], i)
    BY <1>1, <2>1
  <2>3. \A j \in 1..(n + 1) : j > k => ~Mentions(t[j], i)
    BY <1>1, <1>2, <1>4, <2>1
  <2> QED BY <1>1, <2>2, <2>3 DEF Clears
<1>5. ASSUME TakesAway(m, i) PROVE Clears(t, i)
  <2>1. n + 1 \in 1..(n + 1) /\ \A j \in 1..(n + 1) : ~(j > n + 1)
    OBVIOUS
  <2> QED BY <1>1, <1>5, <2>1 DEF Clears
<1> QED BY <1>3, <1>4, <1>5

LEMMA TailClears ==
  ASSUME NEW s \in Seq(Messages), s # <<>>, NEW i
  PROVE  /\ Silent(s, i) => ~Mentions(Head(s), i) /\ Silent(Tail(s), i)
         /\ Clears(s, i) => Clears(Tail(s), i) \/ (TakesAway(Head(s), i) /\ Silent(Tail(s), i))
<1> PICK n \in Nat : n = Len(s) /\ n # 0
  OBVIOUS
<1> PICK t : t = Tail(s)
  OBVIOUS
<1> PICK m : m = Head(s)
  OBVIOUS
<1>1. /\ DOMAIN s = 1..n /\ DOMAIN t = 1..(n - 1) /\ s[1] = m /\ 1 \in 1..n
      /\ \A k \in 1..(n - 1) : t[k] = s[k + 1] /\ k + 1 \in 1..n
  OBVIOUS
<1>2. Silent(s, i) => ~Mentions(m, i) /\ Silent(t, i)
  BY <1>1 DEF Silent
<1>3. ASSUME Clears(s, i) PROVE Clears(t, i) \/ (TakesAway(m, i) /\ Silent(t, i))
  <2>1. PICK k \in 1..n : TakesAway(s[k], i) /\ \A j \in 1..n : j > k => ~Mentions(s[j], i)
    BY <1>1, <1>3 DEF Clears
  <2>2. CASE k = 1
    <3>1. \A j \in 1..(n - 1) : j + 1 > k
      BY <2>2
    <3> QED BY <1>1, <2>1, <2>2, <3>1 DEF Silent
  <2>3. CASE k # 1
    <3>1. k - 1 \in 1..(n - 1) /\ (k - 1) + 1 = k
      BY <2>3
    <3>2. \A j \in 1..(n - 1) : j > k - 1 => j + 1 > k
      OBVIOUS
    <3>3. \A j \in 1..(n - 1) : j > k - 1 => ~Mentions(t[j], i)
      BY <1>1, <2>1, <3>2
    <3>4. TakesAway(t[k - 1], i)
      BY <1>1, <2>1, <3>1
    <3> QED BY <1>1, <3>1, <3>3, <3>4 DEF Clears
  <2> QED BY <2>2, <2>3
<1> QED BY <1>2, <1>3

\* Nobody is left to tell i once it has been told.
LEMMA AllToldStays ==
  ASSUME LobbyTypeInv, DispatchInv, PartiesInv, LobbyNext, NEW i \in InvitationIds,
         invitation[i] # NoInvitation, AllTold(i)
  PROVE  AllTold(i)'
<1> SUFFICES ASSUME NEW d \in Connections, NEW j \in DOMAIN todo'[d], todo'[d][j].message = Invited(i)
             PROVE  FALSE
  BY DEF AllTold
<1>1. CASE \E k \in DOMAIN todo[d] : todo'[d][j] = todo[d][k]
  BY <1>1 DEF AllTold
<1>2. CASE HandleInviteCreate(d, i)
  BY <1>2 DEF HandleInviteCreate
<1> QED BY <1>1, <1>2, TellSteps

\* What is queued after that mentions i no more, but for a lobby_state that was
\* made before.
LEMMA ToldQueues ==
  ASSUME LobbyTypeInv, LobbyNext, PartiesInv, NEW i \in InvitationIds, AllTold(i),
         NEW c \in Connections, ~SendLobby(c)
  PROVE  \/ inbox'[c] = inbox[c]
         \/ inbox'[c] = <<>> /\ socket'[c] # "open"
         \/ /\ inbox[c] # <<>> /\ inbox'[c] = Tail(inbox[c])
            /\ using[Identity[c]] = c /\ ClientReads(Identity[c])
         \/ \E m \in Messages : inbox'[c] = Append(inbox[c], m) /\ ~Mentions(m, i)
<1>1. ASSUME NEW m \in Messages,
             SendLobby(c) <=> IsLobby(m),
             Mentions(m, i) /\ ~IsLobby(m) =>
               \E d \in Connections : \E k \in DOMAIN todo[d] : todo[d][k].message = Invited(i)
      PROVE  ~Mentions(m, i)
  BY <1>1 DEF AllTold
<1> QED BY <1>1, MentionSteps

\* A client that is not shown i and gets no news of it, is not shown it.
LEMMA SilenceStays ==
  ASSUME LobbyTypeInv, LobbyNext, PartiesInv, NEW i \in InvitationIds, AllTold(i),
         NEW c \in Connections, ~SendLobby(c), using[Identity[c]] = c,
         i \notin shown[Identity[c]], Silent(inbox[c], i)
  PROVE  i \notin shown'[Identity[c]] /\ Silent(inbox'[c], i)
<1>1. inbox[c] \in Seq(Messages) /\ Identity[c] \in Participants
  BY IdentityAssumption DEF LobbyTypeInv, SendingOK
<1>2. i \notin shown'[Identity[c]]
  <2>1. inbox[c] # <<>> => ~Mentions(Head(inbox[c]), i)
    BY <1>1, TailClears
  <2>2. ClientReads(Identity[c]) => inbox[c] # <<>>
    BY DEF ClientReads
  <2> QED BY <1>1, <2>1, <2>2, ClientSteps, ReadMentions
<1>3. Silent(<<>>, i)
  BY DEF Silent
<1>4. inbox[c] # <<>> => Silent(Tail(inbox[c]), i)
  BY <1>1, TailClears
<1>5. \A m \in Messages : ~Mentions(m, i) => Silent(Append(inbox[c], m), i)
  BY <1>1, AppendClears
<1> QED BY <1>2, <1>3, <1>4, <1>5, ToldQueues

\* News that i is over stays on its way until it has been read.
LEMMA ClearingStays ==
  ASSUME LobbyTypeInv, LobbyNext, PartiesInv, NEW i \in InvitationIds, AllTold(i),
         NEW c \in Connections, ~SendLobby(c), Own(c)', Clears(inbox[c], i)
  PROVE  Clears(inbox'[c], i) \/ (i \notin shown'[Identity[c]] /\ Silent(inbox'[c], i))
<1>1. inbox[c] \in Seq(Messages) /\ Identity[c] \in Participants
  BY IdentityAssumption DEF LobbyTypeInv, SendingOK
<1>2. \A m \in Messages : ~Mentions(m, i) => Clears(Append(inbox[c], m), i)
  BY <1>1, AppendClears
<1>3. ASSUME inbox[c] # <<>>, inbox'[c] = Tail(inbox[c]), using[Identity[c]] = c,
             ClientReads(Identity[c])
      PROVE  Clears(inbox'[c], i) \/ (i \notin shown'[Identity[c]] /\ Silent(inbox'[c], i))
  <2>1. Clears(Tail(inbox[c]), i) \/ (TakesAway(Head(inbox[c]), i) /\ Silent(Tail(inbox[c]), i))
    BY <1>1, <1>3, TailClears
  <2>2. ASSUME NEW m \in Messages, m = Head(inbox[c]), TakesAway(m, i)
        PROVE  i \notin shown'[Identity[c]]
    <3>1. shown'[Identity[c]] = ShownAfter(Identity[c], m)
      BY <1>1, <1>3, <2>2 DEF ClientReads, LobbyTypeInv, ClientsOK
    <3>2. IsLobby(m) => ShownAfter(Identity[c], m) = m.invitations
      BY DEF ShownAfter, IsLobby
    <3>3. CASE m = InviteCanceled(i)
      <4>1. m.type = "invite_canceled" /\ m.id = i
        BY <3>3 DEF InviteCanceled
      <4> QED BY <3>1, <4>1 DEF ShownAfter
    <3> QED BY <2>2, <3>1, <3>2, <3>3 DEF TakesAway
  <2>3. Head(inbox[c]) \in Messages
    BY <1>1, <1>3
  <2> QED BY <1>3, <2>1, <2>2, <2>3
<1> QED BY <1>2, <1>3, ToldQueues DEF Own

LEMMA NextAnswerInv ==
  ASSUME LobbyTypeInv, SelfInv, DispatchInv, PartiesInv, AnswerInv, LobbyNext
  PROVE  AnswerInv'
<1> SUFFICES ASSUME NEW i \in pending' \ overtaken', NEW c \in Connections, Answering(c, i)'
             PROVE  AnsweredAt(c, i)'
  BY DEF AnswerInv
<1>1. i \in InvitationIds
  BY StoredStays DEF StoredOK
<1> PICK p \in Participants : p = Identity[c]
  BY IdentityAssumption
<1>2. invitation[i] # NoInvitation
  <2>1. CASE Answering(c, i)
    BY <1>1, <2>1 DEF PartiesInv
  <2>2. CASE \E accept \in BOOLEAN : ClientResponds(p, i, accept)
    BY <1>1, <2>2 DEF ClientResponds, PartiesInv, Party
  <2> QED BY <1>1, <2>1, <2>2, AskSteps
<1>3. i \in pending \ overtaken
  BY <1>1, <1>2, RecordSteps, InvitationSteps
<1>4. CASE Answering(c, i)
  <2>1. AnsweredAt(c, i)
    BY <1>3, <1>4 DEF AnswerInv
  <2>2. AllTold(i)'
    BY <1>1, <1>2, <2>1, AllToldStays DEF AnsweredAt
  <2>3. AfterLobby(c)' /\ ~SendLobby(c) /\ pc'[c] # "hello"
    BY <2>1, ServingSteps DEF AnsweredAt, AfterLobby, SendLobby, Welcome, Step
  <2>4. using'[p] = c => using[p] = c
    BY <2>3, ClientSteps
  <2>5. using'[p] = c => i \notin shown'[p] /\ Silent(inbox'[c], i)
    BY <1>1, <2>1, <2>3, <2>4, SilenceStays DEF AnsweredAt
  <2> QED BY <2>2, <2>3, <2>5 DEF AnsweredAt
<1>5. ASSUME NEW accept \in BOOLEAN, using[p] = c, ClientResponds(p, i, accept)
      PROVE  AnsweredAt(c, i)'
  <2>1. ~Unread(i, c)
    BY <1>5 DEF ClientResponds, OvertakenIf
  <2>2. UNCHANGED <<pc, todo, inbox>> /\ shown' = [shown EXCEPT ![p] = @ \ {i}] /\ socket[c] = "open"
    BY <1>5 DEF ClientResponds, Ask, Live, connVars, sending
  <2>3. AllTold(i)
    BY <2>1 DEF Unread, AllTold
  <2>4. AfterLobby(c)
    <3>1. ~Greeting(c)
      BY <2>1 DEF Unread
    <3>2. pc[c] # "off"
      BY <2>2 DEF SelfInv, SelfAt
    <3> QED BY <3>1, <3>2 DEF Greeting, AfterLobby
  <2>5. Silent(inbox[c], i)
    BY <2>1 DEF Unread, Silent
  <2>6. i \notin shown'[p]
    BY <2>2 DEF LobbyTypeInv, ClientsOK
  <2> QED BY <2>2, <2>3, <2>4, <2>5, <2>6 DEF AnsweredAt, AllTold, AfterLobby
<1> QED BY <1>1, <1>4, <1>5, AskSteps

\* An invitation that has been made is pending at first.
LEMMA MadeSteps ==
  ASSUME LobbyTypeInv, LobbyNext, NEW i \in InvitationIds, i \notin pending'
  PROVE  invitation'[i] = invitation[i]
<1>1. ASSUME NEW d \in Connections, NEW j \in InvitationIds, HandleInviteCreate(d, j)
      PROVE  invitation'[i] = invitation[i]
  BY <1>1 DEF HandleInviteCreate, LobbyTypeInv, StoredOK
<1>2. ASSUME NEW d \in Connections, ServerStep(d) \/ ClientConnects(d),
             ~\E j \in InvitationIds : HandleInviteCreate(d, j)
      PROVE  UNCHANGED invitation
  BY <1>2 DEF ServerStep, Plain, Closes, Greet, BidFarewell, SendNext, SendWelcome, SnapshotOnline,
     SnapshotCheck, SnapshotInvitations, SendLobby, HandleRefused, HandleAccept, HandleDecline,
     HandleMove, HandleLastMove, ClientConnects, lobbyVars, stored
<1>3. ASSUME NEW p \in Participants, ClientStep(p)
      PROVE  UNCHANGED invitation
  BY <1>3 DEF ClientStep, ClientReads, ClientInvites, ClientResponds, Ask, stored
<1> QED BY <1>1, <1>2, <1>3 DEF LobbyNext

\* An invitation that is over stays so.
LEMMA GoneStays ==
  ASSUME LobbyTypeInv, DispatchInv, PartiesInv, LobbyNext, NEW i \in InvitationIds,
         i \notin pending, invitation[i] # NoInvitation, AllTold(i),
         NEW c \in Connections, GoneFrom(c, i)
  PROVE  GoneFrom(c, i)'
<1> PICK p \in Participants : p = Identity[c]
  BY IdentityAssumption
<1>1. /\ invitation'[i] = invitation[i]
      /\ Excused(i, p) => Excused(i, p)'
      /\ inbox \in [Connections -> Seq(Messages)]
      /\ using \in [Participants -> Connections \cup {NoConnection}]
  BY RecordSteps DEF Excused, LobbyTypeInv, SendingOK, ClientsOK
<1>2. snapshot'[c].at = "send" => i \notin snapshot'[c].invitations
  BY ListingSteps DEF GoneFrom
<1>3. ASSUME Own(c)', AfterLobby(c)', hub'[p] = c, ~Excused(i, p)'
      PROVE  \/ p = invitation'[i].from /\ ToBeCanceled(i)'
             \/ Clears(inbox'[c], i)
             \/ i \notin shown'[p] /\ Silent(inbox'[c], i)
  <2>1. using[p] = c /\ socket[c] = "open" /\ Own(c)
    <3>1. pc'[c] # "hello" /\ using'[p] = c /\ socket'[c] = "open"
      BY <1>3 DEF Own, AfterLobby
    <3> QED BY <3>1, ClientSteps, ServingSteps DEF Own
  <2>2. CASE SendLobby(c)
    <3>1. PICK m : m = LobbyState(snapshot[c].online, snapshot[c].invitations)
      OBVIOUS
    <3>2. inbox'[c] = Append(inbox[c], m)
      BY <2>1, <2>2, <3>1, <1>1 DEF SendLobby, Enqueued
    <3>3. m \in Messages /\ IsLobby(m) /\ m.invitations = snapshot[c].invitations
      <4>1. \A ps, is : LobbyState(ps, is).invitations = is
        BY DEF LobbyState
      <4>2. snapshot[c].online \in SUBSET Participants /\ snapshot[c].invitations \in SUBSET InvitationIds
        BY DEF LobbyTypeInv, SendingOK, Snapshots
      <4> QED BY <3>1, <4>1, <4>2, WelcomeTypes DEF IsLobby
    <3>4. TakesAway(m, i)
      BY <2>2, <3>3 DEF TakesAway, GoneFrom, SendLobby
    <3> QED BY <1>1, <3>2, <3>3, <3>4, AppendClears
  <2>3. CASE ~SendLobby(c)
    <3>1. AfterLobby(c)
      BY <1>3, <2>3, ServingSteps DEF Own
    <3>2. hub[p] = c
      BY <1>3, ServingSteps DEF AfterLobby
    <3>3. CASE p = invitation[i].from /\ ToBeCanceled(i)
      <4>1. PICK d \in Connections :
              \E k \in DOMAIN todo[d] : todo[d][k] = ToOne(p, InviteCanceled(i))
        BY <3>3 DEF ToBeCanceled
      <4> PICK k \in DOMAIN todo[d] : todo[d][k] = ToOne(p, InviteCanceled(i))
        BY <4>1
      <4>2. CASE \E j \in DOMAIN todo'[d] : todo'[d][j] = todo[d][k]
        <5>1. PICK j \in DOMAIN todo'[d] : todo'[d][j] = todo[d][k]
          BY <4>2
        <5>2. todo'[d][j] = ToOne(invitation'[i].from, InviteCanceled(i))
          BY <1>1, <3>3, <5>1
        <5> QED BY <1>1, <3>3, <5>2 DEF ToBeCanceled
      <4>3. CASE k = 1 /\ SendNext(d)
        <5>1. PICK s \in Announcements : NextIsSent(d, s)
          BY <4>3, SendNextMoves
        <5>2. s = ToOne(p, InviteCanceled(i)) /\ s.message \in Messages
          BY <4>3, <5>1 DEF NextIsSent
        <5>3. s.how = "one" /\ s.who = p /\ s.message = InviteCanceled(i)
          BY <5>2 DEF ToOne
        <5>4. inbox' = Enqueued({hub[p]}, s.message)
          BY <5>1, <5>3 DEF NextIsSent
        <5>5. inbox'[c] = Append(inbox[c], s.message)
          BY <1>1, <2>1, <3>2, <5>4 DEF Enqueued
        <5> QED BY <1>1, <5>2, <5>3, <5>5, AppendClears DEF TakesAway
      <4> QED BY <4>2, <4>3, TodoSteps
    <3>4. CASE Clears(inbox[c], i)
      BY <1>3, <2>3, <3>4, ClearingStays
    <3>5. CASE i \notin shown[p] /\ Silent(inbox[c], i)
      BY <2>1, <2>3, <3>5, SilenceStays
    <3> QED BY <1>1, <1>3, <2>1, <3>1, <3>2, <3>3, <3>4, <3>5 DEF GoneFrom
  <2> QED BY <2>2, <2>3
<1> QED BY <1>2, <1>3 DEF GoneFrom

\* An invitation that is answered is over: whoever might be shown it still has
\* been told, or is going to be.
LEMMA GoneWhenAnswered ==
  ASSUME LobbyTypeInv, SelfInv, PartiesInv, AnswerInv, LobbyNext,
         NEW i \in pending, i \notin pending', i \notin overtaken'
  PROVE  AllTold(i) /\ \A c \in Connections : GoneFrom(c, i)'
<1>1. /\ i \in InvitationIds /\ invitation[i] # NoInvitation /\ invitation[i].to \in Participants
      /\ invitation'[i] = invitation[i] /\ i \notin overtaken
  BY RecordSteps, InvitationSteps DEF LobbyTypeInv, StoredOK, Invitation
<1> PICK q \in Participants : q = invitation[i].to
  BY <1>1
<1>2. PICK d \in Connections : /\ request[d] # NoRequest /\ request[d].type = "invite_respond"
                               /\ request[d].id = i
                               /\ HandleAccept(d) \/ HandleDecline(d)
  BY <1>1, RecordSteps
<1>3. Answering(d, i)
  <2>1. request[d] \in Requests
    BY <1>2 DEF LobbyTypeInv, ClientsOK
  <2> QED BY <1>2, <2>1 DEF Requests, InviteCreate, InviteRespond, Answering
<1>4. Identity[d] = q /\ AnsweredAt(d, i)
  BY <1>1, <1>3 DEF PartiesInv, AnswerInv
<1>5. ~Unsent(i) /\ ~Outlives(d)
  BY <1>2 DEF HandleAccept, HandleDecline, Answer, OvertakenIf
<1>6. AllTold(i)
  BY <1>5 DEF Unsent, AllTold
<1>7. /\ pc[d] = "read" /\ socket[d] = "open" /\ \A c \in Connections \ {d} : pc'[c] = pc[c]
      /\ UNCHANGED <<socket, hub, snapshot, inbox, using, shown>>
      /\ pc' = [pc EXCEPT ![d] = "dispatch"]
  BY <1>2 DEF HandleAccept, HandleDecline, Read, ReadMessage, Step, LobbyTypeInv, ConnInv, ConnTypeOK
<1>8. ASSUME NEW c \in Connections, snapshot'[c].at = "send", i \in snapshot'[c].invitations
      PROVE  FALSE
  BY <1>5, <1>7, <1>8 DEF Unsent
<1>9. ASSUME NEW c \in Connections, Own(c)', AfterLobby(c)', hub'[Identity[c]] = c,
             ~Excused(i, Identity[c])'
      PROVE  \/ Identity[c] = invitation'[i].from /\ ToBeCanceled(i)'
             \/ i \notin shown'[Identity[c]] /\ Silent(inbox'[c], i)
  <2> PICK p \in Participants : p = Identity[c]
    BY IdentityAssumption
  <2>1. CASE ~Involves(i, p)
    BY <1>1, <1>7, <2>1 DEF PartiesInv, Party, Silent
  <2>2. CASE p = q
    <3>1. c # d => ~Greeting(c)
      BY <1>7, <1>9 DEF AfterLobby, Greeting
    <3>2. hub[Identity[d]] = c
      BY <1>4, <1>7, <1>9, <2>2
    <3>3. c = d /\ using[p] = d
      BY <1>5, <1>7, <1>9, <3>1, <3>2 DEF Outlives, Own
    <3> QED BY <1>4, <1>7, <2>2, <3>3 DEF AnsweredAt
  <2>3. CASE p = invitation[i].from
    <3>1. CASE HandleAccept(d)
      <4>1. i \in active'
        BY <1>2, <3>1 DEF HandleAccept
      <4> QED BY <1>1, <1>9, <2>3, <4>1 DEF Excused
    <3>2. CASE HandleDecline(d)
      <4>1. todo'[d] = <<ToOne(p, InviteCanceled(i))>>
        BY <1>2, <2>3, <3>2 DEF HandleDecline, Read, Canceled, LobbyTypeInv, SendingOK
      <4>2. 1 \in DOMAIN todo'[d] /\ todo'[d][1] = ToOne(p, InviteCanceled(i))
        BY <4>1
      <4> QED BY <1>1, <2>3, <4>2 DEF ToBeCanceled
    <3> QED BY <1>2, <3>1, <3>2
  <2> QED BY <2>1, <2>2, <2>3 DEF Involves
<1> QED BY <1>6, <1>8, <1>9 DEF GoneFrom

LEMMA NextGoneInv ==
  ASSUME LobbyTypeInv, SelfInv, DispatchInv, PartiesInv, AnswerInv, GoneInv, LobbyNext
  PROVE  GoneInv'
<1> SUFFICES ASSUME NEW i \in InvitationIds, IsOver(i)'
             PROVE  AllTold(i)' /\ \A c \in Connections : GoneFrom(c, i)'
  BY DEF GoneInv
<1>1. i \notin pending' \cup overtaken' /\ invitation'[i] # NoInvitation
  BY DEF IsOver
<1>2. invitation[i] # NoInvitation /\ i \notin overtaken
  BY <1>1, MadeSteps, InvitationSteps
<1>3. CASE i \in pending
  BY <1>1, <1>2, <1>3, GoneWhenAnswered, AllToldStays
<1>4. CASE i \notin pending
  <2>1. AllTold(i) /\ \A c \in Connections : GoneFrom(c, i)
    BY <1>2, <1>4 DEF GoneInv, IsOver
  <2> QED BY <1>2, <1>4, <2>1, GoneStays, AllToldStays
<1> QED BY <1>3, <1>4

OverInv == PartiesInv /\ AnswerInv /\ GoneInv

LEMMA InitOverInv == LobbyInit => OverInv
<1> SUFFICES ASSUME LobbyInit PROVE OverInv
  OBVIOUS
<1>1. PICK settled \in SUBSET Connections, rejected \in SUBSET Connections :
        /\ \A c, d \in settled : Identity[c] = Identity[d] => c = d
        /\ StartWith(settled, rejected)
  BY LobbyAssumption DEF LobbyInit
<1>2. \A p \in Participants : hub[p] # NoConnection => Identity[hub[p]] = p
  BY <1>1, StartsAreSettled
<1>3. /\ displaced = [c \in Connections |-> NoConnection] /\ snapshot = [c \in Connections |-> NoSnapshot]
      /\ invitation = [i \in InvitationIds |-> NoInvitation] /\ pending = {}
      /\ todo = [c \in Connections |-> <<>>] /\ inbox = [c \in Connections |-> <<>>]
      /\ request = [c \in Connections |-> NoRequest] /\ shown = [p \in Participants |-> {}]
  BY <1>1 DEF StartWith
<1>4. \A i \in InvitationIds, c \in Connections : ~Answering(c, i)
  <2>1. \A i \in InvitationIds, b \in BOOLEAN : InviteRespond(i, b) \in Requests
    BY DEF Requests
  <2> QED BY <1>3, <2>1, NothingAsked DEF Answering
<1>5. NoSnapshot.at = "welcome"
  BY DEF NoSnapshot
<1> QED BY <1>2, <1>3, <1>4, <1>5 DEF OverInv, PartiesInv, AnswerInv, GoneInv, IsOver

LEMMA NextOverInv ==
  LobbyInv /\ OverInv /\ [LobbyNext]_<<connVars, lobbyVars>> => OverInv'
<1> SUFFICES ASSUME LobbyInv, OverInv, [LobbyNext]_<<connVars, lobbyVars>> PROVE OverInv'
  OBVIOUS
<1>1. CASE LobbyNext
  BY <1>1, NextPartiesInv, NextAnswerInv, NextGoneInv DEF LobbyInv, OverInv
<1>2. CASE UNCHANGED <<connVars, lobbyVars>>
  <2>1. UNCHANGED <<pc, socket, hub, displaced, invitation, pending, active, moved, snapshot, todo,
                    inbox, request, using, shown, overtaken>>
    BY <1>2 DEF connVars, lobbyVars, stored, sending, client, history
  <2>2. PartiesInv'
    BY <2>1 DEF OverInv, PartiesInv, Party, Involves, AddressedToParties, Answering
  <2>3. AnswerInv'
    BY <2>1 DEF OverInv, AnswerInv, Answering, AnsweredAt, AllTold, AfterLobby
  <2>4. GoneInv'
    BY <2>1 DEF OverInv, GoneInv, IsOver, AllTold, GoneFrom, Own, AfterLobby, Excused, ToBeCanceled
  <2> QED BY <2>2, <2>3, <2>4 DEF OverInv
<1> QED BY <1>1, <1>2

\* What a lobby shows is open: when everything that was sent has arrived, a
\* client that is connected shows no invitation that is over, however often it
\* has reconnected and whatever was listed, sent and answered meanwhile, but
\* for those of its own that have been accepted, those that were deleted while a
\* handler had read them and not sent them yet, those that were answered with
\* news of them still to be read, and those whose answer was read on a
\* connection that had been replaced twice.
THEOREM WhatIsShownIsOpen == LobbySpec => []ShownIsOpen
<1>1. LobbyInv /\ OverInv => ShownIsOpen
  <2> SUFFICES ASSUME LobbyInv, OverInv, Quiet, NEW p \in Participants, Connected(p),
                      NEW i \in shown[p] \ overtaken, i \notin pending
               PROVE  Excused(i, p)
    BY DEF ShownIsOpen, Excused
  <2>1. i \in InvitationIds /\ invitation[i] # NoInvitation
    BY DEF LobbyInv, LobbyTypeInv, ClientsOK, OverInv, PartiesInv, Party
  <2>2. PICK c \in Connections : c = using[p] /\ Identity[c] = p
    BY DEF Connected, Live, LobbyInv, LobbyTypeInv, ClientsOK
  <2>3. hub[p] = c /\ Own(c)
    BY <2>2 DEF Connected, Live, Own
  <2>4. pc[c] = "read" /\ inbox[c] = <<>>
    BY <2>2, <2>3 DEF LobbyInv, LobbyTypeInv, ConnInv, HubAgrees, Registered, Quiet
  <2>5. ~ToBeCanceled(i)
    BY DEF LobbyInv, DispatchInv, Quiet, ToBeCanceled
  <2>6. ~Clears(inbox[c], i)
    BY <2>4 DEF Clears
  <2>7. GoneFrom(c, i) /\ AfterLobby(c)
    BY <2>1, <2>4 DEF OverInv, GoneInv, IsOver, AfterLobby
  <2> QED BY <2>2, <2>3, <2>5, <2>6, <2>7 DEF GoneFrom
<1>2. LobbySpec => [](LobbyInv /\ OverInv)
  BY InitLobbyInv, NextLobbyInv, InitOverInv, NextOverInv, PTL DEF LobbySpec
<1> QED BY <1>1, <1>2, PTL

-----------------------------------------------------------------------------
(* Who lists whom.                                                         *)

\* Nobody has overlapped: a participant has one goroutine at most.
OneEach ==
  \A c, d \in Connections : Identity[c] = Identity[d] /\ Alive(c) /\ Alive(d) => c = d

\* That p is gone will be said to all because of a game in which O has not
\* moved yet: it is O's goroutine that says it.
HidingInv ==
  \A d \in Connections : \A k \in DOMAIN todo[d] : \A p \in Participants :
    todo[d][k].message = Gone(p) =>
      /\ todo[d][k].how = "all"
      /\ \E i \in active \ moved : invitation[i].to = Identity[d] /\ Involves(i, p)

Lists(m, p) == m = Greeted(p) \/ (IsLobby(m) /\ p \in m.online)
Hides(m, p) == m = Gone(p) \/ (IsLobby(m) /\ p \notin m.online)

\* Once s has been read, p is listed.
Announces(s, p) ==
  \E k \in DOMAIN s : Lists(s[k], p) /\ \A j \in DOMAIN s : j > k => ~Hides(s[j], p)

\* Nothing in s hides p.
Leaves(s, p) == \A k \in DOMAIN s : ~Hides(s[k], p)

\* All are still to be told that p is there.
ToBeListed(p) ==
  \E d \in Connections :
    \/ Identity[d] = p /\ pc[d] = "announce"
    \/ \E k \in DOMAIN todo[d] : todo[d][k] \in {IfConnected(p), ToAll(Greeted(p))}

\* The client of c is going to list p, unless p is playing.
ListedAt(c, p) ==
  Idle(p) => \/ ToBeListed(p)
             \/ Announces(inbox[c], p)
             \/ p \in list[Identity[c]] /\ Leaves(inbox[c], p)

Serving(c) == Own(c) /\ AfterLobby(c) /\ hub[Identity[c]] = c

\* Of two who are connected, the one who came last was announced to the other.
ListInv ==
  \A c, d \in Connections :
    Identity[c] # Identity[d] /\ Serving(c) /\ Serving(d) =>
      ListedAt(c, Identity[d]) \/ ListedAt(d, Identity[c])

PresenceInv == ~overlapped => OneEach /\ HidingInv /\ ListInv

LEMMA PresenceParts ==
  ASSUME NEW p, NEW q
  PROVE  /\ Greeted(p).type = "presence_update" /\ Gone(p).type = "presence_update"
         /\ Greeted(p) # Gone(q)
         /\ Gone(p) = Gone(q) => p = q
<1>1. /\ Greeted(p).type = "presence_update" /\ Gone(p).type = "presence_update"
      /\ Gone(p).participant = p /\ Gone(q).participant = q
  BY DEF Greeted, Gone, PresenceUpdate
<1>2. Greeted(p).online = TRUE /\ Gone(q).online = FALSE
  BY Zenon DEF Greeted, Gone, PresenceUpdate
<1>3. Greeted(p) # Gone(q)
  BY <1>2, Zenon
<1> QED BY <1>1, <1>3

LEMMA PresenceKinds ==
  ASSUME NEW m \in Messages, m.type = "presence_update"
  PROVE  \E r \in Participants : m = Greeted(r) \/ m = Gone(r)
<1>1. PICK r \in Participants : \E b \in BOOLEAN : m = PresenceUpdate(r, b)
  BY DEF Messages, Welcomed, LobbyState, Invited, InviteCanceled
<1>2. PICK b \in BOOLEAN : m = PresenceUpdate(r, b)
  BY <1>1
<1>3. m = PresenceUpdate(r, TRUE) \/ m = PresenceUpdate(r, FALSE)
  BY <1>2, Zenon
<1>4. m = Greeted(r) \/ m = Gone(r)
  BY <1>3, Zenon DEF Greeted, Gone
<1> QED BY <1>4

\* A client does with its list what it is told of others.
LEMMA ReadsList ==
  ASSUME NEW p \in Participants, NEW q \in Participants, p # q, NEW m \in Messages
  PROVE  /\ Lists(m, q) => q \in ListAfter(p, m)
         /\ q \in list[p] /\ ~Hides(m, q) => q \in ListAfter(p, m)
<1>1. CASE IsLobby(m)
  <2>1. ListAfter(p, m) = m.online
    BY <1>1 DEF ListAfter, IsLobby
  <2>2. m # Greeted(q)
    BY <1>1, PresenceParts DEF IsLobby
  <2> QED BY <1>1, <2>1, <2>2 DEF Lists, Hides
<1>2. CASE m.type = "presence_update"
  <2>1. PICK r \in Participants : m = Greeted(r) \/ m = Gone(r)
    BY <1>2, PresenceKinds
  <2>2. ~IsLobby(m)
    BY <1>2 DEF IsLobby
  <2>3. ASSUME m = Greeted(r)
        PROVE  ListAfter(p, m) = list[p] \cup {r} \/ (r = p /\ ListAfter(p, m) = list[p])
    <3>1. m.type = "presence_update" /\ m.participant = r
      BY <2>3 DEF Greeted, PresenceUpdate
    <3>2. m.online = TRUE
      BY <2>3, Zenon DEF Greeted, PresenceUpdate
    <3>3. CASE p \in knowsSelf /\ r = p
      BY <3>1, <3>3 DEF ListAfter
    <3>4. CASE ~(p \in knowsSelf /\ r = p)
      <4>1. ListAfter(p, m) = IF m.online THEN list[p] \cup {m.participant}
                                          ELSE list[p] \ {m.participant}
        BY <3>1, <3>4 DEF ListAfter
      <4> QED BY <3>1, <3>2, <4>1, Zenon
    <3> QED BY <3>3, <3>4
  <2>4. ASSUME m = Gone(r)
        PROVE  ListAfter(p, m) = list[p] \ {r} \/ ListAfter(p, m) = list[p]
    <3>1. m.type = "presence_update" /\ m.participant = r
      BY <2>4 DEF Gone, PresenceUpdate
    <3>2. m.online = FALSE
      BY <2>4, Zenon DEF Gone, PresenceUpdate
    <3>3. CASE p \in knowsSelf /\ r = p
      BY <3>1, <3>3 DEF ListAfter
    <3>4. CASE ~(p \in knowsSelf /\ r = p)
      <4>1. ListAfter(p, m) = IF m.online THEN list[p] \cup {m.participant}
                                          ELSE list[p] \ {m.participant}
        BY <3>1, <3>4 DEF ListAfter
      <4> QED BY <3>1, <3>2, <4>1, Zenon
    <3> QED BY <3>3, <3>4
  <2>5. CASE m = Greeted(r)
    <3>1. m = Greeted(q) => r = q
      BY <2>5 DEF Greeted, PresenceUpdate
    <3> QED BY <2>2, <2>3, <2>5, <3>1 DEF Lists
  <2>6. CASE m = Gone(r)
    <3>1. m # Greeted(q)
      BY <2>6, PresenceParts
    <3>2. r # q \/ Hides(m, q)
      BY <2>6 DEF Hides
    <3> QED BY <2>2, <2>4, <2>6, <3>1, <3>2 DEF Lists
  <2> QED BY <2>1, <2>5, <2>6
<1>3. CASE ~IsLobby(m) /\ m.type # "presence_update"
  <2>1. ListAfter(p, m) = list[p]
    BY <1>3 DEF ListAfter, IsLobby
  <2>2. m # Greeted(q)
    BY <1>3, PresenceParts
  <2> QED BY <1>3, <2>1, <2>2 DEF Lists
<1> QED BY <1>1, <1>2, <1>3

LEMMA AppendLists ==
  ASSUME NEW s \in Seq(Messages), NEW m \in Messages, NEW p
  PROVE  /\ ~Hides(m, p) => /\ Leaves(s, p) => Leaves(Append(s, m), p)
                            /\ Announces(s, p) => Announces(Append(s, m), p)
         /\ Lists(m, p) => Announces(Append(s, m), p)
<1> PICK n \in Nat : n = Len(s)
  OBVIOUS
<1> PICK t : t = Append(s, m)
  OBVIOUS
<1>1. /\ DOMAIN s = 1..n /\ DOMAIN t = 1..(n + 1) /\ t[n + 1] = m
      /\ \A k \in 1..n : t[k] = s[k]
  OBVIOUS
<1>2. \A k \in 1..(n + 1) : k \in 1..n \/ k = n + 1
  OBVIOUS
<1>3. ~Hides(m, p) /\ Leaves(s, p) => Leaves(t, p)
  BY <1>1, <1>2 DEF Leaves
<1>4. ASSUME ~Hides(m, p), Announces(s, p) PROVE Announces(t, p)
  <2>1. PICK k \in 1..n : Lists(s[k], p) /\ \A j \in 1..n : j > k => ~Hides(s[j], p)
    BY <1>1, <1>4 DEF Announces
  <2>2. k \in 1..(n + 1) /\ Lists(t[k], p)
    BY <1>1, <2>1
  <2>3. \A j \in 1..(n + 1) : j > k => ~Hides(t[j], p)
    BY <1>1, <1>2, <1>4, <2>1
  <2> QED BY <1>1, <2>2, <2>3 DEF Announces
<1>5. ASSUME Lists(m, p) PROVE Announces(t, p)
  <2>1. n + 1 \in 1..(n + 1) /\ \A j \in 1..(n + 1) : ~(j > n + 1)
    OBVIOUS
  <2> QED BY <1>1, <1>5, <2>1 DEF Announces
<1> QED BY <1>3, <1>4, <1>5

LEMMA TailLists ==
  ASSUME NEW s \in Seq(Messages), s # <<>>, NEW p
  PROVE  /\ Leaves(s, p) => ~Hides(Head(s), p) /\ Leaves(Tail(s), p)
         /\ Announces(s, p) => Announces(Tail(s), p) \/ (Lists(Head(s), p) /\ Leaves(Tail(s), p))
<1> PICK n \in Nat : n = Len(s) /\ n # 0
  OBVIOUS
<1> PICK t : t = Tail(s)
  OBVIOUS
<1> PICK m : m = Head(s)
  OBVIOUS
<1>1. /\ DOMAIN s = 1..n /\ DOMAIN t = 1..(n - 1) /\ s[1] = m /\ 1 \in 1..n
      /\ \A k \in 1..(n - 1) : t[k] = s[k + 1] /\ k + 1 \in 1..n
  OBVIOUS
<1>2. Leaves(s, p) => ~Hides(m, p) /\ Leaves(t, p)
  BY <1>1 DEF Leaves
<1>3. ASSUME Announces(s, p) PROVE Announces(t, p) \/ (Lists(m, p) /\ Leaves(t, p))
  <2>1. PICK k \in 1..n : Lists(s[k], p) /\ \A j \in 1..n : j > k => ~Hides(s[j], p)
    BY <1>1, <1>3 DEF Announces
  <2>2. CASE k = 1
    <3>1. \A j \in 1..(n - 1) : j + 1 > k
      BY <2>2
    <3> QED BY <1>1, <2>1, <2>2, <3>1 DEF Leaves
  <2>3. CASE k # 1
    <3>1. k - 1 \in 1..(n - 1) /\ (k - 1) + 1 = k
      BY <2>3
    <3>2. \A j \in 1..(n - 1) : j > k - 1 => j + 1 > k
      OBVIOUS
    <3>3. \A j \in 1..(n - 1) : j > k - 1 => ~Hides(t[j], p)
      BY <1>1, <2>1, <3>2
    <3>4. Lists(t[k - 1], p)
      BY <1>1, <2>1, <3>1
    <3> QED BY <1>1, <3>1, <3>3, <3>4 DEF Announces
  <2> QED BY <2>2, <2>3
<1> QED BY <1>2, <1>3

\* Only a client that connects overlaps.
LEMMA OverlapSteps ==
  ASSUME LobbyNext, ~overlapped'
  PROVE  /\ ~overlapped
         /\ \A c, d \in Connections :
              ClientConnects(c) /\ Identity[d] = Identity[c] => ~Alive(d)
<1>1. ASSUME NEW c \in Connections, ClientConnects(c)
      PROVE  ~overlapped /\ \A d \in Connections : Identity[d] = Identity[c] => ~Alive(d)
  BY <1>1, Zenon DEF ClientConnects, Alive
<1>2. ASSUME NEW c \in Connections, ServerStep(c)
      PROVE  UNCHANGED overlapped
  BY <1>2 DEF ServerStep, Plain, Closes, SendWelcome, SnapshotOnline, SnapshotCheck,
     SnapshotInvitations, SendLobby, Greet, BidFarewell, SendNext, HandleAccept, HandleDecline,
     HandleRefused, HandleInviteCreate, HandleMove, HandleLastMove, Read, lobbyVars, history
<1>3. ASSUME NEW p \in Participants, ClientStep(p)
      PROVE  UNCHANGED overlapped
  BY <1>3 DEF ClientStep, ClientReads, ClientInvites, ClientResponds, Ask, history
<1>4. ~overlapped
  BY <1>1, <1>2, <1>3 DEF LobbyNext
<1> QED BY <1>1, <1>4

\* How games go on.
LEMMA GameSteps ==
  ASSUME LobbyNext, NEW i \in InvitationIds
  PROVE  /\ i \in active /\ i \notin active' => \E d \in Connections : HandleLastMove(d, i)
         /\ i \in moved' /\ i \notin moved =>
              \E d \in Connections : HandleMove(d, i) /\ Identity[d] = invitation[i].to
<1> DEFINE Goal == /\ i \in active /\ i \notin active' => \E d \in Connections : HandleLastMove(d, i)
                   /\ i \in moved' /\ i \notin moved =>
                        \E d \in Connections : HandleMove(d, i) /\ Identity[d] = invitation[i].to
<1>1. active \subseteq active' /\ moved' \subseteq moved => Goal
  OBVIOUS
<1>2. ASSUME NEW d \in Connections, NEW j \in InvitationIds, HandleLastMove(d, j)
      PROVE  Goal
  <2>1. active' = active \ {j} /\ UNCHANGED moved
    BY <1>2 DEF HandleLastMove
  <2> QED BY <1>2, <2>1
<1>3. ASSUME NEW d \in Connections, NEW j \in InvitationIds, HandleMove(d, j)
      PROVE  Goal
  <2>1. /\ \/ moved' = moved
           \/ moved' = moved \cup {j} /\ Identity[d] = invitation[j].to
        /\ UNCHANGED active
    BY <1>3 DEF HandleMove
  <2> QED BY <1>3, <2>1
<1> HIDE DEF Goal
<1>4. ASSUME NEW d \in Connections, HandleAccept(d)
      PROVE  Goal
  BY <1>1, <1>4 DEF HandleAccept
<1>5. ASSUME NEW d \in Connections,
             \/ Plain(d) \/ Closes(d) \/ Greet(d) \/ BidFarewell(d) \/ SendNext(d)
             \/ SendWelcome(d) \/ SnapshotOnline(d) \/ (\E p \in Participants : SnapshotCheck(d, p))
             \/ SnapshotInvitations(d) \/ SendLobby(d) \/ HandleRefused(d) \/ ClientConnects(d)
             \/ HandleDecline(d) \/ \E j \in InvitationIds : HandleInviteCreate(d, j)
      PROVE  UNCHANGED <<active, moved>>
  BY <1>5 DEF Plain, Closes, Greet, BidFarewell, SendNext, SendWelcome, SnapshotOnline, SnapshotCheck,
     SnapshotInvitations, SendLobby, HandleRefused, ClientConnects, HandleDecline, HandleInviteCreate,
     lobbyVars, stored
<1>6. ASSUME NEW p \in Participants, ClientStep(p)
      PROVE  UNCHANGED <<active, moved>>
  BY <1>6 DEF ClientStep, ClientReads, ClientInvites, ClientResponds, Ask, stored
<1>7. Goal
  BY <1>1, <1>2, <1>3, <1>4, <1>5, <1>6 DEF LobbyNext, ServerStep
<1> QED BY <1>7 DEF Goal

LEMMA NextOneEach ==
  ASSUME LobbyTypeInv, LobbyNext, OneEach, ~overlapped'
  PROVE  OneEach'
<1> SUFFICES ASSUME NEW c \in Connections, NEW d \in Connections,
                    Identity[c] = Identity[d], Alive(c)', Alive(d)'
             PROVE  c = d
  BY DEF OneEach
<1>1. CASE Alive(c) /\ Alive(d)
  BY <1>1 DEF OneEach
<1>2. ASSUME NEW e \in Connections, NEW f \in Connections, Identity[e] = Identity[f], Alive(f)',
             ClientConnects(e)
      PROVE  e = f
  <2>1. ~Alive(f)
    BY <1>2, OverlapSteps
  <2>2. e # f => pc'[f] = pc[f]
    BY <1>2 DEF ClientConnects, AcceptSocket, Step, LobbyTypeInv, ConnInv, ConnTypeOK
  <2> QED BY <1>2, <2>1, <2>2 DEF Alive
<1> QED BY <1>1, <1>2, PhaseSteps

LEMMA NextHidingInv ==
  ASSUME LobbyTypeInv, DispatchInv, PartiesInv, LobbyNext, OneEach, HidingInv
  PROVE  HidingInv'
<1> SUFFICES ASSUME NEW d \in Connections, NEW j \in DOMAIN todo'[d], NEW p \in Participants,
                    todo'[d][j].message = Gone(p)
             PROVE  /\ todo'[d][j].how = "all"
                    /\ \E i \in active' \ moved' : invitation'[i].to = Identity[d] /\ Involves(i, p)'
  BY DEF HidingInv
<1>1. CASE \E k \in DOMAIN todo[d] : todo'[d][j] = todo[d][k]
  <2>1. PICK k \in DOMAIN todo[d] : todo'[d][j] = todo[d][k]
    BY <1>1
  <2>2. PICK i \in active \ moved : invitation[i].to = Identity[d] /\ Involves(i, p)
    BY <2>1 DEF HidingInv
  <2>3. i \in InvitationIds /\ invitation[i] # NoInvitation
    BY DEF LobbyTypeInv, StoredOK
  <2>4. invitation'[i] = invitation[i]
    BY <2>3, RecordSteps
  <2>5. i \in active'
    BY <2>3, GameSteps DEF HandleLastMove
  <2>6. i \notin moved'
    <3> SUFFICES ASSUME NEW e \in Connections, HandleMove(e, i), Identity[e] = invitation[i].to
                 PROVE  FALSE
      BY <2>3, GameSteps
    <3>1. pc[e] = "read" /\ Identity[e] = Identity[d]
      BY <2>2 DEF HandleMove
    <3>2. pc[d] = "dispatch"
      BY <2>1 DEF DispatchInv
    <3> QED BY <3>1, <3>2 DEF OneEach, Alive
  <2> QED BY <2>1, <2>2, <2>4, <2>5, <2>6 DEF HidingInv, Involves
<1>2. ASSUME NEW k \in DOMAIN todo[d], todo[d][k].how = "ifConnected",
             todo'[d][j].message = todo[d][k].message
      PROVE  FALSE
  BY <1>2 DEF HidingInv
<1>3. ASSUME NEW a, NEW b, todo'[d] = <<a, b>>
      PROVE  todo'[d][j] = a \/ todo'[d][j] = b
  BY <1>3, PairOf
<1>4. ASSUME NEW i \in InvitationIds, NEW q, todo'[d] = <<ToSelf(Invited(i)), ToOne(q, Invited(i))>>
      PROVE  FALSE
  <2>1. todo'[d][j].message = Invited(i)
    <3>1. ToSelf(Invited(i)).message = Invited(i)
      BY SendParts
    <3>2. ToOne(q, Invited(i)).message = Invited(i)
      BY SendParts
    <3> QED BY <1>3, <1>4, <3>1, <3>2
  <2>2. Invited(i).type = "invite" /\ Gone(p).type = "presence_update"
    BY InvitedKinds, PresenceParts
  <2> QED BY <2>1, <2>2
<1>5. ASSUME NEW i \in InvitationIds, todo'[d] = Canceled(i)
      PROVE  FALSE
  <2>1. PICK q : todo'[d][j] = ToOne(q, InviteCanceled(i))
    BY <1>5 DEF Canceled
  <2>2. ToOne(q, InviteCanceled(i)).message = InviteCanceled(i)
    BY SendParts
  <2>3. InviteCanceled(i).type = "invite_canceled" /\ Gone(p).type = "presence_update"
    BY CancelKinds, PresenceParts
  <2> QED BY <2>1, <2>2, <2>3
<1>6. ASSUME NEW i \in InvitationIds, todo'[d] = Available(i)
      PROVE  FALSE
  <2>1. PICK q : todo'[d][j] = IfConnected(q)
    BY <1>3, <1>6, Zenon DEF Available
  <2>2. IfConnected(q).message = Greeted(q)
    BY Zenon DEF IfConnected, Greeted
  <2> QED BY <2>1, <2>2, PresenceParts
<1>7. ASSUME NEW i \in InvitationIds, HandleAccept(d), i = request[d].id, todo'[d] = Unavailable(i)
      PROVE  /\ todo'[d][j].how = "all"
             /\ \E k \in active' \ moved' : invitation'[k].to = Identity[d] /\ Involves(k, p)'
  <2>1. PICK q : q \in {invitation[i].from, invitation[i].to} /\ todo'[d][j] = ToAll(Gone(q))
    BY <1>3, <1>7, Zenon DEF Unavailable, Gone
  <2>2. ToAll(Gone(q)).message = Gone(q) /\ ToAll(Gone(q)).how = "all"
    BY DEF ToAll
  <2>3. q = p
    BY <2>1, <2>2, PresenceParts
  <2>4. i \in active' /\ i \in pending /\ UNCHANGED <<invitation, moved>>
    BY <1>7 DEF HandleAccept, Answer, MayAnswer
  <2>5. i \notin moved'
    BY <2>4 DEF LobbyTypeInv, StoredOK
  <2>6. Identity[d] = invitation[i].to
    <3>1. request[d] \in Requests /\ request[d].type = "invite_respond"
      BY <1>7 DEF HandleAccept, Asked, LobbyTypeInv, ClientsOK
    <3>2. Answering(d, i)
      BY <1>7, <3>1 DEF Requests, InviteCreate, InviteRespond, Answering
    <3> QED BY <3>2 DEF PartiesInv
  <2> QED BY <2>1, <2>2, <2>3, <2>4, <2>5, <2>6 DEF Involves
<1> QED BY <1>1, <1>2, <1>4, <1>5, <1>6, <1>7, TodoSteps

\* All who are connected are told that p is there.
LEMMA GreetedIsQueued ==
  ASSUME LobbyTypeInv, NEW c \in Connections, Serving(c), NEW p \in Participants,
         inbox' = Enqueued(Clients, Greeted(p))
  PROVE  Announces(inbox'[c], p)
<1>1. c \in Clients /\ socket[c] = "open"
  BY IdentityAssumption, NobodyAssumption DEF Serving, Own, Clients
<1>2. inbox'[c] = Append(inbox[c], Greeted(p))
  BY <1>1 DEF Enqueued
<1>3. inbox[c] \in Seq(Messages) /\ Greeted(p) \in Messages
  BY PresenceTypes, Zenon DEF Greeted, LobbyTypeInv, SendingOK
<1>4. Lists(Greeted(p), p)
  BY DEF Lists
<1> QED BY <1>2, <1>3, <1>4, AppendLists

\* Nobody who is told anything is told that a participant is gone who is
\* connected and not playing.
LEMMA ServingQueues ==
  ASSUME LobbyTypeInv, LobbyNext, OneEach, HidingInv, NEW c \in Connections, NEW d \in Connections,
         Serving(c), Serving(d), Idle(Identity[d])
  PROVE  \/ inbox'[c] = inbox[c]
         \/ inbox'[c] = <<>> /\ socket'[c] # "open"
         \/ /\ inbox[c] # <<>> /\ inbox'[c] = Tail(inbox[c])
            /\ using[Identity[c]] = c /\ ClientReads(Identity[c])
         \/ \E m \in Messages : inbox'[c] = Append(inbox[c], m) /\ ~Hides(m, Identity[d])
<1> PICK q \in Participants : q = Identity[d]
  BY IdentityAssumption
<1>1. ~SendLobby(c)
  BY DEF Serving, AfterLobby, SendLobby, Welcome, Step
<1>2. ASSUME NEW m \in Messages, m.type \in {"welcome", "presence_update"}, SentByConnection(m)
      PROVE  ~Hides(m, q)
  <2>1. ~IsLobby(m)
    BY <1>2 DEF IsLobby
  <2>2. m # Gone(q)
    <3>1. CASE m = Welcomed
      BY <3>1, PresenceParts DEF Welcomed
    <3>2. CASE \E e \in Connections : m = Greeted(Identity[e])
      BY <3>2, PresenceParts
    <3>3. ASSUME NEW e \in Connections, BidFarewell(e), m = Gone(Identity[e]), m = Gone(q)
          PROVE  FALSE
      <4>1. Identity[e] = q
        BY <3>3, PresenceParts
      <4>2. pc[e] = "farewell"
        BY <3>3 DEF BidFarewell, AnnounceOffline, Step
      <4>3. pc[d] \in Registered
        BY DEF Serving, LobbyTypeInv, ConnInv, HubAgrees
      <4> QED BY <4>1, <4>2, <4>3 DEF OneEach, Alive, Registered
    <3> QED BY <1>2, <3>1, <3>2, <3>3 DEF SentByConnection
  <2> QED BY <2>1, <2>2 DEF Hides
<1>3. ASSUME NEW e \in Connections, NEW s, 1 \in DOMAIN todo[e], s = todo[e][1], ~IsLobby(s.message)
      PROVE  ~Hides(s.message, q)
  BY <1>3 DEF HidingInv, Hides, Idle
<1> QED BY <1>1, <1>2, <1>3, QueueSteps

\* Who is going to be listed by a client stays so while both are connected.
LEMMA ListedStays ==
  ASSUME LobbyTypeInv, DispatchInv, LobbyNext, OneEach, HidingInv,
         NEW c \in Connections, NEW d \in Connections, Identity[c] # Identity[d],
         Serving(c), Serving(d), Own(c)', ListedAt(c, Identity[d])
  PROVE  ListedAt(c, Identity[d])'
<1> PICK q \in Participants : q = Identity[d]
  BY IdentityAssumption
<1> PICK p \in Participants : p = Identity[c]
  BY IdentityAssumption
<1> SUFFICES ASSUME Idle(q)'
             PROVE  \/ ToBeListed(q)'
                    \/ Announces(inbox'[c], q)
                    \/ q \in list'[p] /\ Leaves(inbox'[c], q)
  BY DEF ListedAt
<1>1. CASE ~Idle(q)
  <2>1. PICK i \in active : Involves(i, q)
    BY <1>1 DEF Idle
  <2>2. i \in InvitationIds /\ invitation'[i] = invitation[i]
    BY RecordSteps DEF LobbyTypeInv, StoredOK
  <2>3. i \notin active'
    BY <2>1, <2>2 DEF Idle, Involves
  <2>4. PICK e \in Connections : HandleLastMove(e, i)
    BY <2>2, <2>3, GameSteps
  <2>5. todo'[e] = Available(i)
    BY <2>4 DEF HandleLastMove, Read, LobbyTypeInv, SendingOK
  <2>6. PICK a, b : /\ a = IfConnected(invitation[i].from) /\ b = IfConnected(invitation[i].to)
                    /\ todo'[e] = <<a, b>>
    BY <2>5 DEF Available
  <2>7. /\ 1 \in DOMAIN todo'[e] /\ todo'[e][1] = a
        /\ 2 \in DOMAIN todo'[e] /\ todo'[e][2] = b
    BY <2>6
  <2>8. a = IfConnected(q) \/ b = IfConnected(q)
    BY <2>1, <2>6 DEF Involves
  <2> QED BY <2>7, <2>8 DEF ToBeListed
<1>2. CASE ToBeListed(q)
  <2>1. ASSUME NEW e \in Connections, Identity[e] = q, pc[e] = "announce"
        PROVE  ToBeListed(q)' \/ Announces(inbox'[c], q)
    <3>1. CASE pc'[e] = "announce"
      BY <2>1, <3>1 DEF ToBeListed
    <3>2. CASE Greet(e)
      <4>1. inbox' = Enqueued(Clients, Greeted(q))
        BY <2>1, <3>2, Zenon DEF Greet, Broadcast, Greeted
      <4> QED BY <4>1, GreetedIsQueued
    <3> QED BY <2>1, <3>1, <3>2, PhaseSteps
  <2>2. ASSUME NEW e \in Connections, NEW k \in DOMAIN todo[e],
               todo[e][k] \in {IfConnected(q), ToAll(Greeted(q))}
        PROVE  ToBeListed(q)' \/ Announces(inbox'[c], q)
    <3>1. CASE \E j \in DOMAIN todo'[e] : todo'[e][j] = todo[e][k]
      BY <2>2, <3>1 DEF ToBeListed
    <3>2. CASE k = 1 /\ SendNext(e)
      <4>1. PICK s \in Announcements : NextIsSent(e, s)
        BY <3>2, SendNextMoves
      <4>2. s = todo[e][1]
        BY <4>1 DEF NextIsSent
      <4>3. CASE s = IfConnected(q)
        <5>1. s.how = "ifConnected" /\ s.who = q
          BY <4>3 DEF IfConnected
        <5>2. s.message = Greeted(q)
          BY <4>3, Zenon DEF IfConnected, Greeted
        <5>3. hub[s.who] # NoConnection
          BY <5>1, NobodyAssumption DEF Serving
        <5>4. 1 \in DOMAIN todo'[e] /\ todo'[e][1] = ToAll(Greeted(q))
          BY <4>1, <5>1, <5>2, <5>3 DEF NextIsSent
        <5> QED BY <5>4 DEF ToBeListed
      <4>4. CASE s = ToAll(Greeted(q))
        <5>1. s.how = "all" /\ s.message = Greeted(q)
          BY <4>4 DEF ToAll
        <5>2. inbox' = Enqueued(Clients, Greeted(q))
          BY <4>1, <5>1 DEF NextIsSent
        <5> QED BY <5>2, GreetedIsQueued
      <4> QED BY <2>2, <3>2, <4>2, <4>3, <4>4
    <3> QED BY <3>1, <3>2, TodoSteps
  <2> QED BY <1>2, <2>1, <2>2 DEF ToBeListed
<1>3. inbox[c] \in Seq(Messages)
  BY DEF LobbyTypeInv, SendingOK
<1>4. ASSUME inbox[c] # <<>>, ClientReads(p)
      PROVE  \E m \in Messages : m = Head(inbox[c]) /\ list'[p] = ListAfter(p, m)
  BY <1>3, <1>4 DEF ClientReads, LobbyTypeInv, ClientsOK, Serving, Own
<1>5. CASE Idle(q) /\ Announces(inbox[c], q)
  <2>1. ASSUME inbox[c] # <<>>, inbox'[c] = Tail(inbox[c]), ClientReads(p)
        PROVE  Announces(inbox'[c], q) \/ (q \in list'[p] /\ Leaves(inbox'[c], q))
    BY <1>3, <1>4, <1>5, <2>1, TailLists, ReadsList
  <2>2. ASSUME NEW m \in Messages, inbox'[c] = Append(inbox[c], m), ~Hides(m, q)
        PROVE  Announces(inbox'[c], q)
    BY <1>3, <1>5, <2>2, AppendLists
  <2> QED BY <1>5, <2>1, <2>2, ServingQueues DEF Own
<1>6. CASE Idle(q) /\ q \in list[p] /\ Leaves(inbox[c], q)
  <2>1. q \in list'[p]
    <3>1. pc'[using'[p]] # "hello"
      BY ServingSteps DEF Own, Serving, AfterLobby
    <3>2. CASE ClientReads(p)
      <4>1. inbox[c] # <<>>
        BY <3>2 DEF ClientReads, Serving, Own
      <4> QED BY <1>3, <1>4, <1>6, <3>2, <4>1, TailLists, ReadsList
    <3> QED BY <1>6, <3>1, <3>2, ClientSteps
  <2>2. Leaves(<<>>, q)
    BY DEF Leaves
  <2>3. inbox[c] # <<>> => Leaves(Tail(inbox[c]), q)
    BY <1>3, <1>6, TailLists
  <2>4. \A m \in Messages : ~Hides(m, q) => Leaves(Append(inbox[c], m), q)
    BY <1>3, <1>6, AppendLists
  <2>5. Leaves(inbox'[c], q)
    BY <1>6, <2>2, <2>3, <2>4, ServingQueues
  <2> QED BY <2>1, <2>5
<1> QED BY <1>1, <1>2, <1>5, <1>6 DEF ListedAt

LEMMA NextListInv ==
  ASSUME LobbyTypeInv, DispatchInv, LobbyNext, OneEach, HidingInv, ListInv
  PROVE  ListInv'
<1> SUFFICES ASSUME NEW c \in Connections, NEW d \in Connections,
                    Identity[c] # Identity[d], Serving(c)', Serving(d)'
             PROVE  ListedAt(c, Identity[d])' \/ ListedAt(d, Identity[c])'
  BY DEF ListInv
\* Who is served has been served before, or has just been sent its lobby.
<1>1. ASSUME NEW e \in Connections, Serving(e)'
      PROVE  Serving(e) \/ pc'[e] = "announce"
  <2>1. /\ pc'[e] \notin {"hello", "closeOld"} /\ using'[Identity[e]] = e /\ socket'[e] = "open"
        /\ AfterLobby(e)' /\ hub'[Identity[e]] = e
    BY <1>1 DEF Serving, Own, AfterLobby
  <2>2. using[Identity[e]] = e
    BY <2>1, ClientSteps, IdentityAssumption
  <2>3. socket[e] = "open" /\ hub[Identity[e]] = e /\ (AfterLobby(e) \/ SendLobby(e))
    BY <2>1, ServingSteps
  <2> QED BY <2>2, <2>3, PhaseSteps DEF Serving, Own
<1>2. CASE Serving(c) /\ Serving(d)
  <2>1. Own(c)' /\ Own(d)'
    BY DEF Serving
  <2>2. ListedAt(c, Identity[d]) \/ ListedAt(d, Identity[c])
    BY <1>2 DEF ListInv
  <2> QED BY <1>2, <2>1, <2>2, ListedStays
<1>3. CASE pc'[c] = "announce"
  BY <1>3 DEF ListedAt, ToBeListed
<1>4. CASE pc'[d] = "announce"
  BY <1>4 DEF ListedAt, ToBeListed
<1> QED BY <1>1, <1>2, <1>3, <1>4

LEMMA InitPresenceInv == LobbyInit => PresenceInv
<1> SUFFICES ASSUME LobbyInit PROVE OneEach /\ HidingInv /\ ListInv
  BY DEF PresenceInv
<1>1. PICK settled \in SUBSET Connections, rejected \in SUBSET Connections :
        /\ \A c, d \in settled : Identity[c] = Identity[d] => c = d
        /\ StartWith(settled, rejected)
  BY LobbyAssumption DEF LobbyInit
<1>2. \A c \in Connections : hub[Identity[c]] = c => c \in settled
  BY <1>1, StartsAreSettled
<1>3. /\ \A c \in Connections : Alive(c) => c \in settled
      /\ todo = [c \in Connections |-> <<>>] /\ inbox = [c \in Connections |-> <<>>]
      /\ online = {Identity[c] : c \in settled}
      /\ list = [p \in Participants |-> IF p \in online THEN online \ {p} ELSE {}]
  BY <1>1 DEF StartWith, Alive
<1>4. OneEach
  BY <1>1, <1>3 DEF OneEach
<1>5. HidingInv
  BY <1>3 DEF HidingInv
<1>6. ListInv
  <2> SUFFICES ASSUME NEW c \in Connections, NEW d \in Connections, Identity[c] # Identity[d],
                      Serving(c), Serving(d)
               PROVE  ListedAt(c, Identity[d])
    BY DEF ListInv
  <2>1. c \in settled /\ d \in settled
    BY <1>2 DEF Serving
  <2>2. Identity[d] \in list[Identity[c]]
    BY <1>3, <2>1, IdentityAssumption
  <2> QED BY <1>3, <2>2 DEF ListedAt, Leaves
<1> QED BY <1>4, <1>5, <1>6

LEMMA NextPresenceInv ==
  LobbyInv /\ OverInv /\ PresenceInv /\ [LobbyNext]_<<connVars, lobbyVars>> => PresenceInv'
<1> SUFFICES ASSUME LobbyInv, OverInv, PresenceInv, [LobbyNext]_<<connVars, lobbyVars>>, ~overlapped'
             PROVE  OneEach' /\ HidingInv' /\ ListInv'
  BY DEF PresenceInv
<1>1. CASE LobbyNext
  <2>1. OneEach /\ HidingInv /\ ListInv
    BY <1>1, OverlapSteps DEF PresenceInv
  <2> QED BY <1>1, <2>1, NextOneEach, NextHidingInv, NextListInv DEF LobbyInv, OverInv
<1>2. CASE UNCHANGED <<connVars, lobbyVars>>
  <2>1. UNCHANGED <<pc, socket, hub, invitation, active, moved, todo, inbox, using, list>>
    BY <1>2 DEF connVars, lobbyVars, stored, sending, client, history
  <2>2. OneEach /\ HidingInv /\ ListInv
    BY <1>2 DEF PresenceInv, lobbyVars, history
  <2>3. OneEach' /\ HidingInv'
    BY <2>1, <2>2 DEF OneEach, Alive, HidingInv, Involves
  <2>4. ListInv'
    BY <2>1, <2>2 DEF ListInv, Serving, Own, AfterLobby, ListedAt, Idle, Involves, ToBeListed
  <2> QED BY <2>3, <2>4
<1> QED BY <1>1, <1>2

\* What the code keeps of "every other connected client sees this participant"
\* (README.md, Startup, Connection & Lobby, 5; MCBothConnect shows what it does
\* not): when everything that was sent has arrived, of any two clients that are
\* connected and idle one lists the other, however their handshakes, their
\* snapshots and the announcements of their games have overlapped, as long as
\* none has reconnected before its old goroutine had said farewell.
THEOREM SomeoneIsAlwaysListed == LobbySpec => []SomeoneIsListed
<1>1. LobbyInv /\ PresenceInv => SomeoneIsListed
  <2> SUFFICES ASSUME LobbyInv, PresenceInv, Quiet, ~overlapped, NEW p \in Participants,
                      NEW q \in Participants, p # q, Connected(p), Connected(q), Idle(p), Idle(q)
               PROVE  q \in list[p] \/ p \in list[q]
    BY DEF SomeoneIsListed
  <2>1. ASSUME NEW r \in Participants, Connected(r)
        PROVE  \E c \in Connections : Identity[c] = r /\ Serving(c) /\ inbox[c] = <<>>
    <3>1. PICK c \in Connections : c = using[r] /\ Identity[c] = r
      BY <2>1 DEF Connected, Live, LobbyInv, LobbyTypeInv, ClientsOK
    <3>2. hub[r] = c /\ Own(c)
      BY <2>1, <3>1 DEF Connected, Live, Own
    <3>3. pc[c] = "read" /\ inbox[c] = <<>>
      BY <3>1, <3>2 DEF LobbyInv, LobbyTypeInv, ConnInv, HubAgrees, Registered, Quiet
    <3> QED BY <3>1, <3>2, <3>3 DEF Serving, AfterLobby
  <2>2. PICK c \in Connections : Identity[c] = p /\ Serving(c) /\ inbox[c] = <<>>
    BY <2>1
  <2>3. PICK d \in Connections : Identity[d] = q /\ Serving(d) /\ inbox[d] = <<>>
    BY <2>1
  <2>4. ~ToBeListed(p) /\ ~ToBeListed(q)
    BY DEF LobbyInv, DispatchInv, Quiet, ToBeListed
  <2>5. ~Announces(inbox[c], q) /\ ~Announces(inbox[d], p)
    BY <2>2, <2>3 DEF Announces
  <2>6. ListedAt(c, q) \/ ListedAt(d, p)
    BY <2>2, <2>3 DEF PresenceInv, ListInv
  <2> QED BY <2>2, <2>3, <2>4, <2>5, <2>6 DEF ListedAt
<1>2. LobbySpec => [](LobbyInv /\ OverInv /\ PresenceInv)
  BY InitLobbyInv, NextLobbyInv, InitOverInv, NextOverInv, InitPresenceInv, NextPresenceInv, PTL
     DEF LobbySpec
<1> QED BY <1>1, <1>2, PTL

=============================================================================
