----------------------------- MODULE DeliveryProofs -----------------------------
(***************************************************************************)
(* Proofs about what the players get to see, for any players, connections, *)
(* games and queues: the calls are those of module SessionManager, nobody  *)
(* is shown what has not happened, no change of a game is sent twice to a  *)
(* connection, and no move is withheld from a player whose queue has room. *)
(*                                                                         *)
(* The players may reconnect.  Then a participant has several handlers,    *)
(* but only the connection that its client uses gets any moves: a new one  *)
(* takes them over while the old one is in no call (unless Overlap allows  *)
(* it).  This is what makes OneMoverEach an invariant here.                *)
(***************************************************************************)
EXTENDS Delivery, GameRulesProofs, FunctionTheorems

-----------------------------------------------------------------------------
(* Types.                                                                  *)

Click == [sid : SessionIds, position : Cells]

\* The messages, without the calls.
MessagesOK ==
  /\ clients \in [Participants -> Handlers \cup {NoHandler}]
  /\ queue \in [Handlers -> Seq(View)]
  /\ outgoing \in [Handlers -> Sending]
  /\ clicks \in [Handlers -> Seq(Click)]
  /\ view \in [Participants -> View]
  /\ shown \in [Participants -> [SessionIds -> 0..9]]
  /\ missed \in [Handlers -> [SessionIds -> 0..9]]

\* A handler copies a session that exists, and sends it to somebody.
Addressed(h) ==
  LET o == outgoing[h]
  IN  /\ o.pc \in {"board", "rest"} => o.sid \in SessionIds /\ sessions[o.sid] # NoSession
      /\ o.pc = "send" => o.to # <<>>

DeliveryTypeInv ==
  /\ RecoveryInv /\ MessagesOK
  /\ \A h \in Handlers : Addressed(h)

LEMMA DeliveryTypesInclude == DeliveryTypeInv => DeliveryTypeOK /\ TypeInv
BY DEF DeliveryTypeInv, RecoveryInv, TypeInv, DeliveryTypeOK, MessagesOK, Click

\* What the parts of a sequence are.
LEMMA HeadAndTail ==
  ASSUME NEW S, NEW s \in Seq(S), s # <<>>
  PROVE  Head(s) \in S /\ Tail(s) \in Seq(S)
OBVIOUS

LEMMA MoreToSend ==
  ASSUME NEW S, NEW s \in Seq(S), s # <<>>, Len(s) # 1
  PROVE  Tail(s) \in Seq(S) /\ Tail(s) # <<>>
<1>1. Len(s) \in Nat /\ Len(s) # 0
  OBVIOUS
<1>2. Tail(s) \in Seq(S) /\ Len(Tail(s)) = Len(s) - 1
  BY <1>1
<1>3. Len(Tail(s)) # 0
  BY <1>1, <1>2
<1> QED BY <1>2, <1>3

LEMMA NewBoardType == NewBoard \in Boards
BY DEF NewBoard, Boards

LEMMA NothingType == Nothing \in Sending
BY NewBoardType DEF Nothing, Sending, View

\* A message is noted if it has more moves than what was noted before.
LEMMA NotedType ==
  ASSUME NEW f \in [SessionIds -> 0..9], NEW m \in View
  PROVE  /\ Noted(f, m) \in [SessionIds -> 0..9]
         /\ \A sid \in SessionIds : Noted(f, m)[sid] >= f[sid]
         /\ \A sid \in SessionIds :
              \/ Noted(f, m)[sid] = f[sid]
              \/ (m \in DTO /\ m.sid = sid /\ Noted(f, m)[sid] = countMoves(m.board))
         /\ m \in DTO => Noted(f, m)[m.sid] >= countMoves(m.board)
<1> DEFINE n == countMoves(m.board)
<1>1. n \in 0..9
  BY CountType
<1>2. CASE m \notin DTO
  <2>1. m = NoView
    BY <1>2 DEF View
  <2> QED BY <1>2, <2>1 DEF Noted
<1>3. CASE m \in DTO
  <2>1. m # NoView /\ m.sid \in SessionIds
    BY <1>3, NoViewAssumption DEF View, DTO
  <2>2. Noted(f, m) = IF f[m.sid] >= n THEN f ELSE [f EXCEPT ![m.sid] = n]
    BY <2>1 DEF Noted
  <2> HIDE DEF n
  <2>3. /\ Noted(f, m) \in [SessionIds -> 0..9]
        /\ \A sid \in SessionIds : Noted(f, m)[sid] >= f[sid]
        /\ \A sid \in SessionIds :
             Noted(f, m)[sid] = f[sid] \/ (m.sid = sid /\ Noted(f, m)[sid] = n)
        /\ Noted(f, m)[m.sid] >= n
    BY <1>1, <2>1, <2>2
  <2> QED BY <1>3, <2>3 DEF n
<1> QED BY <1>2, <1>3

\* Message m, for connection k, is queued or dropped.
Takes(k, m) == queue' = [queue EXCEPT ![k] = Append(queue[k], m)] /\ missed' = missed
Drops(k, m) == queue' = queue /\ missed' = [missed EXCEPT ![k] = Noted(missed[k], m)]

LEMMA EnqueueTypes ==
  ASSUME MessagesOK, NEW k \in Handlers, NEW m \in View, Enqueue(k, m)
  PROVE  /\ Takes(k, m) \/ Drops(k, m)
         /\ queue' \in [Handlers -> Seq(View)]
         /\ missed' \in [Handlers -> [SessionIds -> 0..9]]
         /\ \A g \in Handlers : queue'[g] \in {queue[g], Append(queue[g], m)}
<1>1. Takes(k, m) \/ Drops(k, m)
  BY DEF Enqueue, Takes, Drops, MessagesOK
<1>2. CASE Takes(k, m)
  BY <1>2, <1>1 DEF MessagesOK, Takes
<1>3. CASE Drops(k, m)
  <2>1. Noted(missed[k], m) \in [SessionIds -> 0..9]
    BY NotedType DEF MessagesOK
  <2> QED BY <1>1, <1>3, <2>1 DEF MessagesOK, Drops
<1> QED BY <1>1, <1>2, <1>3

\* Whatever happens to the sessions is a step of the session manager.
LEMMA CallsAreSteps ==
  ASSUME MessagesOK, DeliveryNext
  PROVE  \/ UNCHANGED vars
         \/ \E h \in Handlers : Input(h) \/ CreateStep(h) \/ ApplyMoveStep(h)
<1>1. ASSUME NEW h \in Handlers, NEW sid \in SessionIds, NEW x \in Participants \ {Owner[h]},
             StartGame(h, sid, x)
      PROVE  Input(h)
  BY <1>1 DEF StartGame, Input
<1>2. ASSUME NEW h \in Handlers, ReadMove(h)
      PROVE  UNCHANGED vars \/ Input(h)
  <2>1. Head(clicks[h]) \in Click
    BY <1>2, HeadAndTail DEF ReadMove, MessagesOK
  <2>2. UNCHANGED vars \/ \E sid \in SessionIds : \E position : ReceiveMove(h, sid, position)
    BY <1>2, <2>1 DEF ReadMove, Click
  <2>3. ASSUME NEW sid \in SessionIds, NEW position, ReceiveMove(h, sid, position)
        PROVE  Input(h)
    <3>1. \E n \in 0..9 : position \in PositionsAt[n]
      BY <2>3, CountType DEF ReceiveMove
    <3> QED BY <2>3, <3>1 DEF Input
  <2> QED BY <2>2, <2>3
<1>3. ASSUME NEW h \in Handlers, CallStep(h)
      PROVE  CreateStep(h) \/ ApplyMoveStep(h)
  BY <1>3 DEF CallStep
<1> QED BY <1>1, <1>2, <1>3
        DEF DeliveryNext, SendStep, ConnectionStep, ClientAction, ReadBoard, ReadRest, SendNext,
            Connect, WelcomeRecover, SendWelcome, DisconnectClient, ClientReads,
            ClientClicks, LeaveGame

\* What a handler does to its message, in one piece.
LEMMA OutgoingChanges ==
  ASSUME MessagesOK, NEW h \in Handlers, NEW new \in Sending,
         outgoing' = [outgoing EXCEPT ![h] = new]
  PROVE  /\ outgoing' \in [Handlers -> Sending] /\ outgoing'[h] = new
         /\ \A g \in Handlers \ {h} : outgoing'[g] = outgoing[g]
BY DEF MessagesOK

LEMMA ProceedChanges ==
  ASSUME MessagesOK, NEW h \in Handlers,
         NEW next \in {"new", "recover", "board", "rest", "welcome", "send", "reading", "gone"},
         Proceed(h, next)
  PROVE  /\ outgoing' \in [Handlers -> Sending]
         /\ outgoing'[h].pc = next /\ outgoing'[h].dto = outgoing[h].dto
         /\ \A g \in Handlers \ {h} : outgoing'[g] = outgoing[g]
<1> DEFINE new == [outgoing[h] EXCEPT !.pc = next]
<1>1. outgoing' = [outgoing EXCEPT ![h] = new]
  BY DEF Proceed, MessagesOK
<1>2. new \in Sending /\ new.pc = next /\ new.dto = outgoing[h].dto
  BY DEF MessagesOK, Sending
<1> HIDE DEF new
<1> QED BY <1>1, <1>2, OutgoingChanges

-----------------------------------------------------------------------------
(* What each step does to the messages.                                    *)

\* One handler is concerned: the others send what they sent.
OthersSend(h) == \A g \in Handlers \ {h} : outgoing'[g] = outgoing[g]

LEMMA ReadBoardTypes ==
  ASSUME DeliveryTypeInv, NEW h \in Handlers, ReadBoard(h)
  PROVE  /\ outgoing' \in [Handlers -> Sending] /\ OthersSend(h)
         /\ outgoing[h].pc = "board" /\ outgoing[h].sid \in SessionIds
         /\ sessions[outgoing[h].sid] \in Session
         /\ outgoing'[h].pc = "rest" /\ outgoing'[h].sid = outgoing[h].sid
         /\ outgoing'[h].board = sessions[outgoing[h].sid].board
         /\ outgoing'[h].dto = outgoing[h].dto
<1>1. /\ MessagesOK /\ outgoing[h].pc = "board" /\ outgoing[h].sid \in SessionIds
      /\ sessions[outgoing[h].sid] \in Session
  BY DeliveryTypesInclude
     DEF DeliveryTypeInv, Addressed, ReadBoard, Sends, TypeInv, TypeOK
<1> DEFINE b == sessions[outgoing[h].sid].board
           new == [outgoing[h] EXCEPT !.pc = "rest", !.board = b]
<1>2. outgoing' = [outgoing EXCEPT ![h] = new]
  BY <1>1 DEF ReadBoard, MessagesOK
<1>3. b \in Boards
  BY <1>1 DEF Session
<1> HIDE DEF b
<1>4. /\ new \in Sending /\ new.pc = "rest" /\ new.sid = outgoing[h].sid /\ new.board = b
      /\ new.dto = outgoing[h].dto
  BY <1>1, <1>3 DEF MessagesOK, Sending
<1> HIDE DEF new
<1> QED BY <1>1, <1>2, <1>4, OutgoingChanges DEF OthersSend, b

LEMMA ReadRestTypes ==
  ASSUME DeliveryTypeInv, NEW h \in Handlers, ReadRest(h)
  PROVE  LET o == outgoing[h]
         IN  /\ outgoing' \in [Handlers -> Sending] /\ OthersSend(h)
             /\ o.pc = "rest" /\ o.sid \in SessionIds
             /\ outgoing'[h].pc \in {"welcome", "send"}
             /\ outgoing'[h].pc = "send" => outgoing'[h].to # <<>>
             /\ outgoing'[h].dto \in DTO
             /\ outgoing'[h].dto.sid = o.sid /\ outgoing'[h].dto.board = o.board
<1>1. /\ MessagesOK /\ outgoing[h] \in Sending
      /\ outgoing[h].pc = "rest" /\ outgoing[h].sid \in SessionIds
      /\ sessions[outgoing[h].sid] \in Session
  BY DeliveryTypesInclude
     DEF DeliveryTypeInv, Addressed, ReadRest, Sends, TypeInv, TypeOK, MessagesOK
<1> DEFINE s == sessions[outgoing[h].sid]
           dto == [sid |-> outgoing[h].sid, board |-> outgoing[h].board,
                   turn |-> s.turn, status |-> s.status]
           next == IF outgoing[h].to = <<>> THEN "welcome" ELSE "send"
           new == [outgoing[h] EXCEPT !.pc = next, !.dto = dto]
<1>2. outgoing' = [outgoing EXCEPT ![h] = new]
  BY <1>1 DEF ReadRest, MessagesOK
<1>3. dto \in DTO /\ dto.sid = outgoing[h].sid /\ dto.board = outgoing[h].board
  BY <1>1 DEF DTO, Session, Sending
<1> HIDE DEF dto
<1>4. /\ new \in Sending /\ new.pc = next /\ new.to = outgoing[h].to /\ new.dto = dto
  BY <1>1, <1>3 DEF Sending, View
<1> HIDE DEF new
<1> QED BY <1>1, <1>2, <1>3, <1>4, OutgoingChanges DEF OthersSend

\* The queue of the next recipient, if it is connected, gets the message or drops it.
LEMMA SendNextQueues ==
  ASSUME MessagesOK, NEW h \in Handlers, SendNext(h), outgoing[h].to # <<>>
  PROVE  LET k == clients[Head(outgoing[h].to)]
             m == outgoing[h].dto
         IN  /\ Head(outgoing[h].to) \in Participants /\ m \in View
             /\ k = NoHandler => queue' = queue /\ missed' = missed
             /\ k # NoHandler => k \in Handlers /\ (Takes(k, m) \/ Drops(k, m))
             /\ queue' \in [Handlers -> Seq(View)]
             /\ missed' \in [Handlers -> [SessionIds -> 0..9]]
             /\ \A g \in Handlers : queue'[g] \in {queue[g], Append(queue[g], m)}
<1> DEFINE p == Head(outgoing[h].to)
           m == outgoing[h].dto
           k == clients[p]
<1>1. p \in Participants /\ m \in View
  BY HeadAndTail DEF MessagesOK, Sending
<1>2. k \in Handlers \cup {NoHandler}
  BY <1>1 DEF MessagesOK
<1>3. IF k = NoHandler THEN UNCHANGED <<queue, missed>> ELSE Enqueue(k, m)
  BY DEF SendNext
<1> HIDE DEF p, m, k
<1>4. CASE k = NoHandler
  BY <1>1, <1>3, <1>4 DEF MessagesOK, p, m, k
<1>5. CASE k # NoHandler
  <2>1. k \in Handlers /\ Enqueue(k, m)
    BY <1>2, <1>3, <1>5
  <2> QED BY <1>1, <1>5, <2>1, EnqueueTypes DEF p, m, k
<1> QED BY <1>4, <1>5

\* Sending leaves either the rest of the recipients or nothing.
LEMMA SendNextTypes ==
  ASSUME DeliveryTypeInv, NEW h \in Handlers, SendNext(h)
  PROVE  /\ outgoing' \in [Handlers -> Sending] /\ OthersSend(h)
         /\ queue' \in [Handlers -> Seq(View)]
         /\ missed' \in [Handlers -> [SessionIds -> 0..9]]
         /\ \/ outgoing'[h] = Nothing
            \/ /\ outgoing'[h].pc = "send" /\ outgoing'[h].to # <<>>
               /\ outgoing'[h].dto = outgoing[h].dto
         /\ \A g \in Handlers : queue'[g] \in {queue[g], Append(queue[g], outgoing[h].dto)}
<1>1. /\ MessagesOK /\ outgoing[h] \in Sending /\ outgoing[h].pc = "send"
      /\ outgoing[h].to # <<>> /\ outgoing[h].to \in Seq(Participants) /\ outgoing[h].dto \in View
  BY DEF DeliveryTypeInv, Addressed, SendNext, Sends, MessagesOK, Sending
<1>2. CASE Len(outgoing[h].to) = 1
  <2>1. outgoing' = [outgoing EXCEPT ![h] = Nothing]
    BY <1>2 DEF SendNext, Sent
  <2>2. outgoing' \in [Handlers -> Sending] /\ OthersSend(h) /\ outgoing'[h] = Nothing
    BY <1>1, <2>1, NothingType, OutgoingChanges DEF OthersSend
  <2> QED BY <1>1, <2>2, SendNextQueues
<1>3. CASE Len(outgoing[h].to) # 1
  <2> DEFINE rest == Tail(outgoing[h].to)
             new == [outgoing[h] EXCEPT !.to = rest]
  <2>1. outgoing' = [outgoing EXCEPT ![h] = new]
    BY <1>1, <1>3 DEF SendNext, MessagesOK
  <2>2. rest \in Seq(Participants) /\ rest # <<>>
    BY <1>1, <1>3, MoreToSend
  <2> HIDE DEF rest
  <2>3. new \in Sending /\ new.pc = "send" /\ new.to = rest /\ new.dto = outgoing[h].dto
    BY <1>1, <2>2 DEF Sending
  <2> HIDE DEF new
  <2>4. /\ outgoing' \in [Handlers -> Sending] /\ OthersSend(h)
        /\ outgoing'[h].pc = "send" /\ outgoing'[h].to # <<>>
        /\ outgoing'[h].dto = outgoing[h].dto
    BY <1>1, <2>1, <2>2, <2>3, OutgoingChanges DEF OthersSend
  <2> QED BY <1>1, <2>4, SendNextQueues
<1> QED BY <1>2, <1>3

LEMMA ConnectTypes ==
  ASSUME DeliveryTypeInv, NEW h \in Handlers, Connect(h)
  PROVE  /\ outgoing' \in [Handlers -> Sending] /\ OthersSend(h)
         /\ outgoing'[h].pc = "recover" /\ outgoing'[h].dto = outgoing[h].dto
         /\ clients' \in [Participants -> Handlers \cup {NoHandler}]
         /\ queue' \in [Handlers -> Seq(View)] /\ clicks' \in [Handlers -> Seq(Click)]
         /\ \A g \in Handlers : queue'[g] \in {<<>>, queue[g]}
<1>1. MessagesOK
  BY DEF DeliveryTypeInv
<1>2. /\ outgoing' \in [Handlers -> Sending] /\ OthersSend(h)
      /\ outgoing'[h].pc = "recover" /\ outgoing'[h].dto = outgoing[h].dto
  BY <1>1, ProceedChanges DEF Connect, OthersSend
<1>3. clients' \in [Participants -> Handlers \cup {NoHandler}]
  BY <1>1 DEF Connect, MessagesOK
<1>4. queue' \in [Handlers -> Seq(View)] /\ \A g \in Handlers : queue'[g] \in {<<>>, queue[g]}
  BY <1>1 DEF Connect, MessagesOK
<1>5. clicks' \in [Handlers -> Seq(Click)]
  BY <1>1 DEF Connect, MessagesOK
<1> QED BY <1>2, <1>3, <1>4, <1>5

LEMMA WelcomeRecoverTypes ==
  ASSUME DeliveryTypeInv, NEW h \in Handlers, WelcomeRecover(h)
  PROVE  /\ outgoing' \in [Handlers -> Sending] /\ OthersSend(h)
         /\ outgoing'[h].pc \in {"welcome", "board"} /\ outgoing'[h].dto = outgoing[h].dto
         /\ outgoing'[h].pc = "board" =>
              outgoing'[h].sid \in SessionIds /\ sessions[outgoing'[h].sid] # NoSession
<1>1. /\ MessagesOK /\ outgoing[h] \in Sending /\ Owner[h] \in Participants
      /\ Recover(Owner[h]) \in SessionIds \cup {NoSession}
  BY DeliveryTypesInclude, OwnerAssumption
     DEF DeliveryTypeInv, MessagesOK, TypeInv, TypeOK, Recover
<1>2. Recover(Owner[h]) # NoSession => sessions[Recover(Owner[h])] # NoSession
  BY <1>1 DEF DeliveryTypeInv, RecoveryInv, RecoverIsCurrent
<1> DEFINE found == Recover(Owner[h])
           next == IF found = NoSession THEN "welcome" ELSE "board"
           new == [outgoing[h] EXCEPT !.pc = next, !.sid = found]
<1>3. outgoing' = [outgoing EXCEPT ![h] = new]
  BY <1>1 DEF WelcomeRecover, MessagesOK
<1> HIDE DEF found
<1>4. new \in Sending /\ new.pc = next /\ new.sid = found /\ new.dto = outgoing[h].dto
  BY <1>1 DEF Sending, found
<1> HIDE DEF new
<1> QED BY <1>1, <1>2, <1>3, <1>4, OutgoingChanges DEF OthersSend, found

LEMMA SendWelcomeTypes ==
  ASSUME DeliveryTypeInv, NEW h \in Handlers, SendWelcome(h)
  PROVE  /\ outgoing' \in [Handlers -> Sending] /\ OthersSend(h) /\ outgoing'[h] = Nothing
         /\ queue' \in [Handlers -> Seq(View)]
         /\ missed' \in [Handlers -> [SessionIds -> 0..9]]
         /\ clients[Owner[h]] # h => queue' = queue /\ missed' = missed
         /\ clients[Owner[h]] = h => Takes(h, outgoing[h].dto) \/ Drops(h, outgoing[h].dto)
         /\ \A g \in Handlers : queue'[g] \in {queue[g], Append(queue[g], outgoing[h].dto)}
<1>1. MessagesOK /\ outgoing[h].dto \in View
  BY DEF DeliveryTypeInv, MessagesOK, Sending
<1>2. outgoing' \in [Handlers -> Sending] /\ OthersSend(h) /\ outgoing'[h] = Nothing
  BY <1>1, NothingType, OutgoingChanges DEF SendWelcome, Sent, OthersSend
<1>3. CASE clients[Owner[h]] = h
  <2>1. Enqueue(h, outgoing[h].dto)
    BY <1>3 DEF SendWelcome
  <2> QED BY <1>1, <1>2, <1>3, <2>1, EnqueueTypes
<1>4. CASE clients[Owner[h]] # h
  BY <1>1, <1>2, <1>4 DEF SendWelcome, MessagesOK
<1> QED BY <1>3, <1>4

LEMMA DisconnectTypes ==
  ASSUME DeliveryTypeInv, NEW h \in Handlers, DisconnectClient(h)
  PROVE  /\ outgoing' \in [Handlers -> Sending] /\ OthersSend(h)
         /\ outgoing'[h].pc = "gone" /\ outgoing'[h].dto = outgoing[h].dto
         /\ clients' \in [Participants -> Handlers \cup {NoHandler}]
         /\ queue' \in [Handlers -> Seq(View)] /\ clicks' \in [Handlers -> Seq(Click)]
         /\ \A g \in Handlers : queue'[g] \in {<<>>, queue[g]}
<1>1. MessagesOK
  BY DEF DeliveryTypeInv
<1>2. /\ outgoing' \in [Handlers -> Sending] /\ OthersSend(h)
      /\ outgoing'[h].pc = "gone" /\ outgoing'[h].dto = outgoing[h].dto
  BY <1>1, ProceedChanges DEF DisconnectClient, OthersSend
<1>3. clients' \in [Participants -> Handlers \cup {NoHandler}]
  BY <1>1 DEF DisconnectClient, MessagesOK
<1>4. queue' \in [Handlers -> Seq(View)] /\ \A g \in Handlers : queue'[g] \in {<<>>, queue[g]}
  BY <1>1 DEF DisconnectClient, MessagesOK
<1>5. clicks' \in [Handlers -> Seq(Click)]
  BY <1>1 DEF DisconnectClient, MessagesOK
<1> QED BY <1>2, <1>3, <1>4, <1>5

\* A call that has succeeded has the players of its session told; the session
\* it is about exists.
LEMMA CallStepTypes ==
  ASSUME DeliveryTypeInv, NEW h \in Handlers, CallStep(h)
  PROVE  /\ outgoing' \in [Handlers -> Sending] /\ OthersSend(h)
         /\ \/ outgoing'[h] = outgoing[h]
            \/ /\ outgoing'[h].pc = "board" /\ outgoing'[h].dto = NoView
               /\ outgoing'[h].sid \in SessionIds /\ sessions[outgoing'[h].sid] # NoSession
<1>1. MessagesOK /\ TypeInv
  BY DeliveryTypesInclude DEF DeliveryTypeInv
<1>2. CASE At(h, "started") \/ At(h, "reply")
  <2>1. call[h].sid \in SessionIds /\ CurrentSession(h) \in Session
    BY <1>1, <1>2, SessionOfCall DEF At
  <2> DEFINE sid == call[h].sid
             to == Recipients(CurrentSession(h))
             new == [Nothing EXCEPT !.pc = "board", !.sid = sid, !.to = to]
  <2>2. outgoing' = [outgoing EXCEPT ![h] = new]
    BY <1>2 DEF CallStep, Broadcast, CurrentSession
  <2>3. to \in Seq(Participants)
    BY <2>1 DEF Recipients, Session
  <2> HIDE DEF to
  <2>4. new \in Sending /\ new.pc = "board" /\ new.sid = sid /\ new.dto = NoView
    BY <2>1, <2>3, NothingType DEF Nothing, Sending
  <2> HIDE DEF new
  <2>5. sid \in SessionIds /\ sessions[sid] # NoSession
    BY <1>2, <2>1, <1>1 DEF TypeInv, Located, At, CurrentSession
  <2> QED BY <1>1, <2>2, <2>4, <2>5, OutgoingChanges DEF OthersSend
<1>3. CASE ~(At(h, "started") \/ At(h, "reply"))
  BY <1>1, <1>3 DEF CallStep, MessagesOK, OthersSend
<1> QED BY <1>2, <1>3

LEMMA ReadMoveTypes ==
  ASSUME DeliveryTypeInv, NEW h \in Handlers, ReadMove(h)
  PROVE  clicks' \in [Handlers -> Seq(Click)]
BY HeadAndTail DEF DeliveryTypeInv, MessagesOK, ReadMove

\* A client shows the next message in its queue.
LEMMA ClientReadsTypes ==
  ASSUME DeliveryTypeInv, NEW p \in Participants, ClientReads(p)
  PROVE  /\ view' \in [Participants -> View]
         /\ shown' \in [Participants -> [SessionIds -> 0..9]]
         /\ queue' \in [Handlers -> Seq(View)]
         /\ \E g \in Handlers :
              /\ queue[g] # <<>> /\ Head(queue[g]) \in View
              /\ \A q \in Participants : view'[q] \in {view[q]} \cup {Head(queue[g])}
              /\ \A k \in Handlers : queue'[k] = IF k = g THEN Tail(queue[g]) ELSE queue[k]
<1>1. MessagesOK
  BY DEF DeliveryTypeInv
<1>2. PICK g \in Handlers : g = Connection(p) /\ queue[g] # <<>>
  BY <1>1 DEF ClientReads, Connected, Connection, MessagesOK
<1> DEFINE m == Head(queue[g])
<1>3. queue[g] \in Seq(View) /\ m \in View /\ Tail(queue[g]) \in Seq(View)
  BY <1>1, <1>2, HeadAndTail DEF MessagesOK
<1>4. /\ queue' = [queue EXCEPT ![g] = Tail(queue[g])]
      /\ view' = [view EXCEPT ![p] = m]
      /\ shown' = [shown EXCEPT ![p] = Noted(shown[p], m)]
  BY <1>1, <1>2 DEF ClientReads, MessagesOK
<1> HIDE DEF m
<1>5. shown' \in [Participants -> [SessionIds -> 0..9]]
  BY <1>1, <1>3, <1>4, NotedType DEF MessagesOK
<1>6. view' \in [Participants -> View] /\ queue' \in [Handlers -> Seq(View)]
  BY <1>1, <1>3, <1>4 DEF MessagesOK
<1>7. /\ \A q \in Participants : view'[q] \in {view[q]} \cup {m}
      /\ \A k \in Handlers : queue'[k] = IF k = g THEN Tail(queue[g]) ELSE queue[k]
  BY <1>1, <1>4 DEF MessagesOK
<1> QED BY <1>2, <1>3, <1>5, <1>6, <1>7 DEF m

LEMMA ClientClicksTypes ==
  ASSUME DeliveryTypeInv, NEW p \in Participants, ClientClicks(p)
  PROVE  clicks' \in [Handlers -> Seq(Click)]
<1>1. MessagesOK /\ Connection(p) \in Handlers
  BY DEF DeliveryTypeInv, MessagesOK, ClientClicks, Connected, Connection
<1>2. view[p] \in DTO
  BY <1>1 DEF MessagesOK, View, ClientClicks, IsMyTurn
<1>3. PICK position \in ClickAt[countMoves(view[p].board)] :
        clicks' = [clicks EXCEPT ![Connection(p)] =
                     Append(clicks[Connection(p)], [sid |-> view[p].sid, position |-> position])]
  BY <1>1 DEF ClientClicks, MessagesOK
<1>4. position \in Cells
  BY DeliveryAssumption, CountType
<1>5. [sid |-> view[p].sid, position |-> position] \in Click
  BY <1>2, <1>4 DEF DTO, Click
<1> QED BY <1>1, <1>3, <1>5 DEF MessagesOK

LEMMA LeaveGameTypes ==
  ASSUME DeliveryTypeInv, NEW p \in Participants, LeaveGame(p)
  PROVE  /\ view' \in [Participants -> View]
         /\ \A q \in Participants : view'[q] \in {view[q], NoView}
BY DEF DeliveryTypeInv, MessagesOK, LeaveGame, View

-----------------------------------------------------------------------------
(* Every step, together.                                                   *)

\* What a handler goes on to send is for somebody, and about a session that exists.
GoesOn(g) ==
  LET o == outgoing'[g]
  IN  /\ o.pc \in {"board", "rest"} => o.sid \in SessionIds /\ sessions[o.sid] # NoSession
      /\ o.pc = "send" => o.to # <<>>

LEMMA SendStepMessages ==
  ASSUME DeliveryTypeInv, NEW h \in Handlers, SendStep(h)
  PROVE  MessagesOK' /\ OthersSend(h) /\ GoesOn(h)
<1>1. CASE ReadBoard(h)
  <2>1. outgoing' \in [Handlers -> Sending] /\ OthersSend(h)
    BY <1>1, ReadBoardTypes
  <2>2. GoesOn(h)
    BY <1>1, ReadBoardTypes, NoSessionAssumption DEF GoesOn
  <2> QED BY <1>1, <2>1, <2>2 DEF ReadBoard, history, DeliveryTypeInv, MessagesOK
<1>2. CASE ReadRest(h)
  <2>1. outgoing' \in [Handlers -> Sending] /\ OthersSend(h) /\ GoesOn(h)
    BY <1>2, ReadRestTypes DEF GoesOn
  <2> QED BY <1>2, <2>1 DEF ReadRest, history, DeliveryTypeInv, MessagesOK
<1>3. CASE SendNext(h)
  <2>1. /\ outgoing' \in [Handlers -> Sending] /\ OthersSend(h)
        /\ queue' \in [Handlers -> Seq(View)] /\ missed' \in [Handlers -> [SessionIds -> 0..9]]
    BY <1>3, SendNextTypes
  <2>2. GoesOn(h)
    BY <1>3, SendNextTypes DEF GoesOn, Nothing
  <2> QED BY <1>3, <2>1, <2>2 DEF SendNext, DeliveryTypeInv, MessagesOK
<1> QED BY <1>1, <1>2, <1>3 DEF SendStep

LEMMA ConnectionStepMessages ==
  ASSUME DeliveryTypeInv, NEW h \in Handlers, ConnectionStep(h)
  PROVE  MessagesOK' /\ OthersSend(h) /\ GoesOn(h)
<1>1. CASE Connect(h)
  <2>1. GoesOn(h)
    BY <1>1, ConnectTypes DEF GoesOn
  <2>2. MessagesOK' /\ OthersSend(h)
    BY <1>1, ConnectTypes DEF Connect, history, DeliveryTypeInv, MessagesOK
  <2> QED BY <2>1, <2>2
<1>2. CASE WelcomeRecover(h)
  <2>1. GoesOn(h)
    BY <1>2, WelcomeRecoverTypes DEF GoesOn
  <2>2. MessagesOK' /\ OthersSend(h)
    BY <1>2, WelcomeRecoverTypes DEF WelcomeRecover, history, DeliveryTypeInv, MessagesOK
  <2> QED BY <2>1, <2>2
<1>3. CASE SendWelcome(h)
  <2>1. GoesOn(h)
    BY <1>3, SendWelcomeTypes DEF GoesOn, Nothing
  <2>2. MessagesOK' /\ OthersSend(h)
    BY <1>3, SendWelcomeTypes DEF SendWelcome, DeliveryTypeInv, MessagesOK
  <2> QED BY <2>1, <2>2
<1>4. CASE DisconnectClient(h)
  <2>1. GoesOn(h)
    BY <1>4, DisconnectTypes DEF GoesOn
  <2>2. MessagesOK' /\ OthersSend(h)
    BY <1>4, DisconnectTypes DEF DisconnectClient, history, DeliveryTypeInv, MessagesOK
  <2> QED BY <2>1, <2>2
<1> QED BY <1>1, <1>2, <1>3, <1>4 DEF ConnectionStep

LEMMA OtherStepsMessages ==
  ASSUME DeliveryTypeInv
  PROVE  /\ \A p \in Participants : ClientAction(p) => MessagesOK' /\ UNCHANGED outgoing
         /\ \A h \in Handlers :
              /\ ReadMove(h) => MessagesOK' /\ UNCHANGED outgoing
              /\ CallStep(h) =>
                   MessagesOK' /\ OthersSend(h) /\ (outgoing'[h] = outgoing[h] \/ GoesOn(h))
              /\ \A sid \in SessionIds, x \in Participants :
                   StartGame(h, sid, x) => MessagesOK' /\ UNCHANGED outgoing
<1>1. ASSUME NEW p \in Participants, ClientAction(p)
      PROVE  MessagesOK' /\ UNCHANGED outgoing
  <2>1. CASE ClientReads(p)
    <3>1. /\ view' \in [Participants -> View]
          /\ shown' \in [Participants -> [SessionIds -> 0..9]]
          /\ queue' \in [Handlers -> Seq(View)]
      BY <2>1, ClientReadsTypes
    <3> QED BY <2>1, <3>1 DEF ClientReads, DeliveryTypeInv, MessagesOK
  <2>2. CASE ClientClicks(p)
    BY <2>2, ClientClicksTypes DEF ClientClicks, history, DeliveryTypeInv, MessagesOK
  <2>3. CASE LeaveGame(p)
    BY <2>3, LeaveGameTypes DEF LeaveGame, history, DeliveryTypeInv, MessagesOK
  <2> QED BY <1>1, <2>1, <2>2, <2>3 DEF ClientAction
<1>2. ASSUME NEW h \in Handlers, ReadMove(h)
      PROVE  MessagesOK' /\ UNCHANGED outgoing
  BY <1>2, ReadMoveTypes DEF ReadMove, history, DeliveryTypeInv, MessagesOK
<1>3. ASSUME NEW h \in Handlers, CallStep(h)
      PROVE  MessagesOK' /\ OthersSend(h) /\ (outgoing'[h] = outgoing[h] \/ GoesOn(h))
  <2>1. outgoing'[h] = outgoing[h] \/ GoesOn(h)
    BY <1>3, CallStepTypes DEF GoesOn
  <2>2. MessagesOK' /\ OthersSend(h)
    BY <1>3, CallStepTypes DEF CallStep, history, DeliveryTypeInv, MessagesOK
  <2> QED BY <2>1, <2>2
<1>4. ASSUME NEW h \in Handlers, NEW sid \in SessionIds, NEW x \in Participants,
             StartGame(h, sid, x)
      PROVE  MessagesOK' /\ UNCHANGED outgoing
  BY <1>4 DEF StartGame, messages, history, DeliveryTypeInv, MessagesOK
<1> QED BY <1>1, <1>2, <1>3, <1>4

\* No session disappears.
LEMMA SessionsStay ==
  ASSUME DeliveryTypeInv, DeliveryNext
  PROVE  \A sid \in SessionIds : sessions[sid] # NoSession => sessions'[sid] # NoSession
<1>1. MessagesOK /\ TypeInv
  BY DeliveryTypesInclude DEF DeliveryTypeInv
<1>2. CASE UNCHANGED vars
  BY <1>2 DEF vars
<1>3. CASE \E h \in Handlers : Input(h) \/ CreateStep(h) \/ ApplyMoveStep(h)
  <2>1. PICK h \in Handlers : Input(h) \/ CreateStep(h) \/ ApplyMoveStep(h)
    BY <1>3
  <2>2. CASE UNCHANGED sessions
    BY <2>2
  <2>3. CASE WriteBoard(h) \/ PassTurn(h) \/ FinishStatus(h) \/ FinishResult(h)
    <3>1. sessions'[call[h].sid] \in Session
      BY <1>1, <2>3, FieldEffects
    <3>2. \A sid \in SessionIds \ {call[h].sid} : sessions'[sid] = sessions[sid]
      BY <1>1, <2>3, FieldEffects
    <3> QED BY <3>1, <3>2, NoSessionAssumption
  <2>4. CASE \E sid \in SessionIds :
               /\ sessions[sid] = NoSession /\ sessions'[sid] # NoSession
               /\ \A t \in SessionIds \ {sid} : sessions'[t] = sessions[t]
    BY <2>4
  <2> QED BY <1>1, <2>1, <2>2, <2>3, <2>4, SessionsAfter
<1> QED BY <1>1, <1>2, <1>3, CallsAreSteps

LEMMA NextDeliveryTypeInv == DeliveryTypeInv /\ [DeliveryNext]_deliveryVars => DeliveryTypeInv'
<1> SUFFICES ASSUME DeliveryTypeInv, [DeliveryNext]_deliveryVars PROVE DeliveryTypeInv'
  OBVIOUS
<1>1. CASE UNCHANGED deliveryVars
  BY <1>1 DEF deliveryVars, vars, messages, history, DeliveryTypeInv, MessagesOK, Addressed,
              RecoveryInv, TypeInv, TypeOK, Located, CurrentSession, At,
              RecoverIsCurrent, Recover, Players, Finishing
<1>2. CASE DeliveryNext
  <2>1. MessagesOK' /\ \A g \in Handlers : outgoing'[g] = outgoing[g] \/ GoesOn(g)
    BY <1>2, SendStepMessages, ConnectionStepMessages, OtherStepsMessages
       DEF DeliveryNext, OthersSend
  <2>2. RecoveryInv'
    <3>1. MessagesOK /\ RecoveryInv
      BY DEF DeliveryTypeInv
    <3> QED BY <1>2, <3>1, CallsAreSteps, NextRecoveryInv DEF Next
  <2>3. ASSUME NEW g \in Handlers
        PROVE  Addressed(g)'
    <3>1. Addressed(g)
      BY DEF DeliveryTypeInv
    <3>2. CASE outgoing'[g] = outgoing[g]
      BY <1>2, <3>1, <3>2, SessionsStay DEF Addressed
    <3>3. CASE GoesOn(g)
      BY <1>2, <3>3, SessionsStay DEF GoesOn, Addressed
    <3> QED BY <2>1, <3>2, <3>3
  <2> QED BY <2>1, <2>2, <2>3 DEF DeliveryTypeInv
<1> QED BY <1>1, <1>2

LEMMA DeliveryInitTypes == DeliveryInit => DeliveryTypeInv
<1> SUFFICES ASSUME DeliveryInit PROVE DeliveryTypeInv
  OBVIOUS
<1>1. RecoveryInv
  BY InitTypeInv DEF DeliveryInit, Init, RecoveryInv, RecoverIsCurrent, Recover
<1> DEFINE new == [Nothing EXCEPT !.pc = "new"]
<1>2. new \in Sending /\ new.pc = "new"
  BY NothingType DEF Nothing, Sending
<1> HIDE DEF new
<1>3. outgoing \in [Handlers -> Sending] /\ \A h \in Handlers : outgoing[h] = new
  BY <1>2 DEF DeliveryInit, new
<1>4. clients \in [Participants -> Handlers \cup {NoHandler}]
  BY DEF DeliveryInit
<1>5. queue \in [Handlers -> Seq(View)] /\ clicks \in [Handlers -> Seq(Click)]
  BY DEF DeliveryInit
<1>6. /\ view \in [Participants -> View] /\ shown \in [Participants -> [SessionIds -> 0..9]]
      /\ missed \in [Handlers -> [SessionIds -> 0..9]]
  BY DEF DeliveryInit, View
<1> QED BY <1>1, <1>2, <1>3, <1>4, <1>5, <1>6 DEF DeliveryTypeInv, MessagesOK, Addressed

\* The queues, the messages on their way, the moves that have been clicked and
\* the views have their types, whoever reconnects and whatever is dropped: in
\* particular a handler only copies a session that exists (ToDTO is handed a
\* non-nil pointer), and broadcastToParticipants never runs out of recipients.
THEOREM DeliveryTypesHold == DeliverySpec => []DeliveryTypeOK
<1> QED BY DeliveryInitTypes, NextDeliveryTypeInv, DeliveryTypesInclude, PTL DEF DeliverySpec

\* Nobody is welcomed back into a game that is over, however often the players
\* disconnect and come back.
THEOREM RecoveryWhenReconnecting == DeliverySpec => []RecoverIsCurrent
<1>1. DeliveryTypeInv => RecoverIsCurrent
  BY DEF DeliveryTypeInv, RecoveryInv
<1> QED BY <1>1, DeliveryInitTypes, NextDeliveryTypeInv, PTL DEF DeliverySpec

-----------------------------------------------------------------------------
(* Only the connection that a participant's client uses gets any moves.    *)

\* Messages go to a connection of the participant they are for; the moves of a
\* client arrive there, and only a handler that got one applies one.
InUse(h) == clients[Owner[h]] = h

OneConnectionInv ==
  /\ \A p \in Participants : clients[p] # NoHandler => Owner[clients[p]] = p
  /\ \A h \in Handlers : clicks[h] # <<>> \/ IsMoving(call[h]) => InUse(h)

LEMMA OneConnectionIsEnough == OneConnectionInv => OneMoverEach
BY DEF OneConnectionInv, OneMoverEach, InUse

\* A step that starts no move and moves no client.
LEMMA SameConnections ==
  ASSUME OneConnectionInv, UNCHANGED clients,
         \A h \in Handlers :
           clicks'[h] # <<>> \/ IsMoving(call'[h]) =>
             clicks[h] # <<>> \/ IsMoving(call[h]) \/ InUse(h)
  PROVE  OneConnectionInv'
BY DEF OneConnectionInv, InUse

\* A move is applied by the handler that received it.
LEMMA MoversBefore ==
  ASSUME TypeInv, NEW h \in Handlers, Input(h) \/ CreateStep(h) \/ ApplyMoveStep(h)
  PROVE  /\ \A g \in Handlers \ {h} : call'[g] = call[g]
         /\ IsMoving(call'[h]) => \/ IsMoving(call[h])
                                  \/ \E sid \in SessionIds : \E position : ReceiveMove(h, sid, position)
<1>1. \A g \in Handlers \ {h} : call'[g] = call[g]
  BY StepIsAlone DEF Alone
<1>2. CASE \E sid \in SessionIds, x \in Participants \ {Owner[h]} : Create(h, sid, x, Owner[h])
  <2>1. call'[h].pc = "insertSession"
    BY <1>2, CreateEffects, OwnerAssumption
  <2> QED BY <1>1, <2>1 DEF IsMoving
<1>3. CASE \E sid \in SessionIds : \E position : ReceiveMove(h, sid, position)
  BY <1>1, <1>3
<1>4. CASE CheckTurn(h) \/ ComputeBoard(h) \/ InsertMove(h)
  BY <1>1, <1>4, QuietEffects DEF IsMoving
<1>5. CASE WriteBoard(h) \/ PassTurn(h) \/ FinishStatus(h) \/ FinishResult(h)
  BY <1>1, <1>5, FieldCalls DEF IsMoving
<1>6. CASE SaveSession(h) \/ InsertSession(h) \/ CompleteSession(h)
  BY <1>1, <1>6, QuietEffects DEF IsMoving, Moved
<1>7. CASE RefuseTurn(h) \/ RefusePosition(h) \/ AnnounceStart(h) \/ Reply(h)
  <2>1. call'[h] = Idle
    BY <1>7, QuietEffects
  <2> QED BY <1>1, <2>1 DEF IsMoving, Idle
<1> QED BY <1>2, <1>3, <1>4, <1>5, <1>6, <1>7 DEF Input, CreateStep, ApplyMoveStep

LEMMA ConnectOne ==
  ASSUME ~Overlap, DeliveryTypeInv, OneConnectionInv, NEW h \in Handlers, Connect(h)
  PROVE  OneConnectionInv'
<1>1. MessagesOK /\ Owner[h] \in Participants /\ UNCHANGED call
  BY OwnerAssumption DEF DeliveryTypeInv, Connect, vars
<1>2. ASSUME NEW p \in Participants
      PROVE  clients'[p] = IF p = Owner[h] THEN h ELSE clients[p]
  BY <1>1, <1>2 DEF Connect, MessagesOK
<1>3. ASSUME NEW g \in Handlers, clicks'[g] # <<>> \/ IsMoving(call'[g])
      PROVE  Owner[g] # Owner[h] /\ (clicks[g] # <<>> \/ IsMoving(call[g]))
  BY <1>1, <1>3 DEF Connect, At, IsMoving
<1>4. \A p \in Participants : clients'[p] # NoHandler => Owner[clients'[p]] = p
  BY <1>2 DEF OneConnectionInv
<1>5. \A g \in Handlers : Owner[g] \in Participants
  BY OwnerAssumption
<1> QED BY <1>2, <1>3, <1>4, <1>5 DEF OneConnectionInv, InUse

LEMMA DisconnectOne ==
  ASSUME DeliveryTypeInv, OneConnectionInv, NEW h \in Handlers, DisconnectClient(h)
  PROVE  OneConnectionInv'
<1>1. MessagesOK /\ Owner[h] \in Participants /\ UNCHANGED call
  BY OwnerAssumption DEF DeliveryTypeInv, DisconnectClient, vars
<1>2. ASSUME NEW p \in Participants
      PROVE  clients'[p] = IF p = Owner[h] /\ clients[p] = h THEN NoHandler ELSE clients[p]
  BY <1>1, <1>2 DEF DisconnectClient, MessagesOK
<1>3. ASSUME NEW g \in Handlers, clicks'[g] # <<>> \/ IsMoving(call'[g])
      PROVE  g # h /\ (clicks[g] # <<>> \/ IsMoving(call[g]))
  BY <1>1, <1>3 DEF DisconnectClient, MessagesOK, At, IsMoving
<1>4. \A p \in Participants : clients'[p] # NoHandler => Owner[clients'[p]] = p
  BY <1>2 DEF OneConnectionInv
<1>5. \A g \in Handlers : Owner[g] \in Participants
  BY OwnerAssumption
<1> QED BY <1>2, <1>3, <1>4, <1>5 DEF OneConnectionInv, InUse

LEMMA NextOneConnection ==
  ASSUME ~Overlap, DeliveryTypeInv, OneConnectionInv, [DeliveryNext]_deliveryVars
  PROVE  OneConnectionInv'
<1>1. MessagesOK /\ TypeInv
  BY DeliveryTypesInclude DEF DeliveryTypeInv
<1>2. CASE UNCHANGED deliveryVars
  BY <1>2 DEF deliveryVars, vars, messages, OneConnectionInv, InUse
<1>3. ASSUME NEW h \in Handlers, SendStep(h) \/ WelcomeRecover(h) \/ SendWelcome(h)
      PROVE  OneConnectionInv'
  BY <1>3, SameConnections
     DEF SendStep, ReadBoard, ReadRest, SendNext, WelcomeRecover, SendWelcome, vars
<1>4. ASSUME NEW h \in Handlers, ReadMove(h)
      PROVE  OneConnectionInv'
  <2>1. InUse(h) /\ UNCHANGED clients
    BY <1>4 DEF ReadMove, OneConnectionInv
  <2>2. \A g \in Handlers \ {h} : clicks'[g] = clicks[g]
    BY <1>1, <1>4 DEF ReadMove, MessagesOK
  <2>3. \A g \in Handlers \ {h} : call'[g] = call[g]
    <3>1. CASE UNCHANGED vars
      BY <3>1 DEF vars
    <3>2. CASE ReceiveMove(h, Head(clicks[h]).sid, Head(clicks[h]).position)
      BY <1>1, <3>2 DEF ReceiveMove, TypeInv, TypeOK
    <3> QED BY <1>4, <3>1, <3>2 DEF ReadMove
  <2> QED BY <2>1, <2>2, <2>3, SameConnections
<1>5. ASSUME NEW h \in Handlers, CallStep(h)
      PROVE  OneConnectionInv'
  <2>1. UNCHANGED <<clients, clicks>> /\ (CreateStep(h) \/ ApplyMoveStep(h)) /\ ~At(h, "idle")
    BY <1>5 DEF CallStep, CreateStep, ApplyMoveStep, InsertSession, AnnounceStart, CheckTurn,
       RefuseTurn, ComputeBoard, RefusePosition, WriteBoard, InsertMove, PassTurn, FinishStatus,
       FinishResult, SaveSession, CompleteSession, Reply, At
  <2>2. /\ \A g \in Handlers \ {h} : call'[g] = call[g]
        /\ IsMoving(call'[h]) => IsMoving(call[h])
    BY <1>1, <2>1, MoversBefore DEF ReceiveMove
  <2> QED BY <2>1, <2>2, SameConnections
<1>6. ASSUME NEW h \in Handlers, NEW sid \in SessionIds, NEW x \in Participants \ {Owner[h]},
             StartGame(h, sid, x)
      PROVE  OneConnectionInv'
  <2>1. UNCHANGED <<clients, clicks>> /\ Create(h, sid, x, Owner[h])
    BY <1>6 DEF StartGame, messages
  <2>2. Alone(h) /\ call'[h].pc = "insertSession"
    BY <1>1, <2>1, CreateEffects, OwnerAssumption
  <2> QED BY <2>1, <2>2, SameConnections DEF Alone, IsMoving
<1>7. ASSUME NEW p \in Participants, ClientAction(p)
      PROVE  OneConnectionInv'
  <2>1. CASE ClientReads(p) \/ LeaveGame(p)
    BY <2>1, SameConnections DEF ClientReads, LeaveGame, vars
  <2>2. CASE ClientClicks(p)
    <3>1. UNCHANGED <<clients, call>> /\ clients[p] \in Handlers /\ Owner[clients[p]] = p
      BY <1>1, <2>2 DEF ClientClicks, Connected, MessagesOK, OneConnectionInv, vars
    <3>2. InUse(clients[p])
      BY <3>1 DEF InUse
    <3>3. \A g \in Handlers \ {clients[p]} : clicks'[g] = clicks[g]
      BY <1>1, <2>2 DEF ClientClicks, Connection, MessagesOK
    <3> QED BY <3>1, <3>2, <3>3, SameConnections
  <2> QED BY <1>7, <2>1, <2>2 DEF ClientAction
<1> QED BY <1>2, <1>3, <1>4, <1>5, <1>6, <1>7, ConnectOne, DisconnectOne
        DEF DeliveryNext, ConnectionStep

-----------------------------------------------------------------------------
(* The game, played by players who reconnect.                              *)

\* No client has two connections that play: it has one, or reconnects only
\* while its old goroutine is in no call.
OneAtATime == OneHandlerEach \/ ~Overlap

PlayInv ==
  /\ DeliveryTypeInv /\ GameInv
  /\ OneHandlerEach \/ OneConnectionInv

LEMMA PlayIsOrderly == PlayInv => OneMoverEach
BY OneHandlerIsEnough, OneConnectionIsEnough DEF PlayInv

LEMMA DeliveryStepIsAStep ==
  ASSUME DeliveryTypeInv, [DeliveryNext]_deliveryVars
  PROVE  [Next]_vars
BY CallsAreSteps DEF DeliveryTypeInv, Next, deliveryVars

LEMMA NextPlayInv ==
  ASSUME OneAtATime, PlayInv, [DeliveryNext]_deliveryVars
  PROVE  PlayInv'
<1>1. DeliveryTypeInv'
  BY NextDeliveryTypeInv DEF PlayInv
<1>2. GameInv'
  BY DeliveryStepIsAStep, PlayIsOrderly, NextGameInv DEF PlayInv
<1>3. OneHandlerEach \/ OneConnectionInv'
  BY NextOneConnection DEF PlayInv, OneAtATime
<1> QED BY <1>1, <1>2, <1>3 DEF PlayInv, OneHandlerEach

LEMMA InitPlayInv == OneAtATime /\ DeliveryInit => PlayInv
<1> SUFFICES ASSUME OneAtATime, DeliveryInit PROVE PlayInv
  OBVIOUS
<1>1. OneConnectionInv
  BY DEF DeliveryInit, Init, OneConnectionInv, IsMoving, Idle
<1> QED BY <1>1, DeliveryInitTypes, InitGameInv DEF DeliveryInit, PlayInv

\* A player who comes back with a new connection does not move twice: at most
\* one handler works on a session between the turn check and the write that
\* gives the turn away, its write is fresh, and it comes in time.  What it
\* takes is that the old goroutine of the client is in no call when the new
\* connection registers; handleUpgrade does not wait for that (Overlap).
THEOREM ReconnectingPlayersMoveOnce ==
  ASSUME OneAtATime
  PROVE  DeliverySpec => [](TurnIsALock /\ WriteIsFresh /\ MovesAreInTime)
<1>1. PlayInv => TurnIsALock /\ WriteIsFresh /\ MovesAreInTime
  BY PlayIsOrderly, ExclusiveIsALock DEF PlayInv, GameInv, LockInv, MovesAreInTime, Orderly
<1> QED BY <1>1, InitPlayInv, NextPlayInv, PTL DEF DeliverySpec

\* The session manager does not notice what becomes of its messages: clients
\* that connect, read, click and leave when they want give it no behaviour that
\* it has not without them.
THEOREM DeliveryImplementsSession == DeliverySpec => Spec
<1>1. DeliveryInit => Init
  BY DEF DeliveryInit
<1> QED BY <1>1, DeliveryStepIsAStep, DeliveryInitTypes, NextDeliveryTypeInv, PTL
        DEF DeliverySpec, Spec

\* The game of players who come back with new connections follows the rules,
\* although the old goroutine of a player may have created it, or may still be
\* telling the players of its last move.
THEOREM ReconnectingPlayersPlayByTheRules ==
  ASSUME OneAtATime
  PROVE  DeliverySpec => GameRules
<1>1. PlayInv => OneMoverEach
  BY PlayIsOrderly
<1> QED BY <1>1, InitPlayInv, NextPlayInv, DeliveryImplementsSession,
           OrderlySessionsImplementGames, PTL DEF DeliverySpec

\* Its marks alternate, and it is counted once.
THEOREM ReconnectingPlayersAlternate ==
  ASSUME OneAtATime
  PROVE  DeliverySpec => [](MarksAlternate /\ GaugeSettles)
<1>1. DeliveryInit => TurnsInv /\ GaugeInv
  BY InitTurnsInv, InitGaugeInv DEF DeliveryInit
<1>2. PlayInv /\ TurnsInv /\ GaugeInv /\ [DeliveryNext]_deliveryVars => TurnsInv' /\ GaugeInv'
  BY PlayIsOrderly, DeliveryStepIsAStep, NextTurnsInv, NextGaugeInv DEF PlayInv
<1> QED BY <1>1, <1>2, AlternatingMarks, GaugeInvSettles, InitPlayInv, NextPlayInv, PTL
        DEF DeliverySpec

-----------------------------------------------------------------------------
(* What is shown has happened.                                             *)

\* Every mark on b is on the server's board of sid.
PastBoard(sid, b) ==
  /\ sid \in SessionIds /\ sessions[sid] # NoSession
  /\ \A c \in Cells : b[c] \in {Empty, sessions[sid].board[c]}

\* What may be shown.
Past == {v \in View : v # NoView => PastBoard(v.sid, v.board)}

\* Everything that is on its way to a player, or has arrived, is in V.
ComesFrom(V) ==
  /\ \A h \in Handlers : outgoing[h].dto \in V /\ queue[h] \in Seq(V)
  /\ \A p \in Participants : view[p] \in V

PastInv ==
  /\ PlayInv /\ ComesFrom(Past)
  /\ \A h \in Handlers :
       outgoing[h].pc = "rest" => PastBoard(outgoing[h].sid, outgoing[h].board)

LEMMA PastIsShown == PastInv => ViewIsPast
BY DEF PastInv, ComesFrom, Past, PastBoard, ViewIsPast

LEMMA BiggerSequences == ASSUME NEW S, NEW T, S \subseteq T PROVE Seq(S) \subseteq Seq(T)
OBVIOUS

\* The past stays the past: a mark is never taken back.
LEMMA PastStays ==
  ASSUME PlayInv, [DeliveryNext]_deliveryVars, NEW sid, NEW b, PastBoard(sid, b)
  PROVE  PastBoard(sid, b)'
<1>1. LockInv /\ MessagesOK /\ sid \in SessionIds /\ sessions[sid] # NoSession
  BY DEF PlayInv, GameInv, DeliveryTypeInv, PastBoard
<1>2. CASE UNCHANGED vars
  BY <1>2 DEF vars, PastBoard
<1>3. CASE \E h \in Handlers : Input(h) \/ CreateStep(h) \/ ApplyMoveStep(h)
  <2>1. PICK h \in Handlers : Input(h) \/ CreateStep(h) \/ ApplyMoveStep(h)
    BY <1>3
  <2>2. /\ sessions'[sid] # NoSession
        /\ \A c \in Cells : sessions[sid].board[c] # Empty =>
             sessions'[sid].board[c] = sessions[sid].board[c]
    BY <1>1, <2>1, BoardGrows
  <2> QED BY <2>2 DEF PastBoard
<1> QED BY <1>1, <1>2, <1>3, CallsAreSteps DEF deliveryVars

LEMMA PastGrows ==
  ASSUME PlayInv, [DeliveryNext]_deliveryVars
  PROVE  Past \subseteq Past'
BY PastStays DEF Past

\* Sending, connecting and reading pass on what is there, or lose it.
LEMMA PassedOn ==
  ASSUME DeliveryTypeInv, NEW V, NoView \in V, ComesFrom(V),
         \/ \E h \in Handlers :
              \/ ReadBoard(h) \/ SendNext(h) \/ ConnectionStep(h) \/ ReadMove(h) \/ CallStep(h)
         \/ \E h \in Handlers, sid \in SessionIds, x \in Participants : StartGame(h, sid, x)
         \/ \E p \in Participants : ClientAction(p)
  PROVE  ComesFrom(V)'
<1>1. /\ \A h \in Handlers : outgoing[h].dto \in V /\ queue[h] \in Seq(V)
      /\ \A h \in Handlers : queue[h] # <<>> => Head(queue[h]) \in V /\ Tail(queue[h]) \in Seq(V)
      /\ \A h, g \in Handlers : Append(queue[h], outgoing[g].dto) \in Seq(V)
      /\ <<>> \in Seq(V)
      /\ \A p \in Participants : view[p] \in V
  BY HeadAndTail DEF ComesFrom
<1>2. ASSUME NEW h \in Handlers, ReadBoard(h) \/ SendNext(h)
      PROVE  ComesFrom(V)'
  <2>1. CASE ReadBoard(h)
    BY <1>1, <2>1, ReadBoardTypes DEF ReadBoard, ComesFrom, OthersSend
  <2>2. CASE SendNext(h)
    <3>1. UNCHANGED view /\ OthersSend(h)
      BY <2>2, SendNextTypes DEF SendNext
    <3>2. outgoing'[h].dto \in V
      <4>1. outgoing'[h] = Nothing \/ outgoing'[h].dto = outgoing[h].dto
        BY <2>2, SendNextTypes
      <4> QED BY <1>1, <4>1 DEF Nothing
    <3>3. \A g \in Handlers : queue'[g] \in {queue[g], Append(queue[g], outgoing[h].dto)}
      BY <2>2, SendNextTypes
    <3>4. \A g \in Handlers : queue'[g] \in Seq(V)
      BY <1>1, <3>3
    <3> QED BY <1>1, <3>1, <3>2, <3>4 DEF ComesFrom, OthersSend
  <2> QED BY <1>2, <2>1, <2>2
<1>3. ASSUME NEW h \in Handlers, ConnectionStep(h)
      PROVE  ComesFrom(V)'
  <2>1. CASE Connect(h)
    BY <1>1, <2>1, ConnectTypes DEF Connect, ComesFrom, OthersSend
  <2>2. CASE WelcomeRecover(h)
    BY <1>1, <2>2, WelcomeRecoverTypes DEF WelcomeRecover, ComesFrom, OthersSend
  <2>3. CASE SendWelcome(h)
    <3>1. UNCHANGED view /\ OthersSend(h)
      BY <2>3, SendWelcomeTypes DEF SendWelcome
    <3>2. outgoing'[h].dto \in V
      BY <1>1, <2>3, SendWelcomeTypes DEF Nothing
    <3>3. \A g \in Handlers : queue'[g] \in {queue[g], Append(queue[g], outgoing[h].dto)}
      BY <2>3, SendWelcomeTypes
    <3>4. \A g \in Handlers : queue'[g] \in Seq(V)
      BY <1>1, <3>3
    <3> QED BY <1>1, <3>1, <3>2, <3>4 DEF ComesFrom, OthersSend
  <2>4. CASE DisconnectClient(h)
    BY <1>1, <2>4, DisconnectTypes DEF DisconnectClient, ComesFrom, OthersSend
  <2> QED BY <1>3, <2>1, <2>2, <2>3, <2>4 DEF ConnectionStep
<1>4. ASSUME NEW h \in Handlers, ReadMove(h) \/ CallStep(h)
      PROVE  ComesFrom(V)'
  <2>1. CASE ReadMove(h)
    BY <2>1 DEF ReadMove, ComesFrom
  <2>2. CASE CallStep(h)
    BY <1>1, <2>2, CallStepTypes DEF CallStep, ComesFrom, OthersSend
  <2> QED BY <1>4, <2>1, <2>2
<1>5. ASSUME NEW h \in Handlers, NEW sid \in SessionIds, NEW x \in Participants,
             StartGame(h, sid, x)
      PROVE  ComesFrom(V)'
  BY <1>5 DEF StartGame, messages, ComesFrom
<1>6. ASSUME NEW p \in Participants, ClientAction(p)
      PROVE  ComesFrom(V)'
  <2>1. CASE ClientReads(p)
    <3>1. PICK g \in Handlers :
            /\ queue[g] # <<>>
            /\ \A q \in Participants : view'[q] \in {view[q]} \cup {Head(queue[g])}
            /\ \A k \in Handlers : queue'[k] = IF k = g THEN Tail(queue[g]) ELSE queue[k]
      BY <2>1, ClientReadsTypes
    <3> QED BY <1>1, <2>1, <3>1 DEF ClientReads, ComesFrom
  <2>2. CASE ClientClicks(p)
    BY <2>2 DEF ClientClicks, ComesFrom
  <2>3. CASE LeaveGame(p)
    BY <1>1, <2>3, LeaveGameTypes DEF LeaveGame, ComesFrom
  <2> QED BY <1>6, <2>1, <2>2, <2>3 DEF ClientAction
<1> QED BY <1>2, <1>3, <1>4, <1>5, <1>6

\* The board a handler is holding was copied from the session just before.
LEMMA HeldBoard ==
  ASSUME PastInv, DeliveryNext, NEW g \in Handlers, outgoing'[g].pc = "rest"
  PROVE  PastBoard(outgoing[g].sid, outgoing[g].board)'
<1>1. DeliveryTypeInv /\ PlayInv /\ [DeliveryNext]_deliveryVars
  BY DEF PastInv, PlayInv
<1>2. outgoing'[g] = outgoing[g] \/ ReadBoard(g)
  <2>1. ASSUME NEW h \in Handlers, SendStep(h), ~ReadBoard(h) \/ h # g
        PROVE  outgoing'[g] = outgoing[g]
    BY <1>1, <2>1, ReadBoardTypes, ReadRestTypes, SendNextTypes
       DEF SendStep, OthersSend, Nothing
  <2>2. ASSUME NEW h \in Handlers, ConnectionStep(h)
        PROVE  outgoing'[g] = outgoing[g]
    BY <1>1, <2>2, ConnectTypes, WelcomeRecoverTypes, SendWelcomeTypes, DisconnectTypes
       DEF ConnectionStep, OthersSend, Nothing
  <2>3. ASSUME NEW h \in Handlers, CallStep(h)
        PROVE  outgoing'[g] = outgoing[g]
    BY <1>1, <2>3, CallStepTypes DEF OthersSend
  <2> QED BY <1>1, <2>1, <2>2, <2>3, OtherStepsMessages DEF DeliveryNext
<1>3. CASE outgoing'[g] = outgoing[g]
  <2>1. PastBoard(outgoing[g].sid, outgoing[g].board)
    BY <1>3 DEF PastInv
  <2>2. PICK sid, b : sid = outgoing[g].sid /\ b = outgoing[g].board
    OBVIOUS
  <2>3. PastBoard(sid, b)'
    BY <1>1, <2>1, <2>2, PastStays
  <2> QED BY <1>3, <2>2, <2>3 DEF PastBoard
<1>4. CASE ReadBoard(g)
  <2>1. /\ outgoing[g].sid \in SessionIds /\ sessions[outgoing[g].sid] # NoSession
        /\ outgoing'[g].sid = outgoing[g].sid
        /\ outgoing'[g].board = sessions[outgoing[g].sid].board
        /\ UNCHANGED sessions
    BY <1>1, <1>4, ReadBoardTypes, NoSessionAssumption DEF ReadBoard, vars
  <2> QED BY <2>1 DEF PastBoard
<1> QED BY <1>2, <1>3, <1>4

LEMMA ReadRestPast ==
  ASSUME PastInv, NEW h \in Handlers, ReadRest(h)
  PROVE  ComesFrom(Past)'
<1>1. /\ DeliveryTypeInv /\ UNCHANGED <<sessions, queue, view>>
      /\ PastBoard(outgoing[h].sid, outgoing[h].board)
  BY DEF PastInv, PlayInv, ReadRest, Sends, vars
<1>2. OthersSend(h) /\ outgoing'[h].dto \in Past'
  <2>1. /\ outgoing'[h].dto \in DTO /\ OthersSend(h)
        /\ outgoing'[h].dto.sid = outgoing[h].sid /\ outgoing'[h].dto.board = outgoing[h].board
    BY <1>1, ReadRestTypes
  <2> QED BY <1>1, <2>1 DEF Past, PastBoard, View
<1>3. Past' = Past
  BY <1>1 DEF Past, PastBoard
<1> QED BY <1>1, <1>2, <1>3 DEF PastInv, ComesFrom, OthersSend

LEMMA NextPastInv ==
  ASSUME OneAtATime, PastInv, [DeliveryNext]_deliveryVars
  PROVE  PastInv'
<1>1. PlayInv' /\ DeliveryTypeInv /\ Past \subseteq Past'
  BY NextPlayInv, PastGrows DEF PastInv, PlayInv
<1>2. CASE UNCHANGED deliveryVars
  BY <1>1, <1>2 DEF PastInv, ComesFrom, Past, PastBoard, deliveryVars, vars, messages
<1>3. CASE DeliveryNext
  <2>1. ComesFrom(Past)'
    <3>1. CASE \E h \in Handlers : ReadRest(h)
      BY <3>1, ReadRestPast
    <3>2. CASE \/ \E h \in Handlers :
                    \/ ReadBoard(h) \/ SendNext(h) \/ ConnectionStep(h) \/ ReadMove(h)
                    \/ CallStep(h)
               \/ \E h \in Handlers, sid \in SessionIds, x \in Participants : StartGame(h, sid, x)
               \/ \E p \in Participants : ClientAction(p)
      <4>1. PICK V : V = Past
        OBVIOUS
      <4>2. NoView \in V /\ ComesFrom(V)
        BY <4>1 DEF PastInv, Past, View
      <4>3. ComesFrom(V)'
        BY <1>1, <3>2, <4>2, PassedOn
      <4>4. V \subseteq Past' /\ Seq(V) \subseteq Seq(Past')
        BY <1>1, <4>1, BiggerSequences
      <4> QED BY <4>3, <4>4 DEF ComesFrom
    <3> QED BY <1>3, <3>1, <3>2 DEF DeliveryNext, SendStep
  <2>2. \A g \in Handlers : outgoing'[g].pc = "rest" =>
          PastBoard(outgoing[g].sid, outgoing[g].board)'
    BY <1>3, HeldBoard
  <2> QED BY <1>1, <2>1, <2>2 DEF PastInv
<1> QED BY <1>2, <1>3

LEMMA InitPastInv == OneAtATime /\ DeliveryInit => PastInv
<1> SUFFICES ASSUME OneAtATime, DeliveryInit PROVE PastInv
  OBVIOUS
<1>1. NoView \in Past
  BY DEF Past, View
<1>2. \A h \in Handlers : outgoing[h].pc = "new" /\ outgoing[h].dto = NoView /\ queue[h] = <<>>
  BY DEF DeliveryInit, Nothing
<1>3. \A p \in Participants : view[p] = NoView
  BY DEF DeliveryInit
<1>4. ComesFrom(Past)
  <2>1. \A S : <<>> \in Seq(S)
    OBVIOUS
  <2> QED BY <1>1, <1>2, <1>3, <2>1 DEF ComesFrom
<1>5. \A h \in Handlers : outgoing[h].pc # "rest"
  BY <1>2
<1> QED BY <1>4, <1>5, InitPlayInv DEF PastInv

\* Torn, late, reordered or sent to the connection before last: what a player
\* is shown has happened.  It takes that a board only grows, which is what the
\* turn guarantees (NoLostUpdate): the message itself is copied without a lock.
THEOREM ShownIsPast ==
  ASSUME OneAtATime
  PROVE  DeliverySpec => []ViewIsPast
<1> QED BY InitPastInv, NextPastInv, PastIsShown, PTL DEF DeliverySpec

-----------------------------------------------------------------------------
(* What is sent goes to the players of its session, once each.             *)

\* A handler sends to both players of its session, or after the first to O.
\* Nothing is sent while it is in a call, and a message that is being sent is
\* about the session it was copied from.
Directed(g) ==
  LET o == outgoing[g]
      s == sessions[o.sid]
  IN  /\ o.to # <<>> => /\ o.pc \in {"board", "rest", "send"}
                        /\ o.sid \in SessionIds /\ s # NoSession
                        /\ o.to \in {<<s.x, s.o>>, <<s.o>>}
      /\ o.pc = "send" => o.dto # NoView /\ o.dto.sid = o.sid
      /\ ~At(g, "idle") => o.pc = "reading"

\* Messages go to a connection of the participant they are for.
ClientsOwned == \A p \in Participants : clients[p] # NoHandler => Owner[clients[p]] = p

RouteInv ==
  /\ PlayInv /\ ClientsOwned
  /\ \A g \in Handlers : Directed(g)

\* A call that will be announced to the players of its session.
Announcing == {"insertSession", "started", "insert", "pass", "finish", "result", "save",
               "complete", "reply"}

Announces(g, sid) == call[g].pc \in Announcing /\ call[g].sid = sid

\* h alone goes on, and what it announces is about the session it was about.
SameAnnouncement(h) ==
  /\ Alone(h)
  /\ call'[h].pc \in Announcing <=> call[h].pc \in Announcing
  /\ call'[h].pc \in Announcing => call'[h].sid = call[h].sid

\* The sessions keep their players and boards.
SameBoards ==
  \A sid \in SessionIds :
    /\ sessions'[sid] = NoSession <=> sessions[sid] = NoSession
    /\ sessions'[sid].x = sessions[sid].x /\ sessions'[sid].o = sessions[sid].o
    /\ sessions'[sid].board = sessions[sid].board

\* The steps of a call that has something to announce from the write of the
\* board, or the creation of the session, to the reply.
LEMMA CallCases ==
  ASSUME TypeInv, NEW h \in Handlers, CreateStep(h) \/ ApplyMoveStep(h)
  PROVE  \/ SameAnnouncement(h) /\ SameBoards /\ ~(At(h, "started") \/ At(h, "reply"))
         \/ WriteBoard(h)
         \/ /\ At(h, "started") \/ At(h, "reply")
            /\ Alone(h) /\ call'[h] = Idle /\ UNCHANGED sessions
<1>1. CASE CheckTurn(h) \/ ComputeBoard(h) \/ InsertMove(h) \/ SaveSession(h) \/ InsertSession(h)
           \/ CompleteSession(h)
  <2>1. SameAnnouncement(h) /\ UNCHANGED sessions /\ ~(At(h, "started") \/ At(h, "reply"))
    BY <1>1, QuietEffects DEF SameAnnouncement, Announcing, Moved, At
  <2> QED BY <2>1 DEF SameBoards
<1>2. CASE RefuseTurn(h) \/ RefusePosition(h)
  <2>1. /\ call[h].pc \in {"turn", "board"} /\ Alone(h) /\ UNCHANGED sessions
        /\ call'[h] = Idle
    BY <1>2, QuietEffects DEF RefuseTurn, RefusePosition, At
  <2> QED BY <2>1 DEF SameAnnouncement, Announcing, SameBoards, Idle, At
<1>3. CASE AnnounceStart(h) \/ Reply(h)
  BY <1>3, QuietEffects DEF AnnounceStart, Reply
<1>4. CASE PassTurn(h) \/ FinishStatus(h) \/ FinishResult(h)
  <2>1. SameAnnouncement(h) /\ ~(At(h, "started") \/ At(h, "reply")) /\ call[h].pc # "write"
    BY <1>4, FieldCalls DEF SameAnnouncement, Announcing, Moved, At
  <2>2. SameBoards
    BY <1>4, <2>1, FieldEffects, NoSessionAssumption DEF SameBoards
  <2> QED BY <2>1, <2>2
<1> QED BY <1>1, <1>2, <1>3, <1>4 DEF CreateStep, ApplyMoveStep

-----------------------------------------------------------------------------
\* What a step does to the message of its handler, field by field.
Fields(g, pc, sid, to, board, dto) ==
  LET o == outgoing'[g]
  IN  o.pc = pc /\ o.sid = sid /\ o.to = to /\ o.board = board /\ o.dto = dto

LEMMA ProceedFields ==
  ASSUME MessagesOK, NEW h \in Handlers, NEW next, Proceed(h, next)
  PROVE  /\ OthersSend(h)
         /\ Fields(h, next, outgoing[h].sid, outgoing[h].to, outgoing[h].board, outgoing[h].dto)
<1> DEFINE new == [outgoing[h] EXCEPT !.pc = next]
<1>1. outgoing' = [outgoing EXCEPT ![h] = new]
  BY DEF Proceed, MessagesOK
<1>2. /\ new.pc = next /\ new.sid = outgoing[h].sid /\ new.to = outgoing[h].to
      /\ new.board = outgoing[h].board /\ new.dto = outgoing[h].dto
  BY DEF MessagesOK, Sending
<1> HIDE DEF new
<1>3. outgoing'[h] = new /\ OthersSend(h)
  BY <1>1 DEF MessagesOK, OthersSend
<1> QED BY <1>2, <1>3 DEF Fields

LEMMA SentFields ==
  ASSUME MessagesOK, NEW h \in Handlers, Sent(h)
  PROVE  /\ OthersSend(h) /\ outgoing'[h] = Nothing
         /\ Fields(h, "reading", NoSession, <<>>, NewBoard, NoView)
<1>1. outgoing'[h] = Nothing /\ OthersSend(h)
  BY DEF Sent, MessagesOK, OthersSend
<1> QED BY <1>1 DEF Fields, Nothing

LEMMA ReadBoardFields ==
  ASSUME MessagesOK, NEW h \in Handlers, ReadBoard(h)
  PROVE  /\ OthersSend(h) /\ outgoing[h].pc = "board"
         /\ Fields(h, "rest", outgoing[h].sid, outgoing[h].to,
                   sessions[outgoing[h].sid].board, outgoing[h].dto)
<1> DEFINE b == sessions[outgoing[h].sid].board
           new == [outgoing[h] EXCEPT !.pc = "rest", !.board = b]
<1>1. outgoing' = [outgoing EXCEPT ![h] = new] /\ outgoing[h].pc = "board"
  BY DEF ReadBoard, MessagesOK, Sends
<1>2. /\ new.pc = "rest" /\ new.sid = outgoing[h].sid /\ new.to = outgoing[h].to
      /\ new.board = b /\ new.dto = outgoing[h].dto
  BY DEF MessagesOK, Sending
<1> HIDE DEF new
<1>3. outgoing'[h] = new /\ OthersSend(h)
  BY <1>1 DEF MessagesOK, OthersSend
<1> QED BY <1>1, <1>2, <1>3 DEF Fields

LEMMA ReadRestFields ==
  ASSUME DeliveryTypeInv, NEW h \in Handlers, ReadRest(h)
  PROVE  LET o == outgoing[h]
             new == outgoing'[h]
         IN  /\ OthersSend(h) /\ o.pc = "rest" /\ o.sid \in SessionIds
             /\ Fields(h, IF o.to = <<>> THEN "welcome" ELSE "send", o.sid, o.to, o.board, new.dto)
             /\ new.dto \in DTO /\ new.dto # NoView
             /\ new.dto.sid = o.sid /\ new.dto.board = o.board
<1>1. /\ OthersSend(h) /\ outgoing[h].pc = "rest" /\ outgoing[h].sid \in SessionIds
      /\ outgoing'[h].dto \in DTO /\ outgoing'[h].dto.sid = outgoing[h].sid
      /\ outgoing'[h].dto.board = outgoing[h].board
  BY ReadRestTypes
<1> DEFINE s == sessions[outgoing[h].sid]
           dto == [sid |-> outgoing[h].sid, board |-> outgoing[h].board,
                   turn |-> s.turn, status |-> s.status]
           next == IF outgoing[h].to = <<>> THEN "welcome" ELSE "send"
           new == [outgoing[h] EXCEPT !.pc = next, !.dto = dto]
<1>2. MessagesOK
  BY DEF DeliveryTypeInv
<1>3. outgoing' = [outgoing EXCEPT ![h] = new]
  BY <1>2 DEF ReadRest, MessagesOK
<1> HIDE DEF dto
<1>4. /\ new.pc = next /\ new.sid = outgoing[h].sid /\ new.to = outgoing[h].to
      /\ new.board = outgoing[h].board /\ new.dto = dto
  BY <1>2 DEF MessagesOK, Sending
<1> HIDE DEF new
<1>5. outgoing'[h] = new
  BY <1>2, <1>3 DEF MessagesOK
<1> QED BY <1>1, <1>4, <1>5, NoViewAssumption DEF Fields

\* The first of two recipients is served, or the last.
LEMMA SendNextFields ==
  ASSUME MessagesOK, NEW h \in Handlers, SendNext(h)
  PROVE  LET o == outgoing[h]
         IN  /\ OthersSend(h) /\ o.pc = "send"
             /\ Len(o.to) = 1 => outgoing'[h] = Nothing
             /\ Len(o.to) # 1 => Fields(h, "send", o.sid, Tail(o.to), o.board, o.dto)
<1> DEFINE o == outgoing[h]
           new == [o EXCEPT !.to = Tail(o.to)]
<1>1. o.pc = "send"
  BY DEF SendNext, Sends
<1>2. CASE Len(o.to) = 1
  BY <1>1, <1>2, SentFields DEF SendNext
<1>3. CASE Len(o.to) # 1
  <2>1. outgoing' = [outgoing EXCEPT ![h] = new]
    BY <1>3 DEF SendNext, MessagesOK
  <2>2. /\ new.pc = "send" /\ new.sid = o.sid /\ new.to = Tail(o.to)
        /\ new.board = o.board /\ new.dto = o.dto
    BY <1>1 DEF MessagesOK, Sending
  <2> HIDE DEF new
  <2>3. outgoing'[h] = new /\ OthersSend(h)
    BY <2>1 DEF MessagesOK, OthersSend
  <2> QED BY <1>1, <1>3, <2>2, <2>3 DEF Fields
<1> QED BY <1>2, <1>3

LEMMA WelcomeRecoverFields ==
  ASSUME MessagesOK, NEW h \in Handlers, WelcomeRecover(h)
  PROVE  LET sid == Recover(Owner[h])
         IN  /\ OthersSend(h) /\ outgoing[h].pc = "recover"
             /\ Fields(h, IF sid = NoSession THEN "welcome" ELSE "board", sid, outgoing[h].to,
                       outgoing[h].board, outgoing[h].dto)
<1> DEFINE sid == Recover(Owner[h])
           next == IF sid = NoSession THEN "welcome" ELSE "board"
           new == [outgoing[h] EXCEPT !.pc = next, !.sid = sid]
<1>1. outgoing' = [outgoing EXCEPT ![h] = new] /\ outgoing[h].pc = "recover"
  BY DEF WelcomeRecover, MessagesOK, Sends
<1> HIDE DEF sid
<1>2. /\ new.pc = next /\ new.sid = sid /\ new.to = outgoing[h].to
      /\ new.board = outgoing[h].board /\ new.dto = outgoing[h].dto
  BY DEF MessagesOK, Sending
<1> HIDE DEF new
<1>3. outgoing'[h] = new /\ OthersSend(h)
  BY <1>1 DEF MessagesOK, OthersSend
<1> QED BY <1>1, <1>2, <1>3 DEF Fields, sid

\* When a call has succeeded, its session goes to both players.
LEMMA CallStepFields ==
  ASSUME DeliveryTypeInv, NEW h \in Handlers, CallStep(h)
  PROVE  /\ OthersSend(h)
         /\ ~(At(h, "started") \/ At(h, "reply")) => outgoing' = outgoing
         /\ At(h, "started") \/ At(h, "reply") =>
              LET s == CurrentSession(h)
              IN  /\ call[h].sid \in SessionIds /\ s \in Session
                  /\ Fields(h, "board", call[h].sid, <<s.x, s.o>>, NewBoard, NoView)
<1>1. MessagesOK /\ TypeInv
  BY DeliveryTypesInclude DEF DeliveryTypeInv
<1>2. CASE At(h, "started") \/ At(h, "reply")
  <2>1. call[h].sid \in SessionIds /\ CurrentSession(h) \in Session
    BY <1>1, <1>2, SessionOfCall DEF At
  <2> DEFINE sid == call[h].sid
             to == Recipients(CurrentSession(h))
             new == [Nothing EXCEPT !.pc = "board", !.sid = sid, !.to = to]
  <2>2. outgoing' = [outgoing EXCEPT ![h] = new]
    BY <1>2 DEF CallStep, Broadcast, CurrentSession
  <2>3. /\ new.pc = "board" /\ new.sid = sid /\ new.to = to /\ new.board = NewBoard
        /\ new.dto = NoView
    BY DEF Nothing
  <2>4. to = <<CurrentSession(h).x, CurrentSession(h).o>>
    BY DEF Recipients
  <2> HIDE DEF new, to
  <2>5. outgoing'[h] = new /\ OthersSend(h)
    BY <1>1, <2>2 DEF MessagesOK, OthersSend
  <2> QED BY <1>2, <2>1, <2>3, <2>4, <2>5 DEF Fields
<1>3. CASE ~(At(h, "started") \/ At(h, "reply"))
  BY <1>3 DEF CallStep, OthersSend
<1> QED BY <1>2, <1>3

\* Sessions stay, and keep their players.
LEMMA PlayersStay ==
  ASSUME PlayInv, [DeliveryNext]_deliveryVars, NEW sid \in SessionIds, sessions[sid] # NoSession
  PROVE  /\ sessions'[sid] # NoSession
         /\ sessions'[sid].x = sessions[sid].x /\ sessions'[sid].o = sessions[sid].o
         /\ \A c \in Cells : sessions[sid].board[c] # Empty =>
              sessions'[sid].board[c] = sessions[sid].board[c]
<1>1. LockInv /\ MessagesOK
  BY DEF PlayInv, GameInv, DeliveryTypeInv
<1>2. CASE UNCHANGED vars
  BY <1>2 DEF vars
<1>3. CASE \E h \in Handlers : Input(h) \/ CreateStep(h) \/ ApplyMoveStep(h)
  BY <1>1, <1>3, BoardGrows
<1> QED BY <1>1, <1>2, <1>3, CallsAreSteps DEF deliveryVars

LEMMA DirectedKept ==
  ASSUME PlayInv, [DeliveryNext]_deliveryVars, NEW g \in Handlers, Directed(g),
         outgoing'[g] = outgoing[g],
         call'[g].pc = "idle" \/ call[g].pc # "idle" \/ outgoing[g].pc = "reading"
  PROVE  Directed(g)'
<1>1. ASSUME outgoing[g].to # <<>>
      PROVE  LET s == sessions[outgoing[g].sid]
                 t == sessions'[outgoing[g].sid]
             IN  outgoing[g].sid \in SessionIds /\ t # NoSession /\ t.x = s.x /\ t.o = s.o
  BY <1>1, PlayersStay DEF Directed
<1> QED BY <1>1 DEF Directed, At

\* The steps of a handler that is in no call, and those of a call.
LEMMA HandlerDirected ==
  ASSUME RouteInv, DeliveryNext, NEW h \in Handlers,
         SendStep(h) \/ ConnectionStep(h) \/ ReadMove(h) \/ CallStep(h)
           \/ \E sid \in SessionIds, x \in Participants \ {Owner[h]} : StartGame(h, sid, x)
  PROVE  Directed(h)' /\ Alone(h) /\ OthersSend(h)
<1> DEFINE o == outgoing[h]
<1>1. /\ DeliveryTypeInv /\ MessagesOK /\ TypeInv /\ PlayInv /\ Directed(h)
      /\ [DeliveryNext]_deliveryVars
  BY DeliveryTypesInclude DEF RouteInv, PlayInv, DeliveryTypeInv
<1>2. ASSUME o.to # <<>>, outgoing'[h].sid = o.sid
      PROVE  LET s == sessions[o.sid]
                 t == sessions'[outgoing'[h].sid]
             IN  /\ o.sid \in SessionIds /\ t # NoSession /\ t.x = s.x /\ t.o = s.o
                 /\ o.to \in {<<s.x, s.o>>, <<s.o>>}
  BY <1>1, <1>2, PlayersStay DEF Directed
<1>3. CASE SendStep(h)
  <2>1. o.pc # "reading" /\ UNCHANGED call
    BY <1>3 DEF SendStep, ReadBoard, ReadRest, SendNext, Sends, vars
  <2>2. Alone(h) /\ call'[h].pc = "idle"
    BY <1>1, <2>1 DEF Alone, Directed, At
  <2>3. CASE ReadBoard(h)
    <3>1. /\ OthersSend(h) /\ o.pc = "board"
          /\ outgoing'[h].pc = "rest" /\ outgoing'[h].to = o.to /\ outgoing'[h].sid = o.sid
      BY <1>1, <2>3, ReadBoardFields DEF Fields
    <3> QED BY <1>2, <2>2, <3>1 DEF Directed, At
  <2>4. CASE ReadRest(h)
    <3>1. /\ OthersSend(h) /\ o.pc = "rest"
          /\ outgoing'[h].pc = IF o.to = <<>> THEN "welcome" ELSE "send"
          /\ outgoing'[h].to = o.to /\ outgoing'[h].sid = o.sid
          /\ outgoing'[h].dto # NoView /\ outgoing'[h].dto.sid = o.sid
      BY <1>1, <2>4, ReadRestFields DEF Fields
    <3> QED BY <1>2, <2>2, <3>1 DEF Directed, At
  <2>5. CASE SendNext(h)
    <3>1. OthersSend(h) /\ o.pc = "send"
      BY <1>1, <2>5, SendNextFields
    <3>2. CASE Len(o.to) = 1
      <4>1. outgoing'[h] = Nothing
        BY <1>1, <2>5, <3>2, SendNextFields
      <4> QED BY <2>2, <3>1, <4>1 DEF Directed, At, Nothing
    <3>3. CASE Len(o.to) # 1
      <4>1. /\ outgoing'[h].pc = "send" /\ outgoing'[h].to = Tail(o.to)
            /\ outgoing'[h].sid = o.sid /\ outgoing'[h].dto = o.dto
        BY <1>1, <2>5, <3>3, SendNextFields DEF Fields
      <4>2. o.to # <<>>
        BY <1>1, <3>1 DEF DeliveryTypeInv, Addressed
      <4>3. LET s == sessions[o.sid]
            IN  o.to = <<s.x, s.o>> /\ Tail(o.to) = <<s.o>>
        <5> DEFINE x == sessions[o.sid].x
                   y == sessions[o.sid].o
                   to == o.to
        <5>1. to \in {<<x, y>>, <<y>>} /\ Len(to) # 1
          BY <1>1, <3>3, <4>2 DEF Directed
        <5> HIDE DEF x, y, to
        <5>2. Len(<<y>>) = 1 /\ Tail(<<x, y>>) = <<y>>
          OBVIOUS
        <5>3. to = <<x, y>> /\ Tail(to) = <<y>>
          BY <5>1, <5>2, Zenon
        <5> QED BY <5>3 DEF x, y, to
      <4> QED BY <1>1, <1>2, <2>2, <3>1, <4>1, <4>2, <4>3 DEF Directed, At
    <3> QED BY <3>2, <3>3
  <2> QED BY <1>3, <2>3, <2>4, <2>5 DEF SendStep
<1>4. CASE ConnectionStep(h)
  <2>1. UNCHANGED call /\ Alone(h)
    BY <1>4 DEF ConnectionStep, Connect, WelcomeRecover, SendWelcome, DisconnectClient, vars,
                Alone
  <2>2. call'[h].pc = "idle"
    BY <1>1, <1>4, <2>1 DEF ConnectionStep, Connect, WelcomeRecover, SendWelcome,
       DisconnectClient, Sends, Directed, At
  <2>3. o.to = <<>>
    BY <1>1, <1>4 DEF ConnectionStep, Connect, WelcomeRecover, SendWelcome,
       DisconnectClient, Sends, Directed
  <2>4. OthersSend(h) /\ outgoing'[h].to = <<>> /\ outgoing'[h].pc # "send"
    <3>1. CASE Connect(h)
      BY <1>1, <2>3, <3>1, ProceedFields DEF Connect, Fields
    <3>2. CASE WelcomeRecover(h)
      BY <1>1, <2>3, <3>2, WelcomeRecoverFields DEF Fields
    <3>3. CASE SendWelcome(h)
      BY <1>1, <2>3, <3>3, SentFields DEF SendWelcome, Fields
    <3>4. CASE DisconnectClient(h)
      BY <1>1, <2>3, <3>4, ProceedFields DEF DisconnectClient, Fields
    <3> QED BY <1>4, <3>1, <3>2, <3>3, <3>4 DEF ConnectionStep
  <2> QED BY <2>1, <2>2, <2>4 DEF Directed, At
<1>5. CASE ReadMove(h)
  <2>1. outgoing' = outgoing /\ o.pc = "reading"
    BY <1>5 DEF ReadMove, Sends
  <2>2. Alone(h)
    <3>1. CASE UNCHANGED vars
      BY <3>1 DEF vars, Alone
    <3>2. CASE ReceiveMove(h, Head(clicks[h]).sid, Head(clicks[h]).position)
      BY <1>1, <3>2 DEF ReceiveMove, Alone, TypeInv, TypeOK
    <3> QED BY <1>5, <3>1, <3>2 DEF ReadMove
  <2> QED BY <1>1, <2>1, <2>2, DirectedKept DEF OthersSend
<1>6. CASE CallStep(h)
  <2>1. CreateStep(h) \/ ApplyMoveStep(h)
    BY <1>6 DEF CallStep
  <2>2. Alone(h) /\ call[h].pc # "idle"
    BY <1>1, <2>1, StepIsAlone DEF CreateStep, ApplyMoveStep, InsertSession, AnnounceStart,
       CheckTurn, RefuseTurn, ComputeBoard, RefusePosition, WriteBoard, InsertMove, PassTurn,
       FinishStatus, FinishResult, SaveSession, CompleteSession, Reply, At
  <2>3. CASE At(h, "started") \/ At(h, "reply")
    <3>1. /\ call[h].sid \in SessionIds /\ CurrentSession(h) \in Session /\ OthersSend(h)
          /\ outgoing'[h].pc = "board" /\ outgoing'[h].sid = call[h].sid
          /\ outgoing'[h].to = <<CurrentSession(h).x, CurrentSession(h).o>>
      BY <1>1, <1>6, <2>3, CallStepFields DEF Fields
    <3>2. call'[h] = Idle /\ UNCHANGED sessions
      <4>1. ~WriteBoard(h) /\ ~(SameAnnouncement(h) /\ SameBoards /\ ~(At(h, "started") \/ At(h, "reply")))
        BY <2>3 DEF WriteBoard, At
      <4> QED BY <1>1, <2>1, <4>1, CallCases
    <3> QED BY <2>2, <3>1, <3>2, NoSessionAssumption DEF Directed, At, Idle, CurrentSession
  <2>4. CASE ~(At(h, "started") \/ At(h, "reply"))
    <3>1. outgoing' = outgoing
      BY <1>1, <1>6, <2>4, CallStepFields
    <3> QED BY <1>1, <2>2, <3>1, DirectedKept DEF OthersSend
  <2> QED BY <2>3, <2>4
<1>7. ASSUME NEW sid \in SessionIds, NEW x \in Participants \ {Owner[h]}, StartGame(h, sid, x)
      PROVE  Directed(h)' /\ Alone(h) /\ OthersSend(h)
  <2>1. outgoing' = outgoing /\ o.pc = "reading" /\ Alone(h)
    BY <1>1, <1>7, CreateEffects, OwnerAssumption DEF StartGame, messages, Sends
  <2> QED BY <1>1, <2>1, DirectedKept DEF OthersSend
<1> QED BY <1>3, <1>4, <1>5, <1>6, <1>7

LEMMA NextRouteInv ==
  ASSUME OneAtATime, RouteInv, [DeliveryNext]_deliveryVars
  PROVE  RouteInv'
<1>1. /\ PlayInv /\ PlayInv' /\ MessagesOK /\ ClientsOwned
      /\ \A g \in Handlers : Directed(g)
  BY NextPlayInv DEF RouteInv, PlayInv, DeliveryTypeInv
<1>2. CASE UNCHANGED deliveryVars
  <2>1. UNCHANGED <<call, outgoing, clients>>
    BY <1>2 DEF deliveryVars, vars, messages
  <2> QED BY <1>1, <2>1, DirectedKept DEF RouteInv, ClientsOwned
<1>3. ASSUME NEW h \in Handlers,
             SendStep(h) \/ ConnectionStep(h) \/ ReadMove(h) \/ CallStep(h)
               \/ \E sid \in SessionIds, x \in Participants \ {Owner[h]} : StartGame(h, sid, x),
             DeliveryNext
      PROVE  RouteInv'
  <2>1. Directed(h)' /\ Alone(h) /\ OthersSend(h)
    BY <1>3, HandlerDirected
  <2>2. \A g \in Handlers : Directed(g)'
    <3> TAKE g \in Handlers
    <3>1. CASE g # h
      <4>1. outgoing'[g] = outgoing[g] /\ call'[g] = call[g]
        BY <2>1, <3>1 DEF Alone, OthersSend
      <4> QED BY <1>1, <4>1, DirectedKept
    <3> QED BY <2>1, <3>1
  <2>3. ClientsOwned'
    <3>1. CASE UNCHANGED clients
      BY <1>1, <3>1 DEF ClientsOwned
    <3>2. CASE Connect(h) \/ DisconnectClient(h)
      <4>1. \A p \in Participants :
              clients'[p] \in {clients[p], NoHandler} \/ (clients'[p] = h /\ p = Owner[h])
        BY <1>1, <3>2, OwnerAssumption DEF Connect, DisconnectClient, MessagesOK
      <4> QED BY <1>1, <4>1 DEF ClientsOwned
    <3> QED BY <1>3, <3>1, <3>2
            DEF SendStep, ConnectionStep, ReadBoard, ReadRest, SendNext, WelcomeRecover,
                SendWelcome, ReadMove, CallStep, StartGame, messages
  <2> QED BY <1>1, <2>2, <2>3 DEF RouteInv
<1>4. ASSUME NEW p \in Participants, ClientAction(p)
      PROVE  RouteInv'
  <2>1. UNCHANGED <<clients, outgoing, call>>
    BY <1>4 DEF ClientAction, ClientReads, ClientClicks, LeaveGame, vars
  <2> QED BY <1>1, <2>1, DirectedKept DEF RouteInv, ClientsOwned
<1> QED BY <1>2, <1>3, <1>4 DEF DeliveryNext

LEMMA InitRouteInv == OneAtATime /\ DeliveryInit => RouteInv
<1> SUFFICES ASSUME OneAtATime, DeliveryInit PROVE RouteInv
  OBVIOUS
<1>1. ClientsOwned
  BY DEF DeliveryInit, ClientsOwned
<1>2. \A g \in Handlers : Directed(g)
  BY DEF DeliveryInit, Init, Directed, Nothing, At, Idle
<1> QED BY <1>1, <1>2, InitPlayInv DEF RouteInv

-----------------------------------------------------------------------------
(* The messages of a queue, by game.                                       *)

\* The game a message carries; the lobby is none.
GameOf(v) == IF v = NoView THEN NoSession ELSE v.sid

Games == SessionIds \cup {NoSession}

Positions(s, t) == {i \in DOMAIN s : GameOf(s[i]) = t}

LEMMA PositionsFinite ==
  ASSUME NEW s \in Seq(View), NEW t
  PROVE  /\ IsFiniteSet(Positions(s, t)) /\ Cardinality(Positions(s, t)) \in Nat
         /\ Positions(<<>>, t) = {}
<1>1. Len(s) \in Int /\ 1 \in Int /\ DOMAIN s = 1..Len(s)
  OBVIOUS
<1>2. IsFiniteSet(1..Len(s))
  BY <1>1, FS_Interval, Zenon
<1>3. Positions(s, t) \subseteq 1..Len(s) /\ Positions(<<>>, t) = {}
  BY <1>1 DEF Positions
<1> QED BY <1>2, <1>3, FS_Subset, FS_CardinalityType

\* One more message is one more of its own game.
LEMMA PositionsAppend ==
  ASSUME NEW s \in Seq(View), NEW d \in View, NEW t
  PROVE  LET n == Cardinality(Positions(Append(s, d), t))
         IN  /\ n <= Cardinality(Positions(s, t)) + 1
             /\ GameOf(d) # t => n = Cardinality(Positions(s, t))
<1> DEFINE P == Positions(s, t)
           Q == Positions(Append(s, d), t)
           k == Len(s) + 1
<1>1. IsFiniteSet(P) /\ Cardinality(P) \in Nat /\ IsFiniteSet(Q) /\ Cardinality(Q) \in Nat
  <2>1. Append(s, d) \in Seq(View)
    OBVIOUS
  <2> QED BY <2>1, PositionsFinite
<1>2. /\ DOMAIN Append(s, d) = DOMAIN s \cup {k}
      /\ \A i \in DOMAIN s : Append(s, d)[i] = s[i]
      /\ Append(s, d)[k] = d
  OBVIOUS
<1>3. Q \subseteq P \cup {k} /\ (GameOf(d) # t => Q = P)
  BY <1>2 DEF Positions
<1> HIDE DEF P, Q, k
<1>4. IsFiniteSet(P \cup {k}) /\ Cardinality(P \cup {k}) = IF k \in P THEN Cardinality(P) ELSE Cardinality(P) + 1
  BY <1>1, FS_AddElement
<1>5. Cardinality(Q) <= Cardinality(P \cup {k})
  BY <1>3, <1>4, FS_Subset
<1>6. Cardinality(Q) <= Cardinality(P) + 1
  BY <1>1, <1>4, <1>5
<1> QED BY <1>3, <1>6 DEF P, Q

LEMMA PositionsTail ==
  ASSUME NEW s \in Seq(View), s # <<>>, NEW t
  PROVE  Cardinality(Positions(Tail(s), t)) <= Cardinality(Positions(s, t))
<1> DEFINE P == Positions(s, t)
           Q == Positions(Tail(s), t)
           f == [i \in Q |-> i + 1]
<1>1. /\ DOMAIN Tail(s) \subseteq Nat
      /\ \A i \in DOMAIN Tail(s) : i + 1 \in DOMAIN s /\ Tail(s)[i] = s[i + 1]
  OBVIOUS
<1>2. Q \subseteq Nat /\ \A i \in Q : i + 1 \in P
  BY <1>1 DEF Positions
<1>3. IsFiniteSet(P)
  BY PositionsFinite
<1> HIDE DEF P, Q
<1>4. f \in Injection(Q, P)
  BY <1>2 DEF Injection, IsInjective
<1> HIDE DEF f
<1>5. Cardinality(Q) <= Cardinality(P)
  BY <1>3, <1>4, FS_Injection
<1> QED BY <1>5 DEF P, Q

-----------------------------------------------------------------------------
(* Who still has to send what.                                             *)

Waits(g, p) == \E i \in DOMAIN outgoing[g].to : outgoing[g].to[i] = p

\* g will send a message about session sid to p: it is still in the call that
\* will announce it, or has not come to p yet.
Owes(g, p, sid) ==
  \/ Announces(g, sid) /\ p \in Players(sessions[sid])
  \/ outgoing[g].sid = sid /\ Waits(g, p)

Debtors(p, sid) == {g \in Handlers : Owes(g, p, sid)}

\* What has happened on a board: it was laid out, and cells were played.
Changes(b) == {9} \cup {c \in Cells : b[c] # Empty}

Played(sid) ==
  IF sid \in SessionIds /\ sessions[sid] # NoSession THEN Changes(sessions[sid].board) ELSE {}

LEMMA WaitingPlayers ==
  ASSUME NEW g \in Handlers, Directed(g), outgoing[g].to # <<>>, NEW p
  PROVE  LET s == sessions[outgoing[g].sid]
         IN  Waits(g, p) <=> \/ outgoing[g].to = <<s.x, s.o>> /\ p \in {s.x, s.o}
                             \/ outgoing[g].to = <<s.o>> /\ p = s.o
<1> DEFINE x == sessions[outgoing[g].sid].x
           y == sessions[outgoing[g].sid].o
           to == outgoing[g].to
<1>1. to \in {<<x, y>>, <<y>>}
  BY DEF Directed
<1>2. /\ DOMAIN <<x, y>> = {1, 2} /\ <<x, y>>[1] = x /\ <<x, y>>[2] = y
      /\ DOMAIN <<y>> = {1} /\ <<y>>[1] = y
  OBVIOUS
<1>3. Len(<<x, y>>) = 2 /\ Len(<<y>>) = 1
  OBVIOUS
<1>4. <<x, y>> # <<y>>
  BY <1>3
<1>5. Waits(g, p) <=> \E i \in DOMAIN to : to[i] = p
  BY DEF Waits
<1> HIDE DEF x, y, to
<1>6. CASE to = <<x, y>>
  BY <1>2, <1>4, <1>5, <1>6, Zenon DEF x, y, to
<1>7. CASE to = <<y>>
  BY <1>2, <1>4, <1>5, <1>7, Zenon DEF x, y, to
<1> QED BY <1>1, <1>6, <1>7

\* A handler that does nothing owes what it owed.
LEMMA OthersOwe ==
  ASSUME RouteInv, [DeliveryNext]_deliveryVars, NEW g \in Handlers,
         call'[g] = call[g], outgoing'[g] = outgoing[g], NEW p, NEW sid
  PROVE  Owes(g, p, sid)' <=> Owes(g, p, sid)
<1>1. /\ Waits(g, p)' <=> Waits(g, p)
      /\ Announces(g, sid)' <=> Announces(g, sid)
  BY DEF Waits, Announces
<1>2. ASSUME Announces(g, sid)
      PROVE  Players(sessions[sid])' = Players(sessions[sid])
  <2>1. ~At(g, "idle") /\ Located /\ PlayInv
    BY <1>2 DEF Announces, Announcing, At, RouteInv, PlayInv, GameInv, LockInv
  <2>2. sid \in SessionIds /\ sessions[sid] # NoSession
    BY <1>2, <2>1 DEF Announces, Located, CurrentSession
  <2> QED BY <2>1, <2>2, PlayersStay DEF Players
<1> QED BY <1>1, <1>2 DEF Owes

\* A step that neither begins to announce nor to send.
LEMMA QuietOwes ==
  ASSUME RouteInv, [DeliveryNext]_deliveryVars, NEW h \in Handlers,
         call'[h].pc \in Announcing => call[h].pc \in Announcing /\ call'[h].sid = call[h].sid,
         outgoing'[h].to # <<>> =>
           outgoing'[h].to = outgoing[h].to /\ outgoing'[h].sid = outgoing[h].sid,
         NEW p, NEW sid, Owes(h, p, sid)'
  PROVE  Owes(h, p, sid)
<1>1. CASE Announces(h, sid)' /\ p \in Players(sessions[sid])'
  <2>1. Announces(h, sid)
    BY <1>1 DEF Announces
  <2>2. ~At(h, "idle") /\ Located /\ PlayInv
    BY <2>1 DEF Announces, Announcing, At, RouteInv, PlayInv, GameInv, LockInv
  <2>3. sid \in SessionIds /\ sessions[sid] # NoSession
    BY <2>1, <2>2 DEF Announces, Located, CurrentSession
  <2>4. p \in Players(sessions[sid])
    BY <1>1, <2>2, <2>3, PlayersStay DEF Players
  <2> QED BY <2>1, <2>4 DEF Owes
<1>2. CASE (outgoing[h].sid = sid /\ Waits(h, p))'
  <2>1. outgoing'[h].to # <<>>
    BY <1>2 DEF Waits
  <2> QED BY <1>2, <2>1 DEF Owes, Waits
<1> QED BY <1>1, <1>2 DEF Owes

\* The first recipient has been served.
LEMMA SendNextOwes ==
  ASSUME RouteInv, DeliveryNext, NEW h \in Handlers, SendNext(h),
         NEW q, q = Head(outgoing[h].to), NEW sid, sid = outgoing[h].sid
  PROVE  /\ sid \in SessionIds /\ q \in Participants
         /\ Owes(h, q, sid) /\ ~(Owes(h, q, sid)')
         /\ \A p, t : Owes(h, p, t)' => Owes(h, p, t)
<1> DEFINE o == outgoing[h]
           s == sessions[sid]
<1>1. /\ MessagesOK /\ Directed(h) /\ Directed(h)' /\ DeliveryTypeInv /\ o.pc = "send"
      /\ PlayInv /\ [DeliveryNext]_deliveryVars
  <2>1. SendStep(h) /\ o.pc = "send"
    BY DEF SendNext, Sends, SendStep
  <2>2. Directed(h)'
    BY <2>1, HandlerDirected
  <2>3. PlayInv /\ Directed(h) /\ [DeliveryNext]_deliveryVars
    BY DEF RouteInv
  <2>4. DeliveryTypeInv /\ MessagesOK
    BY <2>3 DEF PlayInv, DeliveryTypeInv
  <2> QED BY <2>1, <2>2, <2>3, <2>4
<1>2. /\ o.to # <<>> /\ sid \in SessionIds /\ s # NoSession /\ s.x # s.o
      /\ q \in Participants
      /\ o.to \in {<<s.x, s.o>>, <<s.o>>}
  <2>1. o.to # <<>> /\ sid \in SessionIds /\ s # NoSession
    BY <1>1 DEF Directed, DeliveryTypeInv, Addressed
  <2>2. o.to \in {<<s.x, s.o>>, <<s.o>>}
    BY <1>1, <2>1 DEF Directed
  <2>3. PlayersDiffer
    BY <1>1 DEF PlayInv, GameInv
  <2>4. q \in Participants
    BY <1>1, <2>1, HeadAndTail DEF MessagesOK, Sending
  <2> QED BY <2>1, <2>2, <2>3, <2>4 DEF PlayersDiffer
<1>3. \A t : ~(Announces(h, t)') /\ ~Announces(h, t)
  <2>1. call'[h].pc = "idle" /\ call[h].pc = "idle"
    BY <1>1 DEF Directed, At, SendNext, vars
  <2> QED BY <2>1 DEF Announces, Announcing
<1>4. /\ Len(<<s.x, s.o>>) = 2 /\ Head(<<s.x, s.o>>) = s.x /\ Tail(<<s.x, s.o>>) = <<s.o>>
      /\ Len(<<s.o>>) = 1 /\ Head(<<s.o>>) = s.o
  OBVIOUS
<1>5. CASE Len(o.to) = 1
  <2>1. outgoing'[h] = Nothing /\ o.to = <<s.o>> /\ q = s.o
    BY <1>1, <1>2, <1>4, <1>5, SendNextFields
  <2>2. \A p : ~(Waits(h, p)')
    BY <2>1 DEF Waits, Nothing
  <2>3. Waits(h, q)
    BY <1>1, <1>2, <2>1, WaitingPlayers
  <2> QED BY <1>2, <1>3, <2>2, <2>3 DEF Owes
<1>6. CASE Len(o.to) # 1
  <2>1. o.to = <<s.x, s.o>> /\ q = s.x
    BY <1>2, <1>4, <1>6, Zenon
  <2>2. outgoing'[h].to = <<s.o>> /\ outgoing'[h].sid = sid
    <3>1. outgoing'[h].to = Tail(o.to) /\ outgoing'[h].sid = sid
      BY <1>1, <1>6, SendNextFields DEF Fields
    <3>2. Tail(o.to) = Tail(<<s.x, s.o>>)
      BY <2>1
    <3> QED BY <1>4, <3>1, <3>2
  <2>3. \A p : Waits(h, p)' => p = s.o
    <3>1. DOMAIN <<s.o>> = {1} /\ <<s.o>>[1] = s.o
      OBVIOUS
    <3> QED BY <2>2, <3>1 DEF Waits
  <2>4. Waits(h, s.x) /\ Waits(h, s.o)
    BY <1>1, <1>2, <2>1, WaitingPlayers
  <2>5. Owes(h, q, sid)
    BY <2>1, <2>4 DEF Owes
  <2>6. ~(Owes(h, q, sid)')
    BY <1>2, <1>3, <2>1, <2>3 DEF Owes
  <2>7. ASSUME NEW p, NEW t, Owes(h, p, t)'
        PROVE  Owes(h, p, t)
    <3>1. outgoing'[h].sid = t /\ Waits(h, p)'
      BY <1>3, <2>7 DEF Owes
    <3>2. outgoing[h].sid = t /\ Waits(h, p)
      BY <2>2, <2>3, <2>4, <3>1
    <3> QED BY <3>2 DEF Owes
  <2> QED BY <1>2, <2>5, <2>6, <2>7
<1> QED BY <1>5, <1>6

\* Who is in the call that announces sid owes it to its players, and who sends
\* it owes it to nobody else.
LEMMA AnnouncedOwes ==
  ASSUME RouteInv, DeliveryNext, NEW h \in Handlers, CallStep(h),
         At(h, "started") \/ At(h, "reply"), NEW p, NEW sid, Owes(h, p, sid)'
  PROVE  Owes(h, p, sid)
<1> DEFINE s == CurrentSession(h)
<1>1. /\ DeliveryTypeInv /\ TypeInv /\ (CreateStep(h) \/ ApplyMoveStep(h))
      /\ call[h].pc \in Announcing
  BY DeliveryTypesInclude DEF RouteInv, PlayInv, CallStep, At, Announcing
<1>2. call'[h] = Idle
  <2>1. ~WriteBoard(h) /\ ~(SameAnnouncement(h) /\ SameBoards /\ ~(At(h, "started") \/ At(h, "reply")))
    BY DEF WriteBoard, At
  <2> QED BY <1>1, <2>1, CallCases
<1>3. outgoing'[h].sid = call[h].sid /\ outgoing'[h].to = <<s.x, s.o>>
  BY <1>1, CallStepFields DEF Fields
<1>4. ~(Announces(h, sid)')
  BY <1>2 DEF Announces, Announcing, Idle
<1>5. sid = call[h].sid /\ Waits(h, p)'
  BY <1>3, <1>4 DEF Owes
<1>6. p \in {s.x, s.o}
  <2>1. DOMAIN <<s.x, s.o>> = {1, 2} /\ <<s.x, s.o>>[1] = s.x /\ <<s.x, s.o>>[2] = s.o
    OBVIOUS
  <2> QED BY <1>3, <1>5, <2>1 DEF Waits
<1> QED BY <1>1, <1>5, <1>6 DEF Owes, Announces, Players, CurrentSession

LEMMA NoNewDebts ==
  ASSUME RouteInv, [DeliveryNext]_deliveryVars, NEW h \in Handlers, Alone(h), OthersSend(h),
         \A p, t : Owes(h, p, t)' => Owes(h, p, t)
  PROVE  \A p, t : Debtors(p, t)' \subseteq Debtors(p, t)
<1> SUFFICES ASSUME NEW p, NEW t, NEW g \in Handlers, Owes(g, p, t)'
             PROVE  Owes(g, p, t)
  BY DEF Debtors
<1>1. CASE g = h
  BY <1>1
<1>2. CASE g # h
  <2>1. call'[g] = call[g] /\ outgoing'[g] = outgoing[g]
    BY <1>2 DEF Alone, OthersSend
  <2> QED BY <2>1, OthersOwe
<1> QED BY <1>1, <1>2

\* Nobody owes more than before, unless a board is written or a game started.
LEMMA HandlerDebts ==
  ASSUME RouteInv, DeliveryNext, NEW h \in Handlers,
         \/ SendStep(h) \/ ConnectionStep(h) \/ ReadMove(h)
         \/ CallStep(h) /\ ~WriteBoard(h)
  PROVE  \A p, t : Debtors(p, t)' \subseteq Debtors(p, t)
<1> DEFINE o == outgoing[h]
<1>1. /\ DeliveryTypeInv /\ MessagesOK /\ TypeInv /\ Directed(h) /\ [DeliveryNext]_deliveryVars
      /\ Directed(h)' /\ Alone(h) /\ OthersSend(h)
  <2>1. DeliveryTypeInv /\ Directed(h)
    BY DEF RouteInv, PlayInv
  <2>2. MessagesOK /\ TypeInv
    BY <2>1, DeliveryTypesInclude DEF DeliveryTypeInv
  <2>3. Directed(h)' /\ Alone(h) /\ OthersSend(h)
    BY HandlerDirected
  <2> QED BY <2>1, <2>2, <2>3
<1>2. ASSUME call'[h] = call[h],
             outgoing'[h].to # <<>> =>
               outgoing'[h].to = outgoing[h].to /\ outgoing'[h].sid = outgoing[h].sid
      PROVE  \A p, t : Owes(h, p, t)' => Owes(h, p, t)
  BY <1>1, <1>2, QuietOwes
<1>3. CASE SendNext(h)
  <2>1. \A p, t : Owes(h, p, t)' => Owes(h, p, t)
    BY <1>3, SendNextOwes
  <2> QED BY <1>1, <2>1, NoNewDebts
<1>4. CASE ReadBoard(h) \/ ReadRest(h)
  <2>1. call'[h] = call[h] /\ outgoing'[h].to = o.to /\ outgoing'[h].sid = o.sid
    BY <1>1, <1>4, ReadBoardFields, ReadRestFields DEF Fields, ReadBoard, ReadRest, vars
  <2>2. \A p, t : Owes(h, p, t)' => Owes(h, p, t)
    BY <1>2, <2>1
  <2> QED BY <1>1, <2>2, NoNewDebts
<1>5. CASE ConnectionStep(h)
  <2>1. UNCHANGED call
    BY <1>5 DEF ConnectionStep, Connect, WelcomeRecover, SendWelcome, DisconnectClient, vars
  <2>2. outgoing'[h].to = <<>>
    <3>1. o.to = <<>>
      BY <1>1, <1>5 DEF ConnectionStep, Connect, WelcomeRecover, SendWelcome,
         DisconnectClient, Sends, Directed
    <3>2. CASE Connect(h) \/ DisconnectClient(h)
      BY <1>1, <3>1, <3>2, ProceedFields DEF Connect, DisconnectClient, Fields
    <3>3. CASE WelcomeRecover(h)
      BY <1>1, <3>1, <3>3, WelcomeRecoverFields DEF Fields
    <3>4. CASE SendWelcome(h)
      BY <1>1, <3>4, SentFields DEF SendWelcome, Fields
    <3> QED BY <1>5, <3>2, <3>3, <3>4 DEF ConnectionStep
  <2>3. \A p, t : Owes(h, p, t)' => Owes(h, p, t)
    BY <1>2, <2>1, <2>2
  <2> QED BY <1>1, <2>3, NoNewDebts
<1>6. CASE ReadMove(h)
  <2>1. outgoing' = outgoing /\ (call'[h] = call[h] \/ call'[h].pc = "turn")
    <3>1. CASE UNCHANGED vars
      BY <1>6, <3>1 DEF ReadMove, vars
    <3>2. CASE ReceiveMove(h, Head(clicks[h]).sid, Head(clicks[h]).position)
      <4>1. Head(clicks[h]).sid \in SessionIds
        <5>1. Head(clicks[h]) \in Click
          BY <1>1, <1>6, HeadAndTail DEF ReadMove, MessagesOK
        <5> QED BY <5>1 DEF Click
      <4>2. call'[h].pc = "turn"
        BY <1>1, <3>2, <4>1, ReceiveEffects
      <4> QED BY <1>6, <4>2 DEF ReadMove
    <3> QED BY <1>6, <3>1, <3>2 DEF ReadMove
  <2>2. call'[h].pc \in Announcing => call[h].pc \in Announcing /\ call'[h].sid = call[h].sid
    BY <2>1 DEF Announcing
  <2>3. \A p, t : Owes(h, p, t)' => Owes(h, p, t)
    BY <1>1, <2>1, <2>2, QuietOwes
  <2> QED BY <1>1, <2>3, NoNewDebts
<1>7. CASE CallStep(h) /\ ~WriteBoard(h)
  <2>1. CASE At(h, "started") \/ At(h, "reply")
    <3>1. \A p, t : Owes(h, p, t)' => Owes(h, p, t)
      BY <1>7, <2>1, AnnouncedOwes
    <3> QED BY <1>1, <3>1, NoNewDebts
  <2>2. CASE ~(At(h, "started") \/ At(h, "reply"))
    <3>1. outgoing' = outgoing
      BY <1>1, <1>7, <2>2, CallStepFields
    <3>2. SameAnnouncement(h)
      BY <1>1, <1>7, <2>2, CallCases DEF CallStep
    <3>3. \A p, t : Owes(h, p, t)' => Owes(h, p, t)
      BY <1>1, <3>1, <3>2, QuietOwes DEF SameAnnouncement
    <3> QED BY <1>1, <3>3, NoNewDebts
  <2> QED BY <2>1, <2>2
<1> QED BY <1>3, <1>4, <1>5, <1>6, <1>7 DEF SendStep

LEMMA ClientDebts ==
  ASSUME RouteInv, [DeliveryNext]_deliveryVars, UNCHANGED <<call, outgoing>>
  PROVE  \A p, t : Debtors(p, t)' \subseteq Debtors(p, t)
BY OthersOwe DEF Debtors

LEMMA PlayedGrows ==
  ASSUME PlayInv, [DeliveryNext]_deliveryVars
  PROVE  \A t : Played(t) \subseteq Played(t)'
<1> SUFFICES ASSUME NEW t \in SessionIds, sessions[t] # NoSession
             PROVE  Played(t) \subseteq Played(t)'
  BY DEF Played
<1>1. /\ sessions'[t] # NoSession
      /\ \A c \in Cells : sessions[t].board[c] # Empty => sessions'[t].board[c] # Empty
  BY PlayersStay
<1> QED BY <1>1 DEF Played, Changes

LEMMA ChangesAreFinite ==
  ASSUME NEW b
  PROVE  IsFiniteSet(Changes(b)) /\ Cardinality(Changes(b)) = countMoves(b) + 1
<1> DEFINE C == {c \in Cells : b[c] # Empty}
<1>1. IsFiniteSet(Cells)
  <2>1. 0 \in Int /\ 8 \in Int
    OBVIOUS
  <2> QED BY <2>1, FS_Interval, Zenon DEF Cells
<1>2. IsFiniteSet(C) /\ 9 \notin C
  <2>1. C \subseteq Cells /\ 9 \notin Cells
    BY DEF Cells
  <2> HIDE DEF C
  <2> QED BY <1>1, <2>1, FS_Subset
<1>3. Cardinality(C) = countMoves(b)
  BY DEF countMoves
<1>4. Changes(b) = C \cup {9}
  BY DEF Changes
<1> HIDE DEF C
<1> QED BY <1>2, <1>3, <1>4, FS_AddElement

LEMMA PlayedIsFinite ==
  ASSUME NEW t
  PROVE  /\ IsFiniteSet(Played(t)) /\ Cardinality(Played(t)) \in Nat
         /\ IsFiniteSet(Played(t)') /\ Cardinality(Played(t)') \in Nat
<1>1. ASSUME NEW b
      PROVE  IsFiniteSet(Changes(b)) /\ Cardinality(Changes(b)) \in Nat
  BY ChangesAreFinite, FS_CardinalityType
<1> QED BY <1>1, FS_EmptySet DEF Played

\* h makes a move, or starts a game: sid has one more change, and nobody owes
\* anything more than h owes this one.
Happens(h, sid) ==
  /\ \A p, t : Debtors(p, t)' \subseteq Debtors(p, t) \cup (IF t = sid THEN {h} ELSE {})
  /\ \E c : c \in Played(sid)' /\ c \notin Played(sid)

LEMMA WriteHappens ==
  ASSUME RouteInv, DeliveryNext, NEW h \in Handlers, CallStep(h), WriteBoard(h),
         NEW sid, sid = call[h].sid
  PROVE  sid \in SessionIds /\ Happens(h, sid)
<1>1. /\ GameInv /\ LockInv /\ TypeInv /\ DeliveryTypeInv /\ [DeliveryNext]_deliveryVars
      /\ call[h].pc = "write"
  BY DeliveryTypesInclude DEF RouteInv, PlayInv, GameInv, WriteBoard, At
<1>2. /\ call'[h].pc = "insert" /\ call'[h].sid = sid /\ Alone(h) /\ UNCHANGED outgoing
  BY <1>1, FieldCalls, CallStepFields DEF Moved, At
<1>3. ASSUME NEW p, NEW t, NEW g \in Handlers, Owes(g, p, t)', ~Owes(g, p, t)
      PROVE  g = h /\ t = sid
  <2>1. g = h
    <3> SUFFICES ASSUME g # h PROVE FALSE
      OBVIOUS
    <3>1. call'[g] = call[g] /\ outgoing'[g] = outgoing[g]
      BY <1>2 DEF Alone
    <3> QED BY <1>1, <1>3, <3>1, OthersOwe
  <2>2. ~(outgoing'[h].sid = t /\ Waits(h, p)')
    BY <1>2, <1>3, <2>1 DEF Owes, Waits
  <2> QED BY <1>2, <1>3, <2>1, <2>2 DEF Owes, Announces
<1>4. \A p, t : Debtors(p, t)' \subseteq Debtors(p, t) \cup (IF t = sid THEN {h} ELSE {})
  BY <1>3 DEF Debtors
<1> DEFINE c == call[h].position
           b == sessions[sid].board
<1>5. /\ sid \in SessionIds /\ sessions[sid] \in Session /\ sessions'[sid] \in Session
      /\ sessions'[sid].board = call[h].board
  BY <1>1, FieldEffects
<1>6. c \in Cells /\ b[c] = Empty /\ call[h].board = ApplyMove(b, c, call[h].mark)
  BY <1>1 DEF GameInv, LockInv, Orderly, WriteIsFresh, FreshWrite, CurrentSession, At
<1>7. call[h].mark \in Marks
  BY <1>1 DEF LockInv, TurnIsHeld, HoldsTurn, Section
<1>8. call[h].board[c] # Empty
  <2>1. b \in Boards
    BY <1>5 DEF Session
  <2> QED BY <1>6, <1>7, <2>1 DEF ApplyMove, Boards, Marks, MarkX, MarkO, Empty
<1>9. c \in Played(sid)' /\ c \notin Played(sid)
  <2>1. c # 9
    BY <1>6 DEF Cells
  <2> QED BY <1>5, <1>6, <1>8, <2>1, NoSessionAssumption DEF Played, Changes
<1> QED BY <1>4, <1>5, <1>9 DEF Happens

LEMMA StartHappens ==
  ASSUME RouteInv, DeliveryNext, NEW h \in Handlers, NEW sid \in SessionIds,
         NEW x \in Participants \ {Owner[h]}, StartGame(h, sid, x)
  PROVE  Happens(h, sid)
<1>1. TypeInv /\ [DeliveryNext]_deliveryVars /\ Owner[h] \in Participants
  BY DeliveryTypesInclude, OwnerAssumption DEF RouteInv, PlayInv
<1>2. /\ call'[h].sid = sid /\ Alone(h) /\ sessions[sid] = NoSession
      /\ sessions'[sid] \in Session /\ UNCHANGED outgoing
  BY <1>1, CreateEffects DEF StartGame, messages
<1>3. ASSUME NEW p, NEW t, NEW g \in Handlers, Owes(g, p, t)', ~Owes(g, p, t)
      PROVE  g = h /\ t = sid
  <2>1. g = h
    <3> SUFFICES ASSUME g # h PROVE FALSE
      OBVIOUS
    <3>1. call'[g] = call[g] /\ outgoing'[g] = outgoing[g]
      BY <1>2 DEF Alone
    <3> QED BY <1>1, <1>3, <3>1, OthersOwe
  <2>2. ~(outgoing'[h].sid = t /\ Waits(h, p)')
    BY <1>2, <1>3, <2>1 DEF Owes, Waits
  <2> QED BY <1>2, <1>3, <2>1, <2>2 DEF Owes, Announces
<1>4. \A p, t : Debtors(p, t)' \subseteq Debtors(p, t) \cup (IF t = sid THEN {h} ELSE {})
  BY <1>3 DEF Debtors
<1>5. 9 \in Played(sid)' /\ 9 \notin Played(sid)
  BY <1>2, NoSessionAssumption DEF Played, Changes
<1> QED BY <1>4, <1>5 DEF Happens

-----------------------------------------------------------------------------
(* The accounts: a message for every change, and one more for the welcome. *)

\* The connection has been welcomed, or its goroutine has gone on from there.
Welcomed(h) == LET o == outgoing[h] IN o.pc \in {"send", "reading", "gone"} \/ o.to # <<>>

Carried(h, t) == Positions(queue[h], t)

Account(h, t, n) ==
  Cardinality(Carried(h, t)) + Cardinality(Debtors(Owner[h], t)) <= Cardinality(Played(t)) + n

Accounted(h) ==
  /\ \A t \in Games : IsFiniteSet(Debtors(Owner[h], t))
  /\ ~Welcomed(h) => \A t \in Games : Account(h, t, 0)
  /\ \E w \in Games : \A t \in Games : Account(h, t, IF t = w THEN 1 ELSE 0)

QueueInv == RouteInv /\ \A h \in Handlers : Accounted(h)

LEMMA CarriedIsFinite ==
  ASSUME NEW h \in Handlers, NEW t
  PROVE  /\ MessagesOK => Cardinality(Carried(h, t)) \in Nat
         /\ MessagesOK' => Cardinality(Carried(h, t)') \in Nat
BY PositionsFinite DEF Carried, MessagesOK

\* The welcome is the last thing that is queued before the client is served.
LEMMA WelcomedStays ==
  ASSUME RouteInv, DeliveryNext, NEW h \in Handlers, Welcomed(h)
  PROVE  Welcomed(h)'
<1> DEFINE o == outgoing[h]
<1>1. /\ DeliveryTypeInv /\ MessagesOK /\ Directed(h)
  BY DEF RouteInv, PlayInv, DeliveryTypeInv
<1>2. CASE outgoing'[h] = outgoing[h]
  BY <1>2 DEF Welcomed
<1>3. CASE SendNext(h)
  <2>1. outgoing'[h].pc \in {"send", "reading"}
    BY <1>1, <1>3, SendNextFields DEF Fields, Nothing
  <2> QED BY <2>1 DEF Welcomed
<1>4. CASE ReadBoard(h)
  <2>1. o.pc = "board" /\ outgoing'[h].to = o.to
    BY <1>1, <1>4, ReadBoardFields DEF Fields
  <2> QED BY <2>1 DEF Welcomed
<1>5. CASE ReadRest(h)
  <2>1. o.pc = "rest" /\ outgoing'[h].to = o.to
    BY <1>1, <1>5, ReadRestFields DEF Fields
  <2> QED BY <2>1 DEF Welcomed
<1>6. CASE Connect(h) \/ WelcomeRecover(h)
  <2>1. o.pc \in {"new", "recover"}
    BY <1>6 DEF Connect, WelcomeRecover, Sends
  <2> QED BY <1>1, <2>1 DEF Welcomed, Directed
<1>7. CASE SendWelcome(h)
  BY <1>1, <1>7, SentFields DEF SendWelcome, Fields, Welcomed
<1>8. CASE DisconnectClient(h)
  BY <1>1, <1>8, ProceedFields DEF DisconnectClient, Fields, Welcomed
<1>9. CASE CallStep(h)
  <2>1. CASE At(h, "started") \/ At(h, "reply")
    <3>1. outgoing'[h].to = <<CurrentSession(h).x, CurrentSession(h).o>>
      BY <1>1, <1>9, <2>1, CallStepFields DEF Fields
    <3>2. Len(<<CurrentSession(h).x, CurrentSession(h).o>>) = 2 /\ Len(<<>>) = 0
      OBVIOUS
    <3> QED BY <3>1, <3>2 DEF Welcomed
  <2>2. CASE ~(At(h, "started") \/ At(h, "reply"))
    BY <1>1, <1>2, <1>9, <2>2, CallStepFields
  <2> QED BY <2>1, <2>2
<1>10. ASSUME NEW g \in Handlers \ {h},
              SendStep(g) \/ ConnectionStep(g) \/ CallStep(g)
       PROVE  outgoing'[h] = outgoing[h]
  <2>1. OthersSend(g)
    BY <1>10, HandlerDirected
  <2> QED BY <2>1 DEF OthersSend
<1>11. ASSUME \/ \E g \in Handlers : ReadMove(g)
              \/ \E g \in Handlers, sid \in SessionIds, x \in Participants : StartGame(g, sid, x)
              \/ \E p \in Participants : ClientAction(p)
       PROVE  outgoing'[h] = outgoing[h]
  BY <1>11 DEF ReadMove, StartGame, messages, ClientAction, ClientReads, ClientClicks, LeaveGame
<1> QED BY <1>2, <1>3, <1>4, <1>5, <1>6, <1>7, <1>8, <1>9, <1>10, <1>11
        DEF DeliveryNext, SendStep, ConnectionStep

\* The account of h for t still balances when nothing is queued, when a debtor
\* has queued one message, and when one more thing has happened.
LEMMA AccountKept ==
  ASSUME MessagesOK, MessagesOK', NEW h \in Handlers, NEW t \in Games,
         IsFiniteSet(Debtors(Owner[h], t)), Played(t) \subseteq Played(t)',
         LET C == Cardinality(Carried(h, t))
             D == Debtors(Owner[h], t)
         IN  \/ Cardinality(Carried(h, t)') <= C /\ D' \subseteq D
             \/ Cardinality(Carried(h, t)') <= C + 1 /\ D' \subseteq D /\ \E g \in D : g \notin D'
             \/ /\ Cardinality(Carried(h, t)') = C /\ \E g : D' \subseteq D \cup {g}
                /\ \E c : c \in Played(t)' /\ c \notin Played(t)
  PROVE  /\ IsFiniteSet(Debtors(Owner[h], t)')
         /\ \A n \in Nat : Account(h, t, n) => Account(h, t, n)'
<1> DEFINE C == Cardinality(Carried(h, t))
           K == Cardinality(Carried(h, t)')
           D == Debtors(Owner[h], t)
           E == Debtors(Owner[h], t)'
           P == Played(t)
           Q == Played(t)'
<1>1. C \in Nat /\ K \in Nat
  BY CarriedIsFinite
<1>2. IsFiniteSet(P) /\ Cardinality(P) \in Nat /\ IsFiniteSet(Q) /\ Cardinality(Q) \in Nat
  BY PlayedIsFinite
<1>3. /\ \A n : Account(h, t, n) <=> C + Cardinality(D) <= Cardinality(P) + n
      /\ \A n : Account(h, t, n)' <=> K + Cardinality(E) <= Cardinality(Q) + n
  BY DEF Account
<1>4. IsFiniteSet(D) /\ P \subseteq Q
  OBVIOUS
<1>5. \/ K <= C /\ E \subseteq D
      \/ K <= C + 1 /\ E \subseteq D /\ \E g \in D : g \notin E
      \/ K = C /\ (\E g : E \subseteq D \cup {g}) /\ \E c : c \in Q /\ c \notin P
  OBVIOUS
<1> HIDE DEF C, K, D, E, P, Q
<1>6. Cardinality(P) <= Cardinality(Q) /\ Cardinality(D) \in Nat
  BY <1>2, <1>4, FS_Subset, FS_CardinalityType
<1>7. /\ IsFiniteSet(E) /\ Cardinality(E) \in Nat
      /\ K + Cardinality(E) - Cardinality(Q) <= C + Cardinality(D) - Cardinality(P)
  <2>1. CASE K <= C /\ E \subseteq D
    <3>1. IsFiniteSet(E) /\ Cardinality(E) <= Cardinality(D) /\ Cardinality(E) \in Nat
      BY <1>4, <2>1, FS_Subset, FS_CardinalityType
    <3> QED BY <1>1, <1>2, <1>6, <2>1, <3>1
  <2>2. CASE K <= C + 1 /\ E \subseteq D /\ \E g \in D : g \notin E
    <3>1. PICK g \in D : g \notin E
      BY <2>2
    <3>2. IsFiniteSet(D \ {g}) /\ Cardinality(D \ {g}) = Cardinality(D) - 1
      BY <1>4, <3>1, FS_RemoveElement
    <3>3. E \subseteq D \ {g}
      BY <2>2, <3>1
    <3>4. IsFiniteSet(E) /\ Cardinality(E) <= Cardinality(D \ {g}) /\ Cardinality(E) \in Nat
      BY <3>2, <3>3, FS_Subset, FS_CardinalityType
    <3> QED BY <1>1, <1>2, <1>6, <2>2, <3>2, <3>4
  <2>3. CASE K = C /\ (\E g : E \subseteq D \cup {g}) /\ \E c : c \in Q /\ c \notin P
    <3>1. PICK g : E \subseteq D \cup {g}
      BY <2>3
    <3>2. PICK c : c \in Q /\ c \notin P
      BY <2>3
    <3>3. IsFiniteSet(D \cup {g}) /\ Cardinality(D \cup {g}) <= Cardinality(D) + 1
          /\ Cardinality(D \cup {g}) \in Nat
      <4>1. /\ IsFiniteSet(D \cup {g})
            /\ Cardinality(D \cup {g}) = IF g \in D THEN Cardinality(D) ELSE Cardinality(D) + 1
        BY <1>4, FS_AddElement
      <4> QED BY <1>6, <4>1
    <3>4. IsFiniteSet(E) /\ Cardinality(E) <= Cardinality(D \cup {g}) /\ Cardinality(E) \in Nat
      BY <3>1, <3>3, FS_Subset, FS_CardinalityType
    <3>5. Cardinality(P \cup {c}) = Cardinality(P) + 1 /\ P \cup {c} \subseteq Q
      BY <1>2, <1>4, <3>2, FS_AddElement
    <3>6. Cardinality(P) + 1 <= Cardinality(Q)
      BY <1>2, <3>5, FS_Subset
    <3> QED BY <1>1, <1>2, <1>6, <2>3, <3>3, <3>4, <3>6
  <2> QED BY <1>5, <2>1, <2>2, <2>3
<1>8. ASSUME NEW n \in Nat, C + Cardinality(D) <= Cardinality(P) + n
      PROVE  K + Cardinality(E) <= Cardinality(Q) + n
  BY <1>1, <1>2, <1>6, <1>7, <1>8
<1> QED BY <1>3, <1>7, <1>8 DEF E

LEMMA AccountedKept ==
  ASSUME NEW h \in Handlers, Accounted(h), Welcomed(h) => Welcomed(h)',
         \A t \in Games : /\ IsFiniteSet(Debtors(Owner[h], t)')
                          /\ \A n \in Nat : Account(h, t, n) => Account(h, t, n)'
  PROVE  Accounted(h)'
<1>1. \A t \in Games : IsFiniteSet(Debtors(Owner[h], t)')
  OBVIOUS
<1>2. ASSUME ~(Welcomed(h)')
      PROVE  \A t \in Games : Account(h, t, 0)'
  BY <1>2 DEF Accounted
<1>3. PICK w \in Games : \A t \in Games : Account(h, t, IF t = w THEN 1 ELSE 0)
  BY DEF Accounted
<1>4. ASSUME NEW t \in Games
      PROVE  Account(h, t, IF t = w THEN 1 ELSE 0)'
  BY <1>3
<1> QED BY <1>1, <1>2, <1>4 DEF Accounted, Games

\* A step that takes from the queues.
LEMMA QueueGainsNothing ==
  ASSUME MessagesOK, MessagesOK', NEW h \in Handlers,
         \/ queue'[h] \in {queue[h], <<>>}
         \/ queue[h] # <<>> /\ queue'[h] = Tail(queue[h])
  PROVE  \A t : Cardinality(Carried(h, t)') <= Cardinality(Carried(h, t))
<1> TAKE t
<1>1. queue[h] \in Seq(View)
  BY DEF MessagesOK
<1>2. /\ Cardinality(Positions(queue[h], t)) \in Nat
      /\ Cardinality(Positions(<<>>, t)) = 0
  BY <1>1, PositionsFinite, FS_EmptySet
<1>3. Cardinality(Positions(queue'[h], t)) <= Cardinality(Positions(queue[h], t))
  BY <1>1, <1>2, PositionsTail
<1> QED BY <1>3 DEF Carried

LEMMA QuietAccounts ==
  ASSUME MessagesOK, MessagesOK', PlayInv, [DeliveryNext]_deliveryVars,
         \A p, t : Debtors(p, t)' \subseteq Debtors(p, t),
         NEW k \in Handlers, Accounted(k), Welcomed(k) => Welcomed(k)',
         \/ queue'[k] \in {queue[k], <<>>}
         \/ queue[k] # <<>> /\ queue'[k] = Tail(queue[k])
  PROVE  Accounted(k)'
<1>1. ASSUME NEW t \in Games
      PROVE  /\ IsFiniteSet(Debtors(Owner[k], t)')
             /\ \A n \in Nat : Account(k, t, n) => Account(k, t, n)'
  <2>1. IsFiniteSet(Debtors(Owner[k], t))
    BY DEF Accounted
  <2>2. Played(t) \subseteq Played(t)'
    BY PlayedGrows
  <2>3. Cardinality(Carried(k, t)') <= Cardinality(Carried(k, t))
    BY QueueGainsNothing
  <2>4. Debtors(Owner[k], t)' \subseteq Debtors(Owner[k], t)
    OBVIOUS
  <2> QED BY <2>1, <2>2, <2>3, <2>4, AccountKept
<1> QED BY <1>1, AccountedKept

LEMMA HappenedAccounts ==
  ASSUME MessagesOK, MessagesOK', PlayInv, [DeliveryNext]_deliveryVars,
         NEW h \in Handlers, NEW sid \in SessionIds, Happens(h, sid), UNCHANGED queue,
         NEW k \in Handlers, Accounted(k), Welcomed(k) => Welcomed(k)'
  PROVE  Accounted(k)'
<1>1. ASSUME NEW t \in Games
      PROVE  /\ IsFiniteSet(Debtors(Owner[k], t)')
             /\ \A n \in Nat : Account(k, t, n) => Account(k, t, n)'
  <2>1. IsFiniteSet(Debtors(Owner[k], t))
    BY DEF Accounted
  <2>2. Played(t) \subseteq Played(t)'
    BY PlayedGrows
  <2>3. Cardinality(Carried(k, t)') = Cardinality(Carried(k, t)) /\ Cardinality(Carried(k, t)) \in Nat
    BY CarriedIsFinite DEF Carried
  <2>4. CASE t = sid
    <3>1. /\ \E g : Debtors(Owner[k], t)' \subseteq Debtors(Owner[k], t) \cup {g}
          /\ \E c : c \in Played(t)' /\ c \notin Played(t)
      BY <2>4 DEF Happens
    <3> QED BY <2>1, <2>2, <2>3, <3>1, AccountKept
  <2>5. CASE t # sid
    <3>1. Debtors(Owner[k], t)' \subseteq Debtors(Owner[k], t)
      BY <2>5 DEF Happens
    <3> QED BY <2>1, <2>2, <2>3, <3>1, AccountKept
  <2> QED BY <2>4, <2>5
<1> QED BY <1>1, AccountedKept

\* Enqueue adds one message of its game, or none.
LEMMA EnqueueCarries ==
  ASSUME MessagesOK, NEW k \in Handlers, NEW d \in View,
         queue'[k] \in {queue[k], Append(queue[k], d)}, NEW t
  PROVE  /\ Cardinality(Carried(k, t)') <= Cardinality(Carried(k, t)) + 1
         /\ GameOf(d) # t => Cardinality(Carried(k, t)') <= Cardinality(Carried(k, t))
<1>1. queue[k] \in Seq(View) /\ Cardinality(Carried(k, t)) \in Nat
  BY CarriedIsFinite DEF MessagesOK
<1>2. CASE queue'[k] = queue[k]
  BY <1>1, <1>2 DEF Carried
<1>3. CASE queue'[k] = Append(queue[k], d)
  <2>1. LET n == Cardinality(Positions(Append(queue[k], d), t))
        IN  /\ n <= Cardinality(Positions(queue[k], t)) + 1
            /\ GameOf(d) # t => n = Cardinality(Positions(queue[k], t))
    BY <1>1, PositionsAppend
  <2> QED BY <1>1, <1>3, <2>1 DEF Carried
<1> QED BY <1>2, <1>3

LEMMA SendNextAccounts ==
  ASSUME RouteInv, MessagesOK', DeliveryNext, NEW h \in Handlers, SendNext(h),
         NEW k \in Handlers, Accounted(k), Welcomed(k) => Welcomed(k)'
  PROVE  Accounted(k)'
<1> DEFINE o == outgoing[h]
           p == Owner[k]
<1>1. /\ MessagesOK /\ PlayInv /\ DeliveryTypeInv /\ Directed(h) /\ o.pc = "send" /\ o.to # <<>>
      /\ [DeliveryNext]_deliveryVars /\ ClientsOwned
  BY DEF RouteInv, PlayInv, DeliveryTypeInv, Addressed, SendNext, Sends
<1>2. /\ \A t : Debtors(p, t)' \subseteq Debtors(p, t)
      /\ \A q, t : Owes(h, q, t)' => Owes(h, q, t)
  BY HandlerDebts, SendNextOwes DEF SendStep
<1>3. o.dto \in View /\ GameOf(o.dto) = o.sid /\ o.sid \in SessionIds
  BY <1>1 DEF Directed, GameOf, MessagesOK, Sending
<1>4. queue'[k] \in {queue[k], Append(queue[k], o.dto)}
  BY <1>1, SendNextTypes
<1>5. queue'[k] # queue[k] => p = Head(o.to)
  <2>1. Head(o.to) \in Participants
    BY <1>1, HeadAndTail DEF MessagesOK, Sending
  <2>2. queue'[k] # queue[k] => clients[Head(o.to)] = k
    BY <1>1, <2>1, SendNextQueues DEF Takes, Drops, MessagesOK
  <2> QED BY <1>1, <2>1, <2>2, DeliveryAssumption DEF ClientsOwned
<1>6. ASSUME NEW t \in Games
      PROVE  /\ IsFiniteSet(Debtors(p, t)')
             /\ \A n \in Nat : Account(k, t, n) => Account(k, t, n)'
  <2>1. IsFiniteSet(Debtors(p, t))
    BY DEF Accounted
  <2>2. Played(t) \subseteq Played(t)'
    BY <1>1, PlayedGrows
  <2>3. CASE queue'[k] = queue[k] \/ t # o.sid
    <3>1. Cardinality(Carried(k, t)') <= Cardinality(Carried(k, t))
      <4>1. CASE queue'[k] = queue[k]
        BY <1>1, <4>1, CarriedIsFinite DEF Carried
      <4>2. CASE t # o.sid
        BY <1>1, <1>3, <1>4, <4>2, EnqueueCarries
      <4> QED BY <2>3, <4>1, <4>2
    <3> QED BY <1>1, <1>2, <2>1, <2>2, <3>1, AccountKept
  <2>4. CASE queue'[k] # queue[k] /\ t = o.sid
    <3>1. Cardinality(Carried(k, t)') <= Cardinality(Carried(k, t)) + 1
      BY <1>1, <1>3, <1>4, EnqueueCarries
    <3>2. Owes(h, p, t) /\ ~(Owes(h, p, t)')
      BY <1>5, <2>4, SendNextOwes
    <3>3. \E g \in Debtors(p, t) : g \notin Debtors(p, t)'
      BY <3>2 DEF Debtors
    <3> QED BY <1>1, <1>2, <2>1, <2>2, <3>1, <3>3, AccountKept
  <2> QED BY <2>3, <2>4
<1> QED BY <1>6, AccountedKept

\* The one message for which nothing has happened.
LEMMA SendWelcomeAccounts ==
  ASSUME RouteInv, MessagesOK', DeliveryNext, NEW h \in Handlers, SendWelcome(h), Accounted(h)
  PROVE  Accounted(h)'
<1> DEFINE d == outgoing[h].dto
           p == Owner[h]
<1>1. /\ MessagesOK /\ PlayInv /\ DeliveryTypeInv /\ Directed(h) /\ outgoing[h].pc = "welcome"
      /\ [DeliveryNext]_deliveryVars
  BY DEF RouteInv, PlayInv, DeliveryTypeInv, SendWelcome, Sends
<1>2. ~Welcomed(h) /\ Welcomed(h)'
  BY <1>1, SentFields DEF Welcomed, Directed, SendWelcome, Fields
<1>3. d \in View /\ GameOf(d) \in Games
  BY <1>1 DEF MessagesOK, Sending, View, DTO, GameOf, Games
<1>4. queue'[h] \in {queue[h], Append(queue[h], d)}
  BY <1>1, SendWelcomeTypes
<1>5. \A t : Debtors(p, t)' \subseteq Debtors(p, t)
  BY HandlerDebts DEF ConnectionStep
<1>6. \A t \in Games : Account(h, t, 0) /\ IsFiniteSet(Debtors(p, t))
  BY <1>2 DEF Accounted
<1> HIDE DEF d
<1> PICK w \in Games : w = GameOf(d)
  BY <1>3
<1>7. ASSUME NEW t \in Games
      PROVE  IsFiniteSet(Debtors(p, t)') /\ Account(h, t, IF t = w THEN 1 ELSE 0)'
  <2>1. Played(t) \subseteq Played(t)'
    BY <1>1, PlayedGrows
  <2>2. /\ IsFiniteSet(Debtors(p, t)') /\ Cardinality(Debtors(p, t)) \in Nat
        /\ Cardinality(Debtors(p, t)') \in Nat
        /\ Cardinality(Debtors(p, t)') <= Cardinality(Debtors(p, t))
    BY <1>5, <1>6, FS_Subset, FS_CardinalityType
  <2>3. /\ Cardinality(Played(t)) \in Nat /\ Cardinality(Played(t)') \in Nat
        /\ Cardinality(Played(t)) <= Cardinality(Played(t)')
    BY <2>1, PlayedIsFinite, FS_Subset
  <2>4. /\ Cardinality(Carried(h, t)) \in Nat /\ Cardinality(Carried(h, t)') \in Nat
        /\ Cardinality(Carried(h, t)') <= Cardinality(Carried(h, t)) + (IF t = w THEN 1 ELSE 0)
    <3>1. Cardinality(Carried(h, t)) \in Nat /\ Cardinality(Carried(h, t)') \in Nat
      BY <1>1, CarriedIsFinite
    <3>2. CASE t = w
      BY <1>1, <1>3, <1>4, <3>1, <3>2, EnqueueCarries
    <3>3. CASE t # w
      BY <1>1, <1>3, <1>4, <3>1, <3>3, EnqueueCarries
    <3> QED BY <3>1, <3>2, <3>3
  <2>5. Cardinality(Carried(h, t)) + Cardinality(Debtors(p, t)) <= Cardinality(Played(t)) + 0
    BY <1>6 DEF Account
  <2>6. Cardinality(Carried(h, t)') + Cardinality(Debtors(p, t)')
          <= Cardinality(Played(t)') + (IF t = w THEN 1 ELSE 0)
    BY <2>2, <2>3, <2>4, <2>5
  <2> QED BY <2>2, <2>6 DEF Account
<1> QED BY <1>2, <1>3, <1>7 DEF Accounted, Games

LEMMA NextQueueInv ==
  ASSUME OneAtATime, QueueInv, [DeliveryNext]_deliveryVars
  PROVE  QueueInv'
<1>1. /\ RouteInv /\ RouteInv' /\ MessagesOK /\ MessagesOK' /\ PlayInv /\ DeliveryTypeInv
      /\ \A k \in Handlers : Accounted(k)
  BY NextRouteInv DEF QueueInv, RouteInv, PlayInv, DeliveryTypeInv
<1>2. CASE UNCHANGED deliveryVars
  <2>1. UNCHANGED <<call, outgoing, queue>>
    BY <1>2 DEF deliveryVars, vars, messages
  <2>2. \A p, t : Debtors(p, t)' \subseteq Debtors(p, t)
    BY <1>1, <2>1, ClientDebts
  <2>3. \A k \in Handlers : Welcomed(k) => Welcomed(k)'
    BY <2>1 DEF Welcomed
  <2> QED BY <1>1, <2>1, <2>2, <2>3, QuietAccounts DEF QueueInv
<1>3. CASE DeliveryNext
  <2>1. \A k \in Handlers : Welcomed(k) => Welcomed(k)'
    BY <1>1, <1>3, WelcomedStays
  <2>2. ASSUME NEW h \in Handlers, SendNext(h)
        PROVE  QueueInv'
    BY <1>1, <1>3, <2>1, <2>2, SendNextAccounts DEF QueueInv
  <2>3. ASSUME NEW h \in Handlers, SendWelcome(h)
        PROVE  QueueInv'
    <3>1. \A p, t : Debtors(p, t)' \subseteq Debtors(p, t)
      BY <1>1, <1>3, <2>3, HandlerDebts DEF ConnectionStep
    <3>2. \A k \in Handlers \ {h} : queue'[k] = queue[k]
      <4>1. queue' = queue \/ Takes(h, outgoing[h].dto) \/ Drops(h, outgoing[h].dto)
        BY <1>1, <2>3, SendWelcomeTypes
      <4> QED BY <1>1, <4>1 DEF Takes, Drops, MessagesOK
    <3>3. Accounted(h)'
      BY <1>1, <1>3, <2>3, SendWelcomeAccounts
    <3>4. \A k \in Handlers \ {h} : Accounted(k)'
      BY <1>1, <2>1, <3>1, <3>2, QuietAccounts
    <3> QED BY <1>1, <3>3, <3>4 DEF QueueInv
  <2>4. ASSUME NEW h \in Handlers,
               \/ ReadBoard(h) \/ ReadRest(h) \/ Connect(h) \/ WelcomeRecover(h)
               \/ DisconnectClient(h) \/ ReadMove(h)
               \/ CallStep(h) /\ ~WriteBoard(h)
        PROVE  QueueInv'
    <3>1. \A p, t : Debtors(p, t)' \subseteq Debtors(p, t)
      BY <1>1, <1>3, <2>4, HandlerDebts DEF SendStep, ConnectionStep
    <3>2. \A k \in Handlers : queue'[k] \in {queue[k], <<>>}
      <4>1. CASE UNCHANGED queue
        BY <4>1
      <4>2. CASE Connect(h) \/ DisconnectClient(h)
        BY <1>1, <4>2, ConnectTypes, DisconnectTypes
      <4> QED BY <2>4, <4>1, <4>2 DEF ReadBoard, ReadRest, WelcomeRecover, ReadMove, CallStep
    <3> QED BY <1>1, <2>1, <3>1, <3>2, QuietAccounts DEF QueueInv
  <2>5. ASSUME NEW h \in Handlers, CallStep(h), WriteBoard(h)
        PROVE  QueueInv'
    <3> PICK sid : sid = call[h].sid
      OBVIOUS
    <3>1. sid \in SessionIds /\ Happens(h, sid) /\ UNCHANGED queue
      BY <1>1, <1>3, <2>5, WriteHappens DEF CallStep
    <3> QED BY <1>1, <2>1, <3>1, HappenedAccounts DEF QueueInv
  <2>6. ASSUME NEW h \in Handlers, NEW sid \in SessionIds, NEW x \in Participants \ {Owner[h]},
               StartGame(h, sid, x)
        PROVE  QueueInv'
    <3>1. Happens(h, sid) /\ UNCHANGED queue
      BY <1>1, <1>3, <2>6, StartHappens DEF StartGame, messages
    <3> QED BY <1>1, <2>1, <3>1, HappenedAccounts DEF QueueInv
  <2>7. ASSUME NEW p \in Participants, ClientAction(p)
        PROVE  QueueInv'
    <3>1. UNCHANGED <<call, outgoing>>
      BY <2>7 DEF ClientAction, ClientReads, ClientClicks, LeaveGame, vars
    <3>2. \A q, t : Debtors(q, t)' \subseteq Debtors(q, t)
      BY <1>1, <3>1, ClientDebts
    <3>3. \A k \in Handlers : \/ queue'[k] \in {queue[k], <<>>}
                              \/ queue[k] # <<>> /\ queue'[k] = Tail(queue[k])
      <4>1. CASE ClientReads(p)
        <5>1. PICK g \in Handlers :
                /\ queue[g] # <<>>
                /\ \A k \in Handlers : queue'[k] = IF k = g THEN Tail(queue[g]) ELSE queue[k]
          BY <1>1, <4>1, ClientReadsTypes
        <5> QED BY <5>1
      <4>2. CASE UNCHANGED queue
        BY <4>2
      <4> QED BY <2>7, <4>1, <4>2 DEF ClientAction, ClientClicks, LeaveGame
    <3> QED BY <1>1, <2>1, <3>2, <3>3, QuietAccounts DEF QueueInv
  <2>8. ASSUME NEW h \in Handlers, SendStep(h) \/ ConnectionStep(h) \/ ReadMove(h) \/ CallStep(h)
        PROVE  QueueInv'
    <3>1. CASE SendStep(h)
      BY <2>2, <2>4, <3>1 DEF SendStep
    <3>2. CASE ConnectionStep(h)
      BY <2>3, <2>4, <3>2 DEF ConnectionStep
    <3>3. CASE CallStep(h)
      BY <2>4, <2>5, <3>3
    <3>4. CASE ReadMove(h)
      BY <2>4, <3>4
    <3> QED BY <2>8, <3>1, <3>2, <3>3, <3>4
  <2> QED BY <1>3, <2>6, <2>7, <2>8 DEF DeliveryNext
<1> QED BY <1>2, <1>3

LEMMA InitQueueInv == OneAtATime /\ DeliveryInit => QueueInv
<1> SUFFICES ASSUME OneAtATime, DeliveryInit PROVE QueueInv
  OBVIOUS
<1>1. RouteInv
  BY InitRouteInv
<1>2. ASSUME NEW h \in Handlers
      PROVE  queue[h] = <<>> /\ outgoing[h].to = <<>> /\ call[h].pc = "idle"
  <2>1. outgoing[h] = [Nothing EXCEPT !.pc = "new"]
    BY DEF DeliveryInit
  <2>2. [Nothing EXCEPT !.pc = "new"].to = <<>>
    BY DEF Nothing
  <2> QED BY <2>1, <2>2 DEF DeliveryInit, Init, Idle
<1>3. \A p, t : Debtors(p, t) = {}
  BY <1>2 DEF Debtors, Owes, Waits, Announces, Announcing
<1>4. \A h \in Handlers : \A t : Carried(h, t) = {}
  BY <1>2 DEF Carried, Positions
<1>5. \A h \in Handlers, t \in Games : Account(h, t, 0) /\ Account(h, t, 1)
  <2> TAKE h \in Handlers, t \in Games
  <2>1. Cardinality({}) = 0 /\ Cardinality(Played(t)) \in Nat
    BY FS_EmptySet, PlayedIsFinite
  <2>2. Carried(h, t) = {} /\ Debtors(Owner[h], t) = {}
    BY <1>3, <1>4
  <2> QED BY <2>1, <2>2 DEF Account
<1>6. \A h \in Handlers, t \in Games : IsFiniteSet(Debtors(Owner[h], t))
  BY <1>3, FS_EmptySet
<1> QED BY <1>1, <1>5, <1>6 DEF QueueInv, Accounted, Games

\* Every change of a game reaches a queue at most once: when all that happened in
\* a session has been announced and nothing is owed, that is what was queued.
LEMMA AccountsBound ==
  ASSUME QueueInv, NEW h \in Handlers, NEW sid \in SessionIds, sessions[sid] # NoSession
  PROVE  Cardinality(Carried(h, sid)) <= countMoves(sessions[sid].board) + 2
<1>1. MessagesOK /\ Accounted(h)
  BY DEF QueueInv, RouteInv, PlayInv, DeliveryTypeInv
<1>2. PICK w \in Games : \A t \in Games : Account(h, t, IF t = w THEN 1 ELSE 0)
  BY <1>1 DEF Accounted
<1>3. /\ Cardinality(Carried(h, sid)) + Cardinality(Debtors(Owner[h], sid))
           <= Cardinality(Played(sid)) + (IF sid = w THEN 1 ELSE 0)
      /\ IsFiniteSet(Debtors(Owner[h], sid))
  BY <1>1, <1>2 DEF Account, Accounted, Games
<1>4. /\ Cardinality(Carried(h, sid)) \in Nat /\ Cardinality(Debtors(Owner[h], sid)) \in Nat
      /\ countMoves(sessions[sid].board) \in 0..9
  BY <1>1, <1>3, CarriedIsFinite, CountType, FS_CardinalityType
<1>5. Cardinality(Played(sid)) = countMoves(sessions[sid].board) + 1
  BY ChangesAreFinite DEF Played
<1> QED BY <1>3, <1>4, <1>5

\* No change of a game is sent twice to one connection, however many players,
\* connections and games there are: besides the welcome, its queue holds at
\* most one message for the start and one for every move.  A handler owes a
\* message from the moment it writes the board or creates the session, and a
\* message that is queued is a debt that is paid.
THEOREM OneMessageEach ==
  ASSUME OneAtATime
  PROVE  DeliverySpec => []OneMessagePerMove
<1>1. ASSUME QueueInv PROVE OneMessagePerMove
  <2> SUFFICES ASSUME NEW h \in Handlers, NEW sid \in SessionIds, sessions[sid] # NoSession
               PROVE  Cardinality(Unread(h, sid)) <= countMoves(sessions[sid].board) + 2
    BY DEF OneMessagePerMove
  <2>1. Unread(h, sid) = Carried(h, sid)
    BY NoneAssumption DEF Unread, Carried, Positions, GameOf
  <2> QED BY <1>1, <2>1, AccountsBound
<1>2. QueueInv => OneMessagePerMove
  BY <1>1
<1> QED BY <1>2, InitQueueInv, NextQueueInv, PTL DEF DeliverySpec

\* A queue that holds up to ten messages of every game in G, and one more of w,
\* has no more than that of sessions: message i is told from the others by its
\* game and its rank among the messages of the game.
LEMMA CountedByGame ==
  ASSUME NEW s \in Seq(View), NEW G, IsFiniteSet(G), NEW w,
         \A i \in DOMAIN s : GameOf(s[i]) \in G \cup {w},
         \A t \in G : Cardinality(Positions(s, t)) <= IF t = w THEN 11 ELSE 10,
         w \notin G => Cardinality(Positions(s, w)) <= 1
  PROVE  Cardinality(DOMAIN s) <= 10 * Cardinality(G) + 1
<1> DEFINE n(t) == Cardinality(Positions(s, t))
           rank == [t \in G \cup {w} |-> CHOOSE b : b \in Bijection(Positions(s, t), 1..n(t))]
           T == (G \X (1..10)) \cup {<<w, n(w)>>}
           A == DOMAIN s
           f == [i \in A |-> <<GameOf(s[i]), rank[GameOf(s[i])][i]>>]
<1>1. ASSUME NEW t \in G \cup {w}
      PROVE  /\ n(t) \in Nat
             /\ rank[t] \in [Positions(s, t) -> 1..n(t)]
             /\ \A i, j \in Positions(s, t) : rank[t][i] = rank[t][j] => i = j
  <2>1. IsFiniteSet(Positions(s, t)) /\ n(t) \in Nat
    BY PositionsFinite
  <2>2. ExistsBijection(1..n(t), Positions(s, t))
    BY <2>1, FS_CardinalityType
  <2>3. ExistsBijection(Positions(s, t), 1..n(t))
    BY <2>2, Fun_ExistsBijSymmetric
  <2>4. \E b : b \in Bijection(Positions(s, t), 1..n(t))
    BY <2>3, Fun_ExistsBij
  <2>5. rank[t] \in Bijection(Positions(s, t), 1..n(t))
    BY <2>4
  <2> HIDE DEF rank, n
  <2>6. rank[t] \in Injection(Positions(s, t), 1..n(t))
    BY <2>5 DEF Bijection
  <2> QED BY <2>1, <2>6, Fun_InjectionProperties
<1>3. \A t \in G : n(t) <= 10 \/ (t = w /\ n(t) <= 11)
  OBVIOUS
<1>4. w \notin G => n(w) <= 1
  OBVIOUS
<1>5. \A i \in A : GameOf(s[i]) \in G \cup {w} /\ i \in Positions(s, GameOf(s[i]))
  BY DEF Positions
<1> HIDE DEF n, rank, A
<1>6. ASSUME NEW i \in A
      PROVE  <<GameOf(s[i]), rank[GameOf(s[i])][i]>> \in T
  <2> DEFINE t == GameOf(s[i])
             r == rank[t][i]
  <2>1. t \in G \cup {w} /\ n(t) \in Nat /\ r \in 1..n(t)
    BY <1>1, <1>5
  <2> HIDE DEF t, r
  <2>2. CASE t \in G /\ r <= 10
    <3>1. r \in 1..10
      BY <2>1, <2>2
    <3> QED BY <2>2, <3>1 DEF t, r
  <2>3. CASE ~(t \in G /\ r <= 10)
    <3>1. t = w /\ r = n(w)
      BY <1>3, <1>4, <2>1, <2>3
    <3> QED BY <3>1 DEF t, r
  <2> QED BY <2>2, <2>3
<1>7. f \in [A -> T]
  BY <1>6
<1>8. ASSUME NEW i \in A, NEW j \in A, f[i] = f[j]
      PROVE  i = j
  <2>1. GameOf(s[i]) = GameOf(s[j]) /\ rank[GameOf(s[i])][i] = rank[GameOf(s[j])][j]
    BY <1>8
  <2> QED BY <1>1, <1>5, <2>1
<1> HIDE DEF f
<1>9. f \in Injection(A, T)
  BY <1>7, <1>8, Fun_IsInj
<1>10. IsFiniteSet(G \X (1..10)) /\ Cardinality(G \X (1..10)) = 10 * Cardinality(G)
  <2>1. 1 \in Int /\ 10 \in Int
    OBVIOUS
  <2>2. IsFiniteSet(1..10) /\ Cardinality(1..10) = IF 1 > 10 THEN 0 ELSE 10 - 1 + 1
    BY <2>1, FS_Interval, Zenon
  <2>3. Cardinality(1..10) = 10
    BY <2>2
  <2>4. /\ IsFiniteSet(G \X (1..10))
        /\ Cardinality(G \X (1..10)) = Cardinality(G) * Cardinality(1..10)
    BY <2>2, FS_Product, Zenon
  <2>5. Cardinality(G) \in Nat
    BY FS_CardinalityType
  <2> QED BY <2>3, <2>4, <2>5
<1>11. IsFiniteSet(T) /\ Cardinality(T) <= 10 * Cardinality(G) + 1
  <2> DEFINE P == G \X (1..10)
  <2>1. IsFiniteSet(P) /\ Cardinality(P) \in Nat /\ Cardinality(P) = 10 * Cardinality(G)
    BY <1>10, FS_CardinalityType
  <2> HIDE DEF P
  <2>2. /\ IsFiniteSet(P \cup {<<w, n(w)>>})
        /\ Cardinality(P \cup {<<w, n(w)>>}) =
             IF <<w, n(w)>> \in P THEN Cardinality(P) ELSE Cardinality(P) + 1
    BY <2>1, FS_AddElement, Zenon
  <2> QED BY <2>1, <2>2 DEF P
<1> HIDE DEF T
<1>12. IsFiniteSet(A) /\ Cardinality(A) <= Cardinality(T) /\ Cardinality(T) \in Nat
  BY <1>9, <1>11, FS_Injection, FS_CardinalityType
<1>13. Cardinality(G) \in Nat /\ Cardinality(A) \in Nat
  BY <1>12, FS_CardinalityType
<1> QED BY <1>11, <1>12, <1>13 DEF A

-----------------------------------------------------------------------------
(* How much of a queue the sessions take.                                  *)

\* The games of which the connection of h has messages that it has not delivered.
UnreadGames(h) == {sid \in SessionIds : Unread(h, sid) # {}}

\* Ten for each of them, of the start and the moves, and the welcome.
QueueBound ==
  \A h \in Handlers : Len(queue[h]) <= 10 * Cardinality(UnreadGames(h)) + 1

LEMMA UnreadGamesAreFinite ==
  ASSUME MessagesOK, NEW h \in Handlers
  PROVE  IsFiniteSet(UnreadGames(h)) /\ Cardinality(UnreadGames(h)) \in Nat
<1> DEFINE s == queue[h]
           f == [i \in 1..Len(s) |-> GameOf(s[i])]
           S == {f[i] : i \in 1..Len(s)}
<1>1. Len(s) \in Int /\ 1 \in Int /\ DOMAIN s = 1..Len(s)
  BY DEF MessagesOK
<1>2. IsFiniteSet(1..Len(s))
  BY <1>1, FS_Interval, Zenon
<1>3. f \in Surjection(1..Len(s), S)
  BY DEF Surjection
<1>4. UnreadGames(h) \subseteq S
  BY <1>1 DEF UnreadGames, Unread, GameOf
<1> HIDE DEF f, S
<1>5. IsFiniteSet(S)
  BY <1>2, <1>3, FS_Surjection
<1> QED BY <1>4, <1>5, FS_Subset, FS_CardinalityType

LEMMA AccountsBoundQueues ==
  ASSUME QueueInv, NEW h \in Handlers
  PROVE  Len(queue[h]) <= 10 * Cardinality(UnreadGames(h)) + 1
<1> DEFINE G == UnreadGames(h)
           s == queue[h]
<1>1. MessagesOK /\ TypeInv /\ Accounted(h) /\ s \in Seq(View)
  BY DeliveryTypesInclude DEF QueueInv, RouteInv, PlayInv, DeliveryTypeInv, MessagesOK
<1>2. PICK w \in Games : \A t \in Games : Account(h, t, IF t = w THEN 1 ELSE 0)
  BY <1>1 DEF Accounted
<1>3. ASSUME NEW t \in Games
      PROVE  /\ Cardinality(Positions(s, t)) <= Cardinality(Played(t)) + (IF t = w THEN 1 ELSE 0)
             /\ Cardinality(Positions(s, t)) \in Nat
  <2>1. /\ Cardinality(Carried(h, t)) \in Nat /\ Cardinality(Played(t)) \in Nat
        /\ Cardinality(Debtors(Owner[h], t)) \in Nat
    BY <1>1, CarriedIsFinite, PlayedIsFinite, FS_CardinalityType DEF Accounted
  <2>2. Cardinality(Carried(h, t)) + Cardinality(Debtors(Owner[h], t))
          <= Cardinality(Played(t)) + (IF t = w THEN 1 ELSE 0)
    BY <1>2 DEF Account
  <2> QED BY <2>1, <2>2 DEF Carried
<1>4. ASSUME NEW t \in Games
      PROVE  Cardinality(Played(t)) \in 0..10 /\ (t = NoSession => Cardinality(Played(t)) = 0)
  <2>1. CASE t \in SessionIds /\ sessions[t] # NoSession
    <3>1. Cardinality(Played(t)) = countMoves(sessions[t].board) + 1
      BY <2>1, ChangesAreFinite DEF Played
    <3>2. countMoves(sessions[t].board) \in 0..9
      BY CountType
    <3> QED BY <2>1, <3>1, <3>2, NoneAssumption
  <2>2. CASE ~(t \in SessionIds /\ sessions[t] # NoSession)
    BY <2>2, FS_EmptySet DEF Played
  <2> QED BY <2>1, <2>2
<1>5. \A i \in DOMAIN s : GameOf(s[i]) \in Games /\ i \in Positions(s, GameOf(s[i]))
  BY <1>1 DEF GameOf, Games, View, DTO, Positions
<1>6. \A t \in SessionIds : t \in G <=> Positions(s, t) # {}
  BY NoneAssumption DEF UnreadGames, Unread, Positions, GameOf
<1>7. \A t : Positions(s, t) # {} => Cardinality(Positions(s, t)) # 0
  BY <1>1, PositionsFinite, FS_EmptySet
<1>8. IsFiniteSet(G) /\ G \subseteq SessionIds
  BY <1>1, UnreadGamesAreFinite DEF UnreadGames
<1> HIDE DEF G, s
<1>9. \A i \in DOMAIN s : GameOf(s[i]) \in G \cup {w}
  <2> SUFFICES ASSUME NEW i \in DOMAIN s, GameOf(s[i]) # w
               PROVE  GameOf(s[i]) \in G
    OBVIOUS
  <2> DEFINE t == GameOf(s[i])
  <2>1. t \in Games /\ Positions(s, t) # {} /\ t # w
    BY <1>5
  <2> HIDE DEF t
  <2>2. t # NoSession
    BY <1>3, <1>4, <1>7, <2>1
  <2>3. t \in G
    BY <1>6, <2>1, <2>2 DEF Games
  <2> QED BY <2>3 DEF t
<1>10. \A t \in G : Cardinality(Positions(s, t)) <= IF t = w THEN 11 ELSE 10
  BY <1>3, <1>4, <1>8 DEF Games
<1>11. w \notin G => Cardinality(Positions(s, w)) <= 1
  <2>1. CASE w = NoSession
    BY <1>3, <1>4, <2>1
  <2>2. CASE w # NoSession /\ w \notin G
    <3>1. Positions(s, w) = {}
      BY <1>6, <2>2 DEF Games
    <3> QED BY <3>1, FS_EmptySet
  <2> QED BY <2>1, <2>2
<1>12. Cardinality(DOMAIN s) <= 10 * Cardinality(G) + 1
  BY <1>1, <1>8, <1>9, <1>10, <1>11, CountedByGame
<1>13. Cardinality(DOMAIN s) = Len(s)
  <2>1. Len(s) \in Nat /\ Len(s) \in Int /\ 1 \in Int /\ DOMAIN s = 1..Len(s)
    BY <1>1
  <2>2. Cardinality(1..Len(s)) = IF 1 > Len(s) THEN 0 ELSE Len(s) - 1 + 1
    BY <2>1, FS_Interval, Zenon
  <2> QED BY <2>1, <2>2
<1> QED BY <1>12, <1>13 DEF s, G

\* However late its socket is written, a queue holds at most ten session messages
\* of every game it has any of, the start and nine moves, and the welcome.  They do
\* not fill the 32 slots of hub.go while no more than three games are unread: only
\* messages of other kinds, which take the same slots, can fill them then.
THEOREM QueuesAreBounded ==
  ASSUME OneAtATime
  PROVE  DeliverySpec => []QueueBound
<1>1. QueueInv => QueueBound
  BY AccountsBoundQueues DEF QueueBound
<1> QED BY <1>1, InitQueueInv, NextQueueInv, PTL DEF DeliverySpec

-----------------------------------------------------------------------------
(* No move is withheld.                                                    *)

\* Message v shows the board of session sid as it is.
Shows(v, sid) == v \in DTO /\ v.sid = sid /\ v.board = sessions[sid].board

\* What g is sending will show it.
Fresh(g, sid) ==
  LET o == outgoing[g]
  IN  \/ o.pc = "board" /\ o.sid = sid
      \/ o.pc = "rest" /\ o.sid = sid /\ o.board = sessions[sid].board
      \/ o.pc \in {"send", "welcome"} /\ Shows(o.dto, sid)

\* g brings it to p: it is in the call that will announce sid, or sends.
Brings(g, p, sid) == Announces(g, sid) \/ (Waits(g, p) /\ Fresh(g, sid))

\* Connection c will be welcomed with it.
Welcomes(c, sid) ==
  outgoing[c].pc = "recover" \/ (outgoing[c].to = <<>> /\ Fresh(c, sid))

\* p has been shown the board of session sid, or the queue of its connection had
\* no room for it, or it is on its way.
OnItsWay(p, sid) ==
  \/ shown[p][sid] >= countMoves(sessions[sid].board)
  \/ missed[clients[p]][sid] >= countMoves(sessions[sid].board)
  \/ \E i \in DOMAIN queue[clients[p]] : Shows(queue[clients[p]][i], sid)
  \/ \E g \in Handlers : Brings(g, p, sid)
  \/ Welcomes(clients[p], sid)

\* A message about session sid with n moves can have been there.
CountPast(n, sid) ==
  n > 0 => sessions[sid] # NoSession /\ n <= countMoves(sessions[sid].board)

\* What a player has been shown, or missed, is not more than has happened.
CountsPast ==
  /\ \A p \in Participants, sid \in SessionIds : CountPast(shown[p][sid], sid)
  /\ \A h \in Handlers, sid \in SessionIds : CountPast(missed[h][sid], sid)

WayInv ==
  /\ PastInv /\ RouteInv /\ CountsPast
  /\ \A p \in Participants : Connected(p) /\ Recover(p) # NoSession => OnItsWay(p, Recover(p))

-----------------------------------------------------------------------------
(* What a player has been shown, or missed.                                *)

LEMMA MoreMarks ==
  ASSUME NEW b, NEW d, \A c \in Cells : b[c] # Empty => d[c] # Empty
  PROVE  countMoves(b) <= countMoves(d)
<1> DEFINE B == {c \in Cells : b[c] # Empty}
           D == {c \in Cells : d[c] # Empty}
<1>1. 0 \in Int /\ 8 \in Int
  OBVIOUS
<1>2. IsFiniteSet(0..8)
  BY <1>1, FS_Interval, Zenon
<1>3. D \subseteq 0..8 /\ B \subseteq D
  BY DEF Cells
<1> HIDE DEF B, D
<1>4. IsFiniteSet(D)
  BY <1>2, <1>3, FS_Subset, Zenon
<1>5. Cardinality(B) <= Cardinality(D)
  BY <1>3, <1>4, FS_Subset, Zenon
<1> QED BY <1>5 DEF B, D, countMoves

\* A client is shown the next message in its queue.
LEMMA ShownAfter ==
  ASSUME DeliveryTypeInv, NEW p \in Participants, ClientReads(p),
         NEW d, d = Head(queue[clients[p]])
  PROVE  /\ clients[p] \in Handlers /\ queue[clients[p]] # <<>> /\ d \in View
         /\ \A q \in Participants, t \in SessionIds :
              /\ shown'[q][t] >= shown[q][t]
              /\ \/ shown'[q][t] = shown[q][t]
                 \/ d \in DTO /\ t = d.sid /\ shown'[q][t] = countMoves(d.board)
         /\ d \in DTO => shown'[p][d.sid] >= countMoves(d.board)
<1>1. MessagesOK /\ clients[p] \in Handlers /\ queue[clients[p]] # <<>>
  BY DEF DeliveryTypeInv, MessagesOK, ClientReads, Connected, Connection
<1>2. d \in View
  BY <1>1, HeadAndTail DEF MessagesOK
<1>3. shown' = [shown EXCEPT ![p] = Noted(shown[p], d)]
  BY <1>1 DEF ClientReads, Connection, MessagesOK
<1>4. shown[p] \in [SessionIds -> 0..9]
  BY <1>1 DEF MessagesOK
<1>5. \A q \in Participants : shown'[q] = IF q = p THEN Noted(shown[p], d) ELSE shown[q]
  BY <1>1, <1>3 DEF MessagesOK
<1>6. ASSUME NEW q \in Participants, NEW t \in SessionIds
      PROVE  shown[q][t] >= shown[q][t]
  <2>1. shown[q][t] \in 0..9
    BY <1>1 DEF MessagesOK
  <2> QED BY <2>1
<1> QED BY <1>1, <1>2, <1>4, <1>5, <1>6, NotedType

\* Only then.
LEMMA ShownSame ==
  ASSUME [DeliveryNext]_deliveryVars
  PROVE  shown' = shown \/ \E p \in Participants : ClientReads(p)
BY DEF DeliveryNext, deliveryVars, messages, history, SendStep, ConnectionStep, ClientAction,
       ReadBoard, ReadRest, SendNext, Connect, WelcomeRecover, SendWelcome,
       DisconnectClient, StartGame, ReadMove, CallStep, ClientClicks, LeaveGame

\* What is dropped is noted.
LEMMA MissedAfter ==
  ASSUME DeliveryTypeInv, [DeliveryNext]_deliveryVars
  PROVE  \/ missed' = missed
         \/ \E h, k \in Handlers :
              missed' = [missed EXCEPT ![k] = Noted(missed[k], outgoing[h].dto)]
<1>1. MessagesOK
  BY DEF DeliveryTypeInv
<1>2. ASSUME NEW h \in Handlers, SendNext(h)
      PROVE  \/ missed' = missed
             \/ \E k \in Handlers :
                  missed' = [missed EXCEPT ![k] = Noted(missed[k], outgoing[h].dto)]
  <2>1. outgoing[h].to # <<>>
    BY <1>2 DEF DeliveryTypeInv, Addressed, SendNext, Sends
  <2> QED BY <1>1, <1>2, <2>1, SendNextQueues DEF Takes, Drops
<1>3. ASSUME NEW h \in Handlers, SendWelcome(h)
      PROVE  \/ missed' = missed
             \/ missed' = [missed EXCEPT ![h] = Noted(missed[h], outgoing[h].dto)]
  BY <1>3, SendWelcomeTypes DEF Takes, Drops
<1> QED BY <1>2, <1>3
        DEF DeliveryNext, deliveryVars, messages, history, SendStep, ConnectionStep, ClientAction,
            ReadBoard, ReadRest, Connect, WelcomeRecover, DisconnectClient, StartGame, ReadMove,
            CallStep, ClientReads, ClientClicks, LeaveGame

LEMMA CountsGrow ==
  ASSUME DeliveryTypeInv, [DeliveryNext]_deliveryVars, NEW sid \in SessionIds
  PROVE  /\ \A p \in Participants : /\ shown[p][sid] \in 0..9 /\ shown'[p][sid] \in 0..9
                                    /\ shown'[p][sid] >= shown[p][sid]
         /\ \A h \in Handlers : /\ missed[h][sid] \in 0..9 /\ missed'[h][sid] \in 0..9
                                /\ missed'[h][sid] >= missed[h][sid]
<1>1. MessagesOK /\ MessagesOK'
  BY NextDeliveryTypeInv DEF DeliveryTypeInv
<1>2. /\ \A p \in Participants : shown[p][sid] \in 0..9 /\ shown'[p][sid] \in 0..9
      /\ \A h \in Handlers : missed[h][sid] \in 0..9 /\ missed'[h][sid] \in 0..9
  BY <1>1 DEF MessagesOK
<1>3. ASSUME NEW p \in Participants, NEW q \in Participants, ClientReads(q)
      PROVE  shown'[p][sid] >= shown[p][sid]
  <2>1. PICK d : d = Head(queue[clients[q]])
    OBVIOUS
  <2> QED BY <1>3, <2>1, ShownAfter
<1>4. ASSUME NEW g \in Handlers, NEW h \in Handlers, NEW k \in Handlers,
             missed' = [missed EXCEPT ![k] = Noted(missed[k], outgoing[h].dto)]
      PROVE  missed'[g][sid] >= missed[g][sid]
  <2>1. missed[k] \in [SessionIds -> 0..9] /\ outgoing[h].dto \in View
    BY <1>1 DEF MessagesOK, Sending
  <2>2. CASE g = k
    <3>1. missed'[g] = Noted(missed[k], outgoing[h].dto)
      BY <1>1, <1>4, <2>2 DEF MessagesOK
    <3> QED BY <2>1, <2>2, <3>1, NotedType
  <2>3. CASE g # k
    <3>1. missed'[g] = missed[g] /\ missed[g][sid] \in 0..9
      BY <1>1, <1>4, <2>3 DEF MessagesOK
    <3> QED BY <3>1
  <2> QED BY <2>2, <2>3
<1>5. \A p \in Participants : shown'[p][sid] >= shown[p][sid]
  BY <1>2, <1>3, ShownSame
<1>6. \A g \in Handlers : missed'[g][sid] >= missed[g][sid]
  BY <1>2, <1>4, MissedAfter
<1> QED BY <1>2, <1>5, <1>6

LEMMA CountStaysPast ==
  ASSUME PlayInv, [DeliveryNext]_deliveryVars,
         NEW sid \in SessionIds, NEW n \in 0..9, CountPast(n, sid)
  PROVE  CountPast(n, sid)'
<1> SUFFICES ASSUME n > 0
             PROVE  sessions'[sid] # NoSession /\ n <= countMoves(sessions'[sid].board)
  BY DEF CountPast
<1>1. sessions[sid] # NoSession /\ n <= countMoves(sessions[sid].board)
  BY DEF CountPast
<1>2. /\ sessions'[sid] # NoSession
      /\ \A c \in Cells : sessions[sid].board[c] # Empty =>
           sessions'[sid].board[c] = sessions[sid].board[c]
  BY <1>1, PlayersStay
<1>3. countMoves(sessions[sid].board) <= countMoves(sessions'[sid].board)
  BY <1>2, MoreMarks
<1>4. countMoves(sessions[sid].board) \in 0..9 /\ countMoves(sessions'[sid].board) \in 0..9
  BY CountType
<1> QED BY <1>1, <1>2, <1>3, <1>4

\* What there is to be shown, or missed, has happened.
LEMMA PastIsCounted ==
  ASSUME NEW d \in DTO, d \in Past
  PROVE  d.sid \in SessionIds /\ CountPast(countMoves(d.board), d.sid)
<1>1. PastBoard(d.sid, d.board)
  BY NoViewAssumption DEF Past
<1>2. countMoves(d.board) <= countMoves(sessions[d.sid].board)
  BY <1>1, MoreMarks DEF PastBoard
<1> QED BY <1>1, <1>2 DEF PastBoard, CountPast

LEMMA NextCountsPast ==
  ASSUME PastInv, CountsPast, [DeliveryNext]_deliveryVars
  PROVE  CountsPast'
<1>1. PlayInv /\ DeliveryTypeInv /\ MessagesOK /\ ComesFrom(Past)
  BY DEF PastInv, PlayInv, DeliveryTypeInv
<1>2. ASSUME NEW p \in Participants, NEW sid \in SessionIds, NEW n, n = shown'[p][sid]
      PROVE  CountPast(n, sid)'
  <2>1. n \in 0..9
    BY <1>1, <1>2, CountsGrow
  <2>2. CASE n = shown[p][sid]
    BY <1>1, <2>1, <2>2, CountStaysPast DEF CountsPast
  <2>3. CASE n # shown[p][sid]
    <3>1. PICK q \in Participants : ClientReads(q)
      BY <1>2, <2>3, ShownSame
    <3>2. PICK d : d = Head(queue[clients[q]])
      OBVIOUS
    <3>3. /\ d \in DTO /\ sid = d.sid /\ n = countMoves(d.board)
          /\ clients[q] \in Handlers /\ queue[clients[q]] # <<>>
      BY <1>1, <1>2, <2>3, <3>1, <3>2, ShownAfter
    <3>4. d \in Past
      BY <1>1, <3>2, <3>3, HeadAndTail DEF ComesFrom
    <3>5. CountPast(n, sid)
      BY <3>3, <3>4, PastIsCounted
    <3> QED BY <1>1, <2>1, <3>5, CountStaysPast
  <2> QED BY <2>2, <2>3
<1>3. ASSUME NEW g \in Handlers, NEW sid \in SessionIds, NEW n, n = missed'[g][sid]
      PROVE  CountPast(n, sid)'
  <2>1. n \in 0..9
    BY <1>1, <1>3, CountsGrow
  <2>2. CASE n = missed[g][sid]
    BY <1>1, <2>1, <2>2, CountStaysPast DEF CountsPast
  <2>3. CASE n # missed[g][sid]
    <3>1. PICK h \in Handlers, k \in Handlers :
            missed' = [missed EXCEPT ![k] = Noted(missed[k], outgoing[h].dto)]
      BY <1>1, <1>3, <2>3, MissedAfter
    <3>2. PICK d : d = outgoing[h].dto
      OBVIOUS
    <3>3. missed[g] \in [SessionIds -> 0..9] /\ d \in View /\ d \in Past
      BY <1>1, <3>2 DEF MessagesOK, Sending, ComesFrom
    <3>4. n = Noted(missed[g], d)[sid]
      BY <1>1, <1>3, <2>3, <3>1, <3>2 DEF MessagesOK
    <3>5. d \in DTO /\ d.sid = sid /\ n = countMoves(d.board)
      BY <2>3, <3>3, <3>4, NotedType
    <3>6. CountPast(n, sid)
      BY <3>3, <3>5, PastIsCounted
    <3> QED BY <1>1, <2>1, <3>6, CountStaysPast
  <2> QED BY <2>2, <2>3
<1>4. /\ \A p \in Participants, sid \in SessionIds : CountPast(shown[p][sid], sid)'
      /\ \A g \in Handlers, sid \in SessionIds : CountPast(missed[g][sid], sid)'
  BY <1>2, <1>3 DEF CountPast
<1> QED BY <1>4 DEF CountsPast

-----------------------------------------------------------------------------
(* What is on its way stays on its way.                                    *)

\* Only the write of a move changes a board.
LEMMA BoardKept ==
  ASSUME PlayInv, [DeliveryNext]_deliveryVars, NEW sid \in SessionIds, sessions[sid] # NoSession,
         \A h \in Handlers : ~(WriteBoard(h) /\ call[h].sid = sid)
  PROVE  sessions'[sid].board = sessions[sid].board
<1>1. MessagesOK /\ TypeInv
  BY DeliveryTypesInclude DEF PlayInv, DeliveryTypeInv
<1>2. CASE UNCHANGED sessions
  BY <1>2
<1>3. CASE \E h \in Handlers : Input(h) \/ CreateStep(h) \/ ApplyMoveStep(h)
  <2>1. PICK h \in Handlers : Input(h) \/ CreateStep(h) \/ ApplyMoveStep(h)
    BY <1>3
  <2>2. CASE WriteBoard(h)
    <3>1. \A t \in SessionIds \ {call[h].sid} : sessions'[t] = sessions[t]
      BY <1>1, <2>2, FieldEffects
    <3> QED BY <2>2, <3>1
  <2>3. CASE PassTurn(h) \/ FinishStatus(h) \/ FinishResult(h)
    <3>1. call[h].pc # "write"
      BY <2>3 DEF PassTurn, FinishStatus, FinishResult, At
    <3>2. /\ \A t \in SessionIds \ {call[h].sid} : sessions'[t] = sessions[t]
          /\ sessions'[call[h].sid].board = sessions[call[h].sid].board
      BY <1>1, <2>3, <3>1, FieldEffects
    <3> QED BY <3>2
  <2>4. CASE \E t \in SessionIds :
               /\ sessions[t] = NoSession /\ sessions'[t] # NoSession
               /\ \A u \in SessionIds \ {t} : sessions'[u] = sessions[u]
    BY <2>4
  <2> QED BY <1>1, <1>2, <2>1, <2>2, <2>3, <2>4, SessionsAfter
<1> QED BY <1>1, <1>2, <1>3, CallsAreSteps DEF vars, deliveryVars

\* A message stays where it is while others are queued behind it.
LEMMA StaysQueued ==
  ASSUME NEW s \in Seq(View), NEW d, NEW t \in {s, Append(s, d)}, NEW i \in DOMAIN s
  PROVE  i \in DOMAIN t /\ t[i] = s[i]
OBVIOUS

\* The message that is read, or one of those behind it.
LEMMA ReadOrQueued ==
  ASSUME NEW s \in Seq(View), s # <<>>, NEW i \in DOMAIN s
  PROVE  s[i] = Head(s) \/ \E j \in DOMAIN Tail(s) : Tail(s)[j] = s[i]
<1>1. /\ Head(s) = s[1] /\ \A j \in DOMAIN Tail(s) : Tail(s)[j] = s[j + 1]
      /\ i # 1 => i - 1 \in DOMAIN Tail(s) /\ (i - 1) + 1 = i
  OBVIOUS
<1> QED BY <1>1

LEMMA QueuedKept ==
  ASSUME RouteInv, DeliveryNext, NEW p \in Participants, NEW sid \in SessionIds,
         NEW c \in Handlers, clients[p] = c, clients'[p] = c,
         sessions'[sid].board = sessions[sid].board,
         \E i \in DOMAIN queue[c] : Shows(queue[c][i], sid)
  PROVE  OnItsWay(p, sid)'
<1>1. /\ DeliveryTypeInv /\ MessagesOK /\ ClientsOwned /\ Owner[c] = p
      /\ queue[c] \in Seq(View) /\ [DeliveryNext]_deliveryVars
  BY DeliveryAssumption DEF RouteInv, PlayInv, DeliveryTypeInv, MessagesOK, ClientsOwned
<1>2. PICK i \in DOMAIN queue[c] : Shows(queue[c][i], sid)
  OBVIOUS
<1>3. ASSUME queue'[c] = queue[c] \/ \E d : queue'[c] = Append(queue[c], d)
      PROVE  OnItsWay(p, sid)'
  <2>1. i \in DOMAIN queue'[c] /\ queue'[c][i] = queue[c][i]
    BY <1>1, <1>3, StaysQueued
  <2> QED BY <1>2, <2>1 DEF OnItsWay, Shows
<1>4. CASE UNCHANGED queue
  BY <1>3, <1>4
<1>5. ASSUME NEW h \in Handlers, SendNext(h) \/ SendWelcome(h)
      PROVE  OnItsWay(p, sid)'
  <2>1. queue'[c] \in {queue[c], Append(queue[c], outgoing[h].dto)}
    BY <1>1, <1>5, SendNextTypes, SendWelcomeTypes
  <2> QED BY <1>3, <2>1
<1>6. ASSUME NEW h \in Handlers, Connect(h)
      PROVE  OnItsWay(p, sid)'
  <2>1. CASE Owner[h] = p
    <3>1. clients'[p] = h /\ outgoing'[h].pc = "recover"
      BY <1>1, <1>6, <2>1, ConnectTypes DEF Connect, MessagesOK
    <3> QED BY <3>1 DEF OnItsWay, Welcomes
  <2>2. CASE Owner[h] # p
    <3>1. queue'[c] = queue[c]
      BY <1>1, <1>6, <2>2 DEF Connect
    <3> QED BY <1>3, <3>1
  <2> QED BY <2>1, <2>2
<1>7. ASSUME NEW h \in Handlers, DisconnectClient(h)
      PROVE  OnItsWay(p, sid)'
  <2>1. h # c
    <3> SUFFICES ASSUME h = c PROVE FALSE
      OBVIOUS
    <3>1. clients'[p] = NoHandler
      BY <1>1, <1>7 DEF DisconnectClient, MessagesOK
    <3> QED BY <3>1, DeliveryAssumption
  <2>2. queue'[c] = queue[c]
    BY <1>1, <1>7, <2>1 DEF DisconnectClient, MessagesOK
  <2> QED BY <1>3, <2>2
<1>8. ASSUME NEW q \in Participants, ClientReads(q)
      PROVE  OnItsWay(p, sid)'
  <2>1. CASE q = p
    <3>1. PICK d : d = Head(queue[clients[p]])
      OBVIOUS
    <3>2. /\ queue[c] # <<>> /\ queue'[c] = Tail(queue[c])
          /\ d \in DTO => shown'[p][d.sid] >= countMoves(d.board)
      BY <1>1, <1>8, <2>1, <3>1, ShownAfter DEF ClientReads, Connection, MessagesOK
    <3>3. CASE queue[c][i] = Head(queue[c])
      <4>1. d \in DTO /\ d.sid = sid /\ d.board = sessions'[sid].board
        BY <1>2, <3>1, <3>3 DEF Shows
      <4> QED BY <3>2, <4>1 DEF OnItsWay
    <3>4. ASSUME NEW j \in DOMAIN Tail(queue[c]), Tail(queue[c])[j] = queue[c][i]
          PROVE  OnItsWay(p, sid)'
      BY <1>2, <3>2, <3>4 DEF OnItsWay, Shows
    <3> QED BY <1>1, <3>2, <3>3, <3>4, ReadOrQueued
  <2>2. CASE q # p
    <3>1. clients[q] \in Handlers /\ clients[q] # c
      BY <1>1, <1>8, <2>2 DEF ClientReads, Connected, MessagesOK, ClientsOwned
    <3>2. queue'[c] = queue[c]
      BY <1>1, <1>8, <3>1 DEF ClientReads, Connection, MessagesOK
    <3> QED BY <1>3, <3>2
  <2> QED BY <2>1, <2>2
<1> QED BY <1>4, <1>5, <1>6, <1>7, <1>8
        DEF DeliveryNext, SendStep, ConnectionStep, ClientAction, ReadBoard, ReadRest,
            WelcomeRecover, ReadMove, CallStep, StartGame, messages, ClientClicks, LeaveGame

-----------------------------------------------------------------------------
\* A handler that does nothing brings what it brought.
LEMMA OthersBring ==
  ASSUME NEW g \in Handlers, call'[g] = call[g], outgoing'[g] = outgoing[g],
         NEW sid, sessions'[sid].board = sessions[sid].board
  PROVE  /\ Fresh(g, sid)' <=> Fresh(g, sid)
         /\ \A p : Brings(g, p, sid)' <=> Brings(g, p, sid)
         /\ Welcomes(g, sid)' <=> Welcomes(g, sid)
<1>1. Fresh(g, sid)' <=> Fresh(g, sid)
  BY DEF Fresh, Shows
<1>2. Announces(g, sid)' <=> Announces(g, sid)
  BY DEF Announces
<1>3. \A p : Waits(g, p)' <=> Waits(g, p)
  BY DEF Waits
<1> QED BY <1>1, <1>2, <1>3 DEF Brings, Welcomes

\* A call is announced at last.
LEMMA AnnouncedKept ==
  ASSUME RouteInv, DeliveryNext, NEW h \in Handlers, CallStep(h),
         NEW sid \in SessionIds, Announces(h, sid), NEW p \in Players(sessions[sid])
  PROVE  Brings(h, p, sid)'
<1>1. DeliveryTypeInv /\ TypeInv /\ (CreateStep(h) \/ ApplyMoveStep(h))
  BY DeliveryTypesInclude DEF RouteInv, PlayInv, CallStep
<1>2. CASE SameAnnouncement(h)
  BY <1>2 DEF SameAnnouncement, Announces, Brings
<1>3. CASE WriteBoard(h)
  BY <1>1, <1>3, FieldCalls DEF Moved, Announces, Announcing, Brings
<1>4. CASE At(h, "started") \/ At(h, "reply")
  <2> DEFINE s == sessions[sid]
  <2>1. /\ outgoing'[h].pc = "board" /\ outgoing'[h].sid = sid
        /\ outgoing'[h].to = <<s.x, s.o>>
    BY <1>1, <1>4, CallStepFields DEF Fields, Announces, CurrentSession
  <2>2. DOMAIN <<s.x, s.o>> = {1, 2} /\ <<s.x, s.o>>[1] = s.x /\ <<s.x, s.o>>[2] = s.o
    OBVIOUS
  <2>3. Waits(h, p)'
    BY <2>1, <2>2 DEF Waits, Players
  <2>4. Fresh(h, sid)'
    BY <2>1 DEF Fresh
  <2> QED BY <2>3, <2>4 DEF Brings
<1> QED BY <1>1, <1>2, <1>3, <1>4, CallCases

\* What is sent to a connection is queued, or noted.
LEMMA Arrives ==
  ASSUME MessagesOK, NEW k \in Handlers, NEW m, Takes(k, m) \/ Drops(k, m),
         NEW p \in Participants, clients'[p] = k, NEW sid \in SessionIds, Shows(m, sid)'
  PROVE  OnItsWay(p, sid)'
<1>1. m \in DTO /\ m.sid = sid /\ m.board = sessions'[sid].board
  BY DEF Shows
<1>2. CASE Takes(k, m)
  <2>1. queue[k] \in Seq(View) /\ queue'[k] = Append(queue[k], m)
    BY <1>2 DEF MessagesOK, Takes
  <2>2. Len(queue[k]) + 1 \in DOMAIN queue'[k] /\ queue'[k][Len(queue[k]) + 1] = m
    BY <2>1
  <2> QED BY <2>2 DEF OnItsWay
<1>3. CASE Drops(k, m)
  <2>1. missed[k] \in [SessionIds -> 0..9] /\ missed'[k] = Noted(missed[k], m)
    BY <1>3 DEF MessagesOK, Drops
  <2>2. missed'[k][sid] >= countMoves(m.board)
    BY <1>1, <2>1, NotedType DEF View
  <2> QED BY <1>1, <2>2 DEF OnItsWay
<1> QED BY <1>2, <1>3

\* A message is sent: its first recipient has it, if it is connected and has room.
LEMMA SendNextBrings ==
  ASSUME RouteInv, NEW h \in Handlers, SendNext(h),
         NEW p \in Participants, NEW sid \in SessionIds, clients[p] \in Handlers,
         Waits(h, p), Fresh(h, sid)
  PROVE  OnItsWay(p, sid)'
<1> DEFINE o == outgoing[h]
<1>1. /\ MessagesOK /\ o.pc = "send" /\ o.to # <<>> /\ UNCHANGED <<clients, sessions>>
      /\ Directed(h)
  BY DEF RouteInv, PlayInv, DeliveryTypeInv, Addressed, SendNext, Sends, vars
<1>2. Shows(o.dto, sid) /\ o.dto \in View
  BY <1>1 DEF Fresh, MessagesOK, Sending
<1>3. CASE p = Head(o.to)
  <2> DEFINE c == clients[p]
  <2>1. clients[p] # NoHandler
    BY DeliveryAssumption
  <2>2. Takes(c, o.dto) \/ Drops(c, o.dto)
    BY <1>1, <1>3, <2>1, SendNextQueues
  <2> PICK m : m = o.dto
    OBVIOUS
  <2>3. clients'[p] = c /\ Shows(m, sid)'
    BY <1>1, <1>2 DEF Shows
  <2> HIDE DEF c, o
  <2>4. c \in Handlers
    BY DEF c
  <2> QED BY <1>1, <2>2, <2>3, <2>4, Arrives
<1>4. CASE p # Head(o.to)
  <2> DEFINE s == sessions[o.sid]
  <2>1. /\ Len(<<s.x, s.o>>) = 2 /\ Head(<<s.x, s.o>>) = s.x /\ Tail(<<s.x, s.o>>) = <<s.o>>
        /\ Head(<<s.o>>) = s.o /\ DOMAIN <<s.o>> = {1} /\ <<s.o>>[1] = s.o
    OBVIOUS
  <2>2. \/ o.to = <<s.x, s.o>> /\ p \in {s.x, s.o}
        \/ o.to = <<s.o>> /\ p = s.o
    BY <1>1, WaitingPlayers
  <2>3. o.to = <<s.x, s.o>> /\ p = s.o
    BY <1>4, <2>1, <2>2, Zenon
  <2>4. Len(o.to) # 1 /\ Tail(o.to) = <<s.o>>
    <3>1. Len(o.to) = Len(<<s.x, s.o>>) /\ Tail(o.to) = Tail(<<s.x, s.o>>)
      BY <2>3
    <3> QED BY <2>1, <3>1
  <2>5. /\ outgoing'[h].pc = "send" /\ outgoing'[h].to = <<s.o>> /\ outgoing'[h].dto = o.dto
    BY <1>1, <2>4, SendNextFields DEF Fields
  <2>6. Waits(h, p)'
    BY <2>1, <2>3, <2>5 DEF Waits
  <2>7. Fresh(h, sid)'
    BY <1>1, <1>2, <2>5 DEF Fresh, Shows
  <2> QED BY <2>6, <2>7 DEF Brings, OnItsWay
<1> QED BY <1>3, <1>4

\* The step of a handler that brings it.
LEMMA HandlerBrings ==
  ASSUME RouteInv, DeliveryNext, NEW h \in Handlers,
         SendStep(h) \/ ConnectionStep(h) \/ ReadMove(h) \/ CallStep(h)
           \/ \E t \in SessionIds, x \in Participants \ {Owner[h]} : StartGame(h, t, x),
         NEW p \in Participants, NEW sid \in SessionIds, clients[p] \in Handlers,
         p \in Players(sessions[sid]), sessions'[sid].board = sessions[sid].board,
         Brings(h, p, sid)
  PROVE  OnItsWay(p, sid)'
<1> DEFINE o == outgoing[h]
<1>1. Directed(h) /\ DeliveryTypeInv /\ MessagesOK
  BY DEF RouteInv, PlayInv, DeliveryTypeInv
<1>2. CASE Announces(h, sid)
  <2>1. ~At(h, "idle") /\ o.pc = "reading"
    BY <1>1, <1>2 DEF Announces, Announcing, At, Directed
  <2>2. CallStep(h)
    BY <2>1 DEF SendStep, ReadBoard, ReadRest, SendNext, ConnectionStep, Connect, WelcomeRecover,
       SendWelcome, DisconnectClient, ReadMove, ReceiveMove, StartGame, Create, Sends
  <2> QED BY <1>2, <2>2, AnnouncedKept DEF OnItsWay
<1>3. CASE Waits(h, p) /\ Fresh(h, sid)
  <2>1. o.to # <<>> /\ o.pc \in {"board", "rest", "send"} /\ At(h, "idle")
    BY <1>1, <1>3 DEF Waits, Directed
  <2>2. SendStep(h)
    BY <2>1 DEF ConnectionStep, Connect, WelcomeRecover, SendWelcome, DisconnectClient, ReadMove,
       StartGame, Sends, CallStep, CreateStep, ApplyMoveStep, InsertSession, AnnounceStart,
       CheckTurn, RefuseTurn, ComputeBoard, RefusePosition, WriteBoard, InsertMove, PassTurn,
       FinishStatus, FinishResult, SaveSession, CompleteSession, Reply, At
  <2>3. CASE ReadBoard(h)
    <3>1. /\ o.pc = "board" /\ outgoing'[h].pc = "rest" /\ outgoing'[h].sid = o.sid
          /\ outgoing'[h].to = o.to /\ outgoing'[h].board = sessions[o.sid].board
      BY <1>1, <2>3, ReadBoardFields DEF Fields
    <3>2. Waits(h, p)' /\ Fresh(h, sid)'
      BY <1>3, <3>1 DEF Waits, Fresh
    <3> QED BY <3>2 DEF Brings, OnItsWay
  <2>4. CASE ReadRest(h)
    <3>1. /\ o.pc = "rest" /\ outgoing'[h].pc = "send" /\ outgoing'[h].to = o.to
          /\ outgoing'[h].dto \in DTO /\ outgoing'[h].dto.sid = o.sid
          /\ outgoing'[h].dto.board = o.board
      BY <1>1, <2>1, <2>4, ReadRestFields DEF Fields
    <3>2. Waits(h, p)' /\ Fresh(h, sid)'
      BY <1>3, <3>1 DEF Waits, Fresh, Shows
    <3> QED BY <3>2 DEF Brings, OnItsWay
  <2>5. CASE SendNext(h)
    BY <1>3, <2>5, SendNextBrings
  <2> QED BY <2>2, <2>3, <2>4, <2>5 DEF SendStep
<1> QED BY <1>2, <1>3 DEF Brings

\* The step of a connection that is being welcomed.
LEMMA HandlerWelcomes ==
  ASSUME RouteInv, DeliveryNext, NEW h \in Handlers,
         SendStep(h) \/ ConnectionStep(h) \/ ReadMove(h) \/ CallStep(h)
           \/ \E t \in SessionIds, x \in Participants \ {Owner[h]} : StartGame(h, t, x),
         NEW p \in Participants, NEW sid \in SessionIds, clients[p] = h, clients'[p] = h,
         Recover(p) = sid, sessions'[sid].board = sessions[sid].board,
         Welcomes(h, sid)
  PROVE  OnItsWay(p, sid)'
<1> DEFINE o == outgoing[h]
<1>1. /\ Directed(h) /\ DeliveryTypeInv /\ MessagesOK /\ Addressed(h)
      /\ Owner[h] = p /\ sid # NoSession
  BY DeliveryAssumption, NoneAssumption DEF RouteInv, PlayInv, DeliveryTypeInv, ClientsOwned
<1>2. o.to = <<>> /\ (o.pc = "recover" \/ Fresh(h, sid)) /\ o.pc # "send"
  BY <1>1 DEF Welcomes, Directed, Addressed
<1>3. At(h, "idle") /\ o.pc \in {"recover", "board", "rest", "welcome"}
  BY <1>1, <1>2 DEF Directed, Fresh
<1>4. ReadBoard(h) \/ ReadRest(h) \/ WelcomeRecover(h) \/ SendWelcome(h)
  BY <1>3 DEF SendStep, SendNext, ConnectionStep, Connect, DisconnectClient, ReadMove,
     StartGame, Sends, CallStep, CreateStep, ApplyMoveStep, InsertSession, AnnounceStart,
     CheckTurn, RefuseTurn, ComputeBoard, RefusePosition, WriteBoard, InsertMove, PassTurn,
     FinishStatus, FinishResult, SaveSession, CompleteSession, Reply, At
<1>5. CASE ReadBoard(h)
  <2>1. /\ o.pc = "board" /\ outgoing'[h].pc = "rest" /\ outgoing'[h].sid = o.sid
        /\ outgoing'[h].to = <<>> /\ outgoing'[h].board = sessions[o.sid].board
    BY <1>1, <1>2, <1>5, ReadBoardFields DEF Fields
  <2>2. Welcomes(h, sid)'
    BY <1>2, <2>1 DEF Fresh, Welcomes
  <2> QED BY <2>2 DEF OnItsWay
<1>6. CASE ReadRest(h)
  <2>1. /\ o.pc = "rest" /\ outgoing'[h].pc = "welcome" /\ outgoing'[h].to = <<>>
        /\ outgoing'[h].dto \in DTO /\ outgoing'[h].dto.sid = o.sid
        /\ outgoing'[h].dto.board = o.board
    BY <1>1, <1>2, <1>6, ReadRestFields DEF Fields
  <2>2. Welcomes(h, sid)'
    BY <1>2, <2>1 DEF Fresh, Shows, Welcomes
  <2> QED BY <2>2 DEF OnItsWay
<1>7. CASE WelcomeRecover(h)
  <2>1. outgoing'[h].pc = "board" /\ outgoing'[h].sid = sid /\ outgoing'[h].to = <<>>
    BY <1>1, <1>2, <1>7, WelcomeRecoverFields DEF Fields
  <2>2. Welcomes(h, sid)'
    BY <2>1 DEF Fresh, Welcomes
  <2> QED BY <2>2 DEF OnItsWay
<1>8. CASE SendWelcome(h)
  <2>1. o.pc = "welcome" /\ Shows(o.dto, sid)
    BY <1>2, <1>8 DEF SendWelcome, Sends, Fresh
  <2>2. Takes(h, o.dto) \/ Drops(h, o.dto)
    BY <1>1, <1>8, SendWelcomeTypes
  <2> PICK m : m = o.dto
    OBVIOUS
  <2>3. Shows(m, sid)'
    BY <2>1 DEF Shows
  <2>4. sid \in SessionIds
    BY <1>1 DEF DeliveryTypeInv, RecoveryInv, TypeInv, TypeOK, Recover
  <2> HIDE DEF o
  <2> QED BY <1>1, <2>2, <2>3, <2>4, Arrives
<1> QED BY <1>4, <1>5, <1>6, <1>7, <1>8

\* A board that stays the same stays on its way.
LEMMA WayKept ==
  ASSUME RouteInv, DeliveryNext,
         NEW p \in Participants, NEW sid \in SessionIds, Recover(p) = sid,
         clients[p] \in Handlers, clients'[p] = clients[p],
         sessions'[sid].board = sessions[sid].board, OnItsWay(p, sid)
  PROVE  OnItsWay(p, sid)'
<1>1. /\ DeliveryTypeInv /\ MessagesOK /\ [DeliveryNext]_deliveryVars
      /\ p \in Players(sessions[sid])
  BY NoneAssumption DEF RouteInv, PlayInv, DeliveryTypeInv, RecoveryInv, RecoverIsCurrent
<1>2. PICK c \in Handlers : c = clients[p]
  OBVIOUS
<1>3. CASE shown[p][sid] >= countMoves(sessions[sid].board)
  <2>1. shown[p][sid] \in 0..9 /\ shown'[p][sid] \in 0..9 /\ shown'[p][sid] >= shown[p][sid]
    BY <1>1, CountsGrow
  <2>2. countMoves(sessions[sid].board) \in 0..9
    BY CountType
  <2>3. shown'[p][sid] >= countMoves(sessions[sid].board)
    BY <1>3, <2>1, <2>2
  <2> QED BY <2>3 DEF OnItsWay
<1>4. CASE \E i \in DOMAIN queue[c] : Shows(queue[c][i], sid)
  BY <1>2, <1>4, QueuedKept
<1>5. ASSUME NEW g \in Handlers, Brings(g, p, sid) \/ (g = c /\ Welcomes(c, sid))
      PROVE  OnItsWay(p, sid)'
  <2>1. CASE call'[g] = call[g] /\ outgoing'[g] = outgoing[g]
    <3>1. Brings(g, p, sid)' \/ (g = c /\ Welcomes(c, sid)')
      BY <1>5, <2>1, OthersBring
    <3> QED BY <1>2, <3>1 DEF OnItsWay
  <2>2. ASSUME NEW h \in Handlers,
               SendStep(h) \/ ConnectionStep(h) \/ ReadMove(h) \/ CallStep(h)
                 \/ \E t \in SessionIds, x \in Participants \ {Owner[h]} : StartGame(h, t, x)
        PROVE  OnItsWay(p, sid)'
    <3>1. CASE g = h
      BY <1>1, <1>2, <1>5, <2>2, <3>1, HandlerBrings, HandlerWelcomes
    <3>2. CASE g # h
      <4>1. Alone(h) /\ OthersSend(h)
        BY <2>2, HandlerDirected
      <4> QED BY <2>1, <3>2, <4>1 DEF Alone, OthersSend
    <3> QED BY <3>1, <3>2
  <2>3. ASSUME NEW q \in Participants, ClientAction(q)
        PROVE  OnItsWay(p, sid)'
    <3>1. UNCHANGED <<call, outgoing>>
      BY <2>3 DEF ClientAction, ClientReads, ClientClicks, LeaveGame, vars
    <3> QED BY <2>1, <3>1
  <2> QED BY <2>2, <2>3 DEF DeliveryNext
<1>6. CASE missed[c][sid] >= countMoves(sessions[sid].board)
  <2>1. missed[c][sid] \in 0..9 /\ missed'[c][sid] \in 0..9 /\ missed'[c][sid] >= missed[c][sid]
    BY <1>1, CountsGrow
  <2>2. countMoves(sessions[sid].board) \in 0..9
    BY CountType
  <2>3. missed'[c][sid] >= countMoves(sessions[sid].board)
    BY <1>6, <2>1, <2>2
  <2> QED BY <1>2, <2>3 DEF OnItsWay
<1> QED BY <1>2, <1>3, <1>4, <1>5, <1>6 DEF OnItsWay

\* A player gets into another game by a call that announces it.
LEMMA OtherGameAnnounced ==
  ASSUME DeliveryTypeInv, DeliveryNext, NEW p \in Participants, NEW sid \in SessionIds,
         Recover(p)' = sid, Recover(p) # sid
  PROVE  \E h \in Handlers : Announces(h, sid)'
<1>1. MessagesOK /\ TypeInv
  BY DeliveryTypesInclude DEF DeliveryTypeInv
<1>2. sessionByParticipant'[p] = sid /\ sessionByParticipant[p] # sid /\ sid # NoSession
  BY NoneAssumption DEF Recover
<1>3. PICK h \in Handlers : Input(h) \/ CreateStep(h) \/ ApplyMoveStep(h)
  BY <1>1, <1>2, CallsAreSteps DEF vars
<1>4. CASE SaveSession(h)
  <2>1. sid = call[h].sid
    BY <1>2, <1>4 DEF SaveSession, IndexAfterSave
  <2>2. call'[h].pc \in {"complete", "reply"} /\ call'[h].sid = call[h].sid
    BY <1>1, <1>4, QuietEffects DEF Moved
  <2> QED BY <2>1, <2>2 DEF Announces, Announcing
<1>5. ASSUME NEW t \in SessionIds, NEW x \in Participants, Create(h, t, x, Owner[h])
      PROVE  \E g \in Handlers : Announces(g, sid)'
  <2>1. sid = t
    BY <1>2, <1>5 DEF Create, IndexAfterSave
  <2>2. call'[h].pc = "insertSession" /\ call'[h].sid = t
    BY <1>1, <1>5, CreateEffects, OwnerAssumption
  <2> QED BY <2>1, <2>2 DEF Announces, Announcing
<1>6. SaveSession(h) \/ \E t \in SessionIds, x \in Participants : Create(h, t, x, Owner[h])
  BY <1>2, <1>3
     DEF Input, CreateStep, ApplyMoveStep, ReceiveMove, InsertSession, AnnounceStart, CheckTurn,
         RefuseTurn, ComputeBoard, RefusePosition, WriteBoard, InsertMove, PassTurn, FinishStatus,
         FinishResult, CompleteSession, Reply
<1> QED BY <1>4, <1>5, <1>6

\* A player gets another connection by registering it.
LEMMA OtherConnectionWelcomed ==
  ASSUME DeliveryTypeInv, DeliveryNext, NEW p \in Participants, NEW c \in Handlers,
         clients'[p] = c, clients[p] # c
  PROVE  outgoing'[c].pc = "recover"
<1>1. MessagesOK
  BY DEF DeliveryTypeInv
<1>2. ASSUME NEW h \in Handlers, Connect(h)
      PROVE  outgoing'[c].pc = "recover"
  <2>1. c = h
    BY <1>1, <1>2 DEF Connect, MessagesOK
  <2> QED BY <1>2, <2>1, ConnectTypes
<1>3. ASSUME NEW h \in Handlers, DisconnectClient(h)
      PROVE  FALSE
  BY <1>1, <1>3, DeliveryAssumption DEF DisconnectClient, MessagesOK
<1> QED BY <1>2, <1>3
        DEF DeliveryNext, SendStep, ConnectionStep, ClientAction, ReadBoard, ReadRest, SendNext,
            WelcomeRecover, SendWelcome, ReadMove, CallStep, StartGame, messages,
            ClientReads, ClientClicks, LeaveGame

LEMMA NextWayInv ==
  ASSUME OneAtATime, WayInv, [DeliveryNext]_deliveryVars
  PROVE  WayInv'
<1>1. /\ PastInv' /\ RouteInv' /\ CountsPast' /\ RouteInv /\ PlayInv /\ DeliveryTypeInv
      /\ MessagesOK /\ MessagesOK' /\ DeliveryTypeInv' /\ TypeInv
  <2>1. PastInv' /\ RouteInv' /\ CountsPast'
    BY NextPastInv, NextRouteInv, NextCountsPast DEF WayInv
  <2> QED BY <2>1, DeliveryTypesInclude DEF WayInv, RouteInv, PlayInv, DeliveryTypeInv
<1>2. CASE UNCHANGED deliveryVars
  BY <1>1, <1>2 DEF WayInv, deliveryVars, vars, messages, history, Connected, Recover, OnItsWay, Shows,
                    Brings, Announces, Waits, Fresh, Welcomes
<1>3. ASSUME DeliveryNext, NEW p \in Participants, Connected(p)', NEW sid, sid = Recover(p)',
             sid # NoSession
      PROVE  OnItsWay(p, sid)'
  <2>1. sid \in SessionIds
    BY <1>1, <1>3 DEF DeliveryTypeInv, RecoveryInv, TypeInv, TypeOK, Recover
  <2>2. PICK c \in Handlers : c = clients'[p]
    BY <1>1, <1>3 DEF MessagesOK, Connected
  <2>3. CASE Recover(p) # sid
    <3>1. PICK h \in Handlers : Announces(h, sid)'
      BY <1>1, <1>3, <2>1, <2>3, OtherGameAnnounced
    <3> QED BY <3>1 DEF Brings, OnItsWay
  <2>4. CASE clients[p] # c
    <3>1. outgoing'[c].pc = "recover"
      BY <1>1, <1>3, <2>2, <2>4, OtherConnectionWelcomed
    <3> QED BY <2>2, <3>1 DEF Welcomes, OnItsWay
  <2>5. ASSUME NEW h \in Handlers, WriteBoard(h), call[h].sid = sid
        PROVE  OnItsWay(p, sid)'
    <3>1. call'[h].pc = "insert" /\ call'[h].sid = sid
      BY <1>1, <2>5, FieldCalls DEF Moved
    <3>2. Announces(h, sid)'
      BY <3>1 DEF Announces, Announcing
    <3> QED BY <3>2 DEF Brings, OnItsWay
  <2>6. CASE /\ Recover(p) = sid /\ clients[p] = c
             /\ \A h \in Handlers : ~(WriteBoard(h) /\ call[h].sid = sid)
    <3>1. sessions[sid] # NoSession
      BY <1>1, <1>3, <2>6 DEF DeliveryTypeInv, RecoveryInv, RecoverIsCurrent
    <3>2. sessions'[sid].board = sessions[sid].board
      BY <1>1, <2>1, <2>6, <3>1, BoardKept
    <3>3. OnItsWay(p, sid)
      <4>1. Connected(p) /\ Recover(p) # NoSession
        BY <1>3, <2>6, DeliveryAssumption DEF Connected
      <4> QED BY <2>6, <4>1 DEF WayInv
    <3> QED BY <1>1, <1>3, <2>1, <2>2, <2>6, <3>2, <3>3, WayKept
  <2> QED BY <2>3, <2>4, <2>5, <2>6
<1>4. CASE DeliveryNext
  BY <1>1, <1>3, <1>4 DEF WayInv
<1> QED BY <1>2, <1>4

LEMMA InitWayInv == OneAtATime /\ DeliveryInit => WayInv
<1> SUFFICES ASSUME OneAtATime, DeliveryInit PROVE WayInv
  OBVIOUS
<1>1. CountsPast
  BY DEF DeliveryInit, CountsPast, CountPast
<1>2. \A p \in Participants : ~Connected(p)
  BY DEF DeliveryInit, Connected
<1> QED BY <1>1, <1>2, InitPastInv, InitRouteInv DEF WayInv

\* When all is quiet nothing is on its way: what was has been shown, or missed.
LEMMA QuietHasShown == WayInv => NothingIsWithheld
<1> SUFFICES ASSUME WayInv, Quiet, NEW p \in Participants, Connected(p), NEW sid,
                    sid = Recover(p), sid # NoSession
             PROVE  countMoves(sessions[sid].board) \in {shown[p][sid], missed[clients[p]][sid]}
  BY DEF NothingIsWithheld, Connection
<1>1. /\ RouteInv /\ CountsPast /\ DeliveryTypeInv /\ MessagesOK /\ OnItsWay(p, sid)
      /\ clients[p] \in Handlers
  BY DEF WayInv, RouteInv, PlayInv, DeliveryTypeInv, Connected, MessagesOK
<1>2. /\ sid \in SessionIds /\ countMoves(sessions[sid].board) \in 0..9
      /\ shown[p][sid] \in 0..9 /\ missed[clients[p]][sid] \in 0..9
  BY <1>1, CountType DEF DeliveryTypeInv, RecoveryInv, TypeInv, TypeOK, Recover, MessagesOK
<1>3. queue[clients[p]] = <<>>
  BY DEF Quiet, Connection
<1>4. ~\E i \in DOMAIN queue[clients[p]] : Shows(queue[clients[p]][i], sid)
  BY <1>3
<1>5. ASSUME NEW g \in Handlers
      PROVE  ~Brings(g, p, sid) /\ ~Welcomes(g, sid)
  <2>1. call[g].pc = "idle" /\ outgoing[g].pc \in {"new", "reading", "gone"}
    BY DEF Quiet, At
  <2> QED BY <2>1 DEF Brings, Announces, Announcing, Fresh, Welcomes
<1>6. \/ shown[p][sid] >= countMoves(sessions[sid].board)
      \/ missed[clients[p]][sid] >= countMoves(sessions[sid].board)
  BY <1>1, <1>4, <1>5 DEF OnItsWay
<1>7. CountPast(shown[p][sid], sid) /\ CountPast(missed[clients[p]][sid], sid)
  BY <1>1, <1>2 DEF CountsPast
<1> QED BY <1>2, <1>6, <1>7 DEF CountPast

\* No move is withheld but by a queue that is full: once all is quiet, every
\* connected player has been shown its game as it stands, or the very message
\* that had it, sent with Enqueue, found no room in the queue of its connection.
\* Torn messages, overtaken messages, reconnections and whatever else goes
\* through the queues cost nobody a move.
THEOREM NoMoveIsWithheld ==
  ASSUME OneAtATime
  PROVE  DeliverySpec => []NothingIsWithheld
<1> QED BY InitWayInv, NextWayInv, QuietHasShown, PTL DEF DeliverySpec

=============================================================================
