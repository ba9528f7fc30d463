---------------------------- MODULE MatchmakingProofs ----------------------------
(***************************************************************************)
(* Proofs about matchmaking, for any sets of participants, invitations and *)
(* sessions.  Matchmaking implements the session manager, games are agreed *)
(* upon, and a connection answers an invitation once.                      *)
(***************************************************************************)
EXTENDS Matchmaking, SessionManagerProofs

Inviting == {"lookup", "inviter", "invitee", "save"}
Answering == {"delete", "create"}

\* What a handler that serves p may rely on while it is at matching m, when f is
\* what the invitations say: it invites somebody else, or answers an invitation
\* that was made to p.
Minds(m, p, f) ==
  /\ m.pc \in Inviting => m.to \in Participants \ {p}
  /\ m.pc \in Answering => m.inv \in InvitationIds /\ f[m.inv] # NoInvitation /\ f[m.inv].to = p

NobodyInvitesThemselves ==
  \A i \in InvitationIds : invitation[i] # NoInvitation => invitation[i].from # invitation[i].to

PendingIsMade == \A i \in pending : invitation[i] # NoInvitation

\* The invariant behind SessionManagerSteps and GamesAreAgreed.
MatchInv ==
  /\ TypeInv /\ MatchTypeOK
  /\ NobodyInvitesThemselves /\ PendingIsMade
  /\ \A h \in Handlers : Minds(matching[h], Owner[h], invitation)
  /\ GamesAreAgreed

LEMMA NotMatchingType ==
  NotMatching \in Matching /\ \A p, f : Minds(NotMatching, p, f)
BY DEF NotMatching, Matching, Minds, Inviting, Answering

LEMMA InitMatchInv == MatchInit => MatchInv
<1> SUFFICES ASSUME MatchInit PROVE MatchInv
  OBVIOUS
<1>1. TypeInv
  BY InitTypeInv DEF MatchInit
<1>2. MatchTypeOK
  BY <1>1, NotMatchingType DEF MatchInit, MatchTypeOK, TypeInv
<1>3. NobodyInvitesThemselves /\ PendingIsMade
  BY DEF MatchInit, NobodyInvitesThemselves, PendingIsMade
<1>4. \A h \in Handlers : Minds(matching[h], Owner[h], invitation)
  BY NotMatchingType DEF MatchInit
<1>5. GamesAreAgreed
  BY DEF MatchInit, Init, GamesAreAgreed
<1> QED BY <1>1, <1>2, <1>3, <1>4, <1>5 DEF MatchInv

-----------------------------------------------------------------------------
(* Every step of matchmaking is a step of the session manager.             *)

\* The steps that move matching[h] and leave the session manager alone.
MatchOnly(h) ==
  \/ \E to \in Participants : StartInvitation(h, to)
  \/ LookupInvitee(h) \/ CheckInviter(h) \/ CheckInvitee(h)
  \/ \E i \in InvitationIds : SaveInvitation(h, i) \/ StartResponse(h, i)
  \/ Decline(h) \/ Accept(h)

\* The steps that are taken over from the session manager as they are.
SessionOnly(h) ==
  /\ \/ \E sid \in SessionIds : \E position \in UNION {PositionsAt[n] : n \in 0..9} :
          ReceiveMove(h, sid, position)
     \/ CreateStep(h) \/ ApplyMoveStep(h)
  /\ UNCHANGED matchVars

LEMMA MatchNextCases ==
  ASSUME MatchNext
  PROVE  \E h \in Handlers :
           \/ MatchOnly(h)
           \/ \E sid \in SessionIds : CreateAccepted(h, sid)
           \/ SessionOnly(h)
BY DEF MatchNext, MatchInput, MatchStep, MatchOnly, SessionOnly

LEMMA MatchOnlyStutters == ASSUME NEW h \in Handlers, MatchOnly(h) PROVE UNCHANGED vars
BY DEF MatchOnly, StartInvitation, LookupInvitee, CheckInviter, CheckInvitee, SaveInvitation,
       StartResponse, Decline, Accept

\* Whoever accepts is the one who was invited, by somebody else.
LEMMA AcceptedTerms ==
  ASSUME MatchInv, NEW h \in Handlers, Matches(h, "create")
  PROVE  /\ matching[h].inv \in InvitationIds
         /\ invitation[matching[h].inv] \in Invitation
         /\ invitation[matching[h].inv].to = Owner[h]
         /\ invitation[matching[h].inv].from \in Participants \ {Owner[h]}
<1>1. matching[h].inv \in InvitationIds /\ invitation[matching[h].inv] \in Invitation
      /\ invitation[matching[h].inv].to = Owner[h]
      /\ invitation[matching[h].inv].from # Owner[h]
  BY DEF MatchInv, MatchTypeOK, Minds, Answering, Matches, NobodyInvitesThemselves
<1> QED BY <1>1 DEF Invitation

LEMMA MatchSimulates == MatchInv /\ [MatchNext]_<<vars, matchVars>> => [Next]_vars
<1> SUFFICES ASSUME MatchInv, MatchNext PROVE [Next]_vars
  BY DEF vars
<1>1. PICK h \in Handlers :
        MatchOnly(h) \/ (\E sid \in SessionIds : CreateAccepted(h, sid)) \/ SessionOnly(h)
  BY MatchNextCases
<1>2. CASE MatchOnly(h)
  BY <1>2, MatchOnlyStutters
<1>3. ASSUME NEW sid \in SessionIds, CreateAccepted(h, sid)
      PROVE  Input(h)
  <2> DEFINE x == invitation[matching[h].inv].from
  <2>1. Matches(h, "create") /\ Create(h, sid, x, invitation[matching[h].inv].to)
    BY <1>3 DEF CreateAccepted
  <2>2. x \in Participants \ {Owner[h]} /\ Create(h, sid, x, Owner[h])
    BY <2>1, AcceptedTerms
  <2> HIDE DEF x
  <2> QED BY <2>2 DEF Input
<1>4. CASE SessionOnly(h)
  BY <1>4 DEF SessionOnly, Input, Next
<1> QED BY <1>1, <1>2, <1>3, <1>4 DEF Next

-----------------------------------------------------------------------------
(* What the steps of matchmaking keep.                                     *)

\* An invitation never changes once it is made, and an answer stays.
Remembered ==
  \A i \in InvitationIds :
    /\ invitation[i] # NoInvitation => invitation'[i] = invitation[i]
    /\ answers[i] \subseteq answers'[i]

\* h moves on to matching new, which it may rely on.
Becomes(h, new) ==
  /\ matching' = [matching EXCEPT ![h] = new]
  /\ new \in Matching /\ Minds(new, Owner[h], invitation')

\* Step and Finished, as assignments of the whole record.
LEMMA FinishedBecomes == ASSUME NEW h \in Handlers, Finished(h) PROVE Becomes(h, NotMatching)
BY NotMatchingType DEF Finished, Becomes

LEMMA StepBecomes ==
  ASSUME MatchInv, NEW h \in Handlers,
         NEW pc \in {"inviter", "invitee", "save", "create"}, Step(h, pc),
         matching[h].pc \in IF pc = "create" THEN Answering ELSE Inviting,
         UNCHANGED invitation
  PROVE  \E new : Becomes(h, new)
<1> DEFINE new == [matching[h] EXCEPT !.pc = pc]
<1>1. matching' = [matching EXCEPT ![h] = new] /\ matching[h] \in Matching
      /\ Minds(matching[h], Owner[h], invitation)
  BY DEF Step, MatchInv, MatchTypeOK
<1>2. new \in Matching /\ new.pc = pc /\ new.to = matching[h].to /\ new.inv = matching[h].inv
  BY <1>1 DEF Matching
<1> HIDE DEF new
<1>3. Minds(new, Owner[h], invitation')
  BY <1>1, <1>2 DEF Minds, Inviting, Answering
<1> QED BY <1>1, <1>2, <1>3 DEF Becomes

\* The steps that make no invitation.
LEMMA QuietMatching ==
  ASSUME MatchInv, NEW h \in Handlers,
         \/ \E to \in Participants : StartInvitation(h, to)
         \/ LookupInvitee(h) \/ CheckInviter(h) \/ CheckInvitee(h)
         \/ \E i \in InvitationIds : StartResponse(h, i)
         \/ Decline(h) \/ Accept(h)
         \/ \E sid \in SessionIds : CreateAccepted(h, sid)
  PROVE  UNCHANGED invitation /\ \E new : Becomes(h, new)
<1>1. UNCHANGED invitation
  BY DEF StartInvitation, LookupInvitee, CheckInviter, CheckInvitee, StartResponse, Decline,
         Accept, CreateAccepted
<1>2. ASSUME NEW to \in Participants, StartInvitation(h, to) PROVE \E new : Becomes(h, new)
  <2> DEFINE new == [matching[h] EXCEPT !.pc = "lookup", !.to = to]
  <2>1. matching' = [matching EXCEPT ![h] = new] /\ matching[h] \in Matching /\ to # Owner[h]
    BY <1>2 DEF StartInvitation, MayInvite, MatchInv, MatchTypeOK
  <2>2. new \in Matching /\ new.pc = "lookup" /\ new.to = to
    BY <2>1 DEF Matching
  <2> HIDE DEF new
  <2> QED BY <2>1, <2>2 DEF Becomes, Minds, Inviting, Answering
<1>3. ASSUME NEW i \in InvitationIds, StartResponse(h, i) PROVE \E new : Becomes(h, new)
  <2> DEFINE new == [matching[h] EXCEPT !.pc = "delete", !.inv = i]
  <2>1. matching' = [matching EXCEPT ![h] = new] /\ matching[h] \in Matching
        /\ invitation[i] # NoInvitation /\ invitation[i].to = Owner[h]
    BY <1>3 DEF StartResponse, MayAnswer, MatchInv, MatchTypeOK, PendingIsMade
  <2>2. new \in Matching /\ new.pc = "delete" /\ new.inv = i
    BY <2>1 DEF Matching
  <2> HIDE DEF new
  <2> QED BY <1>1, <2>1, <2>2 DEF Becomes, Minds, Inviting, Answering
<1>4. CASE LookupInvitee(h) \/ CheckInviter(h) \/ CheckInvitee(h) \/ Accept(h)
  <2>1. \/ Finished(h)
        \/ \E pc \in {"inviter", "invitee", "save"} : Step(h, pc) /\ matching[h].pc \in Inviting
        \/ Step(h, "create") /\ matching[h].pc \in Answering
    BY <1>4 DEF LookupInvitee, CheckInviter, CheckInvitee, Accept, Matches, Inviting, Answering
  <2> QED BY <1>1, <2>1, StepBecomes, FinishedBecomes
<1>5. CASE Decline(h) \/ \E sid \in SessionIds : CreateAccepted(h, sid)
  BY <1>5, FinishedBecomes DEF Decline, CreateAccepted
<1> QED BY <1>1, <1>2, <1>3, <1>4, <1>5

\* The step that makes one.
LEMMA SaveMatching ==
  ASSUME MatchInv, NEW h \in Handlers, NEW i \in InvitationIds, SaveInvitation(h, i)
  PROVE  /\ Becomes(h, NotMatching)
         /\ \E terms \in Invitation : /\ invitation' = [invitation EXCEPT ![i] = terms]
                                      /\ terms.from # terms.to
<1> DEFINE terms == [from |-> Owner[h], to |-> matching[h].to]
<1>1. Becomes(h, NotMatching) /\ invitation' = [invitation EXCEPT ![i] = terms]
  BY FinishedBecomes DEF SaveInvitation
<1>2. matching[h].to \in Participants \ {Owner[h]}
  BY DEF SaveInvitation, Matches, MatchInv, Minds, Inviting
<1>3. terms \in Invitation /\ terms.from # terms.to
  BY <1>2, OwnerAssumption DEF Invitation
<1> HIDE DEF terms
<1> QED BY <1>1, <1>3

\* Every step of matchmaking keeps its types, what its handlers rely on, and
\* the invitations that were made.
MatchStepKeeps ==
  /\ Remembered /\ NobodyInvitesThemselves' /\ PendingIsMade'
  /\ \A h \in Handlers : Minds(matching[h], Owner[h], invitation)'

LEMMA BecomesKeeps ==
  ASSUME MatchInv, NEW h \in Handlers, NEW new, Becomes(h, new),
         \A i \in InvitationIds : invitation[i] # NoInvitation => invitation'[i] = invitation[i]
  PROVE  /\ matching' \in [Handlers -> Matching]
         /\ \A g \in Handlers : Minds(matching[g], Owner[g], invitation)'
<1>1. matching' \in [Handlers -> Matching]
  BY DEF Becomes, MatchInv, MatchTypeOK
<1>2. ASSUME NEW g \in Handlers PROVE Minds(matching'[g], Owner[g], invitation')
  <2>1. CASE g = h
    BY <2>1 DEF Becomes, MatchInv, MatchTypeOK
  <2>2. CASE g # h
    <3>1. matching'[g] = matching[g] /\ Minds(matching[g], Owner[g], invitation)
      BY <2>2 DEF Becomes, MatchInv, MatchTypeOK
    <3> QED BY <3>1 DEF Minds
  <2> QED BY <2>1, <2>2
<1> QED BY <1>1, <1>2

LEMMA AnswersType ==
  ASSUME MatchInv, NEW h \in Handlers,
         MatchOnly(h) \/ \E sid \in SessionIds : CreateAccepted(h, sid)
  PROVE  /\ answers' \in [InvitationIds -> SUBSET (Handlers \X (SessionIds \cup {Declined}))]
         /\ \A i \in InvitationIds : answers[i] \subseteq answers'[i]
<1>1. \/ UNCHANGED answers
      \/ \E a \in SessionIds \cup {Declined} :
           answers' = [answers EXCEPT ![matching[h].inv] = @ \cup {<<h, a>>}]
  BY DEF MatchOnly, StartInvitation, LookupInvitee, CheckInviter, CheckInvitee, SaveInvitation,
         StartResponse, Decline, Accept, CreateAccepted
<1> QED BY <1>1 DEF MatchInv, MatchTypeOK

LEMMA MatchStepsKeep ==
  ASSUME MatchInv, NEW h \in Handlers,
         MatchOnly(h) \/ \E sid \in SessionIds : CreateAccepted(h, sid),
         TypeInv'
  PROVE  MatchTypeOK' /\ MatchStepKeeps
<1>1. /\ answers' \in [InvitationIds -> SUBSET (Handlers \X (SessionIds \cup {Declined}))]
      /\ \A i \in InvitationIds : answers[i] \subseteq answers'[i]
  BY AnswersType
<1>2. CASE \E i \in InvitationIds : SaveInvitation(h, i)
  <2>1. PICK i \in InvitationIds : SaveInvitation(h, i)
    BY <1>2
  <2>2. PICK terms \in Invitation : /\ invitation' = [invitation EXCEPT ![i] = terms]
                                    /\ terms.from # terms.to
    BY <2>1, SaveMatching
  <2>3. invitation[i] = NoInvitation /\ pending' = pending \cup {i}
    BY <2>1 DEF SaveInvitation
  <2>4. /\ invitation' \in [InvitationIds -> Invitation \cup {NoInvitation}]
        /\ invitation'[i] # NoInvitation
        /\ \A j \in InvitationIds : invitation[j] # NoInvitation => invitation'[j] = invitation[j]
    BY <2>2, <2>3, NotAnInvitation DEF MatchInv, MatchTypeOK
  <2>5. NobodyInvitesThemselves' /\ PendingIsMade'
    BY <2>2, <2>3, <2>4, NotAnInvitation
       DEF MatchInv, MatchTypeOK, NobodyInvitesThemselves, PendingIsMade
  <2>6. /\ matching' \in [Handlers -> Matching]
        /\ \A g \in Handlers : Minds(matching[g], Owner[g], invitation)'
    BY <2>1, <2>4, SaveMatching, BecomesKeeps
  <2> QED BY <1>1, <2>3, <2>4, <2>5, <2>6
          DEF MatchTypeOK, MatchStepKeeps, Remembered, MatchInv, TypeInv
<1>3. CASE ~\E i \in InvitationIds : SaveInvitation(h, i)
  <2>1. UNCHANGED invitation /\ \E new : Becomes(h, new)
    BY <1>3, QuietMatching DEF MatchOnly
  <2>2. pending' \subseteq pending
    BY <1>3 DEF MatchOnly, StartInvitation, LookupInvitee, CheckInviter, CheckInvitee,
       StartResponse, Decline, Accept, CreateAccepted, Without
  <2>3. NobodyInvitesThemselves' /\ PendingIsMade'
    BY <2>1, <2>2 DEF MatchInv, NobodyInvitesThemselves, PendingIsMade
  <2>4. /\ matching' \in [Handlers -> Matching]
        /\ \A g \in Handlers : Minds(matching[g], Owner[g], invitation)'
    BY <2>1, BecomesKeeps
  <2> QED BY <1>1, <2>1, <2>2, <2>3, <2>4
          DEF MatchTypeOK, MatchStepKeeps, Remembered, MatchInv, TypeInv
<1> QED BY <1>2, <1>3

-----------------------------------------------------------------------------
(* Games are agreed upon.                                                  *)

\* What GamesAreAgreed says of one session.
Agreed(sid) ==
  sessions[sid] # NoSession =>
    LET s == sessions[sid]
    IN  /\ s.x # s.o
        /\ \E i \in InvitationIds, h \in Handlers :
             /\ invitation[i] = [from |-> s.x, to |-> s.o]
             /\ Owner[h] = s.o /\ <<h, sid>> \in answers[i]

\* What was agreed stays agreed: sessions keep their players.
LEMMA AgreedStays ==
  ASSUME GamesAreAgreed, Remembered, NEW sid \in SessionIds, sessions[sid] # NoSession,
         sessions'[sid].x = sessions[sid].x, sessions'[sid].o = sessions[sid].o,
         NoInvitation \notin Invitation, sessions[sid] \in Session
  PROVE  Agreed(sid)'
<1> DEFINE s == sessions[sid]
<1>1. PICK i \in InvitationIds, h \in Handlers :
        /\ invitation[i] = [from |-> s.x, to |-> s.o]
        /\ Owner[h] = s.o /\ <<h, sid>> \in answers[i] /\ s.x # s.o
  BY DEF GamesAreAgreed
<1>2. invitation[i] # NoInvitation
  BY <1>1 DEF Invitation, Session
<1> QED BY <1>1, <1>2 DEF Remembered, Agreed

\* The session that an accepted invitation starts.
LEMMA AcceptedIsAgreed ==
  ASSUME MatchInv, NEW h \in Handlers, NEW sid \in SessionIds, CreateAccepted(h, sid)
  PROVE  Agreed(sid)' /\ \A t \in SessionIds \ {sid} : sessions'[t] = sessions[t]
<1> DEFINE i == matching[h].inv
           x == invitation[i].from
<1>1. /\ i \in InvitationIds /\ invitation[i] \in Invitation /\ invitation[i].to = Owner[h]
      /\ x \in Participants \ {Owner[h]}
  BY AcceptedTerms DEF CreateAccepted
<1>2. sessions' = [sessions EXCEPT ![sid] = NewSession(x, Owner[h])]
  BY <1>1 DEF CreateAccepted, Create
<1>3. sessions'[sid] = NewSession(x, Owner[h])
      /\ \A t \in SessionIds \ {sid} : sessions'[t] = sessions[t]
  BY <1>2 DEF MatchInv, TypeInv, TypeOK
<1>4. <<h, sid>> \in answers'[i] /\ invitation' = invitation
  BY <1>1 DEF CreateAccepted, MatchInv, MatchTypeOK
<1>5. invitation'[i] = [from |-> x, to |-> Owner[h]]
  BY <1>1, <1>4 DEF Invitation
<1>6. sessions'[sid].x = x /\ sessions'[sid].o = Owner[h]
  BY <1>3 DEF NewSession
<1> HIDE DEF i, x
<1> QED BY <1>1, <1>3, <1>4, <1>5, <1>6 DEF Agreed

LEMMA NextMatchInv == MatchInv /\ [MatchNext]_<<vars, matchVars>> => MatchInv'
<1> SUFFICES ASSUME MatchInv, [MatchNext]_<<vars, matchVars>> PROVE MatchInv'
  OBVIOUS
<1>1. TypeInv'
  BY MatchSimulates, NextTypeInv DEF MatchInv
<1>2. ASSUME MatchTypeOK', MatchStepKeeps, \A sid \in SessionIds : Agreed(sid)'
      PROVE  MatchInv'
  BY <1>1, <1>2 DEF MatchInv, MatchStepKeeps, GamesAreAgreed, Agreed
<1>3. ASSUME Remembered, NEW sid \in SessionIds, sessions[sid] # NoSession,
             sessions'[sid].x = sessions[sid].x, sessions'[sid].o = sessions[sid].o
      PROVE  Agreed(sid)'
  BY <1>3, AgreedStays, NotAnInvitation DEF MatchInv, TypeInv, TypeOK
<1>4. ASSUME NEW h \in Handlers, MatchOnly(h) PROVE MatchInv'
  <2>1. UNCHANGED sessions
    BY <1>4, MatchOnlyStutters DEF vars
  <2>2. MatchTypeOK' /\ MatchStepKeeps
    BY <1>1, <1>4, MatchStepsKeep
  <2>3. \A sid \in SessionIds : Agreed(sid)'
    <3> SUFFICES ASSUME NEW sid \in SessionIds PROVE Agreed(sid)'
      OBVIOUS
    <3>1. CASE sessions[sid] = NoSession
      BY <2>1, <3>1 DEF Agreed
    <3>2. CASE sessions[sid] # NoSession
      BY <1>3, <2>1, <2>2, <3>2 DEF MatchStepKeeps
    <3> QED BY <3>1, <3>2
  <2> QED BY <1>2, <2>2, <2>3
<1>5. ASSUME NEW h \in Handlers, NEW sid \in SessionIds, CreateAccepted(h, sid) PROVE MatchInv'
  <2>1. MatchTypeOK' /\ MatchStepKeeps
    BY <1>1, <1>5, MatchStepsKeep
  <2>2. Agreed(sid)' /\ \A t \in SessionIds \ {sid} : sessions'[t] = sessions[t]
    BY <1>5, AcceptedIsAgreed
  <2>3. ASSUME NEW t \in SessionIds \ {sid} PROVE Agreed(t)'
    <3>1. CASE sessions[t] = NoSession
      BY <2>2, <3>1 DEF Agreed
    <3>2. CASE sessions[t] # NoSession
      BY <1>3, <2>1, <2>2, <3>2 DEF MatchStepKeeps
    <3> QED BY <3>1, <3>2
  <2> QED BY <1>2, <2>1, <2>2, <2>3
<1>6. ASSUME UNCHANGED matchVars,
             \A sid \in SessionIds :
               /\ sessions'[sid] = NoSession <=> sessions[sid] = NoSession
               /\ sessions[sid] # NoSession =>
                    sessions'[sid].x = sessions[sid].x /\ sessions'[sid].o = sessions[sid].o
      PROVE  MatchInv'
  <2>1. MatchTypeOK' /\ MatchStepKeeps
    BY <1>1, <1>6 DEF MatchInv, MatchTypeOK, MatchStepKeeps, matchVars, TypeInv, Remembered,
       NobodyInvitesThemselves, PendingIsMade
  <2>2. ASSUME NEW sid \in SessionIds PROVE Agreed(sid)'
    <3>1. CASE sessions[sid] = NoSession
      BY <1>6, <3>1 DEF Agreed
    <3>2. CASE sessions[sid] # NoSession
      BY <1>3, <1>6, <2>1, <3>2 DEF MatchStepKeeps
    <3> QED BY <3>1, <3>2
  <2> QED BY <1>2, <2>1, <2>2
<1>7. ASSUME NEW h \in Handlers, SessionOnly(h) PROVE MatchInv'
  BY <1>6, <1>7, PlayersKept DEF SessionOnly, MatchInv
<1>8. CASE UNCHANGED <<vars, matchVars>>
  BY <1>6, <1>8 DEF vars
<1> QED BY <1>4, <1>5, <1>7, <1>8, MatchNextCases

\* Nobody is drawn into a game: whoever plays O accepted an invitation of X, who
\* is somebody else.
THEOREM GamesAgreed == MatchSpec => []GamesAreAgreed
<1>1. MatchInv => GamesAreAgreed
  BY DEF MatchInv
<1> QED BY <1>1, InitMatchInv, NextMatchInv, PTL DEF MatchSpec

\* The variables of matchmaking are always well typed.
THEOREM MatchTypesHold == MatchSpec => []MatchTypeOK
<1>1. MatchInv => MatchTypeOK
  BY DEF MatchInv
<1> QED BY <1>1, InitMatchInv, NextMatchInv, PTL DEF MatchSpec

\* Matchmaking implements the session manager's specification.
THEOREM MatchmakingImplementsSession == MatchSpec => SessionManagerSteps
<1>1. MatchInit => Init
  BY DEF MatchInit
<1> QED BY <1>1, InitMatchInv, NextMatchInv, MatchSimulates, PTL
        DEF MatchSpec, SessionManagerSteps, Spec

\* So what is proved of the session manager holds behind matchmaking.
THEOREM RecoveryBehindMatchmaking == MatchSpec => []RecoverIsCurrent
<1> QED BY MatchmakingImplementsSession, RecoveryCorrect, PTL DEF SessionManagerSteps

\* And, when no participant has two handlers, the games that matchmaking starts
\* are counted right.
THEOREM GaugeBehindMatchmaking ==
  ASSUME OneHandlerEach
  PROVE  MatchSpec => []GaugeSettles
<1> QED BY MatchmakingImplementsSession, GaugeIsRight, PTL DEF SessionManagerSteps

-----------------------------------------------------------------------------
(* A connection answers an invitation once.                                *)

\* h has begun to answer i and is not done.
Answers(h, i) == matching[h].pc \in Answering /\ matching[h].inv = i

\* An answer closes the invitation: nobody can begin to answer it any more, and
\* those who have begun have not answered yet.
AnswersClose ==
  \A i \in InvitationIds :
    /\ answers[i] # {} => i \notin pending /\ invitation[i] # NoInvitation
    /\ \A h \in Handlers : Answers(h, i) => \A a \in answers[i] : a[1] # h

\* Who is about to create the session has deleted the invitation.
DeletedFirst == \A h \in Handlers : Matches(h, "create") => matching[h].inv \notin pending

AnswerInv == MatchInv /\ AnswersClose /\ DeletedFirst /\ OneAnswerEach

\* The steps that record no answer: if h is answering after the step, it was
\* before, or begins with an invitation that is pending.
LEMMA NoAnswerKeeps ==
  ASSUME AnswerInv, NEW h \in Handlers, UNCHANGED answers,
         NEW new, matching' = [matching EXCEPT ![h] = new],
         new.pc \in Answering => \/ matching[h].pc \in Answering /\ new.inv = matching[h].inv
                                 \/ new.inv \in pending,
         new.pc = "create" => new.inv \notin pending',
         \A i \in InvitationIds : invitation[i] # NoInvitation => invitation'[i] = invitation[i],
         \A i \in pending' \ pending : invitation[i] = NoInvitation
  PROVE  AnswersClose' /\ DeletedFirst' /\ OneAnswerEach'
<1>1. \A g \in Handlers : matching'[g] = IF g = h THEN new ELSE matching[g]
  BY DEF AnswerInv, MatchInv, MatchTypeOK
<1>2. ASSUME NEW g \in Handlers, matching[g].pc \in Answering
      PROVE  invitation[matching[g].inv] # NoInvitation
  BY <1>2 DEF AnswerInv, MatchInv, Minds
<1>3. DeletedFirst'
  BY <1>1, <1>2 DEF AnswerInv, DeletedFirst, Matches, Answering
<1>4. ASSUME NEW i \in InvitationIds
      PROVE  /\ answers[i] # {} => i \notin pending' /\ invitation'[i] # NoInvitation
             /\ \A g \in Handlers : Answers(g, i)' => \A a \in answers[i] : a[1] # g
  <2>1. answers[i] # {} => i \notin pending' /\ invitation'[i] # NoInvitation
    BY DEF AnswerInv, AnswersClose
  <2>2. ASSUME NEW g \in Handlers, Answers(g, i)', NEW a \in answers[i] PROVE a[1] # g
    <3>1. Answers(g, i) \/ i \in pending
      BY <1>1, <2>2 DEF Answers
    <3>2. Answers(g, i)
      BY <3>1, <2>2 DEF AnswerInv, AnswersClose
    <3> QED BY <2>2, <3>2 DEF AnswerInv, AnswersClose
  <2> QED BY <2>1, <2>2
<1>5. AnswersClose'
  BY <1>4 DEF AnswersClose
<1>6. OneAnswerEach'
  BY DEF AnswerInv, OneAnswerEach
<1> QED BY <1>3, <1>5, <1>6

\* Inviting somebody.
LEMMA InvitingKeeps ==
  ASSUME AnswerInv, NEW h \in Handlers,
         \/ \E to \in Participants : StartInvitation(h, to)
         \/ LookupInvitee(h) \/ CheckInviter(h) \/ CheckInvitee(h)
         \/ \E i \in InvitationIds : SaveInvitation(h, i)
  PROVE  AnswersClose' /\ DeletedFirst' /\ OneAnswerEach'
<1>1. \E new : matching' = [matching EXCEPT ![h] = new] /\ new.pc \notin Answering
  <2>1. ASSUME NEW to \in Participants, StartInvitation(h, to)
        PROVE  \E new : matching' = [matching EXCEPT ![h] = new] /\ new.pc \notin Answering
    <3> DEFINE new == [matching[h] EXCEPT !.pc = "lookup", !.to = to]
    <3>1. matching' = [matching EXCEPT ![h] = new]
      BY <2>1 DEF StartInvitation, AnswerInv, MatchInv, MatchTypeOK
    <3>2. new.pc = "lookup"
      BY DEF AnswerInv, MatchInv, MatchTypeOK, Matching
    <3> HIDE DEF new
    <3> QED BY <3>1, <3>2 DEF Answering
  <2>2. ASSUME NEW pc \in {"inviter", "invitee", "save"}, Step(h, pc)
        PROVE  \E new : matching' = [matching EXCEPT ![h] = new] /\ new.pc \notin Answering
    <3> DEFINE new == [matching[h] EXCEPT !.pc = pc]
    <3>1. matching' = [matching EXCEPT ![h] = new]
      BY <2>2 DEF Step, AnswerInv, MatchInv, MatchTypeOK
    <3>2. new.pc = pc
      BY DEF AnswerInv, MatchInv, MatchTypeOK, Matching
    <3> HIDE DEF new
    <3> QED BY <3>1, <3>2 DEF Answering
  <2>3. CASE Finished(h)
    <3>1. NotMatching.pc \notin Answering
      BY DEF NotMatching, Answering
    <3> QED BY <2>3, <3>1 DEF Finished
  <2> QED BY <2>1, <2>2, <2>3 DEF LookupInvitee, CheckInviter, CheckInvitee, SaveInvitation
<1>2. UNCHANGED answers
  BY DEF StartInvitation, LookupInvitee, CheckInviter, CheckInvitee, SaveInvitation
<1>3. /\ \A i \in InvitationIds : invitation[i] # NoInvitation => invitation'[i] = invitation[i]
      /\ \A i \in pending' \ pending : invitation[i] = NoInvitation
  BY DEF StartInvitation, LookupInvitee, CheckInviter, CheckInvitee, SaveInvitation,
         AnswerInv, MatchInv, MatchTypeOK
<1>4. PICK new : matching' = [matching EXCEPT ![h] = new] /\ new.pc \notin Answering
  BY <1>1
<1>5. new.pc # "create"
  BY <1>4 DEF Answering
<1> QED BY <1>2, <1>3, <1>4, <1>5, NoAnswerKeeps

\* Reading an invitation, which is pending then.
LEMMA StartResponseKeeps ==
  ASSUME AnswerInv, NEW h \in Handlers, NEW i \in InvitationIds, StartResponse(h, i)
  PROVE  AnswersClose' /\ DeletedFirst' /\ OneAnswerEach'
<1> DEFINE new == [matching[h] EXCEPT !.pc = "delete", !.inv = i]
<1>1. matching' = [matching EXCEPT ![h] = new] /\ UNCHANGED <<invitation, pending, answers>>
      /\ i \in pending
  BY DEF StartResponse, AnswerInv, MatchInv, MatchTypeOK
<1>2. new.pc = "delete" /\ new.inv = i
  BY DEF AnswerInv, MatchInv, MatchTypeOK, Matching
<1> HIDE DEF new
<1> QED BY <1>1, <1>2, NoAnswerKeeps

\* Deleting it on the way to Create.
LEMMA AcceptKeeps ==
  ASSUME AnswerInv, NEW h \in Handlers, Accept(h)
  PROVE  AnswersClose' /\ DeletedFirst' /\ OneAnswerEach'
<1> DEFINE new == [matching[h] EXCEPT !.pc = "create"]
<1>1. matching' = [matching EXCEPT ![h] = new] /\ UNCHANGED <<invitation, answers>>
      /\ pending' = pending \ {matching[h].inv} /\ matching[h].pc \in Answering
  BY DEF Accept, Step, Without, Matches, AnswerInv, MatchInv, MatchTypeOK, Answering
<1>2. new.pc = "create" /\ new.inv = matching[h].inv
  BY DEF AnswerInv, MatchInv, MatchTypeOK, Matching
<1> HIDE DEF new
<1> QED BY <1>1, <1>2, NoAnswerKeeps

\* The answer.  Another handler of the invitee may have given one, but not this
\* one, and it has forgotten the invitation afterwards.
LEMMA AnswerKeeps ==
  ASSUME AnswerInv, NEW h \in Handlers, NEW b, matching[h].pc \in Answering,
         answers' = [answers EXCEPT ![matching[h].inv] = @ \cup {<<h, b>>}],
         Finished(h), UNCHANGED invitation, pending' \subseteq pending,
         matching[h].inv \notin pending'
  PROVE  AnswersClose' /\ DeletedFirst' /\ OneAnswerEach'
<1>1. PICK i \in InvitationIds :
        i = matching[h].inv /\ invitation[i] # NoInvitation /\ Answers(h, i)
  BY DEF AnswerInv, MatchInv, Minds, Answers
<1>2. \A g \in Handlers : matching'[g] = IF g = h THEN NotMatching ELSE matching[g]
  BY DEF Finished, AnswerInv, MatchInv, MatchTypeOK
<1>3. NotMatching.pc = "idle"
  BY DEF NotMatching
<1>4. /\ answers'[i] = answers[i] \cup {<<h, b>>}
      /\ \A j \in InvitationIds \ {i} : answers'[j] = answers[j]
  BY <1>1 DEF AnswerInv, MatchInv, MatchTypeOK
<1>5. \A g \in Handlers, j \in InvitationIds : Answers(g, j)' => g # h /\ Answers(g, j)
  BY <1>2, <1>3 DEF Answers, Answering
<1>6. \A a \in answers[i] : a[1] # h
  BY <1>1 DEF AnswerInv, AnswersClose
<1>7. OneAnswerEach'
  BY <1>4, <1>6 DEF AnswerInv, OneAnswerEach
<1>8. AnswersClose'
  BY <1>1, <1>4, <1>5 DEF AnswerInv, AnswersClose
<1>9. DeletedFirst'
  BY <1>2, <1>3 DEF AnswerInv, DeletedFirst, Matches
<1> QED BY <1>7, <1>8, <1>9

LEMMA NextAnswerInv == AnswerInv /\ [MatchNext]_<<vars, matchVars>> => AnswerInv'
<1> SUFFICES ASSUME AnswerInv, [MatchNext]_<<vars, matchVars>>
             PROVE  AnswersClose' /\ DeletedFirst' /\ OneAnswerEach'
  BY NextMatchInv DEF AnswerInv
<1>1. CASE UNCHANGED matchVars
  BY <1>1 DEF matchVars, AnswerInv, AnswersClose, DeletedFirst, OneAnswerEach, Answers, Matches
<1>2. ASSUME NEW h \in Handlers, Decline(h)
      PROVE  AnswersClose' /\ DeletedFirst' /\ OneAnswerEach'
  <2>1. matching[h].pc \in Answering /\ pending' = pending \ {matching[h].inv}
    BY <1>2 DEF Decline, Without, Matches, Answering
  <2> QED BY <1>2, <2>1, AnswerKeeps DEF Decline
<1>3. ASSUME NEW h \in Handlers, NEW sid \in SessionIds, CreateAccepted(h, sid)
      PROVE  AnswersClose' /\ DeletedFirst' /\ OneAnswerEach'
  <2>1. matching[h].pc \in Answering /\ pending' = pending /\ matching[h].inv \notin pending
    BY <1>3 DEF CreateAccepted, Matches, Answering, AnswerInv, DeletedFirst
  <2> QED BY <1>3, <2>1, AnswerKeeps DEF CreateAccepted
<1>4. ASSUME NEW h \in Handlers, MatchOnly(h)
      PROVE  AnswersClose' /\ DeletedFirst' /\ OneAnswerEach'
  BY <1>2, <1>4, InvitingKeeps, StartResponseKeeps, AcceptKeeps DEF MatchOnly
<1> QED BY <1>1, <1>3, <1>4, MatchNextCases DEF SessionOnly

\* However many connections the invitee has, and however their calls overlap,
\* each of them answers an invitation at most once.
THEOREM ConnectionsAnswerOnce == MatchSpec => []OneAnswerEach
<1>1. MatchInit => AnswerInv
  BY InitMatchInv
     DEF MatchInit, AnswerInv, AnswersClose, DeletedFirst, OneAnswerEach, Matches, NotMatching
<1>2. AnswerInv => OneAnswerEach
  BY DEF AnswerInv
<1> QED BY <1>1, <1>2, NextAnswerInv, PTL DEF MatchSpec

=============================================================================
