------------------------------ MODULE Matchmaking ------------------------------
(***************************************************************************)
(* server/internal/matchmaking/matchmaking.go, in front of the session     *)
(* manager: invitations, and the sessions that answering them creates.     *)
(*                                                                         *)
(* Each call of the store or of the session manager is atomic and a step   *)
(* of its own; nothing is held between two of them, so the checks of       *)
(* CreateInvitation and RespondInvitation may be stale when they are used. *)
(*                                                                         *)
(*   idle -> lookup -> inviter -> invitee -> save -> idle                  *)
(*   idle -> delete -> [create ->] idle                                    *)
(***************************************************************************)
EXTENDS SessionManager

CONSTANTS
  InvitationIds,   \* the uuids of the invitations that can be created
  NoInvitation

ASSUME NoInvitationAssumption == NoInvitation \notin InvitationIds

VARIABLES
  invitation,  \* what each invitation says, kept after it has been deleted
  pending,     \* the keys of MemoryStore.invitations
  matching,    \* what each handler is executing, with its locals
  answers      \* history: which handlers answered an invitation and how

matchVars == <<invitation, pending, matching, answers>>

Invitation == [from : Participants, to : Participants]

ASSUME NotAnInvitation == NoInvitation \notin Invitation

Declined == "declined"

Matching == [pc : {"idle", "lookup", "inviter", "invitee", "save", "delete", "create"},
             to : Participants \cup {NoOne},
             inv : InvitationIds \cup {NoInvitation}]

NotMatching == [pc |-> "idle", to |-> NoOne, inv |-> NoInvitation]

MatchTypeOK ==
  /\ TypeOK
  /\ invitation \in [InvitationIds -> Invitation \cup {NoInvitation}]
  /\ pending \subseteq InvitationIds
  /\ matching \in [Handlers -> Matching]
  /\ answers \in [InvitationIds -> SUBSET (Handlers \X (SessionIds \cup {Declined}))]

MatchInit ==
  /\ Init
  /\ invitation = [i \in InvitationIds |-> NoInvitation]
  /\ pending = {}
  /\ matching = [h \in Handlers |-> NotMatching]
  /\ answers = [i \in InvitationIds |-> {}]

\* A handler executes one message at a time.
Free(h) == At(h, "idle") /\ matching[h].pc = "idle"

Matches(h, pc) == matching[h].pc = pc
Step(h, pc) == matching' = [matching EXCEPT ![h].pc = pc]
Finished(h) == matching' = [matching EXCEPT ![h] = NotMatching]

-----------------------------------------------------------------------------
(* CreateInvitation.                                                       *)

\* Mutant: nothing stops an invitation to oneself.
MayInviteAnyone(p, to) == TRUE

MayInvite(p, to) == p # to

\* invite_create is read and the sender found online.  Presence is not a
\* variable here (see Connections): its two lookups may succeed or fail.
StartInvitation(h, to) ==
  /\ Free(h)
  /\ MayInvite(Owner[h], to)
  /\ matching' = [matching EXCEPT ![h].pc = "lookup", ![h].to = to]
  /\ UNCHANGED <<vars, invitation, pending, answers>>

LookupInvitee(h) ==
  /\ Matches(h, "lookup")
  /\ Step(h, "inviter") \/ Finished(h)
  /\ UNCHANGED <<vars, invitation, pending, answers>>

\* ErrAlreadyInSession unless Recover finds nothing.
CheckInviter(h) ==
  /\ Matches(h, "inviter")
  /\ IF Recover(Owner[h]) = NoSession THEN Step(h, "invitee") ELSE Finished(h)
  /\ UNCHANGED <<vars, invitation, pending, answers>>

CheckInvitee(h) ==
  /\ Matches(h, "invitee")
  /\ IF Recover(matching[h].to) = NoSession THEN Step(h, "save") ELSE Finished(h)
  /\ UNCHANGED <<vars, invitation, pending, answers>>

\* Stored under a fresh uuid.
SaveInvitation(h, i) ==
  /\ Matches(h, "save")
  /\ invitation[i] = NoInvitation
  /\ invitation' = [invitation EXCEPT ![i] = [from |-> Owner[h], to |-> matching[h].to]]
  /\ pending' = pending \cup {i}
  /\ Finished(h)
  /\ UNCHANGED <<vars, answers>>

-----------------------------------------------------------------------------
(* RespondInvitation.                                                      *)

\* Mutant: the invitation is not deleted.
WithoutKept(invs, i) == invs

Without(invs, i) == invs \ {i}

\* Mutant: anyone may answer.
MayAnswerAnyone(p, i) == TRUE

MayAnswer(p, i) == invitation[i].to = p

\* Deleted already, or never created: ErrInvitationNotFound.
StartResponse(h, i) ==
  /\ Free(h)
  /\ i \in pending
  /\ MayAnswer(Owner[h], i)
  /\ matching' = [matching EXCEPT ![h].pc = "delete", ![h].inv = i]
  /\ UNCHANGED <<vars, invitation, pending, answers>>

\* accept is false.
Decline(h) ==
  /\ Matches(h, "delete")
  /\ pending' = Without(pending, matching[h].inv)
  /\ answers' = [answers EXCEPT ![matching[h].inv] = @ \cup {<<h, Declined>>}]
  /\ Finished(h)
  /\ UNCHANGED <<vars, invitation>>

\* accept is true.
Accept(h) ==
  /\ Matches(h, "delete")
  /\ pending' = Without(pending, matching[h].inv)
  /\ Step(h, "create")
  /\ UNCHANGED <<vars, invitation, answers>>

\* The rest of Create and the reply are the session manager's steps.
CreateAccepted(h, sid) ==
  /\ Matches(h, "create")
  /\ Create(h, sid, invitation[matching[h].inv].from, invitation[matching[h].inv].to)
  /\ answers' = [answers EXCEPT ![matching[h].inv] = @ \cup {<<h, sid>>}]
  /\ Finished(h)
  /\ UNCHANGED <<invitation, pending>>

-----------------------------------------------------------------------------

MatchInput(h) ==
  \/ \E to \in Participants : StartInvitation(h, to)
  \/ \E i \in InvitationIds : StartResponse(h, i)
  \/ /\ matching[h].pc = "idle"
     /\ \E sid \in SessionIds : \E position \in UNION {PositionsAt[n] : n \in 0..9} :
          ReceiveMove(h, sid, position)
     /\ UNCHANGED matchVars

MatchStep(h) ==
  \/ LookupInvitee(h) \/ CheckInviter(h) \/ CheckInvitee(h)
  \/ \E i \in InvitationIds : SaveInvitation(h, i)
  \/ Decline(h) \/ Accept(h)
  \/ \E sid \in SessionIds : CreateAccepted(h, sid)

MatchNext ==
  \E h \in Handlers :
    \/ MatchInput(h)
    \/ MatchStep(h)
    \/ (CreateStep(h) \/ ApplyMoveStep(h)) /\ UNCHANGED matchVars

MatchSpec == MatchInit /\ [][MatchNext]_<<vars, matchVars>>

-----------------------------------------------------------------------------
(* Correctness.                                                            *)

\* RespondInvitation reads an invitation, deletes it and acts on it in three
\* steps, and an invitee who has reconnected may be doing so twice at once.
\* However the calls overlap, a connection answers an invitation once: it starts
\* no more games than its invitee had connections that had read it.
OneAnswerEach ==
  \A i \in InvitationIds : \A a, b \in answers[i] : a[1] = b[1] => a = b

\* "The server deletes the pending invitation, creates the session" (README.md,
\* Invitation accepted, 2) or, declined, "no session is created" (Invitation
\* declined, 2): an invitation starts one game, or none.
AnsweredOnce ==
  \A i \in InvitationIds : \A a, b \in answers[i] : a[2] = b[2]

\* Nobody is drawn into a game: a session's X invited its O, another
\* participant, and O itself accepted.
GamesAreAgreed ==
  \A sid \in SessionIds : sessions[sid] # NoSession =>
    LET s == sessions[sid]
    IN  /\ s.x # s.o
        /\ \E i \in InvitationIds, h \in Handlers :
             /\ invitation[i] = [from |-> s.x, to |-> s.o]
             /\ Owner[h] = s.o /\ <<h, sid>> \in answers[i]

\* Matchmaking implements the session manager's specification: what it does to
\* the sessions between its own steps is a step of SessionManager, so Create is
\* only ever called by the invitee, for two different participants, whatever
\* became of the invitation since it was read.
SessionManagerSteps == Spec

Playing(p, sid) ==
  /\ sessions[sid] # NoSession
  /\ p \in Players(sessions[sid])
  /\ sessions[sid].status = "active"

\* "The server recognizes the returning participant, looks up their active
\* session" (README.md, Resuming Game Play): whoever plays recovers a game.
PlayersRecover ==
  \A p \in Participants : (\E sid \in SessionIds : Playing(p, sid)) => Recover(p) # NoSession

=============================================================================
