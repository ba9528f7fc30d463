CONSTANTS
  alice = alice
  bob = bob
  carol = carol
  hAlice = hAlice
  hBob = hBob
  hBobAgain = hBobAgain
  hCarol = hCarol
  Participants = {alice, bob}
  Handlers = {hAlice, hBob}
  Owner <- MCOwner
  SessionIds = {s1, s2}
  InvitationIds = {i1, i2}
  PositionsAt <- MCPositionsAt
  NoSession = NoSession
  NoOne = NoOne
  NoInvitation = NoInvitation
SYMMETRY MCSymmetry
SPECIFICATION MatchSpec
INVARIANTS PlayersRecover
CHECK_DEADLOCK FALSE
