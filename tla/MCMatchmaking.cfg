CONSTANTS
  alice = alice
  bob = bob
  carol = carol
  hAlice = hAlice
  hBob = hBob
  hBobAgain = hBobAgain
  hCarol = hCarol
  Participants = {alice, bob, carol}
  Handlers = {hAlice, hBob, hCarol}
  Owner <- MCOwner
  SessionIds = {s1, s2}
  InvitationIds = {i1, i2}
  PositionsAt <- MCPositionsAt
  NoSession = NoSession
  NoOne = NoOne
  NoInvitation = NoInvitation
SYMMETRY MCSymmetry
SPECIFICATION MatchSpec
INVARIANTS MatchTypeOK GamesAreAgreed RecoverIsCurrent GaugeSettles
PROPERTIES SessionManagerSteps
CHECK_DEADLOCK FALSE
