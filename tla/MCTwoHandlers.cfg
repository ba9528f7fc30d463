CONSTANTS
  alice = alice
  bob = bob
  hAlice = hAlice
  hAliceAgain = hAliceAgain
  hBob = hBob
  s1 = s1
  Participants = {alice, bob}
  Handlers = {hAlice, hAliceAgain, hBob}
  Owner <- MCOwner
  SessionIds = {s1}
  PositionsAt <- MCPositionsAt
  NoSession = NoSession
  NoOne = NoOne
  Watched = s1
SPECIFICATION Spec
INVARIANTS MarksAlternate
CHECK_DEADLOCK FALSE
