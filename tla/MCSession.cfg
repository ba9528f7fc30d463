CONSTANTS
  alice = alice
  bob = bob
  hAlice = hAlice
  hAliceAgain = hAliceAgain
  hBob = hBob
  s1 = s1
  Participants = {alice, bob}
  Handlers = {hAlice, hBob}
  Owner <- MCOwner
  SessionIds = {s1}
  PositionsAt <- MCPositionsAt
  NoSession = NoSession
  NoOne = NoOne
  Watched = s1
SPECIFICATION FairSpec
INVARIANTS TypeOK TurnIsALock WriteIsFresh MovesAreInTime
PROPERTIES GameRules FinishedGamesRelease
CHECK_DEADLOCK FALSE
