CONSTANTS
  alice = alice
  bob = bob
  hAlice = hAlice
  hBob = hBob
  s1 = s1
  Participants = {alice, bob}
  Handlers = {hAlice, hBob}
  Owner <- MCOwner
  SessionIds = {s1}
  PositionsAt <- MCPositionsAt
  NoSession = NoSession
  NoOne = NoOne
  MaxAttempts = 3
  MaxStarts = 1
  NoRow = NoRow
SPECIFICATION DbSpec
INVARIANTS DbTypeOK HistoryIsTrue ResultIsTrue ResultIsKept
CHECK_DEADLOCK FALSE
