CONSTANTS
  alice = alice
  bob = bob
  hAlice = hAlice
  hBob = hBob
  hBobAgain = hBobAgain
  s1 = s1
  Participants = {alice, bob}
  Handlers = {hAlice, hBob}
  Owner <- MCOwner
  SessionIds = {s1}
  PositionsAt <- MCPositionsAt
  NoSession = NoSession
  NoOne = NoOne
  QueueSize = 5
  MaxClicks = 1
  Inviters = {alice, bob}
  ClickAt <- MCClickAt
  Overlap = FALSE
  Crowded = {}
  NoHandler = NoHandler
  NoView = NoView
SPECIFICATION DeliverySpec
INVARIANTS NoStandoff
CHECK_DEADLOCK FALSE
