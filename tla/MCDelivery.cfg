CONSTANTS
  alice = alice
  bob = bob
  hAlice = hAlice
  hBob = hBob
  hBobAgain = hBobAgain
  s1 = s1
  Participants = {alice, bob}
  Handlers = {hAlice, hBob, hBobAgain}
  Owner <- MCOwner
  SessionIds = {s1}
  PositionsAt <- MCPositionsAt
  NoSession = NoSession
  NoOne = NoOne
  QueueSize = 3
  MaxClicks = 1
  Inviters = {bob}
  ClickAt <- MCClickAt
  Overlap = FALSE
  Crowded = {hBob, hBobAgain}
  NoHandler = NoHandler
  NoView = NoView
SYMMETRY MCSymmetry
SPECIFICATION DeliverySpec
INVARIANTS DeliveryTypeOK  ViewIsPast NothingIsWithheld
CHECK_DEADLOCK FALSE
