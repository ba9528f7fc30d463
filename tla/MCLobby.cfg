CONSTANTS
  alice = alice
  bob = bob
  cAlice = cAlice
  cBob = cBob
  cBobAgain = cBobAgain
  Participants = {alice, bob}
  Connections = {cAlice, cBob, cBobAgain}
  Identity <- MCIdentity
  InvitationIds = {i1}
  Starts <- MCStarts
  Leaving = {cBob, cBobAgain}
  NoConnection = NoConnection
  NoOne = NoOne
  NoInvitation = NoInvitation
  NoRequest = NoRequest
SPECIFICATION LobbySpec
INVARIANTS LobbyTypeOK SomeoneIsListed InvitationsArrive ShownIsOpen NeverListsItself
CHECK_DEADLOCK FALSE
