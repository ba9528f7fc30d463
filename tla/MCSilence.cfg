CONSTANTS
  alice = alice
  first = first
  second = second
  Participants = {alice}
  Connections = {first, second}
  Identity <- MCIdentity
  NoConnection = NoConnection
  NoOne = NoOne
SPECIFICATION ConnFairSpec
PROPERTIES SilenceIsReaped
CHECK_DEADLOCK FALSE
