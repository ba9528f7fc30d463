CONSTANTS
  alice = alice
  first = first
  second = second
  Participants = {alice}
  Connections = {first, second}
  Identity <- MCIdentity
  NoConnection = NoConnection
  NoOne = NoOne
SPECIFICATION ConnFairSpec
INVARIANTS ConnTypeOK HubAgrees NoGhosts
PROPERTIES OnlineSilenceIsReaped
CHECK_DEADLOCK FALSE
