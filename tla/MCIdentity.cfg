CONSTANTS
  first = first
  second = second
  Ids = {first, second}
  NoId = NoId
  maxReconnectAttempts = 3
  baseReconnectDelay = 2
  maxReconnectDelay = 3
SPECIFICATION ClientSpec
INVARIANTS KeepsIdentity
CHECK_DEADLOCK FALSE
