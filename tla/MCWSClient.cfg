CONSTANTS
  first = first
  second = second
  Ids = {first, second}
  NoId = NoId
  maxReconnectAttempts = 3
  baseReconnectDelay = 2
  maxReconnectDelay = 3
SPECIFICATION ClientSpec
INVARIANTS ClientTypeOK OneLifeline OneHeartbeat Backoff GivesUpLate
PROPERTIES ComesBack
CHECK_DEADLOCK FALSE
