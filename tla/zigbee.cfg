CONSTANTS
  QueueLen = 5
  Slots = 4
  Timeout <- ShortTimeout
  RestartAfter = 3
  MaxRequests = 4
  MaxLine = 2
  NetPeriod <- ShortPeriod
SPECIFICATION FairRfSpec
INVARIANTS TypeOK SuccessAnswered ConnectedAnswered
PROPERTIES RequestsServed SilentModuleRestarted NetLedBlinks
