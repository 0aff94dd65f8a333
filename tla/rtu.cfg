SPECIFICATION FairSpec
CONSTANTS
  MinPdu = 2
  MaxPdu = 4
  QueueLen = 4
INVARIANTS TypeOK TimerGuardsFrame ExecutesChecked
PROPERTIES ReceiverReturns AcceptedIsExecuted FrameIsLookedAt
CHECK_DEADLOCK FALSE
