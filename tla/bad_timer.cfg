SPECIFICATION Spec
CONSTANTS
  MinPdu = 2
  MaxPdu = 4
  QueueLen = 4
INVARIANT TimerStateAsserted
CHECK_DEADLOCK FALSE
