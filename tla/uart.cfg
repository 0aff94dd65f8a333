SPECIFICATION Spec
CONSTANTS
  QueueLen = 2
  MaxBytes = 4
INVARIANTS
  UndefinedOnlyIfCut
  EachByteOnce
