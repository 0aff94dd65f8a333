SPECIFICATION Spec
CONSTANTS
  PoolSize = 2
  MaxFrames = 3
  MaxPerNtb = 2
  MaxDepth = 3
  Beyond = FALSE
INVARIANTS TypeOK BufferInOnePlace InOrderOnce LinkAgrees NothingEarly
PROPERTY AllTasksStart
PROPERTY ReceptionGoesOn
