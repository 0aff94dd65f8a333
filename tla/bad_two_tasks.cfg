SPECIFICATION NetifSpec
CONSTANTS
  PoolSize = 2
  MaxFrames = 3
  MaxPerNtb = 2
  MaxDepth = 3
  Beyond = TRUE
INVARIANT TransferHasBuffer
