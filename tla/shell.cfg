SPECIFICATION Spec
CONSTANTS
  Letter <- Letters
  Command <- Table
  Atoi <- Digits
  BufferSize = 10
  MaxArgs = 4
  Channels = 1
  FifoSize = 1
INVARIANTS TypeOK AlwaysListens
PROPERTIES IsCommandLine
