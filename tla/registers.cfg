SPECIFICATION Spec
CONSTANTS
  BITS_UCHAR = 2
  NCoils = 4
  NRegs = 2
  READ_COILCNT_MAX = 5
  READ_REGCNT_MAX = 2
  WRITE_COILCNT_MAX = 4
  WRITE_REGCNT_MAX = 2
  Addresses = {0, 1, 3, 15}
  Counts = {0, 1, 2, 3, 5}
  HoldingCounts = {0, 1, 2, 3}
  Padding = {0}
  Words <- MixedWords
  NoRequest = NoRequest
  NoReply = NoReply
INVARIANT TypeOK
PROPERTIES BehindKept IsRegisterMap
