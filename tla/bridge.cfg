SPECIFICATION FairSpec
CONSTANTS
  Triggers <- DtrAndShell
  Unplugs = TRUE
  NetOutput = TRUE
  RxWired = TRUE
  MaxCmds = 1
INVARIANTS
  TypeOK
  NoLostResume
  ExclusiveAtRest
  AtMostOneLeak
  SuspendedAsleep
  DriverFollowsSender
PROPERTIES
  StrandedModbusResumes
  ClosedResumesModbus
  OpenForwards
