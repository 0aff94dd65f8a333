SPECIFICATION FairSpec
CONSTANTS
  Triggers <- Dtr
  Unplugs = TRUE
  NetOutput = FALSE
  RxWired = FALSE
  MaxCmds = 0
PROPERTIES
  ClosingResumes
