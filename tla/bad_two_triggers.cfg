SPECIFICATION Spec
CONSTANTS
  Triggers <- DtrAndShell
  Unplugs = FALSE
  NetOutput = FALSE
  RxWired = FALSE
  MaxCmds = 1
INVARIANTS
  NoConflict
