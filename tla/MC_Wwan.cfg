SPECIFICATION Spec

CONSTANTS
  p1 = p1
  p2 = p2
  None = None
  Procs = {p1}
  wMaxCommand = 2
  ReadSizes = {1, 2}
  IntFaults = {}
  SubmitFaults = {"ENOMEM"}
  CommandStatus = {"ok", "err"}
  CoreOps = {"autosuspend", "disconnect"}
  HasWwan = TRUE
  MaxNotes = 1
  MaxCoreOps = 2
  CallsOf <- WriteClose
  Responses <- Data

CHECK_DEADLOCK FALSE
INVARIANTS
  ModeExclusive
  PmBalanced
