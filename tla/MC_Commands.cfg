SPECIFICATION FairSpec

CONSTANTS
  p1 = p1
  p2 = p2
  None = None
  Procs = {p1, p2}
  wMaxCommand = 2
  ReadSizes = {1, 2}
  IntFaults = {}
  SubmitFaults = {"ENOMEM"}
  CommandStatus = {"ok", "err"}
  CoreOps = {"suspend", "autosuspend", "reset", "disconnect"}
  HasWwan = FALSE
  MaxNotes = 0
  MaxCoreOps = 2
  CallsOf <- WriteClose
  Responses <- Data

CHECK_DEADLOCK FALSE
INVARIANTS
  CommandExclusive
  OutbufOwned
PROPERTIES
  WritesReturn
