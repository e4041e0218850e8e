SPECIFICATION FairSpec

CONSTANTS
  p1 = p1
  p2 = p2
  None = None
  Procs = {p1, p2}
  wMaxCommand = 2
  ReadSizes = {1, 2}
  IntFaults = {}
  SubmitFaults = {}
  CommandStatus = {"ok", "err"}
  CoreOps = {"disconnect"}
  HasWwan = FALSE
  MaxNotes = 1
  MaxCoreOps = 1
  CallsOf <- ReadWrite
  Responses <- Data

CHECK_DEADLOCK FALSE
PROPERTIES
  DisconnectEnds
