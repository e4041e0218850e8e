SPECIFICATION Spec

CONSTANTS
  p1 = p1
  p2 = p2
  None = None
  Procs = {p1}
  wMaxCommand = 2
  ReadSizes = {1, 2}
  IntFaults = {}
  SubmitFaults = {}
  CommandStatus = {"ok", "err"}
  CoreOps = {}
  HasWwan = FALSE
  MaxNotes = 2
  MaxCoreOps = 0
  CallsOf <- Readers
  Responses <- Stalls

CHECK_DEADLOCK FALSE
INVARIANTS
  EmptyReadLetsGo
