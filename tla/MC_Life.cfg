SPECIFICATION Spec

CONSTANTS
  p1 = p1
  p2 = p2
  None = None
  Procs = {p1, p2}
  wMaxCommand = 1
  ReadSizes = {1}
  IntFaults = {"stall"}
  SubmitFaults = {}
  CommandStatus = {"ok", "err"}
  CoreOps = {"suspend", "autosuspend", "reset", "disconnect"}
  HasWwan = FALSE
  MaxNotes = 1
  MaxCoreOps = 2
  CallsOf <- ReadClose
  Responses <- OneByte

SYMMETRY Symmetry
CHECK_DEADLOCK FALSE
INVARIANTS
  NoUseAfterFree
  StillAfterDisconnect
  
  NoOrphanPolling
  DeviceHeard
PROPERTIES
  LifetimeSpec
