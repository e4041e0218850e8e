SPECIFICATION KeenSpec

CONSTANTS
  p1 = p1
  p2 = p2
  None = None
  Procs = {p1, p2}
  wMaxCommand = 2
  ReadSizes = {1, 2}
  IntFaults = {"other"}
  SubmitFaults = {}
  CommandStatus = {"ok", "err"}
  CoreOps = {}
  HasWwan = FALSE
  MaxNotes = 4
  MaxCoreOps = 0
  CallsOf <- Readers
  Responses <- Data

INVARIANTS
  
  NotificationAttended
PROPERTIES
  AnnouncedIsFetched
