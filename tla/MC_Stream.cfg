SPECIFICATION Spec

CONSTANTS
  p1 = p1
  p2 = p2
  None = None
  Procs = {p1, p2}
  wMaxCommand = 2
  ReadSizes = {1, 2}
  IntFaults = {"other"}
  SubmitFaults = {"ENOMEM"}
  CommandStatus = {"ok", "err"}
  CoreOps = {}
  HasWwan = FALSE
  MaxNotes = 3
  MaxCoreOps = 0
  CallsOf <- ReadClose
  Responses <- Faulty

SYMMETRY Symmetry
CHECK_DEADLOCK FALSE
INVARIANTS
  TypeOK
  StreamInOrder
  CopyBounded
