SPECIFICATION Spec
INVARIANTS
  ChangeReported
  PortFollows
