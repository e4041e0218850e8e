SPECIFICATION FairSpec
CONSTANTS
  Faults = {"list", "ctx", "pd", "cq", "qp", "init", "buf", "mr", "lsock", "csock", "listen", "asock", "rtr", "rts", "post"}
  MayKill = TRUE
INVARIANTS
  ReleasedInOrder
  EarlySendWaits
  
PROPERTY
  BothEnd
CHECK_DEADLOCK FALSE
