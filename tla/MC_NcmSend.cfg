SPECIFICATION FairSpec
CONSTANTS
  Devices <- MCDevices
  MaxPacket = 512
  InitialMtu = 1500
  LoopMax = 50
  FrameLens = {510, 1514}
  RxMaxes = {2048}
  TxMaxes = {1552, 1657, 2048}
  Mtus = {1000}
  Stores = {"tx", "timer", "end", "mtu"}
  Blocks = {}
  Memory = {TRUE, FALSE}
  RxMemory = {0}
  NdpToEnd = {TRUE, FALSE}
  Notices = {}
  MaxEvents = 4
INVARIANTS
  TypeOK
  FramesAccounted
  BlockWellFormed
  ReadBack
  NeverStranded
  
PROPERTY
  CollectedIsSent
  NothingDropped
CHECK_DEADLOCK FALSE
