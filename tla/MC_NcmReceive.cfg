SPECIFICATION Spec
CONSTANTS
  Devices <- MCDevices
  MaxPacket = 512
  InitialMtu = 1500
  LoopMax = 50
  FrameLens = {}
  RxMaxes = {2048}
  TxMaxes = {1000, 2048, 3500}
  Mtus = {1000}
  Stores = {"rx", "minpkt"}
  Blocks <- MCBlocks
  Memory = {TRUE, FALSE}
  RxMemory = {0, 1, 100}
  NdpToEnd = {TRUE, FALSE}
  Notices = {"up", "down", "speed", "halves", "short"}
  MaxEvents = 2
INVARIANTS
  
  
  CarrierFollows
CHECK_DEADLOCK FALSE
