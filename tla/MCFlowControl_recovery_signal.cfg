CONSTANTS
  a = a
  b = b
  Peers <- MCPeers
  Policy = "MESSAGE"
  PEER_FLOOD_READING_CAPACITY <- MCMessageFlood
  PEER_READING_CAPACITY <- MCMessageTotal
  PEER_FLOOD_READING_CAPACITY_BYTES = 0
  NoTotal = NoTotal
  MsgSizes = {1}
  MaxInFlight = 3
  Hostile <- MCNoHostile
  MaxCredit = 0
  GrantOnlyOnRecovery = FALSE
SPECIFICATION Spec
PROPERTIES
  RecoverySignalOnlyFromEmpty
