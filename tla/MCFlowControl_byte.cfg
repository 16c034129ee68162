CONSTANTS
  a = a
  b = b
  Peers <- MCPeers
  Policy = "BYTE"
  PEER_FLOOD_READING_CAPACITY = 0
  PEER_READING_CAPACITY = 0
  PEER_FLOOD_READING_CAPACITY_BYTES <- MCByteFlood
  NoTotal = NoTotal
  MsgSizes <- MCByteSizes
  MaxInFlight = 2
  Hostile <- MCNoHostile
  MaxCredit = 0
  GrantOnlyOnRecovery = FALSE
SPECIFICATION Spec
INVARIANTS
  TypeOK
  NoFatalAssertion
  HonestPeerNeverDropped
  FloodCreditConserved
PROPERTIES
  FloodCreditRecurs
