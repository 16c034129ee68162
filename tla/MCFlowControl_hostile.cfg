CONSTANTS
  a = a
  b = b
  Peers <- MCPeers
  Policy = "BYTE"
  PEER_FLOOD_READING_CAPACITY = 0
  PEER_READING_CAPACITY = 0
  PEER_FLOOD_READING_CAPACITY_BYTES <- MCByteFlood
  NoTotal = NoTotal
  MsgSizes <- MCHostileSizes
  MaxInFlight = 2
  Hostile <- MCHostile
  MaxCredit <- MCHostileCredit
  GrantOnlyOnRecovery = FALSE
SPECIFICATION Spec
\* A hostile peer's message the flood pool cannot cover makes the honest
\* node drop the connection, after which nothing more happens.
CHECK_DEADLOCK FALSE
INVARIANTS
  TypeOK
  NoFatalAssertion
  ReceiveBufferBounded
