CONSTANTS
  root = root
  alice = alice
  fee = fee
  NoAccount = NoAccount
  Accounts <- MCAccounts
  FeeDest = fee
  BaseReserve = 1
  BaseFee = 1
  MaxInt64 = 12
  SeqPerLedger = 2
  Amounts = {0, 1, 2, 4}
  MaxOps = 3
  MaxLedgerSeq = 3
  Versions = {13, 15, 16}
  Trillion = 8
  InflationRateTrillionths = 2
  InflationWinMinPercent = 2
  MinVoterBalance = 2
  Genesis <- MCGenesis
  TxBodies <- MCTxBodies
SPECIFICATION Spec
\* Every behaviour ends once MaxOps operations are applied and
\* MaxLedgerSeq is reached; the ledger itself never stops.
CHECK_DEADLOCK FALSE
INVARIANTS
  TypeOK
  LumensConserved
  NoSequenceReplay
  BalancesWithinLimit
  NoAbort
PROPERTIES
  LumenLedgerSpec
