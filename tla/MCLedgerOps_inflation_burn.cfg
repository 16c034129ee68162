CONSTANTS
  root = root
  alice = alice
  fee = fee
  NoAccount = NoAccount
  Accounts <- MCAccounts
  FeeDest = fee
  BaseReserve = 1
  BaseFee = 1
  MaxInt64 = 12
  SeqPerLedger = 2
  Amounts = {0, 1, 2, 4}
  MaxOps = 4
  MaxLedgerSeq = 3
  Versions = {13, 15, 16}
  Trillion = 8
  InflationRateTrillionths = 2
  InflationWinMinPercent = 2
  MinVoterBalance = 2
  Genesis <- MCGenesisFeeFull
  TxBodies <- MCSingleOpBodies
SPECIFICATION Spec
\* The fee destination exists, but its buying liabilities leave no room
\* for the fee pool: the Kinesis inflation ignores addBalance's failure.
CHECK_DEADLOCK FALSE
INVARIANT
  LumensConserved
