------------------------------ MODULE LedgerOps ------------------------------
(***************************************************************************)
(* The Kinesis ledger operations that move lumens through the fee pool:    *)
(* CreateAccountOpFrame::doApply, MergeOpFrame::doApply and both           *)
(* InflationOpFrame::doApply overloads (the _KINESIS fee-pool payout and   *)
(* the standard vote-counting one), at the ledger's protocol version,      *)
(* which protocol upgrades raise when a ledger closes.                     *)
(*                                                                         *)
(* Each doApply is an operator from the ledger to [ok, ledger]: the ledger *)
(* its LedgerTxn holds when it returns, and its boolean result.  The       *)
(* transaction layer (TransactionFrame, outside src/) charges the fee into *)
(* the fee pool, bumps the source's sequence number, applies the           *)
(* operations in order and commits them only when every doApply returns   *)
(* true; otherwise they are rolled back.  Helpers of TransactionUtils / SponsorshipUtils (addBalance,*)
(* getMinBalance, createEntryWithPossibleSponsorship) are outside src/ and *)
(* follow stellar-core's definitions.                                      *)
(*                                                                         *)
(* An account is a record: balance, seqNum, buying (native buying          *)
(* liabilities), inflationDest (the account it votes for, or NoAccount),  *)
(* and three flags standing for state other operations set:               *)
(* subEntries (numSubEntries # signers.size()), immutable (AUTH_IMMUTABLE) *)
(* and sponsoring (it sponsors reserves).  Amounts are in stroops; MaxInt64 *)
(* stands for INT64_MAX, SeqPerLedger for 2^32 (the shift of                *)
(* getStartingSequenceNumber), and close times count INFLATION_FREQUENCY   *)
(* periods from INFLATION_START_TIME.  Trillion, InflationRateTrillionths  *)
(* and InflationWinMinPercent scale the standard inflation's bigDivide      *)
(* constants down to the model's amounts.                                   *)
(***************************************************************************)
EXTENDS Naturals, FiniteSets, FiniteSetsExt, SequencesExt

CONSTANTS
  Accounts,      \* account ids
  NoAccount,     \* model value: no ledger entry for the id
  FeeDest,       \* the inflation winner: sha256(NETWORK_PASSPHRASE + "feepool")
  BaseReserve,   \* header baseReserve
  BaseFee,       \* fee per operation
  MaxInt64,      \* stands for INT64_MAX
  SeqPerLedger,  \* stands for 2^32
  Amounts,       \* startingBalance values
  MaxOps,        \* bound: operations applied
  MaxLedgerSeq,  \* bound: ledgers closed
  Versions,      \* protocol versions the ledgers can have
  Trillion,                 \* stands for TRILLION
  InflationRateTrillionths, \* stands for INFLATION_RATE_TRILLIONTHS
  InflationWinMinPercent,   \* stands for INFLATION_WIN_MIN_PERCENT
  MinVoterBalance,          \* balance an account needs for its vote to count
  Genesis,       \* the ledgers the model starts from
  TxBodies(_)    \* TxBodies(src): the operation sequences a transaction of
                 \* src may carry (a bounded input set)

ASSUME FeeDest \in Accounts

VARIABLES
  ledger,    \* [acct, feePool, totalCoins, ledgerSeq, closeTime, inflationSeq,
             \*  ledgerVersion]
  usedSeq,   \* usedSeq[a]: the highest sequence number a transaction of a used
  opsApplied, \* operations applied so far
  aborted,   \* an operation threw: the node aborts the ledger close
  signers    \* history: the accounts that signed the transaction of the last step

vars == <<ledger, usedSeq, opsApplied, aborted, signers>>

Exists(L, a) == L.acct[a] # NoAccount

-----------------------------------------------------------------------------
(* Helpers outside src/, after stellar-core's TransactionUtils.            *)

\* getStartingSequenceNumber: ledgerSeq << 32.
StartingSeq(L) == L.ledgerSeq * SeqPerLedger

\* getMinBalance: (2 + numSubEntries) * baseReserve.
MinBalance(rec) == (2 + (IF rec.subEntries THEN 1 ELSE 0)) * BaseReserve

AvailableBalance(rec) == rec.balance - MinBalance(rec)

\* getMaxAmountReceive for the native asset.
MaxAmountReceive(rec) == MaxInt64 - rec.balance - rec.buying

\* addBalance on a native balance: a debit may not go below the reserve, a
\* credit may not exceed INT64_MAX less the buying liabilities.
CanAddBalance(rec, delta) ==
  IF delta >= 0 THEN delta <= MaxAmountReceive(rec)
  ELSE AvailableBalance(rec) + delta >= 0

Credit(L, a, amt) == [L EXCEPT !.acct[a].balance = @ + amt]
Debit(L, a, amt) == [L EXCEPT !.acct[a].balance = @ - amt]

\* bigDivideOrThrow(a, b, c, ROUND_DOWN).
BigDivide(a, b, c) == (a * b) \div c

\* The outcome of a doApply: its result and the ledger its LedgerTxn holds,
\* or an exception.
Fail(L) == [ok |-> FALSE, ledger |-> L, threw |-> FALSE]
Succeed(L) == [ok |-> TRUE, ledger |-> L, threw |-> FALSE]
Throw(L) == [ok |-> FALSE, ledger |-> L, threw |-> TRUE]

\* The account entry both CreateAccount paths build.
NewAccount(L, amt) ==
  [balance |-> amt, seqNum |-> StartingSeq(L), buying |-> 0, inflationDest |-> NoAccount,
   subEntries |-> FALSE, immutable |-> FALSE, sponsoring |-> FALSE]

-----------------------------------------------------------------------------
(* Mutations.                                                              *)

\* isSeqnumTooFar never refuses the merge.
SeqnumNeverTooFar(L, rec) == FALSE

\* CreateAccount without the UNDERFUNDED check.
CreateAccountNoFundsCheck(L, src, dest, amt) ==
  IF amt < MinBalance(NewAccount(L, amt)) THEN Fail(L)
  ELSE Succeed([Debit(L, src, amt) EXCEPT !.acct[dest] = NewAccount(L, amt)])

\* Merge credits the destination but leaves the source in the ledger.
KeepMergedSource(L, src) == L

\* The standard inflation without the protocol 10 cap at what the winner
\* can receive.
DoleUncapped(L, w, amt) == amt

-----------------------------------------------------------------------------
(* CreateAccountOpFrame.                                                   *)

\* doCheckValid: a starting balance of at least 1 before protocol 14, 0 from
\* it; not creating the source itself.
CreateAccountCheckValid(L, src, dest, amt) ==
  /\ amt >= (IF L.ledgerVersion >= 14 THEN 0 ELSE 1)
  /\ dest # src

\* doApplyBeforeV14.  doesAccountExist holds from protocol 8 on, so the
\* "modifying account that does not exist" throw cannot be reached.
CreateAccountBeforeV14(L, src, dest, amt) ==
  IF \/ amt < 2 * BaseReserve                     \* LOW_RESERVE
     \/ AvailableBalance(L.acct[src]) < amt       \* UNDERFUNDED
  THEN Fail(L)
  ELSE Succeed([Debit(L, src, amt) EXCEPT !.acct[dest] = NewAccount(L, amt)])

\* doApplyFromV14: the new account must cover its reserve (no operation of
\* the model begins a sponsorship), the source must have the balance available.
CreateAccountFromV14(L, src, dest, amt) ==
  IF \/ amt < MinBalance(NewAccount(L, amt))      \* LOW_RESERVE
     \/ AvailableBalance(L.acct[src]) < amt       \* UNDERFUNDED
  THEN Fail(L)
  ELSE Succeed([Debit(L, src, amt) EXCEPT !.acct[dest] = NewAccount(L, amt)])

\* The case of doApply where the destination exists: ALREADY_EXIST is set,
\* the fee pool is zeroed in the operation's LedgerTxn, and the second
\* existence check returns false.
CreateExisting(L, src, dest, amt) == Fail([L EXCEPT !.feePool = 0])

\* doApply.  When the destination does not exist the Kinesis preamble builds
\* the "KAG Test Yield feepool" account with balance 1 and passes it to
\* createEntryWithPossibleSponsorship, which only checks its reserve and
\* never creates it (nor does anything else), so the ledger is unchanged.
CreateAccountDoApply(L, src, dest, amt) ==
  CASE Exists(L, dest)       -> CreateExisting(L, src, dest, amt)
    [] L.ledgerVersion < 14  -> CreateAccountBeforeV14(L, src, dest, amt)
    [] OTHER                 -> CreateAccountFromV14(L, src, dest, amt)

-----------------------------------------------------------------------------
(* MergeOpFrame.                                                           *)

\* doCheckValid: not merging into self.
MergeCheckValid(src, dest) == dest # src

\* isSeqnumTooFar: recreating the account would move its sequence number
\* backwards.
IsSeqnumTooFar(L, rec) == rec.seqNum >= StartingSeq(L)

\* The source entry is erased (signers removed first).
EraseSource(L, src) == [L EXCEPT !.acct[src] = NoAccount]

\* Mutation: the success path with source and destination swapped.
MergeIntoSwapped(L, src, dest) ==
  LET bal == L.acct[dest].balance
  IN  IF ~CanAddBalance(L.acct[src], bal) THEN Fail(L)
      ELSE Succeed(EraseSource(Credit(L, src, bal), dest))

\* Mutation: the success path without the DEST_FULL check.
MergeIntoNoDestFull(L, src, dest) ==
  Succeed(EraseSource(Credit(L, dest, L.acct[src].balance), src))

\* The "success" path of both versions: addBalance to the destination
\* (DEST_FULL when it refuses), then the source is erased.
MergeInto(L, src, dest) ==
  LET bal == L.acct[src].balance
  IN  IF ~CanAddBalance(L.acct[dest], bal) THEN Fail(L)      \* DEST_FULL
      ELSE Succeed(EraseSource(Credit(L, dest, bal), src))

\* doApplyBeforeV16.  The protocol 5 to 7 reload of a stale source account
\* and the sourceBalance variants it selects are for sources merged by an
\* earlier operation of the same transaction; all Versions are from 8 on,
\* where CheckValid refuses an operation whose source is gone.
MergeBeforeV16(L, src, dest) ==
  LET rec == L.acct[src]
      v   == L.ledgerVersion
  IN  IF \/ ~Exists(L, dest)                            \* NO_ACCOUNT
         \/ rec.immutable                               \* IMMUTABLE_SET
         \/ rec.subEntries                              \* HAS_SUB_ENTRIES
         \/ v >= 10 /\ IsSeqnumTooFar(L, rec)           \* SEQNUM_TOO_FAR
         \/ v >= 14 /\ rec.sponsoring                   \* IS_SPONSOR
      THEN Fail(L)
      ELSE MergeInto(L, src, dest)

\* doApplyFromV16: the same checks, the sponsorship ones unconditional.
MergeFromV16(L, src, dest) ==
  LET rec == L.acct[src]
  IN  IF \/ ~Exists(L, dest)                            \* NO_ACCOUNT
         \/ rec.immutable                               \* IMMUTABLE_SET
         \/ rec.subEntries                              \* HAS_SUB_ENTRIES
         \/ IsSeqnumTooFar(L, rec)                      \* SEQNUM_TOO_FAR
         \/ rec.sponsoring                              \* IS_SPONSOR (both checks)
      THEN Fail(L)
      ELSE MergeInto(L, src, dest)

\* doApply: the version decides the path.
MergeDoApply(L, src, dest) ==
  IF L.ledgerVersion < 16 THEN MergeBeforeV16(L, src, dest)
  ELSE MergeFromV16(L, src, dest)

-----------------------------------------------------------------------------
(* InflationOpFrame.  Which overload OperationFrame::apply calls is decided *)
(* outside src/; an INFLATION operation names the one it runs.             *)

\* The _KINESIS doApply: once per period, the whole fee pool goes to the
\* fee destination if it exists (addBalance's result is not looked at),
\* else back to the pool.
InflationDoApply(L) ==
  LET amountToDole == L.feePool
      winner       == Exists(L, FeeDest)
      paid         == IF winner /\ CanAddBalance(L.acct[FeeDest], amountToDole)
                        THEN Credit(L, FeeDest, amountToDole) ELSE L
      leftAfterDole == IF winner THEN 0 ELSE amountToDole
  IN  IF L.closeTime < L.inflationSeq THEN Fail(L)                \* NOT_TIME
      ELSE Succeed([paid EXCEPT !.feePool = leftAfterDole,
                                !.inflationSeq = @ + 1])

\* queryInflationWinners: the accounts voted for by accounts holding at
\* least MinVoterBalance, with their summed votes, keeping those with at
\* least minVotes (INFLATION_NUM_WINNERS is far above the model's accounts).
Votes(L, w) ==
  MapThenSumSet(LAMBDA a : L.acct[a].balance,
                {a \in Accounts : Exists(L, a) /\ L.acct[a].inflationDest = w
                                  /\ L.acct[a].balance >= MinVoterBalance})

InflationWinners(L, minVotes) ==
  {w \in Accounts : /\ \E a \in Accounts : Exists(L, a) /\ L.acct[a].inflationDest = w
                                           /\ L.acct[a].balance >= MinVoterBalance
                    /\ Votes(L, w) >= minVotes}

\* From protocol 10 an existing winner gets no more than it can receive.
CapDole(L, w, amt) ==
  IF L.ledgerVersion >= 10 /\ Exists(L, w) THEN Min({MaxAmountReceive(L.acct[w]), amt})
  ELSE amt

\* The loop over the winners (votes as the query counted them before the
\* loop), on [ledger, left, threw]: a winner whose
\* share is 0 is skipped, one that does not exist is skipped with its share
\* left over; addBalance failing throws "inflation overflowed destination
\* balance".  Before protocol 8 totalCoins grows by each share paid.
PayWinner(w, st, votes, amountToDole, totalVotes) ==
  LET L     == st.ledger
      share == CapDole(L, w, BigDivide(amountToDole, votes, totalVotes))
  IN  CASE share = 0 \/ ~Exists(L, w) -> st
        [] ~CanAddBalance(L.acct[w], share) -> [st EXCEPT !.threw = TRUE]
        [] OTHER ->
             [st EXCEPT !.left = @ - share,
                        !.ledger = [Credit(L, w, share) EXCEPT
                                      !.totalCoins = IF L.ledgerVersion < 8 THEN @ + share ELSE @]]

\* The standard doApply: the period's inflation of totalCoins plus the fee
\* pool is shared among the winners by votes; what is not paid out goes
\* back to the fee pool, and from protocol 8 totalCoins grows by the
\* inflation amount.
InflationStdDoApply(L) ==
  LET totalVotes      == L.totalCoins
      minVotes        == BigDivide(totalVotes, InflationWinMinPercent, Trillion)
      inflationAmount == BigDivide(L.totalCoins, InflationRateTrillionths, Trillion)
      amountToDole    == inflationAmount + L.feePool
      start == [ledger |-> [L EXCEPT !.feePool = 0, !.inflationSeq = @ + 1],
                left |-> amountToDole, threw |-> FALSE]
      st    == FoldSet(LAMBDA w, acc : PayWinner(w, acc, Votes(L, w), amountToDole, totalVotes),
                       start, InflationWinners(L, minVotes))
  IN  CASE L.closeTime < L.inflationSeq -> Fail(L)               \* NOT_TIME
        [] st.threw -> Throw(L)
        [] OTHER ->
             Succeed([st.ledger EXCEPT
                        !.feePool = @ + st.left,
                        !.totalCoins = IF L.ledgerVersion >= 8 THEN @ + inflationAmount ELSE @])

-----------------------------------------------------------------------------
(* The transaction layer (TransactionFrame, outside src/).  Every         *)
(* operation names its source account, which signs the transaction.       *)

Ops ==
  [type : {"CREATE_ACCOUNT"}, source : Accounts, dest : Accounts, amt : Amounts]
  \cup [type : {"ACCOUNT_MERGE"}, source : Accounts, dest : Accounts]
  \cup [type : {"INFLATION"}, source : Accounts, overload : {"KINESIS", "STANDARD"}]

\* doCheckValid, and the _KINESIS isOpSupported: INFLATION is valid at
\* every protocol version (the standard build refuses it from version 12).
InflationCheckValid(L) == TRUE

\* OperationFrame::checkValid: the source account exists (opNO_ACCOUNT),
\* then the operation's doCheckValid.
CheckValid(L, op) ==
  /\ Exists(L, op.source)
  /\ CASE op.type = "CREATE_ACCOUNT" -> CreateAccountCheckValid(L, op.source, op.dest, op.amt)
       [] op.type = "ACCOUNT_MERGE"  -> MergeCheckValid(op.source, op.dest)
       [] op.type = "INFLATION"      -> InflationCheckValid(L)

DoApply(L, op) ==
  CASE op.type = "CREATE_ACCOUNT" -> CreateAccountDoApply(L, op.source, op.dest, op.amt)
    [] op.type = "ACCOUNT_MERGE"  -> MergeDoApply(L, op.source, op.dest)
    [] op.overload = "KINESIS"    -> InflationDoApply(L)
    [] OTHER                      -> InflationStdDoApply(L)

\* applyOperations, one operation on [ledger, ok, threw]: every operation
\* is applied, in its own LedgerTxn, after a failed one too; that LedgerTxn
\* is committed into the transaction's when the operation succeeded or,
\* from protocol 14, whatever its result.
ApplyOp(acc, op) ==
  LET r == IF CheckValid(acc.ledger, op) THEN DoApply(acc.ledger, op) ELSE Fail(acc.ledger)
  IN  [ledger |-> IF r.ok \/ acc.ledger.ledgerVersion >= 14 THEN r.ledger ELSE acc.ledger,
       ok     |-> acc.ok /\ r.ok,
       threw  |-> acc.threw \/ r.threw]

\* A valid transaction of src: the fee (BaseFee per operation) goes to the
\* fee pool and the sequence number is consumed whatever the operations
\* do; their changes are committed only if all of them succeed.  An
\* exception from a doApply aborts the node (printErrorAndAbort).
Transaction(src, body) ==
  LET seq     == ledger.acct[src].seqNum + 1
      fee     == BaseFee * Len(body)
      charged == [ledger EXCEPT !.acct[src].balance = @ - fee,
                                !.acct[src].seqNum = seq,
                                !.feePool = @ + fee]
      r       == FoldLeft(ApplyOp, [ledger |-> charged, ok |-> TRUE, threw |-> FALSE], body)
  IN
  /\ ~aborted
  /\ opsApplied + Len(body) <= MaxOps
  /\ Exists(ledger, src)
  /\ \A i \in DOMAIN body : CheckValid(ledger, body[i])
  /\ AvailableBalance(ledger.acct[src]) >= fee
  /\ ledger' = IF r.ok THEN r.ledger ELSE charged
  /\ usedSeq' = [usedSeq EXCEPT ![src] = IF seq > @ THEN seq ELSE @]
  /\ opsApplied' = opsApplied + Len(body)
  /\ aborted' = r.threw
  /\ signers' = {src} \cup {body[i].source : i \in DOMAIN body}

\* The ledger closes: the close time advances by up to one inflation
\* period, and an upgrade may raise the protocol version.
CloseLedger ==
  /\ ~aborted
  /\ ledger.ledgerSeq < MaxLedgerSeq
  /\ \E d \in {0, 1}, v \in {x \in Versions : x >= ledger.ledgerVersion} :
       ledger' = [ledger EXCEPT !.ledgerSeq = @ + 1, !.closeTime = @ + d,
                                !.ledgerVersion = v]
  /\ signers' = {}
  /\ UNCHANGED <<usedSeq, opsApplied, aborted>>

Init ==
  /\ ledger \in Genesis
  /\ usedSeq = [a \in Accounts |-> IF Exists(ledger, a) THEN ledger.acct[a].seqNum ELSE 0]
  /\ opsApplied = 0
  /\ aborted = FALSE
  /\ signers = {}

Next ==
  \/ \E src \in Accounts : \E body \in TxBodies(src) : Transaction(src, body)
  \/ CloseLedger

Spec == Init /\ [][Next]_vars

-----------------------------------------------------------------------------
AccountRecs ==
  [balance : Nat, seqNum : Nat, buying : Nat, inflationDest : Accounts \cup {NoAccount},
   subEntries : BOOLEAN, immutable : BOOLEAN, sponsoring : BOOLEAN]

TypeOK ==
  /\ ledger.acct \in [Accounts -> AccountRecs \cup {NoAccount}]
  /\ {ledger.feePool, ledger.totalCoins, ledger.ledgerSeq,
      ledger.closeTime, ledger.inflationSeq} \subseteq Nat
  /\ ledger.ledgerVersion \in Versions
  /\ usedSeq \in [Accounts -> Nat]
  /\ opsApplied \in 0..MaxOps
  /\ aborted \in BOOLEAN
  /\ signers \subseteq Accounts

TotalBalance(L) ==
  MapThenSumSet(LAMBDA a : L.acct[a].balance, {a \in Accounts : Exists(L, a)})

\* ConservationOfLumens (src/invariant/ConservationOfLumens.h): the total
\* number of lumens changes only through inflation, and the balances of
\* all accounts plus the fee pool always make up totalCoins.  Fees,
\* account creation, merges and the Kinesis inflation that pays the fee
\* pool out must all move lumens, never create or destroy them; the
\* standard inflation adds to totalCoins exactly what it pays out or
\* returns to the fee pool beyond the old pool.
LumensConserved == TotalBalance(ledger) + ledger.feePool = ledger.totalCoins

\* No transaction can be replayed: after any sequence of transactions,
\* merges and re-creations of an account, its sequence number is at least
\* the highest one any transaction of that account id has used, so every
\* earlier transaction has a sequence number that is no longer valid.
\* This is what isSeqnumTooFar protects against when it refuses to merge.
NoSequenceReplay ==
  \A a \in Accounts : Exists(ledger, a) => ledger.acct[a].seqNum >= usedSeq[a]

\* No account ever holds more than INT64_MAX less its buying liabilities:
\* every credit (a merge into a nearly full account, an inflation payout)
\* goes through addBalance's limit and is refused or capped there.
BalancesWithinLimit ==
  \A a \in Accounts : Exists(ledger, a) => ledger.acct[a].balance + ledger.acct[a].buying <= MaxInt64

\* No operation throws: the standard inflation's "inflation overflowed
\* destination balance" cannot happen, because from protocol 10 a winner's
\* share is capped at what it can receive.
NoAbort == ~aborted

\* Refinement of LumenLedger: an account's holding is its balance (0 when
\* it has no entry), the pool is the fee pool and the supply totalCoins.
Lumens == INSTANCE LumenLedger WITH
  balances <- [a \in Accounts |-> IF Exists(ledger, a) THEN ledger.acct[a].balance ELSE 0],
  pool     <- ledger.feePool,
  supply   <- ledger.totalCoins,
  inflations <- ledger.inflationSeq

\* Every step is one LumenLedger allows: a transaction takes lumens from
\* its signers only (the fee, a starting balance, a merged balance) and
\* never from another account, whatever the merge, create-account and
\* inflation paths do with destinations, winners and the fee pool; and a
\* transaction that ran no inflation (inflationSeq unchanged) neither
\* lowers the fee pool nor changes totalCoins.  The Kinesis CreateAccount
\* zeroes the pool when its destination exists (line 152), and its opening
\* comment (lines 139-142) says it moves the pool to an account; the
\* operation then fails, and the transaction with it, so no committed
\* create-account moves the pool at all.
LumenLedgerSpec == Lumens!Spec

=============================================================================
