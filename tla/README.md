# TLA+ models of kinesis-core

Model-checking project for the parts of kinesis-core (a fork of stellar-core)
whose source is in `src/`. The core of the work is the overlay's
credit-based flow control (`src/src/overlay/FlowControlCapacity.cpp`), which is
what `spec.md` describes. The other sources are modelled too: the Kinesis
changes to transaction operations (`LedgerOps`, `TrustFlags`), the XDR file
streams (`XDRFrame`, `XDRStream`) and the bucket-entry comparators
(`LedgerCmp`).

## The system

### Parts and how they interact

| Part | Source | Role |
|---|---|---|
| Capacity engine | `FlowControlCapacity.cpp` (`FlowControlCapacity`) | One per peer connection. Holds the local reading pools (`mCapacity`: flood pool, optional total pool) and the outbound credit (`mOutboundCapacity`). Methods: `lockLocalCapacity`, `releaseLocalCapacity`, `lockOutboundCapacity`, `releaseOutboundCapacity`, `hasOutboundCapacity`, `canRead`, `checkCapacityInvariants`. |
| Message-count policy | `FlowControlMessageCapacity` | Every message costs 1; flood limit `PEER_FLOOD_READING_CAPACITY`, total limit `PEER_READING_CAPACITY`; `canRead` iff the total pool is positive; accepts `SEND_MORE` and `SEND_MORE_EXTENDED`. |
| Byte-size policy | `FlowControlByteCapacity` | Cost is the XDR size; flood limit `PEER_FLOOD_READING_CAPACITY_BYTES`, no total pool; `canRead` always true; accepts only `SEND_MORE_EXTENDED`. |
| Peer session | `Peer.cpp` (not in `src/`) | Owns one engine per connection and drives it (spec 4.4): send admission via `hasOutboundCapacity` + `lockOutboundCapacity`; reads while `canRead()`, locks each read message, drops the connection on a `false` lock; after processing releases the message and grants the released flood capacity to the sender; applies received grants with `releaseOutboundCapacity`. |
| Classification oracle | `OverlayManager::isFloodMessage` (not in `src/`) | Tells flood messages from the rest. |
| Kinesis operations | `CreateAccountOpFrame.cpp`, `MergeOpFrame.cpp`, `InflationOpFrame.cpp`, `TrustFlagsOpFrameBase.cpp`, `invariant/ConservationOfLumens.h` | Transaction operations; the Kinesis variants move lumens through the ledger header's fee pool. |
| XDR streams | `util/XDRStream.h` | Length-prefixed (record-marking) XDR frames read from and written to files. |
| Bucket ordering | `bucket/LedgerCmp.h` | Comparators that order ledger keys and bucket entries. |

Two peers interact only through the connection: data messages flow one way
and are charged against the sender's credit and the receiver's pools; credit
grants (`SEND_MORE*`) flow back and restore the sender's credit. A releaseAssert
failure aborts the whole node; a `false` from `lockLocalCapacity` drops the
connection as a protocol violation.

### What is hard in this code

* Credit accounting spans two nodes and a stream in each direction; every
  interleaving of sends, reads, releases and grants must keep the receiver's
  flood pool able to take what the sender is allowed to send.
* `lockLocalCapacity` charges the total pool before it checks the flood pool,
  and the `false` return leaves that charge in place.
* The total pool's assertion is guarded only by the session respecting
  `canRead()`; grants and non-flood traffic also consume it.
* Credit comes back only through the value `releaseLocalCapacity` returns; a
  unit not reported or not granted is lost for good and the sender stalls
  silently.
* Under the byte policy credit can be positive and still too small for the
  next message.

### Properties each part should have

* Engine + session: no releaseAssert ever fires, whatever the remote peer
  sends; an honest node never holds more unprocessed flood traffic from a
  peer than its flood capacity, even from a hostile one; no honest
  peer is ever dropped; flood credit is conserved in each direction; the sender
  always eventually regains credit.
* Kinesis operations: lumens are conserved (sum of balances + fee pool =
  total coins), a transaction with a failed operation changes nothing but
  its fee and sequence number, no sequence number is
  used twice across a merge and re-creation, no balance passes INT64_MAX,
  and the standard inflation never aborts the node.
* XDR streams: a written frame reads back identically; the hasher sees
  exactly the bytes of the file; truncation and size
  limits are reported, not misread.
* Bucket ordering: the comparators are strict weak orders.

## Modules

| Module | Models | State / actions |
|---|---|---|
| `FlowControlCapacity` | `FlowControlCapacity.cpp`, both policies | No variables: the engine is a record `[floodCapacity, totalCapacity, outboundCapacity]` named after the C++ members (`NoTotal` stands for `std::nullopt`). Each method is an operator for the engine after the call and one for its result; each releaseAssert is a predicate (`LockLocalAsserts`, `LockOutboundAsserts`, `ReleaseLocalAsserts`, `ReleaseOutboundAsserts`, `CheckCapacityInvariants`). The policy is the constant `Policy`. |
| `FlowControl` | Two peers and one connection (session from spec 4.4) | `engine[p,q]` is p's engine for the connection with q; `channel[p,q]` the FIFO stream p→q; `pending[q,p]` the messages q has read and locked from p but not processed; `dropped`, `aborted`. Actions `SendMessage`, `ReadMessage`, `ProcessMessage` are the three session handlers, each calling the engine operators in the code's order and turning a failed assertion into `aborted`. Fault model: a peer in the constant set `Hostile` may also `HostileSend` (any data message, of any size, with no send admission) and `HostileGrant` (credit it does not owe), both bounded by `MaxCredit` on `CreditOutstanding`. |
| `MCFlowControl` | TLC instantiation | Two model-value peers, the capacity constants; no hostile peer, or b hostile with 3-byte messages and `MaxCredit` 3. |
| `LedgerCmp` | `bucket/LedgerCmp.h` | No variables. `LexCompare` (RECURSIVE, over a sequence of `<<lhs, rhs>>` pairs), `LedgerEntryIdCmp` and `BucketEntryIdCmp` are operators over keys `[type, id1, id2]` and bucket entries `[btype, liveEntry / deadEntry / metaEntry]`, the XDR union arms. |
| `MCLedgerCmp` | Comparator check | Two variables each holding any bucket entry over ids {1,2} and bodies {0,1}; the comparator is compared with an independently defined rank (METAENTRY first, then type, then ids). |
| `XDRFrame` | The 4-byte length of `writeOne` / `readOne` | `EncodeSize` (continuation bit 0x80 on the high byte) and `DecodeSize` (mask 0x7f), with `Bitwise`. |
| `MCXDRFrame` | Codec check | One variable taking every length within 2 of a power of two up to 2^31-1. |
| `XDRStream` | `XDROutputFileStream` + `XDRInputFileStream` | Writer: `wState`, `frame` (mBuf), `written`, `wBuf` (the buffered stream), `disk` (the file), `sent`, `hashed` (the bytes given to the hasher; `bytesPut` is their number). Reader: `rState`, `rFail` (the ifstream's failbit), `rSize` (`mSize`), `rPos`, `rOut`; `IsGood`, `Size` and `Pos` are `operator bool`, `size()` and `pos()`. Actions `Open`, `FdOpen`, `WriteOne`, `WriteSome(n, ec)` (one pass of the write loop with no error, EINTR or another error), `Spill` (the buffered stream writing out when full), `Flush(k, ec)` and `Close(k, ec)` (the flush writes k bytes and ends with no error or an error: a failed flush throws with the rest still buffered (`flushThrew`), a failed owner's `close()` is retried by the destructor, and a `close()` that throws from the destructor ends the process), `Crash`, `ReaderOpen`, `ReaderClose`, and one `ReadOne*` action per way `readOne` ends, each setting failbit as `ifstream::read` does (`ReadSetsFail`: a read short of what it asked for). |
| `MCXDRStream` | TLC instantiation | Two messages of 4 and 8 bytes, size limit 4 (so the second is refused). |
| `LedgerOps` | `CreateAccountOpFrame`, `MergeOpFrame`, `InflationOpFrame` | `ledger` (accounts with balance, seqNum, buying liabilities, flags and inflationDest; feePool, totalCoins, ledgerSeq, ledgerVersion, closeTime, inflationSeq), `usedSeq` (a history variable: highest sequence number each account id has used), `opsApplied`, `signers` (a history variable: the transaction's source and its operations' sources), `aborted` (an exception escaped `doApply`: the node aborts). Each `doApply` is an operator from the ledger to `[ok, ledger, threw]`, dispatching on the protocol version as the code does: `CreateAccountBeforeV14`/`FromV14`, `MergeBeforeV16`/`FromV16` (with `MergeInto` for the credit, `DEST_FULL` and erase), the Kinesis `InflationDoApply` and the standard `InflationStdDoApply` (votes counted before the loop, `PayWinner` folded over the winners, the v10 cap `CapDole`, the throw on an overflowing credit). `Transaction(src, body)` (spec-modelled: `TransactionFrame` is not under `src/`) takes a sequence of operations from the bounded input set `TxBodies(src)`, each with its own source; it refuses the transaction unless every operation passes `CheckValid` against the ledger before apply, charges `BaseFee` per operation into the fee pool, bumps the sequence number, and folds `ApplyOp` over the body: an operation whose source is gone fails, a failed operation's ledger is kept from v14 on (the code commits the operation's LedgerTxn) and discarded before, and the transaction keeps the ledger only when every operation succeeded (rollback); `CloseLedger` advances the ledger and the close time and may upgrade the protocol version. Amounts and the inflation rate are scaled: `Trillion` 8 stands for 10^12 in `bigDivide`. |
| `LumenLedger` | What the ledger promises about lumens | `balances`, `pool`, `supply`, `signers`, `inflations`. `Transfer(S)`: lumens move out of the accounts of S only, the supply stays, the pool does not shrink; `Inflate(S)`: the count of inflations rises, and the pool may also be paid out and the supply raised; `Tick`: a ledger closes. Balances plus the pool make up the supply in every state. |
| `MCLedgerOps` | TLC instantiation | Accounts root, alice, fee (the Kinesis inflation destination); genesis at any of the versions 13, 15, 16 with root holding 8 units and voting for anyone, or root and alice with alice holding at most one of the flags that make a merge from her fail (sub-entries, immutable, sponsoring), or alice's buying liabilities leaving her 1 unit below the limit while both vote for her; a second genesis where fee's buying liabilities fill its balance limit. `MCTxBodies(src)`: every one-operation body, and every two-operation body whose first operation is src's own (the second may be anyone's, so a merge followed by an operation of the merged account occurs); `MCSingleOpBodies` for the `inflation_burn` run. |
| `TrustFlags` | `TrustFlagsOpFrameBase.cpp` via SetTrustLineFlags | `authRevocable` (issuer flag), `trust[t]` (`[flags, liabilities]` or none), `offers[t]`, `ops`. `TrustFlagsDoApply` is `doApply` with every early return; `RemoveOffers` may fail; `ManageOfferCreate/Delete` and `SetAuthRevocable` are the operations that change what `doApply` sees. |
| `MCTrustFlags` | TLC instantiation | Two symmetric trustors. |

`LedgerOps` refines `LumenLedger` under the mapping balance of each
account (0 when it has no entry), fee pool, totalCoins, `inflationSeq` for
the count of inflations, and the history variable `signers` (the accounts
that signed the last transaction), checked as the property
`LumenLedgerSpec`. Mapping `inflationSeq` is what ties `Inflate` to a
transaction that really ran an inflation: every other transaction must be a
`Transfer`, which neither lowers the fee pool nor changes totalCoins.
What credit-based flow control promises per direction is stated in
`FlowControl` itself as `FloodCreditConserved` and `FloodCreditRecurs`.

## Runs

| Run | Config | Expect | What it shows |
|---|---|---|---|
| `message` | `MCFlowControl_message.cfg` | pass | Message policy, flood 2, total 3, up to 3 data messages in flight per direction: `TypeOK`, `NoFatalAssertion`, `HonestPeerNeverDropped`, `FloodCreditConserved`, `FloodCreditRecurs` all hold (58k states). |
| `byte` | `MCFlowControl_byte.cfg` | pass | Byte policy, flood pool 2 bytes, flood messages of 1 and 2 bytes, 2 in flight: the same properties hold, including when the credit is 1 and the next message costs 2 (19k states). |
| `recovery_signal` | `MCFlowControl_recovery_signal.cfg` | violation | `RecoverySignalOnlyFromEmpty` (spec section 8) fails: the code reports released flood capacity on every flood release. |
| `grant_on_recovery` | `MCFlowControl_grant_on_recovery.cfg` | violation | With the session granting only when the pool was saturated (spec 4.4 wording, `GrantOnlyOnRecovery = TRUE`), `FloodCreditRecurs` fails: credit leaks until the sender can never flood again. |
| `hostile` | `MCFlowControl_hostile.cfg` | pass | Byte policy with peer b hostile: it floods without credit, sends 3-byte messages a 2-byte pool can never take and grants a credit it does not owe. `TypeOK`, `NoFatalAssertion` and `ReceiveBufferBounded` hold: the honest node only drops the connection, never aborts, and never holds more than 2 unprocessed flood bytes (350k states, 16 s). The connection may be dropped, so deadlock is not checked. |
| `ledger_cmp` | `MCLedgerCmp.cfg` | pass | `BucketEntryIdCmpIsIdentityOrder`: for every one of the 8464 pairs of bucket entries, `BucketEntryIdCmp` agrees with the identity rank, so it is a strict weak order that ignores bodies. |
| `xdr_frame` | `MCXDRFrame.cfg` | pass | `FrameLengthRoundTrip`: decode(encode(n)) = n with the continuation bit set, for every boundary length up to 2^31-1. |
| `xdr_stream` | `MCXDRStream.cfg` | pass | `TypeOK`, `ReadIsPrefixOfWritten` (whatever happens to the writer, failed flushes and a terminating destructor included, the reader returns a prefix of what was written), `RoundTrip` (a file whose `close()` returned, after failed flushes or closes too, reads back everything up to the first over-limit object, then false), `FileMatchesHash` (a closed file holds exactly the bytes given to the hasher: what `writeOne` counted in `bytesPut` is what was written) `FalseTellsEndFromLimit` (when `readOne` returns false on such a file, the stream has failed exactly when every object was read; when an object over `mSizeLimit` stopped it, the stream is still good and `pos()` is short of `size()`, so a caller can tell a partly read file from a whole one) (19k states). |
| `xdr_truncated_header` | `MCXDRStream_truncated_header.cfg` | violation | `EndOfFileOnlyAtFrameBoundary` fails: a file cut inside a length prefix reads as a clean end of file. |
| `ledger_ops` | `MCLedgerOps.cfg` | pass | Transactions of one or two operations (create, merge, Kinesis or standard inflation), up to 3 operations in all, over several ledgers, at versions 13, 15 and 16 with upgrades between ledgers: `TypeOK`, `LumensConserved`, `NoSequenceReplay`, `BalancesWithinLimit` (merges into alice near the limit are refused with `DEST_FULL`) and `NoAbort` (the v10 cap keeps the standard inflation from throwing) and `LumenLedgerSpec` (only a transaction's signers lose lumens, and only a transaction that advanced `inflationSeq` lowers the fee pool or changes totalCoins; two inflations in one transaction are legal catch-up) hold (about 150k states, 1 min). |
| `inflation_burn` | `MCLedgerOps_inflation_burn.cfg` | violation | `LumensConserved` fails: the Kinesis inflation zeroes the fee pool without paying a winner whose balance limit is reached. |
| `trust_flags` | `MCTrustFlags.cfg` | pass | Fourteen operations, up to 3 offers per line (4.4k states): `TypeOK` (never both authorization flags), `OffersOnlyWhileAuthorizedToMaintain` hold. |

### Findings

1. *Spec/code divergence* (`FlowControlCapacity.cpp:184`): spec section 8 says the
   released flood capacity is nonzero only on a release that lifts an empty
   pool; the code returns the message's cost on every flood release.
2. *Spec gap* (same line, spec 4.4): granting only when the pool "was
   previously saturated" starves the sender. The code's return value is what
   the protocol needs: every released unit must be granted back. Taken
   together, the code is right and the spec's wording is wrong.

3. *Code bug* (`util/XDRStream.h:93`): `readOne` returns `false`, as at a
   clean end of file, when 1 to 3 bytes of a length prefix remain, but throws
   "malformed XDR file" when a payload is cut short. A `writeOne` that fails
   after one header byte (its destructor's `close()` then flushes that byte),
   or a crash after the buffered stream spilled part of a header, leaves such
   a file, and a reader takes it as complete.
4. *Code bug* (`transactions/InflationOpFrame.cpp:66`): the Kinesis inflation
   takes the whole fee pool out of `leftAfterDole` as soon as the fee
   destination exists and ignores `addBalance`'s result. When the credit would
   pass INT64_MAX less the destination's buying liabilities, the pool is
   zeroed and nobody is paid: lumens are destroyed, against
   `ConservationOfLumens.h` (lines 17-20). The standard path throws in the same
   case (lines 148-152).
5. *Spec/code divergence* (`transactions/CreateAccountOpFrame.cpp:139`): the
   comment opening the Kinesis `doApply` says it transfers the fee pool to
   the inflation account and marks the pool 0. The code computes
   `amountToDole` and never uses it; it zeroes the pool only when the
   destination exists (line 152) and then fails (line 170), so the
   transaction rolls back. `LumenLedgerSpec` passing shows that no committed
   create-account moves the fee pool: the comment describes behaviour the
   code does not have.

### Bounds

Flood capacity 2 (message and byte policy) and a total pool of 3 give a full
pool, an empty pool, and a total pool that runs out before the flood pool
(grants and non-flood messages also use it). Message sizes {1, 2} under the
byte policy give credit that is positive but insufficient. `MaxInFlight`
bounds data messages per direction (3 and 2) and is at least the flood
capacity, so the sender can exhaust the receiver's flood pool. Grants are
bounded by the flood capacity, so the state space is finite. In the
hostile run b may send 3-byte messages (more than the pool) and raise the
credit outstanding in either direction (`CreditOutstanding`) to
`MaxCredit` 3, one more than the pool: enough to overrun it and for a to
send b a 3-byte message on the unowed credit, and small enough to stay
finite. The two peers
are model values; symmetry is not used because the initial grants and
properties are per direction and the state space is small.

The other models: `LedgerCmp` uses ids {1,2} and bodies {0,1}, every pair of
every entry kind, so each comparator branch and each "first field equal,
second decides" case occurs. `MCXDRStream` uses a 4-byte and an 8-byte
message with `SizeLimit` 4: one accepted and one refused frame, partial
writes at every byte offset, spills and crashes at every point. `MCLedgerOps`
uses 8 units, reserve 1 (minimum balance 2), fee 1 and `SeqPerLedger` 2 (for
2^32), versions {13, 15, 16} (both sides of the v14 and v16 switches, and
upgrades across them), `MaxOps` 3 (4 takes about 5 minutes, at the edge of the run limit; 3 still reaches a two-operation transaction after a one-operation one, and create-then-merge or merge-then-use in one transaction), so that a few transactions carry a sequence number past the next
ledger's starting sequence (the `SEQNUM_TOO_FAR` case) and amounts {1, 2, 4}
hit `LOW_RESERVE`, `UNDERFUNDED` and success; `MaxInt64` 12 stands for
INT64_MAX: the `AliceNearlyFull` genesis puts alice 1 unit below it, so a
merge into her hits `DEST_FULL` and the standard inflation's share for her
is capped; the `inflation_burn` genesis puts the fee destination at it. The
standard inflation uses `Trillion` 8, a rate of 2 trillionths, a 2% winning
threshold and a minimum voter balance of 2, so that a pool of 8 with one
fee gives a nonzero dole and a share of it to each winner. `MCTrustFlags`
has 2 trustors (symmetric), 3 offers each and 14 operations: enough for
authorize, three offers, downgrade to MAINTAIN, revoke with a failed removal
and re-authorize on one line while the other line moves too. A third trustor
shares nothing with the other two and would only repeat them.

### Fairness

Weak fairness on `ReadMessage` and `ProcessMessage` of each direction: the
session's read loop keeps reading while `canRead()` holds and message
processing posted to the main thread eventually runs. Sending is the
application's choice and gets none. `FloodCreditRecurs` needs exactly this:
credit comes back if the receiver keeps reading and processing.
The other models check safety only and assume no fairness; their behaviours
end at their bounds, which their cfgs say with `CHECK_DEADLOCK FALSE`.

### Mutants

Each property of the passing runs is shown sensitive to the engine: an
off-by-one in `hasOutboundCapacity` (TypeOK: credit underflows), a release
that does not refund the flood pool (HonestPeerNeverDropped), a release that
reports capacity for non-flood messages (FloodCreditConserved), a release that
reports capacity only from an empty pool (FloodCreditRecurs), `canRead` with `>=`
and a lock that does not charge the flood pool (NoFatalAssertion).
Elsewhere: `lexCompare` without its early `false`, the OFFER case comparing
the seller only and METAENTRY compared with `<=` (`ledger_cmp`); a length
decoded from the low bytes only (`xdr_frame`); the write loop restarting from
the first byte after EINTR, the size limit with `>=` and a flush loop that
ends on an error as if the buffer were written and a hasher fed 4 bytes fewer than the frame holds, and a length read with
`readsome`, which never sets failbit (FalseTellsEndFromLimit) (`xdr_stream`);
`CreateAccount` without `UNDERFUNDED` (TypeOK), `isSeqnumTooFar` never
refusing (NoSequenceReplay), a merge that keeps its source (LumensConserved),
a merge that credits and
erases without the `DEST_FULL` check (BalancesWithinLimit) and the
standard inflation without the v10 cap (NoAbort) and a merge with source
and destination swapped, which conserves lumens but takes them from the
destination (LumenLedgerSpec) (`ledger_ops`); in
`hostile`, the off-by-one `hasOutboundCapacity` (TypeOK), a lock that does not
charge the flood pool (NoFatalAssertion) and `lockLocalCapacity` without its
early return (ReceiveBufferBounded); `isTrustLineFlagsValid`
accepting both flags (TypeOK) and offers removed only when AUTHORIZED is lost
(OffersOnlyWhileAuthorizedToMaintain) (`trust_flags`).

## Not modelled

* The loopback test peer (`overlay/test/LoopbackPeer.h`) and its fault
  injection: a test harness; production connections are reliable FIFO streams.
* Hostile peers are modelled (run `hostile`), but not the wrap of the uint64
  `mOutboundCapacity` at `FlowControlCapacity.cpp:90`, which needs about
  2^32 maximal grants, nor a grant of the wrong kind, which spec section 7
  makes a local invariant violation the session must filter.
* Send queues, batching of `SEND_MORE`, handshake details: abstracted to an
  initial grant of the full flood capacity and one grant per release.
* `LedgerOps`: protocol versions below 10 (merges without
  `isSeqnumTooFar`, inflation without the cap and with the v5-v8
  `totalCoins` accounting): the network runs far above them. Sponsorship:
  no modelled operation begins a sponsorship, so the sponsoring paths are
  reached only through the flag that makes a merge fail. The per-operation
  `ConservationOfLumens` invariant: its body is not under `src/`; its
  contract is checked as `LumensConserved` after every transaction.
  Which inflation overload runs is decided outside `src/`, so the operation
  carries the choice.
* `TrustFlags`: `AllowTrust`, whose self and pre-v10 paths `doApply` also
  serves; pool-share trust lines (abstracted to `removeOffers` failing).
* `XDRStream`: the WIN32 build's `fwrite` path, fsync failures
  (`fs::flushFileChanges` is outside `src/`), the hash value itself (the
  model checks which bytes reach the hasher), reopening a closed writer on
  a second file, and a reader opening a missing file (it throws before
  keeping any state). A caller that calls `readOne` again after it returned
  false is outside `src/`: after an over-limit frame it would read payload
  bytes as a length.
* Headers with declarations only (`InternalLedgerEntry.h`,
  `TransactionMetaFrame.h`, `ApplicationUtils.h`, `Upgrades.h`) and the crypto
  tests.

## Plan

1. (done) Flow-control engine and two-peer session.
2. (done) `LedgerOps`: the Kinesis `CreateAccount`, `AccountMerge` and
   `Inflation` with transaction-level rollback; lumen conservation, sequence
   replay, fee-pool draining.
3. (done) `XDRFrame`/`XDRStream`: frame codec, partial and interrupted writes,
   crashes, size limit, truncated files.
4. (done) `LedgerCmp`: the comparators against an identity rank.
5. (done) `TrustFlags`: `doApply` with offer removal.
6. (done) `LedgerOps` across protocol versions: the pre-v14 and pre-v16
   paths, upgrades, the standard inflation; `DEST_FULL` reached.
7. (done) A hostile remote peer in `FlowControl`; the flush and close
   error paths of `XDROutputFileStream`.
8. (done) `LumenLedger`, the abstract spec `LedgerOps` refines.
9. (done) Multi-operation transactions in `LedgerOps` with per-operation
   sources and the v14 commit rule; the bytes an `XDROutputFileStream`
   hashes.
10. (done) The input stream's `close`, `pos`, `size` and `operator bool`,
   the output stream's `fdopen`; larger `TrustFlags` bounds.
11. Next: `AllowTrust` in `TrustFlags` if its source enters `src/`;
   larger `LedgerOps` instances with symmetry over non-root accounts.
