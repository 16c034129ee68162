----------------------------- MODULE MCLedgerOps -----------------------------
(***************************************************************************)
(* Three accounts: root, which holds the lumens at genesis, alice, and     *)
(* fee, the Kinesis inflation winner.  Eight lumen units, base reserve 1   *)
(* (minimum balance 2), fee 1, and SeqPerLedger 2 so that a few            *)
(* transactions carry an account's sequence number past the next ledger's *)
(* starting sequence.  MaxInt64 is 12, so a credit can meet the limit.     *)
(***************************************************************************)
EXTENDS LedgerOps

CONSTANTS root, alice, fee

MCAccounts == {root, alice, fee}
MCTotalCoins == 8

Account(balance, buying, dest, subEntries, immutable, sponsoring) ==
  [balance |-> balance, seqNum |-> 0, buying |-> buying, inflationDest |-> dest,
   subEntries |-> subEntries, immutable |-> immutable, sponsoring |-> sponsoring]

Header(acct, v) ==
  [acct |-> acct, feePool |-> 0, totalCoins |-> MCTotalCoins,
   ledgerSeq |-> 1, closeTime |-> 0, inflationSeq |-> 0, ledgerVersion |-> v]

Plain(balance, dest) == Account(balance, 0, dest, FALSE, FALSE, FALSE)

\* Genesis: root holds everything and votes for anyone or no one.
OnlyRoot ==
  {Header([a \in MCAccounts |-> IF a = root THEN Plain(MCTotalCoins, d) ELSE NoAccount], v) :
     d \in MCAccounts \cup {NoAccount}, v \in Versions}

\* root and alice, alice with at most one of the flags other operations
\* set (sub-entries, AUTH_IMMUTABLE, and sponsoring, which exists from 14):
\* each makes merge fail, whichever of its checks comes first.
RootAndAlice ==
  {Header([a \in MCAccounts |->
             CASE a = root  -> Plain(MCTotalCoins - 4, alice)
               [] a = alice -> Account(4, 0, NoAccount, "sub" \in f, "imm" \in f, "spo" \in f)
               [] OTHER     -> NoAccount], v) :
     f \in {{}, {"sub"}, {"imm"}, {"spo"}}, v \in Versions}

\* alice's buying liabilities leave room for 1 more unit, and both
\* accounts vote for alice.
AliceNearlyFull ==
  {Header([a \in MCAccounts |->
             CASE a = root  -> Plain(MCTotalCoins - 4, alice)
               [] a = alice -> Account(4, 12 - 4 - 1, alice, FALSE, FALSE, FALSE)
               [] OTHER     -> NoAccount], v) : v \in Versions}

MCGenesis ==
  OnlyRoot \cup AliceNearlyFull
  \cup {h \in RootAndAlice : h.acct[alice].sponsoring => h.ledgerVersion >= 14}

\* root and fee, fee having an offer that buys as much of the native asset
\* as its balance can still take (buying liabilities INT64_MAX - balance).
MCGenesisFeeFull ==
  {Header([a \in MCAccounts |->
             CASE a = root -> Plain(MCTotalCoins - 4, NoAccount)
               [] a = fee  -> Account(4, 12 - 4, NoAccount, FALSE, FALSE, FALSE)
               [] OTHER    -> NoAccount], 16)}

\* Transactions of one operation, with any source, and of two: the first
\* of the transaction's source, the second of any source, so that the
\* second can act on the account the first created, merged or credited.
MCTxBodies(src) ==
  {<<op>> : op \in Ops}
  \cup {<<op1, op2>> : op1 \in {op \in Ops : op.source = src}, op2 \in Ops}

\* Transactions of one operation only.
MCSingleOpBodies(src) == {<<op>> : op \in Ops}

=============================================================================
