------------------------------ MODULE LedgerCmp ------------------------------
(***************************************************************************)
(* The identity comparators of src/bucket/LedgerCmp.h, as operators.       *)
(*                                                                         *)
(* A ledger key (LedgerKey) or entry body (LedgerEntry::_data_t) is a      *)
(* record [type, id1, id2]: type is the LedgerEntryType enum value and     *)
(* id1, id2 the fields that identify it (accountID / sellerID / balanceID  *)
(* / liquidityPoolID, then asset / offerID / dataName for the two-part     *)
(* types).  An entry has a body field besides, which identity ignores.     *)
(* XDR ids are totally ordered by their generated operator<, so they are  *)
(* naturals here.  The CONTRACT_* and CONFIG_SETTING cases are compiled    *)
(* only with ENABLE_NEXT_PROTOCOL_VERSION_UNSAFE_FOR_PRODUCTION and are    *)
(* left out.                                                               *)
(*                                                                         *)
(* A bucket entry is a record [btype, ...] whose other field is the arm   *)
(* of the XDR union: liveEntry (LIVE and INIT), deadEntry (DEAD, a key) or *)
(* metaEntry (METAENTRY).  The union has no other arm, so the "Malformed   *)
(* bucket" throws of BucketEntryIdCmp cannot be reached.                  *)
(***************************************************************************)
EXTENDS Integers, Sequences

CONSTANTS
  Ids,      \* identifying field values
  Bodies    \* non-identifying contents of an entry

ASSUME Ids \subseteq Nat \ {0}

\* LedgerEntryType values (Stellar-ledger-entries.x).
ACCOUNT == 0
TRUSTLINE == 1
OFFER == 2
DATA == 3
CLAIMABLE_BALANCE == 4
LIQUIDITY_POOL == 5

\* BucketEntryType values (Stellar-ledger.x).
METAENTRY == -1
LIVEENTRY == 0
DEADENTRY == 1
INITENTRY == 2

\* Types identified by one field, resp. by a pair of fields.
OnePartTypes == {ACCOUNT, CLAIMABLE_BALANCE, LIQUIDITY_POOL}
TwoPartTypes == {TRUSTLINE, OFFER, DATA}

\* The absent second field of a one-part key.
NoId == 0

LedgerKeys ==
  {[type |-> t, id1 |-> i, id2 |-> NoId] : t \in OnePartTypes, i \in Ids}
  \cup {[type |-> t, id1 |-> i, id2 |-> j] : t \in TwoPartTypes, i, j \in Ids}

LedgerEntries ==
  {[type |-> k.type, id1 |-> k.id1, id2 |-> k.id2, body |-> d] :
     k \in LedgerKeys, d \in Bodies}

BucketEntries ==
  {[btype |-> t, liveEntry |-> e] : t \in {LIVEENTRY, INITENTRY}, e \in LedgerEntries}
  \cup {[btype |-> DEADENTRY, deadEntry |-> k] : k \in LedgerKeys}
  \cup {[btype |-> METAENTRY, metaEntry |-> d] : d \in Bodies}

-----------------------------------------------------------------------------
(* Mutations, each a plausible slip in one comparator.                     *)

\* lexCompare without the "rhs1 < lhs1 -> false" early return: a later
\* field decides even when an earlier one is greater.
RECURSIVE LexCompareNoEarlyFalse(_)
LexCompareNoEarlyFalse(ps) ==
  LET l == Head(ps)[1]
      r == Head(ps)[2]
  IN  IF Len(ps) = 1 \/ l < r THEN l < r
      ELSE LexCompareNoEarlyFalse(Tail(ps))

\* The OFFER case compares the seller only, forgetting the offerID.
OfferSellerOnly(a, b) == a.id1 < b.id1

\* The METAENTRY case compares with <=.
MetaLessOrEqual(aty, bty) == aty <= bty

-----------------------------------------------------------------------------
\* lexCompare(lhs1, rhs1, lhs2, rhs2, ...), the argument pairs as a sequence
\* <<<<lhs1, rhs1>>, <<lhs2, rhs2>>, ...>>: the first pair that differs
\* decides, the last pair is compared with <.
RECURSIVE LexCompare(_)
LexCompare(ps) ==
  LET l == Head(ps)[1]
      r == Head(ps)[2]
  IN  CASE Len(ps) = 1 -> l < r
        [] l < r       -> TRUE
        [] r < l       -> FALSE
        [] OTHER       -> LexCompare(Tail(ps))

\* The OFFER case: lexCompare(sellerID, offerID).
OfferCmp(a, b) == LexCompare(<<<<a.id1, b.id1>>, <<a.id2, b.id2>>>>)

\* LedgerEntryIdCmp::operator(): the type first, then the identifying
\* fields of that type; bodies are never looked at.
LedgerEntryIdCmp(a, b) ==
  CASE a.type < b.type      -> TRUE
    [] a.type > b.type      -> FALSE
    [] a.type \in OnePartTypes -> a.id1 < b.id1
    [] a.type = OFFER       -> OfferCmp(a, b)
    [] OTHER                -> LexCompare(<<<<a.id1, b.id1>>, <<a.id2, b.id2>>>>)

\* The METAENTRY case of BucketEntryIdCmp: enum order, so a METAENTRY is
\* below every other entry and no METAENTRY is below another.
MetaCmp(aty, bty) == aty < bty

\* The ledger identity a LIVE, INIT or DEAD bucket entry carries.
EntryId(x) == IF x.btype = DEADENTRY THEN x.deadEntry ELSE x.liveEntry

\* BucketEntryIdCmp::operator(): METAENTRY first; otherwise LIVE, INIT and
\* DEAD entries are compared by the identity of what they carry.
BucketEntryIdCmp(a, b) ==
  IF a.btype = METAENTRY \/ b.btype = METAENTRY
    THEN MetaCmp(a.btype, b.btype)
    ELSE LedgerEntryIdCmp(EntryId(a), EntryId(b))

=============================================================================
