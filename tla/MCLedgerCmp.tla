----------------------------- MODULE MCLedgerCmp -----------------------------
(***************************************************************************)
(* Checks the comparators of LedgerCmp over every pair of bucket entries   *)
(* built from two ids and two bodies: x and y range over all bucket        *)
(* entries, and each step replaces one of them.                            *)
(***************************************************************************)
EXTENDS LedgerCmp

MCIds == {1, 2}
MCBodies == {0, 1}

ASSUME Ids \subseteq 1..9

VARIABLES x, y

Init == x \in BucketEntries /\ y = x

Next == \/ x' \in BucketEntries /\ UNCHANGED y
        \/ y' \in BucketEntries /\ UNCHANGED x

Spec == Init /\ [][Next]_<<x, y>>

\* Reference order, written independently of the comparators: every
\* METAENTRY ranks 0, every other entry ranks by the digits of its ledger
\* key <<type, id1, id2>>, whatever its bucket type (LIVE, INIT, DEAD) and
\* whatever its body.
KeyRank(k) == 1 + 100 * k.type + 10 * k.id1 + k.id2
Rank(be) == IF be.btype = METAENTRY THEN 0 ELSE KeyRank(EntryId(be))

\* BucketEntryIdCmp orders bucket entries exactly by their ledger identity:
\* METAENTRY below all others, LIVE/INIT/DEAD entries of one key
\* equivalent whatever their bodies, distinct keys ordered by type and then
\* lexicographically by their identifying fields.  Being a rank order, it
\* is a strict weak order, as std::sort and the bucket merge need; a
\* comparator that identifies two distinct keys would merge away a live
\* entry, one that separates entries of the same key would keep a stale one.
BucketEntryIdCmpIsIdentityOrder == BucketEntryIdCmp(x, y) <=> Rank(x) < Rank(y)

=============================================================================
