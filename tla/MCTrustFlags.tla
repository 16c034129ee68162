----------------------------- MODULE MCTrustFlags -----------------------------
(* Two trustors of one issuer's asset, three offers each, fourteen        *)
(* operations: enough to authorize, place offers, downgrade to MAINTAIN,   *)
(* revoke, fail a removal in between and re-authorize, on both lines.  A   *)
(* third trustor would only repeat a line that shares nothing with these.  *)
EXTENDS TrustFlags, TLC

CONSTANTS t1, t2

MCTrustors == {t1, t2}

\* The trustors play the same role everywhere.
TrustorSymmetry == Permutations(MCTrustors)

=============================================================================
