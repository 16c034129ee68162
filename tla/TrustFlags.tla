------------------------------ MODULE TrustFlags ------------------------------
(***************************************************************************)
(* TrustFlagsOpFrameBase::doApply (src/transactions/TrustFlagsOpFrameBase. *)
(* cpp) as run by SetTrustLineFlags, the operation by which an issuer      *)
(* authorizes, downgrades or revokes its trustors' trust lines for one     *)
(* asset, together with the offers that hold liabilities on those lines.   *)
(*                                                                         *)
(* The subclass hooks (isAuthRevocationValid, calcExpectedFlagValue,       *)
(* isRevocationToMaintainLiabilitiesValid, setFlagValue), doCheckValid,    *)
(* ManageOffer and removeOffersAndPoolShareTrustLines are outside src/ and *)
(* follow stellar-core.  A trust line is a record [flags, liabilities]:    *)
(* flags a subset of {AUTHORIZED, MAINTAIN (AUTHORIZED_TO_MAINTAIN_        *)
(* LIABILITIES), CLAWBACK (TRUSTLINE_CLAWBACK_ENABLED)}, liabilities the   *)
(* units its offers hold.  Every offer holds one unit.  A failed doApply   *)
(* is rolled back with its LedgerTxn, so it changes nothing.               *)
(***************************************************************************)
EXTENDS Naturals

CONSTANTS
  Trustors,     \* accounts holding a trust line to the issuer's asset
  NoTrustLine,  \* model value: no trust line
  MaxOffers,    \* bound: offers per trustor
  MaxOps        \* bound: operations applied

VARIABLES
  authRevocable,  \* the issuer's AUTH_REVOCABLE_FLAG
  trust,          \* trust[t]: t's trust line, or NoTrustLine
  offers,         \* offers[t]: t's offers buying or selling the asset
  ops             \* operations applied so far

vars == <<authRevocable, trust, offers, ops>>

AuthFlags == {"AUTHORIZED", "MAINTAIN"}
AllFlags == AuthFlags \cup {"CLAWBACK"}

-----------------------------------------------------------------------------
(* Mutations.                                                              *)

\* isTrustLineFlagsValid accepting both authorization flags at once.
TrustLineFlagsAlwaysValid(f) == TRUE

\* Offers removed only when a fully authorized line loses its
\* authorization, not when a MAINTAIN line loses that.
RemoveOnFullAuthLossOnly(before, expected) ==
  "AUTHORIZED" \in before /\ expected \cap AuthFlags = {}

-----------------------------------------------------------------------------
(* Helpers outside src/.                                                   *)

\* isTrustLineFlagsValid: AUTHORIZED and MAINTAIN exclude each other.
IsTrustLineFlagsValid(f) == ~(AuthFlags \subseteq f)

\* isAuthorizedToMaintainLiabilities (of a line or of a flag value).
IsAuthorizedToMaintainLiabilities(f) == f \cap AuthFlags # {}

\* SetTrustLineFlagsOpFrame::calcExpectedFlagValue: clear, then set.
ExpectedFlagValue(f, clear, set) == (f \ clear) \cup set

\* SetTrustLineFlagsOpFrame::isAuthRevocationValid: a non-revocable issuer
\* may not clear either authorization flag (CANT_REVOKE).
IsAuthRevocationValid(clear) == authRevocable \/ clear \cap AuthFlags = {}

\* SetTrustLineFlagsOpFrame::doCheckValid (the issuer is the source and
\* the trustor another account by construction): flags not both set and
\* cleared, CLAWBACK never set, not both authorization flags set.
SetTrustLineFlagsCheckValid(clear, set) ==
  /\ clear \cap set = {}
  /\ "CLAWBACK" \notin set
  /\ ~(AuthFlags \subseteq set)

\* SetTrustLineFlagsOpFrame::setFlagValue, on the trust line as it is
\* after removeOffers (it is loaded again).
SetFlagValue(T, t, v) == [T EXCEPT ![t].flags = v]

-----------------------------------------------------------------------------
\* The "Check if need to remove offer" step (lines 114-117).
ShouldRemoveOffers(before, expected) ==
  IsAuthorizedToMaintainLiabilities(before) /\ ~IsAuthorizedToMaintainLiabilities(expected)

\* removeOffers: removeOffersAndPoolShareTrustLines deletes t's offers in
\* the asset and releases their liabilities, or fails with res
\* (LOW_RESERVE, TOO_MANY_SPONSORING, from redeeming pool shares).
RemoveOffers(S, t, res) ==
  [ok |-> res = "SUCCESS",
   s  |-> [S EXCEPT !.offers[t] = 0, !.trust[t].liabilities = 0]]

\* doApply for SetTrustLineFlags(t, clear, set), each early return a
\* failure.  The trust-to-self checks (lines 65 and 78) cannot hold: the
\* trustor is never the source.
TrustFlagsDoApply(S, t, clear, set, res) ==
  LET line     == S.trust[t]
      expected == ExpectedFlagValue(line.flags, clear, set)
      removed  == RemoveOffers(S, t, res)
      after    == IF ShouldRemoveOffers(line.flags, expected) THEN removed
                  ELSE [ok |-> TRUE, s |-> S]
  IN  CASE ~IsAuthRevocationValid(clear)      -> [ok |-> FALSE, s |-> S]
        [] line = NoTrustLine                 -> [ok |-> FALSE, s |-> S]
        [] ~IsTrustLineFlagsValid(expected)   -> [ok |-> FALSE, s |-> S]
        [] ~after.ok                          -> [ok |-> FALSE, s |-> S]
        [] OTHER ->
             [ok |-> TRUE,
              s  |-> [after.s EXCEPT !.trust = SetFlagValue(after.s.trust, t, expected)]]

-----------------------------------------------------------------------------
State == [trust |-> trust, offers |-> offers]

\* The issuer applies SetTrustLineFlags; a failure leaves the ledger as it was.
SetTrustLineFlags(t, clear, set, res) ==
  LET r == TrustFlagsDoApply(State, t, clear, set, res)
  IN  /\ ops < MaxOps
      /\ SetTrustLineFlagsCheckValid(clear, set)
      /\ trust' = r.s.trust
      /\ offers' = r.s.offers
      /\ ops' = ops + 1
      /\ UNCHANGED authRevocable

\* ManageOffer creating an offer: both sides must be authorized, so the
\* line must carry AUTHORIZED; the offer's liabilities go on the line.
ManageOfferCreate(t) ==
  /\ ops < MaxOps
  /\ trust[t] # NoTrustLine /\ "AUTHORIZED" \in trust[t].flags
  /\ offers[t] < MaxOffers
  /\ offers' = [offers EXCEPT ![t] = @ + 1]
  /\ trust' = [trust EXCEPT ![t].liabilities = @ + 1]
  /\ ops' = ops + 1
  /\ UNCHANGED authRevocable

\* ManageOffer deleting an offer (no authorization needed).
ManageOfferDelete(t) ==
  /\ ops < MaxOps
  /\ offers[t] > 0
  /\ offers' = [offers EXCEPT ![t] = @ - 1]
  /\ trust' = [trust EXCEPT ![t].liabilities = @ - 1]
  /\ ops' = ops + 1
  /\ UNCHANGED authRevocable

\* SetOptions on the issuer toggling AUTH_REVOCABLE.
SetAuthRevocable(b) ==
  /\ ops < MaxOps
  /\ authRevocable' = b
  /\ ops' = ops + 1
  /\ UNCHANGED <<trust, offers>>

\* The flag values a trust line in the ledger can have.
ValidFlagSets == {f \in SUBSET AllFlags : ~(AuthFlags \subseteq f)}

Init ==
  /\ authRevocable \in BOOLEAN
  /\ trust \in [Trustors -> {NoTrustLine}
                             \cup [flags : ValidFlagSets, liabilities : {0}]]
  /\ offers = [t \in Trustors |-> 0]
  /\ ops = 0

Next ==
  \/ \E t \in Trustors, clear, set \in SUBSET AllFlags,
        res \in {"SUCCESS", "LOW_RESERVE", "TOO_MANY_SPONSORING"} :
       SetTrustLineFlags(t, clear, set, res)
  \/ \E t \in Trustors : ManageOfferCreate(t)
  \/ \E t \in Trustors : ManageOfferDelete(t)
  \/ \E b \in BOOLEAN : SetAuthRevocable(b)

Spec == Init /\ [][Next]_vars

-----------------------------------------------------------------------------
\* Types, and no trust line is ever both AUTHORIZED and MAINTAIN (the
\* state calcExpectedFlagValue must refuse with INVALID_STATE).
TypeOK ==
  /\ authRevocable \in BOOLEAN
  /\ \A t \in Trustors :
       trust[t] = NoTrustLine
       \/ /\ trust[t] \in [flags : SUBSET AllFlags, liabilities : Nat]
          /\ trust[t].flags \in ValidFlagSets
  /\ offers \in [Trustors -> 0..MaxOffers]
  /\ ops \in 0..MaxOps

\* A trustor has offers in the asset only while its trust line is
\* authorized at least to maintain liabilities: whatever sequence of
\* downgrades (AUTHORIZED to MAINTAIN), revocations, failed offer removals
\* and AUTH_REVOCABLE changes the issuer goes through, doApply removes the
\* offers of a line that loses its last authorization flag.
OffersOnlyWhileAuthorizedToMaintain ==
  \A t \in Trustors :
    offers[t] > 0 => trust[t] # NoTrustLine
                     /\ IsAuthorizedToMaintainLiabilities(trust[t].flags)

=============================================================================
