CONSTANTS
  t1 = t1
  t2 = t2
  NoTrustLine = NoTrustLine
  Trustors <- MCTrustors
  MaxOffers = 3
  MaxOps = 14
SPECIFICATION Spec
SYMMETRY TrustorSymmetry
\* Every behaviour ends once MaxOps operations are applied.
CHECK_DEADLOCK FALSE
INVARIANTS
  TypeOK
  OffersOnlyWhileAuthorizedToMaintain
