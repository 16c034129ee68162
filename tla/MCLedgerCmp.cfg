CONSTANTS
  Ids <- MCIds
  Bodies <- MCBodies
SPECIFICATION Spec
INVARIANTS
  BucketEntryIdCmpIsIdentityOrder
