SPECIFICATION Spec
CONSTANTS
  File <- MCFile
  Order <- MCOrder
  Basis <- MCBasis
  RawState <- MCRawState
  Unclean <- MCUnclean
  MaxEdits = 2
  None = None
INVARIANTS
  PublishedFromOneRawState
  FailureKeepsOutput
PROPERTY ImplementsDirectory
