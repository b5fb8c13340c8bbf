SPECIFICATION IntegritySpec
CONSTANTS
  l1 = l1
  l2 = l2
  Loader = {l1, l2}
  File <- MCFile
  Order <- MCOrder
  Parents <- MCParents
  Lead <- MCLead
  Basis <- MCBasis
  RawState <- MCRawState
  KeysOf <- MCKeysOf
  Joined = "accounts"
  MaxBusy = 1
  None = None
INVARIANTS
  CommittedIsOneDataset
  CirclesHaveACause
  PassedWasTrue
  SoundFoundationPasses
PROPERTIES
  OnlyReplaceOverwrites
  DoomedLoadsFail
SYMMETRY Symmetry
