SPECIFICATION Spec
CONSTANTS
  accounts = accounts
  addresses = addresses
  Relation = {accounts, addresses}
  MaxChanges = 2
INVARIANTS
  ProvisionedIsBounded
  RefusedForCause
SYMMETRY Symmetry
