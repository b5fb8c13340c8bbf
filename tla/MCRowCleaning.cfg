SPECIFICATION Spec
CONSTANTS
  File <- MCFile
  Order <- MCOrder
  Schemas <- MCSchemas
  Raw <- MCRaw
  Early = 0
  Largest = 2
  None = None
INVARIANTS
  AcceptedAreTheSoundRows
  CleaningIsIdempotent
  AcceptedDatasetLoads
  AuditForesees
CHECK_DEADLOCK FALSE
