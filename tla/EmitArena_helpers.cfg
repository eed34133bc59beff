SPECIFICATION Spec
CONSTANTS
  BatchTag = 10
  MaxNodes = 1
  MaxBatch = 4
  MaxItems = 2
  MaxDecls = 2
  page = page
  Paths = {}
  Used <- Helpers
INVARIANTS BodiesResolved AcceptedWhole

\* The plugin has returned.
CHECK_DEADLOCK FALSE
