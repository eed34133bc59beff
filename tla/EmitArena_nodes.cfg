SPECIFICATION Spec
CONSTANTS
  BatchTag = 10
  MaxNodes = 1
  MaxBatch = 3
  MaxItems = 2
  MaxDecls = 1
  page = page
  Paths = {page}
  Used <- Nodewise
INVARIANTS NothingLostUnseen ArraysHold MovedOnce
PROPERTIES StickyStops
\* The plugin has returned.
CHECK_DEADLOCK FALSE
