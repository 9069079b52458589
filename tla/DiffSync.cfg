\* Five ids, pages of two, three changes and a failed call.
CONSTANTS
  Ids = {1, 2, 3, 4, 5}
  Initial = {1, 2, 4}
  Limit = 2
  MaxEdits = 3
  MaxFaults = 1
SPECIFICATION Spec
INVARIANTS
  TypeOK
  CursorMatchesCopy
  FallbackComplete
PROPERTIES
  DropsNeedDeletion
  Converges
