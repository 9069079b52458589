\* At most two attributes at first, two edits.
CONSTANT MaxEdits = 2
SPECIFICATION Spec
INVARIANTS
  TypeOK
  CopyMeansServer
PROPERTIES
  UpdateKeepsTheRest
  EditsArrive
