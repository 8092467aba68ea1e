CONSTANTS
  File <- MCFile
  Starts <- MCStarts
  SaveKinds <- MCSaveKinds
  Saves = 1
  Meddles = 2
SPECIFICATION Spec
INVARIANTS ExistingCommentsStay
PROPERTIES MovesBothSides
