CONSTANTS
  c1 = c1
  c2 = c2
  Commands <- MCCommands
  Names <- MCNames
  Builds <- MCBuilds
SPECIFICATION Spec
SYMMETRY Alike
INVARIANTS  UpdateKeepsReaders
PROPERTY OthersKept
