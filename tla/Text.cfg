SPECIFICATION Spec
CONSTANTS
  Pieces <- MCPieces
  Alphabets <- MCAlphabets
  Profiles <- MCProfiles
  MaxPieces <- MCMaxPieces
INVARIANTS
  CodeStays
  NoHole
  BlockKeepsItsText
  ProseStays
  ReflowSettles
  ProfileSettles
CHECK_DEADLOCK FALSE
