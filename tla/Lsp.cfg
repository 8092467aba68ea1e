SPECIFICATION Spec
CONSTANTS
  t1 = t1  t2 = t2  t3 = t3  outer = outer  inner = inner  d1 = d1
  Task = {t1, t2, t3}
  Doc = {d1}
  Folder = {outer, inner}
  Opened = {outer}
  Home <- NestedHome
  Depth <- FolderDepth
  MaxConfig = 3
  OnSave = {1}
  MaxVersion = 2
  MaxReloads = 1
  MaxMoves = 2
  Sessions <- ThreeSessions
SYMMETRY TaskSymmetry
INVARIANTS
  CurrentIdIsCurrent
  FoldersCurrent
