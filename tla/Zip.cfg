SPECIFICATION Spec
CONSTANTS
  Files = 2
  MaxLines = 3
  Trees <- TreesWithin
  ShortKinds = {"code", "prose", "remove", "doubtful"}
  ShortLines = 2
  LongKinds = {"prose", "remove"}
  LongLines = 3
  DeepKinds = {}
  DeepLines = 0
INVARIANT WrittenAsAnswered
