SPECIFICATION Spec
CONSTANTS
  Files = 2
  MaxLines = 7
  Trees <- TreesWithin
  ShortKinds = {"blank", "code", "keep", "remove", "swallow", "tail", "rewrite"}
  ShortLines = 2
  LongKinds = {"blank", "keep", "remove", "tail"}
  LongLines = 5
  DeepKinds = {"blank", "remove"}
  DeepLines = 7
INVARIANTS
  AnswersAreHonoured
  NoNewBlankRun
