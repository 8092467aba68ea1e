SPECIFICATION FairSpec
CONSTANTS
  a = a  b = b  c = c
  Path = {a, b, c}
  N = 3
  Plan <- PlanThree
  MaxFaults = 4
  MaxMeddles = 3
  ProbeFaults = FALSE
INVARIANTS
  OutcomeHonest
  Recoverable
  OneFaultAtomic
PROPERTIES
  ClearEditKept
  LeftoverKept
  ImplementsAllOrNothing
  CalmRunApplies
