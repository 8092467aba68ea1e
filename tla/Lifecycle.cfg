CONSTANTS
  MaxRequests = 4
  Settings = {"good", "off", "lost", "broken"}
  Enabled = {"good", "lost", "broken"}
  Found = {"good", "broken", "off"}
  Usable = {"good", "lost", "off"}
SPECIFICATION FairSpec
INVARIANTS NoServerLeftBehind QuietIsSettled DeactivationStops
PROPERTY EveryRequestSettles
CHECK_DEADLOCK FALSE
