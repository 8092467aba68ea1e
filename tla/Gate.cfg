SPECIFICATION Spec
CONSTANTS
  t1 = t1  t2 = t2  t3 = t3  t4 = t4
  Thread = {t1, t2, t3, t4}
  Limit = 2
  MaxScans = 2
INVARIANTS
  Bounded
  NoIdlePermit
PROPERTIES
  AllScanned
