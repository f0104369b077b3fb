SPECIFICATION LockSpec
CONSTANTS
  Tasks = {t1, t2, t3}
INVARIANTS
  LockTypeOK
  CallsAlone
  NoCircle
