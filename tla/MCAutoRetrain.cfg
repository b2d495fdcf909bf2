CONSTANTS
  t1 = t1  t2 = t2  f1 = f1  f2 = f2  c1 = c1  c2 = c2  j1 = j1  j2 = j2  j3 = j3
  Tenants = {t1, t2}
  Broken = {t2}
  Frames = {f1, f2}
  Checks = {c1, c2}
  Jobs = {j1, j2}
  Percent = 60
  MaxTime = 1
  MaxFaults = 1
  None = None
SPECIFICATION FairSpec
INVARIANTS TypeOK MessagesHaveRows
PROPERTY GrowthIsTrained
CHECK_DEADLOCK FALSE
