CONSTANTS
  t1 = t1  t2 = t2  f1 = f1  f2 = f2  c1 = c1  c2 = c2  j1 = j1  j2 = j2  j3 = j3
  Tenants = {t1}
  Broken = {}
  Frames = {f1}
  Checks = {c1}
  Jobs = {j1, j2}
  Percent = 60
  MaxTime = 1
  MaxFaults = 0
  None = None
SPECIFICATION Spec
INVARIANT OneJobPerGrowth
CHECK_DEADLOCK FALSE
