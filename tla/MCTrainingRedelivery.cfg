CONSTANTS
  w1 = w1  w2 = w2  b1 = b1  i1 = i1  i2 = i2  i3 = i3  i4 = i4  i5 = i5  p1 = p1  p2 = p2
  Workers = {w1, w2}
  Bridges = {}
  Instances = {i1}
  Posts = {p1}
  Providers = {"vast", "hub", "local", "edge"}
  ServiceReplies = {"ok", "refused"}
  NoInstance = NoInstance
  MaxRetries = 0
  DeadPolls = 1
  MaxPolls = 1
  MaxRedeliveries = 1
  MaxStops = 1
SPECIFICATION Spec
SYMMETRY Symmetry
INVARIANTS TypeOK InstanceAccounted
PROPERTIES StopGuarded StopFinal
CHECK_DEADLOCK FALSE
