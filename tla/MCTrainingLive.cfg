CONSTANTS
  w1 = w1  w2 = w2  b1 = b1  i1 = i1  i2 = i2  i3 = i3  i4 = i4  i5 = i5  p1 = p1  p2 = p2
  Workers = {w1}
  Bridges = {b1}
  Instances = {i1, i2, i3}
  Posts = {}
  Providers = {"vast", "local"}
  ServiceReplies = {"unheard"}
  NoInstance = NoInstance
  MaxRetries = 1
  DeadPolls = 2
  MaxPolls = 2
  MaxRedeliveries = 0
  MaxStops = 1
SPECIFICATION FairSpec
INVARIANTS RentalsBounded OneModelUnlessRaced
PROPERTY InstanceReleased
CHECK_DEADLOCK FALSE
