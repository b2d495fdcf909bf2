CONSTANTS
  m1 = m1  m2 = m2  m3 = m3  r1 = r1  r2 = r2
  Models = {m1, m2, m3}
  Usable = {m1, m2}
  Requests = {r1, r2}
  MaxChanges = 3
  NoModel = NoModel
SPECIFICATION FairSpec
INVARIANTS TypeOK OneDeployment Followed
PROPERTY EventuallyFollowed
CHECK_DEADLOCK FALSE
