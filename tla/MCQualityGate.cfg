CONSTANTS
  g1 = g1  g2 = g2  r1 = r1  r2 = r2  r3 = r3
  Pieces = {g1, g2}
  Backlog = {g2}
  Requests = {r1, r2}
  RetryLimit = 1
  MaxReworks = 1
  NoPiece = NoPiece
SPECIFICATION FairSpec
INVARIANTS TypeOK NoStageSkipped CountMatches
PROPERTIES ExportsDurably FollowsUnlessRaced ApprovedIsExported
CHECK_DEADLOCK FALSE
