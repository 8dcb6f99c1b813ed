SPECIFICATION FairSpec
CONSTANTS
  Sessions = {s1, s2}
  Tids = {t1, t2}
  SourceMayFail = FALSE
  CreateMayFail = FALSE
  SenderJoinMayFail = FALSE
  NULL = NULL
CHECK_DEADLOCK FALSE
PROPERTY TerminatedIsCleanedUp
