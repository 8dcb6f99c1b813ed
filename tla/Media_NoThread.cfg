SPECIFICATION Spec
CONSTANTS
  Sessions = {s1, s2}
  Tids = {t1, t2, t3}
  SourceMayFail = FALSE
  CreateMayFail = FALSE
  SenderJoinMayFail = FALSE
  NULL = NULL
CHECK_DEADLOCK FALSE
INVARIANT SessionHasMediaThread
