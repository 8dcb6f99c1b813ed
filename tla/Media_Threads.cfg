SPECIFICATION FairSpec
CONSTANTS
  Sessions = {s1, s2}
  Tids = {t1, t2}
  SourceMayFail = TRUE
  CreateMayFail = TRUE
  SenderJoinMayFail = TRUE
  NULL = NULL
CHECK_DEADLOCK FALSE
INVARIANTS
  SourceHasOneUser
  StartedTellsThread
  FreedUnderMediaOnlyByLateStart
  JoinHasATarget
  JoinHangsOnlyWhenOvertaken
PROPERTIES
  JoinReturns
  RoundsSpec
