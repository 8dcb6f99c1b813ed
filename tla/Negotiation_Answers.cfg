SPECIFICATION FairSpec
CONSTANTS
  Sessions = {s1, s2}
  Candidates = {c1, c2}
  NULL = NULL
CHECK_DEADLOCK FALSE
INVARIANTS
  AnswerIsComplete
  NoCandidateForgotten
PROPERTIES
  AcceptedOfferIsAnswered
  ExchangeSpec
