SPECIFICATION LifeFairSpec
CONSTANTS
  Certs = {c1, c2, c3, c4}
  MaxCerts = 1
  MaxRetry = 2
  SntpRetries = 3
  NULL = NULL
CHECK_DEADLOCK FALSE
INVARIANTS
  CertificatesAreSound
  NothingLeft
  UsersHaveTheirParts
  FaultsAreKnown
  QuitTellsTruth
  DestroyIsUndisturbed
  FailBitMeansExhausted
PROPERTIES
  QuitEndsApp
  WifiWaitEnds
