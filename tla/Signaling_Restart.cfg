SPECIFICATION IceFairSpec
CONSTANTS
  Clients = {c1, c2}
  IceAgents = {a1, a2}
  MaxServers = 3
  MaxUris = 2
  NULL = NULL
CHECK_DEADLOCK FALSE
INVARIANTS
  NoOrphanedClient
  MessageUsesLiveClient
  IceServersAreSound
PROPERTIES
  OnlyFailedClientsAreRestarted
  FailedClientIsRestarted
