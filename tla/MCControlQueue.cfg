CONSTANTS
  p1 = p1
  p2 = p2
  p3 = p3
  c1 = c1
  c2 = c2
  Producers <- MCProducers
  Commands <- MCCommands
  Clients <- MCClients
  Traffic <- MCTraffic
  Silent = {}
  ReqMax = 5
  MaxFreezes = 1
SPECIFICATION MCFairSpec
INVARIANTS
  NoDanglingPointer
  CommandsRunOnce
  RequestsAreHonoured
PROPERTIES
  ImplementsService
  NobodyWaitsForever
  ServedOrReleased
