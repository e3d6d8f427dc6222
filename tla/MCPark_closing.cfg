SPECIFICATION Spec
CONSTANTS
  Clients = {a, b}
  Vips = {a}
  Parents = {b}
  NoClient = NoClient
  ParkSize = 2
  MaxMsq = 2
  MqOpenMayFail = TRUE
  SigTermSent = TRUE
  SigintSent = TRUE
INVARIANTS
  TypeOK
  CapacityRespected
  CounterMatches
  NoLostWakeup
  NoGhosts
  ReplySlotFree
PROPERTY KeepsPromise
