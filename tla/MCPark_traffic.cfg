SPECIFICATION Spec
CONSTANTS
  Clients = {a, b, v}
  Vips = {v}
  Parents = {b}
  NoClient = NoClient
  ParkSize = 2
  MaxMsq = 2
  MqOpenMayFail = FALSE
  SigTermSent = FALSE
  SigintSent = FALSE
INVARIANTS
  CapacityRespected
  NoIdleSpace
PROPERTY VipsFirst
\* The park stays open: once the last client has gone nothing happens.
CHECK_DEADLOCK FALSE
