SPECIFICATION Spec
CONSTANTS
  Clients = {a, b}
  Vips = {}
  Parents = {}
  NoClient = NoClient
  ParkSize = 1
  MaxMsq = 2
  MqOpenMayFail = FALSE
  SigTermSent = FALSE
  SigintSent = FALSE
INVARIANT AtMostNPeople
CHECK_DEADLOCK FALSE
