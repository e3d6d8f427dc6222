SPECIFICATION FairSpec
CONSTANTS
  Clients = {a, b}
  Vips = {a}
  Parents = {}
  NoClient = NoClient
  ParkSize = 1
  MaxMsq = 2
  MqOpenMayFail = FALSE
  SigTermSent = FALSE
  SigintSent = TRUE
PROPERTIES EveryExitNoted ClosingTerminates
\* Deadlock is the business of MCPark_closing: here the properties say more.
CHECK_DEADLOCK FALSE
