SPECIFICATION FairSpec
CONSTANTS
  Clients = {a}
  Parents = {}
  Unfit = {}
  NoClient = NoClient
  HandlerCount = 1
  MaxClients = 1
  MaxMsq = 2
  Returning = {a}
  MaxVisits = 2
  SigintSent = TRUE
  PauseSent = FALSE
PROPERTIES AttractionEnds
CHECK_DEADLOCK FALSE
