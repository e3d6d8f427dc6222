SPECIFICATION FairSpec
CONSTANTS
  Clients = {a, b}
  Parents = {}
  Unfit = {}
  NoClient = NoClient
  HandlerCount = 1
  MaxClients = 1
  MaxMsq = 1
  Returning = {}
  MaxVisits = 1
  SigintSent = FALSE
  PauseSent = TRUE
INVARIANTS NobodyReleasedEarly
PROPERTIES VisitEnds
CHECK_DEADLOCK FALSE
