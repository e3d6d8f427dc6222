SPECIFICATION Spec
CONSTANTS
  Clients = {a}
  Parents = {}
  Unfit = {}
  NoClient = NoClient
  HandlerCount = 1
  MaxClients = 1
  MaxMsq = 2
  Returning = {}
  MaxVisits = 1
  SigintSent = FALSE
  PauseSent = TRUE
INVARIANTS AwakeForMessages
CHECK_DEADLOCK FALSE
