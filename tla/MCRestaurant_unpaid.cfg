SPECIFICATION Spec
CONSTANTS
  Clients = {a}
  Parents = {}
  Parkgoers = {a}
  Outsiders = {a}
  NoClient = NoClient
  MaxClients = 2
  MaxMsq = 1
  Returning = {}
  MaxVisits = 1
  QueueFails = TRUE
  SigintSent = FALSE
  PauseSent = FALSE
PROPERTIES DinersPay
CHECK_DEADLOCK FALSE
