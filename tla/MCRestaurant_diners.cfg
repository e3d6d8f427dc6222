SPECIFICATION Spec
CONSTANTS
  Clients = {a, b}
  Parents = {b}
  Parkgoers = {b}
  Outsiders = {a}
  NoClient = NoClient
  MaxClients = 2
  MaxMsq = 1
  Returning = {a}
  MaxVisits = 2
  QueueFails = TRUE
  SigintSent = FALSE
  PauseSent = TRUE
INVARIANTS TypeOK SeatsRespected NoStaleRelease EventCovered RosterHonest
CHECK_DEADLOCK FALSE
