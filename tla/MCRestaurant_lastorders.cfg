SPECIFICATION FairSpec
CONSTANTS
  Clients = {a, b}
  Parents = {}
  Parkgoers = {b}
  Outsiders = {a}
  NoClient = NoClient
  MaxClients = 2
  MaxMsq = 2
  Returning = {}
  MaxVisits = 1
  QueueFails = FALSE
  SigintSent = TRUE
  PauseSent = FALSE
INVARIANTS RosterHonest
PROPERTIES VisitEnds RestaurantEnds
CHECK_DEADLOCK FALSE
