SPECIFICATION Spec
CONSTANTS
  Clients = {a, b}
  Parents = {b}
  Unfit = {}
  NoClient = NoClient
  HandlerCount = 1
  MaxClients = 2
  MaxMsq = 5
  Returning = {a}
  MaxVisits = 2
  SigintSent = TRUE
  PauseSent = FALSE
INVARIANTS TypeOK RideCapacity NobodyReleasedEarly EventCovered RosterHonest
CHECK_DEADLOCK FALSE
