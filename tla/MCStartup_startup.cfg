SPECIFICATION Spec
CONSTANTS
  Cashier = cashier
  Restaurant = restaurant
  Nobody = nobody
  AttractionCount = 3
  HandlerCounts <- MCHandlerCounts
  PauseSent = TRUE
  StaffTargets = {2}
  LateTargets = {}
INVARIANTS TypeOK RegistryHonest SemaphoresDisjoint Resumable LockComesBack
