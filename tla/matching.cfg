\* Three overlapping requests of two clients, every fault, fair handlers.
CONSTANTS
  a = a
  b = b
  r1 = r1
  r2 = r2
  r3 = r3
  Requests = {r1, r2, r3}
  Clients = {a, b}
  RequestSizes = {0, 1, 2, 3}
  MaxRequestSize = 2
  MaxInFlight = 3
  Faults = {"send", "db", "crash", "expiry"}
SPECIFICATION FairSpec
INVARIANTS
  TypeOK
  SingleHolder
  SizesAddUp
  RowsWereAnnounced
  OneSidedRowsExplained
PROPERTIES
  ImplementsLedger
  
