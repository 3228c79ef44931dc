\* Two overlapping requests of two clients and no fault: both end in the queue.
CONSTANTS
  a = a
  b = b
  r1 = r1
  r2 = r2
  r3 = r3
  Requests = {r1, r2}
  Clients = {a, b}
  RequestSizes = {1, 2}
  MaxRequestSize = 2
  MaxInFlight = 3
  Faults = {}
SPECIFICATION Spec
INVARIANT NoMatchLeftWaiting
