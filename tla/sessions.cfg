SPECIFICATION FairSpec
CONSTANTS
  a = a
  b = b
  setupA = setupA
  wsA = wsA
  callA = callA
  callB = callB
  Clients = {a, b}
  Setup = {setupA}
  Ws = {wsA}
  Callers = {callA, callB}
  Owner <- MCOwner
  MaxConns = 3
  MaxFaults = 1
INVARIANTS TypeOK TokenIsSession InitializedIsRegistered OrderlyIsReachable
PROPERTIES Reconnects CallsRecover

