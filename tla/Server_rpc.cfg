SPECIFICATION Spec
CONSTANTS
  s1 = s1
  r1 = r1
  c1 = c1
  k1 = k1
  a = a
  None = None
  Listeners = {s1, r1}
  Raw = {r1}
  Clients = {c1}
  ConnectionClose = {c1}
  MaxFetches = 2
  Outcomes = {"body", "noBody", "rejects"}
  Routes = {a}
  HttpRoutes = {a}
  Stops = {k1}
INVARIANTS NoExchangeLeaks ServeJoinsHandlers StopMeansStopped
PROPERTY StopEndsStart
CHECK_DEADLOCK FALSE
