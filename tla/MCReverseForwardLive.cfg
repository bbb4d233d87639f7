\* A -R run, a later run of its identity in another mode, and a -R run of a
\* peer that is not allowed; two clients.
SPECIFICATION Spec
CONSTANTS
  r1 = r1
  r2 = r2
  r3 = r3
  d1 = d1
  d2 = d2
  p1 = p1
  p2 = p2
  t1 = t1
  t2 = t2
  t3 = t3
  c1 = c1
  c2 = c2
  Run = {r1, r2, r3}
  Client = {c1, c2}
  Peer = {d1, d2}
  Who <- WhoIs
  ReverseRuns = {r1, r3}
  Ports = {p1, p2}
  Port <- BindPort
  Targets = {t1, t2, t3}
  Target <- ForwardTo
  AllowedPeers = {d1}
  QueueCap = 1
  MaxFaults = 1
  Nobody = Nobody
PROPERTIES
  AskAnswered
  QueuedIsServed
  ClientResolved
  BridgeUnwinds
CHECK_DEADLOCK FALSE
