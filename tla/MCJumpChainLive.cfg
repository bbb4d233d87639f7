\* The main instance with one byte each way: what must happen, and where every
\* frame has its place.
SPECIFICATION Spec
CONSTANTS
  r1 = r1
  r2 = r2
  lst = lst
  Peer = {r1, r2, lst}
  NoPeer = NoPeer
  RelayPeers = {r1, r2}
  Listener = lst
  JumpAddrs <- TwoRelays
  TargetAddr <- DirectTarget
  AllowedPeers = {}
  Modes = {"netcat", "forward"}
  Known <- NoConnections
  MaxAttempts = 2
  DialCap = 1
  MaxHops = 2
  MaxSent = 1
  MaxFaults = 1
INVARIANTS
  PipeInv
PROPERTIES
  DialerResolves
  LossReachesDialer
  ChainReleased
CHECK_DEADLOCK FALSE
