\* The target names no peer: only the last relay finds out.
SPECIFICATION Spec
CONSTANTS
  r1 = r1
  r2 = r2
  lst = lst
  Peer = {r1, r2, lst}
  NoPeer = NoPeer
  RelayPeers = {r1, r2}
  Listener = lst
  JumpAddrs <- TwoRelays
  TargetAddr <- NamelessTarget
  AllowedPeers = {}
  Modes = {"netcat", "forward"}
  Known <- NoConnections
  MaxAttempts = 2
  DialCap = 1
  MaxHops = 2
  MaxSent = 1
  MaxFaults = 1
PROPERTIES
  DialerResolves
  ChainReleased
CHECK_DEADLOCK FALSE
