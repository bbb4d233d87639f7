\* The target is the circuit address the listener printed, as the README has it.
SPECIFICATION Spec
CONSTANTS
  r1 = r1
  r2 = r2
  lst = lst
  Peer = {r1, r2, lst}
  NoPeer = NoPeer
  RelayPeers = {r1, r2}
  Listener = lst
  JumpAddrs <- TwoRelays
  TargetAddr <- CircuitTarget
  AllowedPeers = {}
  Modes = {"netcat", "forward"}
  Known <- Registered
  MaxAttempts = 2
  DialCap = 1
  MaxHops = 2
  MaxSent = 1
  MaxFaults = 0
INVARIANTS
  TunnelStreamReachesListener
CHECK_DEADLOCK FALSE
