\* Two relays, a target the last relay can dial itself, two bytes each way,
\* one fault.
SPECIFICATION Spec
CONSTANTS
  r1 = r1
  r2 = r2
  lst = lst
  Peer = {r1, r2, lst}
  NoPeer = NoPeer
  RelayPeers = {r1, r2}
  Listener = lst
  JumpAddrs <- TwoRelays
  TargetAddr <- DirectTarget
  AllowedPeers = {}
  Modes = {"netcat", "forward"}
  Known <- NoConnections
  MaxAttempts = 2
  DialCap = 1
  MaxHops = 2
  MaxSent = 2
  MaxFaults = 1
INVARIANTS
  IInv
  OkMeansBridged
  ErrorIsGenuine
  ChainShrinks
  FramesInStep
PROPERTIES
  PipeRefinement
CHECK_DEADLOCK FALSE
