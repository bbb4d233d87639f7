\* Three hops over two connected relays: r1 serves two tasks of the same chain, and
\* the second may find the dial channel full of the first one's command.  The
\* listener allows r2, which it never hears of: it refuses the last relay, r1.
SPECIFICATION Spec
CONSTANTS
  r1 = r1
  r2 = r2
  lst = lst
  Peer = {r1, r2, lst}
  NoPeer = NoPeer
  RelayPeers = {r1, r2}
  Listener = lst
  JumpAddrs <- ThereAndBack
  TargetAddr <- DirectTarget
  AllowedPeers = {r2}
  Modes = {"netcat"}
  Known <- RelaysConnected
  MaxAttempts = 2
  DialCap = 1
  MaxHops = 3
  MaxSent = 0
  MaxFaults = 1
PROPERTIES
  LossReachesDialer
  ChainReleased
CHECK_DEADLOCK FALSE
