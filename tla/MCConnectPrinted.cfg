\* A dialer that starts when the code is printed.
SPECIFICATION Spec
CONSTANTS
  l1 = l1
  l2 = l2
  tcp = tcp
  quic = quic
  s1 = s1
  Dialer = Dialer
  Relay = Relay
  Nobody = Nobody
  Kinds = {"code"}
  Listeners = {l1}
  TargetPeer = l1
  Paired = {l1}
  Strangers = {}
  Addrs <- BothTransports
  Reachable = {tcp, quic}
  Calms = {TRUE}
  MaxFaults = 0
PROPERTIES
  PrintedCodeConnects
CHECK_DEADLOCK FALSE
