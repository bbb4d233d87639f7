\* Every kind of target; two listeners share the code, with a stranger;
\* calm, or with deadlines and a fault.
SPECIFICATION Spec
CONSTANTS
  l1 = l1
  l2 = l2
  tcp = tcp
  quic = quic
  s1 = s1
  Dialer = Dialer
  Relay = Relay
  Nobody = Nobody
  Kinds = {"code", "circuit", "mdns"}
  Listeners = {l1, l2}
  TargetPeer = l1
  Paired = {l1, l2}
  Strangers = {s1}
  Addrs <- BothTransports
  Reachable = {tcp, quic}
  Calms = {TRUE, FALSE}
  MaxFaults = 1
INVARIANTS
  IInv
PROPERTIES
  FindsItsPeer
  SetupEnds
  TargetReached
CHECK_DEADLOCK FALSE
