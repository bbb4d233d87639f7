\* Each kind of session alone with early data and one fault; pairs of sessions.
SPECIFICATION Spec
CONSTANTS
  c1 = c1
  c2 = c2
  Client = {c1, c2}
  Mixes <- AllMixes
  MaxBytes <- Bytes
  MaxTyped = 2
  QueueCap = 1
  MaxFaults <- Faults
  Forwarder = Forwarder
  Listener = Listener
  Nobody = Nobody
INVARIANTS
  IInv
  OnlyEarlyBytesLost
  OnlyWholeRequests
  TypingLost
PROPERTIES
  SessionsArePipes
  HandshakeResolved
  EndIsHeard
  BytesArrive
CHECK_DEADLOCK FALSE
