\* Texts of two peers.
SPECIFICATION Spec
CONSTANTS
  Peer = {r, l}
  NoPeer = NoPeer
  MaxLen = 5
  MaxOther = 4
INVARIANTS
  ParsedBaseIsTheRelay
  TargetsLeadBack
  PromptsAgree
CHECK_DEADLOCK FALSE
