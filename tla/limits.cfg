SPECIFICATION Spec
CONSTANTS
  Incoming = {i1, i2}
  Outgoing = {}
  Numbers = {n1, n2}
  None = None
  NoTab = NoTab
  NoCall = NoCall
  Forwarding = "now"
  SingleMode = FALSE
  CallWaiting = FALSE
  MaxConcurrent = 0
  LocalDTMF = TRUE
  Events = {}
  MaxQueue = 1
  Backlog = 3
CHECK_DEADLOCK FALSE
SYMMETRY Symmetry
INVARIANTS
  OneOfferAtATime
