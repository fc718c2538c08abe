SPECIFICATION Spec
CONSTANTS
  Incoming = {}
  Outgoing = {o1, o2}
  Numbers = {n1, n2}
  None = None
  NoTab = NoTab
  NoCall = NoCall
  Forwarding = "off"
  SingleMode = FALSE
  CallWaiting = TRUE
  MaxConcurrent = 0
  LocalDTMF = TRUE
  Events = {"media", "xfer"}
  MaxQueue = 2
  Backlog = 3
CHECK_DEADLOCK FALSE
SYMMETRY Symmetry
INVARIANTS
  TypeOK
  NoDanglingUserData
  FinalMessageIsLast
  NoSharedUserData
