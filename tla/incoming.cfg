SPECIFICATION Spec
CONSTANTS
  Incoming = {i1, i2}
  Outgoing = {}
  Numbers = {n1, n2}
  None = None
  NoTab = NoTab
  NoCall = NoCall
  Forwarding = "delay"
  SingleMode = FALSE
  CallWaiting = TRUE
  MaxConcurrent = 0
  LocalDTMF = TRUE
  Events = {"command"}
  MaxQueue = 2
  Backlog = 4
CHECK_DEADLOCK FALSE
SYMMETRY Symmetry
INVARIANTS
  RingingWindows
  LogTellsOutcome
  ForwardingNotStuck
PROPERTIES
  WindowKeptWhileWaiting
