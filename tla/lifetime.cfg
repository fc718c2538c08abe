SPECIFICATION Spec
CONSTANTS
  Incoming = {i1}
  Outgoing = {o1}
  Numbers = {n1, n2}
  None = None
  NoTab = NoTab
  NoCall = NoCall
  Forwarding = "off"
  SingleMode = FALSE
  CallWaiting = TRUE
  MaxConcurrent = 0
  LocalDTMF = TRUE
  Events = {}
  MaxQueue = 1
  Backlog = 2
CHECK_DEADLOCK FALSE

PROPERTIES
  EndedCallsForgotten
  ImplementsLifetime
