SPECIFICATION Spec
CONSTANTS
  Incoming = {i1}
  Outgoing = {o1}
  Numbers = {n1, n2}
  None = None
  NoTab = NoTab
  NoCall = NoCall
  Forwarding = "off"
  SingleMode = TRUE
  CallWaiting = TRUE
  MaxConcurrent = 0
  LocalDTMF = TRUE
  Events = {"media", "soundEnd"}
  MaxQueue = 2
  Backlog = 3
CHECK_DEADLOCK FALSE
SYMMETRY Symmetry
INVARIANTS
  RingtoneForSomebody
  TabAgreement
  EstablishedCallReachable
