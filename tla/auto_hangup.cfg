SPECIFICATION Spec
CONSTANTS
  NCalls = 2
  Outgoing = {1}
  SameParty <- FirstTwo
  MaxRec = 1
  ACChoices <- MCOff
  AutoRecording = FALSE
  AutoHangUp = TRUE
  Events = {}
  MaxOps = 0
  MaxReinvite = 0
  MaxQueue = 2
CHECK_DEADLOCK FALSE
INVARIANTS
  TimerInLiveObject
