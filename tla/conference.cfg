SPECIFICATION Spec
CONSTANTS
  NCalls = 3
  Outgoing = {2, 3}
  SameParty <- NoPairs
  MaxRec = 2
  ACChoices <- MCOff
  AutoRecording = TRUE
  AutoHangUp = TRUE
  Events = {"mergeAll", "AC", "inviteFails", "remoteHold", "reinviteFails"}
  MaxOps = 2
  MaxReinvite = 1
  MaxQueue = 2
CHECK_DEADLOCK FALSE
INVARIANTS
  TypeOK
  ConversationsApart
  NoLonelyMember
  RecorderOpen
  RecorderReleased
  TimerInLiveObject
PROPERTIES
  EndReachesAll
  SeparatesAll
