SPECIFICATION Spec
CONSTANTS
  Profiles <- MCBoth
  InitialProfiles <- MCOrders
  Servers <- MCFirst
  LocalChoices <- MCOnOff
  SingleChoices <- MCOnOff
  Numbers = {n1, n2}
  NoNumber = NoNumber
  CommandProfiles <- MCNamed
  Failures <- MCFailures
  MaxOps = 4
  MaxAnswers = 3
  MaxQueue = 3
  MaxBoxes = 2
SYMMETRY MCSame
INVARIANTS
  TypeOK
  NoOrphanAccount
  AccountIsSelected
  MadeOnce
  NoNumberLeftWaiting
  PresenceAgrees
PROPERTY
  NumberKept
CHECK_DEADLOCK FALSE
