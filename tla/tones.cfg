SPECIFICATION Spec
CONSTANTS
  Calls = {c1}
  MaxDigits = 1
  MaxCommands = 2
  MaxMedia = 2
  MaxRestarts = 1
CHECK_DEADLOCK FALSE
INVARIANTS
  TypeOK
  MutedHasTimer
  ListedExist
  NoLostPort
PROPERTIES
  DigitsTaken
  LocalReleased
  MicrophoneReturns
