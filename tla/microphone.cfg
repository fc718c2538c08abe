SPECIFICATION Spec
CONSTANTS
  Calls = {c1}
  MaxDigits = 2
  MaxCommands = 0
  MaxMedia = 2
  MaxRestarts = 0
CHECK_DEADLOCK FALSE
PROPERTIES
  MicrophoneRestored
