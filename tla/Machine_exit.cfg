SPECIFICATION FairSpec
CONSTANTS
  Key = {k1}
  Enter = Enter
  NoKey = NoKey
  File = {f}
  NoFile = NoFile
  KEYBOARD_QUEUE_SIZE = 2
  MAX_FD = 0
  MaxPort = 1
PROPERTIES
  ExitEnds
