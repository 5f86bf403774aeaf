SPECIFICATION FairSpec
CONSTANTS
  Key = {k1, k2}
  Enter = Enter
  NoKey = NoKey
  File = {f, g}
  NoFile = NoFile
  KEYBOARD_QUEUE_SIZE = 3
  MAX_FD = 1
  MaxPort = 2
INVARIANTS
  TypeOK
  NotReentered
  ServiceLasts
  OpenFilesStay
  ImagesFreed
PROPERTIES
  TypeAheadOnly
  ImplementsQueue
  CommandsComeBack
  KeysAreTaken
