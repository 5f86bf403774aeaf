SPECIFICATION FairSpec
CONSTANTS
  Byte = 2
  Nibble = 2
  Words = 2
  Word = {0, 1}
  Zero = 0
  Asked = {1, 6, 10}
  Faults = {"read", "write", "lost"}
INVARIANTS
  InPhase
PROPERTIES
  CallsReturn
  ImplementsIO
