SPECIFICATION Spec
CONSTANTS
  KERNEL_HEAP_START = 1048576
  KERNEL_HEAP_SIZE = 80
  Request = {0, 3, 8, 20, 28}
INVARIANTS
  TypeOK
  Tiled
  HeldIsUsed
  NoFreeNeighbours
  WalksAgree
PROPERTIES
  ImplementsAllocator
