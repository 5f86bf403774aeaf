SPECIFICATION Spec
CONSTANTS
  Kernel = {0, 13}
  Heap = {1, 2, 3, 4, 5}
  Area = {10, 11, 12}
  Byte = {0, 1}
  File <- MCFile
PROPERTIES
  LoadedAsSaid
  KeepsToItsOwn
