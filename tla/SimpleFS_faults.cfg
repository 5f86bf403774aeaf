SPECIFICATION Spec
CONSTANTS
  Name = {f, g}
  NoName = NoName
  Data = {a, b}
  EntryCount = 3
  PerSector = 2
  DataSectors = 4
  MaxLen = 2
  Faults = {"read", "write", "lost"}
INVARIANTS
  NoSharedSectors
PROPERTIES
  OthersUntouched
  GrowthKeepsOld
SYMMETRY Symmetry
