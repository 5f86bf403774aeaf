SPECIFICATION Spec
CONSTANTS
  Name = {f, g}
  NoName = NoName
  Data = {a, b}
  EntryCount = 2
  PerSector = 1
  DataSectors = 4
  MaxLen = 3
  Faults = {"write"}
INVARIANTS
  UniqueNames
PROPERTIES
  ImplementsStore
SYMMETRY Symmetry
