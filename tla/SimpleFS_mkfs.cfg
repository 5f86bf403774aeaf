SPECIFICATION Spec
CONSTANTS
  Name = {f, g}
  NoName = NoName
  Data = {a, b}
  EntryCount = 3
  PerSector = 2
  DataSectors = 3
  MaxLen = 2
  Faults = {"write"}
INVARIANTS
  FormattedIsEmpty
