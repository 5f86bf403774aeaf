SPECIFICATION FairSpec
CONSTANTS
  Space = " "
  Nul = "0"
  MaxArgs = 4
  MaxFiles = 1
  SIMPLEFS_MAX_NAME = 3
  Line <- MCLine
  Named <- MCNamed
PROPERTIES
  PromptComesBack
  ImplementsNotebook
