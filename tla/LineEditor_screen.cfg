SPECIFICATION Spec
CONSTANTS
  Letter = {a}
  Sign = {s}
  VGA_WIDTH = 2
  VGA_HEIGHT = 3
  INPUT_BUFFER_SIZE = 5
  Output <- MCOutput
  Prompt <- MCPrompt
INVARIANTS
  ShellGetsTheLine
  ScreenShowsLine
PROPERTIES
  ImplementsEditor
