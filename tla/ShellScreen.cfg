SPECIFICATION ScreenSpec
CONSTANTS
  Chars = {"a", " "}
  NUL = "nul"
  Blanks = {" "}
  LINE_SIZE = 4
  HISTORY_SIZE = 2
  MAX_ARGS = 2
  VGA_WIDTH = 5
  VGA_HEIGHT = 4
  Header <- MCHeader
  Footer <- MCFooter
  CLOCK_X = 4
  Times = {"t1", "t2"}
  Prompts <- MCPrompts
  Outputs <- MCOutputs
INVARIANTS TokensAreWords BarsKept EchoMatchesLine
PROPERTY ImplementsLineInput
