SPECIFICATION Spec
CONSTANTS
  Modes <- MCModes
  BACK_SIZE = 12
  Xs <- MCXs
  Ys <- MCYs
  Lengths = {0, 1, 2, 3}
  Radii = {0, 1, 2, 9}
  Copies <- MCCopies
  Spots <- MCSpots
  WHITE = 255
  DARK = 64
  Ink = 100
  ClearInk = 99
  MaxSteps = 5
  Shades <- MCShades
  Bitmap <- MCBitmap
  cursor_data <- MCCursor
  Glyph <- MCGlyph
  FONT_WIDTH = 2
  FONT_HEIGHT = 2
  Texts <- MCTexts
PROPERTIES DrawsItsShape CursorUndone
CHECK_DEADLOCK FALSE
