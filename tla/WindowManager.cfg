SPECIFICATION WmSpec
CONSTANTS
  WM_MAX_WINDOWS = 3
  WM_TITLEBAR_HEIGHT = 2
  WM_BORDER_SIZE = 1
  WM_BUTTON_SIZE = 1
  CLOSE_MARGIN = 0
  Points <- MCPoints
  Sizes <- MCSizes
  FlagSets <- MCFlagSets
  Z_BOUND = 7
INVARIANTS ZOrderUnique ClickHitsTopDrawn FocusedExists
