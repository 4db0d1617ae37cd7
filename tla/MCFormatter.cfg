SPECIFICATION FormatSpec
CONSTANTS
  Sources <- MCSources
  Widths = {6, 14}
  INDENT_WIDTH = 4
CHECK_DEADLOCK FALSE
INVARIANTS
  SameProgram
  WidthAloneDecides
