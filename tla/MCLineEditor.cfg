CONSTANTS
  SCREEN_WIDTH = 4
  SCREEN_HEIGHT = 2
  Letter <- MCLetter
  KeyChars <- MCKeyChars
  MAX_CMD_LEN = 3
  HISTORY_SIZE = 2
  Output <- MCOutput
  MAX_COMMANDS = 3
  CutKeys <- MCCutKeys
  MAX_CUTS = 1
  MAX_ROW = 2
SPECIFICATION EditorSpec
CHECK_DEADLOCK FALSE
INVARIANTS
  LineInBounds
  LineShown
PROPERTIES
  ImplementsLine
