CONSTANTS
  ch = ch
  NL = NL
  Char = {ch}
  MAX_UNDO_LEVELS = 2
  TEXT_HEIGHT = 1
  MAX_TEXT = 2
  InitialText <- MCInitialText
SPECIFICATION EditorSpec
INVARIANTS
  CursorInDocument
  UnmarkedIsSaved
PROPERTIES
  ImplementsHistory
