CONSTANTS
  a = a
  b = b
  NUL = NUL
  KB_BUFFER_SIZE = 4
  MAX_PENDING = 2
  MayEdit = TRUE
  Char <- MCChar
  KeyOutput <- MCKeyOutput
SPECIFICATION FairConsoleSpec
CHECK_DEADLOCK FALSE
INVARIANTS
  SlotsKept
  NoOversleep
PROPERTIES
  DropsOnlyAtCapacity
  ImplementsQueue
  EveryCharacterRead
  KeyInterruptServed
