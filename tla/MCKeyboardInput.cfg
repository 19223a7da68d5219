CONSTANTS
  Registered = {0, 1, 15}
  Opened = {0, 1, 2, 15}
  SelfEnding = {1}
  lowercase <- MCLower
  uppercase <- MCUpper
  Control <- MCControl
  key_repeat_enabled = TRUE
  Key = {"a", "LShift", "Caps", "Up", "RCtrl"}
  MAX_WIRE = 0
SPECIFICATION InputSpec
INVARIANTS
  ServiceIsDispatch
  ModifiersFollowKeys
  LetterAsMeant
  ByteHasRequest
