SPECIFICATION Spec
CONSTANTS
  NUM_ROWS = 3
  NUM_COLS = 3
  BufferSize = 5
  Char <- MCChar
  Prompt <- MCPrompt
  Outputs <- MCOutputs
  key_map <- MCKeyMap
  shifted_key_map <- MCShiftedKeyMap
INVARIANTS
  TypeOK
  EchoMatchesLine
  NothingBehindCursor
  ShiftWhileDown
PROPERTIES
  OutputKept
