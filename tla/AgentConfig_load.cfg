SPECIFICATION Spec
CONSTANTS
  Numeral <- MCNumeral
  Long = {"long"}
  LuaTexts = {"", "40", "long"}
  LuaNumbers = {65536, 3600001}
  U16 = 65536
  U32 = 4000000
  HardLines = 1024
  Unreadable <- MCUnreadable
  Files <- MCFiles
  Edits <- MCEdits
  Overrides = {"", "gw", "long"}
  MaxOps = 4
CONSTRAINT LongSequences
INVARIANTS ConfigIsMeaning RefusedIffBad
CHECK_DEADLOCK FALSE
