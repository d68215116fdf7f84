SPECIFICATION LibrarySpec
CONSTANTS
  NUM_COLS = 3
  NUM_ROWS = 3
  Glyphs = {a}
  Blank = blank
  NUL = "NUL"
  SIZE = 12
  BlockLengths <- MCLengths
  Values <- MCValues
  Contents <- MCContents
  HEX_DIGITS = 2
  Letters <- MCLetters
  Items <- MCItems
  Formats <- MCFormats
  DENTRY_NAME_LEN = 3
  ARG_BUFF_SIZE = 3
  Characters = {"a", "b", " ", "enter"}
  Space = " "
  Enter = "enter"
  Programs <- MCPrograms
  Documents <- MCDocuments
  Devices <- MCDevices
  CommandLines <- MCCommandLines
  MaxLength = 5
  Counts = {1, 2, 3, 4}
  CELLS = 3
  SLOTS = 3
  Structs <- MCStructs
  Locations = {1, 2}
INVARIANTS
  CursorOnScreen
  NothingBeyondCursor
  LaunchesFirstWord
  ArgumentsReachProgram
  MemoryMoves
  PrintfPrints
PROPERTIES
  ImplementsBlinkers
