SPECIFICATION FairInput
CONSTANTS
  MAX_TERMINALS = 2
  BUFFER_SIZE = 3
  Chars = {char,space}
  Space = space
  Newline = newline
  Sizes = {2}
  TypeAhead = FALSE
INVARIANTS
  InputTypeOK
  ReadyHasLine
PROPERTIES
  ImplementsLines
  LineDelivered
