SPECIFICATION InputSpec
CONSTANTS
  MAX_TERMINALS = 2
  BUFFER_SIZE = 3
  Chars = {char, space}
  Space = space
  Newline = newline
  Sizes = {3}
  TypeAhead = TRUE
INVARIANTS
  ReadsEndInEnter
