SPECIFICATION FairInterrupts
CONSTANTS
  MAX_TERMINALS = 2
  RTC_RATE = 2
  INT_BITS = 4
  Frequencies <- AllButIntMin
INVARIANTS
  InServiceIsOwed
PROPERTIES
  ImplementsMetronomes
  KeysServed
  ReaderReturns
