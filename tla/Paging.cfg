SPECIFICATION PagingSpec
CONSTANTS
  MAX_TERMINALS = 3
  Contents = {blank, text}
  Blank = blank
  Zeroed = text
  Positions = {home, right}
  Home = home
  MAX_PROCESSES = 2
  PAGEDIR_SIZE = 5
  PAGETABLE_SIZE = 6
  USER_PAGING = 2
  VIDMAP_PAGE = 4
  VIDEO_REAL_ADDR = 3
  page_0_table_addr = 6
  vidmap_pte_addr = 7
  term_vidmem = 8
INVARIANTS
  AddressSpaceIsOwn
PROPERTIES
  ImplementsScreens
  OnlyKillsLoseCursor
