SPECIFICATION FairSpec
CONSTANTS
  MAX_PROCESSES = 3
  MAX_TERMINALS = 2
  PowerOnRam = {FALSE}
  Workload = {"launch", "exit", "fault", "vidmap", "ctrl_c", "alt_fn", "other_key"}
INVARIANTS
  VidmapOwnTerminal
PROPERTIES
  EveryTerminalRuns
  RequestsServed
