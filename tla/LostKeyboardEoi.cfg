SPECIFICATION FairKeyboard
CONSTANTS
  MAX_PROCESSES = 3
  MAX_TERMINALS = 2
  PowerOnRam = {FALSE}
  Workload = {"launch", "exit", "ctrl_c"}
PROPERTIES
  KeyboardAcknowledged
