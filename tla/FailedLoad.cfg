SPECIFICATION BadImageSpec
CONSTANTS
  MAX_PROCESSES = 4
  MAX_TERMINALS = 3
  PowerOnRam = {FALSE}
  Workload = {"launch"}
INVARIANTS
  AllCallsReturn
CHECK_DEADLOCK FALSE
