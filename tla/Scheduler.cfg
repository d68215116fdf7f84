SPECIFICATION Spec
CONSTANTS
  MAX_PROCESSES = 4
  MAX_TERMINALS = 3
  PowerOnRam = {FALSE}
  Workload = {"launch", "exit", "ctrl_c", "alt_fn"}
INVARIANTS
  ContextConsistent
  SavedContexts
  TerminalsOwnProcesses
  ProcessTree
  CallerSaved
PROPERTIES
  ImplementsTurns
  ImplementsStacks
  OthersUndisturbed
