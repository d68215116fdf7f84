SPECIFICATION KeyboardSpec
CONSTANTS
  Keys = {"left shift", "right shift", "left ctrl", "left alt", "caps lock", "C", "L", "1", "enter", "tab", "F2"}
  QUEUE_SIZE = 2
INVARIANTS
  DoesWhatWasMeant
  OnlyHeldModifiersAct
  NoStuckModifier
