\* A simulation session started while a control's "accepted" row is being saved.
SPECIFICATION Spec
CONSTANTS
  Controls = {c1}
  None = None
  NoSave = NoSave
  Rows <- MCRows
  Writers <- MCCalls
  MaxRows = 5
  MaxCalls = 2
  MaxFaults = 0
  MaxBreaks = 0
  MaxRehearsals = 1
PROPERTY RehearsalHolds
CHECK_DEADLOCK FALSE
