\* Two controls, one previewed while the other's answer is on its way.
SPECIFICATION Spec
CONSTANTS
  Controls = {c1, c2}
  None = None
  NoSave = NoSave
  Rows <- MCRows
  Writers <- MCCalls
  MaxRows = 5
  MaxCalls = 3
  MaxFaults = 0
  MaxBreaks = 0
  MaxRehearsals = 0
INVARIANT DispatchedAsShown
CHECK_DEADLOCK FALSE
