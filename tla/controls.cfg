\* A control run from its dialog, twice at once, with failing saves, a restart, a lost
\* connection and a rehearsal.
SPECIFICATION FairSpec
CONSTANTS
  Controls = {c1}
  None = None
  NoSave = NoSave
  Rows <- MCRows
  Writers <- MCCalls
  MaxRows = 5
  MaxCalls = 4
  MaxFaults = 1
  MaxBreaks = 1
  MaxRehearsals = 1
INVARIANTS TypeOK AcceptedBeforeDispatch EvidenceIsHonest SuccessIsRecorded
PROPERTIES EvidenceAppendOnly RunSettles
CHECK_DEADLOCK FALSE
