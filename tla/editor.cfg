\* One editor, two shared projects and a new one, another editor beside it.
SPECIFICATION FairSpec
CONSTANTS
  Shared = {A, B}
  New = {N}
  None = None
  UndoLimit = 2
  MaxActs = 3
  MaxOthers = 1
  MaxLost = 1
INVARIANTS TypeOK NothingOverwritten NeverAhead LeaseReturned
PROPERTIES SaveIsAnswered EditsAreSent
CHECK_DEADLOCK FALSE
