\* One editor and two shared projects: a project is loaded while a save by hand is
\* under way.
SPECIFICATION Spec
CONSTANTS
  Shared = {A, B}
  New = {}
  None = None
  UndoLimit = 2
  MaxActs = 3
  MaxOthers = 0
  MaxLost = 0
INVARIANT NoLastWriterWins
CHECK_DEADLOCK FALSE
