\* An audit write that fails once, a later commit and a restart.
SPECIFICATION Spec
CONSTANTS
  Projects = {p1}
  Users = {u1, u2}
  Contents = {c1}
  Empty = Empty
  NoHead = NoHead
  None = None
  MaxTx = 2
  MaxVersions = 4
  MaxAudit = 3
  MaxCrashes = 1
  MaxFaults = 1
  FaultyStages = {"audit"}
  MaxDeletes = 0
SYMMETRY Symmetric
INVARIANT RecoveryNeverStuck
