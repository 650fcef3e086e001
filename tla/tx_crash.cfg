\* Crashes at every await, no failing writes, no deletes.
SPECIFICATION Spec
CONSTANTS
  Projects = {p1}
  Users = {u1, u2}
  Contents = {c1, c2}
  Empty = Empty
  NoHead = NoHead
  None = None
  MaxTx = 4
  MaxVersions = 2
  MaxAudit = 3
  MaxCrashes = 2
  MaxFaults = 0
  FaultyStages = {}
  MaxDeletes = 0
SYMMETRY Symmetric
INVARIANTS TypeOK HeadIsRestorable AuditFaithful RecoveryNeverStuck
PROPERTY ImplementsVersionedProjects
