\* Writes that fail or are lost at every stage, a crash and an unlocked delete.
SPECIFICATION FairSpec
CONSTANTS
  Projects = {p1}
  Users = {u1, u2}
  Contents = {c1}
  Empty = Empty
  NoHead = NoHead
  None = None
  MaxTx = 3
  MaxVersions = 4
  MaxAudit = 3
  MaxCrashes = 1
  MaxFaults = 1
  FaultyStages = {"backup", "prepare", "snapshot", "head", "landing", "pending", "audit", "final"}
  MaxDeletes = 1
INVARIANTS SnapshotsImmutable ReceiptsSurvive AbortedLeaveNoTrace
PROPERTIES HeadsAdvance HeadsNeverRegress RequestsAnswered RecoveryTerminates
