\* A delete racing the commit of another project.
SPECIFICATION Spec
CONSTANTS
  Projects = {p1, p2}
  Users = {u1, u2}
  Contents = {c1}
  Empty = Empty
  NoHead = NoHead
  None = None
  MaxTx = 3
  MaxVersions = 4
  MaxAudit = 3
  MaxCrashes = 0
  MaxFaults = 0
  FaultyStages = {}
  MaxDeletes = 1
SYMMETRY Symmetric
PROPERTY DeletedStayDeleted
