SPECIFICATION Spec
CONSTANTS
  boss = boss
  eng = eng
  tab = tab
  sDesk = sDesk
  sTab = sTab
  Projects = {p1, p2, p3}
  Users = {boss}
  Sessions = {sDesk}
  HAAdmins = {boss}
  Conns = {desk1, desk2, desk3}
  Assignable = {"none"}
  Callers = {desk1, desk2, desk3}
  UserOf <- MCUserOf
  SessionOf <- MCSessionOf
  Ttls = {1}
  MaxOperations = 1
  Window = 1
  MaxTokens = 1
  MaxRevision = 1
  MaxLosses = 1
  MaxRestarts = 1
  NoLease = NoLease
  None = None
  Nothing = Nothing
INVARIANT AnsweredIsStored
SYMMETRY DesksAlike
