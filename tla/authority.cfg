\* Leases, membership and guarded saves of one project across a restart; two
\* administrator's tabs change the membership at once.
SPECIFICATION Spec
CONSTANTS
  boss = boss
  eng = eng
  tab = tab
  sDesk = sDesk
  sTab = sTab
  Projects = {p1}
  Users = {boss, eng}
  Sessions = {sDesk, sTab}
  HAAdmins = {boss}
  Conns = {desk1, desk2, tab}
  Assignable = {"none", "admin"}
  Callers = {desk1, desk2, tab}
  UserOf <- MCUserOf
  SessionOf <- MCSessionOf
  Ttls = {2}
  MaxOperations = 1
  Window = 1
  MaxTokens = 2
  MaxRevision = 3
  MaxLosses = 1
  MaxRestarts = 1
  NoLease = NoLease
  None = None
  Nothing = Nothing
INVARIANTS TypeOK RoleLossDisarms ClearedUnbroken ConfirmedMembershipSurvives
PROPERTY BearersStayDead
SYMMETRY DesksAlike
