\* Two alarms of one entity: changes, an operator, a restart, a lost write.
SPECIFICATION FairSpec
CONSTANTS
  N = 2
  Delayed <- MCDelayed
  ByInactive <- MCByInactive
  Workers <- MCWorkers
  NoSave = NoSave
  Idle = Idle
  MaxChanges = 3
  MaxActs = 1
  MaxRestarts = 1
  MaxFaults = 1
INVARIANTS TypeOK ConfirmedActsSurvive AlarmsFollowPlant
PROPERTIES OneNoticePerOccurrence TransientsStaySilent PersistentFaultsRing
CHECK_DEADLOCK FALSE
