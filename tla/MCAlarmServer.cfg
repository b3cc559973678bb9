CONSTANTS
  Clients = {c1, c2}
  Alarms = {a1}
  Ops = {"set", "change", "remove", "active", "buzzer"}
  Nobody = Nobody
SPECIFICATION FairSpec
INVARIANT AlarmInv
PROPERTIES SetOnce RemovedAlarmFallsSilent DueAlarmKeepsRinging
