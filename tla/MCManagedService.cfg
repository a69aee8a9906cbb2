SPECIFICATION SvcSpec
CONSTANTS
  MaxStarts = 3
  CaseCount = 2
INVARIANTS
  
  NoFalseAlarm
  NoOrphan
PROPERTIES
  CrashNoticed
  ServiceGone
