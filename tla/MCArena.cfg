SPECIFICATION Spec
CONSTANTS
  Count = 3
  Sizes = {1, 2, 3}
  Data = {d1, d2}
  Null = Null
  None = None
  Junk = Junk
  GuardBits = GuardBits
INVARIANTS
  TypeOK
  DataKept
  NoFalseAlarm

  
CHECK_DEADLOCK FALSE
