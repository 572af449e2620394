SPECIFICATION FairSpec

CONSTANTS
  MAX_TASKS = 3
  MAX_ID = 4
  ExitCodes = {0}
  HALF = 2
  MAX_SLEEP = 2

PROPERTIES
  NoStarvation
  SleepersWake
  
