SPECIFICATION Spec

CONSTANTS
  MAX_TASKS = 4
  MAX_ID = 5
  ExitCodes = {0}
  HALF = 1
  MAX_SLEEP = 1

INVARIANT
  WaiterHasLiveChild

PROPERTIES
  SleepersWakeOnTime
  ImplementsLifecycle
