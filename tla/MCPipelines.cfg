SPECIFICATION PipesSpec

CONSTANTS
  MAX_TASKS = 4
  MAX_ID = 5
  ExitCodes = {0}
  HALF = 1
  MAX_SLEEP = 1
  MAX_FDS = 5
  PIPE_CAPACITY = 2
  MAX_PIPES = 1
  Named <- MCNamed
  Counts = {1, 2}
  Dups <- MCDups
  Jobs = {"pipeline"}
  Redirects <- MCPlain

VIEW MCView

INVARIANTS
  CountsExact
  BlockedForCause
