SPECIFICATION PipesSpec

CONSTANTS
  MAX_TASKS = 4
  MAX_ID = 5
  ExitCodes = {0}
  HALF = 1
  MAX_SLEEP = 1
  MAX_FDS = 7
  PIPE_CAPACITY = 1
  MAX_PIPES = 1
  Named = {}
  Counts = {}
  Dups = {}
  Jobs = {"app", "pipeline"}
  Redirects <- MCRedirects

VIEW MCView

INVARIANT
  ShellKeepsNoEnds

PROPERTY
  SidesGetOneEnd
