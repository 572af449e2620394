SPECIFICATION PartsSpec

CONSTANTS
  UserTasks = {u1, u2}
  KernelTasks = {shell, idle}
  Stacks = {s1, s2}

INVARIANTS
  OwnUserStack
  SyscallGs
  PathsFollowNames
  ScreenShowsHistory

PROPERTIES
  ImplementsEditedLine
  EditorKeepsText

VIEW Relevant

\* A fault in the kernel and a lock taken twice stop the machine.
CHECK_DEADLOCK FALSE
