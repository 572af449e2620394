SPECIFICATION Spec
CONSTANTS
  UserTasks = {u1, u2}
  KernelTasks = {shell, idle}
  Stacks = {s1, s2}
INVARIANT HeldMeansMasked
CHECK_DEADLOCK FALSE
