SPECIFICATION Spec

CONSTANTS
  Programs <- TwoPrograms
  OrdinaryKeys = {97}
  SpecialKeys = {128}
  INPUT_CAPACITY = 2
  QUEUE_CAPACITY = 3
  READ_SIZES = {1, 2}

VIEW Relevant

INVARIANT
  CharactersWake

PROPERTIES
  InputIsQueue
  QueueIsQueue
  ShellTakesKeys

\* A key that comes while the lock is held stops the machine.
CHECK_DEADLOCK FALSE
