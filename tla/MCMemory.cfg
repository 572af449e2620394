SPECIFICATION PartsSpec

CONSTANTS
  PAGES = 7
  KernelPages = {2}
  SLACK = 1
  MAX_TRIES = 2

VIEW Shape

INVARIANTS
  
  ReturnsTidy
  CloneIsFaithful
  DirectMapIsRam
  GrowthFits
  
  

PROPERTIES
  LoaderEnds
  ImplementsFramePool

\* The loader ends in the kernel or in the firmware.
CHECK_DEADLOCK FALSE
