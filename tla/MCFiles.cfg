SPECIFICATION Spec

CONSTANTS
  Names = {"a", "b"}
  NameLen <- NameLenDef
  BLOCK_SIZE = 48
  NINODES = 4
  DIRECT_BLOCKS = 1
  Values = {"v"}

  Handles = {"h1", "h2"}

VIEW Live

INVARIANTS
  NothingLeaks
  
  
  DirectoryIsMap
  CallsAgreeWithFiles


  

\* After a rollback that failed the disk takes no more operations.
CHECK_DEADLOCK FALSE
