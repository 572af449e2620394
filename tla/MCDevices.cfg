SPECIFICATION PartsSpec

CONSTANTS
  MAX_LBA = 1
  LOW = 1
  MAX_COUNT = 2
  WAIT_LIMIT = 2
  Values = {"x", "y"}
  Present = {TRUE, FALSE}

INVARIANTS
  SectorsAsWritten
  DecoderFollowsKeys
  InodesAreReadable
  ArchiveIsTree

PROPERTY
  RequestsReturn

VIEW Relevant
