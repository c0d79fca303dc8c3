\* Any call to the file system but the GetSize of Commit may fail, and the process may crash at any point.
CONSTANTS
  Bytes = {0, 1}
  Zero = 0
  MaxLen = 4
  MaxDisk = 8
  MayCrash = TRUE
  FailAt = {"write", "disk full", "truncate", "map"}
SPECIFICATION Spec
INVARIANTS FileInv ReadsView
PROPERTIES KeptBytesSurvive ImplementsLog
