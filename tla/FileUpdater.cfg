SPECIFICATION FairSpec
CONSTANTS
  Asar = Asar
  Exe = Exe
  Page = Page
  Resources = Resources
  Root = Root
  NoFile = NoFile
  BellKey = BellKey
  VersionFile = Asar
  Files <- ThreeFiles
  Dirs <- BothDirs
  DirOf <- ThreeDirOf
  MaxRetries = 5
INVARIANTS
  UpdateIsComplete
  BackupIsOld
  RevertRestores
PROPERTIES
  ImplementsSwap
  CallsEnd
CHECK_DEADLOCK FALSE
