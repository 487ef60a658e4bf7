SPECIFICATION Spec
CONSTANTS
  Asar = Asar
  Exe = Exe
  Page = Page
  Resources = Resources
  Root = Root
  NoFile = NoFile
  BellKey = BellKey
  VersionFile = Asar
  Files <- TwoFiles
  Dirs <- BothDirs
  DirOf <- TwoDirOf
  MaxRetries = 5
INVARIANTS
  VersionFileLast
CHECK_DEADLOCK FALSE
