SPECIFICATION FairSpec
CONSTANTS
  Processes = {p1, p2}
  NoProcess = NoProcess
  MaxTries = 3
  MaxBoxes = 1
  MaxPosted = 1
INVARIANT
  CloseIsNotLost
PROPERTIES
  RaisesAnother
  EachImplementsApp
  QuitEndsProcess
  StartCompletes
CHECK_DEADLOCK FALSE
