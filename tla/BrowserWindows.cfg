SPECIFICATION FairSpec
CONSTANTS
  Main = Main
  Popup1 = Popup1
  Popup2 = Popup2
  NoWindow = NoWindow
  Windows <- MCWindows
  MainWindow <- Main
  MinimizeToTray = TRUE
  Startup = TRUE
  SetTimerOutcomes <- TimerMayFail
  MaxPosted = 2
INVARIANTS
  RegistrySound
  CountBound
  CallbacksServed
PROPERTIES
  ImplementsApp
  CloseWindowCompletes
  QuitEnds
CHECK_DEADLOCK FALSE
