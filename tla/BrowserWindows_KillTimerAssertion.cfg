SPECIFICATION Spec
CONSTANTS
  Main = Main
  Popup1 = Popup1
  Popup2 = Popup2
  NoWindow = NoWindow
  Windows <- MCWindows
  MainWindow <- Main
  MinimizeToTray = TRUE
  Startup = TRUE
  SetTimerOutcomes <- TimerAlways
  MaxPosted = 3
INVARIANT
  KillTimerAssertion
CHECK_DEADLOCK FALSE
