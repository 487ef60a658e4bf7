SPECIFICATION FairSpec
CONSTANTS
  Hwnd1 = Hwnd1
  Hwnd2 = Hwnd2
  Object1 = Object1
  Object2 = Object2
  Worker1 = Worker1
  Worker2 = Worker2
  Hwnds <- TwoHwnds
  Objects <- TwoObjects
  Workers <- TwoWorkers
  NoObject = NoObject
  MaxNotices = 2
INVARIANT
  CallbackFindsItsWindow
PROPERTIES
  ImplementsLease
  UIReturns
  CallsAnswered
CHECK_DEADLOCK FALSE
