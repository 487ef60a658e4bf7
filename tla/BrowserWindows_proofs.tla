----------------------- MODULE BrowserWindows_proofs -----------------------
(***************************************************************************)
(* Proofs about BrowserWindows: its inductive invariant IInv, the safety   *)
(* properties that follow from it, and that it implements AppLifecycle.    *)
(***************************************************************************)
EXTENDS BrowserWindows, FiniteSetTheorems, TLAPS

\* The registry is finite, and adding or removing a key moves its size by one.
LEMMA RegistrySize ==
  ASSUME NEW S \in SUBSET Windows, NEW w \in Windows
  PROVE  /\ IsFiniteSet(S)
         /\ Cardinality(S) \in Int
         /\ S = {} => Cardinality(S) = 0
         /\ w \notin S => Cardinality(S \union {w}) = Cardinality(S) + 1
         /\ w \in S => Cardinality(S \ {w}) = Cardinality(S) - 1
<1>1. IsFiniteSet(S)
  BY WindowsAssumption, FS_Subset
<1>2. Cardinality(S) \in Int
  BY <1>1, FS_CardinalityType
<1>3. S = {} => Cardinality(S) = 0
  BY FS_EmptySet
<1>4. QED
  BY <1>1, <1>2, <1>3, FS_AddElement, FS_RemoveElement

\* WM_CREATE keeps the invariant, for the main window and for a popup.
LEMMA OnCreateStep ==
  ASSUME IInv,
         NEW w \in Windows,
         OnCreate(w),
         phase' \in {"opened", "loop"},
         UNCHANGED <<hidden, posted, quit, process, killTimerHeld>>
  PROVE  IInv'
<1> USE DEF OnCreate, CreateBrowserControl, StoreBrowserWindow, process
<1>1. w \notin g_browserWindows
  BY DEF IInv, WindowInv, RegistrySound
<1>2. TypeOK'
  BY DEF IInv, TypeOK
<1>3. RegistrySound'
  BY DEF IInv, TypeOK, RegistrySound
<1>4. CountBound'
  BY <1>1, RegistrySize DEF IInv, TypeOK, CountBound
<1>5. NoGhostApplication' /\ OpenedInv'
  BY DEF NoGhostApplication, OpenedInv
<1>6. TimersServed' /\ TicksServed' /\ ControlInv'
  BY DEF IInv, TypeOK, TimersServed, TicksServed, ControlInv
<1>7. WindowInv' /\ ZombieIsMain'
  BY DEF IInv, TypeOK, WindowInv, ZombieIsMain
<1>8. ExitOnlyMain'
  BY DEF IInv, ExitOnlyMain
<1>9. QED
  BY <1>2, <1>3, <1>4, <1>5, <1>6, <1>7, <1>8 DEF IInv

\* The WM_DESTROY case keeps the invariant, whether the window goes with it or
\* is the main window left standing by a posted WM_DESTROY.
LEMMA OnDestroyStep ==
  ASSUME IInv,
         NEW w \in Windows,
         OnDestroy(w),
         window[w] = "open",
         phase = "loop", phase' = "loop",
         hidden' \subseteq Windows,
         posted' \in Seq(Message),
         \A i \in 1..Len(posted') :
            posted'[i].msg = "WM_DESTROY" => posted'[i].hwnd = MainWindow,
         \/ window' = [window EXCEPT ![w] = "destroyed"] /\ ticks' = ticks \ {w}
         \/ window' = window /\ ticks' = ticks /\ w = MainWindow
  PROVE  IInv'
<1>1. PICK k \in {TRUE, FALSE} :
        IF k THEN /\ w \in g_browserWindows
                  /\ g_browserWindows' = g_browserWindows \ {w}
                  /\ object' = [object EXCEPT ![w] = "deleted"]
                  /\ CloseBrowserControl(w)
             ELSE /\ w \notin g_browserWindows
                  /\ UNCHANGED <<g_browserWindows, object, control>>
  BY DEF OnDestroy, RemoveBrowserWindow
<1>2. /\ g_browserWindows' = g_browserWindows \ {w}
      /\ object[w] # "none"
      /\ object' = [object EXCEPT ![w] = "deleted"]
  BY <1>1 DEF IInv, TypeOK, RegistrySound, WindowInv
<1>3. /\ webBrowser2' = webBrowser2 \ {w}
      /\ advised' \subseteq advised
      /\ unadviseFailed' \in {unadviseFailed, unadviseFailed \union {w}}
      /\ w \in advised' => w \in unadviseFailed'
      /\ clientSite' \in [Windows -> {"none", "set", "cleared", "abandoned"}]
  BY <1>1 DEF IInv, TypeOK, ControlInv, control, CloseBrowserControl,
              CloseWebBrowser2, UnadviseEvent
<1>4. /\ g_windowCount' = g_windowCount - 1
      /\ timers' = timers \ {w}
      /\ killTimerHeld' \in BOOLEAN
  BY DEF OnDestroy, CountDown, KillTimer, IInv, TypeOK
<1>5. /\ IF g_windowCount' <= 0 THEN quit' = TRUE ELSE quit' = quit
      /\ quit' \in BOOLEAN
      /\ trayIcon' \in {trayIcon, NoWindow}
      /\ webServer' \in {"off", "started", "stopped"}
      /\ startup' \in {"none", "running", "terminated"}
  BY <1>4 DEF OnDestroy, IsLastWindow, LastWindowGone, process, IInv, TypeOK
<1>6. TypeOK'
  <2>1. /\ window' \in [Windows -> {"none", "open", "destroyed"}]
        /\ g_windowCount' \in Int
        /\ timers' \subseteq Windows
        /\ ticks' \subseteq Windows
    BY <1>4 DEF IInv, TypeOK
  <2>2. /\ g_browserWindows' \subseteq Windows
        /\ object' \in [Windows -> {"none", "live", "deleted"}]
        /\ webBrowser2' \subseteq Windows
        /\ advised' \subseteq Windows
        /\ unadviseFailed' \subseteq Windows
    BY <1>2, <1>3 DEF IInv, TypeOK
  <2>3. trayIcon' \in Windows \union {NoWindow}
    BY <1>5 DEF IInv, TypeOK
  <2>4. QED
    BY <1>3, <1>4, <1>5, <2>1, <2>2, <2>3 DEF TypeOK
<1>7. RegistrySound'
  BY <1>2 DEF IInv, TypeOK, RegistrySound
<1>8. CountBound'
  <2>1. CASE w \in g_browserWindows
    BY <1>2, <1>4, <2>1, RegistrySize DEF IInv, TypeOK, CountBound
  <2>2. CASE w \notin g_browserWindows
    <3>1. g_browserWindows' = g_browserWindows
      BY <1>2, <2>2
    <3>2. QED
      <4>1. Cardinality(g_browserWindows) \in Int
        BY RegistrySize DEF IInv, TypeOK
      <4>2. Cardinality(g_browserWindows') = Cardinality(g_browserWindows)
        BY <3>1
      <4>3. QED
        BY <1>4, <4>1, <4>2 DEF IInv, TypeOK, CountBound
  <2>3. QED
    BY <2>1, <2>2
<1>9. NoGhostApplication'
  <2>1. ASSUME g_browserWindows' = {}
        PROVE  g_windowCount' <= 0
    BY <1>6, <1>8, <2>1, RegistrySize DEF TypeOK, CountBound
  <2>2. QED
    BY <1>5, <2>1 DEF NoGhostApplication
<1>10. TimersServed' /\ ControlInv' /\ OpenedInv'
  BY <1>2, <1>3, <1>4 DEF IInv, TimersServed, ControlInv, OpenedInv
<1>14. TicksServed'
  <2>1. \A v \in ticks' : v \in ticks /\ v \in Windows
    BY DEF IInv, TypeOK
  <2>2. QED
    BY <1>2, <2>1 DEF IInv, TypeOK, TicksServed
<1>11. WindowInv' /\ ZombieIsMain'
  BY <1>2 DEF IInv, TypeOK, WindowInv, ZombieIsMain
<1>12. ExitOnlyMain'
  BY <1>5 DEF IInv, ExitOnlyMain
<1>13. QED
  BY <1>6, <1>7, <1>8, <1>9, <1>10, <1>11, <1>12, <1>14 DEF IInv

-----------------------------------------------------------------------------
LEMMA InitIInv == Init => IInv
<1> SUFFICES ASSUME Init PROVE IInv
  OBVIOUS
<1>1. TypeOK
  <2>1. posted \in Seq(Message) /\ startup \in {"none", "running", "terminated"}
    BY DEF Init
  <2>2. /\ window \in [Windows -> {"none", "open", "destroyed"}]
        /\ object \in [Windows -> {"none", "live", "deleted"}]
        /\ clientSite \in [Windows -> {"none", "set", "cleared", "abandoned"}]
    BY DEF Init
  <2>3. quit \in BOOLEAN /\ killTimerHeld \in BOOLEAN
    BY DEF Init
  <2>4. /\ g_windowCount \in Int
        /\ trayIcon \in Windows \union {NoWindow}
        /\ webServer \in {"off", "started", "stopped"}
        /\ phase \in {"launch", "opened", "loop", "ended", "exited"}
    BY DEF Init
  <2>5. QED
    BY <2>1, <2>2, <2>3, <2>4 DEF Init, TypeOK
<1>2. CountBound
  BY FS_EmptySet DEF Init, CountBound
<1>3. QED
  BY <1>1, <1>2 DEF Init, IInv, RegistrySound, NoGhostApplication, TimersServed,
     TicksServed, ZombieIsMain, ControlInv, WindowInv, OpenedInv, ExitOnlyMain

\* Every message the UI thread handles keeps the invariant.
LEMMA NextIInv == IInv /\ [Next]_vars => IInv'
<1> SUFFICES ASSUME IInv, [Next]_vars PROVE IInv'
  OBVIOUS
<1> USE DEF control, ticking, process
<1>1. CASE FatalError
  BY <1>1 DEF FatalError, IInv, TypeOK, RegistrySound, CountBound,
     NoGhostApplication, TimersServed, TicksServed, ZombieIsMain, ControlInv, WindowInv,
     OpenedInv, ExitOnlyMain
<1>2. CASE CreateMainWindow
  BY <1>1, <1>2, OnCreateStep, WindowsAssumption DEF CreateMainWindow
<1>3. CASE EnterMessageLoop
  BY <1>3, WindowsAssumption DEF EnterMessageLoop, IInv, TypeOK, RegistrySound,
     CountBound, NoGhostApplication, TimersServed, TicksServed, ZombieIsMain, ControlInv,
     WindowInv, OpenedInv, ExitOnlyMain
<1>4. ASSUME NEW p \in Windows, NEW w \in Windows, NewWindow3(p, w)
      PROVE  IInv'
  BY <1>1, <1>4, OnCreateStep DEF NewWindow3
<1>5. ASSUME NEW w \in Windows, CloseButton(w)
      PROVE  IInv'
  <2>1. /\ posted' \in Seq(Message)
        /\ \A i \in 1..Len(posted') :
              posted'[i].msg = "WM_DESTROY" => posted'[i].hwnd = MainWindow
        /\ hidden' \subseteq Windows
    BY <1>5 DEF CloseButton, DestroyWindow, IInv, TypeOK, ExitOnlyMain
  <2>2. QED
    BY <1>5, <2>1, OnDestroyStep DEF CloseButton, DestroyWindow
<1>6. ASSUME NEW w \in Windows, ExternalCloseWindow(w)
      PROVE  IInv'
  <2>1. /\ posted' = Append(posted, [hwnd |-> w, msg |-> "WM_CLOSE"])
        /\ [hwnd |-> w, msg |-> "WM_CLOSE"] \in Message
        /\ posted \in Seq(Message)
    BY <1>6 DEF ExternalCloseWindow, PostMessage, Message, IInv, TypeOK
  <2>2. posted' \in Seq(Message) /\ ExitOnlyMain'
    BY <1>6, <2>1 DEF ExternalCloseWindow, IInv, ExitOnlyMain
  <2>3. TypeOK'
    BY <1>6, <2>2 DEF ExternalCloseWindow, CloseWebBrowser2, UnadviseEvent, IInv, TypeOK
  <2>4. ControlInv'
    BY <1>6 DEF ExternalCloseWindow, CloseWebBrowser2, UnadviseEvent, IInv, ControlInv
  <2>5. QED
    BY <1>6, <2>2, <2>3, <2>4 DEF ExternalCloseWindow, IInv, RegistrySound,
       CountBound, NoGhostApplication, TimersServed, TicksServed, ZombieIsMain, WindowInv,
       OpenedInv
<1>7. CASE TrayExit
  <2>1. /\ trayIcon = MainWindow
        /\ posted' = Append(posted, [hwnd |-> MainWindow, msg |-> "WM_DESTROY"])
        /\ [hwnd |-> MainWindow, msg |-> "WM_DESTROY"] \in Message
        /\ posted \in Seq(Message)
    BY <1>7, WindowsAssumption DEF TrayExit, PostMessage, Message, IInv, TypeOK,
       ExitOnlyMain
  <2>2. posted' \in Seq(Message) /\ ExitOnlyMain'
    BY <1>7, <2>1 DEF TrayExit, IInv, ExitOnlyMain
  <2>3. QED
    BY <1>7, <2>2 DEF TrayExit, IInv, TypeOK, RegistrySound, CountBound,
       NoGhostApplication, TimersServed, TicksServed, ZombieIsMain, ControlInv, WindowInv,
       OpenedInv
<1>8. ASSUME posted # <<>>, posted' = Tail(posted)
      PROVE  /\ posted' \in Seq(Message)
             /\ Head(posted) \in Message
             /\ Head(posted) = posted[1] /\ 1 \in 1..Len(posted)
             /\ \A i \in 1..Len(posted') :
                   posted'[i].msg = "WM_DESTROY" => posted'[i].hwnd = MainWindow
  BY <1>8 DEF IInv, TypeOK, ExitOnlyMain
<1>9. CASE DispatchClose
  <2>1. Head(posted).hwnd \in Windows /\ hidden' \subseteq Windows
    BY <1>8, <1>9 DEF DispatchClose, DestroyWindow, Message, IInv, TypeOK
  <2>2. QED
    BY <1>8, <1>9, <2>1, OnDestroyStep DEF DispatchClose, DestroyWindow
<1>10. CASE DispatchDestroy
  <2>1. Head(posted).hwnd = MainWindow /\ hidden' \subseteq Windows
    BY <1>8, <1>10 DEF DispatchDestroy, IInv, TypeOK, ExitOnlyMain
  <2>2. QED
    BY <1>8, <1>10, <2>1, OnDestroyStep, WindowsAssumption DEF DispatchDestroy
<1>11. CASE DropStale
  BY <1>8, <1>11 DEF DropStale, IInv, TypeOK, RegistrySound, CountBound,
     NoGhostApplication, TimersServed, TicksServed, ZombieIsMain, ControlInv, WindowInv,
     OpenedInv, ExitOnlyMain
<1>12. ASSUME NEW w \in Windows, MinimizeWindow(w)
       PROVE  IInv'
  BY <1>12 DEF MinimizeWindow, IInv, TypeOK, RegistrySound, CountBound,
     NoGhostApplication, TimersServed, TicksServed, ZombieIsMain, ControlInv, WindowInv,
     OpenedInv, ExitOnlyMain
<1>13. CASE RestoreFromTray
  BY <1>13 DEF RestoreFromTray, IInv, TypeOK, RegistrySound, CountBound,
     NoGhostApplication, TimersServed, TicksServed, ZombieIsMain, ControlInv, WindowInv,
     OpenedInv, ExitOnlyMain
<1>14. CASE LeaveMessageLoop
  BY <1>14 DEF LeaveMessageLoop, IInv, TypeOK, RegistrySound, CountBound,
     NoGhostApplication, TimersServed, TicksServed, ZombieIsMain, ControlInv, WindowInv,
     OpenedInv, ExitOnlyMain
<1>17. ASSUME NEW w \in Windows, TimerDue(w) \/ DispatchTimer(w)
       PROVE  IInv'
  <2>1. ticks' \subseteq Windows /\ TicksServed'
    BY <1>17 DEF TimerDue, DispatchTimer, IInv, TypeOK, TimersServed, TicksServed
  <2>2. QED
    BY <1>17, <2>1 DEF TimerDue, DispatchTimer, IInv, TypeOK, RegistrySound, CountBound,
       NoGhostApplication, TimersServed, ZombieIsMain, ControlInv, WindowInv, OpenedInv,
       ExitOnlyMain
<1>18. ASSUME NEW p \in Windows, StrayEvent(p)
       PROVE  IInv'
  BY <1>1, <1>18 DEF StrayEvent
<1>15. CASE UNCHANGED vars
  BY <1>15 DEF vars, IInv, TypeOK, RegistrySound, CountBound,
     NoGhostApplication, TimersServed, TicksServed, ZombieIsMain, ControlInv, WindowInv,
     OpenedInv, ExitOnlyMain
<1>16. QED
  BY <1>2, <1>3, <1>4, <1>5, <1>6, <1>7, <1>9, <1>10, <1>11, <1>12, <1>13,
     <1>14, <1>15, <1>17, <1>18 DEF Next

(***************************************************************************)
(* The type invariant of the UI thread, for every set of windows, every    *)
(* setting and every length of the message queue.                          *)
(***************************************************************************)
THEOREM TypeCorrect == Spec => []TypeOK
<1>1. IInv => TypeOK
  BY DEF IInv
<1>2. QED
  BY <1>1, InitIInv, NextIInv, PTL DEF Spec

(***************************************************************************)
(* Every registered pointer is a live BrowserWindow and every live one is  *)
(* registered: no WM_DESTROY, posted or sent, leaves a dangling key.       *)
(***************************************************************************)
THEOREM RegistryIsSound == Spec => []RegistrySound
<1>1. IInv => RegistrySound
  BY DEF IInv
<1>2. QED
  BY <1>1, InitIInv, NextIInv, PTL DEF Spec

(***************************************************************************)
(* The process never keeps running with no browser window, whatever windows*)
(* were closed by page, user or tray menu.  It rests on CountBound:        *)
(* g_windowCount may be too small, never too large.                        *)
(***************************************************************************)
THEOREM NoGhost == Spec => [](CountBound /\ NoGhostApplication)
<1>1. IInv => CountBound /\ NoGhostApplication
  BY DEF IInv
<1>2. QED
  BY <1>1, InitIInv, NextIInv, PTL DEF Spec

(***************************************************************************)
(* Timers never outlive the BrowserWindow they tick for, a waiting WM_TIMER*)
(* only that of the main window Exit has left standing, and an event sink  *)
(* only where UnadviseEvent has failed.                                    *)
(***************************************************************************)
THEOREM CallbacksFindTheirWindow == Spec => []CallbacksServed
<1>1. IInv => CallbacksServed
  BY DEF IInv, ControlInv, SinksLive, CallbacksServed
<1>2. QED
  BY <1>1, InitIInv, NextIInv, PTL DEF Spec

(***************************************************************************)
(* Only the main window can be left standing without its BrowserWindow.    *)
(***************************************************************************)
THEOREM OnlyMainIsLeftStanding == Spec => []ZombieIsMain
<1>1. IInv => ZombieIsMain
  BY DEF IInv
<1>2. QED
  BY <1>1, InitIInv, NextIInv, PTL DEF Spec

-----------------------------------------------------------------------------
LEMMA AppInit == Init => App!Init
<1> SUFFICES ASSUME Init PROVE App!Init
  OBVIOUS
<1>1. AppStage = "starting" /\ AppClosed = {}
  BY DEF Init, AppStage, AppClosed
<1>2. QED
  BY <1>1 DEF Init, App!Init

LEMMA HeadPosted ==
  ASSUME posted \in Seq(Message), posted # <<>>
  PROVE  Head(posted).hwnd \in Windows
<1>1. Head(posted) \in Message
  OBVIOUS
<1>2. QED
  BY <1>1 DEF Message

\* WM_CREATE opens one window of the application.
LEMMA AppOpen ==
  ASSUME IInv, NEW w \in Windows, OnCreate(w), UNCHANGED quit,
         \/ phase = "launch" /\ phase' = "opened"
         \/ phase = "loop" /\ phase' = "loop"
  PROVE  App!Next
<1> USE DEF OnCreate, StoreBrowserWindow
<1>1. object[w] = "none"
  BY DEF IInv, WindowInv
<1>2. w \notin g_browserWindows \union AppClosed
  BY <1>1 DEF IInv, RegistrySound, AppClosed
<1>3. AppClosed' = AppClosed
  BY <1>1 DEF IInv, TypeOK, AppClosed
<1>4. AppStage \in {"starting", "serving"} /\ AppStage' = AppStage
  BY DEF AppStage
<1>5. App!Open(w)
  BY <1>2, <1>3, <1>4 DEF App!Open
<1>6. QED
  BY <1>5 DEF App!Next

\* WM_DESTROY closes a window, or asks for the stop, or changes nothing.
LEMMA AppDestroy ==
  ASSUME IInv, IInv', NEW w \in Windows, OnDestroy(w),
         phase = "loop", phase' = "loop"
  PROVE  App!Next \/ UNCHANGED App!vars
<1>1. AppStage = "serving" /\ AppStage' = "serving"
  BY DEF AppStage
<1>2. quit' \in {quit, TRUE}
  BY DEF OnDestroy, LastWindowGone
<1>3. CASE w \in g_browserWindows
  <2>1. /\ g_browserWindows' = g_browserWindows \ {w}
        /\ object' = [object EXCEPT ![w] = "deleted"]
    BY <1>3 DEF OnDestroy, RemoveBrowserWindow
  <2>2. AppClosed' = AppClosed \union {w}
    BY <2>1 DEF IInv, TypeOK, AppClosed
  <2>3. g_browserWindows' = {} => quit'
    BY DEF IInv, NoGhostApplication
  <2>4. App!Close(w)
    BY <1>1, <1>2, <1>3, <2>1, <2>2, <2>3 DEF App!Close
  <2>5. QED
    BY <2>4 DEF App!Next
<1>4. CASE w \notin g_browserWindows
  <2>1. UNCHANGED <<g_browserWindows, object>>
    BY <1>4 DEF OnDestroy, RemoveBrowserWindow
  <2>2. UNCHANGED <<AppStage, g_browserWindows, AppClosed>>
    BY <1>1, <2>1 DEF AppClosed
  <2>3. CASE quit' = quit
    BY <2>2, <2>3 DEF App!vars
  <2>4. CASE quit' = TRUE
    BY <1>1, <2>2, <2>4 DEF App!Next, App!AskToStop
  <2>5. QED
    BY <1>2, <2>3, <2>4
<1>5. QED
  BY <1>3, <1>4

LEMMA AppNext == IInv /\ IInv' /\ [Next]_vars => [App!Next]_(App!vars)
<1> SUFFICES ASSUME IInv, IInv', [Next]_vars
             PROVE  App!Next \/ UNCHANGED App!vars
  OBVIOUS
<1>1. ASSUME UNCHANGED <<phase, g_browserWindows, object, quit>>
      PROVE  UNCHANGED App!vars
  <2>1. AppStage' = AppStage /\ AppClosed' = AppClosed
    BY <1>1 DEF AppStage, AppClosed
  <2>2. QED
    BY <1>1, <2>1 DEF App!vars
<1>2. ASSUME FatalError, phase \in {"launch", "loop"}
      PROVE  App!Next
  <2>1. AppStage \in {"starting", "serving"} /\ AppStage' = "failed"
    BY <1>2 DEF FatalError, AppStage
  <2>2. AppClosed' = AppClosed
    BY <1>2 DEF FatalError, AppClosed
  <2>3. QED
    BY <1>2, <2>1, <2>2 DEF FatalError, App!Next, App!Fail
<1>3. CASE CreateMainWindow
  BY <1>2, <1>3, AppOpen, WindowsAssumption DEF CreateMainWindow
<1>4. CASE EnterMessageLoop
  <2>1. AppStage = "starting" /\ AppStage' = "serving" /\ AppClosed' = AppClosed
    BY <1>4 DEF EnterMessageLoop, AppStage, AppClosed
  <2>2. QED
    BY <1>4, <2>1 DEF EnterMessageLoop, IInv, OpenedInv, App!Next, App!Serve
<1>5. ASSUME NEW p \in Windows, NEW w \in Windows, NewWindow3(p, w)
      PROVE  App!Next
  BY <1>2, <1>5, AppOpen DEF NewWindow3
<1>13. ASSUME NEW p \in Windows, StrayEvent(p)
       PROVE  App!Next
  BY <1>2, <1>13 DEF StrayEvent
<1>6. ASSUME NEW w \in Windows, CloseButton(w)
      PROVE  App!Next \/ UNCHANGED App!vars
  BY <1>6, AppDestroy DEF CloseButton, DestroyWindow
<1>7. CASE DispatchClose
  <2>1. Head(posted).hwnd \in Windows
    BY <1>7, HeadPosted DEF DispatchClose, IInv, TypeOK
  <2>2. QED
    BY <1>7, <2>1, AppDestroy DEF DispatchClose, DestroyWindow
<1>8. CASE DispatchDestroy
  <2>1. Head(posted).hwnd \in Windows
    BY <1>8, HeadPosted DEF DispatchDestroy, IInv, TypeOK
  <2>2. QED
    BY <1>8, <2>1, AppDestroy DEF DispatchDestroy
<1>9. CASE LeaveMessageLoop
  <2>1. AppStage = "serving" /\ AppStage' = "stopped" /\ AppClosed' = AppClosed
    BY <1>9 DEF LeaveMessageLoop, AppStage, AppClosed
  <2>2. QED
    BY <1>9, <2>1 DEF LeaveMessageLoop, QuitRetrieved, App!Next, App!Stop
<1>10. ASSUME NEW w \in Windows, \/ ExternalCloseWindow(w) \/ MinimizeWindow(w)
                                  \/ TimerDue(w) \/ DispatchTimer(w)
       PROVE  UNCHANGED App!vars
  BY <1>1, <1>10 DEF ExternalCloseWindow, MinimizeWindow, TimerDue, DispatchTimer
<1>11. CASE TrayExit \/ DropStale \/ RestoreFromTray \/ UNCHANGED vars
  BY <1>1, <1>11 DEF TrayExit, DropStale, RestoreFromTray, vars
<1>12. QED
  BY <1>3, <1>4, <1>5, <1>6, <1>7, <1>8, <1>9, <1>10, <1>11, <1>13 DEF Next

(***************************************************************************)
(* The window procedure and its registry implement the life of the         *)
(* application AppLifecycle states, for every set of windows.              *)
(***************************************************************************)
THEOREM WindowsImplementApp == Spec => ImplementsApp
<1>1. Spec => []IInv
  BY InitIInv, NextIInv, PTL DEF Spec
<1>2. QED
  BY <1>1, AppInit, AppNext, PTL DEF Spec, ImplementsApp, App!Spec

-----------------------------------------------------------------------------
(***************************************************************************)
(* The message that closes a window.                                       *)
(***************************************************************************)
\* WM_DESTROY deletes the BrowserWindow of its window and no other.
LEMMA DestroyDeletes ==
  ASSUME IInv, NEW v \in Windows, window[v] = "open", OnDestroy(v)
  PROVE  /\ object'[v] = "deleted"
         /\ \A w \in Windows \ {v} : object'[w] = object[w] /\ (Closing(w)' <=> Closing(w))
<1>1. object[v] # "none"
  BY DEF IInv, WindowInv
<1>2. CASE v \in g_browserWindows
  BY <1>2 DEF OnDestroy, RemoveBrowserWindow, CloseBrowserControl, CloseWebBrowser2, Closing,
              IInv, TypeOK
<1>3. CASE v \notin g_browserWindows
  BY <1>1, <1>3 DEF OnDestroy, RemoveBrowserWindow, control, Closing, IInv, TypeOK, RegistrySound
<1>4. QED
  BY <1>2, <1>3

\* What a step does to a message on its way to a window that is closing.
LEMMA MessageStays ==
  ASSUME IInv, CloseInv, [Next]_vars, NEW w \in Windows, NEW i \in 1..Len(posted),
         Closing(w), posted[i] = CloseOf(w)
  PROVE  \/ object'[w] = "deleted"
         \/ /\ Closing(w)'
            /\ \/ i > 1 /\ posted' = Tail(posted)
               \/ i <= Len(posted') /\ posted'[i] = posted[i]
<1> DEFINE Stays == Closing(w)' /\ i <= Len(posted') /\ posted'[i] = posted[i]
<1>1. /\ posted \in Seq(Message) /\ Len(posted) \in Nat /\ i \in Nat /\ i >= 1 /\ i <= Len(posted)
      /\ window[w] = "open" /\ posted # <<>> /\ posted[i].hwnd = w
  BY DEF IInv, TypeOK, CloseInv, Closing, CloseOf
<1>2. UNCHANGED <<posted, object, webBrowser2>> => Stays
  BY DEF Closing
<1>3. CASE FatalError \/ EnterMessageLoop \/ RestoreFromTray \/ LeaveMessageLoop \/ UNCHANGED vars
           \/ \E v \in Windows : \/ MinimizeWindow(v) \/ StrayEvent(v)
                               \/ TimerDue(v) \/ DispatchTimer(v)
  BY <1>2, <1>3 DEF FatalError, EnterMessageLoop, RestoreFromTray, LeaveMessageLoop,
                    MinimizeWindow, StrayEvent, TimerDue, DispatchTimer, vars, control
<1>4. ASSUME NEW v \in Windows, OnCreate(v), UNCHANGED posted
      PROVE  Stays
  <2>1. v # w
    BY <1>1, <1>4 DEF OnCreate
  <2>2. object'[w] = object[w] /\ (w \in webBrowser2' <=> w \in webBrowser2)
    BY <1>4, <2>1 DEF OnCreate, CreateBrowserControl, StoreBrowserWindow, IInv, TypeOK
  <2>3. QED
    BY <1>4, <2>2 DEF Closing
<1>5. CASE CreateMainWindow \/ \E p, v \in Windows : NewWindow3(p, v)
  BY <1>3, <1>4, <1>5, WindowsAssumption DEF CreateMainWindow, NewWindow3
<1>6. ASSUME NEW v \in Windows, CloseButton(v)
      PROVE  object'[w] = "deleted" \/ Stays
  BY <1>6, DestroyDeletes DEF CloseButton, DestroyWindow
<1>7. ASSUME NEW m, posted' = Append(posted, m)
      PROVE  i <= Len(posted') /\ posted'[i] = posted[i]
  BY <1>1, <1>7
<1>8. ASSUME NEW v \in Windows, ExternalCloseWindow(v)
      PROVE  Stays
  <2>1. i <= Len(posted') /\ posted'[i] = posted[i]
    BY <1>7, <1>8 DEF ExternalCloseWindow, PostMessage
  <2>2. Closing(w)'
    BY <1>8 DEF ExternalCloseWindow, CloseWebBrowser2, Closing
  <2>3. QED
    BY <2>1, <2>2
<1>9. CASE TrayExit
  <2>1. i <= Len(posted') /\ posted'[i] = posted[i]
    BY <1>7, <1>9 DEF TrayExit, PostMessage
  <2>2. Closing(w)'
    BY <1>9 DEF TrayExit, control, Closing
  <2>3. QED
    BY <2>1, <2>2
<1>10. Head(posted) = posted[1] /\ (Head(posted).hwnd # w => i > 1)
  BY <1>1
<1>11. CASE DispatchClose \/ DispatchDestroy
  <2>1. /\ Head(posted).hwnd \in Windows /\ window[Head(posted).hwnd] = "open"
        /\ OnDestroy(Head(posted).hwnd) /\ posted' = Tail(posted)
    BY <1>1, <1>11, HeadPosted DEF DispatchClose, DispatchDestroy, DestroyWindow
  <2>2. CASE Head(posted).hwnd = w
    BY <2>1, <2>2, DestroyDeletes
  <2>3. CASE Head(posted).hwnd # w
    BY <1>10, <2>1, <2>3, DestroyDeletes
  <2>4. QED
    BY <2>2, <2>3
<1>12. CASE DropStale
  <2>1. Head(posted).hwnd # w /\ posted' = Tail(posted) /\ Closing(w)'
    BY <1>1, <1>12 DEF DropStale, control, Closing
  <2>2. QED
    BY <1>10, <2>1
<1>13. QED
  BY <1>3, <1>5, <1>6, <1>8, <1>9, <1>11, <1>12 DEF Next

\* A BrowserWindow stays in its window.
LEMMA LiveIsOpen ==
  ASSUME IInv, CloseInv, [Next]_vars
  PROVE  \A w \in Windows : object'[w] = "live" => window'[w] = "open"
<1> USE DEF IInv, TypeOK, CloseInv
<1>1. ASSUME NEW v \in Windows, OnCreate(v)
      PROVE  \A w \in Windows : object'[w] = "live" => window'[w] = "open"
  BY <1>1 DEF OnCreate, StoreBrowserWindow
<1>2. ASSUME NEW v \in Windows, window[v] = "open", OnDestroy(v),
             window' \in {window, [window EXCEPT ![v] = "destroyed"]}
      PROVE  \A w \in Windows : object'[w] = "live" => window'[w] = "open"
  BY <1>2, DestroyDeletes
<1>3. CASE UNCHANGED <<object, window>>
  BY <1>3
<1>4. CASE CreateMainWindow \/ \E p, v \in Windows : NewWindow3(p, v)
  BY <1>1, <1>3, <1>4, WindowsAssumption DEF CreateMainWindow, NewWindow3, FatalError
<1>5. CASE \E v \in Windows : CloseButton(v)
  BY <1>2, <1>5 DEF CloseButton, DestroyWindow
<1>6. CASE DispatchClose \/ DispatchDestroy
  <2>1. /\ Head(posted).hwnd \in Windows /\ window[Head(posted).hwnd] = "open"
        /\ OnDestroy(Head(posted).hwnd)
        /\ window' \in {window, [window EXCEPT ![Head(posted).hwnd] = "destroyed"]}
    BY <1>6, HeadPosted DEF DispatchClose, DispatchDestroy, DestroyWindow
  <2>2. QED
    BY <1>2, <2>1
<1>7. CASE EnterMessageLoop \/ TrayExit \/ DropStale \/ RestoreFromTray \/ LeaveMessageLoop
           \/ UNCHANGED vars
           \/ \E v \in Windows : \/ ExternalCloseWindow(v) \/ MinimizeWindow(v)
                               \/ StrayEvent(v) \/ TimerDue(v) \/ DispatchTimer(v)
  BY <1>3, <1>7 DEF EnterMessageLoop, TrayExit, DropStale, RestoreFromTray, LeaveMessageLoop,
                    ExternalCloseWindow, MinimizeWindow, StrayEvent, FatalError, TimerDue,
                    DispatchTimer, vars
<1>8. QED
  BY <1>4, <1>5, <1>6, <1>7 DEF Next

\* Only CloseWindow takes the control from a BrowserWindow that it leaves alive.
LEMMA ClosingBegins ==
  ASSUME IInv, [Next]_vars, NEW w \in Windows, ~Closing(w), Closing(w)'
  PROVE  \E i \in 1..Len(posted') : posted'[i] = CloseOf(w)
<1> USE DEF IInv, TypeOK, Closing
<1>1. ~(\E v \in Windows : OnCreate(v))
  BY DEF OnCreate, CreateBrowserControl, StoreBrowserWindow
<1>2. ~UNCHANGED <<object, webBrowser2>>
  OBVIOUS
<1>3. ~(CreateMainWindow \/ \E p, v \in Windows : NewWindow3(p, v))
  BY <1>1, <1>2, WindowsAssumption DEF CreateMainWindow, NewWindow3, FatalError, control
<1>4. ~(\E v \in Windows : window[v] = "open" /\ OnDestroy(v))
  BY DestroyDeletes
<1>5. ~(\E v \in Windows : CloseButton(v)) /\ ~DispatchClose /\ ~DispatchDestroy
  BY <1>4, HeadPosted DEF CloseButton, DispatchClose, DispatchDestroy, DestroyWindow
<1>6. PICK v \in Windows : ExternalCloseWindow(v)
  BY <1>2, <1>3, <1>5 DEF Next, EnterMessageLoop, TrayExit, DropStale, RestoreFromTray,
                          LeaveMessageLoop, MinimizeWindow, StrayEvent, FatalError,
                          TimerDue, DispatchTimer, vars, control
<1>7. v = w
  BY <1>6 DEF ExternalCloseWindow, CloseWebBrowser2
<1>8. posted' = Append(posted, CloseOf(w)) /\ posted \in Seq(Message)
  BY <1>6, <1>7 DEF ExternalCloseWindow, PostMessage, CloseOf
<1>9. Len(posted') = Len(posted) + 1 /\ Len(posted') \in Nat /\ posted'[Len(posted')] = CloseOf(w)
  BY <1>8
<1>10. Len(posted') \in 1..Len(posted')
  BY <1>8, <1>9
<1>11. QED
  BY <1>9, <1>10

LEMMA NextCloseInv == IInv /\ CloseInv /\ [Next]_vars => CloseInv'
<1> SUFFICES ASSUME IInv, CloseInv, [Next]_vars PROVE CloseInv'
  OBVIOUS
<1>1. ASSUME NEW w \in Windows, Closing(w)'
      PROVE  \E i \in 1..Len(posted') : posted'[i] = CloseOf(w)
  <2>1. CASE ~Closing(w)
    BY <1>1, <2>1, ClosingBegins
  <2>2. CASE Closing(w)
    <3>1. PICK i \in 1..Len(posted) : posted[i] = CloseOf(w)
      BY <2>2 DEF CloseInv, CloseIsPosted
    <3>2. object'[w] # "deleted"
      BY <1>1 DEF Closing
    <3>3. CASE i > 1 /\ posted' = Tail(posted)
      <4>1. posted \in Seq(Message) /\ posted # <<>> /\ Len(posted') = Len(posted) - 1
        BY <3>1, <3>3 DEF IInv, TypeOK
      <4>2. i - 1 \in 1..Len(posted') /\ posted'[i - 1] = posted[i]
        BY <3>1, <3>3, <4>1
      <4>3. QED
        BY <3>1, <4>2
    <3>4. CASE i <= Len(posted') /\ posted'[i] = posted[i]
      <4>1. i \in 1..Len(posted')
        BY <3>1, <3>4
      <4>2. QED
        BY <3>1, <3>4, <4>1
    <3>5. QED
      BY <2>2, <3>1, <3>2, <3>3, <3>4, MessageStays
  <2>3. QED
    BY <2>1, <2>2
<1>2. CloseIsPosted'
  BY <1>1 DEF CloseIsPosted, CloseOf
<1>3. QED
  BY <1>2, LiveIsOpen DEF CloseInv

LEMMA InitCloseInv == Init => CloseInv
BY DEF Init, CloseInv, CloseIsPosted, Closing

LEMMA CloseInvariance == Spec => [](IInv /\ CloseInv)
BY InitIInv, NextIInv, InitCloseInv, NextCloseInv, PTL DEF Spec

\* A BrowserWindow that a page has closed is never forgotten: as long as it
\* lives the message that will delete it is in the queue.
THEOREM ClosesAreUnderWay == Spec => []CloseIsPosted
<1>1. CloseInv => CloseIsPosted
  BY DEF CloseInv
<1>2. QED
  BY <1>1, CloseInvariance, PTL

\* That message comes nearer with every message handled, and nothing takes it
\* away, whatever windows there are and however long the queue is.
THEOREM CloseOnlyMovesUp == Spec => CloseMovesUp
<1>1. IInv /\ CloseInv /\ [Next]_vars =>
        [\A w \in Windows : \A i \in 1..Len(posted) :
           Closing(w) /\ posted[i] = CloseOf(w) =>
             \/ object'[w] = "deleted"
             \/ /\ Closing(w)'
                /\ \/ i > 1 /\ posted' = Tail(posted)
                   \/ i <= Len(posted') /\ posted'[i] = posted[i]]_vars
  BY MessageStays
<1>2. QED
  BY <1>1, CloseInvariance, PTL DEF Spec, CloseMovesUp

-----------------------------------------------------------------------------
(***************************************************************************)
(* The end of the message loop.                                            *)
(***************************************************************************)
\* A message that is handled leaves fewer ahead of the one that deletes a window: were
\* there as many, the successor would map those ahead to themselves, and 1 with none
\* before it.
LEMMA TailAhead ==
  ASSUME posted \in Seq(Message), posted # <<>>, posted' = Tail(posted),
         \A w \in Windows : Closing(w)' <=> Closing(w), ~IsClose(Head(posted))
  PROVE  Ahead' \subseteq Ahead /\ Ahead' # Ahead
<1> DEFINE n == Len(posted)
<1>1. n \in Nat /\ n > 0 /\ posted' \in Seq(Message) /\ Len(posted') = n - 1
  OBVIOUS
<1>2. \A j \in 1..(n - 1) : posted'[j] = posted[j + 1] /\ posted[j + 1] \in Message
  BY <1>1
<1>3. \A j \in 1..(n - 1) : IsClose(posted[j + 1]) <=> IsClose(posted[j])'
  BY <1>2 DEF IsClose, Message
<1>4. ~IsClose(posted[1])
  OBVIOUS
<1>5. 1 \in Ahead
  BY <1>1, <1>4 DEF Ahead
<1>6. \A i \in Ahead' : i \in 1..(n - 1) /\ i + 1 \in Ahead /\ i \in Ahead
  <2> SUFFICES ASSUME NEW i \in Ahead'
               PROVE  i \in 1..(n - 1) /\ i + 1 \in Ahead /\ i \in Ahead
    OBVIOUS
  <2>1. i \in 1..(n - 1) /\ \A j \in 1..i : ~IsClose(posted[j])'
    BY <1>1 DEF Ahead
  <2>2. ASSUME NEW j \in 1..(i + 1) PROVE ~IsClose(posted[j])
    <3>1. CASE j = 1
      BY <1>4, <3>1
    <3>2. CASE j # 1
      <4>1. j - 1 \in 1..i /\ j - 1 \in 1..(n - 1) /\ (j - 1) + 1 = j
        BY <1>1, <2>1, <3>2
      <4>2. QED
        BY <1>3, <2>1, <4>1
    <3>3. QED
      BY <3>1, <3>2
  <2>3. i + 1 \in 1..n /\ i \in 1..n /\ \A j \in 1..i : j \in 1..(i + 1)
    BY <1>1, <2>1
  <2>4. QED
    BY <2>1, <2>2, <2>3 DEF Ahead
<1>7. ASSUME Ahead' = Ahead PROVE FALSE
  <2> DEFINE next == [i \in Ahead |-> i + 1]
  <2>1. \A i \in Ahead : i \in 1..(n - 1) /\ i + 1 \in Ahead
    BY <1>6, <1>7
  <2>2. IsFiniteSet(Ahead)
    <3> HIDE DEF next
    <3>1. n \in Nat /\ \A i \in 1..(n - 1) : i \in Nat /\ i <= n
      BY <1>1
    <3> HIDE DEF n
    <3>2. \A i \in Ahead : i \in Nat /\ i <= n
      BY <2>1, <3>1
    <3>3. QED
      BY <3>1, <3>2, FS_BoundedSetOfNaturals
  <2>3. next \in Injection(Ahead, Ahead)
    <3>1. next \in [Ahead -> Ahead]
      BY <2>1
    <3>2. \A i, j \in Ahead : next[i] = next[j] => i = j
      BY <2>1
    <3> HIDE DEF next
    <3>3. QED
      BY <3>1, <3>2 DEF Injection, IsInjective
  <2>4. next \in Surjection(Ahead, Ahead)
    <3> HIDE DEF next
    <3>1. QED
      BY <2>2, <2>3, FS_Injection
  <2>5. \E i \in Ahead : next[i] = 1
    <3> HIDE DEF next
    <3>1. QED
      BY <1>5, <2>4 DEF Surjection
  <2>6. QED
    BY <2>1, <2>5
<1>8. QED
  BY <1>6, <1>7

\* A page that closes its window again changes nothing ahead of the message that will end
\* it.
LEMMA AgainBehind ==
  ASSUME IInv, CloseInv, NEW w \in Windows, Closing(w), ExternalCloseWindow(w)
  PROVE  Ahead' = Ahead
<1>1. PICK k \in 1..Len(posted) : posted[k] = CloseOf(w)
  BY DEF CloseInv, CloseIsPosted
<1>2. posted \in Seq(Message) /\ posted' = Append(posted, CloseOf(w))
  BY DEF IInv, TypeOK, ExternalCloseWindow, PostMessage, CloseOf
<1>3. UNCHANGED <<object, webBrowser2>>
  BY DEF Closing, ExternalCloseWindow, CloseWebBrowser2
<1>4. /\ Len(posted) \in Nat /\ Len(posted') = Len(posted) + 1
      /\ \A i \in 1..Len(posted) : posted'[i] = posted[i]
  BY <1>2
<1>5. IsClose(posted[k])
  BY <1>1 DEF IsClose, CloseOf
<1>6. QED
  BY <1>3, <1>4, <1>5 DEF Ahead, IsClose, Closing

\* A message that is taken from the queue deletes a BrowserWindow or there are fewer ahead.
LEMMA HandledRunsDown ==
  ASSUME IInv, CloseInv, DispatchClose \/ DispatchDestroy \/ DropStale
  PROVE  /\ Unmade' = Unmade
         /\ g_browserWindows' \subseteq g_browserWindows
         /\ g_browserWindows' = g_browserWindows =>
              webBrowser2' = webBrowser2 /\ Ahead' \subseteq Ahead /\ Ahead' # Ahead
<1> DEFINE h == Head(posted).hwnd
<1>1. posted \in Seq(Message) /\ posted # <<>> /\ posted' = Tail(posted) /\ h \in Windows
  BY HeadPosted DEF IInv, TypeOK, DispatchClose, DispatchDestroy, DropStale
<1>2. Unmade' = Unmade
  BY <1>1 DEF DispatchClose, DispatchDestroy, DropStale, DestroyWindow, Unmade, IInv, TypeOK
<1>3. ASSUME g_browserWindows' = g_browserWindows
      PROVE  UNCHANGED <<object, webBrowser2>> /\ object[h] # "live"
  <2>1. CASE DropStale
    BY <1>1, <2>1 DEF DropStale, control, CloseInv
  <2>2. CASE DispatchClose \/ DispatchDestroy
    <3>1. OnDestroy(h)
      BY <2>2 DEF DispatchClose, DispatchDestroy, DestroyWindow
    <3>2. h \notin g_browserWindows
      BY <1>3, <3>1 DEF OnDestroy, RemoveBrowserWindow
    <3>3. QED
      BY <1>1, <3>1, <3>2 DEF OnDestroy, RemoveBrowserWindow, control, IInv, RegistrySound
  <2>3. QED
    BY <2>1, <2>2
<1>4. g_browserWindows' \subseteq g_browserWindows
  BY DEF DispatchClose, DispatchDestroy, DropStale, DestroyWindow, OnDestroy,
         RemoveBrowserWindow
<1>5. ASSUME g_browserWindows' = g_browserWindows
      PROVE  Ahead' \subseteq Ahead /\ Ahead' # Ahead
  <2>1. \A w \in Windows : Closing(w)' <=> Closing(w)
    BY <1>3, <1>5 DEF Closing
  <2>2. ~IsClose(Head(posted))
    BY <1>3, <1>5 DEF IsClose, Closing
  <2>3. QED
    BY <1>1, <2>1, <2>2, TailAhead
<1>6. QED
  BY <1>2, <1>3, <1>4, <1>5

\* A new window is one less to make.
LEMMA CreatedRunsDown ==
  ASSUME IInv, NEW w \in Windows, OnCreate(w)
  PROVE  Unmade' \subseteq Unmade /\ Unmade' # Unmade
<1>1. w \in Unmade /\ w \notin Unmade'
  BY DEF OnCreate, Unmade, IInv, TypeOK
<1>2. Unmade' \subseteq Unmade
  BY DEF OnCreate, Unmade, IInv, TypeOK
<1>3. QED
  BY <1>1, <1>2

\* CloseWindow releases the control, or the page has called it before.
LEMMA ClosedRunsDown ==
  ASSUME IInv, CloseInv, NEW w \in Windows, ExternalCloseWindow(w)
  PROVE  /\ Unmade' = Unmade /\ g_browserWindows' = g_browserWindows
         /\ webBrowser2' \subseteq webBrowser2
         /\ webBrowser2' = webBrowser2 => Closing(w) /\ Ahead' = Ahead
<1>1. Unmade' = Unmade /\ g_browserWindows' = g_browserWindows
  BY DEF ExternalCloseWindow, Unmade
<1>2. webBrowser2' = webBrowser2 \ {w} /\ object[w] = "live"
  BY DEF ExternalCloseWindow, CloseWebBrowser2
<1>3. webBrowser2' = webBrowser2 => Closing(w)
  BY <1>2 DEF Closing
<1>4. QED
  BY <1>1, <1>2, <1>3, AgainBehind

\* After WM_QUIT the loop handles what is posted and no more than the pages still alive
\* can add (the safety half of QuitEnds).
THEOREM QuitOnlyRunsDown == Spec => QuitRunsDown
<1>1. IInv /\ CloseInv /\ [Next]_vars =>
        [quit /\ phase = "loop" =>
           \/ phase' # "loop"
           \/ Unmade' \subseteq Unmade /\ Unmade' # Unmade
           \/ /\ Unmade' = Unmade
              /\ g_browserWindows' \subseteq g_browserWindows
              /\ \/ g_browserWindows' # g_browserWindows
                 \/ webBrowser2' \subseteq webBrowser2 /\ webBrowser2' # webBrowser2
                 \/ /\ webBrowser2' = webBrowser2
                    /\ Ahead' \subseteq Ahead
                    /\ \/ Ahead' # Ahead
                       \/ ticks' \subseteq ticks /\ ticks' # ticks
                       \/ \E w \in Windows : Closing(w) /\ ExternalCloseWindow(w)]_vars
  <2> SUFFICES ASSUME IInv, CloseInv, [Next]_vars, quit, phase = "loop", phase' = "loop",
                      ~UNCHANGED vars
               PROVE  \/ Unmade' \subseteq Unmade /\ Unmade' # Unmade
                      \/ /\ Unmade' = Unmade
                         /\ g_browserWindows' \subseteq g_browserWindows
                         /\ \/ g_browserWindows' # g_browserWindows
                            \/ webBrowser2' \subseteq webBrowser2 /\ webBrowser2' # webBrowser2
                            \/ /\ webBrowser2' = webBrowser2
                               /\ Ahead' \subseteq Ahead
                               /\ \/ Ahead' # Ahead
                                  \/ ticks' \subseteq ticks /\ ticks' # ticks
                                  \/ \E w \in Windows : Closing(w) /\ ExternalCloseWindow(w)
    OBVIOUS
  <2>1. CASE \E p, w \in Windows : NewWindow3(p, w)
    BY <2>1, CreatedRunsDown DEF NewWindow3, FatalError
  <2>2. CASE \E w \in Windows : ExternalCloseWindow(w)
    BY <2>2, ClosedRunsDown
  <2>3. CASE DispatchClose \/ DispatchDestroy \/ DropStale
    BY <2>3, HandledRunsDown
  <2>4. CASE \E w \in Windows : DispatchTimer(w)
    <3>1. UNCHANGED <<window, object, control, posted, g_browserWindows>>
      BY <2>4 DEF DispatchTimer
    <3>2. Unmade' = Unmade /\ Ahead' = Ahead
      BY <3>1 DEF Unmade, Ahead, IsClose, Closing, control
    <3>3. ticks' \subseteq ticks /\ ticks' # ticks
      BY <2>4 DEF DispatchTimer
    <3>4. QED
      BY <3>1, <3>2, <3>3 DEF control
  <2>5. QED
    BY <2>1, <2>2, <2>3, <2>4
    DEF Next, CreateMainWindow, EnterMessageLoop, CloseButton, TrayExit, MinimizeWindow,
        RestoreFromTray, LeaveMessageLoop, StrayEvent, FatalError, TimerDue
<1>2. QED
  BY <1>1, CloseInvariance, PTL DEF Spec, QuitRunsDown

=============================================================================
