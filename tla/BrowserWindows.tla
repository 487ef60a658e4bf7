--------------------------- MODULE BrowserWindows ---------------------------
(***************************************************************************)
(* The UI thread of HttpMsieBridge with the msie engine: the window        *)
(* procedure of main.cpp, its message loop, the registry of BrowserWindow  *)
(* objects and what each object holds of its WebBrowser control, from      *)
(* WM_CREATE to the end of the process.                                    *)
(*                                                                         *)
(* Every action is one message handled to its end by the UI thread.  A     *)
(* window handle is used once; the object made for it by WM_CREATE is named*)
(* by the handle, so g_browserWindows is the set of its keys.  Windows     *)
(* discards the messages of a window it destroys; here they stay in        *)
(* `posted' and DropStale removes them when they come to the front.        *)
(***************************************************************************)
EXTENDS Integers, Sequences, FiniteSets

CONSTANTS
  Windows,           \* window handles that can be created
  MainWindow,        \* the handle CreateMainWindow returns (g_hwnd)
  NoWindow,          \* the null handle
  MinimizeToTray,    \* settings.json window.minimize_to_tray
  Startup,           \* whether settings.json integration.startup is not empty
  SetTimerOutcomes,  \* what SetTimer may answer: TRUE is a timer
  MaxPosted          \* bound of the model on the posted-message queue

ASSUME WindowsAssumption ==
  /\ IsFiniteSet(Windows)
  /\ MainWindow \in Windows
  /\ NoWindow \notin Windows
  /\ MinimizeToTray \in BOOLEAN
  /\ Startup \in BOOLEAN
  /\ SetTimerOutcomes \subseteq BOOLEAN
  /\ MaxPosted \in Nat

VARIABLES
  phase,             \* where wWinMain is
  window,            \* the system's view of each handle
  hidden,            \* windows hidden by ShowWindow(SW_HIDE)
  g_windowCount,
  g_browserWindows,  \* the keys of the registry
  object,            \* the BrowserWindow object made for each handle
  webBrowser2,       \* objects whose webBrowser2_ is not null
  advised,           \* controls whose event sink is connected
  unadviseFailed,    \* controls given up while UnadviseEvent failed
  clientSite,        \* the client site of each object's oleObject_
  timers,            \* windows whose 50 ms timer runs
  ticks,             \* windows a WM_TIMER is waiting for
  posted,            \* the posted messages of the UI thread, oldest first
  quit,              \* PostQuitMessage has been called
  webServer,         \* the embedded HTTP server, as StartWebServer left it
  startup,           \* the process main.cpp:374 started
  trayIcon,          \* the window that owns the notification icon
  killTimerHeld      \* every _ASSERT(b) of main.cpp:176 so far has held

control == <<webBrowser2, advised, unadviseFailed, clientSite>>
ticking == <<timers, ticks>>
process == <<webServer, startup, trayIcon>>
vars == <<phase, window, hidden, g_windowCount, g_browserWindows, object,
          control, ticking, posted, quit, process, killTimerHeld>>

Message == [hwnd : Windows, msg : {"WM_CLOSE", "WM_DESTROY"}]

TypeOK ==
  /\ phase \in {"launch", "opened", "loop", "ended", "exited"}
  /\ window \in [Windows -> {"none", "open", "destroyed"}]
  /\ hidden \subseteq Windows
  /\ g_windowCount \in Int
  /\ g_browserWindows \subseteq Windows
  /\ object \in [Windows -> {"none", "live", "deleted"}]
  /\ webBrowser2 \subseteq Windows
  /\ advised \subseteq Windows
  /\ unadviseFailed \subseteq Windows
  /\ clientSite \in [Windows -> {"none", "set", "cleared", "abandoned"}]
  /\ timers \subseteq Windows
  /\ ticks \subseteq Windows
  /\ posted \in Seq(Message)
  /\ quit \in BOOLEAN
  /\ webServer \in {"off", "started", "stopped"}
  /\ startup \in {"none", "running", "terminated"}
  /\ trayIcon \in Windows \union {NoWindow}
  /\ killTimerHeld \in BOOLEAN

Init ==
  /\ phase = "launch"
  /\ window = [w \in Windows |-> "none"]
  /\ hidden = {}
  /\ g_windowCount = 0
  /\ g_browserWindows = {}
  /\ object = [w \in Windows |-> "none"]
  /\ webBrowser2 = {}
  /\ advised = {}
  /\ unadviseFailed = {}
  /\ clientSite = [w \in Windows |-> "none"]
  /\ timers = {}
  /\ ticks = {}
  /\ posted = <<>>
  /\ quit = FALSE
  /\ webServer = "off"
  /\ startup = IF Startup THEN "running" ELSE "none"
  /\ trayIcon = NoWindow
  /\ killTimerHeld = TRUE

-----------------------------------------------------------------------------
(***************************************************************************)
(* WM_CREATE.  Neither CreateMainWindow nor CreatePopupWindow passes an    *)
(* owner, so IsPopup() is false in every constructor: a control that cannot*)
(* be created always ends in FatalError, that is in exit(-1).  AdviseEvent *)
(* may fail, and its result is ignored.                                    *)
(***************************************************************************)
CreateBrowserControl(w) ==
  /\ webBrowser2' = webBrowser2 \union {w}
  /\ clientSite' = [clientSite EXCEPT ![w] = "set"]
  /\ advised' \in {advised, advised \union {w}}
  /\ UNCHANGED unadviseFailed

StoreBrowserWindow(w) ==
  /\ object' = [object EXCEPT ![w] = "live"]
  /\ g_browserWindows' = g_browserWindows \union {w}

OnCreate(w) ==
  /\ window[w] = "none"
  /\ window' = [window EXCEPT ![w] = "open"]
  /\ g_windowCount' = g_windowCount + 1
  /\ CreateBrowserControl(w)
  /\ StoreBrowserWindow(w)
  /\ \E timer \in SetTimerOutcomes :
        timers' = IF timer THEN timers \union {w} ELSE timers
  /\ UNCHANGED ticks

\* A message box, and exit(-1) once the user has answered it; what the box's own
\* message loop may still handle before that is not modelled.
FatalError ==
  /\ phase' = "exited"
  /\ UNCHANGED <<window, hidden, g_windowCount, g_browserWindows, object,
                 control, ticking, posted, quit, process, killTimerHeld>>

\* wWinMain creates the main window; a browser control that cannot be created
\* is fatal.
CreateMainWindow ==
  /\ phase = "launch"
  /\ \/ FatalError
     \/ /\ phase' = "opened"
        /\ OnCreate(MainWindow)
        /\ UNCHANGED <<hidden, posted, quit, process, killTimerHeld>>

\* StartWebServer always answers true; then the icon is added and the message
\* loop entered.
EnterMessageLoop ==
  /\ phase = "opened"
  /\ phase' = "loop"
  /\ webServer' = "started"
  /\ trayIcon' = MainWindow
  /\ UNCHANGED <<window, hidden, g_windowCount, g_browserWindows, object,
                 control, ticking, posted, quit, startup, killTimerHeld>>

\* window.open() in a page of p: DWebBrowserEvents2::NewWindow3 creates the
\* popup before it returns.  The sink is a member of p's object: where
\* UnadviseEvent has failed it may be called after that object was deleted, and
\* what it then reads may or may not still serve.
NewWindow3(p, w) ==
  /\ phase = "loop"
  /\ p \in advised
  /\ window[w] = "none"
  /\ \/ FatalError
     \/ /\ OnCreate(w)
        /\ UNCHANGED <<phase, hidden, posted, quit, process, killTimerHeld>>

\* Any other event for an object that has been deleted: the access may kill the
\* process.
StrayEvent(p) ==
  /\ phase = "loop"
  /\ p \in advised /\ object[p] = "deleted"
  /\ FatalError

-----------------------------------------------------------------------------
(***************************************************************************)
(* Closing the control and the window.  CloseBrowserControl leaves early   *)
(* when webBrowser2_ is already null, and the destructor then releases the *)
(* OLE object with its client site still set.                              *)
(***************************************************************************)
\* Its result is not looked at: a sink that cannot be disconnected stays.
UnadviseEvent(w) ==
  \/ advised' = advised \ {w} /\ UNCHANGED unadviseFailed
  \/ unadviseFailed' = unadviseFailed \union {w} /\ UNCHANGED advised

CloseWebBrowser2(w) ==
  /\ webBrowser2' = webBrowser2 \ {w}
  /\ IF w \in webBrowser2 \intersect advised
       THEN UnadviseEvent(w)
       ELSE UNCHANGED <<advised, unadviseFailed>>

CloseBrowserControl(w) ==
  /\ CloseWebBrowser2(w)
  /\ clientSite' = [clientSite EXCEPT ![w] =
                      IF w \in webBrowser2 THEN "cleared" ELSE "abandoned"]

\* Mutant: the object is deleted and its key kept.
DeleteOnly(w) ==
  /\ object' = [object EXCEPT ![w] = "deleted"]
  /\ CloseBrowserControl(w)
  /\ UNCHANGED g_browserWindows

\* Mutant: the key is erased and the object never deleted.
EraseOnly(w) ==
  /\ g_browserWindows' = g_browserWindows \ {w}
  /\ UNCHANGED <<object, control>>

RemoveBrowserWindow(w) ==
  \/ /\ w \in g_browserWindows
     /\ g_browserWindows' = g_browserWindows \ {w}
     /\ object' = [object EXCEPT ![w] = "deleted"]
     /\ CloseBrowserControl(w)
  \/ /\ w \notin g_browserWindows
     /\ UNCHANGED <<g_browserWindows, object, control>>

\* The last window is gone: the server is stopped, the icon deleted and the
\* loop told to quit.  shellInfo points at a temporary that no longer exists
\* (main.cpp:374): closeProcess may or may not find the handle in it.
LastWindowGone ==
  /\ webServer' = IF webServer = "started" THEN "stopped" ELSE webServer
  /\ startup' \in IF startup = "running" THEN {"running", "terminated"}
                  ELSE {startup}
  /\ trayIcon' = NoWindow
  /\ quit' = TRUE

\* Mutant: the timer outlives a posted WM_DESTROY.
LeaveTimer(w) ==
  /\ killTimerHeld' = (killTimerHeld /\ w \in timers)
  /\ UNCHANGED timers

\* A WM_TIMER that is already waiting is not taken back.
KillTimer(w) ==
  /\ killTimerHeld' = (killTimerHeld /\ w \in timers)
  /\ timers' = timers \ {w}

\* Mutant: only the main window is counted down.
CountMainDown(w) ==
  g_windowCount' = IF w = MainWindow THEN g_windowCount - 1 ELSE g_windowCount

CountDown(w) == g_windowCount' = g_windowCount - 1

IsLastWindow(count) == count <= 0

\* The WM_DESTROY case of WindowProc.
OnDestroy(w) ==
  /\ CountDown(w)
  /\ KillTimer(w)
  /\ RemoveBrowserWindow(w)
  /\ IF IsLastWindow(g_windowCount')
       THEN LastWindowGone
       ELSE UNCHANGED <<quit, process>>

\* DefWindowProc's answer to WM_CLOSE: DestroyWindow sends WM_DESTROY, and the
\* system forgets what waits for the window.
DestroyWindow(w) ==
  /\ window' = [window EXCEPT ![w] = "destroyed"]
  /\ hidden' = hidden \ {w}
  /\ ticks' = ticks \ {w}
  /\ OnDestroy(w)

\* The user closes a window.  Input comes after WM_QUIT in a thread's queue.
CloseButton(w) ==
  /\ phase = "loop" /\ ~quit
  /\ window[w] = "open" /\ w \notin hidden
  /\ DestroyWindow(w)
  /\ UNCHANGED <<phase, posted>>

PostMessage(w, m) ==
  /\ Len(posted) < MaxPosted
  /\ posted' = Append(posted, [hwnd |-> w, msg |-> m])

\* Mutant: the control is closed and WM_CLOSE never posted.
ExternalPostsNothing(w) ==
  /\ phase = "loop"
  /\ object[w] = "live"
  /\ CloseWebBrowser2(w)
  /\ UNCHANGED <<phase, window, hidden, g_windowCount, g_browserWindows,
                 object, clientSite, ticking, posted, quit, process,
                 killTimerHeld>>

\* window.external.CloseWindow(), called by a script of the page in w.
ExternalCloseWindow(w) ==
  /\ phase = "loop"
  /\ object[w] = "live"
  /\ CloseWebBrowser2(w)
  /\ PostMessage(w, "WM_CLOSE")
  /\ UNCHANGED <<phase, window, hidden, g_windowCount, g_browserWindows,
                 object, clientSite, ticking, quit, process, killTimerHeld>>

\* Exit in the menu of the notification icon posts WM_DESTROY itself.
TrayExit ==
  /\ phase = "loop" /\ ~quit
  /\ trayIcon # NoWindow
  /\ window[trayIcon] = "open"
  /\ PostMessage(trayIcon, "WM_DESTROY")
  /\ UNCHANGED <<phase, window, hidden, g_windowCount, g_browserWindows,
                 object, control, ticking, quit, process, killTimerHeld>>

DispatchClose ==
  /\ phase = "loop" /\ posted # <<>>
  /\ Head(posted).msg = "WM_CLOSE"
  /\ window[Head(posted).hwnd] = "open"
  /\ posted' = Tail(posted)
  /\ DestroyWindow(Head(posted).hwnd)
  /\ UNCHANGED phase

\* A posted WM_DESTROY runs the handler and leaves the window standing.
DispatchDestroy ==
  /\ phase = "loop" /\ posted # <<>>
  /\ Head(posted).msg = "WM_DESTROY"
  /\ window[Head(posted).hwnd] = "open"
  /\ posted' = Tail(posted)
  /\ OnDestroy(Head(posted).hwnd)
  /\ UNCHANGED <<phase, window, hidden, ticks>>

DropStale ==
  /\ phase = "loop" /\ posted # <<>>
  /\ window[Head(posted).hwnd] # "open"
  /\ posted' = Tail(posted)
  /\ UNCHANGED <<phase, window, hidden, g_windowCount, g_browserWindows,
                 object, control, ticking, quit, process, killTimerHeld>>

\* The 50 ms have passed.  The system makes WM_TIMER last, when neither a posted
\* message nor WM_QUIT is there to be retrieved.
TimerDue(w) ==
  /\ phase = "loop" /\ ~quit
  /\ w \in timers
  /\ ticks' = ticks \union {w}
  /\ UNCHANGED <<phase, window, hidden, g_windowCount, g_browserWindows, object,
                 control, timers, posted, quit, process, killTimerHeld>>

\* WM_TIMER: OnTimer of the window's BrowserWindow (ClickEvents), or a warning
\* that there is none.
DispatchTimer(w) ==
  /\ phase = "loop"
  /\ w \in ticks
  /\ ticks' = ticks \ {w}
  /\ UNCHANGED <<phase, window, hidden, g_windowCount, g_browserWindows, object,
                 control, timers, posted, quit, process, killTimerHeld>>

-----------------------------------------------------------------------------
(***************************************************************************)
(* The notification area.  ShowTrayTip modifies the icon of the window it  *)
(* is given; the only icon ever added is the main window's.                *)
(***************************************************************************)
MinimizeWindow(w) ==
  /\ phase = "loop" /\ ~quit
  /\ window[w] = "open" /\ w \notin hidden
  /\ MinimizeToTray /\ g_windowCount <= 1
  /\ hidden' = hidden \union {w}
  /\ UNCHANGED <<phase, window, g_windowCount, g_browserWindows, object,
                 control, ticking, posted, quit, process, killTimerHeld>>

RestoreFromTray ==
  /\ phase = "loop" /\ ~quit
  /\ trayIcon # NoWindow
  /\ window[trayIcon] = "open"
  /\ trayIcon \in hidden
  /\ hidden' = hidden \ {trayIcon}
  /\ UNCHANGED <<phase, window, g_windowCount, g_browserWindows, object,
                 control, ticking, posted, quit, process, killTimerHeld>>

\* GetMessage returns 0: WM_QUIT is retrieved once no posted message is left.
QuitRetrieved == quit /\ posted = <<>>

\* Mutant: the loop also waits for the registry to become empty.
LeaveWhenEmpty ==
  /\ phase = "loop"
  /\ QuitRetrieved /\ g_browserWindows = {}
  /\ phase' = "ended"
  /\ UNCHANGED <<window, hidden, g_windowCount, g_browserWindows, object,
                 control, ticking, posted, quit, process, killTimerHeld>>

LeaveMessageLoop ==
  /\ phase = "loop"
  /\ QuitRetrieved
  /\ phase' = "ended"
  /\ UNCHANGED <<window, hidden, g_windowCount, g_browserWindows, object,
                 control, ticking, posted, quit, process, killTimerHeld>>

-----------------------------------------------------------------------------
Next ==
  \/ CreateMainWindow
  \/ EnterMessageLoop
  \/ \E p, w \in Windows : NewWindow3(p, w)
  \/ \E p \in Windows : StrayEvent(p)
  \/ \E w \in Windows : CloseButton(w)
  \/ \E w \in Windows : ExternalCloseWindow(w)
  \/ TrayExit
  \/ DispatchClose
  \/ DispatchDestroy
  \/ DropStale
  \/ \E w \in Windows : TimerDue(w)
  \/ \E w \in Windows : DispatchTimer(w)
  \/ \E w \in Windows : MinimizeWindow(w)
  \/ RestoreFromTray
  \/ LeaveMessageLoop

\* wWinMain runs its message loop as long as GetMessage has something for it.
Fairness ==
  /\ WF_vars(DispatchClose)
  /\ WF_vars(DispatchDestroy)
  /\ WF_vars(DropStale)
  /\ WF_vars(LeaveMessageLoop)

Spec == Init /\ [][Next]_vars

FairSpec == Spec /\ Fairness

-----------------------------------------------------------------------------
(***************************************************************************)
(* Properties.                                                             *)
(***************************************************************************)

\* Every pointer the registry hands out is a live BrowserWindow, and every
\* live BrowserWindow can be found in it: RemoveBrowserWindow erases before it
\* deletes (browser_window.cpp:92), whatever order WM_DESTROY messages take.
RegistrySound ==
  \A w \in Windows : w \in g_browserWindows <=> object[w] = "live"

\* g_windowCount never exceeds the number of registered windows.  It may fall
\* below it: WM_DESTROY posted by the tray menu counts a window twice.
CountBound == g_windowCount <= Cardinality(g_browserWindows)

\* The process never runs on with no browser window left: the WM_DESTROY that
\* removes the last one has posted WM_QUIT (main.cpp:178).
NoGhostApplication == phase = "loop" /\ g_browserWindows = {} => quit

\* No timer runs without a BrowserWindow to tick for.
TimersServed == timers \subseteq g_browserWindows

\* A WM_TIMER finds its BrowserWindow, although KillTimer takes none back
\* (main.cpp:175): the warning of main.cpp:206 is left to the main window that
\* Exit has bereft of its BrowserWindow and left standing.
TicksServed ==
  \A w \in ticks :
    w \in g_browserWindows \/ (w = MainWindow /\ window[w] = "open")

\* A WebBrowser control delivers events only into a BrowserWindow that is alive and
\* holds it, but for those whose UnadviseEvent has failed: no way of giving up
\* the control leaves the sink connected by itself (browser_window.cpp:358).
SinksLive ==
  advised \subseteq (webBrowser2 \intersect g_browserWindows) \union unadviseFailed

\* A callback that comes from outside, a timer's message (main.cpp:199) or an
\* event of the control (browser_events2.cpp:83), finds the BrowserWindow it is
\* for, whichever of the three ways to close a window was taken and however late
\* it comes; the exceptions are the tick for a main window Exit has left
\* standing and the sink that could not be disconnected.
CallbacksServed == TimersServed /\ TicksServed /\ SinksLive

\* The only window that can be left standing without its BrowserWindow is the
\* owner of the notification icon.
ZombieIsMain ==
  \A w \in Windows : window[w] = "open" /\ object[w] = "deleted" => w = MainWindow

\* CloseWindow called by a page ends in the deletion of its BrowserWindow,
\* whatever else closes meanwhile, unless the process dies of FatalError.
CloseWindowCompletes ==
  \A w \in Windows :
    (object[w] = "live" /\ w \notin webBrowser2)
      ~> (object[w] = "deleted" \/ phase = "exited")

\* A posted WM_QUIT ends the message loop, although pages still alive may post
\* further WM_CLOSE messages ahead of it.
QuitEnds == quit ~> phase \in {"ended", "exited"}

(***************************************************************************)
(* Why CloseWindowCompletes holds: the message that will close the window. *)
(***************************************************************************)
CloseOf(w) == [hwnd |-> w, msg |-> "WM_CLOSE"]

\* A page has called CloseWindow: the BrowserWindow is there without a control.
Closing(w) == object[w] = "live" /\ w \notin webBrowser2

\* A BrowserWindow that has lost its control has a WM_CLOSE under way: the loop
\* cannot run dry, and so cannot be left, before it has come
\* (browser_window.cpp:945-948).
CloseIsPosted ==
  \A w \in Windows : Closing(w) => \E i \in 1..Len(posted) : posted[i] = CloseOf(w)

\* The message only moves up: nothing that is posted, closed, dropped or opened
\* meanwhile takes it away, and when its turn comes it finds its window.
CloseMovesUp ==
  [][\A w \in Windows : \A i \in 1..Len(posted) :
       Closing(w) /\ posted[i] = CloseOf(w) =>
         \/ object'[w] = "deleted"
         \/ /\ Closing(w)'
            /\ \/ i > 1 /\ posted' = Tail(posted)
               \/ i <= Len(posted') /\ posted'[i] = posted[i]]_vars

(***************************************************************************)
(* Why QuitEnds holds: what is left to do before GetMessage returns 0.     *)
(***************************************************************************)
Unmade == {w \in Windows : window[w] = "none"}

\* The messages ahead of the first that deletes a BrowserWindow whose page has
\* closed it, or all of them.
IsClose(m) == m.msg = "WM_CLOSE" /\ Closing(m.hwnd)

Ahead == {i \in 1..Len(posted) : \A j \in 1..i : ~IsClose(posted[j])}

\* Once WM_QUIT is posted each step of the loop leaves fewer windows to make, else
\* fewer BrowserWindows, else fewer controls, else fewer messages ahead, else fewer
\* WM_TIMER waiting.  Only a page
\* that has closed its window already and closes it again changes none of that: its
\* message comes behind the one that will end it (browser_window.cpp:945-948).
QuitRunsDown ==
  [][quit /\ phase = "loop" =>
       \/ phase' # "loop"
       \/ Unmade' \subseteq Unmade /\ Unmade' # Unmade
       \/ /\ Unmade' = Unmade
          /\ g_browserWindows' \subseteq g_browserWindows
          /\ \/ g_browserWindows' # g_browserWindows
             \/ webBrowser2' \subseteq webBrowser2 /\ webBrowser2' # webBrowser2
             \/ /\ webBrowser2' = webBrowser2
                /\ Ahead' \subseteq Ahead
                /\ \/ Ahead' # Ahead
                   \/ ticks' \subseteq ticks /\ ticks' # ticks
                   \/ \E w \in Windows : Closing(w) /\ ExternalCloseWindow(w)]_vars

(***************************************************************************)
(* What the repository says of the code and the code does not keep.        *)
(***************************************************************************)

\* main.cpp:176 asserts that KillTimer finds the timer in WM_DESTROY.
KillTimerAssertion == killTimerHeld

(***************************************************************************)
(* The life of the application as its user sees it.                        *)
(***************************************************************************)
AppStage ==
  CASE phase \in {"launch", "opened"} -> "starting"
    [] phase = "loop" -> "serving"
    [] phase = "ended" -> "stopped"
    [] phase = "exited" -> "failed"

AppClosed == {w \in Windows : object[w] = "deleted"}

App == INSTANCE AppLifecycle WITH
  stage <- AppStage, shown <- g_browserWindows, closed <- AppClosed,
  stopping <- quit

\* Window procedure, registry and quit flag together behave as AppLifecycle.
ImplementsApp == App!Spec

(***************************************************************************)
(* The inductive invariant of the proofs in BrowserWindows_proofs.         *)
(***************************************************************************)
ControlInv ==
  /\ webBrowser2 \subseteq g_browserWindows
  /\ advised \subseteq webBrowser2 \union unadviseFailed

WindowInv == \A w \in Windows : window[w] = "none" <=> object[w] = "none"

OpenedInv == phase = "opened" => g_browserWindows # {}

\* WM_DESTROY is posted only to the main window, the owner of the icon.
ExitOnlyMain ==
  /\ trayIcon \in {NoWindow, MainWindow}
  /\ \A i \in 1..Len(posted) :
        posted[i].msg = "WM_DESTROY" => posted[i].hwnd = MainWindow

\* A BrowserWindow has its window, and its close is posted if it is closing.
CloseInv ==
  /\ \A w \in Windows : object[w] = "live" => window[w] = "open"
  /\ CloseIsPosted

IInv ==
  /\ TypeOK
  /\ RegistrySound
  /\ CountBound
  /\ NoGhostApplication
  /\ TimersServed
  /\ TicksServed
  /\ ZombieIsMain
  /\ ControlInv
  /\ WindowInv
  /\ OpenedInv
  /\ ExitOnlyMain

=============================================================================
