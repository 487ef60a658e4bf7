---------------------------- MODULE Application ----------------------------
(***************************************************************************)
(* Processes of HttpMsieBridge on one desktop: wWinMain from the external  *)
(* program it starts and the check for another instance to the end of the  *)
(* message loop, with either engine.  With msie a process has here its main*)
(* window only; BrowserWindows has the popups.  With mb its window is the  *)
(* one CMiniblink object, whose callbacks run inside the engine.           *)
(*                                                                         *)
(* pc is the next thing wWinMain does.  A process may be killed anywhere;  *)
(* the system then closes its handles, but neither its icon nor the program*)
(* it has started goes with it.                                            *)
(***************************************************************************)
EXTENDS Integers, FiniteSets

CONSTANTS
  Processes,   \* processes the user may start
  NoProcess,
  MaxTries,    \* the second argument of exec(startup, 3, false)
  MaxBoxes,    \* bound of the model on message boxes open at once
  MaxPosted    \* bound of the model on WM_CLOSE messages outstanding

ASSUME ApplicationAssumption ==
  /\ IsFiniteSet(Processes)
  /\ NoProcess \notin Processes
  /\ MaxTries \in Nat \ {0}
  /\ MaxBoxes \in Nat
  /\ MaxPosted \in Nat

VARIABLES
  settings,    \* engine, window.instance, whether integration.startup is set
  pc,
  mutex,       \* processes with a handle of the named mutex
  first,       \* processes for which IsRunning() has answered false
  foreground,  \* the process whose window was last brought to the front
  tries,       \* failed calls of ShellExecuteEx
  program,     \* the external program each process has started
  window,      \* the main window of each process
  released,    \* m_released of each CMiniblink
  counter,     \* CMiniblink::counter of each process
  boxes,       \* message boxes of OnAlert and OnConfirm on the stack
  resumed,     \* processes in which a script goes on after its box
  asked,       \* history: processes whose page has asked for the end
  posted,      \* WM_CLOSE messages of the window not yet dispatched
  quit,        \* processes that have called PostQuitMessage
  server,      \* the detached thread of StartWebServer
  icon         \* processes with an icon in the notification area

scripts == <<boxes, resumed, asked>>
miniblink == <<released, counter, scripts>>
vars == <<settings, pc, mutex, first, foreground, tries, program, window,
          miniblink, posted, quit, server, icon>>

Over == {"ended", "failed", "killed"}

TypeOK ==
  /\ settings \in [engine : {"msie", "mb"}, instance : BOOLEAN, startup : BOOLEAN]
  /\ pc \in [Processes -> {"off", "startup", "instance", "find", "engine",
                           "fatal", "server", "tray", "loop"} \union Over]
  /\ mutex \subseteq Processes
  /\ first \subseteq Processes
  /\ foreground \in Processes \union {NoProcess}
  /\ tries \in [Processes -> 0..MaxTries]
  /\ program \in [Processes -> {"none", "running", "terminated"}]
  /\ window \in [Processes -> {"none", "open", "destroyed"}]
  /\ released \subseteq Processes
  /\ counter \in [Processes -> Int]
  /\ boxes \in [Processes -> 0..MaxBoxes]
  /\ resumed \subseteq Processes
  /\ asked \subseteq Processes
  /\ posted \in [Processes -> 0..MaxPosted]
  /\ quit \subseteq Processes
  /\ server \in [Processes -> {"none", "starting", "listening", "refused", "gone"}]
  /\ icon \subseteq Processes

Init ==
  /\ settings \in [engine : {"msie", "mb"}, instance : BOOLEAN, startup : BOOLEAN]
  /\ pc = [p \in Processes |-> "off"]
  /\ mutex = {}
  /\ first = {}
  /\ foreground = NoProcess
  /\ tries = [p \in Processes |-> 0]
  /\ program = [p \in Processes |-> "none"]
  /\ window = [p \in Processes |-> "none"]
  /\ released = {}
  /\ counter = [p \in Processes |-> 0]
  /\ boxes = [p \in Processes |-> 0]
  /\ resumed = {}
  /\ asked = {}
  /\ posted = [p \in Processes |-> 0]
  /\ quit = {}
  /\ server = [p \in Processes |-> "none"]
  /\ icon = {}

Alive(p) == pc[p] \notin Over \union {"off"}

GoTo(p, place) == pc' = [pc EXCEPT ![p] = place]

\* The process ends: the system closes its handles and its sockets.
EndProcess(p, how) ==
  /\ GoTo(p, how)
  /\ mutex' = mutex \ {p}
  /\ server' = [server EXCEPT ![p] = IF @ = "none" THEN @ ELSE "gone"]

-----------------------------------------------------------------------------
(***************************************************************************)
(* The start, in the order of wWinMain.                                    *)
(***************************************************************************)
Start(p) ==
  /\ pc[p] = "off"
  /\ GoTo(p, IF settings.startup THEN "startup" ELSE "instance")
  /\ UNCHANGED <<settings, mutex, first, foreground, tries, program, window,
                 miniblink, posted, quit, server, icon>>

\* exec tries again while ShellExecuteEx fails.  It returns a structure, whose
\* address is never null: wWinMain goes on when no try has succeeded.
Exec(p) ==
  /\ pc[p] = "startup"
  /\ \/ /\ program' = [program EXCEPT ![p] = "running"]
        /\ GoTo(p, "instance")
        /\ UNCHANGED tries
     \/ /\ tries' = [tries EXCEPT ![p] = @ + 1]
        /\ IF tries'[p] = MaxTries THEN GoTo(p, "instance") ELSE UNCHANGED pc
        /\ UNCHANGED program
  /\ UNCHANGED <<settings, mutex, first, foreground, window, miniblink,
                 posted, quit, server, icon>>

\* CreateMutex opens the mutex another process has made and says so.  When it
\* fails the process has no handle, but another error than ERROR_ALREADY_EXISTS:
\* it takes itself for the first all the same.
CreateMutex(p) ==
  \/ /\ first' = IF mutex = {} THEN first \union {p} ELSE first
     /\ mutex' = mutex \union {p}
  \/ /\ first' = first \union {p}
     /\ UNCHANGED mutex

\* Mutant: the check is made once the window stands.
CheckAfterWindow(p) ==
  /\ pc[p] = "instance"
  /\ CreateMutex(p)
  /\ GoTo(p, IF p \in first' THEN "engine" ELSE "find")
  /\ window' = [window EXCEPT ![p] = "open"]
  /\ UNCHANGED <<settings, foreground, tries, program, miniblink, posted, quit,
                 server, icon>>

\* checkInstanceOnce, up to IsRunning().
CheckInstance(p) ==
  /\ pc[p] = "instance"
  /\ \/ /\ settings.instance
        /\ CreateMutex(p)
        /\ GoTo(p, IF p \in first' THEN "engine" ELSE "find")
     \/ /\ ~settings.instance
        /\ GoTo(p, "engine")
        /\ UNCHANGED <<mutex, first>>
  /\ UNCHANGED <<settings, foreground, tries, program, window, miniblink,
                 posted, quit, server, icon>>

\* FindWindow(className, NULL): any top-level window of the class.
Found(q) == Alive(q) /\ window[q] = "open"

\* Mutant: the window of the other instance is waited for.
AwaitWindow(p) ==
  /\ pc[p] = "find"
  /\ \E q \in Processes : Found(q) /\ foreground' = q
  /\ GoTo(p, "engine")
  /\ UNCHANGED <<settings, mutex, first, tries, program, window, miniblink,
                 posted, quit, server, icon>>

\* The window of another instance is brought to the front, if there is one.
\* The process itself goes on in either case.
FindWindow(p) ==
  /\ pc[p] = "find"
  /\ \/ \E q \in Processes : Found(q) /\ foreground' = q
     \/ /\ \A q \in Processes : ~Found(q)
        /\ UNCHANGED foreground
  /\ GoTo(p, "engine")
  /\ UNCHANGED <<settings, mutex, first, tries, program, window, miniblink,
                 posted, quit, server, icon>>

\* Mutant: the constructor of CMiniblink counts twice.
CreateCountsTwice(p) ==
  /\ window' = [window EXCEPT ![p] = "open"]
  /\ counter' = [counter EXCEPT ![p] = IF settings.engine = "mb" THEN @ + 2 ELSE @]

CreateWindow(p) ==
  /\ window' = [window EXCEPT ![p] = "open"]
  /\ counter' = [counter EXCEPT ![p] = IF settings.engine = "mb" THEN @ + 1 ELSE @]

StartEngine(p) ==
  /\ pc[p] = "engine"
  /\ CreateWindow(p)
  /\ GoTo(p, "server")
  /\ UNCHANGED <<settings, mutex, first, foreground, tries, program, released,
                 scripts, posted, quit, server, icon>>

\* initMSIEEntry or initMBEntry fails and wWinMain returns; or the browser control
\* of the msie window fails, when the window stands, and FatalError shows a box.
EngineFails(p) ==
  /\ pc[p] = "engine"
  /\ \/ /\ EndProcess(p, "failed")
        /\ UNCHANGED <<window, counter>>
     \/ /\ settings.engine = "msie"
        /\ CreateWindow(p)
        /\ GoTo(p, "fatal")
        /\ UNCHANGED <<mutex, server>>
  /\ UNCHANGED <<settings, first, foreground, tries, program, released, scripts,
                 posted, quit, icon>>

\* The user closes the box of FatalError, which then calls exit.
FatalErrorExits(p) ==
  /\ pc[p] = "fatal"
  /\ EndProcess(p, "failed")
  /\ UNCHANGED <<settings, first, foreground, tries, program, window,
                 miniblink, posted, quit, icon>>

\* StartWebServer answers true at once; its thread binds the port later.
StartWebServer(p) ==
  /\ pc[p] = "server"
  /\ server' = [server EXCEPT ![p] = "starting"]
  /\ GoTo(p, "tray")
  /\ UNCHANGED <<settings, mutex, first, foreground, tries, program, window,
                 miniblink, posted, quit, icon>>

\* SO_REUSEADDR is set, so that a port another process listens on may be bound
\* as well as refused.
BindPort(p) ==
  /\ Alive(p) /\ server[p] = "starting"
  /\ server' \in {[server EXCEPT ![p] = "listening"], [server EXCEPT ![p] = "refused"]}
  /\ UNCHANGED <<settings, pc, mutex, first, foreground, tries, program,
                 window, miniblink, posted, quit, icon>>

EnterMessageLoop(p) ==
  /\ pc[p] = "tray"
  /\ icon' = icon \union {p}
  /\ GoTo(p, "loop")
  /\ UNCHANGED <<settings, mutex, first, foreground, tries, program, window,
                 miniblink, posted, quit, server>>

-----------------------------------------------------------------------------
(***************************************************************************)
(* The window goes.                                                        *)
(***************************************************************************)
\* Mutant: the count has to fall below zero.
QuitBelowZero(p) ==
  /\ counter' = [counter EXCEPT ![p] = @ - 1]
  /\ released' = released \union {p}
  /\ quit' = IF counter'[p] < 0 THEN quit \union {p} ELSE quit

\* ~CMiniblink, which MBWindowDestroy calls unless it has run before.
DestroyMiniblink(p) ==
  /\ counter' = [counter EXCEPT ![p] = @ - 1]
  /\ released' = released \union {p}
  /\ quit' = IF counter'[p] <= 0 THEN quit \union {p} ELSE quit

\* WM_DESTROY of the last msie window.  shellInfo is the address of a temporary
\* of wWinMain (main.cpp:374) whose place other temporaries may have taken:
\* closeProcess finds the handle of its own program or none.
LastWindowGone(p) ==
  /\ server' = [server EXCEPT ![p] = IF @ = "listening" THEN "gone" ELSE @]
  /\ program' \in {program, [program EXCEPT ![p] = IF @ = "running" THEN "terminated" ELSE @]}
  /\ icon' = icon \ {p}
  /\ quit' = quit \union {p}

DestroyWindow(p) ==
  /\ window' = [window EXCEPT ![p] = "destroyed"]
  /\ posted' = [posted EXCEPT ![p] = 0]
  /\ \/ /\ settings.engine = "msie"
        /\ LastWindowGone(p)
        /\ UNCHANGED <<released, counter>>
     \/ /\ settings.engine = "mb"
        /\ p \notin released
        /\ DestroyMiniblink(p)
        /\ UNCHANGED <<server, program, icon>>
  /\ UNCHANGED <<settings, pc, mutex, first, foreground, tries, scripts>>

\* The thread takes messages, in the main loop or in that of a box.
Dispatches(p) == pc[p] = "loop" /\ p \notin resumed

\* A message box disables the window that owns it.
CloseButton(p) ==
  /\ Dispatches(p) /\ p \notin quit
  /\ window[p] = "open" /\ boxes[p] = 0
  /\ DestroyWindow(p)

\* A page's script runs: called from the loop by a view that stands, or going on
\* behind a box it had opened, whether or not the view still stands.
ScriptRuns(p) == pc[p] = "loop" /\ (window[p] = "open" \/ p \in resumed)

\* eMsg("close") of a page, or window.external.CloseWindow() with msie.  onMsg
\* does not ask m_released: once ~CMiniblink has set m_wkeWebView to NULL it has
\* no window to post to, and the message closes nothing.
PageCloses(p) ==
  /\ ScriptRuns(p)
  /\ asked' = asked \union {p}
  /\ \/ /\ window[p] = "open"
        /\ posted[p] < MaxPosted
        /\ posted' = [posted EXCEPT ![p] = @ + 1]
     \/ /\ window[p] = "destroyed"
        /\ UNCHANGED posted
  /\ UNCHANGED <<settings, pc, mutex, first, foreground, tries, program, window,
                 released, counter, boxes, resumed, quit, server, icon>>

\* The main loop dispatches WM_CLOSE, and so does the loop of a message box.
DispatchClose(p) ==
  /\ Dispatches(p) /\ window[p] = "open"
  /\ posted[p] > 0
  /\ DestroyWindow(p)

(***************************************************************************)
(* Callbacks of the mb engine.  A message box runs a message loop inside   *)
(* the callback, in which the window may be destroyed; the script that     *)
(* opened the box goes on when it returns.                                 *)
(***************************************************************************)
\* Mutant: the guard tests the object and not m_released.
GuardTestsObject(p) == settings.engine = "mb"

CallbackGuard(p) == settings.engine = "mb" /\ p \notin released

\* MBAlert or MBConfirm; for a released view they return at once.
OpenBox(p) ==
  /\ ScriptRuns(p)
  /\ CallbackGuard(p)
  /\ boxes[p] < MaxBoxes
  /\ boxes' = [boxes EXCEPT ![p] = @ + 1]
  /\ resumed' = resumed \ {p}
  /\ UNCHANGED <<settings, pc, mutex, first, foreground, tries, program, window,
                 released, counter, asked, posted, quit, server, icon>>

\* The user answers, or WM_QUIT ends the box's loop and is posted again.
CloseBox(p) ==
  /\ Dispatches(p) /\ boxes[p] > 0
  /\ boxes' = [boxes EXCEPT ![p] = @ - 1]
  /\ resumed' = resumed \union {p}
  /\ UNCHANGED <<settings, pc, mutex, first, foreground, tries, program, window,
                 released, counter, asked, posted, quit, server, icon>>

\* The script that went on ends, and with it the callback's caller.
ScriptReturns(p) ==
  /\ pc[p] = "loop" /\ p \in resumed
  /\ resumed' = resumed \ {p}
  /\ UNCHANGED <<settings, pc, mutex, first, foreground, tries, program, window,
                 released, counter, boxes, asked, posted, quit, server, icon>>

-----------------------------------------------------------------------------
\* GetMessage returns 0 and wWinMain returns.
LeaveMessageLoop(p) ==
  /\ Dispatches(p)
  /\ p \in quit /\ boxes[p] = 0 /\ posted[p] = 0
  /\ EndProcess(p, "ended")
  /\ UNCHANGED <<settings, first, foreground, tries, program, window,
                 miniblink, posted, quit, icon>>

Kill(p) ==
  /\ Alive(p)
  /\ EndProcess(p, "killed")
  /\ UNCHANGED <<settings, first, foreground, tries, program, window,
                 miniblink, posted, quit, icon>>

Next ==
  \E p \in Processes :
    \/ Start(p) \/ Exec(p) \/ CheckInstance(p) \/ FindWindow(p)
    \/ StartEngine(p) \/ EngineFails(p) \/ FatalErrorExits(p)
    \/ StartWebServer(p) \/ BindPort(p) \/ EnterMessageLoop(p)
    \/ CloseButton(p) \/ PageCloses(p) \/ DispatchClose(p)
    \/ OpenBox(p) \/ CloseBox(p) \/ ScriptReturns(p)
    \/ LeaveMessageLoop(p)
    \/ Kill(p)

\* The main thread of a process runs, and dispatches what has been posted.  No
\* user has to close a box, that of FatalError included, but WM_QUIT closes those
\* of the message loop.  A script that goes on ends unless it opens another box.
Runs(p) ==
  \/ Exec(p) \/ CheckInstance(p) \/ FindWindow(p)
  \/ StartEngine(p) \/ EngineFails(p) \/ StartWebServer(p)
  \/ EnterMessageLoop(p)
  \/ DispatchClose(p)
  \/ p \in quit /\ CloseBox(p)
  \/ ScriptReturns(p)
  \/ LeaveMessageLoop(p)

Spec == Init /\ [][Next]_vars

FairSpec == Spec /\ \A p \in Processes : WF_vars(Runs(p))

-----------------------------------------------------------------------------
(***************************************************************************)
(* Properties.                                                             *)
(***************************************************************************)

\* Of the living processes that hold a handle of the mutex at most one takes
\* itself for the first: g_Instance keeps the handle as long as the process lives
\* (instance.h:15), however starts, ends and kills are interleaved.  Of those
\* whose CreateMutex has failed nothing is said: each takes itself for the first.
FirstIsUnique ==
  \A p, q \in first \intersect mutex : Alive(p) /\ Alive(q) => p = q

\* A later instance brings the window of another process to the front, never
\* its own, and of one that lives (main.cpp:280).
RaisesAnother ==
  [][\A p \in Processes :
       (pc[p] = "find" /\ foreground' # foreground) /\ pc'[p] # "find"
         => foreground' # p /\ window[foreground'] = "open" /\ Alive(foreground')]_vars

\* A process whose window is gone has been told to quit, with either engine
\* (main.cpp:196, CMiniblink.cpp:61).
NoGhostProcess ==
  \A p \in Processes : pc[p] = "loop" /\ window[p] = "destroyed" => p \in quit

\* A process that has left its message loop normally leaves no icon behind with
\* the msie engine.  With mb it does: WindowProc never runs.
MsieLeavesNoIcon ==
  settings.engine = "msie" => \A p \in icon : pc[p] # "ended"

\* No page asks in vain for the end of its window: WM_CLOSE is on its way to a
\* window that stands, or the process has been told to quit, as it must have been
\* when a script that outlives the view asks the NULL one (CMiniblink.cpp:823).
CloseIsNotLost ==
  \A p \in asked :
    Alive(p) => p \in quit \/ (window[p] = "open" /\ posted[p] > 0)

\* Once told to quit a process ends, whatever boxes are open, whatever
\* closeProcess found in the stale shellInfo, and though no user does anything: a
\* script behind a box cannot hold it up with another box, for MBAlert finds
\* m_released set (CMiniblink.cpp:879).
QuitEndsProcess ==
  \A p \in Processes : p \in quit ~> pc[p] \in Over

\* A process that has been started enters its message loop, ends, or shows its
\* user the box of FatalError: no other instance and no program that cannot be
\* started holds it up.
StartCompletes ==
  \A p \in Processes : Alive(p) ~> pc[p] \in Over \union {"loop", "fatal"}

(***************************************************************************)
(* Why StartCompletes and QuitEndsProcess hold: what a process has left to *)
(* do.                                                                     *)
(***************************************************************************)
StepsLeft(place) ==
  CASE place = "off" -> 8
    [] place = "startup" -> 7
    [] place = "instance" -> 6
    [] place = "find" -> 5
    [] place = "engine" -> 4
    [] place = "server" -> 3
    [] place = "tray" -> 2
    [] place \in {"loop", "fatal"} -> 1
    [] OTHER -> 0

StartLeft(p) == StepsLeft(pc[p]) + (MaxTries - tries[p])

\* wWinMain never turns back: whoever else starts, quits or is killed, a step of
\* a process brings it nearer to its end or leaves it where it is.  Once told to
\* quit it is in its message loop, from which nothing takes the WM_QUIT: no new
\* box is opened and no WM_CLOSE comes to be dispatched first, so that only the
\* boxes that are open, and the scripts behind them, lie before its end
\* (main.cpp:350-391, CMiniblink.cpp:61, 879).
ProcessRunsDown ==
  [][\A p \in Processes :
       /\ \/ StartLeft(p)' < StartLeft(p)
          \/ pc'[p] = pc[p] /\ tries'[p] = tries[p]
       /\ p \in quit /\ Alive(p) =>
            /\ pc[p] = "loop" /\ posted'[p] = 0
            /\ p \in quit' /\ boxes'[p] <= boxes[p]]_vars

(***************************************************************************)
(* Each process, with either engine, is an application in the sense of     *)
(* AppLifecycle.                                                           *)
(***************************************************************************)
AppStage(p) ==
  CASE pc[p] = "loop" -> "serving"
    [] pc[p] = "ended" -> "stopped"
    [] pc[p] \in {"failed", "killed"} -> "failed"
    [] OTHER -> "starting"

WindowIf(p, s) == IF window[p] = s THEN {p} ELSE {}

App(p) == INSTANCE AppLifecycle WITH
  Windows <- Processes, stage <- AppStage(p), shown <- WindowIf(p, "open"),
  closed <- WindowIf(p, "destroyed"), stopping <- p \in quit

\* A process opens its window, serves, and stops when it was asked to.
EachImplementsApp ==
  /\ \A p \in Processes : App(p)!Init
  /\ [][\A p \in Processes : [App(p)!Next]_(App(p)!vars)]_vars

(***************************************************************************)
(* The inductive invariant of the proofs in Application_proofs.            *)
(***************************************************************************)
\* A process that got the mutex is past the check, and lives.
MutexInv ==
  /\ \A p \in mutex : Alive(p)
  /\ \A p \in first \union mutex : pc[p] \notin {"off", "startup", "instance"}

\* A window stands from StartEngine on, and pages run in the message loop.
StageInv ==
  \A p \in Processes :
    /\ pc[p] \in {"off", "startup", "instance", "find", "engine"} => window[p] = "none"
    /\ pc[p] \in {"fatal", "server", "tray"} => window[p] = "open"
    /\ pc[p] = "loop" => window[p] # "none"
    /\ p \in asked => pc[p] \in Over \union {"loop"}
    /\ pc[p] \in {"off", "startup"} => tries[p] < MaxTries

\* CMiniblink counts its window, and has released the view of one that is gone.
CounterInv ==
  \A p \in Processes :
    /\ p \in released <=> settings.engine = "mb" /\ window[p] = "destroyed"
    /\ counter[p] = IF settings.engine = "mb" /\ window[p] = "open" THEN 1 ELSE 0

\* Who has been told to quit has no window and, with msie, no icon.
QuitInv ==
  \A p \in quit :
    window[p] = "destroyed" /\ (settings.engine = "msie" => p \notin icon)

\* The messages of a window go with it.
PostedInv == \A p \in Processes : posted[p] > 0 => window[p] = "open"

IInv ==
  /\ TypeOK
  /\ FirstIsUnique
  /\ MutexInv
  /\ StageInv
  /\ CounterInv
  /\ QuitInv
  /\ PostedInv
  /\ NoGhostProcess
  /\ MsieLeavesNoIcon
  /\ CloseIsNotLost

=============================================================================
