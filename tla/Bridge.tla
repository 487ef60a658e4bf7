-------------------------------- MODULE Bridge --------------------------------
(***************************************************************************)
(* Where the two halves of HttpMsieBridge meet: the UI thread, which owns  *)
(* the registry of browser windows and announces each finished document to *)
(* the callback service, and the workers of the web server, which look     *)
(* windows up in that registry and call into their objects.                *)
(*                                                                         *)
(* Nothing is locked.  A change of g_browserWindows is a step that begins  *)
(* and a step that ends, and a lookup in between may find anything; a      *)
(* worker keeps the pointer it found while the UI thread goes on.  The     *)
(* announcement is a POST that blocks the UI thread; before it answers,    *)
(* the service may call the API itself, for the window it was told of.     *)
(* A call into a control runs on the worker, or waits for the UI thread; a *)
(* script it runs on the worker may close windows while the UI thread is   *)
(* at something else.  A window that such a script opens is left out: its  *)
(* thread has entered no apartment, and creates no control.                *)
(* What a window is, and when the loop ends, is in BrowserWindows; the     *)
(* connections and the pool that the calls run on are in WebServer.        *)
(***************************************************************************)
EXTENDS Naturals

CONSTANTS
  Hwnds,        \* window handles; the system may use one again
  Objects,      \* BrowserWindow objects, each made once
  NoObject,     \* the null pointer
  Workers,      \* the threads of the pool
  MaxNotices    \* bound of the model on the documents announced

ASSUME BridgeAssumption ==
  Hwnds # {} /\ NoObject \notin Objects /\ MaxNotices \in Nat

VARIABLES
  process,           \* "up", "ended" or "crashed"
  ui,                \* what the UI thread is at
  target,            \* the window whose entry or object it is changing
  arrived,           \* whether a byte of the answer waits to be read
  severed,           \* whether a script on a worker has closed the control of
                     \* the window whose notice is posted or waited for
  g_browserWindows,  \* the registry, NoObject where there is no entry
  made,              \* the objects constructed so far
  deleted,           \* those whose destructor has begun
  closed,            \* those whose webBrowser2_ has been released
  announced,         \* the windows announced so far, by number of the notice
  notice,            \* the number of the last notice
  held,              \* the notices the service has and has not answered
  calls              \* what each worker is at

registry == <<g_browserWindows, made, deleted>>
post == <<arrived, severed>>
notices == <<announced, notice, held>>
vars == <<process, ui, target, post, registry, closed, notices, calls>>

Notices == 1..MaxNotices
Nobody == 0  \* the cause of a call that no notice made a client send

Call == [stage : {"idle", "found", "running", "queued", "gone"},
         object : Objects \union {NoObject},
         cause : Notices \union {Nobody}]
NoTarget == [hwnd |-> CHOOSE h \in Hwnds : TRUE, object |-> NoObject]
NoCall == [stage |-> "idle", object |-> NoObject, cause |-> Nobody]

TypeOK ==
  /\ process \in {"up", "ended", "crashed"}
  /\ ui \in {"loop", "storing", "erasing", "posting", "waiting"}
  /\ target \in [hwnd : Hwnds, object : Objects \union {NoObject}]
  /\ g_browserWindows \in [Hwnds -> Objects \union {NoObject}]
  /\ made \subseteq Objects
  /\ deleted \subseteq made
  /\ closed \subseteq made
  /\ arrived \in BOOLEAN
  /\ severed \in BOOLEAN
  /\ announced \in [Notices -> Hwnds]
  /\ notice \in Notices \union {0}
  /\ held \subseteq Notices
  /\ calls \in [Workers -> Call]

\* Before it is announced, the window of a notice is any.
Init ==
  /\ process = "up"
  /\ ui = "loop"
  /\ target = NoTarget
  /\ g_browserWindows = [h \in Hwnds |-> NoObject]
  /\ made = {}
  /\ deleted = {}
  /\ closed = {}
  /\ severed = FALSE
  /\ arrived = FALSE
  /\ calls = [w \in Workers |-> NoCall]
  /\ announced = [n \in Notices |-> CHOOSE h \in Hwnds : TRUE]
  /\ notice = 0
  /\ held = {}

-----------------------------------------------------------------------------
(***************************************************************************)
(* The UI thread and the registry.                                         *)
(***************************************************************************)
\* Mutant: messages are dispatched while the answer is awaited.
AtLoopOrWaiting == process = "up" /\ ui \in {"loop", "waiting"}

AtLoop == process = "up" /\ ui = "loop"

\* The threads, their calls and the memory end with the process.
End(how) ==
  /\ process' = how
  /\ ui' = "loop"
  /\ target' = NoTarget
  /\ g_browserWindows' = [h \in Hwnds |-> NoObject]
  /\ made' = {}
  /\ deleted' = {}
  /\ closed' = {}
  /\ arrived' = FALSE
  /\ severed' = FALSE
  /\ calls' = [w \in Workers |-> NoCall]
  /\ UNCHANGED notices

Crash == End("crashed")

\* WM_CREATE constructs the object and begins to store it.
StoreBrowserWindow(h, o) ==
  /\ AtLoop
  /\ g_browserWindows[h] = NoObject
  /\ o \in Objects \ made
  /\ made' = made \union {o}
  /\ target' = [hwnd |-> h, object |-> o]
  /\ ui' = "storing"
  /\ UNCHANGED <<process, post, g_browserWindows, deleted, closed, notices, calls>>

Stored ==
  /\ process = "up" /\ ui = "storing"
  /\ g_browserWindows' = [g_browserWindows EXCEPT ![target.hwnd] = target.object]
  /\ target' = NoTarget
  /\ ui' = "loop"
  /\ UNCHANGED <<process, post, made, deleted, closed, notices, calls>>

\* WM_DESTROY: the entry is erased, and then the object deleted, whose
\* destructor releases the control.
RemoveBrowserWindow(h) ==
  /\ AtLoop
  /\ g_browserWindows[h] # NoObject
  /\ target' = [hwnd |-> h, object |-> g_browserWindows[h]]
  /\ ui' = "erasing"
  /\ UNCHANGED <<process, post, registry, closed, notices, calls>>

\* What a call meets in an object that is being deleted is undefined as well.
Erased ==
  /\ process = "up" /\ ui = "erasing"
  /\ g_browserWindows' = [g_browserWindows EXCEPT ![target.hwnd] = NoObject]
  /\ deleted' = deleted \union {target.object}
  /\ closed' = closed \union {target.object}
  /\ target' = NoTarget
  /\ ui' = "loop"
  /\ UNCHANGED <<process, post, made, notices, calls>>

\* window.external.CloseWindow, by a script of the UI thread: the object
\* outlives its control.
ExternalCloseWindow(h) ==
  /\ AtLoop
  /\ g_browserWindows[h] # NoObject
  /\ closed' = closed \union {g_browserWindows[h]}
  /\ UNCHANGED <<process, ui, target, post, registry, notices, calls>>

LeaveMessageLoop == AtLoop /\ End("ended")

-----------------------------------------------------------------------------
(***************************************************************************)
(* The callback.                                                           *)
(***************************************************************************)
\* Documents that are not announced (no callback is configured, the url is not
\* http or is under the homepage, the control does not tell its url) change
\* nothing; a page whose document is lost before GetHtml makes a string of
\* `false', and an event that comes although the control has been released
\* (UnadviseEvent may fail) finds a null pointer.
DocumentComplete(h) ==
  /\ AtLoop
  /\ g_browserWindows[h] # NoObject
  /\ notice < MaxNotices
  /\ \/ /\ g_browserWindows[h] \notin closed
        /\ notice' = notice + 1
        /\ announced' = [announced EXCEPT ![notice + 1] = h]
        /\ ui' = "posting"
        /\ UNCHANGED <<process, target, post, registry, closed, held, calls>>
     \/ Crash

\* The handler of the event goes back to the loop.
Back == ui' = "loop" /\ arrived' = FALSE /\ severed' = FALSE

\* Client::Post connects and writes the request, or gives up.  Writing has no
\* time-out: a long document waits for a service that reads.
Posted ==
  /\ process = "up" /\ ui = "posting"
  /\ \/ ui' = "waiting" /\ held' = held \union {notice} /\ UNCHANGED post
     \/ Back /\ UNCHANGED held
  /\ UNCHANGED <<process, target, registry, closed, announced, notice, calls>>

\* Mutant: the client waits until it is answered or hung up on.
WaitForAnswer ==
  /\ process = "up" /\ ui = "waiting"
  /\ notice \notin held
  /\ Back
  /\ UNCHANGED <<process, target, registry, closed, notices, calls>>

\* No byte came for CPPHTTPLIB_READ_TIMEOUT_SECOND, or the service hung up.
ReadTimeout ==
  /\ process = "up" /\ ui = "waiting"
  /\ ~arrived
  /\ Back
  /\ UNCHANGED <<process, target, registry, closed, notices, calls>>

\* A byte of the answer, which is not yet whole.
ServiceTrickles ==
  /\ process = "up" /\ ui = "waiting"
  /\ notice \in held
  /\ ~arrived
  /\ arrived' = TRUE
  /\ UNCHANGED <<process, ui, target, severed, registry, closed, notices, calls>>

\* The byte is read, and the time-out begins anew.
ReadByte ==
  /\ process = "up" /\ ui = "waiting"
  /\ arrived
  /\ arrived' = FALSE
  /\ UNCHANGED <<process, ui, target, severed, registry, closed, notices, calls>>

\* Mutant: the client keeps its connection, and takes a late answer for the one
\* that it waits for.
AnyAnswerReturns(n) ==
  /\ process = "up"
  /\ n \in held
  /\ held' = held \ {n}
  /\ IF ui = "waiting" THEN Back ELSE UNCHANGED <<ui, post>>
  /\ UNCHANGED <<process, target, registry, closed, announced, notice, calls>>

\* The answer to an earlier notice finds its socket closed.
ServiceAnswers(n) ==
  /\ process = "up"
  /\ n \in held
  /\ held' = held \ {n}
  /\ IF ui = "waiting" /\ n = notice THEN Back ELSE UNCHANGED <<ui, post>>
  /\ UNCHANGED <<process, target, registry, closed, announced, notice, calls>>

-----------------------------------------------------------------------------
(***************************************************************************)
(* The API: the routes below /api/v1 that take a pid.                      *)
(***************************************************************************)
\* What find may return, while an insert or an erase is under way anything.
GetBrowserWindow(h) ==
  IF ui \in {"storing", "erasing"} THEN made \union {NoObject}
  ELSE {g_browserWindows[h]}

\* A client asks for the window of a notice it is at work on, or for any.
GetBrowse(w, h, c) ==
  /\ process = "up"
  /\ calls[w].stage = "idle"
  /\ c = Nobody \/ (c \in held /\ h = announced[c])
  /\ \E o \in GetBrowserWindow(h) :
       calls' = [calls EXCEPT ![w] =
                   [stage |-> IF o = NoObject THEN "gone" ELSE "found",
                    object |-> o, cause |-> c]]
  /\ UNCHANGED <<process, ui, target, post, registry, closed, notices>>

\* A lookup, or the walk of GetBrowserList, that meets a change under way.
LookupRaced ==
  /\ process = "up"
  /\ ui \in {"storing", "erasing"}
  /\ \E w \in Workers : calls[w].stage = "idle"
  /\ Crash

Answer(w) ==
  /\ calls' = [calls EXCEPT ![w] = NoCall]
  /\ UNCHANGED <<process, ui, target, post, registry, closed, notices>>

\* "could not fetch BrowserWindow"
CouldNotFetch(w) ==
  /\ process = "up"
  /\ calls[w].stage = "gone"
  /\ Answer(w)

\* A released control makes the smart pointer throw, which is answered with
\* 500, unless the handler has asked for it.
ControlClosed(w) ==
  /\ calls[w].object \in closed \ deleted
  /\ Answer(w)

\* The call into the control runs here, where it may run a script of the page
\* (exec, trigger), or waits for the UI thread.
ControlCalled(w) ==
  /\ calls[w].object \notin closed \union deleted
  /\ \/ Answer(w)
     \/ /\ \E place \in {"running", "queued"} :
             calls' = [calls EXCEPT ![w].stage = place]
        /\ UNCHANGED <<process, ui, target, post, registry, closed, notices>>

\* window.external.CloseWindow, by a script on a worker, for its window or one
\* that it knows (window.opener): the control goes, whatever the UI thread is at,
\* and the entry stays, for WM_CLOSE is only posted.  A control that another
\* thread is using meanwhile is undefined, up to the end.
ScriptCloses(w, h) ==
  /\ process = "up"
  /\ calls[w].stage = "running"
  /\ calls[w].object \in made \ deleted
  /\ g_browserWindows[h] \notin closed \union {NoObject}
  /\ \/ /\ closed' = closed \union {g_browserWindows[h]}
        /\ severed' = (severed \/ (ui \in {"posting", "waiting"} /\ h = announced[notice]))
        /\ UNCHANGED <<process, ui, target, arrived, registry, notices, calls>>
     \/ Crash

\* The script returns, if it does; its object may be gone by then.
ScriptReturns(w) ==
  /\ process = "up"
  /\ calls[w].stage = "running"
  /\ Answer(w) \/ (calls[w].object \in deleted /\ Crash)

\* The url, title or html of a page that does not tell it is a null string.
NullString(w) ==
  /\ calls[w].object \notin closed \union deleted
  /\ Crash

\* The object is gone: undefined, from a regular answer to the end.
ObjectGone(w) ==
  /\ calls[w].object \in deleted
  /\ Answer(w) \/ Crash

UseBrowser(w) ==
  /\ process = "up"
  /\ calls[w].stage = "found"
  /\ ControlClosed(w) \/ ControlCalled(w) \/ NullString(w) \/ ObjectGone(w)

\* The message loop runs what waits for it.  What a script closes there is
\* ExternalCloseWindow.
Dispatch(w) ==
  /\ AtLoop
  /\ calls[w].stage = "queued"
  /\ Answer(w) \/ (calls[w].object \in deleted /\ Crash)

-----------------------------------------------------------------------------
UIStep ==
  \/ \E h \in Hwnds : \/ \E o \in Objects : StoreBrowserWindow(h, o)
                      \/ RemoveBrowserWindow(h)
                      \/ ExternalCloseWindow(h)
                      \/ DocumentComplete(h)
  \/ Stored \/ Erased \/ LeaveMessageLoop
  \/ Posted \/ ReadTimeout \/ ReadByte

WorkerStep ==
  \E w \in Workers :
    \/ \E h \in Hwnds, c \in Notices \union {Nobody} : GetBrowse(w, h, c)
    \/ CouldNotFetch(w) \/ UseBrowser(w) \/ Dispatch(w)
    \/ \E h \in Hwnds : ScriptCloses(w, h)
    \/ ScriptReturns(w)

ServiceStep == ServiceTrickles \/ \E n \in Notices : ServiceAnswers(n)

Next == UIStep \/ WorkerStep \/ LookupRaced \/ ServiceStep

Spec == Init /\ [][Next]_vars

\* The UI thread and the workers are scheduled; a read that nothing comes for
\* times out.  A loop that keeps returning runs the calls of other threads
\* before its messages.  Nothing is assumed of the service, which may neither
\* read nor stop sending, of the scripts, which may never return, nor that
\* anything happens in the browser.
FairSpec ==
  /\ Spec
  /\ WF_vars(Stored \/ Erased \/ ReadTimeout \/ ReadByte)
  /\ \A w \in Workers : WF_vars(CouldNotFetch(w)) /\ WF_vars(UseBrowser(w))
  /\ \A w \in Workers : SF_vars(Dispatch(w))

-----------------------------------------------------------------------------
(***************************************************************************)
(* Properties.                                                             *)
(***************************************************************************)
\* As long as the UI thread waits for the service, the window of the notice
\* is there, its control too unless a script closed it on a worker, and every
\* call the service makes for it has found its object
\* (browser_events2.cpp:325, web_server.cpp:93-101, browser_window.cpp:944-951).
CallbackFindsItsWindow ==
  process = "up" /\ ui = "waiting" =>
    LET o == g_browserWindows[announced[notice]]
    IN /\ o \in made \ deleted
       /\ o \in closed => severed
       /\ \A w \in Workers :
            calls[w].cause = notice =>
              calls[w].stage \in {"found", "running", "queued"} /\ calls[w].object = o

\* What a service can do to keep the UI thread: send a byte now and then and
\* never end its answer, or not read the notice.
ServiceKeepsUI == []<><<ServiceTrickles>>_vars \/ <>[](ui = "posting")

\* The message loop gets its thread back from a service that is silent, late,
\* or itself waits for a call that waits for the UI thread; only one that never
\* ends its answer or never reads keeps it (httplib.h:2985-2997, 3009).
UIReturns == ServiceKeepsUI \/ (ui # "loop" ~> ui = "loop" \/ process # "up")

\* Every call into the API is answered, the ones included that a service
\* makes before its answer and that need the thread which waits for it, unless
\* it runs a script that never returns.
CallsAnswered ==
  \A w \in Workers :
    \/ ServiceKeepsUI
    \/ <>[](calls[w].stage = "running")
    \/ calls[w].stage # "idle" ~> calls[w].stage = "idle" \/ process # "up"

(***************************************************************************)
(* Why UIReturns and CallsAnswered hold: what the UI thread has left of    *)
(* the message it handles, and a worker of its call.                       *)
(***************************************************************************)
UILeft(place) ==
  CASE place = "loop" -> 0
    [] place \in {"storing", "erasing", "waiting"} -> 1
    [] OTHER -> 2

CallLeft(stage) ==
  CASE stage = "idle" -> 0
    [] stage = "found" -> 2
    [] OTHER -> 1

\* Neither side makes work for the other while it is at its own: whatever the
\* service and the other workers do, the UI thread handles the message it is at
\* to the end and takes no other, and a call is looked up once and waits for the
\* UI thread once (browser_events2.cpp:321-327, web_server.cpp:93-107).
BridgeRunsDown ==
  [][process' = "up" =>
       /\ ui # "loop" => ui' = ui \/ UILeft(ui') < UILeft(ui)
       /\ \A w \in Workers :
            calls[w].stage # "idle" =>
              \/ calls'[w] = calls[w]
              \/ CallLeft(calls'[w].stage) < CallLeft(calls[w].stage)]_vars

\* The abstract view: objects are open until they are closed or deleted, and
\* the object of a notice is leased from its announcement to the answer.
Over == closed \union deleted
LeasedObject ==
  IF ui \in {"posting", "waiting"} THEN g_browserWindows[announced[notice]] ELSE NoObject
Pending ==
  [w \in Workers |-> [asked |-> calls[w].stage # "idle",
                     object |-> calls[w].object, cause |-> calls[w].cause]]

Lease == INSTANCE WindowLease WITH
  alive <- process = "up", open <- made \ Over, over <- Over, lease <- LeasedObject,
  told <- held, pending <- Pending

\* UI thread, registry, workers and service together behave as WindowLease.
ImplementsLease == Lease!Spec

(***************************************************************************)
(* The inductive invariant of the proofs in Bridge_proofs.                 *)
(***************************************************************************)
\* Each object is the entry of one window at most, and entries are live.
RegistrySound ==
  /\ \A h \in Hwnds : g_browserWindows[h] \in (made \ deleted) \union {NoObject}
  /\ \A h1, h2 \in Hwnds :
       h1 # h2 /\ g_browserWindows[h1] = g_browserWindows[h2] =>
         g_browserWindows[h1] = NoObject
  /\ ui = "storing" =>
       /\ target.object \in made \ deleted
       /\ \A h \in Hwnds : g_browserWindows[h] # target.object
  /\ ui = "erasing" => target.object \in made /\ g_browserWindows[target.hwnd] = target.object

\* Nobody acts on a notice before it is posted.
NoticesSound ==
  /\ \A n \in held : n <= notice
  /\ \A w \in Workers : calls[w].cause <= notice
  /\ ui \in {"posting", "waiting"} =>
       /\ notice > 0
       /\ g_browserWindows[announced[notice]] \in made \ deleted
       /\ g_browserWindows[announced[notice]] \in closed => severed
  /\ ui = "posting" =>
       notice \notin held /\ \A w \in Workers : calls[w].cause # notice

\* What the service may count on while it is waited for.
WaitSound ==
  ui = "waiting" =>
    \A w \in Workers :
      calls[w].cause = notice =>
        /\ calls[w].stage \in {"found", "running", "queued"}
        /\ calls[w].object = g_browserWindows[announced[notice]]

IInv == TypeOK /\ RegistrySound /\ NoticesSound /\ WaitSound

================================================================================
