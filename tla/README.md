# HttpMsieBridge in TLA+

HttpMsieBridge is a Windows desktop program that shows a web application in an
embedded browser (Internet Explorer's WebBrowser control, or Miniblink) and lets
other programs drive it through a small HTTP server. This directory models its
control flow in TLA+, checks the models with TLC and proves the central
invariants with TLAPS.

## The system

| Component | State | Operations | Talks to |
|---|---|---|---|
| Window procedure, message loop, registry (`main.cpp`, `msie/msie.cpp`, `msie/browser_window.cpp`) | `g_windowCount`, `g_browserWindows`, `g_hwnd`, each object's `webBrowser2_`, OLE object and event cookie, the 50 ms timer, the tray icon, the posted messages of the thread | `WindowProc` (WM_CREATE, WM_DESTROY, WM_SYSCOMMAND, WM_TRAY_MESSAGE), `CreatePopupWindow`, `StoreBrowserWindow`, `RemoveBrowserWindow`, the message loop of `wWinMain` | pages (events, `window.external`), the user, the web server |
| Click events (`browser_window.cpp`, `click_events.cpp`) | `clickEventsAttached_`, `documentUniqueID_`, the document's `onclick` | `OnTimer`, `TryAttachClickEvents`, `DetachClickEvents`, `ClickEvents::Invoke` | the document of the page |
| Embedded web server (`web_server.cpp`, `3rd/httplib.h`) | `is_running_`, `svr_sock_`, the pool's jobs and threads; per connection the keep-alive count and the request being read | `StartWebServer`, `listen`, `stop`, `/stop`, `StopWebServer`; `process_socket`, `process_request`, `read_content`, `write_response` | HTTP clients, the UI thread |
| HTTP API and callback (`web_server.cpp`, `browser_events2.cpp`) | pointers into the registry held by worker threads, the pending callback | `/api/v1/*`, DocumentComplete's synchronous POST | registry, callback service |
| File updater (`misc/file-updater.cc`) | application directory, new files, saved originals | constructor, `update`, `revert`, destructor | file system |
| Start-up (`main.cpp`, `misc/instance.h`, `misc/file_utils.cpp`) | instance mutex, `shellInfo` | `checkInstanceOnce`, `exec`, `closeProcess` | other processes of the program, the external program |
| Miniblink engine (`mb/`) | window, view, `m_released` and the counter of `CMiniblink`, message boxes on its stack | `MessageHandler`, callbacks of the view, script calls, simulated input | `main.cpp`, `wke.dll` |
| JSON text (`3rd/json.hpp` as used by `browser_events2.cpp`, `web_server.cpp`, `settings.cpp`) | `string_buffer` and the counters beside it, the parser's stack, the pointers into the tree | `dump`, `parse` | bytes of pages, settings file, callback service |
| Geometry, settings, proxy flags, URL rules, strings | none | pure functions | all of the above |
| COM plumbing, logging, version, the rest of the vendored code | - | - | not modelled, see below |

## What is hard here

- **One UI thread, several sources of messages.** Close buttons, page scripts,
  the tray menu, posted messages and the timer meet in `WindowProc`. Exit in the
  tray menu *posts* `WM_DESTROY` (`main.cpp:169`), so that the handler can run
  for a window that still stands, and again when it is really destroyed.
- **State split between count, registry, object and control.** `g_windowCount`,
  `g_browserWindows`, `webBrowser2_`, the event cookie and the timer change at
  different moments of a close, `window.external.CloseWindow` earlier than
  `WM_CLOSE`.
- **No lock between the web server and the UI thread.** A worker walks or
  searches the registry while the UI thread changes it, and keeps the pointer it
  found.
- **A UI thread that waits.** `DocumentComplete` posts the document to the
  callback service and blocks until it answers or the read times out; the
  service may call the API back first, and what it calls may run a script that
  closes windows while the UI thread waits.
- **Time-outs that begin anew.** Every byte read restarts the time-out of a read and
  nothing limits a request or a response as a whole: a peer that trickles keeps a
  worker, or the UI thread, as long as it likes.
- **A pool that must stop.** `stop()` may be called from a worker (`/stop`), from
  the UI thread, or from both; the pool drains while `is_running_` still holds.
- **File system calls that fail one by one**, with retries on top, and a revert
  that moves away the tree it is walking.
- **Several processes and one mutex.** The check for another instance, the search
  for its window and the end of either process interleave; a process can be
  killed anywhere, and `exec` retries in between.
- **Callbacks with loops inside.** Under Miniblink an alert runs a message loop in
  the middle of a callback of the view; the window can be closed, and the object
  released, before the box returns.
- **A protocol on a stream.** Requests come one behind the other, chunked, cut in
  the middle of a line or not at all; a line too much or too little makes content
  into a request, and a line the client cut by hanging up is taken for a whole one.
  The keep-alive count must be announced in time.
- **Text from anywhere.** The HTML of a page, of any bytes, is written as JSON
  through a fixed buffer, and a byte that breaks a sequence is read twice.
- **A retry driven by a timer** against a control that navigates by itself
  (click events).

## Modules

| Module | What it is | Checked by | Proved in |
|---|---|---|---|
| `BrowserWindows` | the UI thread: window procedure, message loop, registry, controls | `MCBrowserWindows` | `BrowserWindows_proofs` |
| `AppLifecycle` | what the application promises its user (abstract) | as `ImplementsApp`, `EachImplementsApp` | `WindowsImplementApp`, `ProcessesImplementApp` |
| `WebServer` | listening thread, pool, connections, `stop()` | `MCWebServer` | `WebServer_proofs` |
| `ConnectionService` | what a server promises the connections it accepts (abstract) | as `ImplementsService` | `ServerImplementsService` |
| `HttpConnection` | one worker and one client over one connection: requests, content, answers, keep-alive | `MCHttpConnection` | `HttpConnection_proofs` |
| `Application` | the processes on a desktop, from start to end, with either engine | `MCApplication` | `Application_proofs` |
| `Bridge` | workers and UI thread over registry and objects; the blocking callback | `MCBridge` | `Bridge_proofs` |
| `WindowLease` | what the API promises a service it has told of a document (abstract) | as `ImplementsLease` | `BridgeImplementsLease` |
| `FileUpdater` | `update`, retries, `revert`, destructor over a failing file system | `MCFileUpdater` | `FileUpdater_proofs` |
| `FileSwap` | what replacing files promises of the originals (abstract) | as `ImplementsSwap` | `UpdaterImplementsSwap` |
| `ClickEvents` | the timer that attaches the click handler, against a page that changes | `MCClickEvents` | `ClickEvents_proofs` |
| `JsonText` | a string written as JSON and read again, byte by byte | `MCJson` | `Json_proofs` |
| `JsonParser` | a text of tokens parsed into a tree | `MCJson` | `Json_proofs` |
| `JsonGrammar` | the grammar and what a text means: what `JsonParser` is compared with | `MCJson` | `Json_proofs` |
| `JsonPlaces` | no behaviour: the inductive invariant of `TreeIsText`, where in the text the tree's values stand | none | `Json_proofs` |

How they fit together. `BrowserWindows` sees the web server as one variable,
`webServer`, that `StartWebServer` and `StopWebServer` set; `WebServer` has the
threads behind it and sees the UI thread as the variable `ui` and a request as
one step. `Bridge` is where the two meet: it refines neither, it takes from the
first that windows come and go on the UI thread, from the second that calls run
on any of several threads, and adds what only their combination has, the
unlocked registry and the callback; what it gives the service is stated once more,
without registry and stages, as `WindowLease`. A registry change, one step of
`BrowserWindows`, is a step that begins and a step that ends in `Bridge`. `ClickEvents` is the inside of one
`BrowserWindow` object of `BrowserWindows`; `HttpConnection` is the inside of one
worker of `WebServer`, from `TakeJob` to the close, and refines its steps
(`ImplementsWorker`); `Application` is the outside of `BrowserWindows`: its process
with the msie engine has one window only, and each process refines the same
`AppLifecycle`. `JsonText` and `JsonParser` are functions the others call, with the
loops inside; they share a run in which either moves while the other rests. `FileUpdater` stands alone (its file
is in the repository but not in `HttpMsieBridge.vcxproj`).

Definitions introduced by a comment "Mutant:" are not
part of any specification. Each is a plausible slip in the code (a dropped
guard, a wrong order, an off-by-one) that replaces a definition when a property
is tested for strength; `PROJECT.json` says which property each must break.

### BrowserWindows

State. `phase` is the position of `wWinMain`; `window` and `hidden` are the
system's view of the handles; `g_windowCount`, `g_browserWindows` (its keys) and
`webBrowser2` are the variables of the code; `object` says whether the
`BrowserWindow` made for a handle lives; `advised` is the event cookie,
`unadviseFailed` the controls given up while `UnadviseEvent` failed (its result is
ignored, `browser_window.cpp:358`), `clientSite` the client site of the OLE object;
`timers`, `ticks` (the windows a `WM_TIMER` is waiting for), `posted` and `quit`
belong to the thread's message queue; `webServer`, `startup` and `trayIcon` are
what the last `WM_DESTROY` has to stop.

| Action | Code |
|---|---|
| `CreateMainWindow`, `NewWindow3` | `CreateMainWindow`, `CreatePopupWindow` from `DWebBrowserEvents2::NewWindow3`, and the `WM_CREATE` both send before they return |
| `EnterMessageLoop`, `LeaveMessageLoop` | `wWinMain`, `main.cpp:414` on |
| `CloseButton`, `DispatchClose` | `WM_CLOSE`, which `DefWindowProc` answers with `DestroyWindow`, which sends `WM_DESTROY` |
| `DispatchDestroy` | a *posted* `WM_DESTROY`: the handler runs, the window stays |
| `TrayExit`, `MinimizeWindow`, `RestoreFromTray` | `WM_TRAY_MESSAGE`, `WM_SYSCOMMAND` |
| `ExternalCloseWindow` | `ExternalDispatch::CloseWindow` |
| `DropStale` | the system discards messages of a destroyed window |
| `TimerDue`, `DispatchTimer` | the 50 ms have passed; `WM_TIMER`, also one that waits when `KillTimer` is called |
| `StrayEvent` | an event through a sink that could not be disconnected, for an object that is gone |

Every action is one message handled to its end, with every call the handler
makes. `FatalError` shows a message box, then calls `exit(-1)`, and is a way to end
(`phase = "exited"`); what the loop of that box may still dispatch is left out here,
and that the box stays until its user closes it is in `Application`.

### WebServer

State. `listener` is the program counter of the detached thread,
`is_running_` and `svr_sock_` the two atomics of httplib's `Server`, `hand` the
connection accepted and not yet queued, `jobs`,
`shutdown_` and the workers' positions the thread pool, `conn` each connection
from the client's `connect` to its end, `ui` the UI thread. Ghosts: `closes`
counts `closesocket` of the listening handle, `acceptError` remembers the
error path of accept, `stopHeld` that the assertion in `stop()` has held.

The step is the critical section of the pool's mutex, one access to an atomic,
or one request. `CheckSocket`, `NothingAccepted`, `Accept`, `Enqueue`, `AcceptFails`
and `LeaveAcceptLoop` are the loop of `listen_internal`, in which `stop()` may come
between accept and enqueue; `Shutdown`, `NotifyAll`,
`Join` are `ThreadPool::shutdown`; `WaitForJob`, `TakeJob`, `ExitWorker` the
worker's loop around its condition variable, which may wake by itself
(`SpuriousWakeup`); `HandleRequest`, `HandleStop`, `WorkerStop`, `Respond` and
`KeepAliveEnds` one connection of `process_and_close_socket`. Both calls of
`stop()` split at the test of `is_running_` (`StopWebServer`/`UiStop`,
`HandleStop`/`WorkerStop`), since the other thread may come in between. When the
UI thread returns from `wWinMain`, all others stop where they are (`Exit`).

### HttpConnection

State. `wpos` and `rpos` are the client's place in its requests and the server's, in
whole parts; `begun` says whether the client has written the beginning of the part at
`wpos`, and whether that was read, `torn` that such a beginning was read and lost;
`pc`, `current`, `fields`, `junk`, `got` and `status` the place and the locals of the
worker; `count` the counter of `process_socket`; `continued` what has been told to go
on. Ghosts: `mixed` (content was read that is not that request's), `answers` with what
each answers and on which content, `gaveUp` (nothing came in time).

| Action | Code |
|---|---|
| `Write`, `Trickle`, `HangUp` | the client, at any time: a whole part, some bytes of one, the end |
| `SelectRead`, `KeepAliveTimeout`, `CloseIdle` | `process_socket`'s wait for the next request |
| `ReadBeginning` | what there is of a line or field is read and the time-out begins anew |
| `ReadRequestLine`, `NoRequestLine`, `ReadField`, `EndOfHeaders`, `NoHeaders`, `EndOfLong` | `process_request`, `read_headers`, the limit of the URI, `Expect` |
| `ReadLength`, `ReadRest`, `EndOfRest`, `ReadChunkSize`, `ReadChunk`, `ReadEndOfChunk`, `ReadTrailer`, `NoContent` | the three readers of `read_content` and their failure |
| `Respond` | routing, `write_response`, the count and the next turn or the end |

A request is a sequence of parts: line, fields, blank line, units of content or
chunks. Of a line the client may write the beginning, go on byte by byte for ever, fall
silent, or hang up; `GetLine` then returns what there is as if it were a line
(`httplib.h:1161-1166`), and `CutKinds` says what it is taken for. A chunk whose line
end is cut so ends the content without an error, and the handler runs on a part of it
(`httplib.h:1964`). What a line reader makes of content is `junk`. An answer the client
may not know the end of, or that belongs to a request whose end the server cannot know
(`Framed`), ends the claim that answers stay in step; that no handler runs on what is not
its request's, on a part of it, or twice, goes on to be claimed, and the model has the
steps in which late bytes are read as request lines.

### Application

State. `settings` are engine, `window.instance` and the external program; `pc`
the place of each process in `wWinMain`; `mutex` and `first` the named mutex of
`Instance` and what `CreateMutex` said; `window`, `released`, `counter` and `boxes`
its main window and, under Miniblink, the object behind it and the message boxes
on its stack; `resumed` the processes in which a script goes on behind a box that has
returned; `posted` and `quit` its message queue; `program`, `tries`, `icon` and
`server` what it has started. The history `asked` records whose page has asked for the
end of its window.

`Exec` is one try of `exec`; `CheckInstance`, `FindWindow`, `StartEngine`,
`StartWebServer`, `BindPort`, `EnterMessageLoop` and `LeaveMessageLoop` follow
`wWinMain`; `CloseButton`, `PageCloses`, `DispatchClose`, `OpenBox`, `CloseBox` and
`ScriptReturns` are the messages and callbacks; `EngineFails` ends the process or, with
the msie window standing, leaves it in the box of `FatalError` (`pc = "fatal"`) until
its user closes that (`FatalErrorExits`). `CreateMutex` may fail, and the process then
takes itself for the first (`instance.h:16-26`). A script that has opened a box may
outlive the view: its alert is refused by the test of `m_released`, its
`eMsg("close")` by nothing (`CMiniblink.cpp:820`), it asks a NULL view for its window
and posts to none. `Kill` ends a process anywhere: the
system closes its mutex handle and its window, neither its icon nor its program.
A later instance raises the window it finds and then goes on to start like the
first; a server that cannot bind its port leaves the application running without
one. Both are what the code does.

### Bridge

State. `ui` and `target` are what the UI thread is in the middle of;
`g_browserWindows`, `made`, `deleted`, `closed` the registry and the objects;
`announced`, `notice` and `held` the callbacks posted and those the service
has not answered; `calls` each worker's request with the pointer it holds and the notice
(`cause`) on whose account the client made it; `arrived` says that a byte of the
service's answer waits to be read, `severed` that a script on a worker has closed the
control of the window whose notice is posted or waited for.

A window handle may be used again by the system, an object may not. Where the
code has a data race the model is nondeterministic: `GetBrowserWindow` finds
anything while an insertion or an erasure is under way, `LookupRaced` ends the
process, a worker that uses a deleted object gets an answer or a crash
(`ObjectGone`), a null string from a page that tells nothing ends the process
(`NullString`, and the same in `DocumentComplete`). Whether a COM call of a worker runs
in place or is brought to the UI thread depends on how the control is registered,
so `ControlCalled` allows both. A call that runs in place (`/api/v1/exec`, `/trigger`)
may run a script of the page there, for as long as the script likes, and the script
may call `window.external.CloseWindow` (`ScriptCloses`, `ScriptReturns`): the control
is released on the worker, whatever the UI thread is at, while the entry and the object
stay until the UI thread handles the `WM_CLOSE` it posted
(`external_dispatch.cpp:153-161`, `browser_window.cpp:944-951`). `ServiceTrickles` and
`ReadByte` are an answer that comes byte by byte, each of which starts the read time-out
anew (`httplib.h:2985-2997`).

What holds is therefore stated for the one case in which the code gives a
reason: while the UI thread waits for the service it handles no message, so the
entry and the object of the window it has announced cannot go, and its control can go
only by a script that some call runs on its worker (`CallbackFindsItsWindow`).
`WindowLease` says the same as a specification: an announcement leases the window's
object to the service, no window opens while it is leased and none closes but with a
call under way that has reached an object, a call for the notice reaches the leased
object, and only the answer to this very notice, or the end of the wait, gives it
back. In the mapping the lease begins with the document (`posting`), before the
service knows of it. Outside a pending
notice a worker may hold the pointer of an object that has been deleted; that is
how the code is, and the model has those steps.

### FileUpdater

State. `manifest`, `original` (the files the application has before) and `fresh` are
the input; `app`, `backup`, `appDirs`,
`backupDirs` the disk; `phase`, `todo`, `current`, `retries`, `step` and
`pending` the progress of the call; the ghost `faulted` is set when a call of
the last `revert` failed without a reason in the disk itself.

Every file system call is a step and may fail: `CreateDirectories`, `Save`
(rename to the backup), `Install` (rename of the new file) under `Try` and
`Throw`, the retry loop; `Revert`, `RevertFile`, `RevertDirectory`, `EndRevert`
follow the recursive iterator of `revert`, including the directory that moves
away whole and the exception of the iterator after it. Since the program keeps no
journal and has no recovery, a crash needs no action of its own: what it leaves
is the disk of the state it happens in, so an invariant over the disk is a
statement about every crash. A second updater run over the `old-files` such a crash
leaves is not modelled. The unordered map gives the entries in any order.

### ClickEvents

State. `page`, `unloaded`, `busy`, `idOf` and `handlers` are the control and its
documents, `documentUniqueID_`, `clickEventsAttached_`, `focusedAfterCreation_`,
`webBrowser2_` the members of the object; the ghost `succeeded` is the answer of
the last `TryAttachClickEvents` for the present page. A document stands for the
unique id it gives. `OnTimer` is the tick with all its outcomes, `AttachToNew`
the path that writes the id before it attaches. Page scripts may change the id;
that they replace `document.onclick` themselves is not modelled.

### JsonText and JsonParser

`JsonText`. `i`, `state`, `codepoint`, `string_buffer`, `bytes_after_last_accept`
and `undumped_chars` are the locals of `dump_escaped`; `peak` (a ghost) is the
highest byte of the array ever in use. `AcceptByte`, `RejectByte` and `KeepByte` are
the three cases of a turn of its loop, `EndDump` what follows the loop. `Decode`
is the table of the automaton, by classes of bytes. The output is then the input
of `scan_string`, whose actions are named for the cases of its switch
(`EscapedCodepoint`, `Multibyte`, ...). Bytes are numbers, so that escapes,
surrogates and UTF-8 are what they are and not names. The reference, after table 3-7
of the Unicode standard, is written without recursion, so that it can be proved
about: a byte is `Good` if some window around it is a sequence (`SequenceAt`), a
string `IsUtf8` if all its bytes are good, and `IsGoodPart` says that one string is
the good bytes of another in their order. The program uses the handlers `ignore`
and `strict`; `replace` is left out.

`JsonParser`. `at`, `last_token` and `states` are the place and the stack of
`sax_parse_internal`; `nodes`, `root`, `ref_stack` and `object_element` the tree and
the pointers of `json_sax_dom_parser`. Which token comes is open until
`get_token` asks. The reference (`JsonGrammar`) is the grammar as a recursive
function: of the value, the elements or the members that begin with a token it tells
the token behind them (`next`, 0 if nothing of the kind begins there) and what they mean
(`meaning`), an array a sequence and an object a set of pairs of a key and a value.
`Built` says by recursion over its nodes what the tree means. After an error the tokens
read must be no text, and none with what they could go on with: `Endings` are the
shortest ways to finish what has begun (the rest of a member or value, then the end of
each open array and object), and a beginning that some continuation makes a text of is
made one by one of them. A parser that refuses too early fails here.

## The checks

Run them with `tlc -config <cfg> <module>`; `PROJECT.json` lists module and cfg
of each. Deadlock is not checked in any of them because every one of these
systems really stops: the process ends, the caller is finished, the window is
gone. That they do not stop too early is the business of the liveness properties.

| Run | States | What it shows |
|---|---|---|
| `windows` | 431 514 | Registry and objects agree (`RegistrySound`), the count never exceeds the registry (`CountBound`), every timer, waiting `WM_TIMER` and event sink has its object, but for the tick of a main window Exit has left standing and the sink whose `UnadviseEvent` failed (`CallbacksServed`); the whole implements `AppLifecycle`; a page's `CloseWindow` is completed and `WM_QUIT` ends the loop |
| `application` | 538 766 | A later instance raises the window of another living process (`RaisesAnother`); no page asks in vain for the end of its window, also from a script that outlives the view (`CloseIsNotLost`); each process implements `AppLifecycle`; a process told to quit ends, one that was started gets to its loop, ends, or shows the box of `FatalError` |
| `web` | 182 695 | Hand, queue and workers partition the accepted connections (`ServedOnce`), no wake-up is lost (`NoLostWakeup`), the handle is closed once (`ClosedOnce`); the whole implements `ConnectionService`; an accepted connection waits for good only if it, or those of all workers, never let their workers go, and a stopped server ends unless a worker it joins is kept so |
| `http` | 474 291 | Client and server agree where requests end, and no handler runs on content that is not its request's, on a part of it (unless the client hung up within it), or twice (`FramesAgree`); they agree when the connection ends (`CloseAgreed`); the worker does what `WebServer` says of workers (`ImplementsWorker`); a whole request is answered and `100-continue` is sent; only a client that trickles for ever, or an answer that is never taken or never made, keeps a worker for good |
| `bridge` | 488 136 | A service that calls back finds the window it was told of, with its control unless a script run on a worker closed it (`CallbackFindsItsWindow`); the whole implements `WindowLease`; the UI thread comes back from a service that is silent, late or waits itself, and stays only with one that trickles or does not read (`UIReturns`); every call is answered unless its script never returns (`CallsAnswered`): the callback and the calls it makes do not wait for each other for ever |
| `updater` | 161 748 | A returned `update` is complete and has in the backup what was there before of every file it replaced or removed (`UpdateIsComplete`), retries never overwrite a saved original (`BackupIsOld`), a revert without faults restores everything (`RevertRestores`), originals are at home or aside until the destructor (`ImplementsSwap`), both calls end (`CallsEnd`) |
| `click` | 9 940 | The attached flag never stands for another document (`FlagMeansHandler`); a document that stays gets its turn (`EveryDocumentIsTried`) |
| `json` | 2 043 566 | A written string is read again as it was, or without its bytes that are not UTF-8 (`RoundTrip`); what the scanner accepts is UTF-8 (`AcceptedIsUtf8`); the buffer holds (`BufferFits`) and the loop ends (`DumpEnds`); the parser accepts only texts of the grammar, stops at an error only where no shortest ending makes one, and its tree is that of the text (`TreeIsText`), through pointers that stay good (`RefsAlive`) |

Four more runs each show that the code does not keep something the repository
says of it; TLC finds the shortest way there:

| Run | The repository says | What happens |
|---|---|---|
| `windows_kill_timer` | `main.cpp:176` `_ASSERT(b)` after `KillTimer` | Exit in the tray menu with a popup open: the handler runs for the main window, later once more, and finds no timer; the window is counted down twice |
| `web_stop_assertion` | `httplib.h:3194` `assert(svr_sock_ != INVALID_SOCKET)` | a second stop while the first is draining: `is_running_` still holds, the socket is gone |
| `updater_version_file_last` | `file-updater.cc:69-79` the version file is updated after the others | the key is written with an escape (`\a`) and matches no path |
| `click_true_means_attached` | `browser_window.cpp:455-458` "Returns whether succeeded to attach" | `put_onclick` fails once after the id was written; every later tick says true |

Three more disagreements are states of the models without a run of their own.
After `window.external.CloseWindow` the early return of `CloseBrowserControl` skips
the client site, which `browser_window.cpp:412` calls important (`clientSite` of
`BrowserWindows` is "abandoned"). `main.cpp:415` exits without a web server, but
`StartWebServer` has answered true before the port is bound (`listener`
"failed"). `file-updater.cc:227` counts failures to report them at the end, but a
directory that moves whole ends the walk of `revert` with an exception (`phase`
"thrown").

### Bounds

| Constant | Value | Why it is enough |
|---|---|---|
| `Windows` | main and two popups | two windows may remain when one goes; the main window may go first, between or last |
| `MaxPosted` | 2 (3 in `windows_kill_timer`) | a posted `WM_DESTROY` and a `WM_CLOSE` behind it, of the same window or another; it only limits how many are outstanding at once |
| `SetTimerOutcomes` | both in `windows`, success only in `windows_kill_timer` | so that the violation is not one of a timer that never was |
| `Conns`, `Workers` | 3 and 2 (2 and 2 in the violations) | both workers busy with a third connection queued, one asleep while one works, stop with each of those |
| `KeepAliveMax` of `WebServer` | 2 (5 in httplib) | a connection is kept once and ended once by its count |
| `Processes` | 2 | a first and a later instance; each may end, be killed, or start while the other goes |
| `MaxTries` | 3 | the value of the code |
| `MaxBoxes`, `MaxPosted` of `Application` | 1 and 1 | one box on the stack while its window is closed by another way |
| `Requests`, `MaxRequests` | 14 kinds, 2 on a connection | every reader of content, every early answer and both versions, each before and behind each other |
| `KeepAliveMax` of `HttpConnection` | 3 (5 in httplib) | a connection that ends before its count and one (of two requests and a 400) that ends by it |
| `Hwnds`, `Objects` | 2 and 2 | two windows at once, and a handle used again by a second object |
| `Workers` of `Bridge` | 2 | a call from the service beside one of another client |
| `MaxNotices` | 2 | a late answer to a notice the UI thread has given up, while it waits for the next; a script still running from the first notice while it waits for the second |
| `Files`, `Dirs` | 3 in two directories (2 in the violations) | two entries share a directory, one is outside; a directory becomes empty while the other still has entries |
| `MaxRetries` | 5 | the value of the code |
| `Docs` | 3 | flag and id may survive two navigations |
| `Sources` | lengths 0 to 3 over 15 bytes, 4 over 6, 5 over 4 | one byte of each class the automaton tells apart and those with an escape; the longest sequence broken, and followed by another |
| `Texts` | up to three of 22 pieces behind a quote | pairs of surrogates, halves of them, and each range at both ends |
| `BufferSize` | 17 (512 in the code) | a flush as soon as five bytes wait: after one escape or up to five characters, with and without a sequence begun behind them |
| `Strings`, `Scalars`, `MaxTokens` | 2, 1 and 12 | an array in an object, overwritten by a later member with its key, is the longest case of interest |

The theorems below hold for all values.

### Fairness

- `BrowserWindows`: weak fairness of `DispatchClose`, `DispatchDestroy`,
  `DropStale` and `LeaveMessageLoop`: `wWinMain` calls `GetMessage` for ever and
  dispatches what it gets. Users, pages and the tray owe nothing.
- `WebServer`: weak fairness of the listening thread and of `PoolStep`, what a worker
  does with the pool and the socket. Nothing is assumed of `RequestStep`: the time-outs
  of httplib begin anew with every byte, an answer is written by a blocking send, and a
  handler may wait. The liveness properties name that case (`Stays`).
- `Application`: weak fairness of `Runs(p)`, the steps a process takes by itself:
  `wWinMain` goes on, its loop dispatches what is posted, a message box returns
  when `WM_QUIT` is in the queue (its loop posts it again), and a script that goes on
  behind a box ends or opens another. Users, pages and `Kill`
  owe nothing, nobody closes the box of `FatalError`; `FindWindow` of a later instance
  finds nothing without waiting.
- `HttpConnection`: weak fairness of `Reading` and `GivingUp`: a read returns with what
  has come, with the end of the connection or after `CPPHTTPLIB_READ_TIMEOUT_SECOND`
  without a byte. The client owes nothing, nor does the handler, nor need the client take
  its answer (`Respond` has no fairness); the properties name a client that trickles for
  ever (`TricklesForEver`) and an answer that never goes out (`NeverAnswered`).
- `Bridge`: weak fairness of `Stored`, `Erased`, `ReadTimeout` and `ReadByte` on the UI
  thread (the client of httplib gives up when no byte comes) and of each
  worker's own steps up to the script it runs; strong fairness of `Dispatch`, since each
  return to the message loop runs the calls other threads have sent before it takes posted
  messages, but the loop may be away again and again. Nothing is assumed of the service,
  of the writing of a notice (`Posted`) or of the end of a script on a worker; the
  properties name a service that keeps the UI thread (`ServiceKeepsUI`). A call that waits for
  the UI thread is taken to come back once that thread dispatches it.
- `FileUpdater`: weak fairness of `Updating` and `Reverting`: a call that was
  made goes on. Nothing says that a file system call ever succeeds.
- `ClickEvents`: weak fairness of `GoodTick`: the timer goes on ticking, and on a
  document that stays it sometime finds its calls answered. Without that no
  retry could succeed.
- `JsonText`: weak fairness of the loop of `dump_escaped`, which nothing interrupts.

## The proofs

`tlapm <module>_proofs.tla` checks them. Each module has an inductive invariant
`IInv`, and its proof module shows `Init => IInv`, then one step per action of
`Next` for `IInv /\ [Next]_vars => IInv'`, and draws the theorems from it.

| Module | Theorems | What `IInv` adds to the properties, and why |
|---|---|---|
| `BrowserWindows_proofs` (734 obligations) | `TypeCorrect`, `RegistryIsSound`, `NoGhost`, `CallbacksFindTheirWindow`, `OnlyMainIsLeftStanding`, `WindowsImplementApp`, `ClosesAreUnderWay`, `CloseOnlyMovesUp`, `QuitOnlyRunsDown` | `CountBound` carries `NoGhostApplication`: a count at most the size of the registry is 0 or less when the registry empties, however often it was counted down. `ExitOnlyMain` (only the owner of the icon is posted `WM_DESTROY`) carries `ZombieIsMain`. `TicksServed` needs that only the main window loses its object and stays. `ControlInv`, `WindowInv` and `OpenedInv` tie controls, sinks, handles and the start together; `CloseInv` says that a BrowserWindow has its window, and a `WM_CLOSE` posted if its control is gone |
| `WebServer_proofs` (991) | `TypeCorrect`, `ConnectionsServedOnce`, `NoWakeupIsLost`, `QuietWhenEnded`, `HandleClosedOnce`, `ServerImplementsService`, `StopOnlyRunsDown`, `AcceptedOnlyRunsDown` | `ListenerInv` ties `is_running_`, `shutdown_`, the hand and the workers' exits to the listening thread; `BusyInv` says who serves; `SocketInv` counts the closes. `NoLostWakeup` is inductive with a cardinality argument (`ReadyComes`, `ReadyGoes`): a job comes with one more worker awake, or nobody sleeps |
| `HttpConnection_proofs` (1596) | `TypeCorrect`, `FramingHolds`, `ClosesAreAnnounced`, `ConnectionImplementsWorker`, `WorkerOnlyRunsDown`, `NoRequestIsDropped` | `Place`: once it has the line of a request, the place of the worker and what it has read give the very part that comes next, or nothing is left and the client has gone (`Spent`); `Sequence`: as long as every answer has been sound, that request is the next one, or the client cut its line; `OrderInv`: no line is answered twice, whatever went wrong before; `FieldsInv` and `EndInv` tie headers, status and announced ends together. `NoRequestIsDropped` rests on the two places: where nothing comes they are one |
| `Application_proofs` (813) | `TypeCorrect`, `OneFirstInstance`, `NoGhostProcesses`, `MsieIconsGo`, `CloseRequestsAreKept`, `LaterInstanceRaisesAnother`, `ProcessesImplementApp`, `ProcessOnlyRunsDown` | `MutexInv` (who got the mutex holds it as long as it lives), `StageInv` (which places have a window, and that pages run in the message loop), `CounterInv` (a released object has no window, the counter counts the open one), `QuitInv`, `PostedInv` (the messages of a window go with it). `OneFirstInstance` speaks of processes whose `CreateMutex` succeeded; the others each take themselves for the first, and it says nothing of them |
| `Json_proofs` (9540) | `TypeCorrect`, `BufferNeverOverrun`, `DumpOnlyRunsDown`, `AcceptedText`, `WrittenIsRead`, `PointersStayGood`, `TreeIsTheText`, `ErrorsAreFinal` | see below |
| `Bridge_proofs` (692) | `TypeCorrect`, `CallbacksAreServed`, `BridgeImplementsLease`, `BridgeOnlyRunsDown` | `RegistrySound` (no two windows share an object, entries are live, also in the middle of a change), `NoticesSound` (nobody acts on a notice before it is posted; the window of the present one is there, its control too unless `severed`), `WaitSound` (every call made for that notice is under way with its object) |
| `FileUpdater_proofs` (573) | `TypeCorrect`, `UpdateCompletes`, `BackupHoldsOriginals`, `RevertRestoresAll`, `UpdaterImplementsSwap`, `CallsOnlyRunDown` | `EntryInv` (the place is cleared before the new file moves in), `DoneInv` (before its turn no file is new, after it every file is settled, and an original is in one of its two places), `PendingInv` (what the backup holds is still to be visited) |
| `ClickEvents_proofs` (103) | `TypeCorrect`, `FlagIsOfThePage`, `FirstTickMarks` | a document not loaded yet carries no id, so that no new page is taken for an old one; `OwnId`, for `FirstTickMarks`: one that carries an id carries its own |

`Json_proofs` has an invariant for each question.

- The buffer (`IInv`): `BytesSeen` (the state of the automaton bounds the bytes
  waiting) and `RoomLeft` (13 bytes were left at the last accepted byte, and only the
  waiting bytes lie behind it): an escape needs 12 and a NUL, or three bytes and six
  and a NUL.
- `AcceptedText`: `token_buffer` is UTF-8 after each step of the lexer, because each
  adds one whole character (`IsCharacter`).
- `WrittenIsRead` (`TripInv`): while the serializer works, text and buffer together
  are a string that unwinds to the good bytes of the source read so far, and the bytes kept since the last accepted one are the beginning of a
  character (`Pending`); while the lexer works, what it has added and what the rest
  unwinds to are together those good bytes. `Boundary` is why a byte that is read
  again counts once: no character of the source lies across the place where a
  sequence was rejected. It takes facts about the automaton (it accepts a sequence of
  bytes exactly if table 3-7 does), about the quotients that make escapes and bytes
  of a code point, and about counting good bytes. `Unwinds` does without recursion: it is
  said of a set of pairs of places, one in the text and one in the bytes, such that
  from each pair one escape or character leads to another pair or both are at the end.
- `PointersStayGood` (`ParserInv`): `Nested` (nodes are numbered as they are made, so
  that no two levels are one node and a write to one leaves the others) and `Placed`
  (where the parser has not yet pushed the level that the tree has opened).
- `TreeIsTheText` and `ErrorsAreFinal` (`GrammarInv`): the parser reads from the front and the grammar is a
  recursion from the back, so the invariant speaks of every text that continues the
  tokens read (`StartsAsRead`), whatever is still to come. There are places `where`
  (of each node) and `item` (of the present element or member of each open level) at
  which each such text means what the tree does (`Reads`): a node that has ended means
  what stands at its place (`FinishedMean`); an open one means what its finished
  children mean and what comes (`ArrayMeans`, `ObjectMeans`, in which a key that comes
  again counts); if an open one fails, the text fails (`FailsAll`). `Shape` is the part without a text: children are
  numbered after their parents, an object has one member of a key, and beside the
  present element or member everything below an open level has ended. The argument
  takes three inductions, each from a least number (`Least`, which is proved from finite
  sets): the grammar's recursive function exists (`ItemsExist`, down from the end of
  the text), every value ends behind its beginning, and the tree's recursive
  function is unique (`OneMeaning`, up from the last node).

Nine theorems are the part of a liveness property that is safety. Each names a measure
of what is left to do and says that the steps in question lower it, and which others
leave it as it is. With it the liveness property needs no more than that such a step
is always taken, which fairness gives, but for the cases the property names, and TLC checks.

| theorem | for | measure | what may leave it as it is |
|---|---|---|---|
| `CloseOnlyMovesUp` | `CloseWindowCompletes` | the place of the `WM_CLOSE` in the queue | what is not the handling of a message |
| `QuitOnlyRunsDown` | `QuitEnds` | the windows to make, else the BrowserWindows, else the controls, else `Ahead`, the messages in front of the next that deletes a BrowserWindow, else the `WM_TIMER` waiting | a page closes its window again: the message comes behind the one that ends it |
| `StopOnlyRunsDown` | `StopEnds` | `ListenerLeft`, `WorkLeft`, `Waiting` (queued, or in the hand that `stop()` met between accept and enqueue) | the steps of others |
| `AcceptedOnlyRunsDown` | `AcceptedIsServed` | the place in the queue, then `WorkLeft` | the steps of others |
| `WorkerOnlyRunsDown` | `WorkerComesBack` | `WorkerLeft` | the client writes or hangs up; a part it has written, the beginning of one, or the line it has cut, is read |
| `ProcessOnlyRunsDown` | `StartCompletes`, `QuitEndsProcess` | `StartLeft`, the boxes open | callbacks, scripts, the port, other processes |
| `BridgeOnlyRunsDown` | `UIReturns`, `CallsAnswered` | `UILeft`, `CallLeft` | the steps of others |
| `CallsOnlyRunDown` | `CallsEnd` | `EntryLeft`, the entries left | none |
| `DumpOnlyRunsDown` | `DumpEnds` | `Left` | none |

The other two liveness properties need no measure of their own. `NoRequestIsDropped`
(for `RequestIsAnswered`): the worker, if it comes back (`WorkerOnlyRunsDown`), does
not do so before it has answered what has been written whole, or ended the connection
by an answer. `FirstTickMarks` (for `EveryDocumentIsTried`): one good tick is enough,
and fairness gives one.

Assumptions. `WindowsAssumption`, `ServerAssumption`, `BridgeAssumption`,
`UpdaterAssumption`, `ClickAssumption`, `ApplicationAssumption`,
`ConnectionAssumption`, `TextAssumption` and `ParserAssumption`, each in the module that
declares the constants, and `EndAssumption` of `JsonGrammar`: sets of windows, workers
and processes are finite, null values are outside their sets, the root is a directory,
a connection may be used more than once, the buffer has 13 bytes, no string or number is
a token of punctuation or the "none" that stands beyond the end of a text. Nothing is
assumed of the number of windows, workers, connections, processes, requests, files,
documents, bytes or tokens.

Only model-checked: every liveness property (`CloseWindowCompletes`, `QuitEnds`,
`AcceptedIsServed`, `StopEnds`, `UIReturns`, `CallsAnswered`, `CallsEnd`,
`EveryDocumentIsTried`, `QuitEndsProcess`, `StartCompletes`, `RequestIsAnswered`,
`WorkerComesBack`, `DumpEnds`), because liveness under fairness and ENABLED are out
of reach of the prover; and the refutations, which are traces. The safety half of each
of these liveness properties is proved, and every invariant that a run checks is a theorem.

## Modelling decisions a reader should know

- A window handle is used once in `BrowserWindows` (windows are told apart by
  their handle over their whole life) and may be used again in `Bridge`.
- `DefWindowProc` minimises a window that `ShowWindow(SW_HIDE)` has just hidden;
  it stays hidden, and one step does both.
- `shellInfo` points at a temporary that is gone (`main.cpp:374`); what
  `closeProcess` finds there when the last window goes is nondeterministic.
- The walk of `GetBrowserList` and the lookups of single routes are one step that
  may meet a change under way; what a route then reads from a page is one more.
- Closing a listening socket refuses the connections of its backlog.
- In `FileUpdater` every file of the application is in the manifest; the others
  are never touched. The caller updates once, may revert any number of times,
  then destroys the object. `MultiByteCommandLine` and the rights set by
  `reset_rights`, whose answer is ignored, are left out.
- `HttpConnection`: of a line the beginning may be written, read and lost; content holds
  no line end, so that read as text it is joined to the line that follows, and of a cut
  chunk-size line nothing follows. A client that sends one field after another for ever is
  one that never ends a part. The result of a write is ignored as in the code. A multipart form without boundary is answered
  400 like content that cannot be read; `/stop` is in `WebServer`; static files,
  ranges and compression are not used by the program.
- `Application` with the msie engine has the main window only; what popups add is
  `BrowserWindows`. The settings are the same for all processes: they read one file.
- `JsonParser` leaves open which token comes; that `JsonText` accepts a string token is
  its own run's business. A value is a node with a number, an overwritten one a
  node that nothing leads to.
- `Bridge`: scripts that the UI thread runs are taken to end; a window that a script opens
  in place on a worker is left out, since its thread has entered no COM apartment and no
  control can be created there. Two threads in one control are a crash or nothing.
- `UnadviseEvent` may fail in `BrowserWindows`, so a sink may outlive its object there; in
  `Bridge` an event for a released control ends the process.
- What `wke.dll` answers for a NULL view is not in the repository; `Application` takes it
  to have no window.
- `ClickEvents::Invoke` reads what was clicked and changes nothing: the code
  that would is commented out.

## Not modelled

| Part | Why |
|---|---|
| Simulated input, script calls, downloads and file hooks of `mb/` | pass their arguments to `wke.dll`; no state of their own |
| Window geometry, URL rules, strings, proxy flags | each one call that keeps no state |
| Routes of the proxy and of notifications, contents of messages | no shared state with the modelled parts |
| COM plumbing (`ole_*`, `doc_host_*`, `service_provider`, ...) | constant answers, no state; `window.external.CloseWindow` is in `BrowserWindows` |
| Logging | output only |
| Version, registry, internet features | input read once at the start |
| `WM_SIZE`, `WM_GETMINMAXINFO`, keyboard translation | change no state of the model |
| The rest of `httplib.h` | static files, ranges, multipart forms, compression, TLS; of its client only the read time-out (`Bridge`) |
| The rest of `json.hpp` | numbers, binary formats, pointers, patches, comparison: not used by the program, or pure |
| `inja.hpp`, `http.hpp`, `jsonrpc.h`, `ProcessManage.h`, `File.h`, `DllLoader.h`, the two HTTP parsers | not compiled into the program, or included and not called; `urlparser.h` splits the callback URL of the settings |

Most of the lines of the repository are in these vendored headers. The share of
them that is modelled stays small on purpose: a model of code the program does not
call would say nothing of the program.

## Plan

Done, in this order: `BrowserWindows` (with `AppLifecycle`), `WebServer` (with
`ConnectionService`), `Bridge` (with `WindowLease`), `FileUpdater` (with `FileSwap`), `ClickEvents`,
`Application`, `HttpConnection`, `JsonText` and `JsonParser`. The order is that of
consequence: the life of the windows and of the process first, the threads next,
then their meeting, then what stands alone or lies inside one step of the others.

Next: the automaton of `urlparser.h` with the width of its port.

The project keeps to few runs, each with a question of its own; `json` holds two
because they are two halves of one header.
