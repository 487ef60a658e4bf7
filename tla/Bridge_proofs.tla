----------------------------- MODULE Bridge_proofs -----------------------------
(***************************************************************************)
(* What a callback service may count on while the UI thread waits for it,  *)
(* for any number of windows, objects, workers and notices.                *)
(***************************************************************************)
EXTENDS Bridge, TLAPS

LEMMA InitIInv == Init => IInv
<1> SUFFICES ASSUME Init PROVE IInv
  OBVIOUS
<1> USE BridgeAssumption DEF Init
<1>1. NoTarget \in [hwnd : Hwnds, object : Objects \union {NoObject}]
  BY DEF NoTarget
<1>2. NoCall \in Call /\ NoCall.cause = 0
  BY DEF NoCall, Call, Nobody
<1>3. TypeOK
  BY <1>1, <1>2 DEF TypeOK
<1>4. RegistrySound
  BY DEF RegistrySound
<1>5. NoticesSound
  BY <1>2 DEF NoticesSound
<1>6. QED
  BY <1>3, <1>4, <1>5 DEF IInv, WaitSound

\* The end of the process leaves nothing to go wrong.
LEMMA EndStep ==
  ASSUME IInv, NEW how \in {"ended", "crashed"}, End(how)
  PROVE  IInv'
<1> USE BridgeAssumption DEF End, notices, post
<1>1. NoTarget \in [hwnd : Hwnds, object : Objects \union {NoObject}]
  BY DEF NoTarget
<1>2. NoCall \in Call /\ NoCall.cause = 0
  BY DEF NoCall, Call, Nobody
<1>3. TypeOK'
  BY <1>1, <1>2 DEF TypeOK, IInv
<1>4. RegistrySound'
  BY DEF RegistrySound
<1>5. NoticesSound'
  BY <1>2 DEF NoticesSound, IInv, TypeOK, Notices
<1>6. QED
  BY <1>3, <1>4, <1>5 DEF IInv, WaitSound

\* Changes of the registry leave the notices alone, and happen at the loop.
LEMMA RegistryStep ==
  ASSUME IInv,
         \/ \E h \in Hwnds, o \in Objects : StoreBrowserWindow(h, o)
         \/ \E h \in Hwnds : RemoveBrowserWindow(h) \/ ExternalCloseWindow(h)
         \/ Stored \/ Erased
  PROVE  IInv'
<1> USE BridgeAssumption DEF IInv, AtLoop, registry, notices, post
<1> DEFINE Target == [hwnd : Hwnds, object : Objects \union {NoObject}]
<1>1. NoTarget \in Target
  BY DEF NoTarget
<1>2. ASSUME NEW h \in Hwnds, NEW o \in Objects, StoreBrowserWindow(h, o)
      PROVE  IInv'
  <2> USE <1>2 DEF StoreBrowserWindow
  <2>1. target' \in Target /\ target'.object = o
    OBVIOUS
  <2>2. TypeOK'
    BY <2>1 DEF TypeOK
  <2>3. RegistrySound'
    BY <2>1 DEF TypeOK, RegistrySound
  <2>4. QED
    BY <2>2, <2>3 DEF NoticesSound, WaitSound
<1>3. ASSUME NEW h \in Hwnds, RemoveBrowserWindow(h)
      PROVE  IInv'
  <2> USE <1>3 DEF RemoveBrowserWindow
  <2>1. target' \in Target /\ target'.hwnd = h /\ target'.object = g_browserWindows[h]
    BY DEF TypeOK
  <2>2. TypeOK'
    BY <2>1 DEF TypeOK
  <2>3. RegistrySound'
    BY <2>1 DEF TypeOK, RegistrySound
  <2>4. QED
    BY <2>2, <2>3 DEF NoticesSound, WaitSound
<1>4. ASSUME NEW h \in Hwnds, ExternalCloseWindow(h)
      PROVE  IInv'
  <2> USE <1>4 DEF ExternalCloseWindow
  <2>1. TypeOK'
    BY DEF TypeOK, RegistrySound
  <2>2. QED
    BY <2>1 DEF RegistrySound, NoticesSound, WaitSound
<1>5. CASE Stored
  <2> USE <1>5 DEF Stored
  <2>1. TypeOK'
    BY <1>1 DEF TypeOK
  <2>2. RegistrySound'
    BY DEF TypeOK, RegistrySound
  <2>3. QED
    BY <2>1, <2>2 DEF NoticesSound, WaitSound
<1>6. CASE Erased
  <2> USE <1>6 DEF Erased
  <2>1. TypeOK'
    BY <1>1 DEF TypeOK, RegistrySound
  <2>2. RegistrySound'
    BY DEF TypeOK, RegistrySound
  <2>3. QED
    BY <2>1, <2>2 DEF NoticesSound, WaitSound
<1>7. QED
  BY <1>2, <1>3, <1>4, <1>5, <1>6

\* A new notice has a number no call names, and a window whose object is open.
LEMMA NoticeStep ==
  ASSUME IInv,
         \/ \E h \in Hwnds : DocumentComplete(h)
         \/ Posted \/ ReadTimeout \/ ReadByte \/ ServiceStep
  PROVE  IInv'
<1> USE BridgeAssumption DEF IInv, AtLoop, registry, notices, post, Notices, Back
<1>1. notice \in Nat /\ \A n \in held : n \in Nat
  BY DEF TypeOK
<1>2. \A w \in Workers : calls[w].cause \in Nat
  BY DEF TypeOK, Call, Nobody
<1>3. ASSUME NEW h \in Hwnds, DocumentComplete(h)
      PROVE  IInv'
  <2>1. CASE Crash
    BY <2>1, EndStep DEF Crash
  <2>2. CASE ~Crash
    <3>1. /\ ui = "loop" /\ ui' = "posting"
          /\ g_browserWindows[h] \notin closed \union {NoObject}
          /\ notice < MaxNotices /\ notice' = notice + 1
          /\ announced' = [announced EXCEPT ![notice + 1] = h]
          /\ UNCHANGED <<process, target, post, registry, closed, held, calls>>
      BY <1>3, <2>2 DEF DocumentComplete
    <3>2. notice' \in Notices /\ announced'[notice'] = h
      BY <1>1, <3>1 DEF TypeOK
    <3>3. TypeOK'
      BY <3>1, <3>2 DEF TypeOK
    <3>4. RegistrySound'
      BY <3>1 DEF RegistrySound
    <3>5. \A n \in held : n <= notice' /\ n # notice'
      BY <1>1, <3>1 DEF NoticesSound
    <3>6. \A w \in Workers : calls[w].cause <= notice' /\ calls[w].cause # notice'
      BY <1>1, <1>2, <3>1 DEF NoticesSound
    <3>7. NoticesSound'
      BY <1>1, <3>1, <3>2, <3>5, <3>6 DEF NoticesSound, RegistrySound
    <3>8. QED
      BY <3>1, <3>3, <3>4, <3>7 DEF WaitSound
  <2>3. QED
    BY <2>1, <2>2
<1>4. CASE Posted
  <2> USE <1>4 DEF Posted
  <2>1. notice \in Notices
    BY DEF TypeOK, NoticesSound
  <2>2. TypeOK'
    BY <2>1 DEF TypeOK
  <2>3. RegistrySound'
    BY DEF RegistrySound
  <2>4. NoticesSound'
    BY <1>1 DEF NoticesSound
  <2>5. WaitSound'
    BY DEF WaitSound, NoticesSound
  <2>6. QED
    BY <2>2, <2>3, <2>4, <2>5
<1>5. CASE ReadTimeout \/ ReadByte \/ ServiceTrickles
  <2>1. CASE ReadTimeout
    BY <2>1 DEF ReadTimeout, TypeOK, RegistrySound, NoticesSound, WaitSound
  <2>2. CASE ReadByte \/ ServiceTrickles
    <3>1. /\ arrived' \in BOOLEAN
          /\ UNCHANGED <<process, ui, target, severed, registry, closed, notices, calls>>
      BY <2>2 DEF ReadByte, ServiceTrickles
    <3>2. QED
      BY <3>1 DEF TypeOK, RegistrySound, NoticesSound, WaitSound
  <2>3. QED
    BY <1>5, <2>1, <2>2
<1>6. ASSUME NEW n \in Notices, ServiceAnswers(n)
      PROVE  IInv'
  <2> USE <1>6 DEF ServiceAnswers
  <2>1. ui' = "loop" \/ (ui' = ui /\ severed' = severed)
    OBVIOUS
  <2>2. TypeOK'
    BY <2>1 DEF TypeOK
  <2>3. QED
    BY <2>1, <2>2 DEF RegistrySound, NoticesSound, WaitSound
<1>7. QED
  BY <1>3, <1>4, <1>5, <1>6 DEF ServiceStep

\* A worker whose call ends.
LEMMA AnswerStep ==
  ASSUME IInv, NEW w \in Workers, Answer(w)
  PROVE  IInv'
<1> USE BridgeAssumption DEF IInv, Answer, registry, notices, post
<1>1. NoCall \in Call /\ NoCall.cause = 0
  BY DEF NoCall, Call, Nobody
<1>2. notice \in Nat
  BY DEF TypeOK, Notices
<1>3. TypeOK'
  BY <1>1 DEF TypeOK
<1>4. \A x \in Workers : calls'[x] = NoCall \/ calls'[x] = calls[x]
  BY DEF TypeOK
<1>5. NoticesSound'
  BY <1>1, <1>2, <1>4 DEF NoticesSound
<1>6. WaitSound'
  BY <1>1, <1>2, <1>4 DEF WaitSound, NoticesSound
<1>7. QED
  BY <1>3, <1>5, <1>6 DEF RegistrySound

\* A lookup for the window of a notice the UI thread waits for meets the
\* registry at rest, and in it the object of the notice.
LEMMA GetBrowseStep ==
  ASSUME IInv, NEW w \in Workers, NEW h \in Hwnds,
         NEW c \in Notices \union {Nobody}, GetBrowse(w, h, c)
  PROVE  IInv'
<1> USE BridgeAssumption DEF IInv, registry, notices, post
<1>1. PICK o \in GetBrowserWindow(h) :
        calls' = [calls EXCEPT ![w] =
                    [stage |-> IF o = NoObject THEN "gone" ELSE "found",
                     object |-> o, cause |-> c]]
  BY DEF GetBrowse
<1>2. /\ UNCHANGED <<process, ui, target, post, registry, closed, notices>>
      /\ c = Nobody \/ (c \in held /\ h = announced[c])
  BY DEF GetBrowse
<1>3. o \in Objects \union {NoObject}
  BY <1>1 DEF GetBrowserWindow, TypeOK
<1>4. TypeOK'
  BY <1>1, <1>2, <1>3 DEF TypeOK, Call
<1>5. /\ \A x \in Workers \ {w} : calls'[x] = calls[x]
      /\ calls'[w] = [stage |-> IF o = NoObject THEN "gone" ELSE "found",
                      object |-> o, cause |-> c]
  BY <1>1 DEF TypeOK
<1>6. notice \in Nat /\ c <= notice
  BY <1>2 DEF TypeOK, NoticesSound, Notices, Nobody
<1>7. NoticesSound'
  BY <1>2, <1>5, <1>6 DEF NoticesSound, Nobody
<1>8. ASSUME ui = "waiting", c = notice
      PROVE  o = g_browserWindows[announced[notice]] /\ o # NoObject
  BY <1>1, <1>2, <1>6, <1>8 DEF GetBrowserWindow, NoticesSound, Nobody, TypeOK
<1>9. WaitSound'
  BY <1>2, <1>5, <1>8 DEF WaitSound
<1>10. QED
  BY <1>2, <1>4, <1>7, <1>9 DEF RegistrySound

\* A script on a worker may close the control that the UI thread is in the middle
\* of announcing; the entry and the object stay.
LEMMA ScriptStep ==
  ASSUME IInv, NEW w \in Workers, NEW h \in Hwnds, ScriptCloses(w, h)
  PROVE  IInv'
<1> USE BridgeAssumption DEF IInv, registry, notices, post
<1>1. CASE Crash
  BY <1>1, EndStep DEF Crash
<1>2. CASE ~Crash
  <2>1. /\ g_browserWindows[h] \notin closed \union {NoObject}
        /\ closed' = closed \union {g_browserWindows[h]}
        /\ severed' = (severed \/ (ui \in {"posting", "waiting"} /\ h = announced[notice]))
        /\ UNCHANGED <<process, ui, target, arrived, registry, notices, calls>>
    BY <1>2 DEF ScriptCloses
  <2>2. TypeOK'
    BY <2>1 DEF TypeOK, RegistrySound
  <2>3. RegistrySound' /\ WaitSound'
    BY <2>1 DEF RegistrySound, WaitSound
  <2>4. ASSUME ui \in {"posting", "waiting"}, g_browserWindows[announced[notice]] \in closed'
        PROVE  severed'
    <3>1. CASE g_browserWindows[announced[notice]] \in closed
      BY <2>1, <2>4, <3>1 DEF NoticesSound
    <3>2. CASE g_browserWindows[announced[notice]] = g_browserWindows[h]
      <4>1. announced[notice] \in Hwnds
        BY <2>4 DEF TypeOK, NoticesSound, Notices
      <4>2. h = announced[notice]
        BY <2>1, <3>2, <4>1 DEF RegistrySound
      <4>3. QED
        BY <2>1, <2>4, <4>2
    <3>3. QED
      BY <2>1, <2>4, <3>1, <3>2
  <2>5. NoticesSound'
    BY <2>1, <2>4 DEF NoticesSound
  <2>6. QED
    BY <2>2, <2>3, <2>5
<1>3. QED
  BY <1>1, <1>2

\* What the object makes of the call.
LEMMA UseStep ==
  ASSUME IInv, NEW w \in Workers,
         CouldNotFetch(w) \/ UseBrowser(w) \/ Dispatch(w) \/ ScriptReturns(w)
  PROVE  IInv'
<1>1. CASE Answer(w)
  BY <1>1, AnswerStep
<1>2. CASE Crash \/ End("ended")
  BY <1>2, EndStep DEF Crash
<1>3. ASSUME NEW place \in {"running", "queued"},
             calls[w].stage = "found",
             calls' = [calls EXCEPT ![w].stage = place],
             UNCHANGED <<process, ui, target, post, registry, closed, notices>>
      PROVE  IInv'
  <2> USE <1>3 DEF IInv, registry, notices, post
  <2>1. calls[w] \in Call
    BY DEF TypeOK
  <2>2. /\ \A x \in Workers \ {w} : calls'[x] = calls[x]
        /\ calls'[w] = [calls[w] EXCEPT !.stage = place]
    BY DEF TypeOK
  <2>3. /\ calls'[w] \in Call /\ calls'[w].stage = place
        /\ calls'[w].object = calls[w].object /\ calls'[w].cause = calls[w].cause
    BY <2>1, <2>2 DEF Call
  <2>4. TypeOK'
    BY <2>2, <2>3 DEF TypeOK
  <2>5. \A x \in Workers : calls'[x].cause = calls[x].cause
                             /\ calls'[x].object = calls[x].object
    BY <2>2, <2>3
  <2>6. NoticesSound'
    BY <2>5 DEF NoticesSound
  <2>7. WaitSound'
    BY <2>2, <2>3, <2>5 DEF WaitSound
  <2>8. QED
    BY <2>4, <2>6, <2>7 DEF RegistrySound
<1>4. QED
  BY <1>1, <1>2, <1>3
     DEF CouldNotFetch, UseBrowser, Dispatch, ControlClosed, ControlCalled,
         NullString, ObjectGone, ScriptReturns

LEMMA NextIInv == IInv /\ [Next]_vars => IInv'
<1> SUFFICES ASSUME IInv, [Next]_vars PROVE IInv'
  OBVIOUS
<1>1. CASE UIStep
  BY <1>1, RegistryStep, NoticeStep, EndStep DEF UIStep, LeaveMessageLoop
<1>2. CASE WorkerStep
  BY <1>2, GetBrowseStep, UseStep, ScriptStep DEF WorkerStep
<1>3. CASE LookupRaced
  BY <1>3, EndStep DEF LookupRaced, Crash
<1>4. CASE ServiceStep
  BY <1>4, NoticeStep
<1>5. CASE UNCHANGED vars
  BY <1>5 DEF vars, registry, notices, post, IInv, TypeOK, RegistrySound,
              NoticesSound, WaitSound
<1>6. QED
  BY <1>1, <1>2, <1>3, <1>4, <1>5 DEF Next

LEMMA Invariance == Spec => []IInv
  BY InitIInv, NextIInv, PTL DEF Spec

\* The variables keep their types, whatever windows are made and deleted
\* under the calls of the workers.
THEOREM TypeCorrect == Spec => []TypeOK
<1>1. IInv => TypeOK
  BY DEF IInv
<1>2. QED
  BY <1>1, Invariance, PTL

\* For any number of windows, workers and notices: while the UI thread waits
\* for the service, each call the service makes for the window it was told of
\* has found that window's object, and the object is not deleted, nor its control
\* closed but by a script on a worker (browser_events2.cpp:325,
\* browser_window.cpp:944-951).
THEOREM CallbacksAreServed == Spec => []CallbackFindsItsWindow
<1>1. IInv => CallbackFindsItsWindow
  BY DEF IInv, NoticesSound, WaitSound, CallbackFindsItsWindow
<1>2. QED
  BY <1>1, Invariance, PTL

(***************************************************************************)
(* Bridge behaves as WindowLease.                                          *)
(***************************************************************************)
\* The object of a notice is there from the announcement to the answer.
LEMMA LeasedIsThere ==
  ASSUME IInv, ui \in {"posting", "waiting"}
  PROVE  /\ LeasedObject = g_browserWindows[announced[notice]]
         /\ LeasedObject \in made
         /\ LeasedObject # NoObject
  BY BridgeAssumption DEF IInv, NoticesSound, TypeOK, LeasedObject

\* At any other place there is no lease.
LEMMA NoLease == ui \notin {"posting", "waiting"} => LeasedObject = NoObject
  BY DEF LeasedObject

LEMMA InitView == Init => Lease!Init
<1> SUFFICES ASSUME Init PROVE Lease!Init
  OBVIOUS
<1>1. LeasedObject = NoObject
  BY NoLease DEF Init
<1>2. Pending = [w \in Workers |-> Lease!Free]
  BY DEF Init, Pending, Lease!Free, NoCall, Nobody
<1>3. QED
  BY <1>1, <1>2 DEF Init, Over, Lease!Init

LEMMA EndView ==
  ASSUME IInv, process = "up", NEW how \in {"ended", "crashed"}, End(how)
  PROVE  Lease!End
<1> USE DEF End, notices
<1>1. LeasedObject' = NoObject
  BY DEF LeasedObject
<1>2. Pending' = [w \in Workers |-> Lease!Free]
  BY DEF Pending, Lease!Free, NoCall, Nobody
<1>3. QED
  BY <1>1, <1>2 DEF Lease!End, Over

\* Windows come and go at the loop, where nothing is leased.
LEMMA RegistryView ==
  ASSUME IInv, IInv',
         \/ \E h \in Hwnds, o \in Objects : StoreBrowserWindow(h, o)
         \/ \E h \in Hwnds : RemoveBrowserWindow(h) \/ ExternalCloseWindow(h)
         \/ Stored \/ Erased
  PROVE  [Lease!Next]_(Lease!vars)
<1> USE BridgeAssumption DEF AtLoop, registry, notices
<1>1. /\ process = "up" /\ process' = "up" /\ UNCHANGED <<notices, calls>>
      /\ ui \notin {"posting", "waiting"} /\ ui' \notin {"posting", "waiting"}
  BY DEF StoreBrowserWindow, RemoveBrowserWindow, ExternalCloseWindow, Stored, Erased
<1>2. LeasedObject = NoObject /\ LeasedObject' = NoObject
  BY <1>1, NoLease DEF LeasedObject
<1>3. Pending' = Pending
  BY <1>1 DEF Pending
<1>4. ASSUME made' = made, Over' = Over
      PROVE  UNCHANGED Lease!vars
  BY <1>1, <1>2, <1>3, <1>4 DEF Lease!vars
<1>5. ASSUME NEW o \in made, made' = made, Over' = Over \union {o}
      PROVE  [Lease!Next]_(Lease!vars)
  <2>1. CASE o \in Over
    BY <1>4, <1>5, <2>1
  <2>2. CASE o \notin Over
    <3>1. Lease!Close(o)
      BY <1>1, <1>2, <1>3, <1>5, <2>2 DEF Lease!Close, Lease!Unleased
    <3>2. o \in Objects
      BY DEF IInv, TypeOK
    <3>3. QED
      BY <3>1, <3>2 DEF Lease!Next
  <2>3. QED
    BY <2>1, <2>2
<1>6. ASSUME NEW h \in Hwnds, NEW o \in Objects, StoreBrowserWindow(h, o)
      PROVE  Lease!Next
  <2>1. /\ o \notin made /\ made' = made \union {o}
        /\ deleted' = deleted /\ closed' = closed
    BY <1>6 DEF StoreBrowserWindow
  <2>2. Over \subseteq made /\ Over' = Over
    BY <2>1 DEF Over, IInv, TypeOK
  <2>3. Lease!Open(o)
    BY <1>1, <1>2, <1>3, <2>1, <2>2 DEF Lease!Open, Lease!Unleased
  <2>4. QED
    BY <2>3 DEF Lease!Next
<1>7. ASSUME NEW h \in Hwnds, ExternalCloseWindow(h)
      PROVE  [Lease!Next]_(Lease!vars)
  <2>1. g_browserWindows[h] \in made
    BY <1>7 DEF ExternalCloseWindow, IInv, RegistrySound
  <2>2. made' = made /\ Over' = Over \union {g_browserWindows[h]}
    BY <1>7 DEF ExternalCloseWindow, Over
  <2>3. QED
    BY <1>5, <2>1, <2>2
<1>8. CASE Erased
  <2>1. target.object \in made
    BY <1>8 DEF Erased, IInv, RegistrySound
  <2>2. made' = made /\ Over' = Over \union {target.object}
    BY <1>8 DEF Erased, Over
  <2>3. QED
    BY <1>5, <2>1, <2>2
<1>9. ASSUME Stored \/ \E h \in Hwnds : RemoveBrowserWindow(h)
      PROVE  UNCHANGED Lease!vars
  <2>1. made' = made /\ Over' = Over
    BY <1>9 DEF Stored, RemoveBrowserWindow, Over
  <2>2. QED
    BY <1>4, <2>1
<1>10. QED
  BY <1>6, <1>7, <1>8, <1>9

\* A notice takes the lease of its window's object; its own answer, or the
\* end of the wait, gives it back.
LEMMA NoticeView ==
  ASSUME IInv, IInv',
         \/ \E h \in Hwnds : DocumentComplete(h)
         \/ Posted \/ ReadTimeout \/ ReadByte \/ ServiceStep
  PROVE  [Lease!Next]_(Lease!vars)
<1> USE BridgeAssumption DEF AtLoop, registry, notices, Back
<1>1. ASSUME UNCHANGED <<process, registry, closed, calls>>
      PROVE  /\ made' = made /\ Over' = Over /\ Pending' = Pending
             /\ process' = process
  BY <1>1 DEF Over, Pending
<1>2. ASSUME NEW h \in Hwnds, DocumentComplete(h)
      PROVE  Lease!Next
  <2>1. process = "up" /\ ui = "loop"
    BY <1>2 DEF DocumentComplete
  <2>2. CASE Crash
    BY <2>1, <2>2, EndView DEF Crash, Lease!Next
  <2>3. CASE ~Crash
    <3> DEFINE o == g_browserWindows[h]
    <3>1. /\ ui' = "posting"
          /\ o \notin closed \union {NoObject}
          /\ notice < MaxNotices /\ notice' = notice + 1
          /\ announced' = [announced EXCEPT ![notice + 1] = h]
          /\ UNCHANGED <<process, target, post, registry, closed, held, calls>>
      BY <1>2, <2>3 DEF DocumentComplete
    <3>2. notice \in Nat /\ MaxNotices \in Nat /\ notice + 1 \in Notices
      BY <3>1 DEF IInv, TypeOK, Notices
    <3>3. o \in made \ Over /\ o \in Objects
      BY <3>1 DEF IInv, TypeOK, RegistrySound, Over
    <3>4. LeasedObject = NoObject
      BY <2>1, NoLease
    <3>5. LeasedObject' = o
      BY <3>1, <3>2 DEF LeasedObject, IInv, TypeOK
    <3>6. Lease!Announce(o)
      BY <1>1, <2>1, <3>1, <3>3, <3>4, <3>5 DEF Lease!Announce, Lease!Unleased
    <3>7. QED
      BY <3>3, <3>6 DEF Lease!Next
  <2>4. QED
    BY <2>2, <2>3
<1>3. CASE Posted
  <2>1. /\ process = "up" /\ ui = "posting"
        /\ UNCHANGED <<process, registry, closed, calls, announced, notice>>
    BY <1>3 DEF Posted
  <2>2. LeasedObject # NoObject
    BY <2>1, LeasedIsThere
  <2>3. CASE ui' = "waiting" /\ held' = held \union {notice}
    <3>1. LeasedObject' = LeasedObject
      BY <2>1, <2>3 DEF LeasedObject
    <3>2. notice \notin held
      BY <2>1 DEF IInv, NoticesSound
    <3>3. Lease!Tell
      BY <1>1, <2>1, <2>2, <2>3, <3>1, <3>2 DEF Lease!Tell
    <3>4. QED
      BY <3>3 DEF Lease!Next
  <2>4. CASE ui' = "loop" /\ held' = held
    <3>1. LeasedObject' = NoObject
      BY <2>4 DEF LeasedObject
    <3>2. Lease!GiveUp
      BY <1>1, <2>1, <2>2, <2>4, <3>1 DEF Lease!GiveUp
    <3>3. QED
      BY <3>2 DEF Lease!Next
  <2>5. QED
    BY <1>3, <2>3, <2>4 DEF Posted
<1>4. CASE ReadTimeout
  <2>1. /\ process = "up" /\ ui = "waiting" /\ ui' = "loop"
        /\ UNCHANGED <<process, registry, closed, calls, notices>>
    BY <1>4 DEF ReadTimeout
  <2>2. LeasedObject # NoObject /\ LeasedObject' = NoObject
    BY <2>1, LeasedIsThere DEF LeasedObject
  <2>3. Lease!GiveUp
    BY <1>1, <2>1, <2>2 DEF Lease!GiveUp
  <2>4. QED
    BY <2>3 DEF Lease!Next
<1>5. ASSUME NEW n \in Notices, ServiceAnswers(n)
      PROVE  Lease!Next
  <2>1. /\ process = "up" /\ n \in held /\ held' = held \ {n}
        /\ ui' = IF ui = "waiting" /\ n = notice THEN "loop" ELSE ui
        /\ UNCHANGED <<process, registry, closed, calls, announced, notice>>
    BY <1>5 DEF ServiceAnswers
  <2>2. LeasedObject' = IF n = notice THEN NoObject ELSE LeasedObject
    <3>1. ui = "posting" => n # notice
      BY <2>1 DEF IInv, NoticesSound
    <3>2. QED
      BY <2>1, <3>1 DEF LeasedObject
  <2>3. Lease!AnswerNotice(n)
    BY <1>1, <2>1, <2>2 DEF Lease!AnswerNotice
  <2>4. QED
    BY <2>1, <2>3 DEF Lease!Next
<1>6. CASE ReadByte \/ ServiceTrickles
  <2>1. UNCHANGED <<process, ui, registry, closed, calls, notices>>
    BY <1>6 DEF ReadByte, ServiceTrickles
  <2>2. LeasedObject' = LeasedObject
    BY <2>1 DEF LeasedObject
  <2>3. QED
    BY <1>1, <2>1, <2>2 DEF Lease!vars
<1>7. QED
  BY <1>2, <1>3, <1>4, <1>5, <1>6 DEF ServiceStep

\* A call is asked and replied to; in between, its script may close a window.
LEMMA WorkerView ==
  ASSUME IInv, IInv', WorkerStep
  PROVE  [Lease!Next]_(Lease!vars)
<1> USE BridgeAssumption DEF registry, notices
<1>1. PICK w \in Workers :
        \/ \E h \in Hwnds, c \in Notices \union {Nobody} : GetBrowse(w, h, c)
        \/ CouldNotFetch(w) \/ UseBrowser(w) \/ Dispatch(w) \/ ScriptReturns(w)
        \/ \E h \in Hwnds : ScriptCloses(w, h)
  BY DEF WorkerStep
<1>2. process = "up"
  BY <1>1 DEF GetBrowse, CouldNotFetch, UseBrowser, Dispatch, ScriptReturns, ScriptCloses, AtLoop
<1>3. ASSUME UNCHANGED <<process, ui, target, post, registry, closed, notices>>
      PROVE  UNCHANGED <<process, made, made \ Over, Over, LeasedObject, held, notice>>
  BY <1>3 DEF Over, LeasedObject
<1>4. CASE \E h \in Hwnds, c \in Notices \union {Nobody} : GetBrowse(w, h, c)
  <2>1. PICK h \in Hwnds, c \in Notices \union {Nobody} : GetBrowse(w, h, c)
    BY <1>4
  <2>2. PICK o \in GetBrowserWindow(h) :
          calls' = [calls EXCEPT ![w] =
                      [stage |-> IF o = NoObject THEN "gone" ELSE "found",
                       object |-> o, cause |-> c]]
    BY <2>1 DEF GetBrowse
  <2>3. /\ UNCHANGED <<process, ui, target, post, registry, closed, notices>>
        /\ calls[w].stage = "idle"
        /\ c = Nobody \/ (c \in held /\ h = announced[c])
    BY <2>1 DEF GetBrowse
  <2>4. o \in made \union {NoObject}
    BY <2>2 DEF GetBrowserWindow, IInv, RegistrySound
  <2>5. ASSUME LeasedObject # NoObject, c = notice
        PROVE  o = LeasedObject
    <3>1. ui \in {"posting", "waiting"}
      BY <2>5, NoLease
    <3>2. c # Nobody
      BY <2>5, <3>1 DEF IInv, NoticesSound, TypeOK, Notices, Nobody
    <3>3. h = announced[notice]
      BY <2>3, <2>5, <3>2
    <3>4. QED
      BY <2>2, <3>1, <3>3 DEF GetBrowserWindow, LeasedObject
  <2>6. ~Pending[w].asked
    BY <2>3 DEF Pending
  <2>7. Pending' = [Pending EXCEPT ![w] = [asked |-> TRUE, object |-> o, cause |-> c]]
    BY <2>2 DEF Pending, IInv, TypeOK
  <2>8. Lease!Ask(w, c, o)
    BY <1>2, <1>3, <2>3, <2>4, <2>5, <2>6, <2>7 DEF Lease!Ask, Over, Nobody
  <2>9. QED
    BY <2>3, <2>4, <2>8 DEF Lease!Next, Nobody, IInv, TypeOK
<1>5. ASSUME Answer(w), calls[w].stage # "idle"
      PROVE  Lease!Next
  <2>1. Pending[w].asked
    BY <1>5 DEF Pending
  <2>2. Pending' = [Pending EXCEPT ![w] = Lease!Free]
    BY <1>5 DEF Answer, Pending, Lease!Free, NoCall, Nobody, IInv, TypeOK
  <2>3. Lease!Reply(w)
    BY <1>2, <1>3, <1>5, <2>1, <2>2 DEF Lease!Reply, Answer
  <2>4. QED
    BY <2>3 DEF Lease!Next
<1>6. CASE Crash
  BY <1>2, <1>6, EndView DEF Crash, Lease!Next
<1>7. ASSUME NEW place \in {"running", "queued"},
             calls[w].stage = "found",
             calls' = [calls EXCEPT ![w].stage = place],
             UNCHANGED <<process, ui, target, post, registry, closed, notices>>
      PROVE  UNCHANGED Lease!vars
  <2>1. Pending' = Pending
    BY <1>7 DEF Pending, IInv, TypeOK, Call
  <2>2. QED
    BY <1>3, <1>7, <2>1 DEF Lease!vars
<1>8. ASSUME NEW h \in Hwnds, ScriptCloses(w, h), ~Crash
      PROVE  [Lease!Next]_(Lease!vars)
  <2> DEFINE o == g_browserWindows[h]
  <2>1. /\ calls[w].object \in made /\ o \notin closed \union {NoObject}
        /\ closed' = closed \union {o}
        /\ UNCHANGED <<process, ui, registry, notices, calls>>
    BY <1>8 DEF ScriptCloses
  <2>2. o \in made \ Over /\ o \in Objects
    BY <2>1 DEF IInv, TypeOK, RegistrySound, Over
  <2>3. UNCHANGED <<process, LeasedObject, held, notice, Pending>>
    BY <2>1 DEF LeasedObject, Pending
  <2>4. Over' = Over \union {o} /\ made' \ Over' = (made \ Over) \ {o}
    BY <2>1 DEF Over
  <2>5. Lease!MayRunScript(w)
    BY <2>1 DEF Lease!MayRunScript, Pending, Over
  <2>6. Lease!Close(o)
    BY <1>2, <2>2, <2>3, <2>4, <2>5 DEF Lease!Close
  <2>7. QED
    BY <2>2, <2>6 DEF Lease!Next
<1>9. QED
  BY <1>1, <1>4, <1>5, <1>6, <1>7, <1>8
     DEF CouldNotFetch, UseBrowser, Dispatch, ControlClosed, ControlCalled,
         NullString, ObjectGone, ScriptReturns

LEMMA StepView == IInv /\ IInv' /\ [Next]_vars => [Lease!Next]_(Lease!vars)
<1> SUFFICES ASSUME IInv, IInv', [Next]_vars PROVE [Lease!Next]_(Lease!vars)
  OBVIOUS
<1>1. CASE UIStep
  <2>1. CASE LeaveMessageLoop
    BY <2>1, EndView DEF LeaveMessageLoop, AtLoop, Lease!Next
  <2>2. CASE ~LeaveMessageLoop
    BY <1>1, <2>2, RegistryView, NoticeView DEF UIStep
  <2>3. QED
    BY <2>1, <2>2
<1>2. CASE WorkerStep
  BY <1>2, WorkerView
<1>3. CASE LookupRaced
  BY <1>3, EndView DEF LookupRaced, Crash, Lease!Next
<1>4. CASE ServiceStep
  BY <1>4, NoticeView
<1>5. CASE UNCHANGED vars
  <2>1. UNCHANGED <<process, made, Over, LeasedObject, notice, held, Pending>>
    BY <1>5 DEF vars, registry, notices, post, Over, LeasedObject, Pending
  <2>2. QED
    BY <2>1 DEF Lease!vars
<1>6. QED
  BY <1>1, <1>2, <1>3, <1>4, <1>5 DEF Next

\* UI thread, registry, workers and service implement WindowLease, for any
\* number of each: windows open only between the waits for a service, and close
\* there or by the script of a call under way, a notice is answered to the wait that belongs to it, and a call made for it
\* reaches its object (browser_events2.cpp:322-331, web_server.cpp:88-102).
THEOREM BridgeImplementsLease == Spec => ImplementsLease
<1>1. Init => Lease!Init
  BY InitView
<1>2. IInv /\ IInv' /\ [Next]_vars => [Lease!Next]_(Lease!vars)
  BY StepView
<1>3. QED
  BY <1>1, <1>2, Invariance, PTL DEF Spec, ImplementsLease, Lease!Spec

-----------------------------------------------------------------------------
(***************************************************************************)
(* The way of a message and of a call to their ends.                       *)
(***************************************************************************)
LEMMA LeftAtPlace ==
  /\ UILeft("loop") = 0
  /\ UILeft("storing") = 1 /\ UILeft("erasing") = 1 /\ UILeft("waiting") = 1
  /\ UILeft("posting") = 2
  /\ CallLeft("idle") = 0 /\ CallLeft("gone") = 1
  /\ CallLeft("running") = 1 /\ CallLeft("queued") = 1
  /\ CallLeft("found") = 2
BY DEF UILeft, CallLeft

LEMMA MessageGoesOn ==
  ASSUME TypeOK, Next, process' = "up", ui # "loop"
  PROVE  ui' = ui \/ UILeft(ui') < UILeft(ui)
<1>1. CASE UIStep
  <2>1. \/ ui = "storing" /\ ui' = "loop"
        \/ ui = "erasing" /\ ui' = "loop"
        \/ ui = "posting" /\ ui' \in {"waiting", "loop"}
        \/ ui = "waiting" /\ ui' \in {"waiting", "loop"}
    BY <1>1 DEF UIStep, StoreBrowserWindow, RemoveBrowserWindow, ExternalCloseWindow,
                DocumentComplete, LeaveMessageLoop, AtLoop, Stored, Erased, Posted, Back,
                ReadTimeout, ReadByte
  <2>2. QED
    BY <2>1, LeftAtPlace
<1>2. CASE WorkerStep \/ LookupRaced
  BY <1>2 DEF WorkerStep, LookupRaced, GetBrowse, CouldNotFetch, UseBrowser, Dispatch,
              ControlClosed, ControlCalled, NullString, ObjectGone, ScriptReturns, ScriptCloses,
              Answer, Crash, End
<1>3. CASE ServiceStep
  BY <1>3, LeftAtPlace DEF ServiceStep, ServiceTrickles, ServiceAnswers, Back
<1>4. QED
  BY <1>1, <1>2, <1>3 DEF Next

LEMMA CallGoesOn ==
  ASSUME TypeOK, Next, process' = "up", NEW w \in Workers, calls[w].stage # "idle"
  PROVE  calls'[w] = calls[w] \/ CallLeft(calls'[w].stage) < CallLeft(calls[w].stage)
<1>1. /\ calls \in [Workers -> Call]
      /\ calls[w].stage \in {"found", "running", "queued", "gone"}
      /\ CallLeft(NoCall.stage) = 0
  BY LeftAtPlace DEF TypeOK, Call, NoCall
<1>2. CASE WorkerStep
  <2>1. PICK v \in Workers :
          \/ \E h \in Hwnds, c \in Notices \union {Nobody} : GetBrowse(v, h, c)
          \/ CouldNotFetch(v) \/ UseBrowser(v) \/ Dispatch(v) \/ ScriptReturns(v)
          \/ \E h \in Hwnds : ScriptCloses(v, h)
    BY <1>2 DEF WorkerStep
  <2>2. CASE v # w
    BY <1>1, <2>1, <2>2 DEF GetBrowse, CouldNotFetch, UseBrowser, Dispatch, ControlClosed,
         ControlCalled, NullString, ObjectGone, ScriptReturns, ScriptCloses, Answer, Crash, End
  <2>3. CASE v = w
    <3>1. ASSUME Answer(w) PROVE CallLeft(calls'[w].stage) < CallLeft(calls[w].stage)
      <4>1. calls'[w] = NoCall
        BY <1>1, <3>1 DEF Answer
      <4>2. CallLeft(calls'[w].stage) = 0
        BY <1>1, <4>1
      <4>3. CallLeft(calls[w].stage) \in {1, 2}
        BY <1>1, LeftAtPlace
      <4>4. QED
        BY <4>2, <4>3
    <3>2. \/ Answer(w)
          \/ calls' = calls
          \/ /\ calls[w].stage = "found"
             /\ \E place \in {"running", "queued"} : calls' = [calls EXCEPT ![w].stage = place]
      BY <1>1, <2>1, <2>3 DEF GetBrowse, CouldNotFetch, UseBrowser, Dispatch, ControlClosed,
           ControlCalled, NullString, ObjectGone, ScriptReturns, ScriptCloses, Crash, End
    <3>3. ASSUME calls[w].stage = "found",
                 NEW place \in {"running", "queued"}, calls' = [calls EXCEPT ![w].stage = place]
          PROVE  CallLeft(calls'[w].stage) < CallLeft(calls[w].stage)
      <4>1. calls'[w].stage = place
        BY <1>1, <3>3 DEF Call
      <4>2. QED
        BY <3>3, <4>1, LeftAtPlace
    <3>4. QED
      BY <3>1, <3>2, <3>3
  <2>4. QED
    BY <2>2, <2>3
<1>3. CASE UIStep \/ LookupRaced
  BY <1>3 DEF UIStep, StoreBrowserWindow, RemoveBrowserWindow, ExternalCloseWindow,
              DocumentComplete, LeaveMessageLoop, Stored, Erased, Posted,
              ReadTimeout, ReadByte, LookupRaced, Crash, End
<1>4. CASE ServiceStep
  BY <1>4 DEF ServiceStep, ServiceTrickles, ServiceAnswers
<1>5. QED
  BY <1>2, <1>3, <1>4 DEF Next

\* The UI thread and the calls only go on, whatever the service does, for any
\* windows, workers and notices.
THEOREM BridgeOnlyRunsDown == Spec => BridgeRunsDown
<1>1. TypeOK /\ [Next]_vars =>
        [process' = "up" =>
           /\ ui # "loop" => ui' = ui \/ UILeft(ui') < UILeft(ui)
           /\ \A w \in Workers :
                calls[w].stage # "idle" =>
                  \/ calls'[w] = calls[w]
                  \/ CallLeft(calls'[w].stage) < CallLeft(calls[w].stage)]_vars
  BY MessageGoesOn, CallGoesOn
<1>2. QED
  BY <1>1, TypeCorrect, PTL DEF Spec, BridgeRunsDown

================================================================================
