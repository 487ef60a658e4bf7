------------------------- MODULE Application_proofs -------------------------
(***************************************************************************)
(* Proofs about Application: types, the instance mutex and the end of each *)
(* process, for any number of processes.  IInv is shown to be preserved    *)
(* group by group: what CreateMutex and the end of a process change, and   *)
(* what the window and its CMiniblink change, have little in common.       *)
(***************************************************************************)
EXTENDS Application, TLAPS

\* IInv holds at the start.
LEMMA InitIInv == Init => IInv
<1> SUFFICES ASSUME Init PROVE IInv
  OBVIOUS
<1> USE DEF Init, Over
<1>1. TypeOK
  <2>1. resumed \subseteq Processes /\ asked \subseteq Processes
    BY Zenon
  <2>2. /\ tries \in [Processes -> 0..MaxTries]
        /\ boxes \in [Processes -> 0..MaxBoxes]
        /\ posted \in [Processes -> 0..MaxPosted]
        /\ counter \in [Processes -> Int]
    BY ApplicationAssumption
  <2>3. settings \in [engine : {"msie", "mb"}, instance : BOOLEAN, startup : BOOLEAN]
    BY Zenon
  <2>4. QED
    BY <2>1, <2>2, <2>3, Zenon DEF TypeOK
<1>2. FirstIsUnique /\ MutexInv
  BY DEF FirstIsUnique, MutexInv
<1>3. StageInv /\ CounterInv
  BY ApplicationAssumption DEF StageInv, CounterInv
<1>4. QuitInv /\ PostedInv /\ NoGhostProcess /\ MsieLeavesNoIcon /\ CloseIsNotLost
  BY ApplicationAssumption DEF QuitInv, PostedInv, NoGhostProcess, MsieLeavesNoIcon, CloseIsNotLost
<1>5. QED
  BY <1>1, <1>2, <1>3, <1>4 DEF IInv

\* Every step keeps the types.
LEMMA NextTypeOK ==
  ASSUME IInv, [Next]_vars
  PROVE  TypeOK'
<1> USE ApplicationAssumption DEF TypeOK, IInv, StageInv, Over, miniblink, scripts
<1>1. ASSUME NEW p \in Processes, Start(p) PROVE TypeOK'
  BY <1>1 DEF Start, GoTo
<1>2. ASSUME NEW p \in Processes, Exec(p) PROVE TypeOK'
  <2>1. CASE program' = [program EXCEPT ![p] = "running"] /\ GoTo(p, "instance") /\ UNCHANGED tries
    BY <1>2, <2>1 DEF Exec, GoTo
  <2>2. CASE tries' = [tries EXCEPT ![p] = @ + 1] /\ GoTo(p, "instance") /\ UNCHANGED program
    BY <1>2, <2>2 DEF Exec, GoTo
  <2>3. CASE tries' = [tries EXCEPT ![p] = @ + 1] /\ tries'[p] # MaxTries /\ UNCHANGED <<pc, program>>
    BY <1>2, <2>3 DEF Exec
  <2>4. QED
    BY <1>2, <2>1, <2>2, <2>3 DEF Exec
<1>3. ASSUME NEW p \in Processes, CheckInstance(p) PROVE TypeOK'
  BY <1>3 DEF CheckInstance, GoTo, CreateMutex
<1>4. ASSUME NEW p \in Processes, FindWindow(p) PROVE TypeOK'
  BY <1>4 DEF FindWindow, GoTo
<1>5. ASSUME NEW p \in Processes, EngineFails(p) PROVE TypeOK'
  BY <1>5 DEF EngineFails, EndProcess, CreateWindow, GoTo
<1>6. ASSUME NEW p \in Processes, StartEngine(p) PROVE TypeOK'
  BY <1>6 DEF StartEngine, CreateWindow, GoTo
<1>7. ASSUME NEW p \in Processes, StartWebServer(p) PROVE TypeOK'
  BY <1>7 DEF StartWebServer, GoTo
<1>8. ASSUME NEW p \in Processes, BindPort(p) PROVE TypeOK'
  BY <1>8 DEF BindPort
<1>9. ASSUME NEW p \in Processes, EnterMessageLoop(p) PROVE TypeOK'
  BY <1>9 DEF EnterMessageLoop, GoTo
<1>10. ASSUME NEW p \in Processes, CloseButton(p) PROVE TypeOK'
  BY <1>10 DEF CloseButton, Dispatches, DestroyWindow, LastWindowGone, DestroyMiniblink
<1>11. ASSUME NEW p \in Processes, PageCloses(p) PROVE TypeOK'
  BY <1>11 DEF PageCloses, ScriptRuns
<1>12. ASSUME NEW p \in Processes, DispatchClose(p) PROVE TypeOK'
  BY <1>12 DEF DispatchClose, Dispatches, DestroyWindow, LastWindowGone, DestroyMiniblink
<1>13. ASSUME NEW p \in Processes, OpenBox(p) PROVE TypeOK'
  BY <1>13 DEF OpenBox, ScriptRuns, CallbackGuard
<1>14. ASSUME NEW p \in Processes, CloseBox(p) PROVE TypeOK'
  BY <1>14 DEF CloseBox, Dispatches
<1>15. ASSUME NEW p \in Processes, ScriptReturns(p) PROVE TypeOK'
  BY <1>15 DEF ScriptReturns
<1>16. ASSUME NEW p \in Processes, LeaveMessageLoop(p) PROVE TypeOK'
  BY <1>16 DEF LeaveMessageLoop, Dispatches, EndProcess, GoTo
<1>17. ASSUME NEW p \in Processes, Kill(p) PROVE TypeOK'
  BY <1>17 DEF Kill, EndProcess, GoTo
<1>18. ASSUME NEW p \in Processes, FatalErrorExits(p) PROVE TypeOK'
  BY <1>18 DEF FatalErrorExits, EndProcess, GoTo
<1>19. CASE UNCHANGED vars
  BY <1>19 DEF vars
<1>20. QED
  BY <1>1, <1>2, <1>3, <1>4, <1>5, <1>6, <1>7, <1>8, <1>9, <1>10, <1>11, <1>12, <1>13, <1>14, <1>15, <1>16, <1>17, <1>18, <1>19 DEF Next

\* Who takes the mutex while nobody holds it is the only first one alive.
LEMMA NextMutex ==
  ASSUME IInv, [Next]_vars
  PROVE  (FirstIsUnique /\ MutexInv)'
<1> USE DEF TypeOK, IInv, FirstIsUnique, MutexInv, Alive, Over, miniblink, scripts
<1>1. ASSUME NEW p \in Processes, Start(p) PROVE (FirstIsUnique /\ MutexInv)'
  BY <1>1 DEF Start, GoTo
<1>2. ASSUME NEW p \in Processes, Exec(p) PROVE (FirstIsUnique /\ MutexInv)'
  <2>1. CASE program' = [program EXCEPT ![p] = "running"] /\ GoTo(p, "instance") /\ UNCHANGED tries
    BY <1>2, <2>1 DEF Exec, GoTo
  <2>2. CASE tries' = [tries EXCEPT ![p] = @ + 1] /\ GoTo(p, "instance") /\ UNCHANGED program
    BY <1>2, <2>2 DEF Exec, GoTo
  <2>3. CASE tries' = [tries EXCEPT ![p] = @ + 1] /\ tries'[p] # MaxTries /\ UNCHANGED <<pc, program>>
    BY <1>2, <2>3 DEF Exec
  <2>4. QED
    BY <1>2, <2>1, <2>2, <2>3 DEF Exec
<1>3. ASSUME NEW p \in Processes, CheckInstance(p) PROVE (FirstIsUnique /\ MutexInv)'
  BY <1>3 DEF CheckInstance, GoTo, CreateMutex
<1>4. ASSUME NEW p \in Processes, FindWindow(p) PROVE (FirstIsUnique /\ MutexInv)'
  BY <1>4 DEF FindWindow, GoTo
<1>5. ASSUME NEW p \in Processes, EngineFails(p) PROVE (FirstIsUnique /\ MutexInv)'
  BY <1>5 DEF EngineFails, EndProcess, CreateWindow, GoTo
<1>6. ASSUME NEW p \in Processes, StartEngine(p) PROVE (FirstIsUnique /\ MutexInv)'
  BY <1>6 DEF StartEngine, CreateWindow, GoTo
<1>7. ASSUME NEW p \in Processes, StartWebServer(p) PROVE (FirstIsUnique /\ MutexInv)'
  BY <1>7 DEF StartWebServer, GoTo
<1>8. ASSUME NEW p \in Processes, BindPort(p) PROVE (FirstIsUnique /\ MutexInv)'
  BY <1>8 DEF BindPort
<1>9. ASSUME NEW p \in Processes, EnterMessageLoop(p) PROVE (FirstIsUnique /\ MutexInv)'
  BY <1>9 DEF EnterMessageLoop, GoTo
<1>10. ASSUME NEW p \in Processes, CloseButton(p) PROVE (FirstIsUnique /\ MutexInv)'
  BY <1>10 DEF CloseButton, Dispatches, DestroyWindow, LastWindowGone, DestroyMiniblink
<1>11. ASSUME NEW p \in Processes, PageCloses(p) PROVE (FirstIsUnique /\ MutexInv)'
  BY <1>11 DEF PageCloses, ScriptRuns
<1>12. ASSUME NEW p \in Processes, DispatchClose(p) PROVE (FirstIsUnique /\ MutexInv)'
  BY <1>12 DEF DispatchClose, Dispatches, DestroyWindow, LastWindowGone, DestroyMiniblink
<1>13. ASSUME NEW p \in Processes, OpenBox(p) PROVE (FirstIsUnique /\ MutexInv)'
  BY <1>13 DEF OpenBox, ScriptRuns, CallbackGuard
<1>14. ASSUME NEW p \in Processes, CloseBox(p) PROVE (FirstIsUnique /\ MutexInv)'
  BY <1>14 DEF CloseBox, Dispatches
<1>15. ASSUME NEW p \in Processes, ScriptReturns(p) PROVE (FirstIsUnique /\ MutexInv)'
  BY <1>15 DEF ScriptReturns
<1>16. ASSUME NEW p \in Processes, LeaveMessageLoop(p) PROVE (FirstIsUnique /\ MutexInv)'
  BY <1>16 DEF LeaveMessageLoop, Dispatches, EndProcess, GoTo
<1>17. ASSUME NEW p \in Processes, Kill(p) PROVE (FirstIsUnique /\ MutexInv)'
  BY <1>17 DEF Kill, EndProcess, GoTo
<1>18. ASSUME NEW p \in Processes, FatalErrorExits(p) PROVE (FirstIsUnique /\ MutexInv)'
  BY <1>18 DEF FatalErrorExits, EndProcess, GoTo
<1>19. CASE UNCHANGED vars
  BY <1>19 DEF vars
<1>20. QED
  BY <1>1, <1>2, <1>3, <1>4, <1>5, <1>6, <1>7, <1>8, <1>9, <1>10, <1>11, <1>12, <1>13, <1>14, <1>15, <1>16, <1>17, <1>18, <1>19 DEF Next

\* The window follows the place in wWinMain.
LEMMA NextStage ==
  ASSUME IInv, [Next]_vars
  PROVE  StageInv'
<1> USE ApplicationAssumption DEF TypeOK, IInv, StageInv, Over, miniblink, scripts
<1>1. ASSUME NEW p \in Processes, Start(p) PROVE StageInv'
  BY <1>1 DEF Start, GoTo
<1>2. ASSUME NEW p \in Processes, Exec(p) PROVE StageInv'
  <2>1. CASE program' = [program EXCEPT ![p] = "running"] /\ GoTo(p, "instance") /\ UNCHANGED tries
    BY <1>2, <2>1 DEF Exec, GoTo
  <2>2. CASE tries' = [tries EXCEPT ![p] = @ + 1] /\ GoTo(p, "instance") /\ UNCHANGED program
    BY <1>2, <2>2 DEF Exec, GoTo
  <2>3. CASE tries' = [tries EXCEPT ![p] = @ + 1] /\ tries'[p] # MaxTries /\ UNCHANGED <<pc, program>>
    BY <1>2, <2>3 DEF Exec
  <2>4. QED
    BY <1>2, <2>1, <2>2, <2>3 DEF Exec
<1>3. ASSUME NEW p \in Processes, CheckInstance(p) PROVE StageInv'
  BY <1>3 DEF CheckInstance, GoTo, CreateMutex
<1>4. ASSUME NEW p \in Processes, FindWindow(p) PROVE StageInv'
  BY <1>4 DEF FindWindow, GoTo
<1>5. ASSUME NEW p \in Processes, EngineFails(p) PROVE StageInv'
  BY <1>5 DEF EngineFails, EndProcess, CreateWindow, GoTo
<1>6. ASSUME NEW p \in Processes, StartEngine(p) PROVE StageInv'
  BY <1>6 DEF StartEngine, CreateWindow, GoTo
<1>7. ASSUME NEW p \in Processes, StartWebServer(p) PROVE StageInv'
  BY <1>7 DEF StartWebServer, GoTo
<1>8. ASSUME NEW p \in Processes, BindPort(p) PROVE StageInv'
  BY <1>8 DEF BindPort
<1>9. ASSUME NEW p \in Processes, EnterMessageLoop(p) PROVE StageInv'
  BY <1>9 DEF EnterMessageLoop, GoTo
<1>10. ASSUME NEW p \in Processes, CloseButton(p) PROVE StageInv'
  BY <1>10 DEF CloseButton, Dispatches, DestroyWindow, LastWindowGone, DestroyMiniblink
<1>11. ASSUME NEW p \in Processes, PageCloses(p) PROVE StageInv'
  BY <1>11 DEF PageCloses, ScriptRuns
<1>12. ASSUME NEW p \in Processes, DispatchClose(p) PROVE StageInv'
  BY <1>12 DEF DispatchClose, Dispatches, DestroyWindow, LastWindowGone, DestroyMiniblink
<1>13. ASSUME NEW p \in Processes, OpenBox(p) PROVE StageInv'
  BY <1>13 DEF OpenBox, ScriptRuns, CallbackGuard
<1>14. ASSUME NEW p \in Processes, CloseBox(p) PROVE StageInv'
  BY <1>14 DEF CloseBox, Dispatches
<1>15. ASSUME NEW p \in Processes, ScriptReturns(p) PROVE StageInv'
  BY <1>15 DEF ScriptReturns
<1>16. ASSUME NEW p \in Processes, LeaveMessageLoop(p) PROVE StageInv'
  BY <1>16 DEF LeaveMessageLoop, Dispatches, EndProcess, GoTo
<1>17. ASSUME NEW p \in Processes, Kill(p) PROVE StageInv'
  BY <1>17 DEF Kill, EndProcess, GoTo
<1>18. ASSUME NEW p \in Processes, FatalErrorExits(p) PROVE StageInv'
  BY <1>18 DEF FatalErrorExits, EndProcess, GoTo
<1>19. CASE UNCHANGED vars
  BY <1>19 DEF vars
<1>20. QED
  BY <1>1, <1>2, <1>3, <1>4, <1>5, <1>6, <1>7, <1>8, <1>9, <1>10, <1>11, <1>12, <1>13, <1>14, <1>15, <1>16, <1>17, <1>18, <1>19 DEF Next

\* The counter of CMiniblink follows the window.
LEMMA NextCounter ==
  ASSUME IInv, [Next]_vars
  PROVE  CounterInv'
<1> USE DEF TypeOK, IInv, StageInv, CounterInv, Over, miniblink, scripts
<1>1. ASSUME NEW p \in Processes, Start(p) PROVE CounterInv'
  BY <1>1 DEF Start, GoTo
<1>2. ASSUME NEW p \in Processes, Exec(p) PROVE CounterInv'
  BY <1>2 DEF Exec, GoTo
<1>3. ASSUME NEW p \in Processes, CheckInstance(p) PROVE CounterInv'
  BY <1>3 DEF CheckInstance, GoTo, CreateMutex
<1>4. ASSUME NEW p \in Processes, FindWindow(p) PROVE CounterInv'
  BY <1>4 DEF FindWindow, GoTo
<1>5. ASSUME NEW p \in Processes, EngineFails(p) PROVE CounterInv'
  BY <1>5 DEF EngineFails, EndProcess, CreateWindow, GoTo
<1>6. ASSUME NEW p \in Processes, StartEngine(p) PROVE CounterInv'
  BY <1>6 DEF StartEngine, CreateWindow, GoTo
<1>7. ASSUME NEW p \in Processes, StartWebServer(p) PROVE CounterInv'
  BY <1>7 DEF StartWebServer, GoTo
<1>8. ASSUME NEW p \in Processes, BindPort(p) PROVE CounterInv'
  BY <1>8 DEF BindPort
<1>9. ASSUME NEW p \in Processes, EnterMessageLoop(p) PROVE CounterInv'
  BY <1>9 DEF EnterMessageLoop, GoTo
<1>10. ASSUME NEW p \in Processes, CloseButton(p) PROVE CounterInv'
  BY <1>10 DEF CloseButton, Dispatches, DestroyWindow, LastWindowGone, DestroyMiniblink
<1>11. ASSUME NEW p \in Processes, PageCloses(p) PROVE CounterInv'
  BY <1>11 DEF PageCloses, ScriptRuns
<1>12. ASSUME NEW p \in Processes, DispatchClose(p) PROVE CounterInv'
  BY <1>12 DEF DispatchClose, Dispatches, DestroyWindow, LastWindowGone, DestroyMiniblink
<1>13. ASSUME NEW p \in Processes, OpenBox(p) PROVE CounterInv'
  BY <1>13 DEF OpenBox, ScriptRuns, CallbackGuard
<1>14. ASSUME NEW p \in Processes, CloseBox(p) PROVE CounterInv'
  BY <1>14 DEF CloseBox, Dispatches
<1>15. ASSUME NEW p \in Processes, ScriptReturns(p) PROVE CounterInv'
  BY <1>15 DEF ScriptReturns
<1>16. ASSUME NEW p \in Processes, LeaveMessageLoop(p) PROVE CounterInv'
  BY <1>16 DEF LeaveMessageLoop, Dispatches, EndProcess, GoTo
<1>17. ASSUME NEW p \in Processes, Kill(p) PROVE CounterInv'
  BY <1>17 DEF Kill, EndProcess, GoTo
<1>18. ASSUME NEW p \in Processes, FatalErrorExits(p) PROVE CounterInv'
  BY <1>18 DEF FatalErrorExits, EndProcess, GoTo
<1>19. CASE UNCHANGED vars
  BY <1>19 DEF vars
<1>20. QED
  BY <1>1, <1>2, <1>3, <1>4, <1>5, <1>6, <1>7, <1>8, <1>9, <1>10, <1>11, <1>12, <1>13, <1>14, <1>15, <1>16, <1>17, <1>18, <1>19 DEF Next

\* Whoever destroys the window asks for the end.
LEMMA NextGone ==
  ASSUME IInv, [Next]_vars
  PROVE  NoGhostProcess'
<1> USE DEF TypeOK, IInv, StageInv, CounterInv, NoGhostProcess, Over, miniblink, scripts
<1>1. ASSUME NEW p \in Processes, Start(p) PROVE NoGhostProcess'
  BY <1>1 DEF Start, GoTo
<1>2. ASSUME NEW p \in Processes, Exec(p) PROVE NoGhostProcess'
  BY <1>2 DEF Exec, GoTo
<1>3. ASSUME NEW p \in Processes, CheckInstance(p) PROVE NoGhostProcess'
  BY <1>3 DEF CheckInstance, GoTo, CreateMutex
<1>4. ASSUME NEW p \in Processes, FindWindow(p) PROVE NoGhostProcess'
  BY <1>4 DEF FindWindow, GoTo
<1>5. ASSUME NEW p \in Processes, EngineFails(p) PROVE NoGhostProcess'
  BY <1>5 DEF EngineFails, EndProcess, CreateWindow, GoTo
<1>6. ASSUME NEW p \in Processes, StartEngine(p) PROVE NoGhostProcess'
  BY <1>6 DEF StartEngine, CreateWindow, GoTo
<1>7. ASSUME NEW p \in Processes, StartWebServer(p) PROVE NoGhostProcess'
  BY <1>7 DEF StartWebServer, GoTo
<1>8. ASSUME NEW p \in Processes, BindPort(p) PROVE NoGhostProcess'
  BY <1>8 DEF BindPort
<1>9. ASSUME NEW p \in Processes, EnterMessageLoop(p) PROVE NoGhostProcess'
  BY <1>9 DEF EnterMessageLoop, GoTo
<1>10. ASSUME NEW p \in Processes, CloseButton(p) PROVE NoGhostProcess'
  BY <1>10 DEF CloseButton, Dispatches, DestroyWindow, LastWindowGone, DestroyMiniblink
<1>11. ASSUME NEW p \in Processes, PageCloses(p) PROVE NoGhostProcess'
  BY <1>11 DEF PageCloses, ScriptRuns
<1>12. ASSUME NEW p \in Processes, DispatchClose(p) PROVE NoGhostProcess'
  BY <1>12 DEF DispatchClose, Dispatches, DestroyWindow, LastWindowGone, DestroyMiniblink
<1>13. ASSUME NEW p \in Processes, OpenBox(p) PROVE NoGhostProcess'
  BY <1>13 DEF OpenBox, ScriptRuns, CallbackGuard
<1>14. ASSUME NEW p \in Processes, CloseBox(p) PROVE NoGhostProcess'
  BY <1>14 DEF CloseBox, Dispatches
<1>15. ASSUME NEW p \in Processes, ScriptReturns(p) PROVE NoGhostProcess'
  BY <1>15 DEF ScriptReturns
<1>16. ASSUME NEW p \in Processes, LeaveMessageLoop(p) PROVE NoGhostProcess'
  BY <1>16 DEF LeaveMessageLoop, Dispatches, EndProcess, GoTo
<1>17. ASSUME NEW p \in Processes, Kill(p) PROVE NoGhostProcess'
  BY <1>17 DEF Kill, EndProcess, GoTo
<1>18. ASSUME NEW p \in Processes, FatalErrorExits(p) PROVE NoGhostProcess'
  BY <1>18 DEF FatalErrorExits, EndProcess, GoTo
<1>19. CASE UNCHANGED vars
  BY <1>19 DEF vars
<1>20. QED
  BY <1>1, <1>2, <1>3, <1>4, <1>5, <1>6, <1>7, <1>8, <1>9, <1>10, <1>11, <1>12, <1>13, <1>14, <1>15, <1>16, <1>17, <1>18, <1>19 DEF Next

\* WM_CLOSE is posted to a window that stands, and goes with it.
LEMMA NextPosted ==
  ASSUME IInv, [Next]_vars
  PROVE  PostedInv'
<1> USE DEF TypeOK, IInv, StageInv, PostedInv, Over, miniblink, scripts
<1>1. ASSUME NEW p \in Processes, Start(p) PROVE PostedInv'
  BY <1>1 DEF Start, GoTo
<1>2. ASSUME NEW p \in Processes, Exec(p) PROVE PostedInv'
  BY <1>2 DEF Exec, GoTo
<1>3. ASSUME NEW p \in Processes, CheckInstance(p) PROVE PostedInv'
  BY <1>3 DEF CheckInstance, GoTo, CreateMutex
<1>4. ASSUME NEW p \in Processes, FindWindow(p) PROVE PostedInv'
  BY <1>4 DEF FindWindow, GoTo
<1>5. ASSUME NEW p \in Processes, EngineFails(p) PROVE PostedInv'
  BY <1>5 DEF EngineFails, EndProcess, CreateWindow, GoTo
<1>6. ASSUME NEW p \in Processes, StartEngine(p) PROVE PostedInv'
  BY <1>6 DEF StartEngine, CreateWindow, GoTo
<1>7. ASSUME NEW p \in Processes, StartWebServer(p) PROVE PostedInv'
  BY <1>7 DEF StartWebServer, GoTo
<1>8. ASSUME NEW p \in Processes, BindPort(p) PROVE PostedInv'
  BY <1>8 DEF BindPort
<1>9. ASSUME NEW p \in Processes, EnterMessageLoop(p) PROVE PostedInv'
  BY <1>9 DEF EnterMessageLoop, GoTo
<1>10. ASSUME NEW p \in Processes, CloseButton(p) PROVE PostedInv'
  BY <1>10 DEF CloseButton, Dispatches, DestroyWindow, LastWindowGone, DestroyMiniblink
<1>11. ASSUME NEW p \in Processes, PageCloses(p) PROVE PostedInv'
  BY <1>11 DEF PageCloses, ScriptRuns
<1>12. ASSUME NEW p \in Processes, DispatchClose(p) PROVE PostedInv'
  BY <1>12 DEF DispatchClose, Dispatches, DestroyWindow, LastWindowGone, DestroyMiniblink
<1>13. ASSUME NEW p \in Processes, OpenBox(p) PROVE PostedInv'
  BY <1>13 DEF OpenBox, ScriptRuns, CallbackGuard
<1>14. ASSUME NEW p \in Processes, CloseBox(p) PROVE PostedInv'
  BY <1>14 DEF CloseBox, Dispatches
<1>15. ASSUME NEW p \in Processes, ScriptReturns(p) PROVE PostedInv'
  BY <1>15 DEF ScriptReturns
<1>16. ASSUME NEW p \in Processes, LeaveMessageLoop(p) PROVE PostedInv'
  BY <1>16 DEF LeaveMessageLoop, Dispatches, EndProcess, GoTo
<1>17. ASSUME NEW p \in Processes, Kill(p) PROVE PostedInv'
  BY <1>17 DEF Kill, EndProcess, GoTo
<1>18. ASSUME NEW p \in Processes, FatalErrorExits(p) PROVE PostedInv'
  BY <1>18 DEF FatalErrorExits, EndProcess, GoTo
<1>19. CASE UNCHANGED vars
  BY <1>19 DEF vars
<1>20. QED
  BY <1>1, <1>2, <1>3, <1>4, <1>5, <1>6, <1>7, <1>8, <1>9, <1>10, <1>11, <1>12, <1>13, <1>14, <1>15, <1>16, <1>17, <1>18, <1>19 DEF Next

\* The icon goes before the end is asked for.
LEMMA NextQuit ==
  ASSUME IInv, [Next]_vars
  PROVE  (QuitInv /\ MsieLeavesNoIcon)'
<1> USE DEF TypeOK, IInv, StageInv, CounterInv, QuitInv, MsieLeavesNoIcon, Over, miniblink, scripts
<1>1. ASSUME NEW p \in Processes, Start(p) PROVE (QuitInv /\ MsieLeavesNoIcon)'
  BY <1>1 DEF Start, GoTo
<1>2. ASSUME NEW p \in Processes, Exec(p) PROVE (QuitInv /\ MsieLeavesNoIcon)'
  BY <1>2 DEF Exec, GoTo
<1>3. ASSUME NEW p \in Processes, CheckInstance(p) PROVE (QuitInv /\ MsieLeavesNoIcon)'
  BY <1>3 DEF CheckInstance, GoTo, CreateMutex
<1>4. ASSUME NEW p \in Processes, FindWindow(p) PROVE (QuitInv /\ MsieLeavesNoIcon)'
  BY <1>4 DEF FindWindow, GoTo
<1>5. ASSUME NEW p \in Processes, EngineFails(p) PROVE (QuitInv /\ MsieLeavesNoIcon)'
  BY <1>5 DEF EngineFails, EndProcess, CreateWindow, GoTo
<1>6. ASSUME NEW p \in Processes, StartEngine(p) PROVE (QuitInv /\ MsieLeavesNoIcon)'
  BY <1>6 DEF StartEngine, CreateWindow, GoTo
<1>7. ASSUME NEW p \in Processes, StartWebServer(p) PROVE (QuitInv /\ MsieLeavesNoIcon)'
  BY <1>7 DEF StartWebServer, GoTo
<1>8. ASSUME NEW p \in Processes, BindPort(p) PROVE (QuitInv /\ MsieLeavesNoIcon)'
  BY <1>8 DEF BindPort
<1>9. ASSUME NEW p \in Processes, EnterMessageLoop(p) PROVE (QuitInv /\ MsieLeavesNoIcon)'
  BY <1>9 DEF EnterMessageLoop, GoTo
<1>10. ASSUME NEW p \in Processes, CloseButton(p) PROVE (QuitInv /\ MsieLeavesNoIcon)'
  BY <1>10 DEF CloseButton, Dispatches, DestroyWindow, LastWindowGone, DestroyMiniblink
<1>11. ASSUME NEW p \in Processes, PageCloses(p) PROVE (QuitInv /\ MsieLeavesNoIcon)'
  BY <1>11 DEF PageCloses, ScriptRuns
<1>12. ASSUME NEW p \in Processes, DispatchClose(p) PROVE (QuitInv /\ MsieLeavesNoIcon)'
  BY <1>12 DEF DispatchClose, Dispatches, DestroyWindow, LastWindowGone, DestroyMiniblink
<1>13. ASSUME NEW p \in Processes, OpenBox(p) PROVE (QuitInv /\ MsieLeavesNoIcon)'
  BY <1>13 DEF OpenBox, ScriptRuns, CallbackGuard
<1>14. ASSUME NEW p \in Processes, CloseBox(p) PROVE (QuitInv /\ MsieLeavesNoIcon)'
  BY <1>14 DEF CloseBox, Dispatches
<1>15. ASSUME NEW p \in Processes, ScriptReturns(p) PROVE (QuitInv /\ MsieLeavesNoIcon)'
  BY <1>15 DEF ScriptReturns
<1>16. ASSUME NEW p \in Processes, LeaveMessageLoop(p) PROVE (QuitInv /\ MsieLeavesNoIcon)'
  BY <1>16 DEF LeaveMessageLoop, Dispatches, EndProcess, GoTo
<1>17. ASSUME NEW p \in Processes, Kill(p) PROVE (QuitInv /\ MsieLeavesNoIcon)'
  BY <1>17 DEF Kill, EndProcess, GoTo
<1>18. ASSUME NEW p \in Processes, FatalErrorExits(p) PROVE (QuitInv /\ MsieLeavesNoIcon)'
  BY <1>18 DEF FatalErrorExits, EndProcess, GoTo
<1>19. CASE UNCHANGED vars
  BY <1>19 DEF vars
<1>20. QED
  BY <1>1, <1>2, <1>3, <1>4, <1>5, <1>6, <1>7, <1>8, <1>9, <1>10, <1>11, <1>12, <1>13, <1>14, <1>15, <1>16, <1>17, <1>18, <1>19 DEF Next

\* The guard of the callbacks keeps them off a destroyed view.
LEMMA NextAsked ==
  ASSUME IInv, [Next]_vars
  PROVE  CloseIsNotLost'
<1> USE DEF TypeOK, IInv, StageInv, CounterInv, NoGhostProcess, CloseIsNotLost, Alive, Over,
        miniblink, scripts
<1>1. ASSUME NEW p \in Processes, Start(p) PROVE CloseIsNotLost'
  BY <1>1 DEF Start, GoTo
<1>2. ASSUME NEW p \in Processes, Exec(p) PROVE CloseIsNotLost'
  BY <1>2 DEF Exec, GoTo
<1>3. ASSUME NEW p \in Processes, CheckInstance(p) PROVE CloseIsNotLost'
  BY <1>3 DEF CheckInstance, GoTo, CreateMutex
<1>4. ASSUME NEW p \in Processes, FindWindow(p) PROVE CloseIsNotLost'
  BY <1>4 DEF FindWindow, GoTo
<1>5. ASSUME NEW p \in Processes, EngineFails(p) PROVE CloseIsNotLost'
  BY <1>5 DEF EngineFails, EndProcess, CreateWindow, GoTo
<1>6. ASSUME NEW p \in Processes, StartEngine(p) PROVE CloseIsNotLost'
  BY <1>6 DEF StartEngine, CreateWindow, GoTo
<1>7. ASSUME NEW p \in Processes, StartWebServer(p) PROVE CloseIsNotLost'
  BY <1>7 DEF StartWebServer, GoTo
<1>8. ASSUME NEW p \in Processes, BindPort(p) PROVE CloseIsNotLost'
  BY <1>8 DEF BindPort
<1>9. ASSUME NEW p \in Processes, EnterMessageLoop(p) PROVE CloseIsNotLost'
  BY <1>9 DEF EnterMessageLoop, GoTo
<1>10. ASSUME NEW p \in Processes, CloseButton(p) PROVE CloseIsNotLost'
  BY <1>10 DEF CloseButton, Dispatches, DestroyWindow, LastWindowGone, DestroyMiniblink
<1>11. ASSUME NEW p \in Processes, PageCloses(p) PROVE CloseIsNotLost'
  BY <1>11 DEF PageCloses, ScriptRuns
<1>12. ASSUME NEW p \in Processes, DispatchClose(p) PROVE CloseIsNotLost'
  BY <1>12 DEF DispatchClose, Dispatches, DestroyWindow, LastWindowGone, DestroyMiniblink
<1>13. ASSUME NEW p \in Processes, OpenBox(p) PROVE CloseIsNotLost'
  BY <1>13 DEF OpenBox, ScriptRuns, CallbackGuard
<1>14. ASSUME NEW p \in Processes, CloseBox(p) PROVE CloseIsNotLost'
  BY <1>14 DEF CloseBox, Dispatches
<1>15. ASSUME NEW p \in Processes, ScriptReturns(p) PROVE CloseIsNotLost'
  BY <1>15 DEF ScriptReturns
<1>16. ASSUME NEW p \in Processes, LeaveMessageLoop(p) PROVE CloseIsNotLost'
  BY <1>16 DEF LeaveMessageLoop, Dispatches, EndProcess, GoTo
<1>17. ASSUME NEW p \in Processes, Kill(p) PROVE CloseIsNotLost'
  BY <1>17 DEF Kill, EndProcess, GoTo
<1>18. ASSUME NEW p \in Processes, FatalErrorExits(p) PROVE CloseIsNotLost'
  BY <1>18 DEF FatalErrorExits, EndProcess, GoTo
<1>19. CASE UNCHANGED vars
  BY <1>19 DEF vars
<1>20. QED
  BY <1>1, <1>2, <1>3, <1>4, <1>5, <1>6, <1>7, <1>8, <1>9, <1>10, <1>11, <1>12, <1>13, <1>14, <1>15, <1>16, <1>17, <1>18, <1>19 DEF Next

\* IInv is preserved.
LEMMA NextIInv == IInv /\ [Next]_vars => IInv'
<1> SUFFICES ASSUME IInv, [Next]_vars PROVE IInv'
  OBVIOUS
<1>1. TypeOK'
  BY NextTypeOK
<1>2. (FirstIsUnique /\ MutexInv)'
  BY NextMutex
<1>3. StageInv' /\ CounterInv' /\ NoGhostProcess' /\ PostedInv'
  BY NextStage, NextCounter, NextGone, NextPosted
<1>4. (QuitInv /\ MsieLeavesNoIcon)'
  BY NextQuit
<1>5. CloseIsNotLost'
  BY NextAsked
<1>6. QED
  BY <1>1, <1>2, <1>3, <1>4, <1>5 DEF IInv

\* The invariant of every behaviour.
LEMMA Invariance == Spec => []IInv
<1>1. Init => IInv
  BY InitIInv
<1>2. IInv /\ [Next]_vars => IInv'
  BY NextIInv
<1>3. QED
  BY <1>1, <1>2, PTL DEF Spec

\* Every variable keeps its type.
THEOREM TypeCorrect == Spec => []TypeOK
<1>1. IInv => TypeOK
  BY DEF IInv
<1>2. QED
  BY Invariance, <1>1, PTL

\* However many processes are started, ended and killed, and whose CreateMutex
\* ever fails, of the living ones that hold the mutex at most one takes itself for
\* the first (instance.h:15).
THEOREM OneFirstInstance == Spec => []FirstIsUnique
<1>1. IInv => FirstIsUnique
  BY DEF IInv
<1>2. QED
  BY Invariance, <1>1, PTL

\* No process waits in its message loop without a window and without having been
\* told to quit, with either engine.
THEOREM NoGhostProcesses == Spec => []NoGhostProcess
<1>1. IInv => NoGhostProcess
  BY DEF IInv
<1>2. QED
  BY Invariance, <1>1, PTL

\* An msie process that has ended normally has taken its icon away.
THEOREM MsieIconsGo == Spec => []MsieLeavesNoIcon
<1>1. IInv => MsieLeavesNoIcon
  BY DEF IInv
<1>2. QED
  BY Invariance, <1>1, PTL

\* A page that asks for the end of its window, even behind a box that has outlived
\* the view, leaves a WM_CLOSE on its way or a process that has been told to quit.
THEOREM CloseRequestsAreKept == Spec => []CloseIsNotLost
<1>1. IInv => CloseIsNotLost
  BY DEF IInv
<1>2. QED
  BY Invariance, <1>1, PTL

\* FindWindow is the only step that brings a window to the front, and the process
\* that takes it has none of its own yet.
THEOREM LaterInstanceRaisesAnother == Spec => RaisesAnother
<1> DEFINE Raises ==
      \A p \in Processes :
        (pc[p] = "find" /\ foreground' # foreground) /\ pc'[p] # "find"
          => foreground' # p /\ window[foreground'] = "open" /\ Alive(foreground')
<1>1. IInv /\ [Next]_vars => [Raises]_vars
  <2> SUFFICES ASSUME IInv, [Next]_vars,
                      NEW p \in Processes,
                      pc[p] = "find", foreground' # foreground, pc'[p] # "find"
               PROVE  foreground' # p /\ window[foreground'] = "open" /\ Alive(foreground')
    OBVIOUS
  <2>1. PICK q \in Processes : FindWindow(q)
    BY DEF Next, vars, Start, Exec, CheckInstance, StartEngine, EngineFails,
           FatalErrorExits, StartWebServer, BindPort, EnterMessageLoop, CloseButton, DestroyWindow,
           PageCloses, DispatchClose, OpenBox, CloseBox, ScriptReturns,
           LeaveMessageLoop, Kill
  <2>2. q = p
    BY <2>1 DEF FindWindow, GoTo, IInv, TypeOK
  <2>3. window[p] = "none"
    BY DEF IInv, StageInv
  <2>4. QED
    BY <2>1, <2>2, <2>3 DEF FindWindow, Found
<1>2. QED
  BY Invariance, <1>1, PTL DEF Spec, RaisesAnother

\* The initial state of a process is that of an application.
LEMMA ImplementsInit ==
  ASSUME Init, NEW a \in Processes
  PROVE  App(a)!Init
BY DEF Init, App!Init, AppStage, WindowIf, Over

\* The end of a window closes it, and with it the application is asked to stop.
LEMMA DestroyCloses ==
  ASSUME IInv, NEW a \in Processes, NEW p \in Processes,
         pc[p] = "loop", window[p] = "open", DestroyWindow(p)
  PROVE  [App(a)!Next]_(App(a)!vars)
<1> USE DEF IInv, TypeOK, Over, AppStage, WindowIf
<1>1. /\ window' = [window EXCEPT ![p] = "destroyed"]
      /\ pc' = pc
      /\ quit' = quit \union {p}
  BY DEF DestroyWindow, LastWindowGone, DestroyMiniblink, CounterInv
<1>2. CASE p = a
  <2>1. /\ AppStage(a) = "serving" /\ AppStage(a)' = "serving"
        /\ WindowIf(a, "open") = {a} /\ WindowIf(a, "destroyed") = {}
        /\ WindowIf(a, "open")' = {} /\ WindowIf(a, "destroyed")' = {a}
        /\ a \in quit'
    BY <1>1, <1>2
  <2>2. App(a)!Close(a)
    BY <2>1 DEF App!Close
  <2>3. QED
    BY <2>2 DEF App!Next
<1>3. CASE p # a
  <2>1. AppStage(a)' = AppStage(a)
    BY <1>1, <1>3
  <2>2. /\ WindowIf(a, "open")' = WindowIf(a, "open")
        /\ WindowIf(a, "destroyed")' = WindowIf(a, "destroyed")
    BY <1>1, <1>3
  <2>3. (a \in quit)' = (a \in quit)
    <3>1. a \in quit' <=> a \in quit
      BY <1>1, <1>3
    <3>2. QED
      BY <3>1
  <2>4. UNCHANGED App(a)!vars
    BY <2>1, <2>2, <2>3, Zenon DEF App!vars
  <2>5. QED
    BY <2>4, Zenon
<1>4. QED
  BY <1>2, <1>3

\* Every step, of this process or of another, is one of an application or none.
LEMMA ImplementsNext ==
  ASSUME IInv, [Next]_vars, NEW a \in Processes
  PROVE  [App(a)!Next]_(App(a)!vars)
<1> USE DEF TypeOK, IInv, StageInv, Over, miniblink, AppStage, WindowIf,
        App!Next, App!vars, App!Open, App!Serve, App!Fail
<1>1. ASSUME NEW p \in Processes, Start(p) PROVE [App(a)!Next]_(App(a)!vars)
  BY <1>1 DEF Start, GoTo
<1>2. ASSUME NEW p \in Processes, Exec(p) PROVE [App(a)!Next]_(App(a)!vars)
  BY <1>2 DEF Exec, GoTo
<1>3. ASSUME NEW p \in Processes, CheckInstance(p) PROVE [App(a)!Next]_(App(a)!vars)
  BY <1>3 DEF CheckInstance, GoTo, CreateMutex
<1>4. ASSUME NEW p \in Processes, FindWindow(p) PROVE [App(a)!Next]_(App(a)!vars)
  BY <1>4 DEF FindWindow, GoTo, Found, Alive, Over
<1>5. ASSUME NEW p \in Processes, EngineFails(p) PROVE [App(a)!Next]_(App(a)!vars)
  BY <1>5 DEF EngineFails, EndProcess, CreateWindow, GoTo
<1>6. ASSUME NEW p \in Processes, StartEngine(p) PROVE [App(a)!Next]_(App(a)!vars)
  BY <1>6 DEF StartEngine, CreateWindow, GoTo
<1>7. ASSUME NEW p \in Processes, StartWebServer(p) PROVE [App(a)!Next]_(App(a)!vars)
  BY <1>7 DEF StartWebServer, GoTo
<1>8. ASSUME NEW p \in Processes, BindPort(p) PROVE [App(a)!Next]_(App(a)!vars)
  BY <1>8 DEF BindPort
<1>9. ASSUME NEW p \in Processes, EnterMessageLoop(p) PROVE [App(a)!Next]_(App(a)!vars)
  BY <1>9 DEF EnterMessageLoop, GoTo
<1>10. ASSUME NEW p \in Processes, CloseButton(p) PROVE [App(a)!Next]_(App(a)!vars)
  BY <1>10, DestroyCloses DEF CloseButton, Dispatches
<1>11. ASSUME NEW p \in Processes, PageCloses(p) PROVE [App(a)!Next]_(App(a)!vars)
  BY <1>11 DEF PageCloses, ScriptRuns
<1>12. ASSUME NEW p \in Processes, DispatchClose(p) PROVE [App(a)!Next]_(App(a)!vars)
  BY <1>12, DestroyCloses DEF DispatchClose, Dispatches
<1>13. ASSUME NEW p \in Processes, OpenBox(p) PROVE [App(a)!Next]_(App(a)!vars)
  BY <1>13 DEF OpenBox, ScriptRuns, CallbackGuard
<1>14. ASSUME NEW p \in Processes, CloseBox(p) PROVE [App(a)!Next]_(App(a)!vars)
  BY <1>14 DEF CloseBox, Dispatches
<1>15. ASSUME NEW p \in Processes, ScriptReturns(p) PROVE [App(a)!Next]_(App(a)!vars)
  BY <1>15 DEF ScriptReturns
<1>16. ASSUME NEW p \in Processes, LeaveMessageLoop(p) PROVE [App(a)!Next]_(App(a)!vars)
  <2>1. CASE p = a
    <3>1. AppStage(a) = "serving" /\ AppStage(a)' = "stopped" /\ a \in quit
      BY <1>16, <2>1 DEF LeaveMessageLoop, Dispatches, EndProcess, GoTo
    <3>2. App(a)!Stop
      BY <1>16, <3>1 DEF LeaveMessageLoop, App!Stop
    <3>3. QED
      BY <3>2 DEF App!Next
  <2>2. CASE p # a
    <3>1. AppStage(a)' = AppStage(a)
      BY <1>16, <2>2 DEF LeaveMessageLoop, EndProcess, GoTo
    <3>2. UNCHANGED <<window, quit>>
      BY <1>16 DEF LeaveMessageLoop
    <3>3. QED
      BY <3>1, <3>2, Zenon
  <2>3. QED
    BY <2>1, <2>2
<1>17. ASSUME NEW p \in Processes, Kill(p) PROVE [App(a)!Next]_(App(a)!vars)
  <2>1. UNCHANGED <<window, quit>>
    BY <1>17 DEF Kill
  <2>2. CASE p = a
    <3>1. AppStage(a) \in {"starting", "serving"} /\ AppStage(a)' = "failed"
      BY <1>17, <2>2 DEF Kill, EndProcess, GoTo, Alive
    <3>2. App(a)!Fail
      BY <3>1, <2>1
    <3>3. QED
      BY <3>2
  <2>3. CASE p # a
    <3>1. AppStage(a)' = AppStage(a)
      BY <1>17, <2>3 DEF Kill, EndProcess, GoTo
    <3>2. QED
      BY <2>1, <3>1, Zenon
  <2>4. QED
    BY <2>2, <2>3
<1>18. ASSUME NEW p \in Processes, FatalErrorExits(p) PROVE [App(a)!Next]_(App(a)!vars)
  BY <1>18 DEF FatalErrorExits, EndProcess, GoTo
<1>19. CASE UNCHANGED vars
  <2>1. UNCHANGED <<pc, window, quit>>
    BY <1>19 DEF vars
  <2>2. QED
    BY <2>1, Zenon
<1>20. QED
  BY <1>1, <1>2, <1>3, <1>4, <1>5, <1>6, <1>7, <1>8, <1>9, <1>10, <1>11, <1>12, <1>13, <1>14, <1>15, <1>16, <1>17, <1>18, <1>19 DEF Next

\* Each process, with either engine, behaves as AppLifecycle asks.
THEOREM ProcessesImplementApp == Spec => EachImplementsApp
<1>1. Init => \A p \in Processes : App(p)!Init
  BY ImplementsInit
<1>2. IInv /\ [Next]_vars => [\A p \in Processes : [App(p)!Next]_(App(p)!vars)]_vars
  BY ImplementsNext
<1>3. QED
  BY Invariance, <1>1, <1>2, PTL DEF Spec, EachImplementsApp

-----------------------------------------------------------------------------
(***************************************************************************)
(* The way of a process to its end.                                        *)
(***************************************************************************)
LEMMA StepsAtPlace ==
  /\ StepsLeft("off") = 8
  /\ StepsLeft("startup") = 7
  /\ StepsLeft("instance") = 6
  /\ StepsLeft("find") = 5
  /\ StepsLeft("engine") = 4
  /\ StepsLeft("server") = 3
  /\ StepsLeft("tray") = 2
  /\ StepsLeft("loop") = 1
  /\ StepsLeft("fatal") = 1
  /\ \A place \in Over : StepsLeft(place) = 0
BY DEF StepsLeft, Over

\* Where a step of the main thread leads.
Onward(p) ==
  \/ pc[p] = "off" /\ pc'[p] \in {"startup", "instance"}
  \/ pc[p] = "startup" /\ pc'[p] = "instance"
  \/ pc[p] = "instance" /\ pc'[p] \in {"find", "engine"}
  \/ pc[p] = "find" /\ pc'[p] = "engine"
  \/ pc[p] = "engine" /\ pc'[p] \in {"fatal", "server"}
  \/ pc[p] = "server" /\ pc'[p] = "tray"
  \/ pc[p] = "tray" /\ pc'[p] = "loop"
  \/ Alive(p) /\ pc'[p] \in Over

\* A step moves one process on, or none; exec may count a try.
LEMMA MainGoesOn ==
  ASSUME IInv, Next, NEW p \in Processes
  PROVE  \/ Onward(p) /\ tries'[p] \in {tries[p], tries[p] + 1}
         \/ pc'[p] = pc[p] /\ tries'[p] \in {tries[p], tries[p] + 1}
<1> USE DEF TypeOK, IInv, GoTo, Onward
<1>1. ASSUME NEW q \in Processes,
             \/ Start(q) \/ CheckInstance(q) \/ FindWindow(q) \/ StartEngine(q)
             \/ StartWebServer(q) \/ EnterMessageLoop(q)
      PROVE  /\ Onward(p) \/ pc'[p] = pc[p]
             /\ UNCHANGED tries
  BY <1>1 DEF Start, CheckInstance, FindWindow, StartEngine, StartWebServer, EnterMessageLoop
<1>2. ASSUME NEW q \in Processes, Exec(q)
      PROVE  /\ Onward(p) \/ pc'[p] = pc[p]
             /\ tries'[p] \in {tries[p], tries[p] + 1}
  BY <1>2 DEF Exec
<1>3. ASSUME NEW q \in Processes,
             EngineFails(q) \/ FatalErrorExits(q) \/ LeaveMessageLoop(q) \/ Kill(q)
      PROVE  /\ Onward(p) \/ pc'[p] = pc[p]
             /\ UNCHANGED tries
  BY <1>3 DEF EngineFails, FatalErrorExits, LeaveMessageLoop, Dispatches, Kill, EndProcess, Alive,
              Over
<1>4. ASSUME NEW q \in Processes,
             \/ BindPort(q) \/ CloseButton(q) \/ PageCloses(q) \/ DispatchClose(q)
             \/ OpenBox(q) \/ CloseBox(q) \/ ScriptReturns(q)
      PROVE  UNCHANGED <<pc, tries>>
  BY <1>4 DEF BindPort, CloseButton, PageCloses, DispatchClose, DestroyWindow, OpenBox,
              CloseBox, ScriptReturns
<1>5. QED
  BY <1>1, <1>2, <1>3, <1>4 DEF Next

LEMMA ProcessGoesOn ==
  ASSUME IInv, IInv', Next, NEW p \in Processes
  PROVE  \/ StartLeft(p)' < StartLeft(p)
         \/ pc'[p] = pc[p] /\ tries'[p] = tries[p]
<1>1. /\ tries[p] \in Nat /\ tries'[p] \in Nat /\ MaxTries \in Nat
      /\ tries'[p] \in {tries[p], tries[p] + 1}
  BY ApplicationAssumption, MainGoesOn DEF IInv, TypeOK
<1>2. CASE Onward(p)
  <2>1. StepsLeft(pc'[p]) < StepsLeft(pc[p]) /\ StepsLeft(pc'[p]) \in Nat /\ StepsLeft(pc[p]) \in Nat
    BY <1>2, StepsAtPlace DEF Onward, Alive, Over, IInv, TypeOK
  <2>2. QED
    BY <1>1, <2>1 DEF StartLeft
<1>3. CASE pc'[p] = pc[p]
  <2>1. StepsLeft(pc[p]) \in Nat
    BY StepsAtPlace DEF IInv, TypeOK, Over
  <2>2. CASE tries'[p] = tries[p] + 1
    BY <1>1, <1>3, <2>1, <2>2 DEF StartLeft
  <2>3. QED
    BY <1>1, <1>3, <2>2
<1>4. QED
  BY <1>2, <1>3, MainGoesOn

\* Nothing comes between a process that has been told to quit and its end but
\* the boxes that are open.
LEMMA QuitGoesOn ==
  ASSUME IInv, Next, NEW p \in quit, Alive(p)
  PROVE  pc[p] = "loop" /\ posted'[p] = 0 /\ p \in quit' /\ boxes'[p] <= boxes[p]
<1>1. /\ p \in Processes /\ window[p] = "destroyed" /\ pc[p] = "loop"
      /\ posted[p] = 0 /\ boxes[p] \in Nat
  <2>1. p \in Processes /\ window[p] = "destroyed"
    BY DEF IInv, TypeOK, QuitInv
  <2>2. pc[p] = "loop"
    BY <2>1 DEF IInv, TypeOK, StageInv, Alive, Over
  <2>3. QED
    BY <2>1, <2>2, ApplicationAssumption DEF IInv, TypeOK, PostedInv
<1> USE DEF miniblink, scripts
<1>2. ASSUME NEW q \in Processes,
             \/ Start(q) \/ Exec(q) \/ CheckInstance(q) \/ FindWindow(q) \/ EngineFails(q)
             \/ FatalErrorExits(q) \/ StartWebServer(q) \/ BindPort(q) \/ EnterMessageLoop(q)
             \/ LeaveMessageLoop(q) \/ Kill(q)
      PROVE  UNCHANGED <<posted, quit, boxes>>
  BY <1>2 DEF Start, Exec, CheckInstance, FindWindow, EngineFails, FatalErrorExits,
              StartWebServer, BindPort,
              EnterMessageLoop, LeaveMessageLoop, Kill
<1>3. ASSUME NEW q \in Processes, StartEngine(q) \/ ScriptReturns(q)
      PROVE  UNCHANGED <<posted, quit, boxes>>
  BY <1>3 DEF StartEngine, ScriptReturns
<1>4. ASSUME NEW q \in Processes, CloseButton(q) \/ DispatchClose(q)
      PROVE  quit \subseteq quit' /\ UNCHANGED boxes /\ posted'[p] = 0
  BY <1>1, <1>4 DEF CloseButton, DispatchClose, Dispatches, DestroyWindow, LastWindowGone,
                    DestroyMiniblink, IInv, TypeOK
<1>5. ASSUME NEW q \in Processes, PageCloses(q)
      PROVE  UNCHANGED <<quit, boxes>> /\ posted'[p] = 0
  <2>1. p # q \/ UNCHANGED posted
    BY <1>1, <1>5 DEF PageCloses
  <2>2. QED
    BY <1>1, <1>5, <2>1 DEF PageCloses, IInv, TypeOK
<1>6. ASSUME NEW q \in Processes, OpenBox(q)
      PROVE  UNCHANGED <<quit, posted>> /\ boxes'[p] = boxes[p]
  <2>1. p # q
    BY <1>1, <1>6 DEF OpenBox, CallbackGuard, CounterInv, IInv
  <2>2. QED
    BY <1>1, <1>6, <2>1 DEF OpenBox, IInv, TypeOK
<1>7. ASSUME NEW q \in Processes, CloseBox(q)
      PROVE  UNCHANGED <<quit, posted>> /\ boxes'[p] <= boxes[p]
  BY <1>1, <1>7 DEF CloseBox, IInv, TypeOK
<1>8. QED
  BY <1>1, <1>2, <1>3, <1>4, <1>5, <1>6, <1>7 DEF Next

\* wWinMain never turns back, and what has been told to quit only comes nearer
\* to its end, for every number of processes, boxes and messages.
THEOREM ProcessOnlyRunsDown == Spec => ProcessRunsDown
<1>1. IInv /\ IInv' /\ [Next]_vars =>
        [\A p \in Processes :
           /\ \/ StartLeft(p)' < StartLeft(p)
              \/ pc'[p] = pc[p] /\ tries'[p] = tries[p]
           /\ p \in quit /\ Alive(p) =>
                /\ pc[p] = "loop" /\ posted'[p] = 0
                /\ p \in quit' /\ boxes'[p] <= boxes[p]]_vars
  BY ProcessGoesOn, QuitGoesOn
<1>2. QED
  BY <1>1, Invariance, PTL DEF Spec, ProcessRunsDown

=============================================================================
