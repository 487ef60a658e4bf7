---------------------------- MODULE AppLifecycle ----------------------------
(***************************************************************************)
(* What the desktop application promises its user: browser windows open and*)
(* close, no window comes back, the application is asked to stop at the    *)
(* latest when its last window closes, never takes that back, and stops    *)
(* only when it was asked to, or fails.                                    *)
(***************************************************************************)
CONSTANT Windows

VARIABLES
  stage,     \* "starting", "serving", "stopped" or "failed"
  shown,     \* the browser windows that are open
  closed,    \* the browser windows that have been closed
  stopping   \* the application has been asked to stop

vars == <<stage, shown, closed, stopping>>

Init ==
  /\ stage = "starting"
  /\ shown = {}
  /\ closed = {}
  /\ stopping = FALSE

Open(w) ==
  /\ stage \in {"starting", "serving"}
  /\ w \notin shown \union closed
  /\ shown' = shown \union {w}
  /\ UNCHANGED <<stage, closed, stopping>>

Serve ==
  /\ stage = "starting" /\ shown # {}
  /\ stage' = "serving"
  /\ UNCHANGED <<shown, closed, stopping>>

\* Closing a window may ask for the stop, and closing the last one does.
Close(w) ==
  /\ stage = "serving"
  /\ w \in shown
  /\ shown' = shown \ {w}
  /\ closed' = closed \union {w}
  /\ stopping' \in {stopping, TRUE}
  /\ shown' = {} => stopping'
  /\ UNCHANGED stage

\* The stop is asked for while browser windows are still open.
AskToStop ==
  /\ stage = "serving"
  /\ stopping' = TRUE
  /\ UNCHANGED <<stage, shown, closed>>

Stop ==
  /\ stage = "serving" /\ stopping
  /\ stage' = "stopped"
  /\ UNCHANGED <<shown, closed, stopping>>

Fail ==
  /\ stage \in {"starting", "serving"}
  /\ stage' = "failed"
  /\ UNCHANGED <<shown, closed, stopping>>

Next ==
  \/ \E w \in Windows : Open(w) \/ Close(w)
  \/ Serve
  \/ AskToStop
  \/ Stop
  \/ Fail

Spec == Init /\ [][Next]_vars

=============================================================================
