------------------------------ MODULE WindowLease ------------------------------
(***************************************************************************)
(* What the API promises a service that is told of a finished document.    *)
(* From the moment the document is announced until the message loop gets   *)
(* its thread back, the service holds a lease on the window's object: no   *)
(* window opens, none closes but by a call under way, whose script may ask *)
(* for it, and a call for that notice reaches that object, open or closed. *)
(* The lease ends with the answer to this very notice, or when the caller  *)
(* gives up; the service keeps the notice, and may answer it too late.     *)
(***************************************************************************)
EXTENDS Naturals

CONSTANTS Objects, NoObject, Workers, MaxNotices

VARIABLES
  alive,     \* whether the process runs
  open,      \* the objects whose page can be asked
  over,      \* those that were closed or deleted
  lease,     \* the object of the notice that is waited for, or NoObject
  notice,    \* the number of the last notice
  told,      \* the notices the service has and has not answered
  pending    \* the calls under way: what they reached, and the notice behind them

vars == <<alive, open, over, lease, notice, told, pending>>

Free == [asked |-> FALSE, object |-> NoObject, cause |-> 0]

Init ==
  /\ alive = TRUE
  /\ open = {}
  /\ over = {}
  /\ lease = NoObject
  /\ notice = 0
  /\ told = {}
  /\ pending = [w \in Workers |-> Free]

Unleased == alive /\ lease = NoObject

Open(o) ==
  /\ Unleased
  /\ o \notin open \union over
  /\ open' = open \union {o}
  /\ UNCHANGED <<alive, over, lease, notice, told, pending>>

\* A call that has reached an object may run a script of its page.
MayRunScript(w) == pending[w].object \in open \union over

Close(o) ==
  /\ alive
  /\ lease = NoObject \/ \E w \in Workers : MayRunScript(w)
  /\ o \in open
  /\ open' = open \ {o}
  /\ over' = over \union {o}
  /\ UNCHANGED <<alive, lease, notice, told, pending>>

Announce(o) ==
  /\ Unleased
  /\ o \in open
  /\ notice < MaxNotices
  /\ lease' = o
  /\ notice' = notice + 1
  /\ UNCHANGED <<alive, open, over, told, pending>>

Tell ==
  /\ alive
  /\ lease # NoObject
  /\ notice \notin told
  /\ told' = told \union {notice}
  /\ UNCHANGED <<alive, open, over, lease, notice, pending>>

GiveUp ==
  /\ alive
  /\ lease # NoObject
  /\ lease' = NoObject
  /\ UNCHANGED <<alive, open, over, notice, told, pending>>

\* The answer to an earlier notice frees nobody.
AnswerNotice(n) ==
  /\ alive
  /\ n \in told
  /\ told' = told \ {n}
  /\ lease' = IF n = notice THEN NoObject ELSE lease
  /\ UNCHANGED <<alive, open, over, notice, pending>>

\* A call for the leased window reaches its object; any other call reaches any
\* object there is or was, or none.
Ask(w, c, o) ==
  /\ alive
  /\ ~pending[w].asked
  /\ c \in told \union {0}
  /\ IF lease # NoObject /\ c = notice THEN o = lease
     ELSE o \in open \union over \union {NoObject}
  /\ pending' = [pending EXCEPT ![w] = [asked |-> TRUE, object |-> o, cause |-> c]]
  /\ UNCHANGED <<alive, open, over, lease, notice, told>>

Reply(w) ==
  /\ alive
  /\ pending[w].asked
  /\ pending' = [pending EXCEPT ![w] = Free]
  /\ UNCHANGED <<alive, open, over, lease, notice, told>>

End ==
  /\ alive
  /\ alive' = FALSE
  /\ open' = {}
  /\ over' = {}
  /\ lease' = NoObject
  /\ pending' = [w \in Workers |-> Free]
  /\ UNCHANGED <<notice, told>>

Next ==
  \/ \E o \in Objects : Open(o) \/ Close(o) \/ Announce(o)
  \/ Tell \/ GiveUp \/ End
  \/ \E n \in told : AnswerNotice(n)
  \/ \E w \in Workers :
       Reply(w) \/ \E c \in told \union {0}, o \in Objects \union {NoObject} : Ask(w, c, o)

Spec == Init /\ [][Next]_vars

================================================================================
