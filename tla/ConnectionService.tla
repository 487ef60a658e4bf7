-------------------------- MODULE ConnectionService --------------------------
(***************************************************************************)
(* What a server promises the connections it accepts: each is accepted     *)
(* once and served to its end once, and the service ends only after it has *)
(* stopped accepting and has finished every connection.                    *)
(***************************************************************************)
CONSTANT Conns

VARIABLES
  stage,      \* "idle", "open", "draining" or "ended"
  accepted,   \* the connections accepted so far
  finished    \* those served to their end

vars == <<stage, accepted, finished>>

Init ==
  /\ stage = "idle"
  /\ accepted = {}
  /\ finished = {}

Open ==
  /\ stage = "idle"
  /\ stage' = "open"
  /\ UNCHANGED <<accepted, finished>>

Accept(c) ==
  /\ stage = "open"
  /\ c \notin accepted
  /\ accepted' = accepted \union {c}
  /\ UNCHANGED <<stage, finished>>

Finish(c) ==
  /\ stage \in {"open", "draining"}
  /\ c \in accepted \ finished
  /\ finished' = finished \union {c}
  /\ UNCHANGED <<stage, accepted>>

Drain ==
  /\ stage = "open"
  /\ stage' = "draining"
  /\ UNCHANGED <<accepted, finished>>

End ==
  /\ stage = "draining"
  /\ finished = accepted
  /\ stage' = "ended"
  /\ UNCHANGED <<accepted, finished>>

Next ==
  \/ Open \/ Drain \/ End
  \/ \E c \in Conns : Accept(c) \/ Finish(c)

Spec == Init /\ [][Next]_vars

=============================================================================
