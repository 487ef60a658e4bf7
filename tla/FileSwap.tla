------------------------------- MODULE FileSwap -------------------------------
(***************************************************************************)
(* What replacing a set of files promises of the files there were: each    *)
(* original is at home until it is put aside, comes home from there, and   *)
(* is given up only by the end of the whole, and only when it is not home. *)
(***************************************************************************)
CONSTANT Files

VARIABLES place, over

vars == <<place, over>>

\* Some of the files do not exist, which is as good as being gone.
Init == place \in [Files -> {"home", "gone"}] /\ over = FALSE

PutAside(f) ==
  /\ ~over /\ place[f] = "home"
  /\ place' = [place EXCEPT ![f] = "aside"]
  /\ UNCHANGED over

\* Some of the files put aside come home: one, or a directory of them.
ComeHome(S) ==
  /\ ~over /\ \A f \in S : place[f] = "aside"
  /\ place' = [f \in Files |-> IF f \in S THEN "home" ELSE place[f]]
  /\ UNCHANGED over

\* The end of it: whatever is still aside may go.
GiveUp(S) ==
  /\ ~over /\ \A f \in S : place[f] = "aside"
  /\ over' = TRUE
  /\ place' = [f \in Files |-> IF f \in S THEN "gone" ELSE place[f]]

Next ==
  \/ \E f \in Files : PutAside(f)
  \/ \E S \in SUBSET Files : ComeHome(S) \/ GiveUp(S)

Spec == Init /\ [][Next]_vars

===============================================================================
