-------------------------- MODULE ClickEvents_proofs --------------------------
(***************************************************************************)
(* The flag clickEventsAttached_ against any number of documents.          *)
(***************************************************************************)
EXTENDS ClickEvents, TLAPS

LEMMA InitIInv == Init => IInv
  BY ClickAssumption DEF Init, IInv, TypeOK, FlagMeansHandler

\* A tick of the timer, on the document of the moment.
LEMMA OnTimerStep == IInv /\ OnTimer => IInv'
<1> SUFFICES ASSUME IInv, OnTimer PROVE IInv'
  OBVIOUS
<1> USE ClickAssumption DEF OnTimer, IInv, document, attachment
<1>1. focusedAfterCreation_' \in BOOLEAN
  BY Zenon DEF TrySetFocusAfterCreation, TypeOK
<1>2. CASE AttachTooEarly
  BY <1>1, <1>2 DEF AttachTooEarly, TypeOK, FlagMeansHandler, Recognised
<1>3. CASE AttachAgain
  BY <1>1, <1>3 DEF AttachAgain, TypeOK, FlagMeansHandler, Recognised
<1>4. CASE AttachUnmarked
  BY <1>1, <1>4 DEF AttachUnmarked, TypeOK, FlagMeansHandler, Recognised
<1>5. CASE webBrowser2_ /\ ~busy /\ AttachToNew
  <2>1. page \in Docs
    BY <1>5 DEF TypeOK
  <2>2. QED
    BY <1>1, <1>5, <2>1 DEF AttachToNew, TypeOK, FlagMeansHandler, Recognised
<1>6. QED
  BY <1>2, <1>3, <1>4, <1>5 DEF TryAttachClickEvents

LEMMA NextIInv == IInv /\ [Next]_vars => IInv'
<1> SUFFICES ASSUME IInv, [Next]_vars PROVE IInv'
  OBVIOUS
<1> USE ClickAssumption DEF IInv, document, attachment
<1>1. CASE Navigate \/ DocumentComplete
  <2>1. busy' \in BOOLEAN /\ (page = NoDoc => busy')
    BY <1>1 DEF Navigate, DocumentComplete
  <2>2. UNCHANGED <<webBrowser2_, object, page, unloaded, attachment, succeeded,
                    focusedAfterCreation_>>
    BY <1>1 DEF Navigate, DocumentComplete
  <2>3. TypeOK'
    BY <2>1, <2>2 DEF TypeOK
  <2>4. QED
    BY <2>1, <2>2, <2>3 DEF FlagMeansHandler, Recognised
<1>2. CASE PageSetsId
  BY <1>2 DEF PageSetsId, TypeOK, FlagMeansHandler, Recognised
<1>3. ASSUME NEW d \in Docs, DocumentArrives(d) PROVE IInv'
  <2>1. TypeOK'
    BY <1>3 DEF DocumentArrives, TypeOK
  <2>2. ~Recognised'
    BY <1>3 DEF DocumentArrives, Recognised
  <2>3. QED
    BY <1>3, <2>1, <2>2 DEF DocumentArrives, FlagMeansHandler
<1>4. CASE ExternalCloseWindow \/ Destroy
  <2>1. TypeOK'
    BY <1>4 DEF ExternalCloseWindow, Destroy, CloseWebBrowser2,
       DetachClickEvents, TypeOK
  <2>2. ~webBrowser2_'
    BY <1>4 DEF ExternalCloseWindow, Destroy, CloseWebBrowser2, TypeOK
  <2>3. UNCHANGED <<page, unloaded, idOf>>
    BY <1>4 DEF ExternalCloseWindow, Destroy
  <2>4. QED
    BY <2>1, <2>2, <2>3 DEF FlagMeansHandler
<1>5. CASE UNCHANGED vars
  BY <1>5 DEF vars, TypeOK, FlagMeansHandler, Recognised
<1>6. QED
  BY <1>1, <1>2, <1>3, <1>4, <1>5, OnTimerStep DEF Next

(***************************************************************************)
(* Every variable keeps its type.                                          *)
(***************************************************************************)
THEOREM TypeCorrect == Spec => []TypeOK
<1>1. IInv => TypeOK
  BY DEF IInv
<1>2. QED
  BY <1>1, InitIInv, NextIInv, PTL DEF Spec

(***************************************************************************)
(* The flag is never taken for that of another document, whatever the      *)
(* order of navigations, ticks, failures and scripts.                      *)
(***************************************************************************)
THEOREM FlagIsOfThePage == Spec => []FlagMeansHandler
<1>1. IInv => FlagMeansHandler
  BY DEF IInv
<1>2. QED
  BY <1>1, InitIInv, NextIInv, PTL DEF Spec

\* A document carries no id but its own.
LEMMA NextOwnId == TypeOK /\ OwnId /\ [Next]_vars => OwnId'
<1> SUFFICES ASSUME TypeOK, OwnId, [Next]_vars PROVE OwnId'
  OBVIOUS
<1>1. idOf' \in {idOf, [idOf EXCEPT ![page] = NoId], [idOf EXCEPT ![page] = page]}
  BY DEF Next, Navigate, DocumentComplete, PageSetsId, DocumentArrives, OnTimer,
         TryAttachClickEvents, AttachTooEarly, AttachAgain, AttachUnmarked, AttachToNew,
         ExternalCloseWindow, Destroy, attachment, document, vars
<1>2. QED
  BY <1>1 DEF TypeOK, OwnId

(***************************************************************************)
(* A document that stays is given its id by the first tick that finds all  *)
(* ready (the safety half of EveryDocumentIsTried).                        *)
(***************************************************************************)
THEOREM FirstTickMarks == Spec => OneTickIsEnough
<1>1. ASSUME TypeOK, OwnId, [Next]_vars, NEW d \in Docs, page = d, webBrowser2_, ~busy
      PROVE  page' = d /\ (GoodTick => documentUniqueID_' = d /\ idOf'[d] = d)
  <2>1. page' = d
    BY <1>1 DEF Next, Navigate, DocumentComplete, PageSetsId, DocumentArrives, OnTimer,
                ExternalCloseWindow, Destroy, document, vars
  <2>2. AttachAgain => documentUniqueID_' = d /\ idOf'[d] = d
    BY <1>1 DEF AttachAgain, Recognised, attachment, OwnId
  <2>3. AttachToNew => documentUniqueID_' = d /\ idOf'[d] = d
    BY <1>1 DEF AttachToNew, TypeOK
  <2>4. QED
    BY <2>1, <2>2, <2>3 DEF GoodTick
<1>2. TypeOK /\ OwnId /\ [Next]_vars =>
        [\A d \in Docs :
           page = d /\ webBrowser2_ /\ ~busy =>
             page' = d /\ (GoodTick => documentUniqueID_' = d /\ idOf'[d] = d)]_vars
  BY <1>1
<1>3. Init => OwnId
  BY DEF Init, OwnId
<1>4. QED
  BY <1>2, <1>3, NextOwnId, TypeCorrect, PTL DEF Spec, OneTickIsEnough

===============================================================================
