------------------------------ MODULE ClickEvents ------------------------------
(***************************************************************************)
(* One BrowserWindow and the documents its control shows: a timer attaches *)
(* the click handler to the document of the moment and remembers which one *)
(* it was by an id it gives to the document's element; closing detaches    *)
(* it.  The control navigates and loads by itself, and the page's scripts  *)
(* may change that id.                                                     *)
(*                                                                         *)
(* All of this runs on the UI thread: a step is one message handler, one   *)
(* call of a script, or one event inside the control.  Any call into the   *)
(* control may fail; while it is busy the timer asks no further.           *)
(***************************************************************************)
EXTENDS Naturals

CONSTANTS
  Docs,           \* the documents that are loaded, each once
  NoDoc,          \* before the first document
  NoId            \* no id, or one that the page has chosen

ASSUME ClickAssumption == NoDoc \notin Docs /\ NoId \notin Docs

VARIABLES
  webBrowser2_,   \* the control has not been closed
  object,         \* the BrowserWindow exists
  page,           \* the document the control shows
  unloaded,       \* the documents not loaded yet
  busy,           \* the control navigates or loads
  idOf,           \* the id of each document's element: a document stands for
                  \* the unique id it hands out
  handlers,       \* the documents whose onclick is clickDispatch_
  documentUniqueID_,
  clickEventsAttached_,
  succeeded,      \* the last TryAttachClickEvents for this page returned true
  focusedAfterCreation_

document == <<page, unloaded, busy>>
attachment == <<idOf, handlers, documentUniqueID_, clickEventsAttached_>>
vars == <<webBrowser2_, object, document, attachment, succeeded,
          focusedAfterCreation_>>

TypeOK ==
  /\ webBrowser2_ \in BOOLEAN
  /\ object \in BOOLEAN
  /\ page \in Docs \union {NoDoc}
  /\ unloaded \subseteq Docs
  /\ busy \in BOOLEAN
  /\ idOf \in [Docs -> Docs \union {NoId}]
  /\ handlers \subseteq Docs
  /\ documentUniqueID_ \in Docs \union {NoId}
  /\ clickEventsAttached_ \in BOOLEAN
  /\ succeeded \in BOOLEAN
  /\ focusedAfterCreation_ \in BOOLEAN

Init ==
  /\ webBrowser2_ = TRUE
  /\ object = TRUE
  /\ page = NoDoc
  /\ unloaded = Docs
  /\ busy = TRUE
  /\ idOf = [d \in Docs |-> NoId]
  /\ handlers = {}
  /\ documentUniqueID_ = NoId
  /\ clickEventsAttached_ = FALSE
  /\ succeeded = FALSE
  /\ focusedAfterCreation_ = FALSE

-----------------------------------------------------------------------------
(***************************************************************************)
(* The control.                                                            *)
(***************************************************************************)
Navigate ==
  /\ webBrowser2_ /\ ~busy
  /\ busy' = TRUE
  /\ UNCHANGED <<webBrowser2_, object, page, unloaded, attachment, succeeded,
                 focusedAfterCreation_>>

\* The new document takes the place of the old one, which is gone.
DocumentArrives(d) ==
  /\ webBrowser2_ /\ busy
  /\ d \in unloaded
  /\ page' = d
  /\ unloaded' = unloaded \ {d}
  /\ succeeded' = FALSE
  /\ UNCHANGED <<webBrowser2_, object, busy, attachment, focusedAfterCreation_>>

DocumentComplete ==
  /\ webBrowser2_ /\ busy /\ page # NoDoc
  /\ busy' = FALSE
  /\ UNCHANGED <<webBrowser2_, object, page, unloaded, attachment, succeeded,
                 focusedAfterCreation_>>

\* A script of the page changes the id of its document's element.
PageSetsId ==
  /\ page # NoDoc /\ object
  /\ idOf' = [idOf EXCEPT ![page] = NoId]
  /\ UNCHANGED <<webBrowser2_, object, document, handlers, documentUniqueID_,
                 clickEventsAttached_, succeeded, focusedAfterCreation_>>

-----------------------------------------------------------------------------
(***************************************************************************)
(* The timer.                                                              *)
(***************************************************************************)
\* The control is closed or busy, or a call fails before the id is known.
AttachTooEarly == UNCHANGED attachment /\ succeeded' = FALSE

\* Mutant: that an id was given, and not to which document.
IdGivenOnce == documentUniqueID_ # NoId

Recognised == idOf[page] # NoId /\ idOf[page] = documentUniqueID_

\* The document carries the id that was given to it.
AttachAgain ==
  /\ Recognised
  /\ UNCHANGED attachment
  /\ succeeded' = TRUE

\* Another document, whose id cannot be read or cannot be written.
AttachUnmarked ==
  /\ ~Recognised
  /\ clickEventsAttached_' = FALSE
  /\ UNCHANGED <<idOf, handlers, documentUniqueID_>>
  /\ succeeded' = FALSE

\* Mutant: the flag of the former document is not reset.
AttachKeepingFlag ==
  /\ ~Recognised
  /\ idOf' = [idOf EXCEPT ![page] = page]
  /\ documentUniqueID_' = page
  /\ IF clickEventsAttached_
     THEN UNCHANGED <<handlers, clickEventsAttached_>> /\ succeeded' = TRUE
     ELSE /\ handlers' = handlers \union {page}
          /\ clickEventsAttached_' = TRUE
          /\ succeeded' = TRUE

\* Another document: it is given its id, and then the handler.
AttachToNew ==
  /\ ~Recognised
  /\ idOf' = [idOf EXCEPT ![page] = page]
  /\ documentUniqueID_' = page
  /\ \/ /\ handlers' = handlers \union {page}
        /\ clickEventsAttached_' = TRUE
        /\ succeeded' = TRUE
     \/ /\ UNCHANGED handlers
        /\ clickEventsAttached_' = FALSE
        /\ succeeded' = FALSE

TryAttachClickEvents ==
  \/ AttachTooEarly
  \/ webBrowser2_ /\ ~busy /\ (AttachAgain \/ AttachUnmarked \/ AttachToNew)

TrySetFocusAfterCreation ==
  focusedAfterCreation_' \in {focusedAfterCreation_, TRUE}

\* WM_TIMER runs as long as there is an object to find.
OnTimer ==
  /\ object
  /\ TryAttachClickEvents
  /\ TrySetFocusAfterCreation
  /\ UNCHANGED <<webBrowser2_, object, document>>

-----------------------------------------------------------------------------
(***************************************************************************)
(* Closing.                                                                *)
(***************************************************************************)
\* put_onclick with no dispatch, if the document can be had.
DetachClickEvents == handlers' \in {handlers, handlers \ {page}}

CloseWebBrowser2 ==
  \/ /\ webBrowser2_
     /\ DetachClickEvents
     /\ webBrowser2_' = FALSE
     /\ busy' = FALSE
  \/ /\ ~webBrowser2_
     /\ UNCHANGED <<webBrowser2_, handlers, busy>>

\* window.external.CloseWindow: the object lives on until WM_CLOSE comes.
ExternalCloseWindow ==
  /\ object /\ page # NoDoc
  /\ CloseWebBrowser2
  /\ UNCHANGED <<object, page, unloaded, idOf, documentUniqueID_,
                 clickEventsAttached_, succeeded, focusedAfterCreation_>>

\* WM_DESTROY deletes the object, whose destructor closes the control.
Destroy ==
  /\ object
  /\ object' = FALSE
  /\ CloseWebBrowser2
  /\ UNCHANGED <<page, unloaded, idOf, documentUniqueID_, clickEventsAttached_,
                 succeeded, focusedAfterCreation_>>

Next ==
  \/ Navigate \/ DocumentComplete \/ PageSetsId
  \/ \E d \in Docs : DocumentArrives(d)
  \/ OnTimer \/ ExternalCloseWindow \/ Destroy

Spec == Init /\ [][Next]_vars

\* A tick that finds the control ready and its document willing, though
\* put_onclick may fail all the same.
GoodTick ==
  /\ object /\ webBrowser2_ /\ ~busy
  /\ AttachAgain \/ AttachToNew
  /\ TrySetFocusAfterCreation
  /\ UNCHANGED <<webBrowser2_, object, document>>

\* The timer ticks, and on a document that stays it finds everything ready
\* sometime: "call this function in a timer until it succeeds"
\* (browser_window.cpp:457).
FairSpec == Spec /\ WF_vars(GoodTick)

-----------------------------------------------------------------------------
(***************************************************************************)
(* Properties.                                                             *)
(***************************************************************************)
\* clickEventsAttached_, set for one document, is never taken for another:
\* beside the id of the page it says that the page has the handler
\* (browser_window.cpp:496-516).
FlagMeansHandler ==
  webBrowser2_ /\ page # NoDoc /\ Recognised /\ clickEventsAttached_ =>
    page \in handlers

\* Whatever the page navigates to and its scripts do to the id, a document
\* that stays is given its id and its turn (browser_window.cpp:990-994).
EveryDocumentIsTried ==
  \A d \in Docs :
    page = d /\ webBrowser2_ /\ ~busy ~>
      documentUniqueID_ = d \/ busy \/ ~webBrowser2_

(***************************************************************************)
(* Why EveryDocumentIsTried holds: one tick that finds everything ready.   *)
(***************************************************************************)
\* A document that carries an id carries its own: no other one's is taken for it.
OwnId == \A d \in Docs : idOf[d] \in {d, NoId}

\* The page stays until the control is busy again, and the first tick that finds
\* it ready and willing leaves it with its id, whatever its scripts and the ticks
\* before have done (browser_window.cpp:496-516).
OneTickIsEnough ==
  [][\A d \in Docs :
       page = d /\ webBrowser2_ /\ ~busy =>
         page' = d /\ (GoodTick => documentUniqueID_' = d /\ idOf'[d] = d)]_vars

(***************************************************************************)
(* What the repository says of the code and the code does not keep.        *)
(***************************************************************************)
\* browser_window.cpp:456: TryAttachClickEvents "Returns whether succeeded to
\* attach click events".
TrueMeansAttached == webBrowser2_ /\ succeeded => page \in handlers

(***************************************************************************)
(* The inductive invariant of the proofs in ClickEvents_proofs: a document *)
(* not loaded yet carries no id, and before the first one the control is   *)
(* busy.                                                                   *)
(***************************************************************************)
IInv ==
  /\ TypeOK
  /\ FlagMeansHandler
  /\ \A d \in unloaded : d # page /\ idOf[d] = NoId
  /\ page = NoDoc => busy \/ ~webBrowser2_

================================================================================
