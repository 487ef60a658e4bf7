-------------------------- MODULE MCBrowserWindows --------------------------
(***************************************************************************)
(* BrowserWindows with a main window and two popups.                       *)
(***************************************************************************)
EXTENDS BrowserWindows

CONSTANTS Main, Popup1, Popup2

MCWindows == {Main, Popup1, Popup2}
TimerMayFail == {TRUE, FALSE}
TimerAlways == {TRUE}

=============================================================================
