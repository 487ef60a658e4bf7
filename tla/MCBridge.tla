------------------------------- MODULE MCBridge -------------------------------
(***************************************************************************)
(* Bridge with two window handles and two objects, which may also take the *)
(* same handle one after the other, two workers, so that one call is under *)
(* way while another begins, and two notices, so that the answer to the    *)
(* first may come too late.                                                *)
(***************************************************************************)
EXTENDS Bridge

CONSTANTS Hwnd1, Hwnd2, Object1, Object2, Worker1, Worker2

TwoHwnds == {Hwnd1, Hwnd2}
TwoObjects == {Object1, Object2}
TwoWorkers == {Worker1, Worker2}

================================================================================
