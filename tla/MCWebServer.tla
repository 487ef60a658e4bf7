----------------------------- MODULE MCWebServer -----------------------------
(***************************************************************************)
(* Instances of WebServer for TLC.                                         *)
(***************************************************************************)
EXTENDS WebServer

CONSTANTS Conn1, Conn2, Conn3, Worker1, Worker2

TwoConns == {Conn1, Conn2}
ThreeConns == {Conn1, Conn2, Conn3}
TwoWorkers == {Worker1, Worker2}

=============================================================================
