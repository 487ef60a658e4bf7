--------------------------- MODULE MCApplication ---------------------------
(***************************************************************************)
(* Instance of Application for TLC: processes are model values.            *)
(***************************************************************************)
EXTENDS Application

=============================================================================
