---------------------------- MODULE MCClickEvents ----------------------------
(***************************************************************************)
(* An instance of ClickEvents for TLC: three documents, so that a flag or  *)
(* an id may survive two navigations.                                      *)
(***************************************************************************)
EXTENDS ClickEvents

CONSTANTS Doc1, Doc2, Doc3

ThreeDocs == {Doc1, Doc2, Doc3}

=============================================================================
