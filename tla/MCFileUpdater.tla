---------------------------- MODULE MCFileUpdater ----------------------------
(***************************************************************************)
(* Instances of FileUpdater for TLC.                                       *)
(***************************************************************************)
EXTENDS FileUpdater

CONSTANTS Asar, Exe, Page, Resources

\* The version file and a second file in resources, the program beside it.
ThreeFiles == {Asar, Exe, Page}
BothDirs == {Root, Resources}
ThreeDirOf == [f \in ThreeFiles |-> IF f = Exe THEN Root ELSE Resources]

TwoFiles == {Asar, Exe}
TwoDirOf == [f \in TwoFiles |-> IF f = Exe THEN Root ELSE Resources]

=============================================================================
