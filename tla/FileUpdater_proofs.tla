-------------------------- MODULE FileUpdater_proofs --------------------------
(***************************************************************************)
(* What update() and revert() do to the files, for every manifest, every   *)
(* number of retries and whatever calls of the file system fail.           *)
(***************************************************************************)
EXTENDS FileUpdater, TLAPS

LEMMA InitIInv == Init => IInv
<1> SUFFICES ASSUME Init PROVE IInv
  OBVIOUS
<1> USE UpdaterAssumption DEF given, Init
<1>1. TypeOK
  <2>1. \A f \in Files : DirOf[f] \in Dirs
    OBVIOUS
  <2>2. appDirs \subseteq Dirs
    BY <2>1
  <2>3. retries \in 0..MaxRetries
    OBVIOUS
  <2>4. QED
    BY <2>2, <2>3 DEF TypeOK, Contents
<1>2. BackupIsOld /\ EntryInv
  BY DEF BackupIsOld, EntryInv
<1>3. DoneInv /\ PendingInv
  BY DEF DoneInv, Before, PendingInv, Settled
<1>4. QED
  BY <1>1, <1>2, <1>3 DEF IInv

-----------------------------------------------------------------------------
(***************************************************************************)
(* The steps that leave the files alone.                                   *)
(***************************************************************************)
LEMMA UpdateStep == IInv /\ Update => IInv'
<1> SUFFICES ASSUME IInv, Update PROVE IInv'
  OBVIOUS
<1> USE UpdaterAssumption DEF given, Update, IInv
<1>1. TypeOK'
  BY DEF TypeOK, disk
<1>2. BackupIsOld'
  BY DEF BackupIsOld
<1>3. EntryInv'
  <2>1. step = "idle" /\ current = NoFile /\ todo = {}
    BY DEF EntryInv
  <2>2. QED
    BY <2>1 DEF EntryInv
<1>4. DoneInv'
  BY DEF DoneInv, Before, Settled, TypeOK
<1>5. PendingInv'
  BY DEF PendingInv, DoneInv, TypeOK
<1>6. QED
  BY <1>1, <1>2, <1>3, <1>4, <1>5

LEMMA ControlStep ==
  ASSUME IInv,
         \/ \E f \in Files : BeginEntry(f)
         \/ Try \/ Throw \/ CreateDirectories \/ EndUpdate
  PROVE  IInv'
<1> USE UpdaterAssumption DEF given, IInv, disk, entry, EntryDone, EntryFailed
<1>1. ASSUME NEW f \in Files, BeginEntry(f) PROVE IInv'
  <2> USE <1>1 DEF BeginEntry
  <2>1. TypeOK' /\ BackupIsOld' /\ EntryInv'
    BY DEF TypeOK, BackupIsOld, EntryInv
  <2>2. DoneInv' /\ PendingInv'
    BY DEF DoneInv, Before, Settled, PendingInv
  <2>3. QED
    BY <2>1, <2>2
<1>2. CASE Try
  <2> USE <1>2 DEF Try
  <2>0. current \in Files
    BY DEF TypeOK, EntryInv
  <2>1. TypeOK'
    BY <2>0 DEF TypeOK
  <2>2. BackupIsOld' /\ EntryInv'
    BY <2>0 DEF TypeOK, BackupIsOld, EntryInv
  <2>3. DoneInv'
    <3>1. UNCHANGED <<given, app, backup, phase>> /\ phase = "update"
      BY DEF EntryInv
    <3>2. \A f \in Files : Settled(f)' <=> Settled(f)
      BY <3>1 DEF Settled, Before
    <3>3. \A f \in todo \ todo' : f = current /\ manifest[f] = "skip"
      OBVIOUS
    <3>4. manifest[current] = "skip" => Settled(current)
      BY <2>0, <3>1 DEF DoneInv, Settled, Before, TypeOK, Contents
    <3>5. todo' \subseteq todo
      OBVIOUS
    <3>6. QED
      BY <3>1, <3>2, <3>3, <3>4, <3>5 DEF DoneInv
  <2>4. PendingInv'
    BY DEF PendingInv
  <2>5. QED
    BY <2>1, <2>2, <2>3, <2>4
<1>3. CASE Throw
  <2> USE <1>3 DEF Throw
  <2>1. TypeOK' /\ BackupIsOld' /\ EntryInv'
    BY DEF TypeOK, BackupIsOld, EntryInv
  <2>2. DoneInv' /\ PendingInv'
    BY DEF DoneInv, Before, Settled, PendingInv, EntryInv
  <2>3. QED
    BY <2>1, <2>2
<1>4. CASE CreateDirectories
  <2> USE <1>4 DEF CreateDirectories
  <2>0. current \in Files /\ phase = "update"
    BY DEF TypeOK, EntryInv
  <2>1. TypeOK'
    BY <2>0 DEF TypeOK
  <2>2. BackupIsOld' /\ EntryInv'
    BY <2>0 DEF TypeOK, BackupIsOld, EntryInv
  <2>3. DoneInv' /\ PendingInv'
    BY <2>0 DEF DoneInv, Before, Settled, PendingInv
  <2>4. QED
    BY <2>1, <2>2, <2>3
<1>5. CASE EndUpdate
  <2> USE <1>5 DEF EndUpdate
  <2>1. TypeOK' /\ BackupIsOld' /\ EntryInv'
    BY DEF TypeOK, BackupIsOld, EntryInv
  <2>2. DoneInv' /\ PendingInv'
    BY DEF DoneInv, Before, Settled, PendingInv
  <2>3. QED
    BY <2>1, <2>2
<1>6. QED
  BY <1>1, <1>2, <1>3, <1>4, <1>5

-----------------------------------------------------------------------------
(***************************************************************************)
(* The two renames of update_entry.                                        *)
(***************************************************************************)
LEMMA SaveStep == IInv /\ Save => IInv'
<1> SUFFICES ASSUME IInv, Save PROVE IInv'
  OBVIOUS
<1> USE UpdaterAssumption DEF given, Save, IInv, EntryFailed
<1>1. /\ current \in Files /\ current \in todo /\ phase = "update"
      /\ manifest[current] # "skip" /\ app[current] # "new"
      /\ DirOf[current] \in backupDirs
  BY DEF TypeOK, EntryInv, DoneInv
<1>2. TypeOK'
  BY <1>1 DEF TypeOK, Contents
<1>3. BackupIsOld'
  BY <1>1 DEF BackupIsOld, TypeOK, Contents
<1>4. EntryInv'
  BY <1>1 DEF EntryInv, TypeOK
<1>5. DoneInv'
  <2>1. /\ todo' = todo /\ phase' = phase /\ UNCHANGED given
        /\ \A f \in Files \ {current} : app'[f] = app[f] /\ backup'[f] = backup[f]
    BY <1>1 DEF TypeOK
  <2>2. \A f \in Files \ {current} : Settled(f)' <=> Settled(f)
    BY <2>1 DEF Settled, Before
  <2>3. /\ app'[current] # "new"
        /\ app'[current] = "old" \/ backup'[current] = "old"
             <=> app[current] = "old" \/ backup[current] = "old"
    BY <1>1 DEF TypeOK, BackupIsOld, Contents
  <2>4. \A f \in todo' : app'[f] # "new"
    BY <1>1, <2>1, <2>3 DEF DoneInv, TypeOK
  <2>5. \A f \in Files : manifest'[f] = "skip" => app'[f] # "new" /\ backup'[f] = "none"
    BY <1>1, <2>1 DEF DoneInv
  <2>6. \A f \in Files \ todo' : Settled(f)'
    BY <1>1, <2>1, <2>2 DEF DoneInv
  <2>7. \A f \in Files : f \in original' <=> app'[f] = "old" \/ backup'[f] = "old"
    BY <1>1, <2>1, <2>3 DEF DoneInv
  <2>8. QED
    BY <1>1, <2>1, <2>4, <2>5, <2>6, <2>7 DEF DoneInv
<1>6. PendingInv'
  BY <1>1 DEF PendingInv, TypeOK
<1>7. QED
  BY <1>2, <1>3, <1>4, <1>5, <1>6

LEMMA InstallStep == IInv /\ Install => IInv'
<1> SUFFICES ASSUME IInv, Install PROVE IInv'
  OBVIOUS
<1> USE UpdaterAssumption DEF given, Install, MoveIn, IInv, EntryFailed, EntryDone
<1>1. /\ current \in Files /\ current \in todo /\ phase = "update"
      /\ manifest[current] # "skip" /\ app[current] = "none"
  BY DEF TypeOK, EntryInv
<1>2. TypeOK'
  BY <1>1 DEF TypeOK, Contents
<1>3. BackupIsOld' /\ EntryInv'
  BY <1>1 DEF BackupIsOld, EntryInv, TypeOK
<1>4. DoneInv'
  <2>1. /\ todo' \subseteq todo /\ phase' = phase /\ UNCHANGED <<given, backup>>
        /\ \A f \in Files \ {current} : app'[f] = app[f] /\ (f \in todo => f \in todo')
    BY <1>1 DEF TypeOK
  <2>2. \A f \in Files \ {current} : Settled(f)' <=> Settled(f)
    BY <2>1 DEF Settled, Before
  <2>3. backup[current] = Before(current)
    BY <1>1 DEF DoneInv, Before, TypeOK, Contents, BackupIsOld
  <2>4. \/ current \in todo' /\ app'[current] = "none"
        \/ /\ current \notin todo' /\ app'[current] \in {"new", "none"}
           /\ \A f \in {current} : Settled(f)'
    <3>1. CASE manifest[current] = "replace" /\ MoveIn /\ EntryDone
      BY <1>1, <2>1, <2>3, <3>1 DEF Settled, Before, TypeOK
    <3>2. CASE manifest[current] = "remove" /\ EntryDone /\ UNCHANGED <<fresh, app>>
      BY <1>1, <2>1, <2>3, <3>2 DEF Settled, Before, TypeOK
    <3>3. CASE EntryFailed /\ UNCHANGED <<fresh, app>>
      BY <1>1, <3>3
    <3>4. QED
      BY <3>1, <3>2, <3>3
  <2>5. \A f \in todo' : app'[f] # "new"
    BY <1>1, <2>1, <2>4 DEF DoneInv, TypeOK
  <2>6. \A f \in Files : manifest'[f] = "skip" => app'[f] # "new" /\ backup'[f] = "none"
    BY <1>1, <2>1 DEF DoneInv
  <2>7. \A f \in Files \ todo' : Settled(f)'
    BY <1>1, <2>1, <2>2, <2>4 DEF DoneInv
  <2>8. \A f \in Files : f \in original' <=> app'[f] = "old" \/ backup'[f] = "old"
    BY <1>1, <2>1, <2>4 DEF DoneInv
  <2>9. QED
    BY <1>1, <2>1, <2>5, <2>6, <2>7, <2>8 DEF DoneInv
<1>5. PendingInv'
  BY <1>1 DEF PendingInv, TypeOK
<1>6. QED
  BY <1>2, <1>3, <1>4, <1>5

-----------------------------------------------------------------------------
(***************************************************************************)
(* revert() and the destructor.                                            *)
(***************************************************************************)
LEMMA RevertStep == IInv /\ Revert => IInv'
<1> SUFFICES ASSUME IInv, Revert PROVE IInv'
  OBVIOUS
<1> USE UpdaterAssumption DEF given, Revert, IInv, disk, entry, Listing, Saved
<1>1. TypeOK'
  BY DEF TypeOK
<1>2. BackupIsOld' /\ EntryInv'
  BY DEF BackupIsOld, EntryInv
<1>3. DoneInv'
  BY DEF DoneInv, Before, Settled
<1>4. PendingInv'
  BY DEF PendingInv, TypeOK
<1>5. QED
  BY <1>1, <1>2, <1>3, <1>4

LEMMA RevertFileStep ==
  ASSUME IInv, NEW f \in Files, RevertFile(f)
  PROVE  IInv'
<1> USE UpdaterAssumption DEF given, RevertFile, IInv, entry
<1>1. f \in pending /\ backup[f] = "old" /\ app[f] # "old"
  BY DEF Visitable, PendingInv, BackupIsOld, TypeOK, Contents
<1>2. TypeOK'
  BY DEF TypeOK, Contents
<1>3. BackupIsOld' /\ EntryInv'
  BY <1>1 DEF BackupIsOld, EntryInv, TypeOK
<1>4. DoneInv'
  BY <1>1 DEF DoneInv, Before, EntryInv, TypeOK
<1>5. PendingInv'
  BY <1>1 DEF PendingInv, TypeOK
<1>6. QED
  BY <1>2, <1>3, <1>4, <1>5

LEMMA MoveDirectoryStep ==
  ASSUME IInv, NEW d \in Dirs, phase = "revert", EmptyInApp(d),
         MoveDirectory(d), UNCHANGED <<given, fresh, entry, faulted>>
  PROVE  IInv'
<1> USE UpdaterAssumption DEF given, EmptyInApp, MoveDirectory, IInv, entry
<1>1. TypeOK'
  BY DEF TypeOK, Contents
<1>2. BackupIsOld' /\ EntryInv'
  BY DEF BackupIsOld, EntryInv, TypeOK
<1>3. DoneInv'
  BY DEF DoneInv, Before, EntryInv, BackupIsOld, TypeOK
<1>4. PendingInv'
  BY DEF PendingInv, TypeOK
<1>5. QED
  BY <1>1, <1>2, <1>3, <1>4

LEMMA RevertDirectoryStep ==
  ASSUME IInv, NEW d \in Dirs, RevertDirectory(d)
  PROVE  IInv'
<1> USE UpdaterAssumption DEF given, RevertDirectory
<1>1. CASE EmptyInApp(d) /\ MoveDirectory(d) /\ UNCHANGED faulted
  BY <1>1, MoveDirectoryStep
<1>2. CASE /\ pending' = (pending \ {d}) \union Listing(d)
           /\ appDirs' \in {appDirs, appDirs \ {d}}
           /\ faulted' = (faulted \/ EmptyInApp(d))
           /\ UNCHANGED <<app, backup, backupDirs, phase>>
  <2> USE <1>2 DEF IInv, entry, Listing, Saved
  <2>1. d # Root /\ d \in pending
    BY DEF Visitable, PendingInv
  <2>2. TypeOK'
    <3>1. faulted' \in BOOLEAN
      BY Zenon DEF TypeOK, EmptyInApp
    <3>2. QED
      BY <2>1, <3>1 DEF TypeOK
  <2>3. BackupIsOld' /\ EntryInv'
    BY DEF BackupIsOld, EntryInv, TypeOK
  <2>4. DoneInv'
    BY DEF DoneInv, Before, Settled, EntryInv, TypeOK
  <2>5. PendingInv'
    BY <2>1 DEF PendingInv, TypeOK
  <2>6. QED
    BY <2>2, <2>3, <2>4, <2>5
<1>3. QED
  BY <1>1, <1>2

LEMMA DestroyStep == IInv /\ Destroy => IInv'
<1> SUFFICES ASSUME IInv, Destroy PROVE IInv'
  OBVIOUS
<1> USE UpdaterAssumption DEF given, Destroy, IInv, entry
<1>1. \A f \in Files : backup'[f] \in {backup[f], "none"}
  OBVIOUS
<1>2. TypeOK'
  BY DEF TypeOK, Contents
<1>3. BackupIsOld' /\ EntryInv'
  BY <1>1 DEF BackupIsOld, EntryInv
<1>4. DoneInv'
  BY <1>1 DEF DoneInv, Before, EntryInv
<1>5. PendingInv'
  BY <1>1 DEF PendingInv
<1>6. QED
  BY <1>2, <1>3, <1>4, <1>5

LEMMA NextIInv == IInv /\ [Next]_vars => IInv'
<1> SUFFICES ASSUME IInv, [Next]_vars PROVE IInv'
  OBVIOUS
<1>1. CASE Updating
  BY <1>1, ControlStep, SaveStep, InstallStep DEF Updating, UpdateEntry
<1>2. ASSUME NEW f \in Files, RevertFile(f) PROVE IInv'
  BY <1>2, RevertFileStep
<1>3. ASSUME NEW d \in Dirs, RevertDirectory(d) PROVE IInv'
  BY <1>3, RevertDirectoryStep
<1>4. CASE EndRevert \/ UNCHANGED vars
  <2> USE <1>4 DEF EndRevert, vars, given, disk, entry, IInv
  <2>1. TypeOK' /\ BackupIsOld' /\ EntryInv'
    BY DEF TypeOK, BackupIsOld, EntryInv
  <2>2. DoneInv' /\ PendingInv'
    BY DEF DoneInv, Before, Settled, PendingInv
  <2>3. QED
    BY <2>1, <2>2
<1>5. QED
  BY <1>1, <1>2, <1>3, <1>4, UpdateStep, RevertStep, DestroyStep
     DEF Next, Reverting

-----------------------------------------------------------------------------
(***************************************************************************)
(* Every variable keeps its type, and no try beyond max_retries is made.   *)
(***************************************************************************)
THEOREM TypeCorrect == Spec => []TypeOK
<1>1. IInv => TypeOK
  BY DEF IInv
<1>2. QED
  BY <1>1, InitIInv, NextIInv, PTL DEF Spec

(***************************************************************************)
(* An update() that returns has settled every entry.                       *)
(***************************************************************************)
THEOREM UpdateCompletes == Spec => []UpdateIsComplete
<1>1. IInv => UpdateIsComplete
  BY DEF IInv, EntryInv, DoneInv, UpdateIsComplete
<1>2. QED
  BY <1>1, InitIInv, NextIInv, PTL DEF Spec

(***************************************************************************)
(* However often an entry is tried, the backup holds the original.         *)
(***************************************************************************)
THEOREM BackupHoldsOriginals == Spec => []BackupIsOld
<1>1. IInv => BackupIsOld
  BY DEF IInv
<1>2. QED
  BY <1>1, InitIInv, NextIInv, PTL DEF Spec

LEMMA NothingPending == IInv => RevertRestores
<1> SUFFICES ASSUME IInv, phase = "reverted", ~faulted
             PROVE  \A f \in Files : backup[f] = "none"
  BY DEF RevertRestores
<1>1. pending = {}
  BY DEF IInv, PendingInv
<1>2. QED
  BY <1>1 DEF IInv, PendingInv

(***************************************************************************)
(* A revert() of which no call fails without a reason leaves nothing in    *)
(* the backup when it returns.                                             *)
(***************************************************************************)
THEOREM RevertRestoresAll == Spec => []RevertRestores
  BY NothingPending, InitIInv, NextIInv, PTL DEF Spec

-----------------------------------------------------------------------------
(***************************************************************************)
(* The refinement of FileSwap.                                             *)
(***************************************************************************)
LEMMA SwapInit == Init => Swap!Init
<1> SUFFICES ASSUME Init PROVE Swap!Init
  OBVIOUS
<1>1. \A f \in Files : place[f] \in {"home", "gone"}
  BY DEF Init, place
<1>2. ~over
  BY DEF Init, over
<1>3. QED
  BY <1>1, <1>2 DEF Swap!Init, place

LEMMA SwapStutter ==
  ASSUME UNCHANGED <<app, backup>>, phase # "destroyed", phase' # "destroyed"
  PROVE  UNCHANGED Swap!vars
  BY DEF Swap!vars, place, over

\* Some files leave the backup for their place in the application.
LEMMA SwapComeHome ==
  ASSUME IInv, phase = "revert", phase' # "destroyed", NEW S \in SUBSET Files,
         \A f \in S : /\ backup[f] \in {"old", "none"} /\ backup'[f] = "none"
                      /\ app[f] # "old" /\ app'[f] = backup[f],
         \A f \in Files \ S : /\ backup'[f] = backup[f]
                              /\ app'[f] = "old" <=> app[f] = "old"
  PROVE  Swap!Next
<1> DEFINE H == {f \in S : backup[f] = "old"}
<1>1. \A f \in H : place[f] = "aside"
  BY DEF place
<1>2. \A f \in Files : place'[f] = IF f \in H THEN "home" ELSE place[f]
  BY DEF place
<1>3. place' = [f \in Files |-> IF f \in H THEN "home" ELSE place[f]]
  BY <1>2 DEF place
<1>4. ~over /\ over' = over
  BY DEF over
<1>5. Swap!ComeHome(H)
  BY <1>1, <1>3, <1>4 DEF Swap!ComeHome
<1>6. QED
  BY <1>5 DEF Swap!Next

\* A file in the way of a new one is put aside.
LEMMA SwapSave ==
  ASSUME IInv, Save
  PROVE  Swap!Next \/ UNCHANGED Swap!vars
<1>1. /\ current \in Files /\ phase = "update" /\ phase' = "update"
      /\ app[current] \in {"none", "old"}
      /\ app[current] = "old" => backup[current] = "none"
  BY DEF Save, IInv, TypeOK, EntryInv, DoneInv, BackupIsOld, Contents
<1>2. CASE app[current] = "old" /\ app' # app
  <2>1. /\ backup' = [backup EXCEPT ![current] = "old"]
        /\ app' = [app EXCEPT ![current] = "none"]
    BY <1>1, <1>2 DEF Save
  <2>2. place[current] = "home"
    BY <1>1, <1>2 DEF place
  <2>3. place' = [place EXCEPT ![current] = "aside"]
    <3>1. \A f \in Files : place'[f] = IF f = current THEN "aside" ELSE place[f]
      BY <1>1, <2>1 DEF place, IInv, TypeOK
    <3>2. QED
      BY <1>1, <3>1 DEF place
  <2>4. ~over /\ over' = over
    BY <1>1 DEF over
  <2>5. QED
    BY <1>1, <2>2, <2>3, <2>4 DEF Swap!PutAside, Swap!Next
<1>3. CASE ~(app[current] = "old" /\ app' # app)
  <2>1. UNCHANGED <<app, backup>>
    BY <1>1, <1>3 DEF Save, IInv, TypeOK
  <2>2. QED
    BY <1>1, <2>1, SwapStutter
<1>4. QED
  BY <1>2, <1>3

\* The new file comes to a place that was cleared: no original moves.
LEMMA SwapInstall ==
  ASSUME IInv, Install
  PROVE  UNCHANGED Swap!vars
<1>1. /\ current \in Files /\ phase = "update" /\ phase' = "update"
      /\ app[current] = "none" /\ backup' = backup
      /\ app' \in {app, [app EXCEPT ![current] = "new"]}
  BY DEF Install, MoveIn, EntryDone, EntryFailed, IInv, TypeOK, EntryInv
<1>2. \A f \in Files : app'[f] = "old" <=> app[f] = "old"
  BY <1>1 DEF IInv, TypeOK
<1>3. place' = place /\ over' = over
  BY <1>1, <1>2 DEF place, over
<1>4. QED
  BY <1>3 DEF Swap!vars

LEMMA SwapRevertFile ==
  ASSUME IInv, NEW f \in Files, RevertFile(f)
  PROVE  Swap!Next
<1>1. /\ backup[f] = "old" /\ app[f] # "old"
      /\ phase = "revert" /\ phase' = "revert"
  BY DEF RevertFile, Visitable, IInv, PendingInv, BackupIsOld, TypeOK, Contents
<1>2. CASE /\ app' = [app EXCEPT ![f] = backup[f]]
           /\ backup' = [backup EXCEPT ![f] = "none"]
  BY <1>1, <1>2, SwapComeHome, {f} \in SUBSET Files DEF IInv, TypeOK
<1>3. CASE /\ app' \in {app, [app EXCEPT ![f] = "none"]}
           /\ UNCHANGED backup
  <2>1. \A g \in Files : app'[g] = "old" <=> app[g] = "old"
    BY <1>1, <1>3 DEF IInv, TypeOK
  <2>2. QED
    BY <1>1, <1>3, <2>1, SwapComeHome, {} \in SUBSET Files
<1>4. QED
  BY <1>2, <1>3 DEF RevertFile

LEMMA SwapMoveDirectory ==
  ASSUME IInv, NEW d \in Dirs, phase = "revert", EmptyInApp(d), MoveDirectory(d)
  PROVE  Swap!Next
<1> DEFINE S == {f \in Files : DirOf[f] = d}
<1>1. \A f \in S : /\ backup[f] \in {"old", "none"} /\ backup'[f] = "none"
                   /\ app[f] # "old" /\ app'[f] = backup[f]
  BY DEF EmptyInApp, MoveDirectory, IInv, BackupIsOld, TypeOK, Contents
<1>2. \A f \in Files \ S : /\ backup'[f] = backup[f]
                           /\ app'[f] = "old" <=> app[f] = "old"
  BY DEF MoveDirectory
<1>3. S \in SUBSET Files /\ phase' # "destroyed"
  BY DEF MoveDirectory
<1> HIDE DEF S
<1>4. QED
  BY <1>1, <1>2, <1>3, SwapComeHome

LEMMA SwapDestroy == IInv /\ Destroy => Swap!Next
<1> SUFFICES ASSUME IInv, Destroy PROVE Swap!Next
  OBVIOUS
<1> DEFINE S == {f \in Files : backup[f] = "old" /\ backup'[f] = "none"}
<1>1. /\ app' = app /\ phase # "destroyed" /\ phase' = "destroyed"
      /\ \A f \in Files : backup'[f] \in {backup[f], "none"}
  BY DEF Destroy
<1>2. \A f \in S : place[f] = "aside"
  BY DEF place, IInv, BackupIsOld
<1>3. \A f \in Files : place'[f] = IF f \in S THEN "gone" ELSE place[f]
  BY <1>1 DEF place, IInv, BackupIsOld
<1>4. place' = [f \in Files |-> IF f \in S THEN "gone" ELSE place[f]]
  BY <1>3 DEF place
<1>5. ~over /\ over' = TRUE
  BY <1>1 DEF over
<1>6. Swap!GiveUp(S)
  BY <1>2, <1>4, <1>5 DEF Swap!GiveUp
<1>7. QED
  BY <1>6 DEF Swap!Next

LEMMA SwapNext == IInv /\ [Next]_vars => [Swap!Next]_(Swap!vars)
<1> SUFFICES ASSUME IInv, [Next]_vars
             PROVE  Swap!Next \/ UNCHANGED Swap!vars
  OBVIOUS
<1> USE DEF given, disk, entry
<1>1. CASE Update \/ Revert \/ EndRevert \/ EndUpdate
  BY <1>1, SwapStutter DEF Update, Revert, EndRevert, EndUpdate
<1>2. ASSUME NEW f \in Files, BeginEntry(f) PROVE UNCHANGED Swap!vars
  <2>1. phase = "update" /\ phase' = "update"
    BY <1>2 DEF BeginEntry
  <2>2. QED
    BY <1>2, <2>1, SwapStutter DEF BeginEntry
<1>3. CASE Try \/ Throw \/ CreateDirectories
  <2>1. phase = "update" /\ phase' # "destroyed"
    BY <1>3 DEF Try, Throw, CreateDirectories, IInv, EntryInv
  <2>2. UNCHANGED <<app, backup>>
    BY <1>3 DEF Try, Throw, CreateDirectories
  <2>3. QED
    BY <2>1, <2>2, SwapStutter
<1>4. ASSUME NEW d \in Dirs, RevertDirectory(d)
      PROVE  Swap!Next \/ UNCHANGED Swap!vars
  <2>1. CASE EmptyInApp(d) /\ MoveDirectory(d)
    BY <1>4, <2>1, SwapMoveDirectory DEF RevertDirectory
  <2>2. CASE UNCHANGED <<app, backup, phase>>
    BY <1>4, <2>2, SwapStutter DEF RevertDirectory
  <2>3. QED
    BY <1>4, <2>1, <2>2 DEF RevertDirectory
<1>5. CASE UNCHANGED vars
  BY <1>5 DEF vars, Swap!vars, place, over
<1>6. QED
  BY <1>1, <1>2, <1>3, <1>4, <1>5, SwapSave, SwapInstall, SwapRevertFile,
     SwapDestroy DEF Next, Updating, UpdateEntry, Reverting

(***************************************************************************)
(* Until the destructor no original is lost: FileUpdater implements        *)
(* FileSwap for every manifest, every layout of directories, every number  *)
(* of retries, and every failure.                                          *)
(***************************************************************************)
THEOREM UpdaterImplementsSwap == Spec => ImplementsSwap
<1>1. Spec => []IInv
  BY InitIInv, NextIInv, PTL DEF Spec
<1>2. QED
  BY <1>1, SwapInit, SwapNext, PTL DEF Spec, ImplementsSwap, Swap!Spec

-----------------------------------------------------------------------------
(***************************************************************************)
(* update() and revert() have only so many steps to take.                  *)
(***************************************************************************)
\* A step of update() settles the entry or uses up one of its tries.
LEMMA UpdateRunsDown ==
  ASSUME IInv, Next, phase = "update", phase' = "update"
  PROVE  \/ Shrinks(todo', todo)
         \/ todo' = todo /\ EntryLeft \in Nat /\ EntryLeft' < EntryLeft
<1> USE UpdaterAssumption DEF given, IInv
<1>1. MaxRetries - retries \in Nat /\ retries \in Nat
  BY DEF TypeOK
<1>2. EntryLeft \in Nat
  BY <1>1 DEF TypeOK, EntryLeft
<1>3. ASSUME step # "idle", EntryDone PROVE Shrinks(todo', todo)
  BY <1>3 DEF EntryDone, EntryInv, Shrinks
<1>4. ASSUME step \in {"dirs", "save", "install"}, EntryFailed
      PROVE  todo' = todo /\ EntryLeft' < EntryLeft
  BY <1>1, <1>4 DEF EntryFailed, EntryLeft
<1>5. ASSUME NEW f \in Files, BeginEntry(f) PROVE todo' = todo /\ EntryLeft' < EntryLeft
  <2>1. step = "idle"
    BY <1>5 DEF BeginEntry, EntryInv
  <2> QED BY <1>1, <1>5, <2>1 DEF BeginEntry, EntryLeft
<1>6. CASE Try
  <2>1. CASE EntryDone
    BY <1>3, <1>6, <2>1 DEF Try
  <2>2. CASE step' = "dirs" /\ retries' = retries + 1 /\ todo' = todo
    BY <1>1, <1>2, <1>6, <2>2 DEF Try, EntryLeft
  <2> QED BY <1>6, <2>1, <2>2 DEF Try
<1>7. CASE CreateDirectories
  <2>1. CASE EntryFailed
    BY <1>2, <1>4, <1>7, <2>1 DEF CreateDirectories
  <2>2. CASE step' = "save" /\ UNCHANGED <<todo, retries>>
    BY <1>1, <1>2, <1>7, <2>2 DEF CreateDirectories, EntryLeft
  <2> QED BY <1>7, <2>1, <2>2 DEF CreateDirectories
<1>8. CASE Save
  <2>1. CASE EntryFailed
    BY <1>2, <1>4, <1>8, <2>1 DEF Save
  <2>2. CASE step' = "install" /\ UNCHANGED <<todo, retries>>
    BY <1>1, <1>2, <1>8, <2>2 DEF Save, EntryLeft
  <2> QED BY <1>8, <2>1, <2>2 DEF Save
<1>9. CASE Install
  <2>1. EntryDone \/ EntryFailed
    BY <1>9 DEF Install
  <2> QED BY <1>2, <1>3, <1>4, <1>9, <2>1 DEF Install
<1>10. ~Throw /\ ~EndUpdate /\ ~Update /\ ~Revert /\ ~Destroy /\ ~Reverting
  BY DEF Throw, EndUpdate, Update, Revert, Destroy, Reverting, RevertFile,
         RevertDirectory, EndRevert
<1> QED
  BY <1>2, <1>5, <1>6, <1>7, <1>8, <1>9, <1>10 DEF Next, Updating, UpdateEntry

\* A step of revert() visits what it knows of, directories with their files.
LEMMA RevertRunsDown ==
  ASSUME IInv, Next, phase = "revert", phase' = "revert"
  PROVE  \/ Shrinks(pending' \intersect Dirs, pending \intersect Dirs)
         \/ /\ pending' \intersect Dirs = pending \intersect Dirs
            /\ Shrinks(pending', pending)
<1> USE UpdaterAssumption DEF given, IInv, Visitable
<1>1. ASSUME NEW f \in Files, RevertFile(f)
      PROVE  /\ pending' \intersect Dirs = pending \intersect Dirs
             /\ Shrinks(pending', pending)
  BY <1>1 DEF RevertFile, Shrinks
<1>2. ASSUME NEW d \in Dirs, RevertDirectory(d)
      PROVE  Shrinks(pending' \intersect Dirs, pending \intersect Dirs)
  <2>1. d \in pending /\ d # Root
    BY <1>2 DEF RevertDirectory, PendingInv
  <2>2. Listing(d) \subseteq Files
    BY <2>1 DEF Listing, Saved
  <2>3. pending' = (pending \ {d}) \union Listing(d)
    BY <1>2 DEF RevertDirectory, MoveDirectory
  <2>4. pending' \intersect Dirs = (pending \intersect Dirs) \ {d}
    BY <2>2, <2>3
  <2> QED BY <2>1, <2>4 DEF Shrinks
<1>3. ~Update /\ ~Revert /\ ~Destroy /\ ~EndRevert /\ ~Updating
  BY DEF Update, Revert, Destroy, EndRevert, Updating, BeginEntry, EndUpdate,
         UpdateEntry, Try, Throw, CreateDirectories, Save, Install, EntryInv
<1> QED
  BY <1>1, <1>2, <1>3 DEF Next, Reverting

\* Whatever manifest, retries and failures: update() and revert() cannot go on
\* for ever, because each step leaves less (the safety half of CallsEnd).
THEOREM CallsOnlyRunDown == Spec => CallsRunDown
<1>1. IInv /\ [Next]_vars =>
        [/\ phase = "update" =>
              \/ phase' # "update"
              \/ Shrinks(todo', todo)
              \/ todo' = todo /\ EntryLeft \in Nat /\ EntryLeft' < EntryLeft
         /\ phase = "revert" =>
              \/ phase' # "revert"
              \/ Shrinks(pending' \intersect Dirs, pending \intersect Dirs)
              \/ /\ pending' \intersect Dirs = pending \intersect Dirs
                 /\ Shrinks(pending', pending)]_vars
  BY UpdateRunsDown, RevertRunsDown
<1>2. QED
  BY <1>1, InitIInv, NextIInv, PTL DEF Spec, CallsRunDown

=============================================================================
