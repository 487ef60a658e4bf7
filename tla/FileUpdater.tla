------------------------------ MODULE FileUpdater ------------------------------
(***************************************************************************)
(* misc/file-updater.cc: the files of a manifest are replaced in the       *)
(* application directory by those of a directory of new files; what was    *)
(* there moves to a directory "old-files", from which revert() moves it    *)
(* back, and which the destructor removes.                                 *)
(*                                                                         *)
(* A step is one call into the file system, and each may fail.  A state is *)
(* what a crash at that point leaves on the disk, so that an invariant of  *)
(* the disk is also one of every crash.  The caller updates once, may      *)
(* revert as often as it likes afterwards, and destroys the object.        *)
(***************************************************************************)
EXTENDS Integers, FiniteSets

CONSTANTS
  Files,          \* the keys of the manifest
  Dirs,           \* the directories they are in
  Root,           \* the application directory itself, or that of old files
  DirOf,          \* the directory of each file
  VersionFile,    \* the key "resources\app.asar"
  BellKey,        \* "resources", a BEL, "pp.asar": the literal of line 65
  NoFile,         \* no entry is being updated
  MaxRetries      \* max_retries

ASSUME UpdaterAssumption ==
  /\ Root \in Dirs
  /\ DirOf \in [Files -> Dirs]
  /\ NoFile \notin Files /\ BellKey \notin Files
  /\ Files \intersect Dirs = {}
  /\ MaxRetries \in Nat

VARIABLES
  manifest,       \* what is to become of each file
  original,       \* the files the application had before
  fresh,          \* the files in the directory of new files
  app,            \* each file of the application directory
  backup,         \* each file of the directory "old-files"
  appDirs,        \* the directories in the application directory
  backupDirs,     \* the directories in "old-files", with itself as Root
  phase,          \* how far the caller is
  todo,           \* the entries update() has not done
  current,        \* the entry it is busy with
  retries,
  step,           \* where update_entry is
  pending,        \* the entries revert() knows of and has not visited
  faulted         \* a call of the last revert() failed without a reason

given == <<manifest, original>>
disk == <<fresh, app, backup, appDirs, backupDirs>>
entry == <<todo, current, retries, step>>
vars == <<given, disk, phase, entry, pending, faulted>>

Contents == {"none", "old", "new"}

TypeOK ==
  /\ manifest \in [Files -> {"replace", "remove", "skip"}]
  /\ original \subseteq Files
  /\ fresh \subseteq Files
  /\ app \in [Files -> Contents]
  /\ backup \in [Files -> Contents]
  /\ appDirs \subseteq Dirs
  /\ backupDirs \subseteq Dirs
  /\ phase \in {"built", "update", "updated", "failed", "revert", "reverted",
                "thrown", "destroyed"}
  /\ todo \subseteq Files
  /\ current \in Files \union {NoFile}
  /\ retries \in 0..MaxRetries
  /\ step \in {"idle", "try", "dirs", "save", "install"}
  /\ pending \subseteq Files \union Dirs
  /\ faulted \in BOOLEAN

\* A new file may be missing, a file of the manifest new to the application.
Init ==
  /\ manifest \in [Files -> {"replace", "remove", "skip"}]
  /\ fresh \in SUBSET {f \in Files : manifest[f] = "replace"}
  /\ original \in SUBSET Files
  /\ app = [f \in Files |-> IF f \in original THEN "old" ELSE "none"]
  /\ backup = [f \in Files |-> "none"]
  /\ appDirs = {Root} \union {DirOf[f] : f \in original}
  /\ backupDirs = {}
  /\ phase = "built"
  /\ todo = {}
  /\ current = NoFile
  /\ retries = 0
  /\ step = "idle"
  /\ pending = {}
  /\ faulted = FALSE

-----------------------------------------------------------------------------
(***************************************************************************)
(* update().                                                               *)
(***************************************************************************)
version_file_key == BellKey

\* create_directories(m_old_files_dir) throws when it fails.
Update ==
  /\ phase = "built"
  /\ \/ phase' = "update" /\ backupDirs' = {Root} /\ todo' = Files
     \/ phase' = "failed" /\ UNCHANGED <<backupDirs, todo>>
  /\ UNCHANGED <<given, fresh, app, backup, appDirs, current, retries, step,
                 pending, faulted>>

\* The loop takes the entries in any order, that of version_file_key last.
BeginEntry(f) ==
  /\ phase = "update" /\ current = NoFile
  /\ f \in todo
  /\ f = version_file_key => todo = {f}
  /\ current' = f
  /\ step' = "try"
  /\ UNCHANGED <<given, disk, phase, todo, retries, pending, faulted>>

\* What happens to the entry, once update_entry has returned.
EntryDone ==
  /\ todo' = todo \ {current}
  /\ current' = NoFile
  /\ retries' = 0
  /\ step' = "idle"

EntryFailed == step' = "try" /\ UNCHANGED <<todo, current, retries>>

\* Mutant: a try is not counted.
TryUncounted ==
  /\ step = "try" /\ retries < MaxRetries
  /\ \/ manifest[current] = "skip" /\ EntryDone
     \/ manifest[current] # "skip" /\ step' = "dirs"
        /\ UNCHANGED <<todo, current, retries>>
  /\ UNCHANGED <<given, disk, phase, pending, faulted>>

Try ==
  /\ step = "try" /\ retries < MaxRetries
  /\ \/ /\ manifest[current] = "skip"
        /\ EntryDone
     \/ /\ manifest[current] # "skip"
        /\ step' = "dirs"
        /\ retries' = retries + 1
        /\ UNCHANGED <<todo, current>>
  /\ UNCHANGED <<given, disk, phase, pending, faulted>>

\* No try is left: update_entry_with_retries throws, and so does update().
Throw ==
  /\ step = "try" /\ retries = MaxRetries
  /\ phase' = "failed"
  /\ todo' = {} /\ current' = NoFile /\ retries' = 0 /\ step' = "idle"
  /\ UNCHANGED <<given, disk, pending, faulted>>

\* Two directories are created, that of the backup first.
CreateDirectories ==
  /\ step = "dirs"
  /\ \/ /\ backupDirs' = backupDirs \union {DirOf[current]}
        /\ appDirs' = appDirs \union {DirOf[current]}
        /\ step' = "save"
        /\ UNCHANGED <<todo, current, retries>>
     \/ /\ backupDirs' \in {backupDirs, backupDirs \union {DirOf[current]}}
        /\ UNCHANGED appDirs
        /\ EntryFailed
  /\ UNCHANGED <<given, fresh, app, backup, phase, pending, faulted>>

\* Mutant: the file in the way is removed.
RemoveForGood ==
  /\ step = "save"
  /\ app' = [app EXCEPT ![current] = "none"]
  /\ step' = "install"
  /\ UNCHANGED <<given, fresh, backup, appDirs, backupDirs, phase, todo,
                 current, retries, pending, faulted>>

\* A file in the way moves to the backup, over whatever the backup has of it.
Save ==
  /\ step = "save"
  /\ \/ /\ app[current] # "none"
        /\ backup' = [backup EXCEPT ![current] = app[current]]
        /\ app' = [app EXCEPT ![current] = "none"]
        /\ step' = "install"
        /\ UNCHANGED <<todo, current, retries>>
     \/ /\ app[current] = "none"
        /\ step' = "install"
        /\ UNCHANGED <<app, backup, todo, current, retries>>
     \/ /\ EntryFailed
        /\ UNCHANGED <<app, backup>>
  /\ UNCHANGED <<given, fresh, appDirs, backupDirs, phase, pending, faulted>>

\* The new file moves in.  What reset_rights answers is not asked.
MoveIn ==
  /\ current \in fresh
  /\ fresh' = fresh \ {current}
  /\ app' = [app EXCEPT ![current] = "new"]

\* Mutant: rights that cannot be reset fail the entry.
InstallAskingRights ==
  /\ step = "install"
  /\ \/ manifest[current] = "replace" /\ MoveIn /\ (EntryDone \/ EntryFailed)
     \/ manifest[current] = "remove" /\ EntryDone /\ UNCHANGED <<fresh, app>>
     \/ manifest[current] = "replace" /\ EntryFailed /\ UNCHANGED <<fresh, app>>
  /\ UNCHANGED <<given, backup, appDirs, backupDirs, phase, pending, faulted>>

\* Mutant: a file that does not move in is not noticed.
InstallUnchecked ==
  /\ step = "install"
  /\ EntryDone
  /\ \/ manifest[current] = "replace" /\ MoveIn
     \/ UNCHANGED <<fresh, app>>
  /\ UNCHANGED <<given, backup, appDirs, backupDirs, phase, pending, faulted>>

Install ==
  /\ step = "install"
  /\ \/ /\ manifest[current] = "replace"
        /\ MoveIn
        /\ EntryDone
     \/ /\ manifest[current] = "remove"
        /\ EntryDone
        /\ UNCHANGED <<fresh, app>>
     \/ /\ manifest[current] = "replace"
        /\ EntryFailed
        /\ UNCHANGED <<fresh, app>>
  /\ UNCHANGED <<given, backup, appDirs, backupDirs, phase, pending, faulted>>

EndUpdate ==
  /\ phase = "update" /\ todo = {}
  /\ phase' = "updated"
  /\ UNCHANGED <<given, disk, entry, pending, faulted>>

-----------------------------------------------------------------------------
(***************************************************************************)
(* revert().                                                               *)
(***************************************************************************)
Saved == {f \in Files : backup[f] # "none"}

\* What the iterator finds in directory d of the backup.
Listing(d) ==
  {f \in Saved : DirOf[f] = d}
    \union (IF d = Root THEN backupDirs \ {Root} ELSE {})

\* Without a backup directory the iterator's constructor throws.
Revert ==
  /\ phase \in {"updated", "failed", "reverted", "thrown"}
  /\ \/ Root \in backupDirs /\ phase' = "revert" /\ pending' = Listing(Root)
     \/ Root \notin backupDirs /\ phase' = "thrown" /\ UNCHANGED pending
  /\ faulted' = FALSE
  /\ UNCHANGED <<given, disk, entry>>

\* The iterator is inside a directory until its files are done.
Visitable ==
  LET nested == {x \in pending \intersect Files : DirOf[x] # Root}
  IN  IF nested # {} THEN nested ELSE pending

\* The changed file is removed and the saved one renamed to its place; the
\* rename replaces what the removal could not remove.
RevertFile(f) ==
  /\ phase = "revert" /\ f \in Visitable \intersect Files
  /\ pending' = pending \ {f}
  /\ \/ /\ DirOf[f] \in appDirs
        /\ app' = [app EXCEPT ![f] = backup[f]]
        /\ backup' = [backup EXCEPT ![f] = "none"]
        /\ UNCHANGED faulted
     \/ /\ app' \in {app, [app EXCEPT ![f] = "none"]}
        /\ faulted' = TRUE
        /\ UNCHANGED backup
  /\ UNCHANGED <<given, fresh, appDirs, backupDirs, phase, entry>>

EmptyInApp(d) == \A f \in Files : DirOf[f] = d => app[f] = "none"

\* A directory that is not in the way takes the one of the backup whole; the
\* iterator, which cannot open what has moved, throws.
MoveDirectory(d) ==
  /\ app' = [f \in Files |-> IF DirOf[f] = d THEN backup[f] ELSE app[f]]
  /\ backup' = [f \in Files |-> IF DirOf[f] = d THEN "none" ELSE backup[f]]
  /\ appDirs' = appDirs \union {d}
  /\ backupDirs' = backupDirs \ {d}
  /\ phase' = "thrown"
  /\ pending' = {}

\* Mutant: the iterator does not go into the directory.
SkipDirectory(d) ==
  /\ phase = "revert" /\ d \in Visitable \intersect Dirs
  /\ pending' = pending \ {d}
  /\ UNCHANGED <<given, disk, phase, entry, faulted>>

\* The same two calls on a directory: removing one that has files fails, and
\* so does renaming to one that is still there.
RevertDirectory(d) ==
  /\ phase = "revert" /\ d \in Visitable \intersect Dirs
  /\ \/ /\ EmptyInApp(d)
        /\ MoveDirectory(d)
        /\ UNCHANGED faulted
     \/ /\ pending' = (pending \ {d}) \union Listing(d)
        /\ \/ UNCHANGED appDirs
           \/ EmptyInApp(d) /\ appDirs' = appDirs \ {d}
        /\ faulted' = (faulted \/ EmptyInApp(d))
        /\ UNCHANGED <<app, backup, backupDirs, phase>>
  /\ UNCHANGED <<given, fresh, entry>>

EndRevert ==
  /\ phase = "revert" /\ pending = {}
  /\ phase' = "reverted"
  /\ UNCHANGED <<given, disk, entry, pending, faulted>>

-----------------------------------------------------------------------------
\* ~FileUpdater removes the backup, or as much of it as can be removed.
Destroy ==
  /\ phase \in {"built", "updated", "failed", "reverted", "thrown"}
  /\ phase' = "destroyed"
  /\ \E kept \in SUBSET Saved :
       backup' = [f \in Files |-> IF f \in kept THEN backup[f] ELSE "none"]
  /\ backupDirs' \in SUBSET backupDirs
  /\ {DirOf[f] : f \in {g \in Files : backup'[g] # "none"}} \subseteq backupDirs'
  /\ UNCHANGED <<given, fresh, app, appDirs, entry, pending, faulted>>

UpdateEntry == Try \/ Throw \/ CreateDirectories \/ Save \/ Install

Updating == (\E f \in Files : BeginEntry(f)) \/ UpdateEntry \/ EndUpdate

Reverting ==
  \/ \E f \in Files : RevertFile(f)
  \/ \E d \in Dirs : RevertDirectory(d)
  \/ EndRevert

Next == Update \/ Updating \/ Revert \/ Reverting \/ Destroy

Spec == Init /\ [][Next]_vars

\* A call that was made goes on until it returns.
FairSpec == Spec /\ WF_vars(Updating) /\ WF_vars(Reverting)

-----------------------------------------------------------------------------
(***************************************************************************)
(* Properties.                                                             *)
(***************************************************************************)
\* When update() returns, every entry is as the manifest wants it, and the
\* original of each that was replaced or removed is in the backup
\* (file-updater.cc:61-80, 132-143).
Before(f) == IF f \in original THEN "old" ELSE "none"

Settled(f) ==
  /\ manifest[f] = "replace" => app[f] = "new" /\ backup[f] = Before(f)
  /\ manifest[f] = "remove" => app[f] = "none" /\ backup[f] = Before(f)
  /\ manifest[f] = "skip" => app[f] = Before(f) /\ backup[f] = "none"

UpdateIsComplete == phase = "updated" => \A f \in Files : Settled(f)

\* The backup never holds a file that update() has put there itself: a retry
\* (file-updater.cc:87) saves no second time what it has already replaced.
BackupIsOld ==
  \A f \in Files : backup[f] # "new" /\ (backup[f] = "old" => app[f] # "old")

\* A revert() that returns, and whose calls all did what they could, leaves
\* no original in the backup (file-updater.cc:203-223).
RevertRestores ==
  phase = "reverted" /\ ~faulted => \A f \in Files : backup[f] = "none"

\* update() and revert() come to their end, whatever fails.
CallsEnd ==
  /\ phase = "update" ~> phase \in {"updated", "failed"}
  /\ phase = "revert" ~> phase \in {"reverted", "thrown"}

(***************************************************************************)
(* Why CallsEnd holds: what each call has left to do.                      *)
(***************************************************************************)
Shrinks(less, set) == less \subseteq set /\ less # set

\* The steps the current entry may still take with all its retries.
EntryLeft ==
  4 * (MaxRetries - retries) +
  CASE step = "idle" -> 4 [] step = "dirs" -> 3 [] step = "save" -> 2
    [] step = "install" -> 1 [] step = "try" -> 0

\* Each step of update() settles an entry, or leaves fewer steps for the one it
\* is at, whatever fails (file-updater.cc:83-99); each step of revert() visits
\* a directory, or a file behind the directories that are left
\* (file-updater.cc:203-223); or the call returns.
CallsRunDown ==
  [][/\ phase = "update" =>
          \/ phase' # "update"
          \/ Shrinks(todo', todo)
          \/ todo' = todo /\ EntryLeft \in Nat /\ EntryLeft' < EntryLeft
     /\ phase = "revert" =>
          \/ phase' # "revert"
          \/ Shrinks(pending' \intersect Dirs, pending \intersect Dirs)
          \/ /\ pending' \intersect Dirs = pending \intersect Dirs
             /\ Shrinks(pending', pending)]_vars

(***************************************************************************)
(* The files there were before.                                            *)
(***************************************************************************)
place ==
  [f \in Files |->
    CASE app[f] = "old" -> "home"
      [] backup[f] = "old" -> "aside"
      [] OTHER -> "gone"]

over == phase = "destroyed"

Swap == INSTANCE FileSwap

\* Until the destructor every original is at home or aside, and moves only
\* between the two, through every failure, retry and revert.
ImplementsSwap == Swap!Spec

(***************************************************************************)
(* What the repository says of the code and the code does not keep.        *)
(***************************************************************************)
\* file-updater.cc:75-79 updates the version file after all others.
VersionFileLast ==
  VersionFile \in Files /\ app[VersionFile] = "new" =>
    todo \subseteq {VersionFile}

(***************************************************************************)
(* The inductive invariant of the proofs in FileUpdater_proofs.            *)
(***************************************************************************)
\* update_entry works on an entry still to do, whose place it has cleared
\* before it moves the new file in.
EntryInv ==
  /\ current = NoFile <=> step = "idle"
  /\ step # "idle" => phase = "update" /\ current \in todo
  /\ phase # "update" => todo = {}
  /\ step \in {"dirs", "save", "install"} => manifest[current] # "skip"
  /\ step \in {"save", "install"} => DirOf[current] \in backupDirs
  /\ step = "install" => app[current] = "none"

\* Before its turn no file is new, after it every file is settled; until the
\* destructor the originals are in one of the two places.
DoneInv ==
  /\ phase = "built" => \A f \in Files : app[f] # "new" /\ backup[f] = "none"
  /\ \A f \in todo : app[f] # "new"
  /\ \A f \in Files : manifest[f] = "skip" => app[f] # "new" /\ backup[f] = "none"
  /\ phase \in {"update", "updated"} => \A f \in Files \ todo : Settled(f)
  /\ phase # "destroyed" =>
       \A f \in Files : f \in original <=> app[f] = "old" \/ backup[f] = "old"

\* revert() has still to come to whatever the backup holds.
PendingInv ==
  /\ \A f \in Files : backup[f] # "none" => DirOf[f] \in backupDirs
  /\ pending # {} => phase = "revert"
  /\ Root \notin pending
  /\ \A f \in pending \intersect Files : backup[f] # "none"
  /\ phase \in {"revert", "reverted"} /\ ~faulted => \A f \in Files :
       backup[f] # "none" => f \in pending \/ (DirOf[f] # Root /\ DirOf[f] \in pending)

IInv ==
  /\ TypeOK
  /\ BackupIsOld
  /\ EntryInv
  /\ DoneInv
  /\ PendingInv

=============================================================================
