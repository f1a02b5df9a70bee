----------------------------- MODULE StagedOutput -----------------------------
(***************************************************************************)
(* write_validated, validate_without_publish and                           *)
(* write_with_private_input_snapshot of                                    *)
(* crates/hwp-cli/src/commands/output.rs: several hwp processes write the  *)
(* same destination, from the destination itself (an edit in place) or     *)
(* from another input, while another program may write both files.         *)
(*                                                                         *)
(* platform selects the publication of the build: one rename (unix),       *)
(* ReplaceFileW with a backup (windows), or the rename machine of          *)
(* publish_with_recovery (other).  Calls may fail, at most MaxFaults times *)
(* in a behaviour, and a process may die between any two of its calls.     *)
(***************************************************************************)
EXTENDS OutputFs

CONSTANTS
  Procs,      \* the processes, numbers
  Platforms,  \* the builds, out of "unix", "windows" and "other"
  Apis,       \* for each build the entry points in use, "direct" or "snapshot"
  MaxExt,     \* bound: writes of another program
  MaxFaults   \* bound: for each build the calls that fail

ASSUME ProcsAssumption    == Procs \subseteq Nat
ASSUME PlatformAssumption == Platforms \subseteq {"unix", "windows", "other"}
ASSUME ApisAssumption     == Apis \in [Platforms -> SUBSET {"direct", "snapshot"}]
ASSUME BoundsAssumption   == MaxExt \in Nat /\ MaxFaults \in [Platforms -> Nat]

VARIABLES
  platform,   \* the build all of them run
  dest,       \* the version at the destination
  input,      \* the version at the other input path
  api,        \* api[p]: "direct" (write_validated) or "snapshot"
  mode,       \* mode[p]: SnapshotOutputMode
  source,     \* source[p]: the input is the destination ("same"), another
              \* file ("other"), a link to the destination ("link") or absent
  snapshot,   \* snapshot[p]: the destination when p started
  workspace,  \* processes whose private workspace exists
  opened,     \* opened[p]: the input version when p opened it
  handle,     \* handle[p]: what p's open file holds now
  got,        \* got[p]: the versions p read bytes of
  staged,     \* staged[p]: the version at the staged path
  backup,     \* backup[p]: the version at workspace/destination.backup
  preserve,   \* processes with preserve_workspace set
  pc,
  result,     \* result[p]: what p's caller is told
  ext,
  faults,
  checked,    \* observer: processes whose recheck passed
  raced,      \* observer: those whose destination somebody else then changed
  moved       \* observer: processes whose new file reached the destination

given  == <<platform, api, mode, source>>
copies == <<opened, handle, got>>
vars   == <<dest, input, given, snapshot, workspace, copies, staged, backup,
            preserve, pc, result, ext, faults, checked, raced, moved>>

PCs == {"new", "open", "first", "second", "compare", "write", "verify",
        "recheck", "perms", "rename", "replace", "clear", "exists", "aside",
        "in", "restore", "copyback", "forget", "drop", "done", "dead"}
Results == {"none", "ok", "warned", "unpublished", "error", "kept"}

TypeOK ==
  /\ platform \in Platforms
  /\ dest \in Version /\ input \in Version
  /\ api \in [Procs -> Apis[platform]]
  /\ mode \in [Procs -> {"plan", "validate", "publish"}]
  /\ source \in [Procs -> {"none", "same", "other", "link"}]
  /\ snapshot \in [Procs -> Version]
  /\ workspace \subseteq Procs
  /\ opened \in [Procs -> Version]
  /\ handle \in [Procs -> Version]
  /\ got \in [Procs -> SUBSET Version]
  /\ staged \in [Procs -> Version]
  /\ backup \in [Procs -> Version]
  /\ preserve \subseteq Procs
  /\ pc \in [Procs -> PCs]
  /\ result \in [Procs -> Results]
  /\ ext \in 0..MaxExt
  /\ faults \in 0..MaxFaults[platform]
  /\ checked \subseteq Procs
  /\ raced \subseteq checked
  /\ moved \subseteq Procs
  /\ \A p \in Procs :
       /\ staged[p] # Missing \/ backup[p] # Missing => p \in workspace
       /\ pc[p] \in {"drop", "done"} => result[p] # "none"

\* validate_without_publish is the direct call that validates only; the direct
\* calls have no plan mode, and a snapshot needs an input.
Init ==
  /\ platform \in Platforms
  /\ dest \in {Missing, Unsafe, Old(0)}
  /\ input = Old(1)
  /\ api \in [Procs -> Apis[platform]]
  /\ mode \in [Procs -> {"plan", "validate", "publish"}]
  /\ source \in [Procs -> {"none", "same", "other", "link"}]
  /\ \A p \in Procs : /\ api[p] = "direct" => mode[p] # "plan"
                      /\ api[p] = "snapshot" => source[p] # "none"
  /\ snapshot = [p \in Procs |-> Missing]
  /\ workspace = {}
  /\ opened = [p \in Procs |-> Missing]
  /\ handle = [p \in Procs |-> Missing]
  /\ got = [p \in Procs |-> {}]
  /\ staged = [p \in Procs |-> Missing]
  /\ backup = [p \in Procs |-> Missing]
  /\ preserve = {}
  /\ pc = [p \in Procs |-> "new"]
  /\ result = [p \in Procs |-> "none"]
  /\ ext = 0
  /\ faults = 0
  /\ checked = {}
  /\ raced = {}
  /\ moved = {}

At(p, here)   == pc[p] = here
Goto(p, next) == pc' = [pc EXCEPT ![p] = next] /\ result' = result
Return(p, r)  == pc' = [pc EXCEPT ![p] = "drop"] /\ result' = [result EXCEPT ![p] = r]

Fault          == faults < MaxFaults[platform] /\ faults' = faults + 1
Fails(blocked) == (blocked /\ faults' = faults) \/ Fault

\* The file the command reads.
Source(p) == IF source[p] = "other" THEN input ELSE dest

\* The others who have rechecked the destination are raced.
Races(others) == raced' = raced \cup (checked \cap others)

\* p changes the destination.
Put(p, v) == dest' = v /\ Races(Procs \ {p})
KeepDest  == UNCHANGED <<dest, raced>>

\* A file that holds v is rewritten in place: whoever has it open sees w.  A
\* rename or a deletion changes nothing for those.
Rewrite(v, w) == handle' = [p \in Procs |-> IF handle[p] = v THEN w ELSE handle[p]]

(***************************************************************************)
(* Staging                                                                 *)
(***************************************************************************)

\* reject_unsafe_alias: an edit in place needs the file, and a link to the
\* destination is refused; one file spelled in two ways is accepted.
Aliased(p) ==
  \/ source[p] = "same" /\ dest = Missing
  \/ source[p] = "link" /\ dest # Missing

\* StagedOutput::new.
New_(p) ==
  /\ At(p, "new")
  /\ \/ /\ Inspectable(dest) /\ ~Aliased(p)
        /\ snapshot' = [snapshot EXCEPT ![p] = dest]
        /\ workspace' = workspace \cup {p}
        /\ Goto(p, IF source[p] = "none" THEN "write" ELSE "open")
        /\ faults' = faults
     \/ /\ Fails(~Inspectable(dest) \/ Aliased(p))
        /\ Return(p, "error")
        /\ UNCHANGED <<snapshot, workspace>>
  /\ KeepDest
  /\ UNCHANGED <<input, given, copies, staged, backup, preserve, ext, checked, moved>>

\* The input is opened.  copy_input_snapshot refuses a link, and a path that
\* does not name the file it opened.
OpenInput(p) ==
  LET refused == \/ Source(p) \in {Missing, Unsafe}
                 \/ api[p] = "snapshot" /\ source[p] = "link"
  IN /\ At(p, "open")
     /\ \/ /\ ~refused
           /\ opened' = [opened EXCEPT ![p] = Source(p)]
           /\ handle' = [handle EXCEPT ![p] = Source(p)]
           /\ Goto(p, "first")
           /\ faults' = faults
        \/ /\ Fails(refused)
           /\ Return(p, "error")
           /\ UNCHANGED <<opened, handle>>
     /\ KeepDest
     /\ UNCHANGED <<input, given, snapshot, workspace, got, staged, backup,
                    preserve, ext, checked, moved>>

\* The input is read in two pieces: by the copy loop, or by a direct writer.
ReadInput(p) ==
  /\ \/ At(p, "first") /\ Goto(p, "second")
     \/ /\ At(p, "second")
        /\ Goto(p, IF api[p] = "snapshot" THEN "compare" ELSE "write")
  /\ got' = [got EXCEPT ![p] = @ \cup {handle[p]}]
  /\ KeepDest
  /\ UNCHANGED <<input, given, snapshot, workspace, opened, handle, staged, backup,
                 preserve, ext, faults, checked, moved>>

\* Mutant: the input is not looked at again after the copy.
CompareNothing(p) ==
  /\ At(p, "compare")
  /\ Goto(p, "write")
  /\ faults' = faults
  /\ KeepDest
  /\ UNCHANGED <<input, given, snapshot, workspace, copies, staged, backup,
                 preserve, ext, checked, moved>>

\* After the copy, the handle and the path must be what was opened.
CompareInput(p) ==
  /\ At(p, "compare")
  /\ LET same == handle[p] = opened[p] /\ Source(p) = opened[p]
     IN \/ same /\ Goto(p, "write") /\ faults' = faults
        \/ Fails(~same) /\ Return(p, "error")
  /\ KeepDest
  /\ UNCHANGED <<input, given, snapshot, workspace, copies, staged, backup,
                 preserve, ext, checked, moved>>

\* The writer leaves its bytes at the staged path; a plan ends here.
RunWriter(p) ==
  /\ At(p, "write")
  /\ \/ /\ staged' = [staged EXCEPT ![p] = New(p)]
        /\ IF mode[p] = "plan" THEN Return(p, "unpublished") ELSE Goto(p, "verify")
        /\ faults' = faults
     \/ Fault /\ Return(p, "error") /\ staged' = staged
  /\ KeepDest
  /\ UNCHANGED <<input, given, snapshot, workspace, copies, backup, preserve, ext,
                 checked, moved>>

\* sync, verifier, sync; validation ends here.
Verify(p) ==
  /\ At(p, "verify")
  /\ \/ /\ IF mode[p] = "publish" THEN Goto(p, "recheck") ELSE Return(p, "unpublished")
        /\ faults' = faults
     \/ Fault /\ Return(p, "error")
  /\ KeepDest
  /\ UNCHANGED <<input, given, snapshot, workspace, copies, staged, backup,
                 preserve, ext, checked, moved>>

(***************************************************************************)
(* StagedOutput::publish                                                   *)
(***************************************************************************)

\* What publication leaves alone.
Publishing == UNCHANGED <<input, given, snapshot, copies, ext, checked>>

RecheckDestination(p) ==
  /\ At(p, "recheck")
  /\ \/ /\ Recheck(dest, snapshot[p])
        /\ checked' = checked \cup {p}
        /\ Goto(p, "perms")
        /\ faults' = faults
     \/ /\ Fails(~Recheck(dest, snapshot[p]))
        /\ Return(p, "error")
        /\ checked' = checked
  /\ KeepDest
  /\ UNCHANGED <<input, given, snapshot, workspace, copies, staged, backup,
                 preserve, ext, moved>>

\* Which publication follows: ReplaceFileW needs a file to replace.
Method(p) ==
  CASE platform = "unix"    -> "rename"
    [] platform = "other"   -> "exists"
    [] platform = "windows" -> IF snapshot[p] = Missing THEN "rename" ELSE "replace"

\* Mode or default ACL of the staged file (ReplaceFileW inherits by itself).
InheritPermissions(p) ==
  /\ At(p, "perms")
  /\ \/ Goto(p, Method(p)) /\ faults' = faults
     \/ Method(p) # "replace" /\ Fault /\ Return(p, "error")
  /\ KeepDest
  /\ Publishing
  /\ UNCHANGED <<workspace, staged, backup, preserve, moved>>

\* The staged file becomes the destination.
MoveIn(p) ==
  /\ Put(p, staged[p])
  /\ staged' = [staged EXCEPT ![p] = Missing]
  /\ moved' = moved \cup {p}

\* One rename; on unix a failed directory sync afterwards is only a warning.
Rename(p) ==
  /\ At(p, "rename")
  /\ \/ /\ MoveIn(p)
        /\ \/ Return(p, "ok") /\ faults' = faults
           \/ platform = "unix" /\ Fault /\ Return(p, "warned")
     \/ /\ Fails(dest = Unsafe)
        /\ Return(p, "error")
        /\ KeepDest /\ UNCHANGED <<staged, moved>>
  /\ Publishing
  /\ UNCHANGED <<workspace, backup, preserve>>

\* Mutant: a failed ReplaceFileW is believed to have changed nothing.
ReplaceFileTrusted(p) ==
  /\ At(p, "replace")
  /\ \/ /\ dest # Missing
        /\ backup' = [backup EXCEPT ![p] = dest]
        /\ MoveIn(p)
        /\ Goto(p, "forget")
        /\ faults' = faults
     \/ /\ dest # Missing
        /\ Fault
        /\ backup' = [backup EXCEPT ![p] = dest]
        /\ Put(p, Missing)
        /\ Return(p, "error")
        /\ UNCHANGED <<staged, moved>>
  /\ Publishing
  /\ UNCHANGED <<workspace, preserve>>

\* ReplaceFileW: all of it, nothing of it, or the old file is already at the
\* backup when it fails.
ReplaceFile(p) ==
  /\ At(p, "replace")
  /\ \/ /\ dest # Missing
        /\ backup' = [backup EXCEPT ![p] = dest]
        /\ MoveIn(p)
        /\ Goto(p, "forget")
        /\ faults' = faults
     \/ /\ Fails(dest \in {Missing, Unsafe})
        /\ Return(p, "error")
        /\ KeepDest /\ UNCHANGED <<backup, staged, moved>>
     \/ /\ dest # Missing
        /\ Fault
        /\ backup' = [backup EXCEPT ![p] = dest]
        /\ Put(p, Missing)
        /\ Goto(p, "clear")
        /\ UNCHANGED <<staged, moved>>
  /\ Publishing
  /\ UNCHANGED <<workspace, preserve>>

\* The file may be the only copy of the old content: Drop must not remove it.
KeepBackup(p) == preserve' = preserve \cup {p} /\ Return(p, "kept")

\* What stands at the destination after a failed ReplaceFileW is removed.
ClearDestination(p) ==
  /\ At(p, "clear")
  /\ \/ dest = Missing /\ Goto(p, "restore") /\ KeepDest /\ UNCHANGED <<preserve, faults>>
     \/ dest # Missing /\ Put(p, Missing) /\ Goto(p, "restore") /\ UNCHANGED <<preserve, faults>>
     \/ dest # Missing /\ Fails(dest = Unsafe) /\ KeepBackup(p) /\ KeepDest
  /\ Publishing
  /\ UNCHANGED <<workspace, staged, backup, moved>>

\* publish_with_recovery: without a destination the rename is enough.
Exists(p) ==
  /\ At(p, "exists")
  /\ \/ dest # Missing /\ Goto(p, "aside") /\ KeepDest /\ UNCHANGED <<staged, moved, faults>>
     \/ dest = Missing /\ MoveIn(p) /\ Return(p, "ok") /\ faults' = faults
     \/ dest = Missing /\ Fault /\ Return(p, "error") /\ KeepDest /\ UNCHANGED <<staged, moved>>
  /\ Publishing
  /\ UNCHANGED <<workspace, backup, preserve>>

MoveAside(p) ==
  /\ At(p, "aside")
  /\ \/ /\ dest # Missing
        /\ backup' = [backup EXCEPT ![p] = dest]
        /\ Put(p, Missing)
        /\ Goto(p, "in")
        /\ faults' = faults
     \/ Fails(dest = Missing) /\ Return(p, "error") /\ KeepDest /\ backup' = backup
  /\ Publishing
  /\ UNCHANGED <<workspace, staged, preserve, moved>>

\* A rename over a file that appeared meanwhile may fail or replace it.
RenameIn(p) ==
  /\ At(p, "in")
  /\ \/ MoveIn(p) /\ Goto(p, "forget") /\ faults' = faults
     \/ /\ Fails(dest # Missing)
        /\ Goto(p, "restore")
        /\ KeepDest /\ UNCHANGED <<staged, moved>>
  /\ Publishing
  /\ UNCHANGED <<workspace, backup, preserve>>

RestoreBackup(p) ==
  /\ At(p, "restore")
  /\ \/ /\ Put(p, backup[p])
        /\ backup' = [backup EXCEPT ![p] = Missing]
        /\ Return(p, "error")
        /\ faults' = faults
     \/ /\ Fails(dest # Missing)
        /\ Goto(p, "copyback")
        /\ KeepDest /\ backup' = backup
  /\ Publishing
  /\ UNCHANGED <<workspace, staged, preserve, moved>>

\* A copy writes into the file that stands at the destination, if one does.
Overwrite(v) == IF dest = Missing THEN handle' = handle ELSE Rewrite(dest, v)

\* Mutant: a restore by copy is taken for a full restore.
CopyBackForgets(p) ==
  /\ At(p, "copyback")
  /\ \/ Put(p, backup[p]) /\ Overwrite(backup[p]) /\ faults' = faults
     \/ Fails(dest = Unsafe) /\ KeepDest /\ handle' = handle
  /\ Return(p, "error")
  /\ preserve' = preserve
  /\ UNCHANGED <<input, given, snapshot, opened, got, ext, checked>>
  /\ UNCHANGED <<workspace, staged, backup, moved>>

\* The rename back failed: the backup is copied back, which may stop half-way,
\* and is kept either way.
\* (The copy is taken for the version it copies.)
CopyBack(p) ==
  /\ At(p, "copyback")
  /\ \/ Put(p, backup[p]) /\ Overwrite(backup[p]) /\ faults' = faults
     \/ Fails(dest = Unsafe) /\ KeepDest /\ handle' = handle
     \/ Fault /\ Put(p, Partial) /\ Overwrite(Partial)
  /\ KeepBackup(p)
  /\ UNCHANGED <<input, given, snapshot, opened, got, ext, checked>>
  /\ UNCHANGED <<workspace, staged, backup, moved>>

\* After success the backup is removed; a failure keeps it and warns.
ForgetBackup(p) ==
  /\ At(p, "forget")
  /\ \/ /\ backup' = [backup EXCEPT ![p] = Missing]
        /\ Return(p, "ok")
        /\ UNCHANGED <<preserve, faults>>
     \/ /\ Fault
        /\ preserve' = preserve \cup {p}
        /\ Return(p, "warned")
        /\ backup' = backup
  /\ KeepDest
  /\ Publishing
  /\ UNCHANGED <<workspace, staged, moved>>

(***************************************************************************)
(* Destructor, death, another program                                      *)
(***************************************************************************)

\* Drop for StagedOutput.
Drop(p) ==
  /\ At(p, "drop")
  /\ Goto(p, "done")
  /\ \/ /\ p \notin preserve
        /\ workspace' = workspace \ {p}
        /\ staged' = [staged EXCEPT ![p] = Missing]
        /\ backup' = [backup EXCEPT ![p] = Missing]
        /\ faults' = faults
     \/ /\ Fails(p \in preserve)
        /\ UNCHANGED <<workspace, staged, backup>>
  /\ KeepDest
  /\ UNCHANGED <<input, given, snapshot, copies, preserve, ext, checked, moved>>

Die(p) ==
  /\ pc[p] \notin {"done", "dead"}
  /\ Fault
  /\ Goto(p, "dead")
  /\ KeepDest
  /\ UNCHANGED <<input, given, snapshot, workspace, copies, staged, backup,
                 preserve, ext, checked, moved>>

\* Another program replaces or deletes the destination, or rewrites one of the
\* two files in place.
OtherProgram ==
  /\ ext < MaxExt
  /\ ext' = ext + 1
  /\ \/ /\ \E v \in {Missing, Unsafe, Ext(ext + 1)} : v # dest /\ dest' = v
        /\ Races(Procs)
        /\ UNCHANGED <<input, handle>>
     \/ /\ dest \notin {Missing, Unsafe}
        /\ dest' = Ext(ext + 1)
        /\ Rewrite(dest, Ext(ext + 1))
        /\ Races(Procs)
        /\ input' = input
     \/ /\ input' = Ext(ext + 1)
        /\ Rewrite(input, Ext(ext + 1))
        /\ KeepDest
  /\ UNCHANGED <<given, snapshot, workspace, opened, got, staged, backup, preserve, pc,
                 result, faults, checked, moved>>

Step(p) ==
  \/ New_(p) \/ OpenInput(p) \/ ReadInput(p) \/ CompareInput(p)
  \/ RunWriter(p) \/ Verify(p) \/ RecheckDestination(p) \/ InheritPermissions(p)
  \/ Rename(p) \/ Drop(p) \/ Die(p)

Windows(p) == platform = "windows" /\ (ReplaceFile(p) \/ ClearDestination(p))
Fallback(p) == platform = "other" /\ (Exists(p) \/ MoveAside(p) \/ RenameIn(p))
Recovery(p) ==
  /\ platform # "unix"
  /\ RestoreBackup(p) \/ CopyBack(p) \/ ForgetBackup(p)

AllStopped == (\A p \in Procs : pc[p] \in {"done", "dead"}) /\ UNCHANGED vars

Next ==
  \/ \E p \in Procs : Step(p) \/ Windows(p) \/ Fallback(p) \/ Recovery(p)
  \/ OtherProgram
  \/ AllStopped

Spec == Init /\ [][Next]_vars

(***************************************************************************)
(* Properties                                                              *)
(***************************************************************************)

\* A process only replaces the version it took its snapshot of; the result of
\* another process or an edit of the user is replaced only when it appeared
\* after the recheck (recheck_destination in publish).
NoLostUpdate ==
  [][ext' = ext /\ dest' # dest /\ dest # Missing =>
       \E p \in Procs :
         /\ pc'[p] # pc[p]
         /\ p \in raced \/ dest = snapshot[p]]_vars

\* On unix an edit in place was computed from the very version it replaced: the
\* snapshot is taken before the input is opened, so a file that changed while
\* it was read fails the recheck (StagedOutput::new before the reader, and
\* recheck_destination in publish).  On the other builds a recovery may put the
\* old file back after what stood in its place was read, and the recheck passes.
EditsWhatItReplaces ==
  platform = "unix" => \A p \in moved \ raced :
    source[p] = "same" => got[p] \subseteq {snapshot[p]}

\* The snapshot handed to the writer, and hashed, is one version of the input,
\* whatever is written to the input while it is copied.
InputIsWhole ==
  \A p \in moved : api[p] = "snapshot" => got[p] = {opened[p]}

\* When nobody else touches the destination after the recheck, the old or the
\* new file is at the destination, or the old one is in the backup that Drop
\* leaves alone: on every platform, through every failure of the recovery and
\* after a process death.
OldSurvives ==
  \A p \in checked \ raced :
    \/ dest \in {snapshot[p], New(p)}
    \/ p \in workspace /\ backup[p] = snapshot[p]

\* The caller is told what happened: success is a new file in place, an error
\* is the old file in place, and "the backup was kept" is a backup on disk.
OutcomeIsTrue ==
  \A p \in Procs : pc[p] = "done" =>
    /\ result[p] \in {"ok", "warned"} <=> p \in moved
    /\ result[p] = "kept" => p \in workspace /\ backup[p] # Missing
    /\ p \in checked \ raced =>
         CASE result[p] \in {"ok", "warned"} -> dest = New(p)
           [] result[p] = "kept" -> backup[p] = snapshot[p]
           [] OTHER -> dest = snapshot[p]
=============================================================================
