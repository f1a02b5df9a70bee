------------------------------ MODULE OutputSet ------------------------------
(***************************************************************************)
(* write_validated_files and publish_output_set of                         *)
(* crates/hwp-cli/src/commands/output.rs: several outputs (the pages of a  *)
(* PNG/SVG render, the fragments of `hwp split`) are staged beside their   *)
(* destinations, verified, and then replace the old files as one           *)
(* recoverable unit: every old file is moved to a backup, every new file   *)
(* is moved in, and a late failure removes the new files and moves the     *)
(* backups back.                                                           *)
(*                                                                         *)
(* One action is one file-system call (or a run of calls that touch only   *)
(* the private workspace).  Every call may fail, at most MaxFaults times   *)
(* in a behaviour; another program may write, replace or delete a          *)
(* destination between any two calls, at most MaxExt times; the process    *)
(* may die between any two calls.                                          *)
(***************************************************************************)
EXTENDS OutputFs

CONSTANTS
  N,          \* number of outputs handed to write_validated_files
  Paths,      \* the destinations they may name, numbers
  MaxExt,     \* bound: steps of another program
  MaxFaults   \* bound: file-system calls that fail

ASSUME NAssumption      == N \in Nat \ {0}
ASSUME PathsAssumption  == Paths \subseteq Nat
ASSUME BoundsAssumption == MaxExt \in Nat /\ MaxFaults \in Nat

Items == 1..N

VARIABLES
  target,     \* target[i]: the destination output i names
  dest,       \* dest[p]: the version at destination p
  snapshot,   \* snapshot[i]: StagedOutput.snapshot, taken when i was staged
  workspace,  \* outputs whose private sibling directory exists
  staged,     \* staged[i]: the version at StagedOutput.staged
  backup,     \* backup[i]: the version at workspace/destination.backup
  preserve,   \* outputs with StagedOutput.preserve_workspace set
  backedUp,   \* outputs whose old file was moved aside: backed_up
  published,  \* outputs whose new file was moved in: published
  recErr,     \* outputs with an entry in recovery_errors, or in warnings
  pc,         \* the next call of the process
  k,          \* the index the current loop is at
  result,     \* what the caller is told
  faults,     \* calls that failed
  ext,        \* steps of the other program
  restored,   \* observer: outputs whose backup was moved back
  disturbed   \* observer: paths another program wrote after their recheck

fsVars   == <<dest, workspace, staged, backup>>
procVars == <<snapshot, preserve, backedUp, published, recErr, pc, k, result>>
obsVars  == <<restored, disturbed>>
vars     == <<target, fsVars, procVars, faults, ext, obsVars>>

PCs == {"check", "stage", "write", "recheck", "inherit", "backup", "publish",
        "remove", "restore", "cleanup", "drop", "done", "crashed"}
\* "error": failed before any destination was touched; "restored": failed, and
\* the message says every old file was restored; "incomplete": failed, and the
\* message says backups were kept; "ok" and "warned": published.
Results == {"none", "error", "restored", "incomplete", "ok", "warned"}

TypeOK ==
  /\ target \in [Items -> Paths]
  /\ dest \in [Paths -> Version]
  /\ snapshot \in [Items -> Version]
  /\ workspace \subseteq Items
  /\ staged \in [Items -> Version]
  /\ backup \in [Items -> Version]
  /\ preserve \subseteq Items
  /\ backedUp \subseteq Items
  /\ published \subseteq Items
  /\ recErr \subseteq Items
  /\ pc \in PCs
  /\ k \in Items
  /\ result \in Results
  /\ faults \in 0..MaxFaults
  /\ ext \in 0..MaxExt
  /\ restored \subseteq Items
  /\ disturbed \subseteq Paths

Init ==
  /\ target \in [Items -> Paths]
  /\ \E had, bad \in SUBSET Paths :
       dest = [p \in Paths |-> IF p \in bad THEN Unsafe
                               ELSE IF p \in had THEN Old(p) ELSE Missing]
  /\ snapshot = [i \in Items |-> Missing]
  /\ workspace = {}
  /\ staged = [i \in Items |-> Missing]
  /\ backup = [i \in Items |-> Missing]
  /\ preserve = {}
  /\ backedUp = {}
  /\ published = {}
  /\ recErr = {}
  /\ pc = "check"
  /\ k = 1
  /\ result = "none"
  /\ faults = 0
  /\ ext = 0
  /\ restored = {}
  /\ disturbed = {}

\* The destination of the output the current loop is at.
Here == target[k]

\* A file-system call fails without effect.
Fault == faults < MaxFaults /\ faults' = faults + 1

\* It fails because of what it meets at the destination, or by a fault.
Fails(blocked) == (blocked /\ faults' = faults) \/ Fault

\* The loop goes on to the next output; after the last one to phase `after`.
Advance(after) ==
  IF k = N THEN pc' = after /\ k' = 1
           ELSE pc' = pc /\ k' = k + 1

\* The function returns: what is left to run are the destructors.
Return(r) == pc' = "drop" /\ result' = r /\ k' = k

(***************************************************************************)
(* Staging                                                                 *)
(***************************************************************************)

\* Two outputs that name one destination are refused before anything is
\* staged.  (An empty list is refused too; N > 0 here.)
CheckPaths ==
  /\ pc = "check"
  /\ IF \E i, j \in Items : i # j /\ target[i] = target[j]
       THEN Return("error")
       ELSE pc' = "stage" /\ k' = k /\ result' = result
  /\ UNCHANGED <<target, fsVars, snapshot, preserve, backedUp, published,
                 recErr, faults, ext, obsVars>>

\* StagedOutput::new: inspect the destination, refuse an unsafe one, create
\* the workspace.  The snapshot is the baseline of the later recheck.
Stage ==
  /\ pc = "stage"
  /\ \/ /\ Inspectable(dest[Here])
        /\ snapshot' = [snapshot EXCEPT ![k] = dest[Here]]
        /\ workspace' = workspace \cup {k}
        /\ Advance("write")
        /\ UNCHANGED <<result, faults>>
     \/ /\ Fails(~Inspectable(dest[Here]))
        /\ Return("error")
        /\ UNCHANGED <<snapshot, workspace>>
  /\ UNCHANGED <<target, dest, staged, backup, preserve, backedUp, published,
                 recErr, ext, obsVars>>

\* The bytes are written to the staged file, synced, read back and compared.
WriteStaged ==
  /\ pc = "write"
  /\ \/ /\ staged' = [staged EXCEPT ![k] = New(k)]
        /\ Advance("recheck")
        /\ UNCHANGED <<result, faults>>
     \/ /\ Fault
        /\ Return("error")
        /\ staged' = staged
  /\ UNCHANGED <<target, dest, workspace, backup, snapshot, preserve, backedUp,
                 published, recErr, ext, obsVars>>

(***************************************************************************)
(* Publishing                                                              *)
(***************************************************************************)

\* publish_output_set rechecks every destination, and syncs every staged file,
\* before it moves the first one.
RecheckDestination ==
  /\ pc = "recheck"
  /\ \/ /\ Recheck(dest[Here], snapshot[k])
        /\ Advance("inherit")
        /\ UNCHANGED <<result, faults>>
     \/ /\ Fails(~Recheck(dest[Here], snapshot[k]))
        /\ Return("error")
  /\ UNCHANGED <<target, fsVars, snapshot, preserve, backedUp, published,
                 recErr, ext, obsVars>>

\* The old file's mode (or ACL) is copied to the staged file.
InheritPermissions ==
  /\ pc = "inherit"
  /\ \/ Advance("backup") /\ UNCHANGED <<result, faults>>
     \/ Fault /\ Return("error")
  /\ UNCHANGED <<target, fsVars, snapshot, preserve, backedUp, published,
                 recErr, ext, obsVars>>

\* Mutant: recovery that starts one output too low.
RecoverSkipsLast == pc' = "remove" /\ k' = N - 1

\* The closure that moves files failed: recovery runs from the last output.
Recover == pc' = "remove" /\ k' = N

\* rename(destination, backup), for the outputs that had a file at the start.
\* The rename also fails when the other program has removed the file.
BackUp ==
  /\ pc = "backup"
  /\ \/ /\ snapshot[k] = Missing
        /\ Advance("publish")
        /\ UNCHANGED <<dest, backup, backedUp, faults>>
     \/ /\ snapshot[k] # Missing
        /\ dest[Here] # Missing
        /\ backup' = [backup EXCEPT ![k] = dest[Here]]
        /\ dest' = [dest EXCEPT ![Here] = Missing]
        /\ backedUp' = backedUp \cup {k}
        /\ Advance("publish")
        /\ faults' = faults
     \/ /\ snapshot[k] # Missing
        /\ Fails(dest[Here] = Missing)
        /\ Recover
        /\ UNCHANGED <<dest, backup, backedUp>>
  /\ UNCHANGED <<target, workspace, staged, snapshot, preserve, published,
                 recErr, result, ext, obsVars>>

\* rename(staged, destination): replaces whatever file is there.  An unsafe
\* entry may be a link, which is replaced, or a directory, which is not.
Publish ==
  /\ pc = "publish"
  /\ \/ /\ dest' = [dest EXCEPT ![Here] = staged[k]]
        /\ staged' = [staged EXCEPT ![k] = Missing]
        /\ published' = published \cup {k}
        /\ Advance("cleanup")
        /\ faults' = faults
     \/ /\ Fails(dest[Here] = Unsafe)
        /\ Recover
        /\ UNCHANGED <<dest, staged, published>>
  /\ UNCHANGED <<target, workspace, backup, snapshot, preserve, backedUp,
                 recErr, result, ext, obsVars>>

(***************************************************************************)
(* Recovery, from the last output to the first                             *)
(***************************************************************************)

\* remove_file(destination) of an output already moved in.
RemovePublished ==
  /\ pc = "remove"
  /\ pc' = "restore"
  /\ \/ /\ k \in published
        /\ dest[Here] # Missing
        /\ dest' = [dest EXCEPT ![Here] = Missing]
        /\ UNCHANGED <<recErr, faults>>
     \/ /\ k \in published
        /\ recErr' = recErr \cup {k}
        /\ Fails(dest[Here] \in {Missing, Unsafe})
        /\ dest' = dest
     \/ /\ k \notin published
        /\ UNCHANGED <<dest, recErr, faults>>
  /\ UNCHANGED <<target, workspace, staged, backup, snapshot, preserve,
                 backedUp, published, k, result, ext, obsVars>>

\* The recovery loop goes down; after output 1 the function returns its error.
StepDown(failed) ==
  IF k = 1
    THEN Return(IF failed THEN "incomplete" ELSE "restored")
    ELSE pc' = "remove" /\ k' = k - 1 /\ result' = result

\* rename(backup, destination), or keep the workspace when it fails.  What the
\* destination still holds (a new file that could not be removed) is replaced.
RestoreBackup ==
  /\ pc = "restore"
  /\ \/ /\ k \in backedUp
        /\ dest' = [dest EXCEPT ![Here] = backup[k]]
        /\ backup' = [backup EXCEPT ![k] = Missing]
        /\ restored' = restored \cup {k}
        /\ UNCHANGED <<preserve, recErr, faults>>
     \/ /\ k \in backedUp
        /\ Fails(dest[Here] = Unsafe)
        /\ preserve' = preserve \cup {k}
        /\ recErr' = recErr \cup {k}
        /\ UNCHANGED <<dest, backup, restored>>
     \/ /\ k \notin backedUp
        /\ UNCHANGED <<dest, backup, restored, preserve, recErr, faults>>
  /\ StepDown(recErr' # {})
  /\ UNCHANGED <<target, workspace, staged, snapshot, backedUp, published,
                 ext, disturbed>>

(***************************************************************************)
(* Success, destructors, environment                                       *)
(***************************************************************************)

\* After the last rename: remove the backup (a failure keeps the workspace and
\* is only a warning), sync the parent directory (a failure is a warning), and
\* remove the workspace when it is empty.
CleanUp ==
  /\ pc = "cleanup"
  /\ \/ /\ backup' = [backup EXCEPT ![k] = Missing]
        /\ workspace' = workspace \ {k}
        /\ recErr' = recErr
        /\ UNCHANGED <<preserve, faults>>
     \/ /\ k \in backedUp
        /\ Fault
        /\ preserve' = preserve \cup {k}
        /\ recErr' = recErr \cup {k}
        /\ UNCHANGED <<backup, workspace>>
     \/ /\ Fault
        /\ backup' = [backup EXCEPT ![k] = Missing]
        /\ workspace' = workspace \ {k}
        /\ recErr' = recErr \cup {k}
        /\ preserve' = preserve
  /\ IF k = N
       THEN Return(IF recErr' # {} THEN "warned" ELSE "ok")
       ELSE pc' = pc /\ k' = k + 1 /\ result' = result
  /\ UNCHANGED <<target, dest, staged, snapshot, backedUp, published, ext,
                 obsVars>>

\* Mutant: Drop does not look at preserve_workspace.
SweepsAll(i) == TRUE

\* Mutant: only published outputs are cleaned up.
SweepsPublished(i) == i \in published

\* Drop removes the workspaces that are not to be preserved.
Sweeps(i) == i \notin preserve

\* impl Drop for StagedOutput: remove_dir_all of those workspaces; its
\* failures are ignored.
Drop ==
  /\ pc = "drop"
  /\ pc' = "done"
  /\ \E left \in SUBSET Items :
       /\ IF left = {} THEN faults' = faults ELSE Fault
       /\ LET gone == {i \in Items \ left : Sweeps(i)}
          IN /\ workspace' = workspace \ gone
             /\ staged' = [i \in Items |-> IF i \in gone THEN Missing ELSE staged[i]]
             /\ backup' = [i \in Items |-> IF i \in gone THEN Missing ELSE backup[i]]
  /\ UNCHANGED <<target, dest, snapshot, preserve, backedUp, published, recErr,
                 k, result, ext, obsVars>>

\* The process dies: no destructor runs.
Crash ==
  /\ pc \notin {"done", "crashed"}
  /\ pc' = "crashed"
  /\ UNCHANGED <<target, fsVars, snapshot, preserve, backedUp, published,
                 recErr, k, result, faults, ext, obsVars>>

\* Output i has been rechecked and its destination is not looked at again.
Rechecked(i) ==
  \/ pc = "recheck" /\ i < k
  \/ pc \in {"inherit", "backup", "publish", "remove", "restore", "cleanup",
             "drop", "done", "crashed"}

\* Another program creates, replaces, edits or deletes a destination.
OtherProgram ==
  /\ ext < MaxExt
  /\ ext' = ext + 1
  /\ \E p \in Paths, v \in {Missing, Unsafe, Ext(ext + 1)} :
       /\ v # dest[p]
       /\ dest' = [dest EXCEPT ![p] = v]
       /\ disturbed' = disturbed \cup
            {q \in {p} : \E i \in Items : target[i] = q /\ Rechecked(i)}
  /\ UNCHANGED <<target, workspace, staged, backup, procVars, faults, restored>>

Step ==
  \/ CheckPaths \/ Stage \/ WriteStaged
  \/ RecheckDestination \/ InheritPermissions \/ BackUp \/ Publish
  \/ RemovePublished \/ RestoreBackup \/ CleanUp \/ Drop

Done == pc \in {"done", "crashed"} /\ UNCHANGED vars

Next == Step \/ Crash \/ OtherProgram \/ Done

Spec == Init /\ [][Next]_vars

(***************************************************************************)
(* Properties                                                              *)
(***************************************************************************)

\* Nobody but the command has written the destination of output i since it
\* was rechecked.
Mine(i) == target[i] \notin disturbed

\* The old file of output i still exists: in the backup, or back in place
\* (or it was put back and another program then replaced it).
OldKept(i) ==
  \/ i \in workspace /\ backup[i] # Missing
  \/ i \in restored /\ (Mine(i) => dest[target[i]] = snapshot[i])

\* Whatever fails, whatever another program does and wherever the process
\* dies, an old file that was moved aside is not lost unless the whole new
\* set was moved in (publish_output_set: backups are deleted only after the
\* last rename, and a failed restore keeps the workspace from Drop).
NothingTakenIsLost ==
  \A i \in backedUp : OldKept(i) \/ published = Items

\* What the caller is told is true of the disk: "restored" means every old
\* file is back and no new one is left, success means every new file is in
\* place, and an incomplete recovery leaves each output old, or new where
\* there was nothing to put back, or missing with its old file kept.
OutcomeIsTrue ==
  pc = "done" =>
    \A i \in Items : Mine(i) =>
      LET now == dest[target[i]]
      IN CASE result = "restored" -> now = snapshot[i]
           [] result \in {"ok", "warned"} -> now = New(i)
           [] result = "incomplete" ->
                \/ now = snapshot[i]
                \/ snapshot[i] = Missing /\ now = New(i)
                \/ i \in preserve /\ backup[i] = snapshot[i]
           [] OTHER -> i \notin backedUp /\ now # New(i)

\* A workspace that outlives the command either holds a backup that the message
\* speaks of ("backup was kept", or the warning that a backup could not be
\* removed), or is there because a call failed: no other early return, success
\* or recovery leaves one (impl Drop for StagedOutput, preserve_workspace).
WorkspacesAreAccountedFor ==
  pc = "done" =>
    /\ \A i \in Items : backup[i] # Missing =>
         i \in workspace \cap preserve /\ result \in {"incomplete", "warned"}
    /\ faults = 0 /\ result # "incomplete" =>
         workspace = {} /\ \A i \in Items : staged[i] = Missing

\* The command changes a destination only when it holds what the snapshot
\* recorded, the command's own file, or nothing; content that another program
\* put there before the recheck is never moved or replaced.
NoStaleOverwrite ==
  [][ext' = ext =>
       \A p \in Paths : dest'[p] # dest[p] =>
         \E i \in Items :
           /\ target[i] = p
           /\ p \in disturbed \/ dest[p] \in {snapshot[i], New(i), Missing}]_vars

(***************************************************************************)
(* Refinement                                                              *)
(***************************************************************************)

\* Where the old file of output i is, as Publication sees it.
OldPlace(i) ==
  IF i \in restored THEN "back"
  ELSE IF i \notin backedUp THEN "place"
  ELSE IF backup[i] # Missing THEN "aside" ELSE "gone"

\* The message as Publication sees it.
Told ==
  CASE result = "none"            -> "none"
    [] result = "error"           -> "untouched"
    [] result = "restored"        -> "restored"
    [] result = "incomplete"      -> "kept"
    [] OTHER                      -> "replaced"

P == INSTANCE Publication
       WITH had   <- {i \in Items : snapshot[i] # Missing},
            old   <- [i \in Items |-> OldPlace(i)],
            moved <- published,
            told  <- Told

\* publish_output_set does what Publication promises: whatever fails, wherever
\* the process dies and whatever another program does to the destinations, an
\* old file is given up only after every new one was moved in, nothing is put
\* back after that, and the message agrees with where the old files are.
ImplementsPublication == P!Spec
=============================================================================
