----------------------------- MODULE OutputPair -----------------------------
(***************************************************************************)
(* write_validated_with_sidecar, StagedDirectory and StagedOutputPair of   *)
(* crates/hwp-cli/src/commands/output.rs: a Markdown body and the          *)
(* directory of the images it refers to are staged beside their            *)
(* destinations and replace the old pair as one recoverable unit.          *)
(*                                                                         *)
(* The body is a file, so a rename replaces what is there; the media       *)
(* directory is a tree, so a rename onto it fails unless nothing is there  *)
(* and removing it may stop half-way.  When the writer left the media as   *)
(* it was, only the body is published, by the single-file path.            *)
(*                                                                         *)
(* As in OutputSet one action is one call that other programs can observe, *)
(* any call may fail (MaxFaults), another program may change a destination *)
(* between any two calls (MaxExt), and the process may die between them.   *)
(* The single-file path is the Unix one; the others are in StagedOutput.   *)
(***************************************************************************)
EXTENDS OutputFs

CONSTANTS
  MaxExt,     \* bound: steps of another program
  MaxFaults   \* bound: calls that fail

ASSUME BoundsAssumption == MaxExt \in Nat /\ MaxFaults \in Nat

Body  == 1
Media == 2
Items == {Body, Media}

VARIABLES
  dest,       \* dest[i]: the version at the destination of i
  snapshot,   \* snapshot[i]: the baseline of the later recheck
  workspace,  \* items whose private sibling directory exists
  owned,      \* items whose StagedOutput or StagedDirectory was constructed
  staged,     \* staged[i]: the version in the workspace
  backup,     \* backup[i]: the version at workspace/destination.backup
  changed,    \* StagedDirectory.changed
  preserve,   \* items with preserve_workspace set
  backedUp,   \* file_backed_up, sidecar_backed_up
  published,  \* file_published, sidecar_published
  recErr,     \* items with an entry in recovery_errors, or in warnings
  pc,         \* the next call of the process
  result,     \* what the caller is told
  faults, ext,
  restored,   \* observer: items whose backup was moved back
  disturbed   \* observer: items another program wrote after their last recheck

fsVars   == <<dest, workspace, staged, backup>>
procVars == <<snapshot, owned, changed, preserve, backedUp, published, recErr,
              pc, result>>
obsVars  == <<restored, disturbed>>
vars     == <<fsVars, procVars, faults, ext, obsVars>>

PCs == {"overlap", "stageBody", "stageMedia", "copy", "recheckCopy", "write",
        "recheckBody", "recheckMedia", "inherit", "backupMedia", "backupBody",
        "publishMedia", "publishBody", "recheckAlone", "publishAlone",
        "removeMedia", "restoreMedia", "restoreBody", "cleanBody", "cleanMedia",
        "syncParents", "drop", "done", "crashed"}
\* As in OutputSet: "error" is a failure before any destination was touched.
Results == {"none", "error", "restored", "incomplete", "ok", "warned"}

TypeOK ==
  /\ dest \in [Items -> Version]
  /\ snapshot \in [Items -> Version]
  /\ workspace \subseteq Items
  /\ owned \subseteq workspace \cup {i \in Items : pc \in {"drop", "done", "crashed"}}
  /\ staged \in [Items -> Version]
  /\ backup \in [Items -> Version]
  /\ changed \in BOOLEAN
  /\ preserve \subseteq owned
  /\ backedUp \subseteq Items
  /\ published \subseteq Items
  /\ recErr \subseteq Items
  /\ pc \in PCs
  /\ result \in Results
  /\ faults \in 0..MaxFaults
  /\ ext \in 0..MaxExt
  /\ restored \subseteq backedUp
  /\ disturbed \subseteq Items

Init ==
  /\ \E had, bad \in SUBSET Items :
       dest = [i \in Items |-> IF i \in bad THEN Unsafe
                               ELSE IF i \in had THEN Old(i) ELSE Missing]
  /\ snapshot = [i \in Items |-> Missing]
  /\ workspace = {}
  /\ owned = {}
  /\ staged = [i \in Items |-> Missing]
  /\ backup = [i \in Items |-> Missing]
  /\ changed = FALSE
  /\ preserve = {}
  /\ backedUp = {}
  /\ published = {}
  /\ recErr = {}
  /\ pc = "overlap"
  /\ result = "none"
  /\ faults = 0
  /\ ext = 0
  /\ restored = {}
  /\ disturbed = {}

\* A call fails, or it fails because of what it meets.
Fault == faults < MaxFaults /\ faults' = faults + 1
Fails(blocked) == (blocked /\ faults' = faults) \/ Fault

\* The function returns: what is left to run are the destructors.
Return(r) == pc' = "drop" /\ result' = r

Goto(next) == pc' = next /\ UNCHANGED result

\* A call of the preparation succeeds and the process goes on, or it fails,
\* with nothing to undo.
Try(ok, next) ==
  \/ ok /\ Goto(next) /\ faults' = faults
  \/ Fails(~ok) /\ Return("error")

(***************************************************************************)
(* Staging                                                                 *)
(***************************************************************************)

\* reject_overlapping_outputs: the body inside the media directory, or the
\* media directory or the input inside the other, is refused.
RejectOverlap ==
  /\ pc = "overlap"
  /\ Goto("stageBody") \/ Return("error")
  /\ UNCHANGED <<fsVars, snapshot, owned, changed, preserve, backedUp,
                 published, recErr, faults, ext, obsVars>>

\* StagedOutput::new.
StageBody ==
  /\ pc = "stageBody"
  /\ Try(Inspectable(dest[Body]), "stageMedia")
  /\ IF pc' = "stageMedia"
       THEN /\ snapshot' = [snapshot EXCEPT ![Body] = dest[Body]]
            /\ workspace' = {Body}
            /\ owned' = {Body}
       ELSE UNCHANGED <<snapshot, workspace, owned>>
  /\ UNCHANGED <<dest, staged, backup, changed, preserve, backedUp, published,
                 recErr, ext, obsVars>>

\* StagedDirectory::new, first part: inspect the directory and its whole tree,
\* create the workspace.  Nothing owns the workspace yet.
StageMedia ==
  /\ pc = "stageMedia"
  /\ Try(Inspectable(dest[Media]),
         IF dest[Media] = Missing THEN "write" ELSE "copy")
  /\ IF pc' \in {"write", "copy"}
       THEN /\ snapshot' = [snapshot EXCEPT ![Media] = dest[Media]]
            /\ workspace' = workspace \cup {Media}
            /\ owned' = owned \cup {i \in {Media} : pc' = "write"}
       ELSE UNCHANGED <<snapshot, workspace, owned>>
  /\ UNCHANGED <<dest, staged, backup, changed, preserve, backedUp, published,
                 recErr, ext, obsVars>>

\* copy_directory_tree: the old media are copied to the workspace, so that the
\* writer adds to them.  A copy that fails stops half-way.
CopyTree ==
  /\ pc = "copy"
  /\ Try(dest[Media].kind \notin {"missing", "unsafe"}, "recheckCopy")
  /\ staged' = [staged EXCEPT ![Media] =
                  IF pc' = "recheckCopy" THEN dest[Media] ELSE Partial]
  /\ UNCHANGED <<dest, workspace, backup, snapshot, owned, changed, preserve,
                 backedUp, published, recErr, ext, obsVars>>

\* The copy is of the tree that was inspected; now the StagedDirectory exists.
RecheckCopy ==
  /\ pc = "recheckCopy"
  /\ Try(Recheck(dest[Media], snapshot[Media]), "write")
  /\ owned' = owned \cup {i \in {Media} : pc' = "write"}
  /\ UNCHANGED <<fsVars, snapshot, changed, preserve, backedUp, published,
                 recErr, ext, obsVars>>

\* finish_write: the staged tree, when the writer left one, is compared with
\* the tree that was there, by content and not by time.
IsChanged(tree, before) == tree # Missing /\ tree # before

\* The input is copied to the workspace when the command asks for it; the
\* writer writes the body and adds to the media, or needs none; both are
\* synced, verified, and the media are compared with the old ones.
WriteStaged ==
  /\ pc = "write"
  /\ \/ /\ \E tree \in {staged[Media], New(Media)} :
             /\ staged' = [i \in Items |-> IF i = Body THEN New(Body) ELSE tree]
             /\ changed' = IsChanged(tree, snapshot[Media])
        /\ Goto(IF changed' THEN "recheckBody" ELSE "recheckAlone")
        /\ faults' = faults
     \/ /\ Fault
        /\ Return("error")
        /\ UNCHANGED <<staged, changed>>
  /\ UNCHANGED <<dest, workspace, backup, snapshot, owned, preserve, backedUp,
                 published, recErr, ext, obsVars>>

(***************************************************************************)
(* Publishing the body alone: StagedOutput::publish                        *)
(***************************************************************************)

RecheckAlone ==
  /\ pc = "recheckAlone"
  /\ Try(Recheck(dest[Body], snapshot[Body]), "publishAlone")
  /\ UNCHANGED <<fsVars, snapshot, owned, changed, preserve, backedUp,
                 published, recErr, ext, obsVars>>

\* One rename replaces the old body; a parent directory that cannot be synced
\* is a warning.
PublishAlone ==
  /\ pc = "publishAlone"
  /\ \/ /\ dest' = [dest EXCEPT ![Body] = staged[Body]]
        /\ staged' = [staged EXCEPT ![Body] = Missing]
        /\ published' = {Body}
        /\ \/ Return("ok") /\ faults' = faults
           \/ Return("warned") /\ Fault
     \/ /\ Fails(dest[Body] = Unsafe)
        /\ Return("error")
        /\ UNCHANGED <<dest, staged, published>>
  /\ UNCHANGED <<workspace, backup, snapshot, owned, changed, preserve,
                 backedUp, recErr, ext, obsVars>>

(***************************************************************************)
(* Publishing both: StagedOutputPair::publish                              *)
(***************************************************************************)

RecheckBody ==
  /\ pc = "recheckBody"
  /\ Try(Recheck(dest[Body], snapshot[Body]), "recheckMedia")
  /\ UNCHANGED <<fsVars, snapshot, owned, changed, preserve, backedUp,
                 published, recErr, ext, obsVars>>

\* recheck_directory_destination: identity, mode and every entry of the tree.
RecheckMedia ==
  /\ pc = "recheckMedia"
  /\ Try(Recheck(dest[Media], snapshot[Media]), "inherit")
  /\ UNCHANGED <<fsVars, snapshot, owned, changed, preserve, backedUp,
                 published, recErr, ext, obsVars>>

\* The old modes (or ACLs) are copied to the staged body and tree.
InheritPermissions ==
  /\ pc = "inherit"
  /\ Try(TRUE, "backupMedia")
  /\ UNCHANGED <<fsVars, snapshot, owned, changed, preserve, backedUp,
                 published, recErr, ext, obsVars>>

\* rename(destination, backup) of one of the pair; nothing when it held none.
BackUp(i, next) ==
  \/ /\ snapshot[i] = Missing
     /\ Goto(next)
     /\ UNCHANGED <<dest, backup, backedUp, faults>>
  \/ /\ snapshot[i] # Missing
     /\ dest[i] # Missing
     /\ backup' = [backup EXCEPT ![i] = dest[i]]
     /\ dest' = [dest EXCEPT ![i] = Missing]
     /\ backedUp' = backedUp \cup {i}
     /\ Goto(next)
     /\ faults' = faults
  \/ /\ snapshot[i] # Missing
     /\ Fails(dest[i] = Missing)
     /\ Goto("removeMedia")
     /\ UNCHANGED <<dest, backup, backedUp>>

BackUpMedia ==
  /\ pc = "backupMedia"
  /\ BackUp(Media, "backupBody")
  /\ UNCHANGED <<workspace, staged, snapshot, owned, changed, preserve,
                 published, recErr, ext, obsVars>>

\* Mutant: the old body is left where it is until its rename replaces it.
BackUpBodyNever ==
  /\ pc = "backupBody"
  /\ Goto("publishMedia")
  /\ UNCHANGED <<fsVars, snapshot, owned, changed, preserve, backedUp,
                 published, recErr, faults, ext, obsVars>>

BackUpBody ==
  /\ pc = "backupBody"
  /\ BackUp(Body, "publishMedia")
  /\ UNCHANGED <<workspace, staged, snapshot, owned, changed, preserve,
                 published, recErr, ext, obsVars>>

\* rename onto the destination of i fails when it meets this.
Blocked(i) == IF i = Media THEN dest[i] # Missing ELSE dest[i] = Unsafe

\* rename(staged, destination).
MoveIn(i, next) ==
  \/ /\ i = Media => dest[i] = Missing
     /\ dest' = [dest EXCEPT ![i] = staged[i]]
     /\ staged' = [staged EXCEPT ![i] = Missing]
     /\ published' = published \cup {i}
     /\ Goto(next)
     /\ faults' = faults
  \/ /\ Fails(Blocked(i))
     /\ Goto("removeMedia")
     /\ UNCHANGED <<dest, staged, published>>

\* The media go in before the body that refers to them.
PublishMedia ==
  /\ pc = "publishMedia"
  /\ MoveIn(Media, "publishBody")
  /\ UNCHANGED <<workspace, backup, snapshot, owned, changed, preserve,
                 backedUp, recErr, ext, obsVars>>

PublishBody ==
  /\ pc = "publishBody"
  /\ MoveIn(Body, "cleanBody")
  /\ UNCHANGED <<workspace, backup, snapshot, owned, changed, preserve,
                 backedUp, recErr, ext, obsVars>>

(***************************************************************************)
(* Recovery                                                                *)
(***************************************************************************)

\* remove_dir_all of the new media.  It may stop half-way; the body was not
\* published, since that is the last step that can fail.
RemoveMedia ==
  /\ pc = "removeMedia"
  /\ Goto("restoreMedia")
  /\ \/ /\ Media \in published
        /\ dest[Media].kind \notin {"missing", "unsafe"}
        /\ dest' = [dest EXCEPT ![Media] = Missing]
        /\ UNCHANGED <<recErr, faults>>
     \/ /\ Media \in published
        /\ recErr' = recErr \cup {Media}
        /\ \/ Fails(dest[Media].kind \in {"missing", "unsafe"}) /\ dest' = dest
           \/ /\ dest[Media].kind \notin {"missing", "unsafe"}
              /\ Fault
              /\ dest' = [dest EXCEPT ![Media] = Partial]
     \/ /\ Media \notin published
        /\ UNCHANGED <<dest, recErr, faults>>
  /\ UNCHANGED <<workspace, staged, backup, snapshot, owned, changed, preserve,
                 backedUp, published, ext, obsVars>>

\* rename(backup, destination) of one of the pair, or keep its workspace.
Restore(i) ==
  \/ /\ i \in backedUp
     /\ i = Media => dest[i] = Missing
     /\ dest' = [dest EXCEPT ![i] = backup[i]]
     /\ backup' = [backup EXCEPT ![i] = Missing]
     /\ restored' = restored \cup {i}
     /\ UNCHANGED <<preserve, recErr, faults>>
  \/ /\ i \in backedUp
     /\ Fails(Blocked(i))
     /\ preserve' = preserve \cup {i}
     /\ recErr' = recErr \cup {i}
     /\ UNCHANGED <<dest, backup, restored>>
  \/ /\ i \notin backedUp
     /\ UNCHANGED <<dest, backup, restored, preserve, recErr, faults>>

RestoreMedia ==
  /\ pc = "restoreMedia"
  /\ Restore(Media)
  /\ Goto("restoreBody")
  /\ UNCHANGED <<workspace, staged, snapshot, owned, changed, backedUp,
                 published, ext, disturbed>>

\* Mutant: the message forgets what went wrong with the media.
RecoveryToldBody(errors) == IF Body \in errors THEN "incomplete" ELSE "restored"

\* What the caller is told after the recovery.
RecoveryTold(errors) == IF errors = {} THEN "restored" ELSE "incomplete"

RestoreBody ==
  /\ pc = "restoreBody"
  /\ Restore(Body)
  /\ Return(RecoveryTold(recErr'))
  /\ UNCHANGED <<workspace, staged, snapshot, owned, changed, backedUp,
                 published, ext, disturbed>>

(***************************************************************************)
(* Success, destructors, environment                                       *)
(***************************************************************************)

\* Remove a backup once both are in; a failure keeps the workspace, with what
\* is left of the backup, and is a warning.
CleanUp(i) ==
  \/ /\ backup' = [backup EXCEPT ![i] = Missing]
     /\ UNCHANGED <<preserve, recErr, faults>>
  \/ /\ i \in backedUp
     /\ Fault
     /\ \E left \in {backup[i]} \cup {v \in {Partial} : i = Media} :
          backup' = [backup EXCEPT ![i] = left]
     /\ preserve' = preserve \cup {i}
     /\ recErr' = recErr \cup {i}

CleanBody ==
  /\ pc = "cleanBody"
  /\ CleanUp(Body)
  /\ Goto("cleanMedia")
  /\ UNCHANGED <<dest, workspace, staged, snapshot, owned, changed, backedUp,
                 published, ext, obsVars>>

CleanMedia ==
  /\ pc = "cleanMedia"
  /\ CleanUp(Media)
  /\ Goto("syncParents")
  /\ UNCHANGED <<dest, workspace, staged, snapshot, owned, changed, backedUp,
                 published, ext, obsVars>>

\* Both parents are synced, a failure is a warning; the empty workspaces go.
SyncParents ==
  /\ pc = "syncParents"
  /\ \/ Return(IF recErr = {} THEN "ok" ELSE "warned") /\ faults' = faults
     \/ Return("warned") /\ Fault
  /\ workspace' = {i \in workspace : backup[i] # Missing}
  /\ UNCHANGED <<dest, staged, backup, snapshot, owned, changed, preserve,
                 backedUp, published, recErr, ext, obsVars>>

\* Mutant: Drop does not look at preserve_workspace.
SweepsOwned(i) == i \in owned

\* Mutant: only published outputs are cleaned up.
SweepsPublished(i) == i \in published

\* impl Drop removes the workspace of what was constructed, unless it is to be
\* preserved.
Sweeps(i) == i \in owned /\ i \notin preserve

\* The destructors run; their failures are ignored.
Drop ==
  /\ pc = "drop"
  /\ pc' = "done"
  /\ \E left \in SUBSET Items :
       /\ IF left = {} THEN faults' = faults ELSE Fault
       /\ LET gone == {i \in Items \ left : Sweeps(i)}
          IN /\ workspace' = workspace \ gone
             /\ staged' = [i \in Items |-> IF i \in gone THEN Missing ELSE staged[i]]
             /\ backup' = [i \in Items |-> IF i \in gone THEN Missing ELSE backup[i]]
  /\ UNCHANGED <<dest, snapshot, owned, changed, preserve, backedUp, published,
                 recErr, result, ext, obsVars>>

\* The process dies: no destructor runs.
Crash ==
  /\ pc \notin {"done", "crashed"}
  /\ pc' = "crashed"
  /\ UNCHANGED <<fsVars, snapshot, owned, changed, preserve, backedUp,
                 published, recErr, result, faults, ext, obsVars>>

\* The destination of i is not compared with its snapshot any more.
Rechecked(i) ==
  \/ i = Body  /\ pc \in {"recheckMedia", "publishAlone"}
  \/ i = Media /\ pc = "publishAlone"
  \/ pc \in {"inherit", "backupMedia", "backupBody", "publishMedia",
             "publishBody", "removeMedia", "restoreMedia", "restoreBody",
             "cleanBody", "cleanMedia", "syncParents", "drop", "done", "crashed"}

\* Another program creates, replaces, edits or deletes a destination.
OtherProgram ==
  /\ ext < MaxExt
  /\ ext' = ext + 1
  /\ \E i \in Items, v \in {Missing, Unsafe, Ext(ext + 1)} :
       /\ v # dest[i]
       /\ dest' = [dest EXCEPT ![i] = v]
       /\ disturbed' = disturbed \cup {j \in {i} : Rechecked(j)}
  /\ UNCHANGED <<workspace, staged, backup, procVars, faults, restored>>

Step ==
  \/ RejectOverlap \/ StageBody \/ StageMedia \/ CopyTree \/ RecheckCopy
  \/ WriteStaged \/ RecheckAlone \/ PublishAlone
  \/ RecheckBody \/ RecheckMedia \/ InheritPermissions
  \/ BackUpMedia \/ BackUpBody \/ PublishMedia \/ PublishBody
  \/ RemoveMedia \/ RestoreMedia \/ RestoreBody
  \/ CleanBody \/ CleanMedia \/ SyncParents \/ Drop

Done == pc \in {"done", "crashed"} /\ UNCHANGED vars

Next == Step \/ Crash \/ OtherProgram \/ Done

Spec == Init /\ [][Next]_vars

(***************************************************************************)
(* Properties                                                              *)
(***************************************************************************)

\* What the caller is told is true of the disk: "restored" means the old pair
\* is back, success means what was to be published is in place, and after an
\* incomplete recovery each half is old, or kept in a backup, or is what is
\* left of new media where there were none.
OutcomeIsTrue ==
  pc = "done" =>
    \A i \in Items \ disturbed :
      CASE result = "restored" -> dest[i] = snapshot[i]
        [] result \in {"ok", "warned"} -> i = Body \/ changed => dest[i] = New(i)
        [] result = "incomplete" ->
             \/ dest[i] = snapshot[i]
             \/ i \in preserve /\ backup[i] = snapshot[i]
             \/ snapshot[i] = Missing /\ i \in published /\ dest[i] \in {New(i), Partial}
        [] OTHER -> i \notin backedUp /\ dest[i] # New(i)

\* At no moment, and after no crash, does a new body stand beside media other
\* than the new ones it refers to; and an old body stands beside new media, or
\* beside a half-removed tree, only after a recovery step failed
\* (StagedOutputPair::publish moves the media in first and takes the old body
\* out before).
PairIsNeverMixed ==
  disturbed = {} =>
    /\ changed /\ dest[Body] = New(Body) => dest[Media] = New(Media)
    /\ /\ dest[Body].kind = "old"
       /\ dest[Media] \in {New(Media), Partial}
       => recErr # {} /\ result \notin {"restored", "ok"}

\* When the command ends, a workspace that is still there either holds a
\* backup the message speaks of, or could not be removed because a call failed,
\* or is the one StagedDirectory::new abandoned: it creates the workspace, and
\* when the copy or the recheck after it fails nothing owns it.
WorkspacesAreAccountedFor ==
  pc = "done" =>
    /\ \A i \in Items : backup[i] # Missing =>
         i \in workspace \cap preserve /\ result \in {"incomplete", "warned"}
    /\ faults = 0 /\ result # "incomplete" => workspace \cap owned = {}

(***************************************************************************)
(* Refinement                                                              *)
(***************************************************************************)

\* Where the old file or tree of i is, as Publication sees it.
OldPlace(i) ==
  IF i \in restored THEN "back"
  ELSE IF ~changed /\ i \in published THEN "gone"
  ELSE IF i \notin backedUp THEN "place"
  ELSE IF backup[i].kind \in {"missing", "partial"} THEN "gone" ELSE "aside"

\* The message as Publication sees it.
Told ==
  CASE result = "none"        -> "none"
    [] result = "error"       -> "untouched"
    [] result = "restored"    -> "restored"
    [] result = "incomplete"  -> "kept"
    [] OTHER                  -> "replaced"

\* The new files in place: media that came out unchanged are with the body.
Moved == IF Body \in published /\ ~changed THEN Items ELSE published

P == INSTANCE Publication
       WITH had   <- {i \in Items : snapshot[i] # Missing},
            old   <- [i \in Items |-> OldPlace(i)],
            moved <- Moved,
            told  <- Told

\* StagedOutputPair does what Publication promises, as OutputSet does.
ImplementsPublication == P!Spec
=============================================================================
