------------------------------ MODULE SelfUpdate ------------------------------
(***************************************************************************)
(* `hwp update` (crates/hwp-cli/src/commands/update.rs): one or several    *)
(* processes replace the installed hwp binary by a release.                *)
(*                                                                         *)
(* A release is downloaded to a per-process work directory, its archive is *)
(* checked against the published SHA-256, the binary is extracted, copied  *)
(* beside the installed one, and put in place by two renames: installed to *)
(* backup, staged to installed.  One action is one file-system call or one *)
(* external command; every one of them may fail (at most MaxFailures times *)
(* in a behaviour), and a process may die between any two.                 *)
(***************************************************************************)
EXTENDS Naturals, FiniteSets

CONSTANTS
  Updaters,   \* the processes that run `hwp update`
  Releases,   \* the tags of the published releases
  Current,    \* CARGO_PKG_VERSION of the running binaries
  Latest,     \* what the releases/latest query answers
  Reports,    \* Reports[f]: what `hwp --version` of a release, or the current, prints
  Contains,   \* pairs <<text, version>>: the text contains the version
  MaxFailures \* bound: calls that fail, and processes that die

ASSUME ReleasesAssumption == Latest \in Releases /\ Current \notin {"none", "damaged"}
ASSUME FailuresAssumption == MaxFailures \in Nat

\* The content of a file: no file, the running version, the binary of a
\* release, or bytes that are not what the release published.
File == {"none", "damaged", Current} \cup Releases

VARIABLES
  brew,       \* install_kind says Homebrew
  pinned,     \* pinned[u]: the --tag argument, or "none"
  asked,      \* asked[u]: --check, --force, or neither
  installed,  \* the file at the path of the running executable
  download,   \* download[u]: the archive in the work directory
  staged,     \* staged[u]: .hwp-update-<pid>
  backup,     \* backup[u]: .hwp-backup-<pid>
  want,       \* want[u]: the release to install
  at,         \* the next call of each process
  ending,     \* what each process reports
  failures

files == <<installed, download, staged, backup>>
args  == <<brew, pinned, asked>>
updateVars == <<args, files, want, at, ending, failures>>

PCs == {"tag", "decide", "fetch", "verify", "copy", "mode", "clear", "aside",
        "in", "undo", "unstage", "forget", "run", "done", "dead"}
\* "failed": an error that claims nothing about the installed file;
\* "restored": the error that says the original was restored.
UpdateOutcomes == {"none", "reported", "brewed", "failed", "restored", "updated"}

UpdateTypeOK ==
  /\ brew \in BOOLEAN
  /\ pinned \in [Updaters -> Releases \cup {"none"}]
  /\ asked \in [Updaters -> {"check", "update", "force"}]
  /\ installed \in File
  /\ download \in [Updaters -> File]
  /\ staged \in [Updaters -> File]
  /\ backup \in [Updaters -> File]
  /\ want \in [Updaters -> Releases \cup {"none"}]
  /\ at \in [Updaters -> PCs]
  /\ ending \in [Updaters -> UpdateOutcomes]
  /\ failures \in 0..MaxFailures

\* Any process may find a backup that a dead process of the same pid left.
UpdateInit ==
  /\ brew \in BOOLEAN
  /\ pinned \in [Updaters -> Releases \cup {"none"}]
  /\ asked \in [Updaters -> {"check", "update", "force"}]
  /\ installed = Current
  /\ download = [u \in Updaters |-> "none"]
  /\ staged = [u \in Updaters |-> "none"]
  /\ backup \in [Updaters -> {"none", "damaged"}]
  /\ want = [u \in Updaters |-> "none"]
  /\ at = [u \in Updaters |-> "tag"]
  /\ ending = [u \in Updaters |-> "none"]
  /\ failures = 0

At(u, here) == at[u] = here
Goto(u, next) == at' = [at EXCEPT ![u] = next] /\ ending' = ending
Finish(u, o) == at' = [at EXCEPT ![u] = "done"] /\ ending' = [ending EXCEPT ![u] = o]

Failure == failures < MaxFailures /\ failures' = failures + 1

\* The `?` of a failing call.
FailsAt(u, here) ==
  At(u, here) /\ Failure /\ Finish(u, "failed") /\ UNCHANGED <<args, files, want>>

(***************************************************************************)
(* run: what to install                                                    *)
(***************************************************************************)

\* --tag, or the latest release from the GitHub API; validate_tag lets through
\* only what can be the tag of a release.
PickTag(u) ==
  /\ At(u, "tag")
  /\ want' = [want EXCEPT ![u] = IF pinned[u] = "none" THEN Latest ELSE pinned[u]]
  /\ Goto(u, "decide")
  /\ UNCHANGED <<args, files, failures>>

\* --check only reports; the running version is not installed again unless
\* --force asks for it.
NothingToDo(u) ==
  asked[u] = "check" \/ (want[u] = Current /\ asked[u] # "force")

\* A Homebrew installation is left to brew, which cannot pin a version.
Decide(u) ==
  /\ At(u, "decide")
  /\ IF NothingToDo(u)
       THEN Finish(u, "reported")
       ELSE IF ~brew
         THEN Goto(u, "fetch")
         ELSE \/ Finish(u, "failed")
              \/ pinned[u] = "none" /\ Finish(u, "brewed")
  /\ UNCHANGED <<args, files, want, failures>>

(***************************************************************************)
(* run: download and verify                                                *)
(***************************************************************************)

\* curl writes the archive and the checksum; the transfer or the asset may be
\* damaged without curl noticing.
Fetch(u) ==
  /\ At(u, "fetch")
  /\ \/ download' = [download EXCEPT ![u] = want[u]] /\ failures' = failures
     \/ download' = [download EXCEPT ![u] = "damaged"] /\ Failure
  /\ Goto(u, "verify")
  /\ UNCHANGED <<args, installed, staged, backup, want>>

\* verify_sha256 and extract.
Verify(u) ==
  /\ At(u, "verify")
  /\ IF download[u] = want[u] THEN Goto(u, "copy") ELSE Finish(u, "failed")
  /\ UNCHANGED <<args, files, want, failures>>

(***************************************************************************)
(* replace_binary                                                          *)
(***************************************************************************)

\* Copy to the staged name in the installation directory.  A copy that fails
\* half way leaves a damaged file there.
Copy(u) ==
  /\ At(u, "copy")
  /\ \/ /\ staged' = [staged EXCEPT ![u] = download[u]]
        /\ Goto(u, "mode")
        /\ failures' = failures
     \/ /\ staged' = [staged EXCEPT ![u] = "damaged"]
        /\ Failure
        /\ Finish(u, "failed")
  /\ UNCHANGED <<args, installed, download, backup, want>>

\* copy_exec_mode.
CopyMode(u) ==
  /\ At(u, "mode")
  /\ Goto(u, "clear")
  /\ UNCHANGED <<args, files, want, failures>>

\* A stale backup of the same name is removed; its failure is ignored.
ClearBackup(u) ==
  /\ At(u, "clear")
  /\ \/ backup' = [backup EXCEPT ![u] = "none"] /\ failures' = failures
     \/ backup' = backup /\ Failure
  /\ Goto(u, "aside")
  /\ UNCHANGED <<args, installed, download, staged, want>>

\* Mutant: the installed file is removed, not renamed.
MoveAsideDiscards(u) ==
  /\ At(u, "aside")
  /\ installed' = "none"
  /\ Goto(u, "in")
  /\ UNCHANGED <<args, download, staged, backup, want, failures>>

\* rename(installed, backup): fails when another process has just done it.
MoveAside(u) ==
  /\ At(u, "aside")
  /\ \/ /\ installed # "none"
        /\ backup' = [backup EXCEPT ![u] = installed]
        /\ installed' = "none"
        /\ Goto(u, "in")
     \/ /\ installed = "none"
        /\ Finish(u, "failed")
        /\ UNCHANGED <<backup, installed>>
  /\ UNCHANGED <<args, download, staged, want, failures>>

\* rename(staged, installed).
MoveIn(u) ==
  /\ At(u, "in")
  /\ \/ /\ installed' = staged[u]
        /\ staged' = [staged EXCEPT ![u] = "none"]
        /\ Goto(u, "forget")
        /\ failures' = failures
     \/ /\ Failure
        /\ Goto(u, "undo")
        /\ UNCHANGED <<installed, staged>>
  /\ UNCHANGED <<args, download, backup, want>>

\* Mutant: the failed update is not undone.
UndoNothing(u) ==
  /\ At(u, "undo")
  /\ Goto(u, "unstage")
  /\ UNCHANGED <<args, files, want, failures>>

\* rename(backup, installed); its failure is ignored.
Undo(u) ==
  /\ At(u, "undo")
  /\ \/ /\ installed' = backup[u]
        /\ backup' = [backup EXCEPT ![u] = "none"]
        /\ failures' = failures
     \/ /\ Failure
        /\ UNCHANGED <<installed, backup>>
  /\ Goto(u, "unstage")
  /\ UNCHANGED <<args, download, staged, want>>

\* The staged file is removed and the error says the original is back.
Unstage(u) ==
  /\ At(u, "unstage")
  /\ \/ staged' = [staged EXCEPT ![u] = "none"] /\ failures' = failures
     \/ staged' = staged /\ Failure
  /\ Finish(u, "restored")
  /\ UNCHANGED <<args, installed, download, backup, want>>

\* The backup (on Windows a running file) and the work directory are removed;
\* failures are ignored.
Forget(u) ==
  /\ At(u, "forget")
  /\ \/ backup' = [backup EXCEPT ![u] = "none"] /\ failures' = failures
     \/ backup' = backup /\ Failure
  /\ download' = [download EXCEPT ![u] = "none"]
  /\ Goto(u, "run")
  /\ UNCHANGED <<args, installed, staged, want>>

\* A whole binary: the one that was there, or one a release published.
Whole(f) == f \in {Current} \cup Releases

\* The file runs, and what it prints for --version contains the version.
RunsAs(f, version) == Whole(f) /\ <<Reports[f], version>> \in Contains

\* Mutant: the new binary is not asked for its version.
VerifyInstalledNothing(u) ==
  /\ At(u, "run")
  /\ Finish(u, "updated")
  /\ UNCHANGED <<args, files, want, failures>>

\* verify_installed: run whatever is installed now, and look for the version
\* in what it prints.
VerifyInstalled(u) ==
  /\ At(u, "run")
  /\ IF RunsAs(installed, want[u])
       THEN Finish(u, "updated")
       ELSE Finish(u, "failed")
  /\ UNCHANGED <<args, files, want, failures>>

Die(u) ==
  /\ at[u] \notin {"done", "dead"}
  /\ Failure
  /\ at' = [at EXCEPT ![u] = "dead"]
  /\ UNCHANGED <<args, files, want, ending>>

\* The calls whose failure ends the command with no other effect.
CallFails(u) ==
  \E here \in {"tag", "fetch", "verify", "mode", "aside", "run"} : FailsAt(u, here)

Update(u) ==
  \/ PickTag(u) \/ Decide(u) \/ Fetch(u) \/ Verify(u) \/ Copy(u) \/ CopyMode(u)
  \/ ClearBackup(u) \/ MoveAside(u) \/ MoveIn(u) \/ Undo(u) \/ Unstage(u)
  \/ Forget(u) \/ VerifyInstalled(u)

AllStopped == (\A u \in Updaters : at[u] \in {"done", "dead"}) /\ UNCHANGED updateVars

UpdateNext ==
  \/ \E u \in Updaters : Update(u) \/ CallFails(u) \/ Die(u)
  \/ AllStopped

UpdateSpec == UpdateInit /\ [][UpdateNext]_updateVars

(***************************************************************************)
(* Properties                                                              *)
(***************************************************************************)

\* Nothing damaged is ever put in place, also when several updates run at once
\* and their renames interleave (verify_sha256 before replace_binary, and
\* replace_binary staging beside the installed file).
InstalledIsWhole == installed = "none" \/ Whole(installed)

\* A whole binary is always left on disk, in place or as somebody's backup,
\* whatever fails and whoever dies in the middle.
BinarySurvives == Whole(installed) \/ \E u \in Updaters : Whole(backup[u])

\* When everybody has ended, nobody died and at most one call failed, a whole
\* binary is in place: whatever single rename fails, it is undone, also while
\* another update is at its own renames.
OneFaultIsUndone ==
  (\A u \in Updaters : at[u] = "done") /\ failures <= 1 => Whole(installed)

\* An update that reports success has installed the release it was asked for,
\* and that release runs as its version, unless another update was at its own
\* renames too.
UpdatedMeansInstalled ==
  \A u \in Updaters :
    /\ ending[u] = "updated"
    /\ \A w \in Updaters \ {u} :
         at[w] \in {"tag", "decide", "fetch", "verify", "copy", "mode", "clear", "aside"}
    => installed = want[u] /\ RunsAs(installed, want[u])

=============================================================================
