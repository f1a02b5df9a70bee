--------------------------- MODULE Certification ---------------------------
(***************************************************************************)
(* execute and AtomicCertificationDir of                                   *)
(* crates/hwp-cli/src/certification.rs: a document is certified under a    *)
(* policy in a private workspace, which becomes the report directory by    *)
(* one rename that replaces nothing.                                       *)
(*                                                                         *)
(* The checks, the rules and the renderer are data: each passes or fails.  *)
(* What is modelled is how their results become a verdict, what is in the  *)
(* workspace when, and how the workspace becomes the report.  The oracle   *)
(* is CertifyOracle; it runs only when everything local passed.            *)
(***************************************************************************)
EXTENDS CertifyOracle

CONSTANT MaxExt     \* bound: steps of another program on the destination

ASSUME ExtAssumption == MaxExt \in Nat

VARIABLES
  pc,         \* where execute is
  dest,       \* what the report directory's name holds
  stage,      \* what is in the workspace, beside what the oracle put there
  root,       \* the workspace exists under its private name
  listed,     \* the directories and files the manifest lists
  checks,     \* the package, import, rule and evidence checks passed
  rendered,   \* the render check passed
  overall,    \* CertificationReport.overall
  told,       \* what the caller is told
  ext,
  tree        \* observer: what was in the workspace when it was renamed

certVars == <<pc, dest, stage, root, listed, checks, rendered, overall, told,
              ext, tree>>
vars     == <<oracleVars, faults, certVars>>

Private  == {"snapshots"}               \* the input, policy and font copies
Temp     == {"render"}                  \* .render-artifacts
Names    == Private \cup Temp \cup {"pages", "oracle", "scratch", "report", "manifest"}

TypeOK ==
  /\ OracleTypeOK
  /\ pc \in {"new", "snapshot", "check", "render", "oracle", "report", "tidy",
             "audit", "sync", "look", "rename", "syncParent", "drop", "done",
             "crashed"}
  /\ dest \in {"missing", "other", "report"}
  /\ stage \subseteq Names \ {"oracle", "scratch"}
  /\ root \in BOOLEAN
  /\ listed \subseteq Names
  /\ checks \in BOOLEAN /\ rendered \in BOOLEAN
  /\ overall \in {"none", "passed", "partial", "failed"}
  /\ told \in {"none", "ok", "error"}
  /\ ext \in 0..MaxExt
  /\ tree \subseteq Names

Init ==
  /\ OracleInit
  /\ pc = "new"
  /\ dest \in {"missing", "other"}
  /\ stage = {}
  /\ root = FALSE
  /\ listed = {}
  /\ checks = FALSE
  /\ rendered = FALSE
  /\ overall = "none"
  /\ told = "none"
  /\ ext = 0
  /\ tree = {}

Return(what) == pc' = "drop" /\ told' = what

\* A step of execute succeeds, or returns its error.
Try(can, next) ==
  \/ can /\ pc' = next /\ UNCHANGED <<told, faults>>
  \/ ~can /\ Return("error") /\ UNCHANGED faults
  \/ Fault /\ Return("error")

\* What is in the workspace.
Stage ==
  stage \cup {n \in {"oracle"} : copied} \cup {n \in {"scratch"} : scratch}

(***************************************************************************)
(* Staging and checking                                                    *)
(***************************************************************************)

\* AtomicCertificationDir::new: the destination must not exist.
New ==
  /\ pc = "new"
  /\ Try(dest = "missing", "snapshot")
  /\ root' = (pc' = "snapshot")
  /\ UNCHANGED <<oracleVars, dest, stage, listed, checks, rendered, overall, ext, tree>>

\* The input, the policy and the fonts are copied, once; the policy is valid.
Snapshot ==
  /\ pc = "snapshot"
  /\ stage' = Private
  /\ Try(TRUE, "check")
  /\ UNCHANGED <<oracleVars, dest, root, listed, checks, rendered, overall, ext, tree>>

\* Everything local but the render, and whether there is a document to render.
Check ==
  /\ pc = "check"
  /\ checks' \in BOOLEAN
  /\ \/ pc' = "render"
     \/ pc' = "oracle" /\ ~checks'
  /\ UNCHANGED <<oracleVars, faults, dest, stage, root, listed, rendered, overall,
                 told, ext, tree>>

\* run_render: the pages are written to a temporary tree and moved into the
\* workspace and listed only when the last one was; a render that stops leaves
\* nothing, unless what it wrote cannot be removed.
Render ==
  /\ pc = "render"
  /\ pc' = "oracle"
  /\ \/ /\ rendered' \in BOOLEAN
        /\ stage' = stage \cup {"pages"}
        /\ listed' = {"pages"}
        /\ faults' = faults
     \/ /\ rendered' = FALSE
        /\ UNCHANGED <<stage, listed, faults>>
     \/ /\ rendered' = FALSE
        /\ Fault
        /\ \E left \in {"pages", "render"} : stage' = stage \cup {left}
        /\ listed' = listed
  /\ UNCHANGED <<oracleVars, dest, root, checks, overall, told, ext, tree>>

LocalFailed == ~checks \/ ~rendered

\* The oracle is not run on a document that failed.
SkipOracle ==
  /\ pc = "oracle"
  /\ LocalFailed
  /\ oracle = "none"
  /\ oracle' = IF mode = "disabled" THEN "disabled" ELSE "not_run"
  /\ pc' = "report"
  /\ UNCHANGED <<mode, step, commandVars, daemonVars, tries, evidence, stageVars,
                 faults, dest, stage, root, listed, checks, rendered, overall,
                 told, ext, tree>>

RunOracle ==
  /\ pc = "oracle"
  /\ ~LocalFailed
  /\ \/ OracleStep /\ pc' = pc
     \/ step = "ended" /\ pc' = "report" /\ UNCHANGED <<oracleVars, faults>>
  /\ UNCHANGED <<dest, stage, root, listed, checks, rendered, overall, told, ext, tree>>

(***************************************************************************)
(* The verdict                                                             *)
(***************************************************************************)

\* overall_status.
Verdict ==
  IF LocalFailed THEN "failed"
  ELSE CASE oracle = "passed" -> "passed"
         [] mode = "required" /\ oracle = "unavailable" -> "partial"
         [] mode = "optional" /\ oracle = "failed" -> "partial"
         [] mode = "optional" /\ oracle = "unavailable" -> "passed"
         [] mode = "disabled" /\ oracle = "disabled" -> "passed"
         [] OTHER -> "failed"

\* report.json and manifest.json are written; the manifest lists the rendered
\* pages, the oracle's PDF when it passed, and the report.
Report ==
  /\ pc = "report"
  /\ overall' = Verdict
  /\ Try(TRUE, "tidy")
  /\ listed' = listed \cup {"report"} \cup {n \in {"oracle"} : oracle = "passed"}
  /\ stage' = stage \cup {"report", "manifest"}
  /\ UNCHANGED <<oracleVars, dest, root, checks, rendered, ext, tree>>

(***************************************************************************)
(* Publishing                                                              *)
(***************************************************************************)

\* The private copies are removed.
Tidy ==
  /\ pc = "tidy"
  /\ Try(TRUE, "audit")
  /\ stage' = IF pc' = "audit" THEN stage \ Private ELSE stage
  /\ UNCHANGED <<oracleVars, dest, root, listed, checks, rendered, overall, ext, tree>>

\* Mutant: the audit looks for what is missing, not for what is too much.
AuditedMissing == listed \cup {"manifest"} \subseteq Stage

\* audit_published_tree: what is in the workspace is what the manifest lists.
Audited == Stage = listed \cup {"manifest"}

Audit ==
  /\ pc = "audit"
  /\ Try(Audited, "sync")
  /\ UNCHANGED <<oracleVars, dest, stage, root, listed, checks, rendered, overall, ext, tree>>

SyncTree ==
  /\ pc = "sync"
  /\ Try(TRUE, "look")
  /\ UNCHANGED <<oracleVars, dest, stage, root, listed, checks, rendered, overall, ext, tree>>

\* The destination has not appeared meanwhile.
Look ==
  /\ pc = "look"
  /\ Try(dest = "missing", "rename")
  /\ UNCHANGED <<oracleVars, dest, stage, root, listed, checks, rendered, overall, ext, tree>>

\* Mutant: a rename that relies on the look before it.
RenameOver ==
  /\ pc = "rename"
  /\ Try(TRUE, "syncParent")
  /\ dest' = IF pc' = "syncParent" THEN "report" ELSE dest
  /\ root' = (pc' # "syncParent")
  /\ tree' = IF pc' = "syncParent" THEN Stage ELSE tree
  /\ UNCHANGED <<oracleVars, stage, listed, checks, rendered, overall, ext>>

\* rename_directory_noreplace: it fails when the destination exists.
Rename ==
  /\ pc = "rename"
  /\ Try(dest = "missing", "syncParent")
  /\ dest' = IF pc' = "syncParent" THEN "report" ELSE dest
  /\ root' = (pc' # "syncParent")
  /\ tree' = IF pc' = "syncParent" THEN Stage ELSE tree
  /\ UNCHANGED <<oracleVars, stage, listed, checks, rendered, overall, ext>>

\* The parent is synced; a failure is the caller's error although the report
\* is in place.
SyncParent ==
  /\ pc = "syncParent"
  /\ \/ Return("ok") /\ faults' = faults
     \/ Return("error") /\ Fault
  /\ UNCHANGED <<oracleVars, dest, stage, root, listed, checks, rendered, overall, ext, tree>>

\* Drop removes the workspace of what was not published, by its private name.
Drop ==
  /\ pc = "drop"
  /\ pc' = "done"
  /\ \/ root' = FALSE /\ faults' = faults
     \/ root /\ root' = root /\ Fault
  /\ UNCHANGED <<oracleVars, dest, stage, listed, checks, rendered, overall, told, ext, tree>>

(***************************************************************************)
(* Environment                                                             *)
(***************************************************************************)

\* The children, what they started and the daemon go on by themselves.
Outside ==
  /\ Escapes \/ HolderEnds \/ ChildEnds \/ Deadline \/ Daemon
  /\ UNCHANGED certVars

\* Another program creates or removes the destination.
OtherProgram ==
  /\ ext < MaxExt
  /\ ext' = ext + 1
  /\ dest' \in {"missing", "other"} \ {dest}
  /\ UNCHANGED <<oracleVars, faults, pc, stage, root, listed, checks, rendered,
                 overall, told, tree>>

\* The process dies; the daemon goes on, and nothing is removed.
Crash ==
  /\ pc \notin {"done", "crashed"}
  /\ pc' = "crashed"
  /\ UNCHANGED <<oracleVars, faults, dest, stage, root, listed, checks, rendered,
                 overall, told, ext, tree>>

Execute ==
  \/ New \/ Snapshot \/ Check \/ Render \/ SkipOracle \/ RunOracle \/ Report
  \/ Tidy \/ Audit \/ SyncTree \/ Look \/ Rename \/ SyncParent \/ Drop

Done == pc \in {"done", "crashed"} /\ UNCHANGED vars

Next == Execute \/ Outside \/ OtherProgram \/ Crash \/ Done

\* The process goes on while it can, and a deadline that is due comes.  Nothing
\* is assumed of the children, of what they started, or of the daemon.
Fairness == WF_vars(Execute) /\ WF_vars(Deadline /\ UNCHANGED certVars)

Spec == Init /\ [][Next]_vars /\ Fairness

(***************************************************************************)
(* Properties                                                              *)
(***************************************************************************)

\* A report that says "passed" rests on evidence: every local check passed,
\* and the oracle's PDF is in it, or the policy required one, only when the run
\* ended well and in time, the runner's result and its PDF came out whole, and
\* the container was gone when it was judged, for good (execute, run_oracle).
PassIsEarned ==
  dest = "report" /\ overall = "passed" =>
    /\ checks /\ rendered
    /\ mode = "required" \/ "oracle" \in tree =>
         /\ execution = "success" /\ claim = "passed"
         /\ file = [f \in Files |-> "whole"]
         /\ "create" \notin inflight /\ ~container

\* What stands under the report's name is exactly what its manifest lists,
\* whatever could not be removed: never a private copy, a temporary tree or an
\* artifact of a render or an oracle that failed (audit_published_tree); and
\* the caller's "ok" is a report in place, its error none, but for a parent
\* directory that could not be synced after the rename.
ReportIsWhole ==
  /\ dest = "report" =>
       /\ tree = listed \cup {"manifest"}
       /\ "oracle" \in tree <=> oracle = "passed"
  /\ pc = "done" /\ ext = 0 =>
       /\ told = "ok" => dest = "report" /\ ~root
       /\ told = "error" => faults > 0 \/ (dest # "report" /\ ~root)

\* The command never takes the place of something that has the report's name,
\* however late it appeared (rename_directory_noreplace).
NothingIsReplaced ==
  [][ext' = ext /\ dest' # dest => dest = "missing" /\ pc = "rename"]_vars

\* The certification ends, however its commands hang and whatever the daemon
\* does, unless a process that left the group of a command keeps a pipe open
\* for ever (run_bounded_command joins its readers without a deadline).
CertificationEnds == <>(pc \in {"done", "crashed"}) \/ <>[]holder
=============================================================================
