--------------------------- MODULE CertifyOracle ---------------------------
(***************************************************************************)
(* run_oracle, run_bounded_command and cleanup_container_verified of       *)
(* crates/hwp-cli/src/certification.rs: an independent importer runs in a  *)
(* container, through a runtime client that is given a deadline for each   *)
(* of its commands.                                                        *)
(*                                                                         *)
(* A command is a child process in a group of its own.  It ends by itself  *)
(* or is killed at its deadline, which is always possible; either way its  *)
(* request may already be with the runtime's daemon, which carries it out  *)
(* at any later time, or never.  The two pipe readers are joined without a *)
(* deadline: a descendant that left the group and holds a pipe keeps the   *)
(* caller waiting.                                                         *)
(*                                                                         *)
(* Left out: the arguments of the commands, the digests of the logs, and   *)
(* what pins the runtime, the daemon, the image and the extension to the   *)
(* policy; each comparison is one that matches or does not.                *)
(***************************************************************************)
EXTENDS Naturals

CONSTANTS
  MaxTries,   \* how often cleanup_container_verified tries: 3
  MaxFaults   \* bound: calls that fail

ASSUME TriesAssumption  == MaxTries \in Nat \ {0}
ASSUME FaultsAssumption == MaxFaults \in Nat

VARIABLES
  mode,       \* OracleMode of the policy
  step,       \* the next command, or where run_oracle is between commands
  child,      \* the command's process
  exit,       \* how the ended child ended
  holder,     \* a descendant outside the group holds a pipe of the child
  inflight,   \* requests the daemon has not carried out
  container,  \* the container exists
  tries,      \* tries of the cleanup
  execution,  \* how the run command ended
  file,       \* file[f]: what docker cp left in .oracle-output
  claim,      \* what the runner wrote in oracle-result.json
  scratch,    \* .oracle-runtime, -extension, -output or the cid file is in the stage
  copied,     \* oracle/import.pdf is in the stage
  oracle,     \* OracleReport.status
  faults

commandVars == <<child, exit, holder>>
daemonVars  == <<inflight, container>>
evidence    == <<execution, file, claim>>
stageVars   == <<scratch, copied>>
oracleVars  == <<mode, step, commandVars, daemonVars, tries, evidence,
                 stageVars, oracle>>

Probes   == {"version", "daemon", "image"}
Copies   == {"cpResult", "cpPdf"}
Commands == Probes \cup Copies \cup {"run", "rm", "inspect"}
Files    == {"result", "pdf"}

OracleTypeOK ==
  /\ mode \in {"disabled", "optional", "required"}
  /\ step \in Commands \cup {"idle", "judge", "keep", "ended"}
  /\ child \in {"none", "running", "exited", "killed"}
  /\ exit \in {"none", "success", "failure", "other"}
  /\ holder \in BOOLEAN
  /\ inflight \subseteq {"create", "rm"}
  /\ container \in BOOLEAN
  /\ tries \in 0..MaxTries
  /\ execution \in {"none", "error", "success", "failure", "other", "timeout"}
  /\ file \in [Files -> {"none", "partial", "whole"}]
  /\ claim \in {"none", "passed", "failed", "bogus"}
  /\ scratch \in BOOLEAN /\ copied \in BOOLEAN
  /\ oracle \in {"none", "disabled", "not_run", "unavailable", "failed", "passed"}
  /\ faults \in 0..MaxFaults
  /\ child # "none" => step \in Commands

OracleInit ==
  /\ mode \in {"disabled", "optional", "required"}
  /\ step = "idle"
  /\ child = "none" /\ exit = "none" /\ holder = FALSE
  /\ inflight = {} /\ container = FALSE
  /\ tries = 0
  /\ execution = "none"
  /\ file = [f \in Files |-> "none"]
  /\ claim = "none"
  /\ scratch = FALSE /\ copied = FALSE
  /\ oracle = "none"
  /\ faults = 0

Fault == faults < MaxFaults /\ faults' = faults + 1

(***************************************************************************)
(* Where run_oracle goes when a command returned                           *)
(***************************************************************************)

\* run_oracle returns; its guards remove what it put in the stage, and ignore
\* a failure, when they do.
End(status) ==
  /\ step' = "ended"
  /\ oracle' = status
  /\ \/ scratch' = FALSE /\ faults' = faults
     \/ scratch' = scratch /\ Fault

Go(next) == step' = next /\ UNCHANGED <<oracle, scratch>>

\* The runtime said there is no such container.  A command that failed for
\* another reason, was killed or was not run says nothing.
Gone(outcome) == outcome = "failure"

\* The probes: any doubt makes the oracle unavailable, and nothing was run;
\* after the last one the extension and the output directory are prepared.
AfterProbe(outcome) ==
  /\ \/ /\ outcome = "success"
        /\ Go(CASE step = "version" -> "daemon"
                [] step = "daemon"  -> "image"
                [] step = "image"   -> "run")
        /\ faults' = faults
     \/ End("unavailable")
  /\ UNCHANGED <<tries, evidence, copied>>

\* The artifacts are fetched unless the command itself could not be followed.
AfterRun(outcome) ==
  /\ execution' = outcome
  /\ Go(IF outcome = "error" THEN "rm" ELSE "cpResult")
  /\ UNCHANGED <<tries, file, claim, copied, faults>>

\* A copy that did not succeed left nothing or a part; nobody looks.
AfterCopy(f, outcome) ==
  /\ \E left \in IF outcome = "success" THEN {"whole"} ELSE {"none", "partial"} :
       file' = [file EXCEPT ![f] = left]
  /\ Go(IF f = "result" THEN "cpPdf" ELSE "rm")
  /\ UNCHANGED <<tries, execution, claim, copied, faults>>

\* Mutant: the cleanup is tried until the container is gone.
AfterInspectForEver(outcome) ==
  /\ IF Gone(outcome) THEN Go("judge") ELSE Go("rm")
  /\ UNCHANGED <<tries, evidence, copied, faults>>

\* Only an inspection tells whether the container is gone; after the last try
\* without an answer the oracle failed.
AfterInspect(outcome) ==
  /\ IF Gone(outcome)
       THEN Go("judge") /\ UNCHANGED <<tries, faults>>
       ELSE /\ tries' = tries + 1
            /\ IF tries + 1 = MaxTries THEN End("failed")
                                       ELSE Go("rm") /\ faults' = faults
  /\ UNCHANGED <<evidence, copied>>

After(outcome) ==
  \/ step \in Probes    /\ AfterProbe(outcome)
  \/ step = "run"       /\ AfterRun(outcome)
  \/ step = "cpResult"  /\ AfterCopy("result", outcome)
  \/ step = "cpPdf"     /\ AfterCopy("pdf", outcome)
  \/ step = "rm"        /\ Go("inspect") /\ UNCHANGED <<tries, evidence, copied, faults>>
  \/ step = "inspect"   /\ AfterInspect(outcome)

\* Mutant: the verdict does not look at how the command ended.
AcceptableAnyhow ==
  /\ execution # "error"
  /\ claim = "passed"
  /\ file = [f \in Files |-> "whole"]

\* The command ended in time and well, the runner's result is whole, attests
\* what the policy expects and claims success, and the PDF is the one it names.
Acceptable ==
  /\ execution = "success"
  /\ claim = "passed"
  /\ file = [f \in Files |-> "whole"]

\* After the container is gone: anything but an acceptable result fails.
Judge ==
  /\ step = "judge"
  /\ IF Acceptable THEN Go("keep") /\ faults' = faults ELSE End("failed")
  /\ UNCHANGED <<mode, commandVars, daemonVars, tries, evidence, copied>>

\* The PDF is copied into the stage and hashed again; when that fails the copy
\* is removed, if it can be.
Keep ==
  /\ step = "keep"
  /\ \/ copied' = TRUE /\ End("passed")
     \/ copied' \in BOOLEAN /\ End("failed")
  /\ UNCHANGED <<mode, commandVars, daemonVars, tries, evidence>>

\* The policy, the environment and the pinned runtime allow a run, or not.
StartOracle ==
  /\ step = "idle"
  /\ IF mode = "disabled"
       THEN step' = "ended" /\ oracle' = "disabled" /\ UNCHANGED scratch
       ELSE \/ step' = "ended" /\ oracle' = "unavailable" /\ UNCHANGED scratch
            \/ step' = "version" /\ scratch' = TRUE /\ UNCHANGED oracle
  /\ UNCHANGED <<mode, commandVars, daemonVars, tries, evidence, copied, faults>>

(***************************************************************************)
(* run_bounded_command                                                     *)
(***************************************************************************)

\* The request a command sends to the daemon, if it changes anything there.
Request == CASE step = "run" -> {"create"} [] step = "rm" -> {"rm"} [] OTHER -> {}

\* Spawn the child and the two pipe readers.
Spawn ==
  /\ step \in Commands
  /\ child = "none"
  /\ child' = "running"
  /\ holder' = FALSE
  /\ inflight' = inflight \cup Request
  /\ UNCHANGED <<mode, step, exit, container, tries, evidence, stageVars, oracle,
                 faults>>

\* The command cannot be spawned: its error is its outcome.
SpawnFails ==
  /\ step \in Commands
  /\ child = "none"
  /\ After("error")
  /\ UNCHANGED <<mode, commandVars, daemonVars>>

\* The child starts a process that leaves its group and keeps a pipe.
Escapes ==
  /\ child = "running"
  /\ ~holder
  /\ holder' = TRUE
  /\ UNCHANGED <<mode, step, child, exit, daemonVars, tries, evidence, stageVars,
                 oracle, faults>>

\* That process ends, or closes the pipe; nothing makes it.
HolderEnds ==
  /\ holder
  /\ holder' = FALSE
  /\ UNCHANGED <<mode, step, child, exit, daemonVars, tries, evidence, stageVars,
                 oracle, faults>>

\* A child that ends well has seen this.
CanSucceed ==
  CASE step = "run"     -> "create" \notin inflight /\ container
    [] step \in Copies  -> container /\ claim # "none"
    [] step = "rm"      -> "rm" \notin inflight
    [] step = "inspect" -> container
    [] OTHER            -> TRUE

\* The child ends: well, as a child that was told no, or for another reason,
\* and the daemon may have dropped its request.  A runner leaves its result in
\* the container.
ChildEnds ==
  /\ child = "running"
  /\ child' = "exited"
  /\ exit' \in {"success", "failure", "other"}
  /\ exit' = "success" => CanSucceed
  /\ exit' = "failure" => (step = "inspect" => ~container)
  /\ inflight' \in {inflight, inflight \ Request}
  /\ claim' \in IF step = "run" /\ container THEN {"none", "passed", "failed", "bogus"}
                                             ELSE {claim}
  /\ UNCHANGED <<mode, step, holder, container, tries, execution, file,
                 stageVars, oracle, faults>>

\* The deadline passes: the whole group is killed.  An inspection may have
\* answered before.
Deadline ==
  /\ child = "running"
  /\ child' = "killed"
  /\ exit' \in {"none"} \cup {e \in {"failure"} : step = "inspect" /\ ~container}
  /\ UNCHANGED <<mode, step, holder, daemonVars, tries, evidence, stageVars,
                 oracle, faults>>

\* Both readers saw the end of their pipe, or failed: the command returns.
Join ==
  /\ child \in {"exited", "killed"}
  /\ ~holder
  /\ After(IF exit = "none" THEN "timeout" ELSE exit) \/ After("error")
  /\ child' = "none"
  /\ exit' = "none"
  /\ UNCHANGED <<mode, holder, daemonVars>>

\* The daemon carries a request out, whether or not its client still lives.
DaemonCreates ==
  /\ "create" \in inflight
  /\ inflight' = inflight \ {"create"}
  /\ container' = TRUE
  /\ UNCHANGED <<mode, step, commandVars, tries, evidence, stageVars, oracle, faults>>

DaemonRemoves ==
  /\ "rm" \in inflight
  /\ inflight' = inflight \ {"rm"}
  /\ container' = FALSE
  /\ UNCHANGED <<mode, step, commandVars, tries, evidence, stageVars, oracle, faults>>

\* A step of run_oracle itself.
OracleStep == StartOracle \/ Spawn \/ SpawnFails \/ Join \/ Judge \/ Keep

\* A step of the commands, of what they started, or of the daemon.
Daemon == DaemonCreates \/ DaemonRemoves
=============================================================================
