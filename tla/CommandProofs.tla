---------------------------- MODULE CommandProofs ----------------------------
(***************************************************************************)
(* Two commands that run other programs.  The certification pipeline with  *)
(* its oracle, for any number of tries of the cleanup, of faults and of    *)
(* steps of another program (Certification); and what is left on disk by   *)
(* `hwp update`, for any number of processes, releases, failing calls and  *)
(* deaths (SelfUpdate).                                                    *)
(***************************************************************************)
EXTENDS Certification, SelfUpdate, TLAPS

Outcomes == {"error", "success", "failure", "other", "timeout"}

\* The cleanup stops at its last try.
TriesLeft == step # "ended" => tries < MaxTries

\* What the run leaves alone while it is not certifying: the rest of execute.
OraclePart == OracleStep \/ Escapes \/ HolderEnds \/ ChildEnds \/ Deadline \/ Daemon

-----------------------------------------------------------------------------
(***************************************************************************)
(* Types                                                                   *)
(***************************************************************************)

\* A fault is one of at most MaxFaults.
LEMMA FaultType == ASSUME faults \in 0..MaxFaults, Fault PROVE faults' \in 0..MaxFaults
BY FaultsAssumption DEF Fault

\* The end of run_oracle keeps the types.
LEMMA EndType ==
  ASSUME OracleTypeOK, NEW status \in {"unavailable", "failed", "passed"}, End(status)
  PROVE  /\ step' = "ended" /\ oracle' = status
         /\ scratch' \in BOOLEAN /\ faults' \in 0..MaxFaults
BY FaultType DEF OracleTypeOK, End

\* Whatever a command's outcome is, what follows keeps the types.
LEMMA AfterType ==
  ASSUME OracleTypeOK, TriesLeft, NEW outcome \in Outcomes, step \in Commands,
         After(outcome)
  PROVE  /\ TriesLeft'
         /\ step' \in Commands \cup {"judge", "ended"}
         /\ tries' \in 0..MaxTries
         /\ execution' \in {"none", "error", "success", "failure", "other", "timeout"}
         /\ file' \in [Files -> {"none", "partial", "whole"}]
         /\ scratch' \in BOOLEAN /\ copied' \in BOOLEAN
         /\ oracle' \in {"none", "disabled", "not_run", "unavailable", "failed", "passed"}
         /\ faults' \in 0..MaxFaults
<1> USE DEF OracleTypeOK, TriesLeft, Commands, Probes, Copies, Outcomes, Go, evidence
<1>1. CASE step \in Probes /\ AfterProbe(outcome)
  BY <1>1, EndType DEF AfterProbe
<1>2. CASE step = "run" /\ AfterRun(outcome)
  BY <1>2 DEF AfterRun
<1>3. CASE step = "cpResult" /\ AfterCopy("result", outcome)
  BY <1>3 DEF AfterCopy, Files
<1>4. CASE step = "cpPdf" /\ AfterCopy("pdf", outcome)
  BY <1>4 DEF AfterCopy, Files
<1>5. CASE step = "rm" /\ Go("inspect") /\ UNCHANGED <<tries, evidence, copied, faults>>
  BY <1>5
<1>6. CASE step = "inspect" /\ AfterInspect(outcome)
  <2>1. CASE Gone(outcome)
    BY <1>6, <2>1 DEF AfterInspect
  <2>2. CASE ~Gone(outcome) /\ tries + 1 = MaxTries
    BY <1>6, <2>2, EndType, TriesAssumption DEF AfterInspect
  <2>3. CASE ~Gone(outcome) /\ tries + 1 # MaxTries
    <3>1. step' = "rm" /\ faults' = faults /\ tries' = tries + 1
          /\ UNCHANGED <<execution, file, copied, scratch, oracle>>
      BY <1>6, <2>3 DEF AfterInspect
    <3>2. tries' < MaxTries
      BY <1>6, <2>3, <3>1, TriesAssumption DEF TriesLeft
    <3> QED
      BY <3>1, <3>2, TriesAssumption DEF TriesLeft
  <2> QED
    BY <2>1, <2>2, <2>3
<1> QED
  BY <1>1, <1>2, <1>3, <1>4, <1>5, <1>6 DEF After

\* A step of the oracle, of its commands or of the daemon keeps the types.
LEMMA OracleTypes ==
  OracleTypeOK /\ TriesLeft /\ OraclePart => OracleTypeOK' /\ TriesLeft'
<1> SUFFICES ASSUME OracleTypeOK, TriesLeft, OraclePart PROVE OracleTypeOK' /\ TriesLeft'
  OBVIOUS
<1> USE DEF commandVars, daemonVars, evidence, stageVars
<1>1. CASE StartOracle
  <2>1. child = "none" /\ child' = child
    BY <1>1 DEF OracleTypeOK, StartOracle, Commands, Probes, Copies
  <2>2. step' \in Commands \cup {"ended"}
    BY <1>1 DEF StartOracle, Commands, Probes
  <2>3. scratch' \in BOOLEAN
    BY <1>1 DEF OracleTypeOK, StartOracle
  <2>4. oracle' \in {"none", "disabled", "unavailable"} \/ oracle' = oracle
    BY <1>1 DEF StartOracle
  <2>5. TriesLeft'
    BY <1>1 DEF TriesLeft, StartOracle
  <2> QED
    BY <1>1, <2>1, <2>2, <2>3, <2>4, <2>5 DEF OracleTypeOK, StartOracle
<1>2. CASE Spawn
  <2>1. inflight' \subseteq {"create", "rm"}
    BY <1>2 DEF OracleTypeOK, Spawn, Request
  <2>2. TriesLeft'
    BY <1>2 DEF TriesLeft, Spawn
  <2>3. /\ holder' \in BOOLEAN
        /\ UNCHANGED <<mode, step, exit, container, tries, execution, file, claim,
                       scratch, copied, oracle, faults>>
        /\ step \in Commands /\ child' = "running"
    BY <1>2 DEF Spawn
  <2> QED
    BY <2>1, <2>2, <2>3 DEF OracleTypeOK
<1>3. CASE SpawnFails
  <2>1. After("error") /\ step \in Commands /\ "error" \in Outcomes
    BY <1>3 DEF SpawnFails, Outcomes
  <2>2. UNCHANGED <<mode, commandVars, daemonVars>> /\ claim' = claim /\ child = "none"
    BY <1>3 DEF SpawnFails, After, AfterProbe, AfterRun, AfterCopy, AfterInspect
  <2> QED
    BY <2>1, <2>2, AfterType DEF OracleTypeOK
<1>4. CASE Join
  <2>1. PICK outcome \in Outcomes : After(outcome)
    BY <1>4 DEF Join, Outcomes, OracleTypeOK
  <2>2. step \in Commands
    BY <1>4 DEF Join, OracleTypeOK
  <2>3. UNCHANGED <<mode, holder, daemonVars>> /\ claim' = claim
        /\ child' = "none" /\ exit' = "none"
    BY <1>4, <2>1 DEF Join, After, AfterProbe, AfterRun, AfterCopy, AfterInspect
  <2> QED
    BY <2>1, <2>2, <2>3, AfterType DEF OracleTypeOK
<1>n. step \in {"judge", "keep"} => child = "none"
  BY DEF OracleTypeOK, Commands, Probes, Copies
<1>5. CASE Judge
  <2>1. CASE Acceptable
    BY <1>5, <1>n, <2>1 DEF OracleTypeOK, TriesLeft, Judge, Go
  <2>2. CASE ~Acceptable
    <3>1. End("failed") /\ child = "none"
      BY <1>5, <1>n, <2>2 DEF Judge
    <3>2. /\ step' = "ended" /\ oracle' = "failed"
          /\ scratch' \in BOOLEAN /\ faults' \in 0..MaxFaults
      BY <3>1, EndType
    <3> QED
      BY <1>5, <3>1, <3>2 DEF OracleTypeOK, TriesLeft, Judge
  <2> QED
    BY <2>1, <2>2
<1>6. CASE Keep
  <2>1. PICK status \in {"failed", "passed"} : End(status) /\ copied' \in BOOLEAN
    BY <1>6 DEF Keep
  <2>2. /\ step' = "ended" /\ oracle' = status
        /\ scratch' \in BOOLEAN /\ faults' \in 0..MaxFaults
    BY <2>1, EndType
  <2> QED
    BY <1>6, <1>n, <2>1, <2>2 DEF OracleTypeOK, TriesLeft, Keep
<1>7. CASE Escapes \/ HolderEnds
  <2>1. /\ holder' \in BOOLEAN
        /\ UNCHANGED <<mode, step, child, exit, daemonVars, tries, evidence, stageVars,
                       oracle, faults>>
    BY <1>7 DEF Escapes, HolderEnds
  <2> QED
    BY <2>1 DEF OracleTypeOK, TriesLeft
<1>9. CASE Deadline
  <2>1. step \in Commands /\ exit' \in {"none", "failure"} /\ child' = "killed"
    BY <1>9 DEF OracleTypeOK, Deadline
  <2> QED
    BY <1>9, <2>1 DEF OracleTypeOK, TriesLeft, Deadline
<1>10. CASE Daemon
  <2>1. /\ container' \in BOOLEAN
        /\ inflight' \subseteq inflight
        /\ UNCHANGED <<mode, step, commandVars, tries, evidence, stageVars, oracle,
                       faults>>
    BY <1>10 DEF Daemon, DaemonCreates, DaemonRemoves
  <2> QED
    BY <2>1 DEF OracleTypeOK, TriesLeft
<1>8. CASE ChildEnds
  <2>1. inflight' \subseteq {"create", "rm"}
    BY <1>8 DEF OracleTypeOK, ChildEnds
  <2>2. claim' \in {"none", "passed", "failed", "bogus"}
    BY <1>8 DEF OracleTypeOK, ChildEnds
  <2> QED
    BY <1>8, <2>1, <2>2 DEF OracleTypeOK, TriesLeft, ChildEnds
<1> QED
  BY <1>1, <1>2, <1>3, <1>4, <1>5, <1>6, <1>7, <1>8, <1>9, <1>10 DEF OraclePart, OracleStep

\* The certification keeps its types.
LEMMA TypeStep == TypeOK /\ TriesLeft /\ [Next]_vars => TypeOK' /\ TriesLeft'
<1> SUFFICES ASSUME TypeOK, TriesLeft, [Next]_vars PROVE TypeOK' /\ TriesLeft'
  OBVIOUS
<1>o. UNCHANGED <<oracleVars, faults>> => OracleTypeOK' /\ TriesLeft'
  BY DEF TypeOK, OracleTypeOK, TriesLeft, oracleVars, commandVars, daemonVars,
     evidence, stageVars
<1>f. UNCHANGED oracleVars /\ faults' \in 0..MaxFaults => OracleTypeOK' /\ TriesLeft'
  BY DEF TypeOK, OracleTypeOK, TriesLeft, oracleVars, commandVars, daemonVars,
     evidence, stageVars
<1>t. ASSUME NEW can, NEW next, Try(can, next)
      PROVE  /\ faults' \in 0..MaxFaults
             /\ \/ pc' = next /\ told' = told
                \/ pc' = "drop" /\ told' = "error"
  BY <1>t, FaultType DEF Try, Return, TypeOK, OracleTypeOK
<1>s. Stage \subseteq Names
  BY DEF TypeOK, Stage, Names, Private, Temp
<1>1. CASE New
  BY <1>1, <1>f, <1>t DEF TypeOK, New
<1>2. CASE Snapshot
  BY <1>2, <1>f, <1>t DEF TypeOK, Snapshot, Names, Private, Temp
<1>3. CASE Check
  BY <1>3, <1>o DEF TypeOK, Check
<1>4. CASE Render
  <2>1. faults' \in 0..MaxFaults
    BY <1>4, FaultType DEF TypeOK, OracleTypeOK, Render
  <2> QED
    BY <1>4, <1>f, <2>1 DEF TypeOK, Render, Names, Private, Temp
<1>5. CASE SkipOracle
  <2>1. OracleTypeOK' /\ TriesLeft'
    BY <1>5 DEF TypeOK, OracleTypeOK, TriesLeft, SkipOracle, commandVars, daemonVars,
       evidence, stageVars
  <2> QED
    BY <1>5, <2>1 DEF TypeOK, SkipOracle
<1>6. CASE RunOracle
  <2>1. OracleTypeOK' /\ TriesLeft'
    BY <1>6, <1>o, OracleTypes DEF TypeOK, RunOracle, OraclePart
  <2> QED
    BY <1>6, <2>1 DEF TypeOK, RunOracle
<1>7. CASE Report
  BY <1>7, <1>f, <1>t DEF TypeOK, Report, Verdict, Names, Private, Temp
<1>8. CASE Tidy
  BY <1>8, <1>f, <1>t DEF TypeOK, Tidy
<1>9. CASE Audit
  BY <1>9, <1>f, <1>t DEF TypeOK, Audit
<1>10. CASE SyncTree
  BY <1>10, <1>f, <1>t DEF TypeOK, SyncTree
<1>11. CASE Look
  BY <1>11, <1>f, <1>t DEF TypeOK, Look
<1>12. CASE Rename
  BY <1>12, <1>f, <1>t, <1>s DEF TypeOK, Rename
<1>13. CASE SyncParent
  <2>1. faults' \in 0..MaxFaults
    BY <1>13, FaultType DEF TypeOK, OracleTypeOK, SyncParent
  <2> QED
    BY <1>13, <1>f, <2>1 DEF TypeOK, SyncParent, Return
<1>14. CASE Drop
  <2>1. faults' \in 0..MaxFaults
    BY <1>14, FaultType DEF TypeOK, OracleTypeOK, Drop
  <2> QED
    BY <1>14, <1>f, <2>1 DEF TypeOK, Drop
<1>15. CASE Outside
  <2>1. OracleTypeOK' /\ TriesLeft'
    BY <1>15, OracleTypes DEF TypeOK, Outside, OraclePart
  <2> QED
    BY <1>15, <2>1 DEF TypeOK, Outside, certVars
<1>16. CASE OtherProgram
  BY <1>16, <1>o, ExtAssumption DEF TypeOK, OtherProgram
<1>17. CASE Crash
  BY <1>17, <1>o DEF TypeOK, Crash
<1>18. CASE UNCHANGED vars
  BY <1>18, <1>o DEF TypeOK, vars, certVars
<1> QED
  BY <1>1, <1>2, <1>3, <1>4, <1>5, <1>6, <1>7, <1>8, <1>9, <1>10, <1>11, <1>12,
     <1>13, <1>14, <1>15, <1>16, <1>17, <1>18 DEF Next, Execute, Done

\* The initial states have their types.
LEMMA TypeInit == Init => TypeOK /\ TriesLeft
<1> SUFFICES ASSUME Init PROVE TypeOK /\ TriesLeft
  OBVIOUS
<1>1. OracleTypeOK /\ TriesLeft
  <2>1. /\ tries \in 0..MaxTries /\ faults \in 0..MaxFaults /\ TriesLeft
        /\ inflight \subseteq {"create", "rm"}
    BY TriesAssumption, FaultsAssumption DEF Init, OracleInit, TriesLeft
  <2>2. holder \in BOOLEAN /\ container \in BOOLEAN /\ scratch \in BOOLEAN
        /\ copied \in BOOLEAN
    BY DEF Init, OracleInit
  <2> QED
    BY <2>1, <2>2 DEF Init, OracleInit, OracleTypeOK
<1>2. root \in BOOLEAN /\ checks \in BOOLEAN /\ rendered \in BOOLEAN
  BY DEF Init
<1> QED
  BY <1>1, <1>2, ExtAssumption DEF Init, TypeOK

\* Every variable of a certification keeps its type; the cleanup of the
\* container never tries more often than cleanup_container_verified allows.
THEOREM TypeCorrect == Spec => []TypeOK
BY TypeInit, TypeStep, PTL DEF Spec

-----------------------------------------------------------------------------
(***************************************************************************)
(* What the oracle's verdict rests on                                      *)
(***************************************************************************)

\* A child has no exit before it ended; the run is asked for once, and when it
\* ended well the container had been created.
RunOnce ==
  /\ child \in {"none", "running"} => exit = "none"
  /\ execution # "none" => step \notin Probes \cup {"idle", "run"}
  /\ step = "run" /\ exit = "success" => "create" \notin inflight

\* When the run ended well no request to create a container is pending, and
\* none exists any more once an inspection said so.
SeenGone ==
  execution = "success" =>
    /\ "create" \notin inflight
    /\ \/ step = "inspect" /\ exit = "failure"
       \/ step \in {"judge", "keep"}
       \/ oracle = "passed"
       => ~container

\* Only an acceptable result is kept, and nothing changes it any more.
Judged ==
  /\ step = "keep" \/ oracle = "passed" => Acceptable
  /\ oracle = "passed" => step = "ended"

OracleInv == OracleTypeOK /\ TriesLeft /\ RunOnce /\ SeenGone /\ Judged

\* What follows a command keeps the evidence, when the outcome is what its
\* child said, or an error.
LEMMA AfterKeeps ==
  ASSUME OracleInv, step \in Commands, NEW outcome \in Outcomes, After(outcome),
         outcome = "success" => exit = "success",
         outcome = "failure" => exit = "failure",
         UNCHANGED <<mode, daemonVars, claim>>, child' = "none", exit' = "none"
  PROVE  RunOnce' /\ SeenGone' /\ Judged'
<1> USE DEF daemonVars, evidence, Go, OracleInv
<1>0. oracle # "passed" /\ step # "ended" /\ step # "keep"
  BY DEF Judged, Commands, Probes, Copies
<1>1. CASE step \in Probes /\ AfterProbe(outcome)
  <2>1. UNCHANGED <<execution, file>> /\ execution = "none"
    BY <1>1 DEF AfterProbe, RunOnce
  <2>2. step' \in {"daemon", "image", "run", "ended"} /\ oracle' # "passed"
    BY <1>0, <1>1 DEF AfterProbe, End, Probes
  <2> QED
    BY <2>1, <2>2 DEF RunOnce, SeenGone, Judged
<1>2. CASE step = "run" /\ AfterRun(outcome)
  <2>1. step' \in {"rm", "cpResult"} /\ oracle' = oracle /\ execution' = outcome
    BY <1>2 DEF AfterRun
  <2>2. execution' = "success" => "create" \notin inflight'
    BY <1>2, <2>1 DEF RunOnce
  <2> QED
    BY <1>0, <2>1, <2>2 DEF RunOnce, SeenGone, Judged, Probes
<1>3. CASE \E f \in Files : AfterCopy(f, outcome)
  <2>1. step' \in {"rm", "cpPdf"} /\ oracle' = oracle /\ execution' = execution
    BY <1>3 DEF AfterCopy
  <2> QED
    BY <1>0, <2>1 DEF RunOnce, SeenGone, Judged, Probes
<1>4. CASE step = "rm" /\ Go("inspect") /\ UNCHANGED <<tries, evidence, copied, faults>>
  BY <1>0, <1>4 DEF RunOnce, SeenGone, Judged, Probes
<1>5. CASE step = "inspect" /\ AfterInspect(outcome)
  <2>1. UNCHANGED <<execution, file>>
    BY <1>5 DEF AfterInspect
  <2>2. CASE Gone(outcome)
    <3>1. step' = "judge" /\ oracle' = oracle /\ exit = "failure"
      BY <1>5, <2>2 DEF AfterInspect, Gone
    <3> QED
      BY <1>0, <1>5, <2>1, <3>1 DEF RunOnce, SeenGone, Judged, Probes
  <2>3. CASE ~Gone(outcome)
    <3>1. step' \in {"rm", "ended"} /\ oracle' # "passed"
      BY <1>0, <1>5, <2>3 DEF AfterInspect, End
    <3> QED
      BY <2>1, <3>1 DEF RunOnce, SeenGone, Judged, Probes
  <2> QED
    BY <2>2, <2>3
<1> QED
  BY <1>1, <1>2, <1>3, <1>4, <1>5 DEF After, Files

\* So does every step of the oracle, of its commands and of the daemon.
LEMMA OracleKeeps == OracleInv /\ OraclePart => OracleInv'
<1> SUFFICES ASSUME OracleInv, OraclePart PROVE OracleInv'
  OBVIOUS
<1>t. OracleTypeOK' /\ TriesLeft'
  BY OracleTypes DEF OracleInv
<1> USE DEF commandVars, daemonVars, evidence, stageVars, OracleInv
<1>0. step \in Commands => oracle # "passed" /\ step \notin {"judge", "keep", "ended"}
  BY DEF Judged, Commands, Probes, Copies
<1>1. CASE StartOracle
  <2>1. step' \in {"ended", "version"} /\ oracle' # "passed" /\ execution = "none"
    BY <1>1 DEF StartOracle, RunOnce, Judged
  <2> QED
    BY <1>1, <1>t, <2>1 DEF StartOracle, RunOnce, SeenGone, Judged, Acceptable
<1>2. CASE Spawn
  <2>1. exit' = "none" /\ execution' = execution /\ step' = step /\ container' = container
        /\ oracle' = oracle
    BY <1>2 DEF Spawn, RunOnce
  <2>2. execution = "success" => "create" \notin inflight'
    BY <1>2 DEF Spawn, Request, RunOnce, SeenGone
  <2> QED
    BY <1>0, <1>2, <1>t, <2>1, <2>2 DEF Spawn, RunOnce, SeenGone, Judged
<1>3. CASE SpawnFails
  <2>1. After("error") /\ step \in Commands /\ "error" \in Outcomes
        /\ child' = "none" /\ exit' = "none"
    BY <1>3 DEF SpawnFails, Outcomes, RunOnce
  <2>2. UNCHANGED <<mode, daemonVars, claim>>
    BY <1>3 DEF SpawnFails, After, AfterProbe, AfterRun, AfterCopy, AfterInspect
  <2> QED
    BY <1>t, <2>1, <2>2, AfterKeeps
<1>4. CASE Join
  <2>1. step \in Commands /\ child' = "none" /\ exit' = "none"
    BY <1>4 DEF Join, OracleTypeOK
  <2>2. PICK outcome \in Outcomes :
          /\ After(outcome)
          /\ outcome = "success" => exit = "success"
          /\ outcome = "failure" => exit = "failure"
    BY <1>4 DEF Join, Outcomes, OracleTypeOK
  <2>3. UNCHANGED <<mode, daemonVars, claim>>
    BY <1>4 DEF Join, After, AfterProbe, AfterRun, AfterCopy, AfterInspect
  <2> QED
    BY <1>t, <2>1, <2>2, <2>3, AfterKeeps
<1>5. CASE Judge
  <2>1. UNCHANGED <<child, exit, inflight, container, execution, file, claim>>
        /\ oracle # "passed"
    BY <1>5 DEF Judge, Judged
  <2>2. \/ Acceptable /\ step' = "keep" /\ oracle' = oracle
        \/ step' = "ended" /\ oracle' = "failed"
    BY <1>5 DEF Judge, Go, End
  <2>3. SeenGone'
    BY <1>5, <2>1, <2>2 DEF SeenGone, Judge
  <2>4. RunOnce'
    BY <2>1, <2>2 DEF RunOnce, Probes
  <2>5. Judged'
    BY <2>1, <2>2 DEF Judged, Acceptable
  <2> QED
    BY <1>t, <2>3, <2>4, <2>5
<1>6. CASE Keep
  <2>1. UNCHANGED <<child, exit, inflight, container, execution, file, claim>>
    BY <1>6 DEF Keep
  <2>2. step' = "ended" /\ step = "keep" /\ Acceptable
    BY <1>6 DEF Keep, End, Judged
  <2>3. SeenGone'
    BY <2>1, <2>2 DEF SeenGone
  <2>4. RunOnce'
    BY <2>1, <2>2 DEF RunOnce, Probes
  <2>5. Judged'
    BY <2>1, <2>2 DEF Judged, Acceptable
  <2> QED
    BY <1>t, <2>3, <2>4, <2>5
<1>7. CASE Escapes \/ HolderEnds
  BY <1>7, <1>t DEF Escapes, HolderEnds, RunOnce, SeenGone, Judged, Acceptable
<1>8. CASE Daemon
  <2>1. UNCHANGED <<mode, step, child, exit, execution, file, claim, oracle>>
        /\ inflight' \subseteq inflight
    BY <1>8 DEF Daemon, DaemonCreates, DaemonRemoves
  <2>2. "create" \notin inflight => container' = container \/ container' = FALSE
    BY <1>8 DEF Daemon, DaemonCreates, DaemonRemoves
  <2> QED
    BY <1>t, <2>1, <2>2 DEF RunOnce, SeenGone, Judged, Acceptable
<1>9. CASE ChildEnds
  <2>1. UNCHANGED <<step, container, execution, file, oracle>> /\ inflight' \subseteq inflight
        /\ step \in Commands /\ child' = "exited"
    BY <1>9 DEF ChildEnds, OracleTypeOK
  <2>2. step = "inspect" /\ exit' = "failure" => ~container
    BY <1>9 DEF ChildEnds
  <2>3. step = "run" /\ exit' = "success" => "create" \notin inflight
    BY <1>9 DEF ChildEnds, CanSucceed, Copies
  <2> QED
    BY <1>0, <1>t, <2>1, <2>2, <2>3 DEF RunOnce, SeenGone, Judged
<1>10. CASE Deadline
  <2>1. UNCHANGED <<step, inflight, container, execution, file, claim, oracle>>
        /\ step \in Commands /\ child' = "killed"
    BY <1>10 DEF Deadline, OracleTypeOK
  <2>2. \/ exit' = "none"
        \/ exit' = "failure" /\ step = "inspect" /\ ~container
    BY <1>10 DEF Deadline
  <2> QED
    BY <1>0, <1>t, <2>1, <2>2 DEF RunOnce, SeenGone, Judged
<1> QED
  BY <1>1, <1>2, <1>3, <1>4, <1>5, <1>6, <1>7, <1>8, <1>9, <1>10 DEF OraclePart,
     OracleStep

-----------------------------------------------------------------------------
(***************************************************************************)
(* What stands under the report's name                                     *)
(***************************************************************************)

Preparing  == {"new", "snapshot", "check", "render", "oracle", "report"}
Publishing == {"tidy", "audit", "sync", "look", "rename", "syncParent"}
Returned   == {"drop", "done", "crashed"}

\* The verdict is given once, from what the checks and the oracle found.
VerdictStands ==
  /\ pc \in Preparing => overall = "none" /\ listed \subseteq {"pages"}
  /\ overall # "none" => overall = Verdict
  /\ pc \in Publishing => "oracle" \in listed <=> oracle = "passed"

\* Nothing comes into the workspace after the audit, and the report is what was
\* in the workspace.
TreeStands ==
  /\ pc \in {"sync", "look", "rename"} => Audited
  /\ dest = "report" =>
       /\ pc \in {"syncParent"} \cup Returned
       /\ tree = listed \cup {"manifest"}
       /\ "oracle" \in listed <=> oracle = "passed"
       /\ ~root

\* What the caller is told.
TellsTruth ==
  /\ told # "none" => pc \in Returned
  /\ pc = "syncParent" \/ told = "ok" => ~root /\ (ext = 0 => dest = "report")
  /\ dest = "report" /\ told = "error" => faults > 0
  /\ pc = "done" /\ root => faults > 0

CertInv == TypeOK /\ OracleInv /\ VerdictStands /\ TreeStands /\ TellsTruth

\* A step that is tried ends in its successor, or returns an error.
LEMMA TryEnds ==
  ASSUME NEW can, NEW next, Try(can, next), faults \in Nat
  PROVE  /\ \/ can /\ pc' = next /\ told' = told
            \/ pc' = "drop" /\ told' = "error"
         /\ faults' = faults \/ faults' = faults + 1
BY DEF Try, Return, Fault

\* What leaves the oracle alone keeps what its verdict rests on.
LEMMA OracleRests ==
  ASSUME CertInv, UNCHANGED oracleVars, OracleTypeOK', TriesLeft'
  PROVE  /\ OracleInv'
         /\ UNCHANGED <<mode, oracle, copied, scratch>>
BY DEF CertInv, OracleInv, RunOnce, SeenGone, Judged, Acceptable, oracleVars,
       commandVars, daemonVars, evidence, stageVars

\* The oracle is told nothing twice: outside run_oracle its verdict stands.
LEMMA OutsideRests ==
  ASSUME Escapes \/ HolderEnds \/ ChildEnds \/ Deadline \/ Daemon
  PROVE  UNCHANGED <<mode, oracle, copied, scratch, faults>>
BY DEF Escapes, HolderEnds, ChildEnds, Deadline, Daemon, DaemonCreates, DaemonRemoves,
       evidence, stageVars

\* Every step keeps the invariant.
LEMMA CertStep == CertInv /\ [Next]_vars => CertInv'
<1> SUFFICES ASSUME CertInv, [Next]_vars PROVE CertInv'
  OBVIOUS
<1>t. TypeOK' /\ OracleTypeOK' /\ TriesLeft'
  BY TypeStep DEF CertInv, OracleInv, TypeOK
<1>n. faults \in Nat /\ faults' \in Nat
  BY <1>t, FaultsAssumption DEF CertInv, TypeOK, OracleTypeOK
<1>v. UNCHANGED <<checks, rendered, oracle, mode>> => Verdict' = Verdict
  BY DEF Verdict, LocalFailed
<1>s. UNCHANGED <<stage, copied, scratch>> => Stage' = Stage
  BY DEF Stage
<1> USE DEF CertInv, Preparing, Publishing, Returned
<1>1. CASE New
  <2>1. OracleInv' /\ UNCHANGED <<mode, oracle, copied, scratch>>
    BY <1>1, <1>t, OracleRests DEF New
  <2>2. \/ pc' = "snapshot" /\ told' = told
        \/ pc' = "drop" /\ told' = "error"
    BY <1>1, <1>n, TryEnds DEF New
  <2> QED
    BY <1>1, <1>t, <1>v, <2>1, <2>2 DEF New, VerdictStands, TreeStands, TellsTruth
<1>2. CASE Snapshot
  <2>1. OracleInv' /\ UNCHANGED <<mode, oracle, copied, scratch>>
    BY <1>2, <1>t, OracleRests DEF Snapshot
  <2>2. \/ pc' = "check" /\ told' = told
        \/ pc' = "drop" /\ told' = "error"
    BY <1>2, <1>n, TryEnds DEF Snapshot
  <2> QED
    BY <1>2, <1>t, <1>v, <2>1, <2>2 DEF Snapshot, VerdictStands, TreeStands, TellsTruth
<1>3. CASE Check
  <2>1. OracleInv' /\ UNCHANGED <<mode, oracle, copied, scratch>>
    BY <1>3, <1>t, OracleRests DEF Check
  <2> QED
    BY <1>3, <1>t, <2>1 DEF Check, VerdictStands, TreeStands, TellsTruth
<1>4. CASE Render
  <2>1. OracleInv' /\ UNCHANGED <<mode, oracle, copied, scratch>>
    BY <1>4, <1>t, OracleRests DEF Render
  <2>2. listed' \subseteq {"pages"}
    BY <1>4 DEF Render, VerdictStands
  <2> QED
    BY <1>4, <1>t, <2>1, <2>2 DEF Render, VerdictStands, TreeStands, TellsTruth
<1>5. CASE SkipOracle
  <2>1. OracleInv'
    BY <1>5, <1>t DEF SkipOracle, OracleInv, RunOnce, SeenGone, Judged, Acceptable,
       commandVars, daemonVars, evidence, stageVars
  <2> QED
    BY <1>5, <1>t, <2>1 DEF SkipOracle, VerdictStands, TreeStands, TellsTruth
<1>6. CASE RunOracle
  <2>1. OracleInv'
    <3>1. CASE OracleStep
      BY <3>1, OracleKeeps DEF OraclePart
    <3>2. CASE UNCHANGED <<oracleVars, faults>>
      BY <3>2, <1>t, OracleRests
    <3> QED
      BY <1>6, <3>1, <3>2 DEF RunOracle
  <2>2. pc' \in {"oracle", "report"} /\ pc = "oracle"
    BY <1>6 DEF RunOracle
  <2> QED
    BY <1>6, <1>t, <2>1, <2>2 DEF RunOracle, VerdictStands, TreeStands, TellsTruth
<1>7. CASE Report
  <2>1. OracleInv' /\ UNCHANGED <<mode, oracle, copied, scratch>>
    BY <1>7, <1>t, OracleRests DEF Report
  <2>2. \/ pc' = "tidy" /\ told' = told
        \/ pc' = "drop" /\ told' = "error"
    BY <1>7, <1>n, TryEnds DEF Report
  <2>3. Verdict' = Verdict /\ overall' = Verdict
    BY <1>7, <1>v, <2>1 DEF Report
  <2>4. "oracle" \in listed' <=> oracle' = "passed"
    BY <1>7, <2>1 DEF Report, VerdictStands
  <2> QED
    BY <1>7, <1>t, <2>1, <2>2, <2>3, <2>4 DEF Report, VerdictStands, TreeStands,
       TellsTruth
<1>8. CASE Tidy
  <2>1. OracleInv' /\ UNCHANGED <<mode, oracle, copied, scratch>>
    BY <1>8, <1>t, OracleRests DEF Tidy
  <2>2. \/ pc' = "audit" /\ told' = told
        \/ pc' = "drop" /\ told' = "error"
    BY <1>8, <1>n, TryEnds DEF Tidy
  <2> QED
    BY <1>8, <1>t, <1>v, <2>1, <2>2 DEF Tidy, VerdictStands, TreeStands, TellsTruth
<1>9. CASE Audit
  <2>1. OracleInv' /\ UNCHANGED <<mode, oracle, copied, scratch>>
    BY <1>9, <1>t, OracleRests DEF Audit
  <2>2. \/ pc' = "sync" /\ told' = told /\ Audited
        \/ pc' = "drop" /\ told' = "error"
    BY <1>9, <1>n, TryEnds DEF Audit
  <2>3. Audited => Audited'
    BY <1>9, <1>s, <2>1 DEF Audit, Audited
  <2> QED
    BY <1>9, <1>t, <1>v, <2>1, <2>2, <2>3 DEF Audit, VerdictStands, TreeStands,
       TellsTruth
<1>10. CASE SyncTree
  <2>1. OracleInv' /\ UNCHANGED <<mode, oracle, copied, scratch>>
    BY <1>10, <1>t, OracleRests DEF SyncTree
  <2>2. \/ pc' = "look" /\ told' = told
        \/ pc' = "drop" /\ told' = "error"
    BY <1>10, <1>n, TryEnds DEF SyncTree
  <2>3. Audited => Audited'
    BY <1>10, <1>s, <2>1 DEF SyncTree, Audited
  <2> QED
    BY <1>10, <1>t, <1>v, <2>1, <2>2, <2>3 DEF SyncTree, VerdictStands, TreeStands,
       TellsTruth
<1>11. CASE Look
  <2>1. OracleInv' /\ UNCHANGED <<mode, oracle, copied, scratch>>
    BY <1>11, <1>t, OracleRests DEF Look
  <2>2. \/ pc' = "rename" /\ told' = told
        \/ pc' = "drop" /\ told' = "error"
    BY <1>11, <1>n, TryEnds DEF Look
  <2>3. Audited => Audited'
    BY <1>11, <1>s, <2>1 DEF Look, Audited
  <2> QED
    BY <1>11, <1>t, <1>v, <2>1, <2>2, <2>3 DEF Look, VerdictStands, TreeStands,
       TellsTruth
<1>12. CASE Rename
  <2>1. OracleInv' /\ UNCHANGED <<mode, oracle, copied, scratch>>
    BY <1>12, <1>t, OracleRests DEF Rename
  <2>2. \/ pc' = "syncParent" /\ told' = told
        \/ pc' = "drop" /\ told' = "error"
    BY <1>12, <1>n, TryEnds DEF Rename
  <2>3. Stage = listed \cup {"manifest"} /\ dest # "report"
    BY <1>12 DEF Rename, TreeStands, Audited
  <2>4. TreeStands'
    BY <1>12, <2>1, <2>2, <2>3 DEF Rename, TreeStands, VerdictStands
  <2>5. TellsTruth'
    BY <1>12, <2>2, <2>3 DEF Rename, TellsTruth
  <2> QED
    BY <1>12, <1>t, <1>v, <2>1, <2>2, <2>4, <2>5 DEF Rename, VerdictStands
<1>13. CASE SyncParent
  <2>1. OracleInv' /\ UNCHANGED <<mode, oracle, copied, scratch>>
    BY <1>13, <1>t, OracleRests DEF SyncParent
  <2>2. TellsTruth'
    BY <1>13, <1>n DEF SyncParent, Return, Fault, TellsTruth
  <2> QED
    BY <1>13, <1>t, <1>v, <2>1, <2>2 DEF SyncParent, Return, VerdictStands, TreeStands
<1>14. CASE Drop
  <2>1. OracleInv' /\ UNCHANGED <<mode, oracle, copied, scratch>>
    BY <1>14, <1>t, OracleRests DEF Drop
  <2>2. TellsTruth'
    BY <1>14, <1>n DEF Drop, Fault, TellsTruth
  <2>3. TreeStands'
    BY <1>14, <2>1 DEF Drop, TreeStands
  <2> QED
    BY <1>14, <1>t, <1>v, <2>1, <2>2, <2>3 DEF Drop, VerdictStands
<1>15. CASE Outside
  <2>1. OracleInv' /\ UNCHANGED <<mode, oracle, copied, scratch, faults>>
    BY <1>15, OracleKeeps, OutsideRests DEF Outside, OraclePart
  <2>2. UNCHANGED certVars
    BY <1>15 DEF Outside
  <2>3. Audited => Audited'
    BY <1>s, <2>1, <2>2 DEF Audited, certVars
  <2> QED
    BY <1>t, <1>v, <2>1, <2>2, <2>3 DEF certVars, VerdictStands, TreeStands, TellsTruth
<1>16. CASE OtherProgram
  <2>1. OracleInv' /\ UNCHANGED <<mode, oracle, copied, scratch>>
    BY <1>16, <1>t, OracleRests DEF OtherProgram
  <2>2. ext' # 0 /\ dest' # "report"
    BY <1>16, <1>t DEF OtherProgram, TypeOK
  <2>3. Audited => Audited'
    BY <1>16, <1>s, <2>1 DEF OtherProgram, Audited
  <2> QED
    BY <1>16, <1>t, <1>v, <2>1, <2>2, <2>3 DEF OtherProgram, VerdictStands, TreeStands,
       TellsTruth
<1>17. CASE Crash
  <2>1. OracleInv' /\ UNCHANGED <<mode, oracle, copied, scratch>>
    BY <1>17, <1>t, OracleRests DEF Crash
  <2> QED
    BY <1>17, <1>t, <1>v, <2>1 DEF Crash, VerdictStands, TreeStands, TellsTruth
<1>18. CASE UNCHANGED vars
  <2>1. OracleInv' /\ UNCHANGED <<mode, oracle, copied, scratch>>
    BY <1>18, <1>t, OracleRests DEF vars
  <2>2. UNCHANGED certVars /\ faults' = faults
    BY <1>18 DEF vars
  <2>3. Audited => Audited'
    BY <1>s, <2>1, <2>2 DEF Audited, certVars
  <2> QED
    BY <1>t, <1>v, <2>1, <2>2, <2>3 DEF certVars, VerdictStands, TreeStands, TellsTruth
<1> QED
  BY <1>1, <1>2, <1>3, <1>4, <1>5, <1>6, <1>7, <1>8, <1>9, <1>10, <1>11, <1>12,
     <1>13, <1>14, <1>15, <1>16, <1>17, <1>18 DEF Next, Execute, Done

\* It holds before anything was staged.
LEMMA CertInit == Init => CertInv
<1> SUFFICES ASSUME Init PROVE CertInv
  OBVIOUS
<1>1. TypeOK /\ OracleTypeOK /\ TriesLeft
  BY TypeInit DEF TypeOK
<1>2. RunOnce /\ SeenGone /\ Judged
  BY DEF Init, OracleInit, RunOnce, SeenGone, Judged, Probes
<1> QED
  BY <1>1, <1>2 DEF Init, CertInv, OracleInv, VerdictStands, TreeStands, TellsTruth,
     Preparing, Publishing, Returned

\* A report that says "passed" rests on evidence, whatever the daemon, the
\* commands and another program do and whatever fails: every local check passed,
\* and a PDF in it, or a policy that requires one, means a run that ended well,
\* a whole result and a container that is gone for good.
THEOREM PassEarned == Spec => []PassIsEarned
<1>1. CertInv => PassIsEarned
  BY DEF CertInv, OracleInv, VerdictStands, TreeStands, SeenGone, Judged, Acceptable,
     Verdict, LocalFailed, PassIsEarned, OracleTypeOK
<1> QED
  BY <1>1, CertInit, CertStep, PTL DEF Spec

\* What stands under the report's name is what its manifest lists, and the
\* caller's answer agrees with it, for any faults and outside steps.
THEOREM ReportWhole == Spec => []ReportIsWhole
<1>1. CertInv => ReportIsWhole
  BY DEF CertInv, TreeStands, TellsTruth, ReportIsWhole, TypeOK
<1> QED
  BY <1>1, CertInit, CertStep, PTL DEF Spec

\* Only the rename, onto a name that is free, and another program change what
\* has the report's name.
THEOREM NothingReplaced == Spec => NothingIsReplaced
<1>1. ASSUME TypeOK, [Next]_vars, ext' = ext, dest' # dest
      PROVE  dest = "missing" /\ pc = "rename"
  <2>1. CASE Rename
    BY <1>1, <2>1 DEF Rename, Try, Return
  <2>2. CASE OtherProgram
    BY <1>1, <2>2 DEF OtherProgram, TypeOK
  <2> QED
    BY <1>1, <2>1, <2>2 DEF Next, Execute, Outside, Done, New, Snapshot, Check, Render,
       SkipOracle, RunOracle, Report, Tidy, Audit, SyncTree, Look, SyncParent, Drop,
       Crash, certVars, vars
<1> QED
  BY <1>1, TypeInit, TypeStep, PTL DEF Spec, NothingIsReplaced

-----------------------------------------------------------------------------
(***************************************************************************)
(* hwp update: what is left on disk                                        *)
(***************************************************************************)

\* Before u renames anything; while its new binary is staged and whole; and
\* after it has decided for good what becomes of its backup.
Chosen     == {"decide", "fetch", "verify"}
Staged     == {"mode", "clear", "aside", "in"}
BackupKept == {"in", "undo", "unstage", "done", "dead"}

Typed ==
  /\ pinned \in [Updaters -> Releases \cup {"none"}]
  /\ want \in [Updaters -> Releases \cup {"none"}]
  /\ DOMAIN download = Updaters /\ DOMAIN staged = Updaters /\ DOMAIN backup = Updaters
  /\ DOMAIN at = Updaters

\* A release is chosen before it is fetched, what passed the checksum is that
\* release, and so is what is staged.
Checked ==
  \A u \in Updaters :
    /\ at[u] \in Chosen => want[u] \in Releases
    /\ at[u] = "copy" => Whole(download[u])
    /\ at[u] \in Staged => Whole(staged[u])

\* The backup that may have to be put back is a whole binary.
UndoIsWhole == \A u \in Updaters : at[u] \in {"in", "undo"} => Whole(backup[u])

\* A whole binary is in place, or in a backup that is not removed any more.
Held == Whole(installed) \/ \E u \in Updaters : at[u] \in BackupKept /\ Whole(backup[u])

UpdateInv == Typed /\ Checked /\ UndoIsWhole /\ InstalledIsWhole /\ Held

\* The running binary is in place at first.
LEMMA UpdateInvInit == UpdateInit => UpdateInv
BY DEF UpdateInit, UpdateInv, Typed, Checked, UndoIsWhole, InstalledIsWhole, Held, Whole, Chosen, Staged

\* A step that leaves the files alone and takes u to a place where nothing
\* more is asked of it.
LEMMA Moves ==
  ASSUME UpdateInv, NEW u \in Updaters, NEW here,
         at' = [at EXCEPT ![u] = here],
         UNCHANGED <<args, files, want>>,
         here \in Chosen => want[u] \in Releases,
         here = "copy" => Whole(download[u]),
         here \in Staged => Whole(staged[u]),
         here \in {"in", "undo"} => Whole(backup[u]),
         at[u] \in BackupKept => here \in BackupKept
  PROVE  UpdateInv'
BY DEF UpdateInv, Typed, Checked, UndoIsWhole, InstalledIsWhole, Held, Whole, args, files

\* Every call of every process keeps a whole binary and installs no other.
LEMMA UpdateInvStep == UpdateInv /\ [UpdateNext]_updateVars => UpdateInv'
<1> SUFFICES ASSUME UpdateInv, [UpdateNext]_updateVars PROVE UpdateInv'
  OBVIOUS
<1> USE DEF Goto, Finish, At, Chosen, Staged, BackupKept
<1>1. ASSUME NEW u \in Updaters, PickTag(u) PROVE UpdateInv'
  BY <1>1, ReleasesAssumption
  DEF PickTag, args, files, UpdateInv, Typed, Checked, UndoIsWhole, InstalledIsWhole, Held, Whole
<1>2. ASSUME NEW u \in Updaters, Decide(u) PROVE UpdateInv'
  BY <1>2, Moves DEF Decide, UpdateInv, Checked
<1>3. ASSUME NEW u \in Updaters, Fetch(u) PROVE UpdateInv'
  BY <1>3 DEF Fetch, args, UpdateInv, Typed, Checked, UndoIsWhole, InstalledIsWhole, Held, Whole
<1>4. ASSUME NEW u \in Updaters, Verify(u) PROVE UpdateInv'
  BY <1>4, Moves DEF Verify, UpdateInv, Checked, Whole
<1>5. ASSUME NEW u \in Updaters, Copy(u) PROVE UpdateInv'
  BY <1>5 DEF Copy, args, UpdateInv, Typed, Checked, UndoIsWhole, InstalledIsWhole, Held, Whole
<1>6. ASSUME NEW u \in Updaters, CopyMode(u) PROVE UpdateInv'
  BY <1>6, Moves DEF CopyMode, UpdateInv, Checked
<1>7. ASSUME NEW u \in Updaters, ClearBackup(u) PROVE UpdateInv'
  BY <1>7 DEF ClearBackup, args, UpdateInv, Typed, Checked, UndoIsWhole, InstalledIsWhole, Held
<1>8. ASSUME NEW u \in Updaters, MoveAside(u) PROVE UpdateInv'
  <2>1. CASE installed = "none"
    BY <1>8, <2>1, Moves DEF MoveAside, files
  <2>2. CASE installed # "none"
    <3>1. Whole(installed)
      BY <2>2 DEF UpdateInv, InstalledIsWhole
    <3>2. at'[u] = "in" /\ backup'[u] = installed
      BY <1>8, <2>2 DEF MoveAside, UpdateInv, Typed
    <3>3. Held'
      BY <3>1, <3>2 DEF Held, Whole
    <3>4. Typed' /\ Checked' /\ InstalledIsWhole'
      BY <1>8, <2>2 DEF MoveAside, args, UpdateInv, Typed, Checked, InstalledIsWhole, Whole
    <3>5. UndoIsWhole'
      BY <1>8, <2>2, <3>1 DEF MoveAside, UpdateInv, Typed, UndoIsWhole, Whole
    <3> QED
      BY <3>3, <3>4, <3>5 DEF UpdateInv
  <2> QED
    BY <2>1, <2>2
<1>9. ASSUME NEW u \in Updaters, MoveIn(u) PROVE UpdateInv'
  <2>1. CASE installed' = staged[u] /\ staged' = [staged EXCEPT ![u] = "none"] /\ Goto(u, "forget")
    BY <1>9, <2>1
    DEF MoveIn, args, UpdateInv, Typed, Checked, UndoIsWhole, InstalledIsWhole, Held, Whole
  <2>2. CASE UNCHANGED <<installed, staged>> /\ Goto(u, "undo")
    BY <1>9, <2>2, Moves DEF MoveIn, files, UpdateInv, UndoIsWhole
  <2> QED
    BY <1>9, <2>1, <2>2 DEF MoveIn
<1>10. ASSUME NEW u \in Updaters, Undo(u) PROVE UpdateInv'
  <2>1. CASE installed' = backup[u] /\ backup' = [backup EXCEPT ![u] = "none"]
    BY <1>10, <2>1
    DEF Undo, args, UpdateInv, Typed, Checked, UndoIsWhole, InstalledIsWhole, Held, Whole
  <2>2. CASE UNCHANGED <<installed, backup>>
    BY <1>10, <2>2, Moves DEF Undo, files
  <2> QED
    BY <1>10, <2>1, <2>2 DEF Undo
<1>11. ASSUME NEW u \in Updaters, Unstage(u) PROVE UpdateInv'
  BY <1>11 DEF Unstage, args, UpdateInv, Typed, Checked, UndoIsWhole, InstalledIsWhole, Held, Whole
<1>12. ASSUME NEW u \in Updaters, Forget(u) PROVE UpdateInv'
  BY <1>12 DEF Forget, args, UpdateInv, Typed, Checked, UndoIsWhole, InstalledIsWhole, Held, Whole
<1>13. ASSUME NEW u \in Updaters, VerifyInstalled(u) \/ CallFails(u) \/ Die(u) PROVE UpdateInv'
  BY <1>13, Moves DEF VerifyInstalled, CallFails, FailsAt, Die
<1>14. CASE UNCHANGED updateVars
  BY <1>14
  DEF updateVars, args, files, UpdateInv, Typed, Checked, UndoIsWhole, InstalledIsWhole, Held, Whole
<1> QED
  BY <1>1, <1>2, <1>3, <1>4, <1>5, <1>6, <1>7, <1>8, <1>9, <1>10, <1>11, <1>12, <1>13, <1>14
  DEF UpdateNext, Update, AllStopped

\* However many updates interleave their renames, nothing damaged is ever put
\* in place (verify_sha256, and the copy beside the installed file).
THEOREM NothingDamaged == UpdateSpec => []InstalledIsWhole
<1>1. UpdateInv => InstalledIsWhole
  BY DEF UpdateInv
<1> QED
  BY <1>1, UpdateInvInit, UpdateInvStep, PTL DEF UpdateSpec

\* A whole binary is always on disk, in place or as a backup, whatever fails
\* and whoever dies (replace_binary removes a backup only behind a rename).
THEOREM BinaryKept == UpdateSpec => []BinarySurvives
<1>1. UpdateInv => BinarySurvives
  BY DEF UpdateInv, Held, BinarySurvives
<1> QED
  BY <1>1, UpdateInvInit, UpdateInvStep, PTL DEF UpdateSpec

-----------------------------------------------------------------------------
(***************************************************************************)
(* What the processes report                                               *)
(***************************************************************************)

\* Nothing is in place only while somebody is between the two renames, or one
\* who was there died, or both the rename and its undo failed.
Owed ==
  /\ failures \in Nat
  /\ \A u \in Updaters : at[u] = "undo" => failures >= 1
  /\ \/ Whole(installed)
     \/ \E u \in Updaters : at[u] \in {"in", "undo", "dead"}
     \/ failures >= 2

\* The steps count faults and do not take one back.
LEMMA FailuresGrow ==
  ASSUME [UpdateNext]_updateVars, failures \in Nat PROVE failures' \in Nat /\ failures' >= failures
BY DEF UpdateNext, Update, PickTag, Decide, Fetch, Verify, Copy, CopyMode, ClearBackup, MoveAside,
   MoveIn, Undo, Unstage, Forget, VerifyInstalled, CallFails, FailsAt, Die, AllStopped,
   Failure, updateVars

\* A step that leaves the installed file alone does not take anybody away from
\* between the renames, unless by its death.
LEMMA OwedMoves ==
  ASSUME UpdateInv, Owed, [UpdateNext]_updateVars, NEW u \in Updaters, NEW here,
         at' = [at EXCEPT ![u] = here],
         installed' = installed,
         at[u] \notin {"in", "undo"} \/ here \in {"dead", "undo"} \/ failures' >= 2,
         here = "undo" => failures' >= 1,
         at[u] # "dead"
  PROVE  Owed'
<1>1. failures' \in Nat /\ failures' >= failures /\ (failures >= 1 => failures' >= 1) /\ (failures >= 2 => failures' >= 2)
  BY FailuresGrow DEF Owed
<1>2. DOMAIN at = Updaters
  BY DEF UpdateInv, Typed
<1> QED
  BY <1>1, <1>2 DEF Owed, Whole

LEMMA OwedStep == UpdateInv /\ Owed /\ [UpdateNext]_updateVars => Owed'
<1> SUFFICES ASSUME UpdateInv, Owed, [UpdateNext]_updateVars PROVE Owed'
  OBVIOUS
<1> USE DEF Goto, Finish, At, FailsAt
<1>0. failures' \in Nat /\ failures' >= failures /\ DOMAIN at = Updaters
  BY FailuresGrow DEF Owed, UpdateInv, Typed
<1>1. ASSUME NEW u \in Updaters, at[u] \notin {"in", "undo", "aside"},
             Update(u) \/ CallFails(u)
      PROVE  Owed'
  <2>1. installed' = installed /\ \E here : at' = [at EXCEPT ![u] = here] /\ here # "undo"
    BY <1>1 DEF Update, PickTag, Decide, Fetch, Verify, Copy, CopyMode, ClearBackup, MoveAside,
       MoveIn, Undo, Unstage, Forget, VerifyInstalled, CallFails, files
  <2>2. at[u] # "dead"
    BY <1>1 DEF Update, PickTag, Decide, Fetch, Verify, Copy, CopyMode, ClearBackup, MoveAside,
       MoveIn, Undo, Unstage, Forget, VerifyInstalled, CallFails
  <2> QED
    BY <1>1, <2>1, <2>2, OwedMoves
<1>2. ASSUME NEW u \in Updaters, CallFails(u), at[u] = "aside" PROVE Owed'
  BY <1>2, OwedMoves DEF CallFails, files
<1>3. ASSUME NEW u \in Updaters, Die(u) PROVE Owed'
  BY <1>3, OwedMoves DEF Die, files
<1>4. ASSUME NEW u \in Updaters, MoveAside(u) PROVE Owed'
  <2>1. CASE installed = "none"
    BY <1>4, <2>1, OwedMoves DEF MoveAside
  <2>2. CASE installed # "none"
    <3>1. at'[u] = "in" /\ \A v \in Updaters : at'[v] = "undo" => at[v] = "undo"
      BY <1>0, <1>4, <2>2 DEF MoveAside
    <3> QED
      BY <1>0, <1>4, <3>1 DEF MoveAside, Owed
  <2> QED
    BY <2>1, <2>2
<1>5. ASSUME NEW u \in Updaters, MoveIn(u) PROVE Owed'
  <2>1. CASE installed' = staged[u] /\ Goto(u, "forget") /\ failures' = failures
    <3>1. Whole(staged[u])
      BY <1>5 DEF MoveIn, UpdateInv, Checked, Staged
    <3> QED
      BY <1>0, <2>1, <3>1 DEF Owed, Whole
  <2>2. CASE installed' = installed /\ Goto(u, "undo") /\ Failure
    BY <1>5, <2>2, OwedMoves DEF MoveIn, Failure, Owed
  <2> QED
    BY <1>5, <2>1, <2>2 DEF MoveIn
<1>6. ASSUME NEW u \in Updaters, Undo(u) PROVE Owed'
  <2>1. CASE installed' = backup[u] /\ failures' = failures
    <3>1. Whole(backup[u])
      BY <1>6 DEF Undo, UpdateInv, UndoIsWhole
    <3> QED
      BY <1>0, <1>6, <2>1, <3>1 DEF Undo, Owed, Whole
  <2>2. CASE installed' = installed /\ Failure
    <3>1. failures' >= 2
      BY <1>6, <2>2 DEF Undo, Owed, Failure
    <3> QED
      BY <1>6, <2>2, <3>1, OwedMoves DEF Undo
  <2> QED
    BY <1>6, <2>1, <2>2 DEF Undo
<1>7. CASE UNCHANGED updateVars
  BY <1>7 DEF updateVars, files, Owed, Whole
<1>8. ASSUME NEW u \in Updaters, Update(u), at[u] \in {"in", "undo", "aside"} PROVE Owed'
  BY <1>4, <1>5, <1>6, <1>8 DEF Update, PickTag, Decide, Fetch, Verify, Copy, CopyMode,
     ClearBackup, Unstage, Forget, VerifyInstalled
<1>9. ASSUME NEW u \in Updaters, CallFails(u), at[u] \in {"in", "undo"} PROVE Owed'
  BY <1>9 DEF CallFails
<1> QED
  BY <1>1, <1>2, <1>3, <1>7, <1>8, <1>9 DEF UpdateNext, AllStopped

\* When all processes have ended by themselves and at most one call failed, a
\* whole binary is in place, however many updates interleave: a rename that
\* fails is undone (replace_binary).
THEOREM OneFaultUndone == UpdateSpec => []OneFaultIsUndone
<1>1. UpdateInit => Owed
  BY DEF UpdateInit, Owed, Whole
<1>2. Owed => OneFaultIsUndone
  BY DEF Owed, OneFaultIsUndone
<1> QED
  BY <1>1, <1>2, UpdateInvInit, UpdateInvStep, OwedStep, PTL DEF UpdateSpec

-----------------------------------------------------------------------------
\* The others' places before their renames; nobody comes back to them.
Early == {"tag", "decide", "fetch", "verify", "copy", "mode", "clear", "aside"}

\* Every process has a place, a report and a release.
Mapped ==
  /\ DOMAIN at = Updaters /\ DOMAIN ending = Updaters /\ DOMAIN want = Updaters
  /\ DOMAIN download = Updaters /\ DOMAIN staged = Updaters

\* Who reports success has ended.
Ends == \A u \in Updaters : ending[u] = "updated" => at[u] = "done"

\* What is staged is the release asked for, and once renamed it is in place as
\* long as the others are before their renames.
AsAsked ==
  \A u \in Updaters :
    /\ at[u] = "copy" => download[u] = want[u]
    /\ at[u] \in Staged => staged[u] = want[u]
    /\ /\ at[u] \in {"forget", "run"}
       /\ \A w \in Updaters \ {u} : at[w] \in Early
       => installed = want[u]

Told == Mapped /\ Ends /\ AsAsked /\ UpdatedMeansInstalled

LEMMA ToldStep == Told /\ [UpdateNext]_updateVars => Told'
<1> SUFFICES ASSUME Told, [UpdateNext]_updateVars PROVE Told'
  OBVIOUS
<1> USE DEF Goto, Finish, At, FailsAt, Mapped
<1>1. CASE UNCHANGED updateVars
  BY <1>1 DEF updateVars, files, Told, Ends, AsAsked, UpdatedMeansInstalled, RunsAs, Whole
<1>2. ASSUME NEW u \in Updaters, Update(u) \/ CallFails(u) \/ Die(u) PROVE Told'
  <2> USE DEF Update, PickTag, Decide, Fetch, Verify, Copy, CopyMode, ClearBackup, MoveAside,
       MoveIn, Undo, Unstage, Forget, VerifyInstalled, CallFails, Die, files
  <2>1. Mapped' /\ at[u] # "done" /\ Ends'
    BY <1>2 DEF Told, Ends
  <2>2. ASSUME NEW v \in Updaters, v # u
        PROVE  /\ ending'[v] = ending[v] /\ want'[v] = want[v] /\ at'[v] = at[v]
               /\ download'[v] = download[v] /\ staged'[v] = staged[v]
    BY <1>2, <2>2 DEF Told
  <2>3. at'[u] \in Early => installed' = installed /\ at[u] \in Early
    BY <1>2 DEF Told, Early
  <2>4. ending'[u] = "updated" =>
          /\ installed' = installed /\ want'[u] = want[u] /\ RunsAs(installed, want[u])
          /\ at[u] = "run"
    BY <1>2, <2>1 DEF Told, Ends
  <2>5. ASSUME NEW v \in Updaters, v # u, \A w \in Updaters \ {v} : at'[w] \in Early
        PROVE  installed' = installed /\ \A w \in Updaters \ {v} : at[w] \in Early
    BY <2>2, <2>3, <2>5
  <2>6. /\ at'[u] = "copy" => download'[u] = want'[u]
        /\ at'[u] \in Staged => staged'[u] = want'[u]
        /\ at'[u] = "forget" => installed' = want'[u]
        /\ at'[u] = "run" => at[u] = "forget" /\ installed' = installed /\ want'[u] = want[u]
    BY <1>2 DEF Told, AsAsked, Staged
  <2>7. ASSUME NEW v \in Updaters, \A w \in Updaters \ {v} : at'[w] \in Early,
               at'[v] \in {"forget", "run"}
        PROVE  installed' = want'[v]
    <3>1. CASE v = u
      <4>1. at'[u] = "run" => \A w \in Updaters \ {u} : at[w] \in Early
        BY <2>2, <2>7, <3>1
      <4> QED
        BY <2>6, <2>7, <3>1, <4>1 DEF Told, AsAsked
    <3>2. CASE v # u
      BY <2>2, <2>5, <2>7, <3>2 DEF Told, AsAsked
    <3> QED
      BY <3>1, <3>2
  <2>8. AsAsked'
    BY <2>2, <2>6, <2>7 DEF Told, AsAsked
  <2>9. ASSUME NEW v \in Updaters, ending'[v] = "updated",
               \A w \in Updaters \ {v} : at'[w] \in Early
        PROVE  installed' = want'[v] /\ RunsAs(installed, want'[v]) /\ installed' = installed
    <3>1. CASE v = u
      <4>1. \A w \in Updaters \ {u} : at[w] \in Early
        BY <2>2, <2>9, <3>1
      <4>2. installed = want[u]
        BY <2>4, <2>9, <3>1, <4>1 DEF Told, AsAsked
      <4> QED
        BY <2>4, <2>9, <3>1, <4>2
    <3>2. CASE v # u
      BY <2>2, <2>5, <2>9, <3>2 DEF Told, UpdatedMeansInstalled, Early
    <3> QED
      BY <3>1, <3>2
  <2>10. UpdatedMeansInstalled'
    BY <2>9 DEF UpdatedMeansInstalled, Early, RunsAs, Whole
  <2> QED
    BY <2>1, <2>8, <2>10 DEF Told
<1> QED
  BY <1>1, <1>2 DEF UpdateNext, AllStopped

\* A success is the release that was asked for, in place and running as its
\* version, unless another update has come to its own renames (run,
\* verify_installed).
THEOREM SuccessIsInstalled == UpdateSpec => []UpdatedMeansInstalled
<1>1. UpdateInit => Told
  BY DEF UpdateInit, Told, Mapped, Ends, AsAsked, Staged, UpdatedMeansInstalled
<1>2. Told => UpdatedMeansInstalled
  BY DEF Told
<1> QED
  BY <1>1, <1>2, ToldStep, PTL DEF UpdateSpec
==============================================================================
