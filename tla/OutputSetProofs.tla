-------------------------- MODULE OutputSetProofs --------------------------
(***************************************************************************)
(* Proofs about OutputSet, for every number of outputs, every set of       *)
(* destinations and any number of faults and of steps of another program.  *)
(***************************************************************************)
EXTENDS OutputSet, TLAPS

\* The phases in which files are moved, and in which a failure is undone.
Moving     == {"backup", "publish", "remove", "restore"}
Recovering == {"remove", "restore"}

\* Past the duplicate check no two outputs share a destination.
Distinct ==
  pc \in {"stage", "write", "recheck", "inherit", "cleanup"} \cup Moving =>
    \A i, j \in Items : target[i] = target[j] => i = j

\* An undisturbed destination still holds what the snapshot recorded, from
\* its recheck until it is backed up.
SnapshotFresh ==
  \A i \in Items :
    /\ \/ pc = "recheck" /\ i < k
       \/ pc = "inherit"
       \/ pc = "backup" /\ k <= i
    /\ Mine(i)
    => dest[target[i]] = snapshot[i]

\* While files are moved, every workspace exists and the backup of an output
\* that was moved aside and not put back holds its old file.
BackupHeld ==
  /\ pc \in {"write", "recheck", "inherit"} \cup Moving =>
       workspace = Items
  /\ pc \in Moving =>
       \A i \in backedUp \ restored :
         /\ backup[i] # Missing
         /\ Mine(i) => backup[i] = snapshot[i]

\* An output that was put back stays put back.
RestoredStays ==
  \A i \in restored : Mine(i) => dest[target[i]] = snapshot[i]

\* How far the loops up the list have come.
LoopsUp ==
  /\ pc = "check" => k = 1
  /\ pc \in {"check", "stage", "write", "recheck", "inherit"} =>
       backedUp = {} /\ published = {}
  /\ pc = "stage" => \A i \in Items : i < k => i \in workspace
  /\ pc = "backup" => published = {} /\ \A i \in backedUp : i < k
  /\ pc = "publish" => published = {i \in Items : i < k}
  /\ pc = "cleanup" => published = Items

\* How far the recovery loop, down the list, has come.
LoopDown ==
  /\ pc \in Recovering =>
       /\ published # Items
       /\ \A i \in backedUp : k < i => i \in restored \cup preserve
  /\ \A i \in restored :
       \/ pc \in Recovering /\ k < i
       \/ pc \in {"drop", "done", "crashed"}

Progress == LoopsUp /\ LoopDown

\* What Drop would destroy is not the last copy of an old file.
DropIsSafe ==
  pc = "drop" =>
    \A i \in backedUp :
      \/ i \in restored \cup preserve
      \/ published = Items

IInv ==
  /\ TypeOK
  /\ Distinct
  /\ SnapshotFresh
  /\ BackupHeld
  /\ RestoredStays
  /\ Progress
  /\ DropIsSafe
  /\ NothingTakenIsLost

-----------------------------------------------------------------------------
(***************************************************************************)
(* Lemmas                                                                  *)
(***************************************************************************)

\* The constant versions, and those of an output, are versions.
LEMMA VersionTypes ==
  /\ Missing \in Version /\ Unsafe \in Version
  /\ \A d \in Nat : Old(d) \in Version /\ New(d) \in Version /\ Ext(d) \in Version
BY DEF Version, Kinds, Missing, Unsafe, Old, New, Ext

\* The loops stay inside the outputs.
LEMMA ItemFacts ==
  /\ 1 \in Items /\ N \in Items /\ Items \subseteq Nat
  /\ \A i \in Items : 1 <= i /\ i <= N
  /\ \A i \in Items : i # N => i + 1 \in Items
  /\ \A i \in Items : i # 1 => i - 1 \in Items
BY NAssumption DEF Items

\* A loop that goes on stays in its phase or enters the next.
LEMMA AdvanceType ==
  ASSUME TypeOK, NEW after \in PCs, Advance(after) PROVE pc' \in PCs /\ k' \in Items
BY ItemFacts DEF TypeOK, Advance

\* Every step keeps every variable in its type.
LEMMA TypeStep == TypeOK /\ [Next]_vars => TypeOK'
<1> SUFFICES ASSUME TypeOK, [Next]_vars PROVE TypeOK'
  OBVIOUS
<1> USE VersionTypes, ItemFacts
<1> USE DEF fsVars, procVars, obsVars
<1>0. Here \in Paths /\ dest[Here] \in Version /\ k \in Items
  BY DEF TypeOK, Here
<1>1. CASE CheckPaths
  BY <1>1 DEF TypeOK, CheckPaths, Return, PCs, Results
<1>2. CASE Stage
  <2>1. snapshot' \in [Items -> Version] /\ workspace' \subseteq Items
    BY <1>0, <1>2 DEF TypeOK, Stage
  <2>2. pc' \in PCs /\ k' \in Items /\ result' \in Results
    BY <1>2, AdvanceType DEF TypeOK, Stage, Return, PCs, Results
  <2>3. faults' \in 0..MaxFaults
    BY <1>2, BoundsAssumption DEF TypeOK, Stage, Fails, Fault
  <2> QED
    BY <1>2, <2>1, <2>2, <2>3 DEF TypeOK, Stage
<1>3. CASE WriteStaged
  BY <1>3, BoundsAssumption
     DEF TypeOK, WriteStaged, Return, Advance, Fault, PCs, Results
<1>4. CASE RecheckDestination
  BY <1>4, BoundsAssumption DEF TypeOK, RecheckDestination, Return, Advance,
     PCs, Results, Fails, Fault
<1>5. CASE InheritPermissions
  BY <1>5, BoundsAssumption
     DEF TypeOK, InheritPermissions, Return, Advance, Fault, PCs, Results
<1>6. CASE BackUp
  <2>0. dest' \in [Paths -> Version]
    BY <1>0, <1>6 DEF TypeOK, BackUp
  <2>1. backup' \in [Items -> Version] /\ backedUp' \subseteq Items
    BY <1>0, <1>6 DEF TypeOK, BackUp
  <2>2. pc' \in PCs /\ k' \in Items
    BY <1>6, AdvanceType DEF TypeOK, BackUp, Recover, PCs
  <2>3. faults' \in 0..MaxFaults
    BY <1>6, BoundsAssumption DEF TypeOK, BackUp, Fails, Fault
  <2> QED
    BY <1>6, <2>0, <2>1, <2>2, <2>3 DEF TypeOK, BackUp
<1>7. CASE Publish
  <2>0. dest' \in [Paths -> Version]
    BY <1>0, <1>7 DEF TypeOK, Publish
  <2>1. staged' \in [Items -> Version]
    BY <1>0, <1>7 DEF TypeOK, Publish
  <2>4. published' \subseteq Items
    BY <1>0, <1>7 DEF TypeOK, Publish
  <2>2. pc' \in PCs /\ k' \in Items
    BY <1>7, AdvanceType DEF TypeOK, Publish, Recover, PCs
  <2>3. faults' \in 0..MaxFaults
    BY <1>7, BoundsAssumption DEF TypeOK, Publish, Fails, Fault
  <2> QED
    BY <1>7, <2>0, <2>1, <2>2, <2>3, <2>4 DEF TypeOK, Publish
<1>8. CASE RemovePublished
  <2>0. dest' \in [Paths -> Version]
    BY <1>0, <1>8 DEF TypeOK, RemovePublished
  <2>1. recErr' \subseteq Items
    BY <1>0, <1>8 DEF TypeOK, RemovePublished
  <2>2. faults' \in 0..MaxFaults
    BY <1>8, BoundsAssumption DEF TypeOK, RemovePublished, Fails, Fault
  <2> QED
    BY <1>8, <2>0, <2>1, <2>2 DEF TypeOK, RemovePublished, PCs
<1>9. CASE RestoreBackup
  <2>0. dest' \in [Paths -> Version] /\ backup' \in [Items -> Version]
    BY <1>0, <1>9 DEF TypeOK, RestoreBackup
  <2>1. /\ restored' \subseteq Items /\ preserve' \subseteq Items
        /\ recErr' \subseteq Items
    BY <1>0, <1>9 DEF TypeOK, RestoreBackup
  <2>2. pc' \in PCs /\ k' \in Items /\ result' \in Results
    BY <1>9 DEF TypeOK, RestoreBackup, StepDown, Return, PCs, Results
  <2>3. faults' \in 0..MaxFaults
    BY <1>9, BoundsAssumption DEF TypeOK, RestoreBackup, Fails, Fault
  <2> QED
    BY <1>9, <2>0, <2>1, <2>2, <2>3 DEF TypeOK, RestoreBackup
<1>10. CASE CleanUp
  <2>1. /\ backup' \in [Items -> Version] /\ workspace' \subseteq Items
        /\ preserve' \subseteq Items /\ recErr' \subseteq Items
    BY <1>0, <1>10 DEF TypeOK, CleanUp
  <2>2. pc' \in PCs /\ k' \in Items /\ result' \in Results
    BY <1>10 DEF TypeOK, CleanUp, Return, PCs, Results
  <2>3. faults' \in 0..MaxFaults
    BY <1>10, BoundsAssumption DEF TypeOK, CleanUp, Fault
  <2> QED
    BY <1>10, <2>1, <2>2, <2>3 DEF TypeOK, CleanUp
<1>11. CASE Drop
  <2>1. workspace' \subseteq Items
    BY <1>11 DEF TypeOK, Drop
  <2>3. staged' \in [Items -> Version]
    BY <1>11 DEF TypeOK, Drop
  <2>4. backup' \in [Items -> Version]
    BY <1>11 DEF TypeOK, Drop
  <2>2. faults' \in 0..MaxFaults
    BY <1>11, BoundsAssumption DEF TypeOK, Drop, Fault
  <2> QED
    BY <1>11, <2>1, <2>2, <2>3, <2>4 DEF TypeOK, Drop, PCs
<1>12. CASE Crash
  BY <1>12 DEF TypeOK, Crash, PCs
<1>13. CASE OtherProgram
  BY <1>13, BoundsAssumption DEF TypeOK, OtherProgram
<1>14. CASE UNCHANGED vars
  BY <1>14 DEF TypeOK, vars
<1> QED
  BY <1>1, <1>2, <1>3, <1>4, <1>5, <1>6, <1>7, <1>8, <1>9, <1>10, <1>11,
     <1>12, <1>13, <1>14 DEF Next, Step, Done

\* The initial states have their types.
LEMMA TypeInit == Init => TypeOK
<1> SUFFICES ASSUME Init PROVE TypeOK
  OBVIOUS
<1>1. dest \in [Paths -> Version]
  BY VersionTypes, PathsAssumption DEF Init
<1> QED
  BY <1>1, VersionTypes, ItemFacts, BoundsAssumption DEF Init, TypeOK, PCs,
     Results

\* Whatever is handed to write_validated_files, every field of the staged
\* outputs, both progress vectors and the loop index keep their types.
THEOREM TypeCorrect == Spec => []TypeOK
BY TypeInit, TypeStep, PTL DEF Spec

\* The strengthened invariant is inductive.
LEMMA SafetyStep == IInv /\ [Next]_vars => IInv'
<1> SUFFICES ASSUME IInv, [Next]_vars PROVE IInv'
  OBVIOUS
<1>t. TypeOK'
  BY TypeStep DEF IInv
<1> USE ItemFacts
<1> USE DEF fsVars, procVars, obsVars, Moving, Recovering, Here, Mine, OldKept
<1>1. CASE CheckPaths
  <2>1. Distinct'
    BY <1>1 DEF IInv, CheckPaths, Return, Distinct
  <2>2. SnapshotFresh'
    BY <1>1 DEF IInv, CheckPaths, Return, SnapshotFresh
  <2>3. BackupHeld'
    BY <1>1 DEF IInv, CheckPaths, Return, BackupHeld
  <2>4. RestoredStays'
    BY <1>1 DEF IInv, CheckPaths, RestoredStays
  <2>5. Progress'
    <3>1. LoopsUp'
      BY <1>1, <1>t DEF IInv, TypeOK, CheckPaths, Return, Progress, LoopsUp,
         LoopDown
    <3>2. LoopDown'
      BY <1>1, <1>t DEF IInv, TypeOK, CheckPaths, Return, Progress, LoopsUp,
         LoopDown
    <3> QED
      BY <3>1, <3>2 DEF Progress
  <2>6. DropIsSafe'
    BY <1>1 DEF IInv, CheckPaths, DropIsSafe, Progress, LoopsUp, LoopDown
  <2>7. NothingTakenIsLost'
    BY <1>1 DEF IInv, CheckPaths, NothingTakenIsLost
  <2> QED
    BY <1>t, <2>1, <2>2, <2>3, <2>4, <2>5, <2>6, <2>7 DEF IInv
<1>2. CASE Stage
  <2>1. Distinct'
    BY <1>2 DEF IInv, Stage, Distinct
  <2>2. SnapshotFresh'
    BY <1>2 DEF IInv, Stage, Return, Advance, Fails, SnapshotFresh
  <2>3. BackupHeld'
    <3>1. ASSUME pc' = "write" PROVE workspace' = Items
      <4>1. k = N /\ workspace' = workspace \cup {k}
        BY <1>2, <3>1 DEF Stage, Return, Advance
      <4>2. \A i \in Items : i < k => i \in workspace
        BY <1>2 DEF IInv, Stage, Progress, LoopsUp
      <4>3. \A i \in Items : i < N \/ i = N
        BY NAssumption DEF Items
      <4>4. workspace \subseteq Items
        BY DEF IInv, TypeOK
      <4> QED
        BY <4>1, <4>2, <4>3, <4>4
    <3> QED
      BY <1>2, <3>1 DEF IInv, Stage, Return, Advance, BackupHeld
  <2>4. RestoredStays'
    BY <1>2 DEF IInv, Stage, RestoredStays, Progress, LoopsUp, LoopDown
  <2>5. Progress'
    BY <1>2, <1>t DEF IInv, Stage, Return, Advance, Fails, Progress, LoopsUp,
       LoopDown, TypeOK
  <2>6. DropIsSafe'
    BY <1>2 DEF IInv, Stage, DropIsSafe, Progress, LoopsUp, LoopDown
  <2>7. NothingTakenIsLost'
    BY <1>2 DEF IInv, Stage, NothingTakenIsLost, Progress, LoopsUp, LoopDown
  <2> QED
    BY <1>t, <2>1, <2>2, <2>3, <2>4, <2>5, <2>6, <2>7 DEF IInv
<1>3. CASE WriteStaged
  <2>1. Distinct'
    BY <1>3 DEF IInv, WriteStaged, Distinct
  <2>2. SnapshotFresh'
    BY <1>3 DEF IInv, WriteStaged, Return, Advance, SnapshotFresh
  <2>3. BackupHeld'
    BY <1>3 DEF IInv, WriteStaged, Return, Advance, BackupHeld
  <2>4. RestoredStays'
    BY <1>3 DEF IInv, WriteStaged, RestoredStays
  <2>5. Progress'
    BY <1>3 DEF IInv, WriteStaged, Return, Advance, Progress, LoopsUp, LoopDown
  <2>6. DropIsSafe'
    BY <1>3 DEF IInv, WriteStaged, DropIsSafe, Progress, LoopsUp, LoopDown
  <2>7. NothingTakenIsLost'
    BY <1>3 DEF IInv, WriteStaged, NothingTakenIsLost
  <2> QED
    BY <1>t, <2>1, <2>2, <2>3, <2>4, <2>5, <2>6, <2>7 DEF IInv
<1>4. CASE RecheckDestination
  <2>1. Distinct'
    BY <1>4 DEF IInv, RecheckDestination, Distinct
  <2>2. SnapshotFresh'
    BY <1>4, <1>t DEF IInv, RecheckDestination, Return, Advance, Recheck,
       Fails, SnapshotFresh, TypeOK
  <2>3. BackupHeld'
    BY <1>4 DEF IInv, RecheckDestination, Return, Advance, Recheck, Fails,
       BackupHeld
  <2>4. RestoredStays'
    BY <1>4 DEF IInv, RecheckDestination, RestoredStays
  <2>5. Progress'
    BY <1>4 DEF IInv, RecheckDestination, Return, Advance, Recheck, Fails,
       Progress, LoopsUp, LoopDown
  <2>6. DropIsSafe'
    BY <1>4 DEF IInv, RecheckDestination, DropIsSafe, Progress, LoopsUp,
       LoopDown
  <2>7. NothingTakenIsLost'
    BY <1>4 DEF IInv, RecheckDestination, NothingTakenIsLost
  <2> QED
    BY <1>t, <2>1, <2>2, <2>3, <2>4, <2>5, <2>6, <2>7 DEF IInv
<1>5. CASE InheritPermissions
  <2>1. Distinct'
    BY <1>5 DEF IInv, InheritPermissions, Distinct
  <2>2. SnapshotFresh'
    BY <1>5 DEF IInv, InheritPermissions, SnapshotFresh
  <2>3. BackupHeld'
    BY <1>5 DEF IInv, InheritPermissions, BackupHeld, Progress, LoopsUp,
       LoopDown
  <2>4. RestoredStays'
    BY <1>5 DEF IInv, InheritPermissions, RestoredStays
  <2>5. Progress'
    BY <1>5 DEF IInv, InheritPermissions, Return, Advance, Progress, LoopsUp,
       LoopDown
  <2>6. DropIsSafe'
    BY <1>5 DEF IInv, InheritPermissions, DropIsSafe, Progress, LoopsUp,
       LoopDown
  <2>7. NothingTakenIsLost'
    BY <1>5 DEF IInv, InheritPermissions, NothingTakenIsLost
  <2> QED
    BY <1>t, <2>1, <2>2, <2>3, <2>4, <2>5, <2>6, <2>7 DEF IInv
<1>6. CASE BackUp
  <2>1. Distinct'
    BY <1>6 DEF IInv, BackUp, Distinct
  <2>2. SnapshotFresh'
    BY <1>6, <1>t DEF IInv, BackUp, Recover, Advance, Fails,
       SnapshotFresh, Progress, LoopsUp, LoopDown, Distinct, TypeOK
  <2>3. BackupHeld'
    BY <1>6, <1>t DEF IInv, BackUp, BackupHeld, Progress, LoopsUp, LoopDown,
       SnapshotFresh, TypeOK
  <2>4. RestoredStays'
    BY <1>6 DEF IInv, BackUp, RestoredStays, Progress, LoopsUp, LoopDown
  <2>5. Progress'
    <3>1. LoopsUp'
      <4>1. CASE pc' = "backup"
        <5>1. k' = k + 1 /\ published' = published
          BY <1>6, <4>1 DEF BackUp, Recover, Advance
        <5>2. backedUp' \subseteq backedUp \cup {k}
          BY <1>6 DEF BackUp
        <5>3. published = {} /\ \A i \in backedUp : i < k
          BY <1>6 DEF IInv, BackUp, Progress, LoopsUp
        <5>4. k \in Nat /\ backedUp \subseteq Nat
          BY DEF IInv, TypeOK
        <5>5. \A i \in backedUp' : i < k'
          BY <5>1, <5>2, <5>3, <5>4
        <5> QED
          BY <4>1, <5>1, <5>3, <5>5 DEF LoopsUp
      <4>2. CASE pc' = "publish"
        <5>1. published' = {} /\ k' = 1
          BY <1>6, <4>2 DEF IInv, BackUp, Recover, Advance, Progress, LoopsUp
        <5>2. {i \in Items : i < 1} = {}
          BY NAssumption DEF Items
        <5> QED
          BY <4>2, <5>1, <5>2 DEF LoopsUp
      <4>3. CASE pc' = "remove"
        BY <4>3 DEF LoopsUp
      <4> QED
        BY <1>6, <4>1, <4>2, <4>3 DEF BackUp, Recover, Advance
    <3>2. LoopDown'
      BY <1>6, <1>t DEF IInv, TypeOK, BackUp, Recover, Advance, Fails,
         Progress, LoopsUp, LoopDown
    <3> QED
      BY <3>1, <3>2 DEF Progress
  <2>6. DropIsSafe'
    BY <1>6 DEF IInv, BackUp, Recover, Advance, Fails, DropIsSafe
  <2>7. NothingTakenIsLost'
    BY <1>6, <1>t DEF IInv, BackUp, NothingTakenIsLost, Progress, LoopsUp,
       LoopDown, BackupHeld, TypeOK
  <2> QED
    BY <1>t, <2>1, <2>2, <2>3, <2>4, <2>5, <2>6, <2>7 DEF IInv
<1>7. CASE Publish
  <2>1. Distinct'
    BY <1>7 DEF IInv, Publish, Distinct
  <2>2. SnapshotFresh'
    BY <1>7 DEF IInv, Publish, Recover, Advance, Fails, SnapshotFresh
  <2>3. BackupHeld'
    BY <1>7 DEF IInv, Publish, BackupHeld
  <2>4. RestoredStays'
    BY <1>7 DEF IInv, Publish, RestoredStays, Progress, LoopsUp, LoopDown
  <2>5. Progress'
    <3>1. LoopsUp'
      <4>0. published = {i \in Items : i < k} /\ k \in Items
        BY <1>7 DEF IInv, TypeOK, Publish, Progress, LoopsUp
      <4>1. CASE pc' = "publish"
        <5>1. published' = published \cup {k} /\ k' = k + 1
          BY <1>7, <4>1 DEF Publish, Recover, Advance
        <5>2. {i \in Items : i < k} \cup {k} = {i \in Items : i < k + 1}
          BY <4>0, NAssumption DEF Items
        <5> QED
          BY <4>0, <4>1, <5>1, <5>2 DEF LoopsUp
      <4>2. CASE pc' = "cleanup"
        <5>1. published' = published \cup {k} /\ k = N
          BY <1>7, <4>2 DEF Publish, Recover, Advance
        <5>2. {i \in Items : i < N} \cup {N} = Items
          BY NAssumption DEF Items
        <5> QED
          BY <4>0, <4>2, <5>1, <5>2 DEF LoopsUp
      <4>3. CASE pc' = "remove"
        BY <4>3 DEF LoopsUp
      <4> QED
        BY <1>7, <4>1, <4>2, <4>3 DEF Publish, Recover, Advance
    <3>2. LoopDown'
      BY <1>7, <1>t DEF IInv, TypeOK, Publish, Recover, Advance, Fails,
         Progress, LoopsUp, LoopDown
    <3> QED
      BY <3>1, <3>2 DEF Progress
  <2>6. DropIsSafe'
    BY <1>7 DEF IInv, Publish, Recover, Advance, Fails, DropIsSafe
  <2>7. NothingTakenIsLost'
    BY <1>7, <1>t DEF IInv, Publish, NothingTakenIsLost, Progress, LoopsUp,
       LoopDown, TypeOK
  <2> QED
    BY <1>t, <2>1, <2>2, <2>3, <2>4, <2>5, <2>6, <2>7 DEF IInv
<1>8. CASE RemovePublished
  <2>1. Distinct'
    BY <1>8 DEF IInv, RemovePublished, Distinct
  <2>2. SnapshotFresh'
    BY <1>8 DEF IInv, RemovePublished, SnapshotFresh
  <2>3. BackupHeld'
    BY <1>8 DEF IInv, RemovePublished, BackupHeld
  <2>4. RestoredStays'
    BY <1>8, <1>t DEF IInv, RemovePublished, RestoredStays, Progress, LoopsUp,
       LoopDown, Distinct, TypeOK
  <2>5. Progress'
    BY <1>8 DEF IInv, RemovePublished, Progress, LoopsUp, LoopDown
  <2>6. DropIsSafe'
    BY <1>8 DEF IInv, RemovePublished, DropIsSafe
  <2>7. NothingTakenIsLost'
    BY <1>8, <1>t DEF IInv, RemovePublished, NothingTakenIsLost, Progress,
       LoopsUp, LoopDown, Distinct, TypeOK
  <2> QED
    BY <1>t, <2>1, <2>2, <2>3, <2>4, <2>5, <2>6, <2>7 DEF IInv
<1>9. CASE RestoreBackup
  <2>1. Distinct'
    BY <1>9 DEF IInv, RestoreBackup, Distinct
  <2>2. SnapshotFresh'
    BY <1>9 DEF IInv, RestoreBackup, StepDown, Return, Fails,
       SnapshotFresh
  <2>3. BackupHeld'
    BY <1>9, <1>t DEF IInv, RestoreBackup, BackupHeld, TypeOK
  <2>4. RestoredStays'
    BY <1>9, <1>t DEF IInv, RestoreBackup, RestoredStays, Progress, LoopsUp,
       LoopDown, Distinct, BackupHeld, TypeOK
  <2>5. Progress'
    BY <1>9, <1>t DEF IInv, RestoreBackup, StepDown, Return, Fails,
       Progress, LoopsUp, LoopDown, TypeOK
  <2>6. DropIsSafe'
    BY <1>9, <1>t DEF IInv, RestoreBackup, StepDown, Return, Fails,
       DropIsSafe, Progress, LoopsUp, LoopDown, TypeOK
  <2>7. NothingTakenIsLost'
    BY <1>9, <1>t DEF IInv, RestoreBackup, NothingTakenIsLost, Progress,
       LoopsUp, LoopDown, Distinct, BackupHeld, TypeOK
  <2> QED
    BY <1>t, <2>1, <2>2, <2>3, <2>4, <2>5, <2>6, <2>7 DEF IInv
<1>10. CASE CleanUp
  <2>1. Distinct'
    BY <1>10 DEF IInv, CleanUp, Distinct
  <2>2. SnapshotFresh'
    BY <1>10 DEF IInv, CleanUp, Return, SnapshotFresh
  <2>3. BackupHeld'
    BY <1>10 DEF IInv, CleanUp, Return, BackupHeld
  <2>4. RestoredStays'
    BY <1>10 DEF IInv, CleanUp, RestoredStays
  <2>5. Progress'
    BY <1>10 DEF IInv, CleanUp, Return, Progress, LoopsUp, LoopDown
  <2>6. DropIsSafe'
    BY <1>10 DEF IInv, CleanUp, DropIsSafe, Progress, LoopsUp, LoopDown
  <2>7. NothingTakenIsLost'
    BY <1>10 DEF IInv, CleanUp, NothingTakenIsLost, Progress, LoopsUp, LoopDown
  <2> QED
    BY <1>t, <2>1, <2>2, <2>3, <2>4, <2>5, <2>6, <2>7 DEF IInv
<1>11. CASE Drop
  <2>1. Distinct'
    BY <1>11 DEF IInv, Drop, Distinct
  <2>2. SnapshotFresh'
    BY <1>11 DEF IInv, Drop, SnapshotFresh
  <2>3. BackupHeld'
    BY <1>11 DEF IInv, Drop, BackupHeld
  <2>4. RestoredStays'
    BY <1>11 DEF IInv, Drop, RestoredStays
  <2>5. Progress'
    BY <1>11 DEF IInv, Drop, Progress, LoopsUp, LoopDown
  <2>6. DropIsSafe'
    BY <1>11 DEF IInv, Drop, DropIsSafe
  <2>7. NothingTakenIsLost'
    BY <1>11, <1>t DEF IInv, Drop, Sweeps, NothingTakenIsLost, Distinct,
       SnapshotFresh, BackupHeld, RestoredStays, Progress, LoopsUp, LoopDown,
       DropIsSafe, TypeOK
  <2> QED
    BY <1>t, <2>1, <2>2, <2>3, <2>4, <2>5, <2>6, <2>7 DEF IInv
<1>12. CASE Crash
  <2>1. Distinct'
    BY <1>12 DEF IInv, Crash, Distinct
  <2>2. SnapshotFresh'
    BY <1>12 DEF IInv, Crash, SnapshotFresh
  <2>3. BackupHeld'
    BY <1>12 DEF IInv, Crash, BackupHeld
  <2>4. RestoredStays'
    BY <1>12 DEF IInv, Crash, RestoredStays
  <2>5. Progress'
    BY <1>12 DEF IInv, Crash, Progress, LoopsUp, LoopDown
  <2>6. DropIsSafe'
    BY <1>12 DEF IInv, Crash, DropIsSafe
  <2>7. NothingTakenIsLost'
    BY <1>12 DEF IInv, Crash, NothingTakenIsLost
  <2> QED
    BY <1>t, <2>1, <2>2, <2>3, <2>4, <2>5, <2>6, <2>7 DEF IInv
<1>13. CASE OtherProgram
  <2>1. Distinct'
    BY <1>13 DEF IInv, OtherProgram, Distinct
  <2>2. SnapshotFresh'
    BY <1>13 DEF IInv, OtherProgram, Rechecked, SnapshotFresh
  <2>3. BackupHeld'
    BY <1>13 DEF IInv, OtherProgram, BackupHeld
  <2>4. RestoredStays'
    BY <1>13, <1>t DEF IInv, OtherProgram, Rechecked, RestoredStays,
       Progress, LoopsUp, LoopDown, TypeOK
  <2>5. Progress'
    BY <1>13 DEF IInv, OtherProgram, Progress, LoopsUp, LoopDown
  <2>6. DropIsSafe'
    BY <1>13 DEF IInv, OtherProgram, DropIsSafe
  <2>7. NothingTakenIsLost'
    BY <1>13, <1>t DEF IInv, OtherProgram, Rechecked, NothingTakenIsLost,
       Progress, LoopsUp, LoopDown, TypeOK
  <2> QED
    BY <1>t, <2>1, <2>2, <2>3, <2>4, <2>5, <2>6, <2>7 DEF IInv
<1>14. CASE UNCHANGED vars
  BY <1>14, <1>t DEF IInv, vars, Distinct, SnapshotFresh, BackupHeld,
     RestoredStays, Progress, LoopsUp, LoopDown, DropIsSafe,
     NothingTakenIsLost
<1> QED
  BY <1>1, <1>2, <1>3, <1>4, <1>5, <1>6, <1>7, <1>8, <1>9, <1>10, <1>11,
     <1>12, <1>13, <1>14 DEF Next, Step, Done

\* Nothing has been moved at first.
LEMMA SafetyInit == Init => IInv
<1> SUFFICES ASSUME Init PROVE IInv
  OBVIOUS
<1>1. TypeOK
  BY TypeInit
<1>2. Progress
  BY ItemFacts, NAssumption DEF Init, Progress, LoopsUp, LoopDown, Recovering,
     Items
<1> QED
  BY <1>1, <1>2 DEF Init, IInv, Distinct, SnapshotFresh, BackupHeld,
     RestoredStays, DropIsSafe, NothingTakenIsLost, Moving, Mine

\* publish_output_set never loses an old file it moved aside, unless it moved
\* the whole new set in: for any number of outputs, any failing calls, any
\* steps of another program and a process death at any point.
THEOREM NothingLost == Spec => []NothingTakenIsLost
<1>1. IInv => NothingTakenIsLost
  BY DEF IInv
<1> QED
  BY <1>1, SafetyInit, SafetyStep, PTL DEF Spec
-----------------------------------------------------------------------------
(***************************************************************************)
(* OutputSet implements Publication: each call of publish_output_set is a  *)
(* step of the abstract publication, or changes nothing that it can see.   *)
(* And what the destinations and the workspaces hold when it has returned. *)
(***************************************************************************)

\* The phases before the first old file is moved aside.
Early == {"check", "stage", "write", "recheck", "inherit"}

\* The function has not returned.
Running == Early \cup Moving \cup {"cleanup"}

\* Outputs whose destination held a file when they were staged.
Had == {i \in Items : snapshot[i] # Missing}

\* The old file of output i is not in the way of the destructors.
Settled(i) == i \in preserve \/ backup[i] = Missing

\* What relates the progress of the calls to the abstract state.
Silent     == pc \in Running => result = "none"
Unseen     == pc \in {"check", "stage"} => \A i \in Items : k <= i => snapshot[i] = Missing
AsideSoFar == /\ pc = "backup"  => backedUp = {i \in Had : i < k}
              /\ pc = "publish" => backedUp = Had
Reported   == preserve \subseteq recErr
Swept      == /\ pc = "cleanup" => \A i \in backedUp : i < k => Settled(i)
              /\ pc = "drop"    => \A i \in backedUp : i \in restored \/ Settled(i)

RefInv == Silent /\ Unseen /\ AsideSoFar /\ Reported /\ Swept

-----------------------------------------------------------------------------
(***************************************************************************)
(* The invariant                                                           *)
(***************************************************************************)

\* Nothing has been looked at first.
LEMMA RefInit == Init => RefInv
BY DEF Init, RefInv, Silent, Unseen, AsideSoFar, Reported, Swept

\* While nothing was moved aside, nothing was put back either.
LEMMA EarlyFacts ==
  ASSUME IInv, pc \in Early
  PROVE  backedUp = {} /\ published = {} /\ restored = {}
BY DEF IInv, Progress, LoopsUp, LoopDown, Early, Recovering

\* Every step keeps it.
LEMMA RefStep == IInv /\ RefInv /\ [Next]_vars => RefInv'
<1> SUFFICES ASSUME IInv, RefInv, [Next]_vars PROVE RefInv'
  OBVIOUS
<1>t. TypeOK /\ TypeOK'
  BY TypeStep DEF IInv
<1>k. k \in Nat /\ k' \in Nat /\ Items \subseteq Nat
  BY <1>t, ItemFacts DEF TypeOK
<1> USE ItemFacts
<1> USE DEF fsVars, procVars, obsVars, Here, Running, Early, Moving, Recovering, Had,
         Settled
<1>1. CASE CheckPaths
  <2>1. backedUp = {}
    BY <1>1, EarlyFacts DEF CheckPaths
  <2> QED
    BY <1>1, <2>1 DEF RefInv, Silent, Unseen, AsideSoFar, Reported, Swept,
       CheckPaths, Return
<1>2. CASE Stage
  <2>1. backedUp = {}
    BY <1>2, EarlyFacts DEF Stage
  <2>2. Silent'
    BY <1>2 DEF RefInv, Silent, Stage, Return
  <2>3. Unseen'
    BY <1>2, <1>t, <1>k DEF RefInv, Unseen, Stage, Return, Advance, TypeOK
  <2> QED
    BY <1>2, <2>1, <2>2, <2>3 DEF RefInv, AsideSoFar, Reported, Swept, Stage,
       Return, Advance
<1>3. CASE WriteStaged
  <2>1. backedUp = {}
    BY <1>3, EarlyFacts DEF WriteStaged
  <2> QED
    BY <1>3, <2>1 DEF RefInv, Silent, Unseen, AsideSoFar, Reported, Swept,
       WriteStaged, Return, Advance
<1>4. CASE RecheckDestination
  <2>1. backedUp = {}
    BY <1>4, EarlyFacts DEF RecheckDestination
  <2> QED
    BY <1>4, <2>1 DEF RefInv, Silent, Unseen, AsideSoFar, Reported, Swept,
       RecheckDestination, Return, Advance, Recheck
<1>5. CASE InheritPermissions
  <2>1. backedUp = {}
    BY <1>5, EarlyFacts DEF InheritPermissions
  <2>2. pc' = "backup" => {i \in Had : i < k'} = {}
    <3>1. pc' = "backup" => k' = 1
      BY <1>5 DEF InheritPermissions, Return, Advance
    <3>2. \A i \in Items : ~(i < 1)
      BY <1>k
    <3> QED
      BY <3>1, <3>2
  <2> QED
    BY <1>5, <2>1, <2>2 DEF RefInv, Silent, Unseen, AsideSoFar, Reported, Swept,
       InheritPermissions, Return, Advance
<1>6. CASE BackUp
  <2>1. AsideSoFar'
    <3>1. backedUp = {i \in Had : i < k} /\ k \in Items
      BY <1>6, <1>t DEF RefInv, AsideSoFar, BackUp, TypeOK
    <3>2. pc' = "remove" \/ backedUp' = {i \in Had : i <= k}
      <4>0. \A i \in Items : i <= k <=> i < k \/ i = k
        BY <1>k, <3>1
      <4>1. CASE snapshot[k] = Missing /\ backedUp' = backedUp
        <5>1. \A i \in Had : i <= k <=> i < k
          BY <4>0, <4>1
        <5>2. {i \in Had : i <= k} = {i \in Had : i < k}
          BY <5>1, Zenon DEF Had
        <5> QED
          BY <3>1, <4>1, <5>2
      <4>2. CASE snapshot[k] # Missing /\ backedUp' = backedUp \cup {k}
        <5>1. k \in Had
          BY <3>1, <4>2
        <5>2. \A i \in Had : i <= k <=> i < k \/ i = k
          BY <4>0
        <5>3. {i \in Had : i <= k} = {i \in Had : i < k} \cup {k}
          BY <5>1, <5>2
        <5> QED
          BY <3>1, <4>2, <5>3
      <4> QED
        BY <1>6, <4>1, <4>2 DEF BackUp, Recover
    <3>3. CASE pc' = "backup"
      <4>1. k' = k + 1
        BY <1>6, <3>3 DEF BackUp, Advance, Recover
      <4>2. \A i \in Items : i <= k <=> i < k + 1
        BY <1>k
      <4>3. {i \in Had : i <= k} = {i \in Had : i < k + 1}
        BY <4>2
      <4>4. Had' = Had
        BY <1>6 DEF BackUp
      <4> QED
        BY <3>2, <3>3, <4>1, <4>3, <4>4 DEF AsideSoFar
    <3>4. CASE pc' = "publish"
      <4>1. k = N
        BY <1>6, <3>4 DEF BackUp, Advance, Recover
      <4>2. {i \in Had : i <= k} = Had
        BY <4>1
      <4> QED
        BY <1>6, <3>2, <3>4, <4>2 DEF AsideSoFar, BackUp
    <3> QED
      BY <1>6, <3>3, <3>4 DEF AsideSoFar, BackUp, Advance, Recover
  <2> QED
    BY <1>6, <2>1 DEF RefInv, Silent, Unseen, Reported, Swept, BackUp, Advance,
       Recover
<1>7. CASE Publish
  <2>1. pc' = "cleanup" => k' = 1
    BY <1>7 DEF Publish, Advance, Recover
  <2>2. Swept'
    <3>1. \A i \in Items : ~(i < 1)
      BY <1>k
    <3>2. backedUp' \subseteq Items /\ pc' # "drop"
      BY <1>7, <1>t DEF Publish, Advance, Recover, TypeOK
    <3> QED
      BY <2>1, <3>1, <3>2 DEF Swept
  <2> QED
    BY <1>7, <2>2 DEF RefInv, Silent, Unseen, AsideSoFar, Reported, Publish,
       Advance, Recover
<1>8. CASE RemovePublished
  BY <1>8 DEF RefInv, Silent, Unseen, AsideSoFar, Reported, Swept, RemovePublished
<1>9. CASE RestoreBackup
  <2>1. Swept'
    <3>1. SUFFICES ASSUME pc' = "drop", NEW i \in backedUp
                   PROVE  i \in restored' \/ i \in preserve'
      BY <1>9 DEF Swept, RestoreBackup, StepDown, Return
    <3>2. k = 1
      BY <1>9, <3>1 DEF RestoreBackup, StepDown
    <3>3. CASE i = k
      BY <1>9, <3>3 DEF RestoreBackup
    <3>4. CASE i # k
      <4>1. i \in Items /\ k < i
        BY <1>t, <1>k, <3>2, <3>4 DEF TypeOK
      <4>2. i \in restored \cup preserve
        BY <1>9, <4>1 DEF IInv, Progress, LoopDown, RestoreBackup
      <4> QED
        BY <1>9, <4>2 DEF RestoreBackup
    <3> QED
      BY <3>3, <3>4
  <2> QED
    BY <1>9, <2>1 DEF RefInv, Silent, Unseen, AsideSoFar, Reported, RestoreBackup,
       StepDown, Return
<1>10. CASE CleanUp
  <2>0. backup' = [backup EXCEPT ![k] = Missing] \/ k \in preserve'
    BY <1>10 DEF CleanUp
  <2>1. \A i \in backedUp : i <= k => i \in preserve' \/ backup'[i] = Missing
    <3> SUFFICES ASSUME NEW i \in backedUp, i <= k
                 PROVE  i \in preserve' \/ backup'[i] = Missing
      OBVIOUS
    <3>1. CASE i = k
      BY <1>t, <2>0, <3>1 DEF TypeOK
    <3>2. CASE i # k
      <4>1. i \in Items /\ i < k
        BY <1>t, <1>k, <3>2 DEF TypeOK
      <4>2. Settled(i)
        BY <1>10, <4>1 DEF RefInv, Swept, CleanUp
      <4> QED
        BY <1>10, <1>t, <3>2, <4>2 DEF CleanUp, TypeOK
    <3> QED
      BY <3>1, <3>2
  <2>2. Swept'
    <3>1. backedUp' = backedUp /\ restored' = restored /\ backedUp \subseteq Items
      BY <1>10, <1>t DEF CleanUp, TypeOK
    <3>2. CASE k = N
      BY <1>10, <1>k, <2>1, <3>1, <3>2 DEF Swept, CleanUp, Return
    <3>3. CASE k # N
      <4>1. pc' = "cleanup" /\ k' = k + 1
        BY <1>10, <3>3 DEF CleanUp
      <4>2. \A i \in backedUp : i < k + 1 => i <= k
        BY <1>k, <3>1
      <4> QED
        BY <2>1, <3>1, <4>1, <4>2 DEF Swept
    <3> QED
      BY <3>2, <3>3
  <2> QED
    BY <1>10, <2>2 DEF RefInv, Silent, Unseen, AsideSoFar, Reported, CleanUp, Return
<1>11. CASE Drop
  BY <1>11 DEF RefInv, Silent, Unseen, AsideSoFar, Reported, Swept, Drop
<1>12. CASE Crash
  BY <1>12 DEF RefInv, Silent, Unseen, AsideSoFar, Reported, Swept, Crash
<1>13. CASE OtherProgram
  BY <1>13 DEF RefInv, Silent, Unseen, AsideSoFar, Reported, Swept, OtherProgram
<1>14. CASE UNCHANGED vars
  BY <1>14 DEF RefInv, Silent, Unseen, AsideSoFar, Reported, Swept, vars
<1> QED
  BY <1>1, <1>2, <1>3, <1>4, <1>5, <1>6, <1>7, <1>8, <1>9, <1>10, <1>11,
     <1>12, <1>13, <1>14 DEF Next, Step, Done

-----------------------------------------------------------------------------
(***************************************************************************)
(* The steps                                                               *)
(***************************************************************************)

\* What the abstract publication sees of the outputs.
Seen == <<snapshot, restored, backedUp, backup, published, result>>

\* A step that changes none of it is a stutter.
LEMMA Quiet == UNCHANGED Seen => UNCHANGED P!vars
BY DEF Seen, P!vars, OldPlace, Told

\* The places change only where the three variables they are read from do.
LEMMA PlacesKept ==
  ASSUME UNCHANGED <<restored, backedUp, backup>>
  PROVE  [i \in Items |-> OldPlace(i)]' = [i \in Items |-> OldPlace(i)]
BY DEF OldPlace

\* Returning a refusal before anything was moved aside is a Tell.
LEMMA Refusal ==
  ASSUME IInv, RefInv, pc \in Early, result' = "error",
         UNCHANGED <<snapshot, restored, backedUp, backup, published>>
  PROVE  P!Tell
<1>1. backedUp = {} /\ published = {} /\ restored = {}
  BY EarlyFacts
<1>2. Told = "none" /\ Told' = "untouched"
  BY DEF RefInv, Silent, Running, Told
<1>3. \A i \in Items : OldPlace(i)' = "place" /\ OldPlace(i) = "place"
  BY <1>1 DEF OldPlace
<1>4. P!Report
  BY <1>1, <1>2, <1>3 DEF P!Report, P!Truthful, P!Untouched, P!Tales
<1>5. [i \in Items |-> OldPlace(i)]' = [i \in Items |-> OldPlace(i)]
  BY PlacesKept
<1> QED
  BY <1>4, <1>5 DEF P!Tell

\* Staging an output looks at its destination.
LEMMA StageRefines == IInv /\ RefInv /\ Stage => P!Next \/ UNCHANGED P!vars
<1> SUFFICES ASSUME IInv, RefInv, Stage PROVE P!Next \/ UNCHANGED P!vars
  OBVIOUS
<1>t. TypeOK
  BY DEF IInv
<1>1. pc \in Early /\ k \in Items
  BY <1>t DEF Stage, Early, TypeOK
<1>2. UNCHANGED <<restored, backedUp, backup, published>>
  BY DEF Stage, obsVars
<1>3. backedUp = {} /\ published = {} /\ restored = {}
  BY <1>1, EarlyFacts
<1>4. [i \in Items |-> OldPlace(i)]' = [i \in Items |-> OldPlace(i)]
  BY <1>2, PlacesKept
<1>5. CASE result' = "error" /\ snapshot' = snapshot
  BY <1>1, <1>2, <1>5, Refusal DEF P!Next
<1>6. CASE result' = result /\ snapshot' = [snapshot EXCEPT ![k] = dest[Here]]
  <2>1. snapshot[k] = Missing
    BY <1>1, ItemFacts DEF RefInv, Unseen, Stage
  <2>2. CASE dest[Here] = Missing
    <3>1. snapshot' = snapshot
      BY <1>6, <1>t, <2>1, <2>2 DEF TypeOK
    <3> QED
      BY <1>2, <1>6, <3>1, Quiet DEF Seen
  <2>3. CASE dest[Here] # Missing
    <3>1. {i \in Items : snapshot'[i] # Missing}
            = {i \in Items : snapshot[i] # Missing} \cup {k}
      BY <1>1, <1>6, <1>t, <2>3 DEF TypeOK
    <3>2. P!Untouched([i \in Items |-> OldPlace(i)], published)
      BY <1>3 DEF P!Untouched, OldPlace
    <3>3. Told' = Told
      BY <1>6 DEF Told
    <3>4. PICK i \in Items : i = k
      BY <1>1
    <3>5. P!Look(i)
      BY <1>2, <1>4, <3>1, <3>2, <3>3, <3>4 DEF P!Look
    <3> QED
      BY <3>5 DEF P!Next
  <2> QED
    BY <2>2, <2>3
<1> QED
  BY <1>5, <1>6 DEF Stage, Return

\* Moving an old file aside is the abstract step of that name.
LEMMA BackUpRefines == IInv /\ RefInv /\ BackUp => P!Next \/ UNCHANGED P!vars
<1> SUFFICES ASSUME IInv, RefInv, BackUp PROVE P!Next \/ UNCHANGED P!vars
  OBVIOUS
<1>t. TypeOK /\ k \in Items
  BY DEF IInv, TypeOK
<1>1. UNCHANGED <<snapshot, restored, published, result>>
  BY DEF BackUp, obsVars
<1>2. CASE UNCHANGED <<backup, backedUp>>
  BY <1>1, <1>2, Quiet DEF Seen
<1>3. CASE /\ snapshot[k] # Missing /\ dest[Here] # Missing
           /\ backup' = [backup EXCEPT ![k] = dest[Here]]
           /\ backedUp' = backedUp \cup {k}
  <2>1. published = {} /\ restored = {} /\ k \notin backedUp
    BY <1>t, ItemFacts DEF IInv, Progress, LoopsUp, LoopDown, Recovering, BackUp
  <2>2. Told = "none" /\ Told' = Told
    BY <1>1 DEF RefInv, Silent, Running, Moving, BackUp, Told
  <2>3. \A i \in Items : i = k => OldPlace(i) = "place" /\ OldPlace(i)' = "aside"
    BY <1>1, <1>3, <1>t, <2>1 DEF OldPlace, TypeOK
  <2>4. \A i \in Items : i # k => OldPlace(i)' = OldPlace(i)
    BY <1>1, <1>3, <1>t DEF OldPlace, TypeOK
  <2>5. [i \in Items |-> OldPlace(i)]'
          = [[i \in Items |-> OldPlace(i)] EXCEPT ![k] = "aside"]
    BY <2>3, <2>4
  <2>6. P!MoveAside(k)
    BY <1>1, <1>3, <1>t, <2>1, <2>2, <2>3, <2>5 DEF P!MoveAside
  <2> QED
    BY <1>t, <2>6 DEF P!Next
<1> QED
  BY <1>2, <1>3 DEF BackUp

\* Moving a new file in finds every old one aside.
LEMMA PublishRefines == IInv /\ RefInv /\ Publish => P!Next \/ UNCHANGED P!vars
<1> SUFFICES ASSUME IInv, RefInv, Publish PROVE P!Next \/ UNCHANGED P!vars
  OBVIOUS
<1>t. TypeOK /\ k \in Items
  BY DEF IInv, TypeOK
<1>1. UNCHANGED <<snapshot, restored, backedUp, backup, result>>
  BY DEF Publish, obsVars
<1>2. CASE published' = published
  BY <1>1, <1>2, Quiet DEF Seen
<1>3. CASE published' = published \cup {k}
  <2>1. Told = "none" /\ Told' = Told
    BY <1>1 DEF RefInv, Silent, Running, Moving, Publish, Told
  <2>2. restored = {} /\ backedUp = Had
    BY DEF IInv, Progress, LoopDown, Recovering, RefInv, AsideSoFar, Publish
  <2>3. \A i \in Had : OldPlace(i) = "aside"
    BY <2>2 DEF IInv, BackupHeld, Moving, Publish, OldPlace
  <2>4. [i \in Items |-> OldPlace(i)]' = [i \in Items |-> OldPlace(i)]
    BY <1>1, PlacesKept
  <2>5. P!MoveIn(k)
    BY <1>1, <1>3, <2>1, <2>3, <2>4 DEF P!MoveIn, Had
  <2> QED
    BY <1>t, <2>5 DEF P!Next
<1> QED
  BY <1>2, <1>3 DEF Publish

\* Only an incomplete publication is undone, each old file once, and only a
\* recovery without errors is reported as one that restored everything.
LEMMA RestoreRefines == IInv /\ RefInv /\ RestoreBackup => P!Next \/ UNCHANGED P!vars
<1> SUFFICES ASSUME IInv, RefInv, RestoreBackup PROVE P!Next \/ UNCHANGED P!vars
  OBVIOUS
<1>t. TypeOK /\ TypeOK' /\ k \in Items /\ Items \subseteq Nat
  BY TypeStep, ItemFacts DEF IInv, TypeOK, Next, Step
<1>1. UNCHANGED <<snapshot, backedUp, published>>
  BY DEF RestoreBackup
<1>2. /\ published # Items
      /\ \A i \in backedUp : k < i => i \in restored \cup preserve
      /\ \A i \in restored : k < i
  BY DEF IInv, Progress, LoopDown, Recovering, RestoreBackup
<1>3. Told = "none"
  BY DEF RefInv, Silent, Running, Moving, RestoreBackup, Told
<1>4. \/ result' = "none"
      \/ result' = "incomplete"
      \/ k = 1 /\ result' = "restored" /\ recErr' = {}
  BY DEF RefInv, Silent, Running, Moving, RestoreBackup, StepDown, Return
\* After output 1 every old file that was moved aside is back, or is kept.
<1>5. ASSUME result' = "restored", NEW i \in backedUp
      PROVE  i \in restored'
  <2>1. k = 1 /\ recErr' = {}
    BY <1>4, <1>5
  <2>2. k \in backedUp => k \in restored'
    BY <2>1, <1>1 DEF RestoreBackup
  <2>3. i \in Items
    BY <1>t DEF TypeOK
  <2>4. CASE i = k
    BY <2>2, <2>4
  <2>5. CASE i # k
    <3>1. k < i
      BY <1>t, <2>1, <2>3, <2>5, ItemFacts
    <3>2. preserve \subseteq recErr /\ recErr \subseteq recErr'
      BY DEF RefInv, Reported, RestoreBackup
    <3>3. i \in restored
      BY <1>2, <2>1, <3>1, <3>2
    <3> QED
      BY <3>3 DEF RestoreBackup
  <2> QED
    BY <2>4, <2>5
<1>6. P!Report
  <2>1. result' = "restored" => \A i \in Items : OldPlace(i)' \in {"place", "back"}
    BY <1>1, <1>5 DEF OldPlace
  <2> QED
    BY <1>1, <1>2, <1>3, <1>4, <2>1 DEF Told, P!Report, P!Truthful, P!Tales
<1>7. CASE UNCHANGED <<restored, backup>>
  <2>1. [i \in Items |-> OldPlace(i)]' = [i \in Items |-> OldPlace(i)]
    BY <1>1, <1>7, PlacesKept
  <2>2. P!Tell
    BY <1>1, <1>6, <2>1 DEF P!Tell
  <2> QED
    BY <2>2 DEF P!Next
<1>8. CASE /\ k \in backedUp
           /\ backup' = [backup EXCEPT ![k] = Missing]
           /\ restored' = restored \cup {k}
  <2>1. PICK j \in Items : j = k
    BY <1>t
  <2>2. j \notin restored
    BY <1>2, <1>t, <2>1
  <2>3. OldPlace(j) = "aside"
    BY <1>8, <2>1, <2>2 DEF IInv, BackupHeld, Moving, RestoreBackup, OldPlace
  <2>4. OldPlace(j)' = "back"
    BY <1>8, <2>1 DEF OldPlace
  <2>5. \A i \in Items : i # j => OldPlace(i)' = OldPlace(i)
    BY <1>1, <1>8, <1>t, <2>1 DEF OldPlace, TypeOK
  <2>6. [i \in Items |-> OldPlace(i)]'
          = [[i \in Items |-> OldPlace(i)] EXCEPT ![j] = "back"]
    BY <2>4, <2>5
  <2>7. P!PutBack(j)
    BY <1>1, <1>2, <1>6, <2>3, <2>6 DEF P!PutBack
  <2> QED
    BY <2>7 DEF P!Next
<1> QED
  BY <1>7, <1>8 DEF RestoreBackup

\* Old files are given up one by one after the last new one was moved in.
LEMMA CleanUpRefines == IInv /\ RefInv /\ CleanUp => P!Next \/ UNCHANGED P!vars
<1> SUFFICES ASSUME IInv, RefInv, CleanUp PROVE P!Next \/ UNCHANGED P!vars
  OBVIOUS
<1>t. TypeOK /\ k \in Items
  BY DEF IInv, TypeOK
<1>1. UNCHANGED <<snapshot, restored, backedUp, published>>
  BY DEF CleanUp, obsVars
<1>2. published = Items /\ restored = {}
  BY DEF IInv, Progress, LoopsUp, LoopDown, Recovering, CleanUp
<1>3. Told = "none" /\ result' \in {"none", "ok", "warned"}
  BY DEF RefInv, Silent, Running, CleanUp, Return, Told
<1>4. P!Report
  BY <1>1, <1>2, <1>3 DEF Told, P!Report, P!Truthful, P!Tales
<1>5. PICK j \in Items : j = k
  BY <1>t
<1>6. CASE j \in backedUp /\ backup[j] # Missing /\ backup' = [backup EXCEPT ![k] = Missing]
  <2>1. OldPlace(j) = "aside" /\ OldPlace(j)' = "gone"
    BY <1>1, <1>2, <1>5, <1>6, <1>t DEF OldPlace, TypeOK
  <2>2. \A i \in Items : i # j => OldPlace(i)' = OldPlace(i)
    BY <1>1, <1>5, <1>6, <1>t DEF OldPlace, TypeOK
  <2>3. [i \in Items |-> OldPlace(i)]'
          = [[i \in Items |-> OldPlace(i)] EXCEPT ![j] = "gone"]
    BY <2>1, <2>2
  <2>4. P!GiveUp(j)
    BY <1>1, <1>2, <1>4, <2>1, <2>3 DEF P!GiveUp
  <2> QED
    BY <2>4 DEF P!Next
<1>7. CASE \A i \in Items : OldPlace(i)' = OldPlace(i)
  <2>1. P!Tell
    BY <1>1, <1>4, <1>7 DEF P!Tell
  <2> QED
    BY <2>1 DEF P!Next
<1>8. CASE backup' = [backup EXCEPT ![k] = Missing] /\ (j \notin backedUp \/ backup[j] = Missing)
  <2>1. \A i \in Items : OldPlace(i)' = OldPlace(i)
    BY <1>1, <1>5, <1>8, <1>t DEF OldPlace, TypeOK
  <2> QED
    BY <1>7, <2>1
<1>9. CASE backup' = backup
  <2>1. \A i \in Items : OldPlace(i)' = OldPlace(i)
    BY <1>1, <1>9 DEF OldPlace
  <2> QED
    BY <1>7, <2>1
<1> QED
  BY <1>6, <1>8, <1>9 DEF CleanUp

\* The destructors destroy no old file that was not given up before.
LEMMA DropRefines == IInv /\ RefInv /\ Drop => UNCHANGED P!vars
<1> SUFFICES ASSUME IInv, RefInv, Drop PROVE UNCHANGED P!vars
  OBVIOUS
<1>t. TypeOK
  BY DEF IInv
<1>1. UNCHANGED <<snapshot, restored, backedUp, published, result>>
  BY DEF Drop, obsVars
<1>2. ASSUME NEW i \in Items PROVE OldPlace(i)' = OldPlace(i)
  <2>1. i \in backedUp => i \in restored \/ Settled(i)
    BY DEF RefInv, Swept, Drop
  <2>2. \/ backup'[i] = backup[i]
        \/ i \notin preserve /\ backup'[i] = Missing
    BY DEF Drop, Sweeps
  <2> QED
    BY <1>1, <2>1, <2>2 DEF OldPlace, Settled
<1> QED
  BY <1>1, <1>2 DEF P!vars, Told

\* Every call is a step of the abstract publication or a stutter.
LEMMA NextRefines == IInv /\ RefInv /\ [Next]_vars => [P!Next]_(P!vars)
<1> SUFFICES ASSUME IInv, RefInv, [Next]_vars PROVE P!Next \/ UNCHANGED P!vars
  OBVIOUS
<1> USE DEF fsVars, procVars, obsVars, Seen
<1>1. CASE CheckPaths
  <2>1. CASE result' = "error"
    BY <1>1, <2>1, Refusal DEF CheckPaths, Early, P!Next
  <2>2. CASE result' = result
    BY <1>1, <2>2, Quiet DEF CheckPaths
  <2> QED
    BY <1>1, <2>1, <2>2 DEF CheckPaths, Return
<1>3. CASE WriteStaged
  <2>1. CASE result' = "error"
    BY <1>3, <2>1, Refusal DEF WriteStaged, Early, P!Next
  <2>2. CASE result' = result
    BY <1>3, <2>2, Quiet DEF WriteStaged
  <2> QED
    BY <1>3, <2>1, <2>2 DEF WriteStaged, Return
<1>4. CASE RecheckDestination
  <2>1. CASE result' = "error"
    BY <1>4, <2>1, Refusal DEF RecheckDestination, Early, P!Next
  <2>2. CASE result' = result
    BY <1>4, <2>2, Quiet DEF RecheckDestination
  <2> QED
    BY <1>4, <2>1, <2>2 DEF RecheckDestination, Return
<1>5. CASE InheritPermissions
  <2>1. CASE result' = "error"
    BY <1>5, <2>1, Refusal DEF InheritPermissions, Early, P!Next
  <2>2. CASE result' = result
    BY <1>5, <2>2, Quiet DEF InheritPermissions
  <2> QED
    BY <1>5, <2>1, <2>2 DEF InheritPermissions, Return
<1>6. CASE RemovePublished
  BY <1>6, Quiet DEF RemovePublished
<1>7. CASE Crash
  BY <1>7, Quiet DEF Crash
<1>8. CASE OtherProgram
  BY <1>8, Quiet DEF OtherProgram
<1>9. CASE UNCHANGED vars
  BY <1>9, Quiet DEF vars
<1> QED
  BY <1>1, <1>3, <1>4, <1>5, <1>6, <1>7, <1>8, <1>9, StageRefines, BackUpRefines,
     PublishRefines, RestoreRefines, CleanUpRefines, DropRefines DEF Next, Step, Done

\* At first every old file is in place and nobody has been told anything.
LEMMA InitRefines == Init => P!Init
BY DEF Init, P!Init, OldPlace, Told

\* publish_output_set implements the abstract publication: an old file is given
\* up only after every new one was moved in, nothing is put back after that, and
\* the message agrees with where the old files are, for any number of outputs,
\* any failing calls, any steps of another program and a process death anywhere.
THEOREM Refines == Spec => ImplementsPublication
<1>1. IInv /\ IInv' /\ RefInv /\ RefInv' /\ [Next]_vars => [P!Next]_(P!vars)
  BY NextRefines
<1> QED
  BY <1>1, SafetyInit, SafetyStep, RefInit, RefStep, InitRefines, PTL
     DEF Spec, ImplementsPublication, P!Spec

-----------------------------------------------------------------------------
(***************************************************************************)
(* The outcome                                                             *)
(***************************************************************************)

\* The calls up to the last backup.
NothingIn == Early \cup {"backup"}

\* No destination holds a new file before the first one is moved in.
Before ==
  pc \in NothingIn \/ result = "error" => \A p \in Paths : dest[p].kind # "new"

\* The staged files are the new ones until they are moved in.
StagedNew ==
  /\ pc = "write" => \A i \in Items : i < k => staged[i] = New(i)
  /\ pc \in {"recheck", "inherit", "backup"} => \A i \in Items : staged[i] = New(i)
  /\ pc = "publish" => \A i \in Items : k <= i => staged[i] = New(i)

\* Only old files are moved aside, and all of them before a new one is moved in.
AsideHad ==
  /\ pc \in Moving \cup {"cleanup", "drop", "done"} => backedUp \subseteq Had
  /\ pc \in Moving /\ published # {} => backedUp = Had

\* The recovery is past output i.
Undone(i) == pc \in Recovering /\ k < i

\* What the calls have left at the destination of output i, before its recovery.
Standing(i) ==
  IF i \in published
    THEN \/ dest[target[i]] = New(i) /\ (pc = "restore" /\ i = k => i \in recErr)
         \/ dest[target[i]] = Missing /\ pc = "restore" /\ i = k
    ELSE dest[target[i]] = IF i \in backedUp THEN Missing ELSE snapshot[i]

\* And after it.
Recovered(i) ==
  \/ dest[target[i]] = snapshot[i]
  \/ i \in recErr /\ snapshot[i] = Missing /\ dest[target[i]] = New(i)
  \/ i \in recErr \cap preserve /\ backup[i] = snapshot[i]

Placed ==
  \A i \in Items : Mine(i) =>
    /\ pc \in Moving /\ ~Undone(i) => Standing(i)
    /\ Undone(i) => Recovered(i)
    /\ pc = "cleanup" => dest[target[i]] = New(i)
    /\ pc \in {"drop", "done"} =>
         /\ result = "restored" => dest[target[i]] = snapshot[i]
         /\ result = "incomplete" => Recovered(i)
         /\ result \in {"ok", "warned"} => dest[target[i]] = New(i)

\* What the message is.
Answered ==
  /\ pc \in NothingIn \cup {"publish"} => recErr = {}
  /\ pc \in {"drop", "done"} =>
       /\ result # "none"
       /\ result = "error" => backedUp = {}
       /\ recErr # {} => result \in {"incomplete", "warned"}

OutcomeInv ==
  IInv /\ RefInv /\ Before /\ StagedNew /\ AsideHad /\ Placed /\ Answered

\* A backup is that of an output that was not put back, and a workspace that is
\* to outlive the command still exists.
Held ==
  /\ \A i \in Items : backup[i] # Missing => i \in backedUp \ restored
  /\ pc \in {"cleanup", "drop", "done"} => preserve \subseteq workspace
  /\ pc = "cleanup" => /\ \A i \in preserve : i < k
                       /\ \A i \in Items : k <= i => i \in workspace
  /\ pc = "cleanup" /\ faults = 0 => preserve = {}
  /\ pc \in {"drop", "done"} /\ faults = 0 /\ result # "incomplete" => preserve = {}
  /\ WorkspacesAreAccountedFor

-----------------------------------------------------------------------------
\* A new file is no old one, and no destination is left without one by a mistake.
LEMMA VersionsDiffer ==
  /\ Missing.kind = "missing" /\ Unsafe.kind = "unsafe"
  /\ \A d \in Nat : New(d).kind = "new" /\ Old(d).kind = "old" /\ Ext(d).kind = "ext"
BY DEF Missing, Unsafe, New, Old, Ext

\* Before is kept.
LEMMA BeforeStep == OutcomeInv /\ [Next]_vars => Before'
<1> SUFFICES ASSUME OutcomeInv, [Next]_vars PROVE Before'
  OBVIOUS
<1>t. TypeOK /\ TypeOK'
  BY TypeStep DEF OutcomeInv, IInv
<1> USE VersionsDiffer
<1> USE DEF fsVars, procVars, obsVars, NothingIn, Early, Moving, OutcomeInv, RefInv, Silent,
         Running
<1>0. Here \in Paths /\ k \in Items
  BY <1>t DEF TypeOK, Here
<1>1. CASE CheckPaths
  BY <1>1 DEF Before, CheckPaths, Return
<1>2. CASE Stage
  BY <1>2 DEF Before, Stage, Return, Advance
<1>3. CASE WriteStaged
  BY <1>3 DEF Before, WriteStaged, Return, Advance
<1>4. CASE RecheckDestination
  BY <1>4 DEF Before, RecheckDestination, Return, Advance, Recheck
<1>5. CASE InheritPermissions
  BY <1>5 DEF Before, InheritPermissions, Return, Advance
<1>6. CASE BackUp
  BY <1>6, <1>t, <1>0 DEF Before, BackUp, Recover, Advance, TypeOK
<1>7. CASE Publish
  BY <1>7 DEF Before, Publish, Recover, Advance
<1>8. CASE RemovePublished
  BY <1>8 DEF Before, RemovePublished
<1>9. CASE RestoreBackup
  BY <1>9 DEF Before, RestoreBackup, StepDown, Return
<1>10. CASE CleanUp
  BY <1>10 DEF Before, CleanUp, Return
<1>11. CASE Drop
  BY <1>11 DEF Before, Drop
<1>12. CASE Crash
  BY <1>12 DEF Before, Crash
<1>13. CASE OtherProgram
  <2>1. ext + 1 \in Nat
    BY <1>t, BoundsAssumption DEF TypeOK
  <2>2. PICK p \in Paths, v \in {Missing, Unsafe, Ext(ext + 1)} : dest' = [dest EXCEPT ![p] = v]
    BY <1>13 DEF OtherProgram
  <2>3. v.kind # "new"
    BY <2>1, <2>2
  <2>4. \A q \in Paths : dest[q].kind # "new" => dest'[q].kind # "new"
    BY <1>t, <2>2, <2>3 DEF TypeOK
  <2> QED
    BY <1>13, <2>4 DEF Before, OtherProgram
<1>14. CASE UNCHANGED vars
  BY <1>14 DEF Before, vars
<1> QED
  BY <1>1, <1>2, <1>3, <1>4, <1>5, <1>6, <1>7, <1>8, <1>9, <1>10, <1>11,
     <1>12, <1>13, <1>14 DEF Next, Step, Done

\* So are the staged files and the message.
LEMMA StagedStep == OutcomeInv /\ [Next]_vars => StagedNew' /\ Answered'
<1> SUFFICES ASSUME OutcomeInv, [Next]_vars PROVE StagedNew' /\ Answered'
  OBVIOUS
<1>t. TypeOK /\ TypeOK'
  BY TypeStep DEF OutcomeInv, IInv
<1>k. k \in Nat /\ Items \subseteq Nat /\ k \in Items
  BY <1>t, ItemFacts DEF TypeOK
<1>e. pc \in Early => backedUp = {} /\ recErr = {}
  BY EarlyFacts DEF OutcomeInv, Answered, NothingIn
<1> USE DEF fsVars, procVars, obsVars, Early, Moving, OutcomeInv, NothingIn
<1>1. CASE CheckPaths
  BY <1>1, <1>e DEF StagedNew, Answered, CheckPaths, Return
<1>2. CASE Stage
  BY <1>2, <1>e, <1>k, ItemFacts DEF StagedNew, Answered, Stage, Return, Advance
<1>3. CASE WriteStaged
  <2>1. Answered'
    BY <1>3, <1>e DEF Answered, WriteStaged, Return, Advance
  <2>2. CASE pc' = "drop"
    BY <2>1, <2>2 DEF StagedNew
  <2>3. CASE pc' # "drop"
    <3>1. staged' = [staged EXCEPT ![k] = New(k)] /\ Advance("recheck")
      BY <1>3, <2>3 DEF WriteStaged, Return
    <3>2. \A i \in Items : i <= k => staged'[i] = New(i)
      <4> SUFFICES ASSUME NEW i \in Items, i <= k PROVE staged'[i] = New(i)
        OBVIOUS
      <4>1. CASE i = k
        BY <1>t, <3>1, <4>1 DEF TypeOK
      <4>2. CASE i # k
        <5>1. i < k
          BY <1>k, <4>2
        <5> QED
          BY <1>3, <1>t, <3>1, <4>2, <5>1 DEF StagedNew, WriteStaged, TypeOK
      <4> QED
        BY <4>1, <4>2
    <3>3. CASE k = N
      BY <2>1, <3>1, <3>2, <3>3, ItemFacts DEF StagedNew, Advance
    <3>4. CASE k # N
      <4>1. pc' = "write" /\ k' = k + 1
        BY <1>3, <3>1, <3>4 DEF WriteStaged, Advance
      <4>2. \A i \in Items : i < k + 1 => i <= k
        BY <1>k
      <4> QED
        BY <2>1, <3>2, <4>1, <4>2 DEF StagedNew
    <3> QED
      BY <3>3, <3>4
  <2> QED
    BY <2>2, <2>3
<1>4. CASE RecheckDestination
  BY <1>4, <1>e DEF StagedNew, Answered, RecheckDestination, Return, Advance, Recheck
<1>5. CASE InheritPermissions
  BY <1>5, <1>e DEF StagedNew, Answered, InheritPermissions, Return, Advance
<1>6. CASE BackUp
  BY <1>6 DEF StagedNew, Answered, BackUp, Recover, Advance
<1>7. CASE Publish
  <2>1. Answered'
    BY <1>7 DEF Answered, Publish, Recover, Advance
  <2>2. pc' = "publish" => k' = k + 1 /\ staged' = [staged EXCEPT ![k] = Missing]
    BY <1>7 DEF Publish, Recover, Advance
  <2>3. \A i \in Items : k + 1 <= i => k <= i /\ i # k
    BY <1>k
  <2>4. pc' = "publish" => \A i \in Items : k + 1 <= i => staged'[i] = New(i)
    BY <1>7, <1>t, <2>2, <2>3 DEF StagedNew, Publish, TypeOK
  <2> QED
    BY <1>7, <2>1, <2>2, <2>4 DEF StagedNew, Publish, Recover, Advance
<1>8. CASE RemovePublished
  BY <1>8 DEF StagedNew, Answered, RemovePublished
<1>9. CASE RestoreBackup
  BY <1>9 DEF StagedNew, Answered, RestoreBackup, StepDown, Return
<1>10. CASE CleanUp
  BY <1>10 DEF StagedNew, Answered, CleanUp, Return
<1>11. CASE Drop
  BY <1>11 DEF StagedNew, Answered, Drop
<1>12. CASE Crash
  BY <1>12 DEF StagedNew, Answered, Crash
<1>13. CASE OtherProgram
  BY <1>13 DEF StagedNew, Answered, OtherProgram
<1>14. CASE UNCHANGED vars
  BY <1>14 DEF StagedNew, Answered, vars
<1> QED
  BY <1>1, <1>2, <1>3, <1>4, <1>5, <1>6, <1>7, <1>8, <1>9, <1>10, <1>11,
     <1>12, <1>13, <1>14 DEF Next, Step, Done

\* Only old files are moved aside.
LEMMA AsideStep == OutcomeInv /\ [Next]_vars => AsideHad'
<1> SUFFICES ASSUME OutcomeInv, [Next]_vars PROVE AsideHad'
  OBVIOUS
<1>t. TypeOK /\ TypeOK'
  BY TypeStep DEF OutcomeInv, IInv
<1>e. pc \in Early => backedUp = {} /\ published = {}
  BY EarlyFacts DEF OutcomeInv
<1> USE DEF fsVars, procVars, obsVars, Early, Moving, OutcomeInv, Had
<1>1. CASE CheckPaths
  BY <1>1, <1>e DEF AsideHad, CheckPaths, Return
<1>2. CASE Stage
  BY <1>2, <1>e DEF AsideHad, Stage, Return, Advance
<1>3. CASE WriteStaged
  BY <1>3, <1>e DEF AsideHad, WriteStaged, Return, Advance
<1>4. CASE RecheckDestination
  BY <1>4, <1>e DEF AsideHad, RecheckDestination, Return, Advance, Recheck
<1>5. CASE InheritPermissions
  BY <1>5, <1>e DEF AsideHad, InheritPermissions, Return, Advance
<1>6. CASE BackUp
  <2>1. published = {} /\ published' = {}
    BY <1>6 DEF IInv, Progress, LoopsUp, BackUp
  <2> QED
    BY <1>6, <1>t, <2>1 DEF AsideHad, BackUp, Recover, Advance, TypeOK
<1>7. CASE Publish
  BY <1>7 DEF AsideHad, Publish, Recover, Advance, RefInv, AsideSoFar
<1>8. CASE RemovePublished
  BY <1>8 DEF AsideHad, RemovePublished
<1>9. CASE RestoreBackup
  BY <1>9 DEF AsideHad, RestoreBackup, StepDown, Return
<1>10. CASE CleanUp
  BY <1>10 DEF AsideHad, CleanUp, Return
<1>11. CASE Drop
  BY <1>11 DEF AsideHad, Drop
<1>12. CASE Crash
  BY <1>12 DEF AsideHad, Crash
<1>13. CASE OtherProgram
  BY <1>13 DEF AsideHad, OtherProgram
<1>14. CASE UNCHANGED vars
  BY <1>14 DEF AsideHad, vars
<1> QED
  BY <1>1, <1>2, <1>3, <1>4, <1>5, <1>6, <1>7, <1>8, <1>9, <1>10, <1>11,
     <1>12, <1>13, <1>14 DEF Next, Step, Done

\* What stands at a destination is what the calls have left there.
LEMMA PlacedStep == OutcomeInv /\ [Next]_vars => Placed'
<1> SUFFICES ASSUME OutcomeInv, [Next]_vars PROVE Placed'
  OBVIOUS
<1>t. TypeOK /\ TypeOK'
  BY TypeStep DEF OutcomeInv, IInv
<1>k. k \in Nat /\ Items \subseteq Nat /\ k \in Items
  BY <1>t, ItemFacts DEF TypeOK
<1> USE DEF fsVars, procVars, obsVars, Moving, Recovering, OutcomeInv, Mine
<1>d. pc \in Moving \cup {"cleanup"} => \A i \in Items : target[i] = Here => i = k
  BY <1>k DEF IInv, Distinct, Here
<1>h. Here \in Paths
  BY <1>t DEF TypeOK, Here
<1>0. CASE pc' \in Early \cup {"crashed"}
  BY <1>0 DEF Placed, Early, Undone
<1>e. ASSUME pc \in Early, pc' = "drop", result' = "error" PROVE Placed'
  BY <1>e DEF Placed, Undone
<1>1. CASE CheckPaths
  BY <1>0, <1>1, <1>e DEF CheckPaths, Return, Early
<1>2. CASE Stage
  BY <1>0, <1>2, <1>e DEF Stage, Return, Advance, Early
<1>3. CASE WriteStaged
  BY <1>0, <1>3, <1>e DEF WriteStaged, Return, Advance, Early
<1>4. CASE RecheckDestination
  BY <1>0, <1>4, <1>e DEF RecheckDestination, Return, Advance, Early
<1>5. CASE InheritPermissions
  <2>1. CASE pc' = "backup"
    <3>1. backedUp = {} /\ published = {}
      BY <1>5, EarlyFacts DEF InheritPermissions, Early
    <3>2. \A i \in Items : Mine(i) => dest[target[i]] = snapshot[i]
      BY <1>5 DEF IInv, SnapshotFresh, InheritPermissions
    <3> QED
      BY <1>5, <2>1, <3>1, <3>2 DEF Placed, Standing, Undone, InheritPermissions
  <2> QED
    BY <1>0, <1>5, <1>e, <2>1 DEF InheritPermissions, Return, Advance, Early
<1>6. CASE BackUp
  <2>1. published = {} /\ result = "none"
    BY <1>6 DEF IInv, Progress, LoopsUp, BackUp, RefInv, Silent, Running
  <2>2. pc' \in {"backup", "publish"} \/ (pc' = "remove" /\ k' = N)
    BY <1>6 DEF BackUp, Recover, Advance
  <2>3. ASSUME NEW i \in Items, Mine(i) PROVE Standing(i)' /\ ~Undone(i)'
    <3>1. Standing(i)
      BY <1>6, <2>3 DEF Placed, Undone, BackUp
    <3>2. Standing(i)'
      <4>1. CASE UNCHANGED <<dest, backedUp>>
        BY <1>6, <2>1, <3>1, <4>1 DEF BackUp, Standing
      <4>2. CASE dest' = [dest EXCEPT ![Here] = Missing] /\ backedUp' = backedUp \cup {k}
        <5>1. CASE i = k
          BY <1>6, <1>t, <1>h, <2>1, <4>2, <5>1 DEF BackUp, Standing, Here, TypeOK
        <5>2. CASE i # k
          BY <1>6, <1>t, <1>d, <2>1, <3>1, <4>2, <5>2 DEF BackUp, Standing, TypeOK
        <5> QED
          BY <5>1, <5>2
      <4> QED
        BY <1>6, <4>1, <4>2 DEF BackUp
    <3> QED
      BY <1>k, <2>2, <3>2, ItemFacts DEF Undone
  <2> QED
    BY <1>6, <2>2, <2>3 DEF Placed, BackUp
<1>7. CASE Publish
  <2>2. pc' \in {"publish", "cleanup"} \/ (pc' = "remove" /\ k' = N)
    BY <1>7 DEF Publish, Recover, Advance
  <2>3. ASSUME NEW i \in Items, Mine(i)
        PROVE  Standing(i)' /\ ~Undone(i)'
    <3>1. Standing(i)
      BY <1>7, <2>3 DEF Placed, Undone, Publish
    <3>2. Standing(i)'
      <4>1. CASE UNCHANGED <<dest, published>>
        BY <1>7, <2>2, <3>1, <4>1 DEF Publish, Standing
      <4>2. CASE dest' = [dest EXCEPT ![Here] = staged[k]] /\ published' = published \cup {k}
        <5>0. staged[k] = New(k)
          BY <1>7, <1>k DEF StagedNew, Publish
        <5>1. CASE i = k
          BY <1>7, <1>t, <1>h, <2>2, <4>2, <5>0, <5>1 DEF Publish, Standing, Here, TypeOK
        <5>2. CASE i # k
          BY <1>7, <1>t, <1>d, <2>2, <3>1, <4>2, <5>2 DEF Publish, Standing, TypeOK
        <5> QED
          BY <5>1, <5>2
      <4> QED
        BY <1>7, <4>1, <4>2 DEF Publish
    <3> QED
      BY <1>k, <2>2, <3>2, ItemFacts DEF Undone
  <2>4. pc' = "cleanup" => published' = Items
    BY SafetyStep DEF IInv, Progress, LoopsUp
  <2> QED
    BY <1>7, <2>2, <2>3, <2>4 DEF Placed, Publish, Standing
<1>8. CASE RemovePublished
  <2>1. recErr \subseteq recErr' /\ pc' = "restore" /\ pc = "remove" /\ k' = k
        /\ UNCHANGED <<target, backup, backedUp, published, snapshot, preserve, disturbed>>
    BY <1>8 DEF RemovePublished
  <2>2. ASSUME NEW i \in Items, Mine(i)
        PROVE  (~Undone(i) => Standing(i)') /\ (Undone(i) => Recovered(i)')
    <3>1. CASE i = k
      <4>1. Standing(k)
        BY <1>8, <1>k, <2>2, <3>1 DEF Placed, Undone, RemovePublished
      <4>2. CASE k \in published /\ dest' = [dest EXCEPT ![Here] = Missing]
        BY <1>t, <1>k, <1>h, <2>1, <3>1, <4>2 DEF Standing, Here, TypeOK, Undone
      <4>3. CASE k \in published /\ recErr' = recErr \cup {k} /\ dest' = dest
        BY <1>k, <2>1, <3>1, <4>1, <4>3 DEF Standing, Undone
      <4>4. CASE k \notin published /\ UNCHANGED <<dest, recErr>>
        BY <1>k, <2>1, <3>1, <4>1, <4>4 DEF Standing, Undone
      <4> QED
        BY <1>8, <1>k, <3>1, <4>2, <4>3, <4>4 DEF RemovePublished, Undone
    <3>2. CASE i # k
      <4>1. dest'[target[i]] = dest[target[i]]
        BY <1>8, <1>t, <1>d, <3>2 DEF RemovePublished, TypeOK
      <4>2. (~Undone(i) => Standing(i)) /\ (Undone(i) => Recovered(i))
        BY <2>1, <2>2 DEF Placed
      <4> QED
        BY <2>1, <3>2, <4>1, <4>2 DEF Standing, Recovered
    <3> QED
      BY <3>1, <3>2
  <2> QED
    BY <2>1, <2>2 DEF Placed, Undone
<1>9. CASE RestoreBackup
  <2>0. UNCHANGED <<target, backedUp, published, snapshot, disturbed>>
        /\ recErr \subseteq recErr' /\ preserve \subseteq preserve' /\ pc = "restore"
        /\ result = "none"
    BY <1>9 DEF RestoreBackup, RefInv, Silent, Running
  <2>1. ASSUME NEW i \in Items, Mine(i), i = k PROVE Recovered(i)'
    <3>0. Standing(i)
      BY <1>k, <2>0, <2>1 DEF Placed, Undone
    <3>1. CASE k \in backedUp /\ dest' = [dest EXCEPT ![Here] = backup[k]]
      <4>1. k \notin restored
        BY <1>k, <2>0 DEF IInv, Progress, LoopDown
      <4>2. backup[k] = snapshot[k]
        BY <2>0, <2>1, <3>1, <4>1 DEF IInv, BackupHeld
      <4>3. dest'[target[i]] = snapshot[i]
        BY <1>t, <1>h, <2>1, <3>1, <4>2 DEF Here, TypeOK
      <4> QED
        BY <2>0, <4>3 DEF Recovered
    <3>2. CASE k \in backedUp /\ k \in preserve' /\ k \in recErr' /\ backup' = backup
      <4>1. k \notin restored
        BY <1>k, <2>0 DEF IInv, Progress, LoopDown
      <4>2. backup[k] = snapshot[k]
        BY <2>0, <2>1, <3>2, <4>1 DEF IInv, BackupHeld
      <4> QED
        BY <2>0, <2>1, <3>2, <4>2 DEF Recovered
    <3>3. CASE k \notin backedUp /\ UNCHANGED <<dest, recErr>>
      <4>1. i \in published => snapshot[i] = Missing
        BY <2>0, <2>1, <3>3 DEF AsideHad, Had
      <4> QED
        BY <2>0, <2>1, <3>0, <3>3, <4>1 DEF Standing, Recovered
    <3> QED
      BY <1>9, <3>1, <3>2, <3>3 DEF RestoreBackup
  <2>2. ASSUME NEW i \in Items, i # k
        PROVE  dest'[target[i]] = dest[target[i]] /\ backup'[i] = backup[i]
    BY <1>9, <1>t, <1>d, <2>2 DEF RestoreBackup, TypeOK
  <2>3. ASSUME NEW i \in Items, Mine(i), k < i PROVE Recovered(i)'
    <3>1. Recovered(i) /\ i # k
      BY <1>k, <2>0, <2>3 DEF Placed, Undone
    <3> QED
      BY <2>0, <2>2, <3>1 DEF Recovered
  <2>4. ASSUME NEW i \in Items, Mine(i), i < k, pc' = "remove" PROVE Standing(i)'
    <3>1. Standing(i) /\ i # k
      BY <1>k, <2>0, <2>4 DEF Placed, Undone
    <3> QED
      BY <2>0, <2>2, <2>4, <3>1 DEF Standing
  <2>5. CASE pc' = "remove"
    <3>1. k' = k - 1
      BY <1>9, <2>5 DEF RestoreBackup, StepDown, Return
    <3>2. \A i \in Items : (k - 1 < i <=> k <= i) /\ (k <= i <=> i = k \/ k < i)
                            /\ (i < k <=> ~(k <= i))
      BY <1>k
    <3> QED
      BY <2>0, <2>1, <2>3, <2>4, <2>5, <3>1, <3>2 DEF Placed, Undone
  <2>6. CASE pc' = "drop"
    <3>1. k = 1 /\ result' = IF recErr' # {} THEN "incomplete" ELSE "restored"
      BY <1>9, <2>6 DEF RestoreBackup, StepDown, Return
    <3>2. \A i \in Items : i = k \/ k < i
      BY <1>k, <3>1, ItemFacts
    <3>3. \A i \in Items : Mine(i) => Recovered(i)'
      BY <2>1, <2>3, <3>2
    <3>4. \A i \in Items : Mine(i) /\ recErr' = {} => dest'[target'[i]] = snapshot'[i]
      BY <3>3 DEF Recovered
    <3> QED
      BY <2>0, <2>6, <3>1, <3>3, <3>4 DEF Placed, Undone
  <2> QED
    BY <1>9, <2>5, <2>6 DEF RestoreBackup, StepDown, Return
<1>10. CASE CleanUp
  BY <1>10 DEF Placed, CleanUp, Return, Undone
<1>11. CASE Drop
  <2>1. \A i \in Items : i \in preserve => backup'[i] = backup[i]
    BY <1>11, <1>t DEF Drop, Sweeps, TypeOK
  <2> QED
    BY <1>11, <2>1 DEF Placed, Drop, Undone, Recovered
<1>13. CASE OtherProgram
  <2>1. CASE pc \in Early
    BY <1>0, <1>13, <2>1 DEF OtherProgram
  <2>2. CASE pc \notin Early
    <3>1. ASSUME NEW i \in Items, Mine(i)' PROVE Mine(i) /\ dest'[target[i]] = dest[target[i]]
      BY <1>13, <1>t, <2>2, <3>1 DEF OtherProgram, Rechecked, TypeOK, PCs, Early
    <3> QED
      BY <1>13, <3>1 DEF Placed, OtherProgram, Undone, Standing, Recovered
  <2> QED
    BY <2>1, <2>2
<1>14. CASE UNCHANGED vars
  BY <1>14 DEF Placed, vars, Undone, Standing, Recovered
<1> QED
  BY <1>0, <1>1, <1>2, <1>3, <1>4, <1>5, <1>6, <1>7, <1>8, <1>9, <1>10, <1>11,
     <1>13, <1>14 DEF Next, Step, Done, Crash

\* Backups and workspaces are accounted for.
LEMMA HeldStep == OutcomeInv /\ Held /\ [Next]_vars => Held'
<1> SUFFICES ASSUME OutcomeInv, Held, [Next]_vars PROVE Held'
  OBVIOUS
<1>t. TypeOK /\ TypeOK' /\ k \in Items
  BY TypeStep DEF OutcomeInv, IInv, TypeOK
<1>n. faults \in Nat /\ faults' \in Nat
  BY <1>t, BoundsAssumption DEF TypeOK
<1>r. preserve \subseteq recErr /\ preserve' \subseteq recErr'
  BY RefStep DEF OutcomeInv, RefInv, Reported
<1> USE DEF fsVars, procVars, obsVars, OutcomeInv, WorkspacesAreAccountedFor
<1>p. pc \in NothingIn \cup {"publish"} => preserve = {} /\ restored = {}
  BY <1>r DEF Answered, IInv, Progress, LoopDown, Recovering, NothingIn, Early
<1>1. CASE CheckPaths
  BY <1>1, <1>p DEF Held, CheckPaths, Return, NothingIn, Early
<1>2. CASE Stage
  BY <1>2, <1>p DEF Held, Stage, Return, Advance, NothingIn, Early
<1>3. CASE WriteStaged
  BY <1>3, <1>p DEF Held, WriteStaged, Return, Advance, NothingIn, Early
<1>4. CASE RecheckDestination
  BY <1>4, <1>p DEF Held, RecheckDestination, Return, Advance, NothingIn, Early
<1>5. CASE InheritPermissions
  BY <1>5, <1>p DEF Held, InheritPermissions, Return, Advance, NothingIn, Early
<1>6. CASE BackUp
  <2>1. pc' \notin {"cleanup", "drop", "done"}
    BY <1>6 DEF BackUp, Recover, Advance
  <2>2. \A i \in Items : backup'[i] # Missing => i \in backedUp' \ restored'
    BY <1>6, <1>p, <1>t DEF Held, BackUp, TypeOK, NothingIn
  <2> QED
    BY <2>1, <2>2 DEF Held
<1>7. CASE Publish
  <2>1. pc' \notin {"drop", "done"}
    BY <1>7 DEF Publish, Recover, Advance
  <2>2. workspace = Items
    BY <1>7 DEF IInv, BackupHeld, Moving, Publish
  <2> QED
    BY <1>7, <1>p, <2>1, <2>2 DEF Held, Publish
<1>8. CASE RemovePublished
  BY <1>8 DEF Held, RemovePublished
<1>9. CASE RestoreBackup
  <2>1. \A i \in Items : backup'[i] # Missing => i \in backedUp' \ restored'
    BY <1>9, <1>t DEF Held, RestoreBackup, TypeOK
  <2>2. workspace = Items
    BY <1>9 DEF IInv, BackupHeld, Moving, RestoreBackup
  <2>3. pc' = "remove" \/ (pc' = "drop" /\ (result' = "incomplete" \/ recErr' = {}))
    BY <1>9 DEF RestoreBackup, StepDown, Return
  <2> QED
    BY <1>9, <1>r, <1>t, <2>1, <2>2, <2>3 DEF Held, RestoreBackup, TypeOK
<1>10. CASE CleanUp
  <2>1. \A i \in Items : backup'[i] # Missing => i \in backedUp' \ restored'
    BY <1>10, <1>t DEF Held, CleanUp, TypeOK
  <2>2. faults' = 0 => faults = 0 /\ preserve' = preserve
    BY <1>10, <1>n DEF CleanUp, Fault
  <2>3. preserve' \subseteq workspace'
    <3>1. k \notin preserve /\ preserve \subseteq workspace /\ k \in workspace
      BY <1>10, <1>t, ItemFacts DEF Held, CleanUp
    <3> QED
      BY <1>10, <1>t, <3>1 DEF CleanUp, TypeOK
  <2>4. pc' \in {"cleanup", "drop"}
    BY <1>10 DEF CleanUp, Return
  <2>5. pc' = "cleanup" => /\ \A i \in preserve' : i < k'
                           /\ \A i \in Items : k' <= i => i \in workspace'
    <3>1. pc' = "cleanup" => k' = k + 1
      BY <1>10 DEF CleanUp, Return
    <3>2. \A i \in preserve : i < k /\ i \in Items
      BY <1>10, <1>t DEF Held, CleanUp, TypeOK
    <3>3. preserve' \subseteq preserve \cup {k}
      BY <1>10 DEF CleanUp
    <3>4. k \in Nat /\ Items \subseteq Nat
      BY <1>t, ItemFacts
    <3>5. workspace \ {k} \subseteq workspace' /\ \A i \in Items : k <= i => i \in workspace
      BY <1>10 DEF Held, CleanUp
    <3>6. ASSUME pc' = "cleanup", NEW i \in preserve' PROVE i < k + 1
      <4>1. i = k \/ (i \in Items /\ i < k)
        BY <3>2, <3>3, <3>6
      <4>2. i \in Nat
        BY <3>4, <4>1
      <4> QED
        BY <3>4, <4>1, <4>2
    <3>7. ASSUME pc' = "cleanup", NEW i \in Items, k + 1 <= i PROVE i \in workspace'
      <4>1. k <= i /\ i # k
        BY <3>4, <3>7
      <4> QED
        BY <3>5, <4>1
    <3> QED
      BY <3>1, <3>6, <3>7
  <2> QED
    BY <1>10, <2>1, <2>2, <2>3, <2>4, <2>5 DEF Held, CleanUp
<1>11. CASE Drop
  <2>1. PICK left \in SUBSET Items :
          /\ IF left = {} THEN faults' = faults ELSE Fault
          /\ workspace' = workspace \ {i \in Items \ left : i \notin preserve}
          /\ staged' = [i \in Items |-> IF i \in Items \ left /\ i \notin preserve
                                       THEN Missing ELSE staged[i]]
          /\ backup' = [i \in Items |-> IF i \in Items \ left /\ i \notin preserve
                                       THEN Missing ELSE backup[i]]
    BY <1>11 DEF Drop, Sweeps
  <2>2. UNCHANGED <<preserve, backedUp, restored, recErr, result>> /\ pc = "drop" /\ pc' = "done"
    BY <1>11 DEF Drop
  <2>3. faults' = 0 => faults = 0 /\ left = {}
    BY <1>n, <2>1 DEF Fault
  <2>4. ASSUME NEW i \in Items, backup'[i] # Missing
        PROVE  i \in workspace' /\ i \in preserve /\ i \in backedUp \ restored
               /\ result \in {"incomplete", "warned"}
    <3>1. backup[i] # Missing
      BY <2>1, <2>4
    <3>2. i \in backedUp \ restored
      BY <3>1 DEF Held
    <3>3. i \in preserve
      BY <2>2, <3>1, <3>2 DEF RefInv, Swept, Settled
    <3>4. i \in workspace
      BY <2>2, <3>3 DEF Held
    <3>5. result \in {"incomplete", "warned"}
      BY <1>r, <2>2, <3>3 DEF Answered
    <3> QED
      BY <2>1, <3>2, <3>3, <3>4, <3>5
  <2>5. faults' = 0 /\ result # "incomplete"
          => workspace' = {} /\ \A i \in Items : staged'[i] = Missing
    BY <1>t, <2>1, <2>2, <2>3 DEF Held, TypeOK
  <2>6. preserve \subseteq workspace'
    BY <2>1, <2>2 DEF Held
  <2> QED
    BY <2>2, <2>3, <2>4, <2>5, <2>6 DEF Held
<1>12. CASE Crash
  BY <1>12 DEF Held, Crash
<1>13. CASE OtherProgram
  BY <1>13 DEF Held, OtherProgram
<1>14. CASE UNCHANGED vars
  BY <1>14 DEF Held, vars
<1> QED
  BY <1>1, <1>2, <1>3, <1>4, <1>5, <1>6, <1>7, <1>8, <1>9, <1>10, <1>11,
     <1>12, <1>13, <1>14 DEF Next, Step, Done

\* Nothing was staged, moved or said at first.
LEMMA OutcomeInit == Init => OutcomeInv /\ Held
<1> SUFFICES ASSUME Init PROVE OutcomeInv /\ Held
  OBVIOUS
<1>1. IInv /\ RefInv
  BY SafetyInit, RefInit
<1>2. Before
  BY PathsAssumption, VersionsDiffer DEF Init, Before
<1> QED
  BY <1>1, <1>2 DEF Init, OutcomeInv, StagedNew, AsideHad, Placed, Answered, Undone, Held,
     WorkspacesAreAccountedFor, Moving, Recovering

\* Every step keeps all of it.
LEMMA OutcomeStep == OutcomeInv /\ Held /\ [Next]_vars => OutcomeInv' /\ Held'
BY SafetyStep, RefStep, BeforeStep, StagedStep, AsideStep, PlacedStep, HeldStep
   DEF OutcomeInv

-----------------------------------------------------------------------------
\* What the caller is told is true of the disk: "restored" is every old file in
\* place, success every new one, and an incomplete recovery leaves each output
\* old, or new where there was nothing, or missing with its old file kept; for
\* any number of outputs and any faults, wherever nobody else wrote.
THEOREM OutcomeTrue == Spec => []OutcomeIsTrue
<1>1. OutcomeInv => OutcomeIsTrue
  <2> SUFFICES ASSUME OutcomeInv, pc = "done", NEW i \in Items, Mine(i)
               PROVE  CASE result = "restored" -> dest[target[i]] = snapshot[i]
                        [] result \in {"ok", "warned"} -> dest[target[i]] = New(i)
                        [] result = "incomplete" ->
                             \/ dest[target[i]] = snapshot[i]
                             \/ snapshot[i] = Missing /\ dest[target[i]] = New(i)
                             \/ i \in preserve /\ backup[i] = snapshot[i]
                        [] OTHER -> i \notin backedUp /\ dest[target[i]] # New(i)
    BY DEF OutcomeIsTrue
  <2>1. result \in {"error", "restored", "incomplete", "ok", "warned"}
    BY DEF OutcomeInv, Answered, IInv, TypeOK, Results
  <2>2. CASE result = "error"
    <3>1. backedUp = {}
      BY <2>2 DEF OutcomeInv, Answered
    <3>2. target[i] \in Paths /\ i \in Nat
      BY ItemFacts DEF OutcomeInv, IInv, TypeOK
    <3>3. dest[target[i]].kind # "new"
      BY <2>2, <3>2 DEF OutcomeInv, Before
    <3>4. dest[target[i]] # New(i)
      BY <3>2, <3>3, VersionsDiffer
    <3> QED
      BY <2>2, <3>1, <3>4
  <2>3. CASE result = "restored"
    BY <2>3 DEF OutcomeInv, Placed
  <2>4. CASE result = "incomplete"
    BY <2>4 DEF OutcomeInv, Placed, Recovered
  <2>5. CASE result \in {"ok", "warned"}
    BY <2>5 DEF OutcomeInv, Placed
  <2> QED
    BY <2>1, <2>2, <2>3, <2>4, <2>5
<1> QED
  BY <1>1, OutcomeInit, OutcomeStep, PTL DEF Spec

\* A workspace that outlives the command holds a backup the message speaks of, or
\* is there because a call failed, for any number of outputs and faults.
THEOREM WorkspacesAccounted == Spec => []WorkspacesAreAccountedFor
<1>1. Held => WorkspacesAreAccountedFor
  BY DEF Held
<1> QED
  BY <1>1, OutcomeInit, OutcomeStep, PTL DEF Spec

\* The command replaces or moves only what it looked at, what it put there
\* itself, or what somebody wrote after the recheck, whatever fails.
THEOREM NothingStaleReplaced == Spec => NoStaleOverwrite
<1>1. ASSUME OutcomeInv, [Next]_vars, ext' = ext, NEW p \in Paths, dest'[p] # dest[p]
      PROVE  \E i \in Items :
               /\ target[i] = p
               /\ p \in disturbed \/ dest[p] \in {snapshot[i], New(i), Missing}
  <2>t. TypeOK /\ k \in Items /\ k \in Nat
    BY <1>1, ItemFacts DEF OutcomeInv, IInv, TypeOK
  <2>1. pc \in Moving /\ p = Here
    BY <1>1, <2>t DEF Next, Step, Done, CheckPaths, Stage, WriteStaged, RecheckDestination,
       InheritPermissions, BackUp, Publish, RemovePublished, RestoreBackup, CleanUp, Drop,
       Crash, OtherProgram, vars, fsVars, Moving, TypeOK
  <2>2. CASE ~Mine(k)
    BY <2>1, <2>2, <2>t DEF Mine, Here
  <2>3. CASE Mine(k)
    <3>1. Standing(k)
      BY <1>1, <2>1, <2>3, <2>t DEF OutcomeInv, Placed, Undone
    <3> QED
      BY <2>1, <2>t, <3>1 DEF Standing, Here
  <2> QED
    BY <2>2, <2>3
<1>2. OutcomeInv /\ [Next]_vars =>
        (ext' = ext => \A p \in Paths : dest'[p] # dest[p] =>
           \E i \in Items :
             /\ target[i] = p
             /\ p \in disturbed \/ dest[p] \in {snapshot[i], New(i), Missing})
  BY <1>1
<1> QED
  BY <1>2, OutcomeInit, OutcomeStep, PTL DEF Spec, NoStaleOverwrite
=============================================================================
