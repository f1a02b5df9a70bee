------------------------- MODULE StagedOutputProofs -------------------------
(***************************************************************************)
(* Proofs about StagedOutput, for any number of processes on one           *)
(* destination, each build, and any number of faults and of steps of       *)
(* another program.                                                        *)
(***************************************************************************)
EXTENDS StagedOutput, TLAPS

Staging    == {"new", "open", "first", "second", "compare", "write", "verify",
               "recheck"}
Untouched  == {"perms", "rename", "replace", "exists", "aside"}
Emptied    == {"in", "clear", "restore", "copyback"}
Returned   == {"drop", "done"}
Published  == {"ok", "warned"}

\* The processes whose recheck nobody has overtaken.
Fresh == checked \ raced

\* How far a process has come, whoever else writes the destination.
Stage(p) ==
  /\ pc[p] \in Staging => p \notin checked
  /\ pc[p] \in Untouched \cup Emptied \cup {"forget"} => p \in checked
  /\ pc[p] \in Staging \cup Untouched \cup Emptied => p \notin moved
  /\ pc[p] = "forget" => p \in moved
  /\ p \in moved => p \in checked
  /\ pc[p] \in Returned => (result[p] \in Published <=> p \in moved)

\* A process between its writer and its return holds a workspace and, until it
\* is moved in, its new file.
Staged(p) ==
  /\ pc[p] \in {"verify", "recheck", "in"} \cup Untouched => staged[p] = New(p)
  /\ pc[p] \in (Staging \ {"new"}) \cup Untouched \cup Emptied \cup {"forget"} =>
       p \in workspace

\* From the moment the old file is moved aside its backup is there, and "kept"
\* is only said of a backup that Drop leaves alone.
Kept(p) ==
  /\ pc[p] \in Emptied => backup[p] # Missing
  /\ pc[p] \in Returned /\ result[p] = "kept" =>
       p \in preserve /\ p \in workspace /\ backup[p] # Missing

\* What p knows of the destination while nobody else has changed it.
Holds(p) ==
  /\ pc[p] \in Untouched => dest = snapshot[p]
  /\ pc[p] \in Emptied => dest = Missing /\ backup[p] = snapshot[p]
  /\ pc[p] = "forget" => dest = New(p)
  /\ pc[p] \in Returned =>
       /\ result[p] \in Published => dest = New(p)
       /\ result[p] = "kept" => backup[p] = snapshot[p]
       /\ result[p] \notin Published \cup {"kept"} => dest = snapshot[p]
  /\ \/ dest \in {snapshot[p], New(p)}
     \/ p \in workspace /\ backup[p] = snapshot[p]

Own(p) ==
  /\ Stage(p)
  /\ Staged(p)
  /\ Kept(p)
  /\ p \in Fresh => Holds(p)

IInv == TypeOK /\ \A p \in Procs : Own(p)

\* Everything one process does.
Act(p) == Step(p) \/ Windows(p) \/ Fallback(p) \/ Recovery(p)

-----------------------------------------------------------------------------
LEMMA VersionTypes ==
  /\ Missing \in Version /\ Unsafe \in Version /\ Partial \in Version
  /\ \A d \in Nat : Old(d) \in Version /\ New(d) \in Version /\ Ext(d) \in Version
  /\ Missing # Unsafe
  /\ \A d \in Nat : New(d) # Missing /\ New(d) # Unsafe
BY DEF Version, Kinds, Missing, Unsafe, Partial, Old, New, Ext

LEMMA InitInv == Init => IInv
<1> SUFFICES ASSUME Init PROVE IInv
  OBVIOUS
<1> USE VersionTypes DEF Init
<1>1. TypeOK
  BY BoundsAssumption, ApisAssumption DEF TypeOK, PCs, Results
<1>2. ASSUME NEW p \in Procs PROVE Own(p)
  BY DEF Own, Stage, Staged, Kept, Fresh, Staging, Untouched, Emptied, Returned
<1> QED
  BY <1>1, <1>2 DEF IInv

\* A step of p leaves what the others know alone, or overtakes them.
LEMMA OthersUntouched ==
  ASSUME TypeOK, NEW p \in Procs, Act(p), NEW q \in Procs, q # p
  PROVE  /\ pc'[q] = pc[q] /\ result'[q] = result[q] /\ snapshot'[q] = snapshot[q]
         /\ staged'[q] = staged[q] /\ backup'[q] = backup[q]
         /\ q \in workspace' <=> q \in workspace
         /\ q \in preserve' <=> q \in preserve
         /\ q \in checked' <=> q \in checked
         /\ q \in moved' <=> q \in moved
         /\ q \in Fresh' => q \in Fresh /\ dest' = dest
<1> USE DEF TypeOK, Fresh, given, copies, Goto, Return, KeepDest, Put, Races, Publishing, MoveIn, KeepBackup
<1>1. CASE New_(p)
  BY <1>1 DEF New_
<1>2. CASE OpenInput(p)
  BY <1>2 DEF OpenInput
<1>3. CASE ReadInput(p)
  BY <1>3 DEF ReadInput
<1>4. CASE CompareInput(p)
  BY <1>4 DEF CompareInput
<1>5. CASE RunWriter(p)
  BY <1>5 DEF RunWriter
<1>6. CASE Verify(p)
  BY <1>6 DEF Verify
<1>7. CASE RecheckDestination(p)
  BY <1>7 DEF RecheckDestination
<1>8. CASE InheritPermissions(p)
  BY <1>8 DEF InheritPermissions
<1>9. CASE Rename(p)
  BY <1>9 DEF Rename
<1>10. CASE Drop(p)
  BY <1>10 DEF Drop
<1>11. CASE Die(p)
  BY <1>11 DEF Die
<1>12. CASE ReplaceFile(p)
  BY <1>12 DEF ReplaceFile
<1>13. CASE ClearDestination(p)
  BY <1>13 DEF ClearDestination
<1>14. CASE Exists(p)
  BY <1>14 DEF Exists
<1>15. CASE MoveAside(p)
  BY <1>15 DEF MoveAside
<1>16. CASE RenameIn(p)
  BY <1>16 DEF RenameIn
<1>17. CASE RestoreBackup(p)
  BY <1>17 DEF RestoreBackup
<1>18. CASE CopyBack(p)
  BY <1>18 DEF CopyBack
<1>19. CASE ForgetBackup(p)
  BY <1>19 DEF ForgetBackup
<1> QED
  BY <1>1, <1>2, <1>3, <1>4, <1>5, <1>6, <1>7, <1>8, <1>9, <1>10, <1>11, <1>12, <1>13, <1>14, <1>15, <1>16, <1>17, <1>18, <1>19 DEF Act, Step, Windows, Fallback, Recovery

\* A step of p keeps what p knows.
LEMMA OwnStep ==
  ASSUME TypeOK, NEW p \in Procs, Own(p), Act(p) PROVE Own(p)'
<1> USE VersionTypes, PlatformAssumption
<1> USE DEF TypeOK, Own, Stage, Staged, Kept, Holds, Fresh, Staging, Untouched,
            Emptied, Returned, Published, At, given, copies, Goto, Return,
            KeepDest, Put, Races, Publishing
<1>1. CASE New_(p)
  BY <1>1 DEF New_
<1>2. CASE OpenInput(p)
  BY <1>2 DEF OpenInput
<1>3. CASE ReadInput(p)
  BY <1>3 DEF ReadInput
<1>4. CASE CompareInput(p)
  BY <1>4 DEF CompareInput
<1>5. CASE RunWriter(p)
  BY <1>5 DEF RunWriter
<1>6. CASE Verify(p)
  BY <1>6 DEF Verify
<1>7. CASE RecheckDestination(p)
  BY <1>7 DEF RecheckDestination, Recheck
<1>8. CASE InheritPermissions(p)
  BY <1>8 DEF InheritPermissions, Method
<1>9. CASE Rename(p)
  BY <1>9 DEF Rename, MoveIn
<1>10. CASE Drop(p)
  BY <1>10 DEF Drop
<1>11. CASE Die(p)
  BY <1>11 DEF Die
<1>12. CASE ReplaceFile(p)
  BY <1>12 DEF ReplaceFile, MoveIn
<1>13. CASE ClearDestination(p)
  BY <1>13 DEF ClearDestination, KeepBackup
<1>14. CASE Exists(p)
  BY <1>14 DEF Exists, MoveIn
<1>15. CASE MoveAside(p)
  BY <1>15 DEF MoveAside
<1>16. CASE RenameIn(p)
  BY <1>16 DEF RenameIn, MoveIn
<1>17. CASE RestoreBackup(p)
  BY <1>17 DEF RestoreBackup
<1>18. CASE CopyBack(p)
  BY <1>18 DEF CopyBack, KeepBackup
<1>19. CASE ForgetBackup(p)
  BY <1>19 DEF ForgetBackup
<1> QED
  BY <1>1, <1>2, <1>3, <1>4, <1>5, <1>6, <1>7, <1>8, <1>9, <1>10, <1>11, <1>12, <1>13, <1>14, <1>15, <1>16, <1>17, <1>18, <1>19 DEF Act, Step, Windows, Fallback, Recovery

\* A step of a process keeps the build and adds at most one fault.
LEMMA FaultsAct ==
  ASSUME TypeOK, NEW p \in Procs, Act(p)
  PROVE  platform' = platform /\ faults' \in 0..MaxFaults[platform]
<1> USE DEF given, Publishing, Fails
<1>0. faults' = faults \/ Fault => faults' \in 0..MaxFaults[platform]
  BY BoundsAssumption DEF TypeOK, Fault
<1>1. CASE New_(p)
  BY <1>0, <1>1 DEF New_
<1>2. CASE OpenInput(p)
  BY <1>0, <1>2 DEF OpenInput
<1>3. CASE ReadInput(p)
  BY <1>0, <1>3 DEF ReadInput
<1>4. CASE CompareInput(p)
  BY <1>0, <1>4 DEF CompareInput
<1>5. CASE RunWriter(p)
  BY <1>0, <1>5 DEF RunWriter
<1>6. CASE Verify(p)
  BY <1>0, <1>6 DEF Verify
<1>7. CASE RecheckDestination(p)
  BY <1>0, <1>7 DEF RecheckDestination
<1>8. CASE InheritPermissions(p)
  BY <1>0, <1>8 DEF InheritPermissions
<1>9. CASE Rename(p)
  BY <1>0, <1>9 DEF Rename
<1>10. CASE Drop(p)
  BY <1>0, <1>10 DEF Drop
<1>11. CASE Die(p)
  BY <1>0, <1>11 DEF Die
<1>12. CASE ReplaceFile(p)
  BY <1>0, <1>12 DEF ReplaceFile
<1>13. CASE ClearDestination(p)
  BY <1>0, <1>13 DEF ClearDestination
<1>14. CASE Exists(p)
  BY <1>0, <1>14 DEF Exists
<1>15. CASE MoveAside(p)
  BY <1>0, <1>15 DEF MoveAside
<1>16. CASE RenameIn(p)
  BY <1>0, <1>16 DEF RenameIn
<1>17. CASE RestoreBackup(p)
  BY <1>0, <1>17 DEF RestoreBackup
<1>18. CASE CopyBack(p)
  BY <1>0, <1>18 DEF CopyBack
<1>19. CASE ForgetBackup(p)
  BY <1>0, <1>19 DEF ForgetBackup
<1> QED
  BY <1>1, <1>2, <1>3, <1>4, <1>5, <1>6, <1>7, <1>8, <1>9, <1>10, <1>11, <1>12, <1>13, <1>14, <1>15, <1>16, <1>17, <1>18, <1>19 DEF Act, Step, Windows, Fallback, Recovery

\* What a process writes into the destination, its snapshot and its workspace
\* are versions.
LEMMA FileTypes ==
  ASSUME TypeOK, NEW p \in Procs, Act(p)
  PROVE  /\ dest' \in Version /\ snapshot' \in [Procs -> Version]
         /\ staged' \in [Procs -> Version] /\ backup' \in [Procs -> Version]
<1> USE VersionTypes, ProcsAssumption
<1> USE DEF TypeOK, Put, KeepDest, Publishing, MoveIn, KeepBackup
<1>1. CASE New_(p)
  BY <1>1 DEF New_
<1>2. CASE OpenInput(p)
  BY <1>2 DEF OpenInput
<1>3. CASE ReadInput(p)
  BY <1>3 DEF ReadInput
<1>4. CASE CompareInput(p)
  BY <1>4 DEF CompareInput
<1>5. CASE RunWriter(p)
  BY <1>5 DEF RunWriter
<1>6. CASE Verify(p)
  BY <1>6 DEF Verify
<1>7. CASE RecheckDestination(p)
  BY <1>7 DEF RecheckDestination
<1>8. CASE InheritPermissions(p)
  BY <1>8 DEF InheritPermissions
<1>9. CASE Rename(p)
  BY <1>9 DEF Rename
<1>10. CASE Drop(p)
  BY <1>10 DEF Drop
<1>11. CASE Die(p)
  BY <1>11 DEF Die
<1>12. CASE ReplaceFile(p)
  BY <1>12 DEF ReplaceFile
<1>13. CASE ClearDestination(p)
  BY <1>13 DEF ClearDestination
<1>14. CASE Exists(p)
  BY <1>14 DEF Exists
<1>15. CASE MoveAside(p)
  BY <1>15 DEF MoveAside
<1>16. CASE RenameIn(p)
  BY <1>16 DEF RenameIn
<1>17. CASE RestoreBackup(p)
  BY <1>17 DEF RestoreBackup
<1>18. CASE CopyBack(p)
  BY <1>18 DEF CopyBack
<1>19. CASE ForgetBackup(p)
  BY <1>19 DEF ForgetBackup
<1> QED
  BY <1>1, <1>2, <1>3, <1>4, <1>5, <1>6, <1>7, <1>8, <1>9, <1>10, <1>11, <1>12, <1>13, <1>14, <1>15, <1>16, <1>17, <1>18, <1>19 DEF Act, Step, Windows, Fallback, Recovery

\* What it reads of the input are versions.
LEMMA CopyTypes ==
  ASSUME TypeOK, NEW p \in Procs, Act(p)
  PROVE  /\ opened' \in [Procs -> Version] /\ handle' \in [Procs -> Version]
         /\ got' \in [Procs -> SUBSET Version]
         /\ input' \in Version /\ ext' \in 0..MaxExt
         /\ api' = api /\ mode' = mode /\ source' = source
<1> USE VersionTypes
<1> USE DEF TypeOK, given, copies, Publishing
<1>1. CASE New_(p)
  BY <1>1 DEF New_
<1>2. CASE OpenInput(p)
  <2>1. Source(p) \in Version
    BY DEF Source
  <2>2. \/ /\ opened' = [opened EXCEPT ![p] = Source(p)]
           /\ handle' = [handle EXCEPT ![p] = Source(p)]
        \/ opened' = opened /\ handle' = handle
    BY <1>2, Zenon DEF OpenInput
  <2>3. opened' \in [Procs -> Version] /\ handle' \in [Procs -> Version]
    BY <2>1, <2>2
  <2> QED
    BY <1>2, <2>3, Zenon DEF OpenInput
<1>3. CASE ReadInput(p)
  BY <1>3 DEF ReadInput
<1>4. CASE CompareInput(p)
  BY <1>4 DEF CompareInput
<1>5. CASE RunWriter(p)
  BY <1>5 DEF RunWriter
<1>6. CASE Verify(p)
  BY <1>6 DEF Verify
<1>7. CASE RecheckDestination(p)
  BY <1>7 DEF RecheckDestination
<1>8. CASE InheritPermissions(p)
  BY <1>8 DEF InheritPermissions
<1>9. CASE Rename(p)
  BY <1>9 DEF Rename
<1>10. CASE Drop(p)
  BY <1>10 DEF Drop
<1>11. CASE Die(p)
  BY <1>11 DEF Die
<1>12. CASE ReplaceFile(p)
  BY <1>12 DEF ReplaceFile
<1>13. CASE ClearDestination(p)
  BY <1>13 DEF ClearDestination
<1>14. CASE Exists(p)
  BY <1>14 DEF Exists
<1>15. CASE MoveAside(p)
  BY <1>15 DEF MoveAside
<1>16. CASE RenameIn(p)
  BY <1>16 DEF RenameIn
<1>17. CASE RestoreBackup(p)
  BY <1>17 DEF RestoreBackup
<1>18. CASE CopyBack(p)
  BY <1>18 DEF CopyBack, Overwrite, Rewrite
<1>19. CASE ForgetBackup(p)
  BY <1>19 DEF ForgetBackup
<1> QED
  BY <1>1, <1>2, <1>3, <1>4, <1>5, <1>6, <1>7, <1>8, <1>9, <1>10, <1>11, <1>12, <1>13, <1>14, <1>15, <1>16, <1>17, <1>18, <1>19 DEF Act, Step, Windows, Fallback, Recovery

\* It only enters or leaves the sets of processes itself.
LEMMA SetTypes ==
  ASSUME TypeOK, NEW p \in Procs, Act(p)
  PROVE  /\ workspace' \subseteq Procs /\ preserve' \subseteq Procs
         /\ checked' \subseteq Procs /\ raced' \subseteq checked'
         /\ moved' \subseteq Procs
<1> USE DEF TypeOK, KeepDest, Put, Races, Publishing, MoveIn, KeepBackup
<1>1. CASE New_(p)
  BY <1>1 DEF New_
<1>2. CASE OpenInput(p)
  BY <1>2 DEF OpenInput
<1>3. CASE ReadInput(p)
  BY <1>3 DEF ReadInput
<1>4. CASE CompareInput(p)
  BY <1>4 DEF CompareInput
<1>5. CASE RunWriter(p)
  BY <1>5 DEF RunWriter
<1>6. CASE Verify(p)
  BY <1>6 DEF Verify
<1>7. CASE RecheckDestination(p)
  BY <1>7 DEF RecheckDestination
<1>8. CASE InheritPermissions(p)
  BY <1>8 DEF InheritPermissions
<1>9. CASE Rename(p)
  BY <1>9 DEF Rename
<1>10. CASE Drop(p)
  BY <1>10 DEF Drop
<1>11. CASE Die(p)
  BY <1>11 DEF Die
<1>12. CASE ReplaceFile(p)
  BY <1>12 DEF ReplaceFile
<1>13. CASE ClearDestination(p)
  BY <1>13 DEF ClearDestination
<1>14. CASE Exists(p)
  BY <1>14 DEF Exists
<1>15. CASE MoveAside(p)
  BY <1>15 DEF MoveAside
<1>16. CASE RenameIn(p)
  BY <1>16 DEF RenameIn
<1>17. CASE RestoreBackup(p)
  BY <1>17 DEF RestoreBackup
<1>18. CASE CopyBack(p)
  BY <1>18 DEF CopyBack
<1>19. CASE ForgetBackup(p)
  BY <1>19 DEF ForgetBackup
<1> QED
  BY <1>1, <1>2, <1>3, <1>4, <1>5, <1>6, <1>7, <1>8, <1>9, <1>10, <1>11, <1>12, <1>13, <1>14, <1>15, <1>16, <1>17, <1>18, <1>19 DEF Act, Step, Windows, Fallback, Recovery

\* It goes to a named place with a named result.
LEMMA ControlTypes ==
  ASSUME TypeOK, NEW p \in Procs, Act(p)
  PROVE  /\ pc' \in [Procs -> PCs] /\ result' \in [Procs -> Results]
<1> USE PlatformAssumption
<1> USE DEF TypeOK, PCs, Results, Goto, Return, KeepBackup
<1>1. CASE New_(p)
  BY <1>1 DEF New_
<1>2. CASE OpenInput(p)
  BY <1>2 DEF OpenInput
<1>3. CASE ReadInput(p)
  BY <1>3 DEF ReadInput
<1>4. CASE CompareInput(p)
  BY <1>4 DEF CompareInput
<1>5. CASE RunWriter(p)
  BY <1>5 DEF RunWriter
<1>6. CASE Verify(p)
  BY <1>6 DEF Verify
<1>7. CASE RecheckDestination(p)
  BY <1>7 DEF RecheckDestination
<1>8. CASE InheritPermissions(p)
  BY <1>8 DEF InheritPermissions, Method
<1>9. CASE Rename(p)
  BY <1>9 DEF Rename
<1>10. CASE Drop(p)
  BY <1>10 DEF Drop
<1>11. CASE Die(p)
  BY <1>11 DEF Die
<1>12. CASE ReplaceFile(p)
  BY <1>12 DEF ReplaceFile
<1>13. CASE ClearDestination(p)
  BY <1>13 DEF ClearDestination
<1>14. CASE Exists(p)
  BY <1>14 DEF Exists
<1>15. CASE MoveAside(p)
  BY <1>15 DEF MoveAside
<1>16. CASE RenameIn(p)
  BY <1>16 DEF RenameIn
<1>17. CASE RestoreBackup(p)
  BY <1>17 DEF RestoreBackup
<1>18. CASE CopyBack(p)
  BY <1>18 DEF CopyBack
<1>19. CASE ForgetBackup(p)
  BY <1>19 DEF ForgetBackup
<1> QED
  BY <1>1, <1>2, <1>3, <1>4, <1>5, <1>6, <1>7, <1>8, <1>9, <1>10, <1>11, <1>12, <1>13, <1>14, <1>15, <1>16, <1>17, <1>18, <1>19 DEF Act, Step, Windows, Fallback, Recovery

\* Files are staged in a workspace, and a process that returned has a result.
LEMMA HeldAct ==
  ASSUME TypeOK, NEW p \in Procs, Own(p), Act(p)
  PROVE  \A q \in Procs :
           /\ staged'[q] # Missing \/ backup'[q] # Missing => q \in workspace'
           /\ pc'[q] \in {"drop", "done"} => result'[q] # "none"
<1> USE VersionTypes, PlatformAssumption
<1> USE DEF TypeOK, Own, Staged, Staging, Untouched, Emptied, Goto, Return, At, MoveIn, KeepBackup, Publishing
<1>1. CASE New_(p)
  BY <1>1 DEF New_
<1>2. CASE OpenInput(p)
  BY <1>2 DEF OpenInput
<1>3. CASE ReadInput(p)
  BY <1>3 DEF ReadInput
<1>4. CASE CompareInput(p)
  BY <1>4 DEF CompareInput
<1>5. CASE RunWriter(p)
  BY <1>5 DEF RunWriter
<1>6. CASE Verify(p)
  BY <1>6 DEF Verify
<1>7. CASE RecheckDestination(p)
  BY <1>7 DEF RecheckDestination
<1>8. CASE InheritPermissions(p)
  BY <1>8 DEF InheritPermissions, Method
<1>9. CASE Rename(p)
  BY <1>9 DEF Rename
<1>10. CASE Drop(p)
  BY <1>10 DEF Drop
<1>11. CASE Die(p)
  BY <1>11 DEF Die
<1>12. CASE ReplaceFile(p)
  BY <1>12 DEF ReplaceFile
<1>13. CASE ClearDestination(p)
  BY <1>13 DEF ClearDestination
<1>14. CASE Exists(p)
  BY <1>14 DEF Exists
<1>15. CASE MoveAside(p)
  BY <1>15 DEF MoveAside
<1>16. CASE RenameIn(p)
  BY <1>16 DEF RenameIn
<1>17. CASE RestoreBackup(p)
  BY <1>17 DEF RestoreBackup
<1>18. CASE CopyBack(p)
  BY <1>18 DEF CopyBack
<1>19. CASE ForgetBackup(p)
  BY <1>19 DEF ForgetBackup
<1> QED
  BY <1>1, <1>2, <1>3, <1>4, <1>5, <1>6, <1>7, <1>8, <1>9, <1>10, <1>11, <1>12, <1>13, <1>14, <1>15, <1>16, <1>17, <1>18, <1>19 DEF Act, Step, Windows, Fallback, Recovery

\* A step of a process keeps every variable in its type.
LEMMA TypeAct ==
  ASSUME TypeOK, NEW p \in Procs, Own(p), Act(p) PROVE TypeOK'
<1>1. platform' = platform /\ faults' \in 0..MaxFaults[platform']
  BY FaultsAct
<1>2. api' \in [Procs -> Apis[platform']]
  BY <1>1, CopyTypes DEF TypeOK
<1> QED
  BY <1>1, <1>2, FileTypes, CopyTypes, SetTypes, ControlTypes, HeldAct DEF TypeOK

\* Another program overtakes whoever has rechecked the destination, unless it
\* only writes the input.
LEMMA OtherStep ==
  ASSUME TypeOK, \A p \in Procs : Own(p), OtherProgram
  PROVE  TypeOK' /\ \A p \in Procs : Own(p)'
<1> USE DEF OtherProgram, given, KeepDest, Races
<1>1. /\ dest' \in Version /\ input' \in Version
      /\ ext + 1 \in 0..MaxExt /\ Ext(ext + 1) \in Version
  BY VersionTypes, BoundsAssumption DEF TypeOK
<1>2. handle' \in [Procs -> Version]
  BY <1>1 DEF TypeOK, Rewrite
<1>3. /\ raced' \subseteq checked
      /\ raced' = checked \/ (dest' = dest /\ raced' = raced)
  BY DEF TypeOK
<1>4. TypeOK'
  BY <1>1, <1>2, <1>3 DEF TypeOK
<1>5. ASSUME NEW p \in Procs PROVE Own(p)'
  <2>1. Stage(p)' /\ Staged(p)' /\ Kept(p)'
    BY DEF Own, Stage, Staged, Kept
  <2>2. CASE raced' = checked
    BY <2>1, <2>2 DEF Own, Fresh
  <2>3. CASE dest' = dest /\ raced' = raced
    BY <2>1, <2>3 DEF Own, Holds, Fresh
  <2> QED
    BY <1>3, <2>2, <2>3
<1> QED
  BY <1>4, <1>5

LEMMA NextInv == IInv /\ [Next]_vars => IInv'
<1> SUFFICES ASSUME IInv, [Next]_vars PROVE IInv'
  OBVIOUS
<1>1. CASE UNCHANGED vars
  BY <1>1 DEF IInv, TypeOK, Own, Stage, Staged, Kept, Holds, Fresh, vars, given, copies
<1>2. ASSUME NEW p \in Procs, Act(p) PROVE IInv'
  <2>1. TypeOK'
    BY <1>2, TypeAct DEF IInv
  <2>2. Own(p)'
    BY <1>2, OwnStep DEF IInv
  <2>3. ASSUME NEW q \in Procs, q # p PROVE Own(q)'
    BY <1>2, <2>3, OthersUntouched DEF IInv, Own, Stage, Staged, Kept, Holds
  <2> QED
    BY <2>1, <2>2, <2>3 DEF IInv
<1>3. CASE OtherProgram
  BY <1>3, OtherStep DEF IInv
<1> QED
  BY <1>1, <1>2, <1>3 DEF Next, Act, AllStopped

LEMMA Invariance == Spec => []IInv
BY InitInv, NextInv, PTL DEF Spec

-----------------------------------------------------------------------------
\* Every variable keeps its type, whatever the processes and the other program
\* do: a private file is always in a private workspace, and every process that
\* returned was told something.
THEOREM TypeCorrect == Spec => []TypeOK
<1>1. IInv => TypeOK
  BY DEF IInv
<1> QED
  BY <1>1, Invariance, PTL

\* The old file is never lost to a process whose recheck nobody overtook: it or
\* the new one is at the destination, or it is in a backup that Drop leaves
\* alone, on every build, through every failing step of the recovery and after
\* a death (publish, windows_replace_preserving_acl, publish_with_recovery).
THEOREM OldKept == Spec => []OldSurvives
<1>1. IInv => OldSurvives
  BY DEF IInv, OldSurvives, Own, Holds, Fresh, TypeOK
<1> QED
  BY <1>1, Invariance, PTL

\* What the caller is told is what happened: success is a new file in place, an
\* error the old one, and a kept backup is on disk (publish, Drop).
THEOREM ToldTrue == Spec => []OutcomeIsTrue
<1>1. ASSUME IInv, NEW p \in Procs, pc[p] = "done"
      PROVE  /\ result[p] \in {"ok", "warned"} <=> p \in moved
             /\ result[p] = "kept" => p \in workspace /\ backup[p] # Missing
    BY <1>1 DEF IInv, Own, Stage, Kept, Returned, Published
<1>2. ASSUME IInv, NEW p \in Procs, pc[p] = "done", p \in checked \ raced
      PROVE  CASE result[p] \in {"ok", "warned"} -> dest = New(p)
               [] result[p] = "kept" -> backup[p] = snapshot[p]
               [] OTHER -> dest = snapshot[p]
    BY <1>2 DEF IInv, Own, Holds, Returned, Published, Fresh
<1>3. IInv => OutcomeIsTrue
  BY <1>1, <1>2 DEF OutcomeIsTrue
<1> QED
  BY <1>3, Invariance, PTL

\* A step that changes the destination is of a process that rechecked it, and
\* found there what it replaces unless it was overtaken.
LEMMA NoLostUpdateStep ==
  ASSUME IInv, [Next]_vars, ext' = ext, dest' # dest, dest # Missing
  PROVE  \E p \in Procs : pc'[p] # pc[p] /\ (p \in raced \/ dest = snapshot[p])
<1>1. PICK p \in Procs : Act(p)
  BY DEF Next, Act, OtherProgram, AllStopped, vars, IInv, TypeOK
<1> USE DEF KeepDest, Goto, Return, At
<1>2. pc[p] \in Untouched \cup Emptied /\ pc'[p] # pc[p]
  BY <1>1 DEF IInv, TypeOK, Act, Step, Windows, Fallback, Recovery, New_, OpenInput,
     ReadInput, CompareInput, RunWriter, Verify, RecheckDestination,
     InheritPermissions, Rename, Drop, Die, ReplaceFile, ClearDestination, Exists,
     MoveAside, RenameIn, RestoreBackup, CopyBack, ForgetBackup, KeepBackup,
     Untouched, Emptied
<1>3. p \in raced \/ dest = snapshot[p]
  BY <1>2 DEF IInv, Own, Stage, Holds, Fresh
<1> QED
  BY <1>2, <1>3

\* A process replaces only the version it took its snapshot of: the result of
\* another process, or an edit of the user, that stood there at the recheck is
\* never overwritten (recheck_destination in publish).
THEOREM NothingOverwritten == Spec => NoLostUpdate
<1>1. IInv /\ [Next]_vars =>
        (ext' = ext /\ dest' # dest /\ dest # Missing =>
           \E p \in Procs :
             /\ pc'[p] # pc[p]
             /\ p \in raced \/ dest = snapshot[p])
  BY NoLostUpdateStep
<1> QED
  BY <1>1, Invariance, PTL DEF Spec, NoLostUpdate

-----------------------------------------------------------------------------
(***************************************************************************)
(* On unix a publication is one rename, so no version comes back once it   *)
(* is gone: what a process read either is what it finds at its recheck, or *)
(* the recheck fails.                                                      *)
(***************************************************************************)

\* What may stand at the destination so far, and at the other input path.
DestSoFar  == {Missing, Unsafe, Old(0)} \cup {New(p) : p \in moved}
                \cup {Ext(n) : n \in 1..ext}
InputSoFar == {Old(1)} \cup {Ext(n) : n \in 1..ext}
SoFar      == DestSoFar \cup InputSoFar

\* The two files are two, and a snapshot is of the first of them.
Apart ==
  /\ dest \in DestSoFar /\ input \in InputSoFar /\ dest # input
  /\ \A p \in Procs : snapshot[p] \in DestSoFar /\ snapshot[p] # input

\* A process that edits in place has read its snapshot and nothing else, or
\* the destination is no longer that snapshot, and never will be again.
EditsInPlace(p) ==
  source[p] = "same" =>
    /\ pc[p] \in Staging \ {"new"} =>
         /\ snapshot[p] \notin {Missing, Unsafe}
         /\ \/ dest # snapshot[p]
            \/ /\ got[p] \subseteq {snapshot[p]}
               /\ pc[p] \in {"first", "second"} => handle[p] = snapshot[p]
    /\ p \in checked => got[p] \subseteq {snapshot[p]}

\* What a private copy holds is the opened version, or its file has changed.
CopiesOne(p) ==
  /\ pc[p] \in {"new", "open", "first"} => got[p] = {}
  /\ pc[p] \in {"first", "second", "compare"} =>
       /\ opened[p] \in SoFar
       /\ got[p] \subseteq {opened[p]} \/ handle[p] # opened[p]
  /\ pc[p] \in {"second", "compare"} => got[p] # {}
  /\ \/ pc[p] \in {"write", "verify", "recheck"}
     \/ p \in checked
     => (api[p] = "snapshot" => got[p] = {opened[p]})

SnapshotsHaveInput ==
  \A p \in Procs : api[p] = "snapshot" => source[p] # "none"

UnixInv ==
  /\ platform = "unix"
  /\ SnapshotsHaveInput
  /\ Apart
  /\ \A p \in Procs : EditsInPlace(p) /\ CopiesOne(p)

\* A version that is written next is not among those so far.
LEMMA NewIsNew ==
  ASSUME TypeOK
  PROVE  /\ Ext(ext + 1) \notin SoFar
         /\ \A p \in Procs \ moved : New(p) \notin SoFar
         /\ Missing \notin InputSoFar /\ Unsafe \notin InputSoFar
<1>1. ext \in Nat /\ ext + 1 \notin 1..ext
  BY BoundsAssumption DEF TypeOK
<1>2. Ext(ext + 1) \notin SoFar
  <2>1. \A n : Ext(n) = Ext(ext + 1) => n = ext + 1
    BY DEF Ext
  <2>2. /\ Ext(ext + 1) \notin {Missing, Unsafe, Old(0), Old(1)}
        /\ \A q : New(q) # Ext(ext + 1)
    BY DEF Missing, Unsafe, Old, New, Ext
  <2> QED
    BY <1>1, <2>1, <2>2 DEF SoFar, DestSoFar, InputSoFar
<1>3. ASSUME NEW p \in Procs \ moved PROVE New(p) \notin SoFar
  <2>1. \A q : New(q) = New(p) => q = p
    BY DEF New
  <2>2. /\ New(p) \notin {Missing, Unsafe, Old(0), Old(1)}
        /\ \A n : Ext(n) # New(p)
    BY DEF Missing, Unsafe, Old, New, Ext
  <2> QED
    BY <2>1, <2>2 DEF SoFar, DestSoFar, InputSoFar
<1>4. Missing \notin InputSoFar /\ Unsafe \notin InputSoFar
  BY DEF InputSoFar, Missing, Unsafe, Old, Ext
<1> QED
  BY <1>2, <1>3, <1>4

LEMMA InitUnix == Init /\ platform = "unix" => UnixInv
<1> SUFFICES ASSUME Init, platform = "unix" PROVE UnixInv
  OBVIOUS
<1>1. Apart
  BY DEF Init, Apart, DestSoFar, InputSoFar, Missing, Unsafe, Old
<1>2. ASSUME NEW p \in Procs PROVE EditsInPlace(p) /\ CopiesOne(p)
  BY DEF Init, EditsInPlace, CopiesOne, Staging
<1>3. SnapshotsHaveInput
  BY DEF Init, SnapshotsHaveInput
<1> QED
  BY <1>1, <1>2, <1>3 DEF UnixInv

\* What a step of p does to the two files, on unix.
LEMMA UnixEffect ==
  ASSUME IInv, UnixInv, NEW p \in Procs, Act(p)
  PROVE  /\ input' = input /\ ext' = ext /\ given' = given
         /\ \/ dest' = dest /\ moved' = moved
            \/ p \notin moved /\ dest' = New(p) /\ moved' = moved \cup {p}
         /\ \/ snapshot' = snapshot
            \/ dest' = dest /\ snapshot' = [snapshot EXCEPT ![p] = dest]
         /\ \A q \in Procs \ {p} : /\ got'[q] = got[q] /\ handle'[q] = handle[q]
                                   /\ opened'[q] = opened[q]
<1>1. Step(p) /\ Own(p) /\ TypeOK
  BY DEF Act, Windows, Fallback, Recovery, UnixInv, IInv
<1> USE <1>1 DEF given, KeepDest, copies
<1>2. CASE Rename(p)
  BY <1>2 DEF Rename, At, Publishing, MoveIn, Put, Own, Stage, Staged, Untouched
<1>3. CASE New_(p) \/ Drop(p)
  BY <1>3 DEF New_, Drop
<1>4. CASE OpenInput(p)
  <2>1. \/ /\ opened' = [opened EXCEPT ![p] = Source(p)]
           /\ handle' = [handle EXCEPT ![p] = Source(p)]
        \/ opened' = opened /\ handle' = handle
    BY <1>4, Zenon DEF OpenInput
  <2> QED
    BY <1>4, <2>1 DEF OpenInput, TypeOK
<1>5. CASE ReadInput(p)
  BY <1>5 DEF ReadInput, TypeOK
<1>6. CASE CompareInput(p) \/ RunWriter(p) \/ Verify(p) \/ RecheckDestination(p) \/ Die(p)
  BY <1>6 DEF CompareInput, RunWriter, Verify, RecheckDestination, Die
<1>7. CASE InheritPermissions(p)
  BY <1>7 DEF InheritPermissions, Publishing
<1> QED
  BY <1>2, <1>3, <1>4, <1>5, <1>6, <1>7 DEF Step

LEMMA ApartStep ==
  ASSUME IInv, UnixInv, NEW p \in Procs, Act(p) PROVE Apart'
<1>1. \A q \in moved : q \in moved'
  BY UnixEffect
<1>2. DestSoFar \subseteq DestSoFar' /\ InputSoFar' = InputSoFar
  BY <1>1, UnixEffect DEF DestSoFar, InputSoFar
<1>3. dest' \in DestSoFar'
  BY <1>2, UnixEffect DEF UnixInv, Apart, DestSoFar
<1>4. dest' # input
  BY UnixEffect, NewIsNew DEF UnixInv, Apart, IInv, SoFar
<1>5. ASSUME NEW q \in Procs PROVE snapshot'[q] \in DestSoFar' /\ snapshot'[q] # input
  BY <1>2, UnixEffect DEF UnixInv, Apart, IInv, TypeOK
<1> QED
  BY <1>2, <1>3, <1>4, <1>5, UnixEffect DEF UnixInv, Apart

\* A step of p leaves what another process has read alone.
LEMMA OthersRead ==
  ASSUME IInv, UnixInv, NEW p \in Procs, Act(p), NEW q \in Procs, q # p
  PROVE  EditsInPlace(q)' /\ CopiesOne(q)'
<1>1. /\ pc'[q] = pc[q] /\ snapshot'[q] = snapshot[q] /\ got'[q] = got[q]
      /\ handle'[q] = handle[q] /\ opened'[q] = opened[q]
      /\ q \in checked' <=> q \in checked
      /\ api' = api /\ source' = source
  BY OthersUntouched, UnixEffect DEF IInv, given
<1>2. dest # snapshot[q] => dest' # snapshot[q]
  BY UnixEffect, NewIsNew DEF UnixInv, Apart, IInv, SoFar
<1>3. opened[q] \in SoFar => opened[q] \in SoFar'
  <2>1. moved \subseteq moved' /\ ext' = ext
    BY UnixEffect
  <2> QED
    BY <2>1 DEF SoFar, DestSoFar, InputSoFar
<1>4. EditsInPlace(q)'
  BY <1>1, <1>2 DEF UnixInv, EditsInPlace
<1>5. CopiesOne(q)'
  BY <1>1, <1>3 DEF UnixInv, CopiesOne
<1> QED
  BY <1>4, <1>5

\* A step of p keeps what p has read.
LEMMA OwnRead ==
  ASSUME IInv, UnixInv, NEW p \in Procs, Act(p)
  PROVE  EditsInPlace(p)' /\ CopiesOne(p)'
<1>1. Step(p) /\ Own(p) /\ TypeOK
  BY DEF Act, Windows, Fallback, Recovery, UnixInv, IInv
<1>2. /\ api' = api /\ source' = source
      /\ SoFar \subseteq SoFar'
  <2>1. moved \subseteq moved' /\ ext' = ext /\ given' = given
    BY UnixEffect
  <2> QED
    BY <2>1 DEF SoFar, DestSoFar, InputSoFar, given
<1>3. EditsInPlace(p) /\ CopiesOne(p) /\ Apart /\ SnapshotsHaveInput /\ platform = "unix"
  BY DEF UnixInv
<1> USE <1>1, <1>2, <1>3
<1> USE DEF TypeOK, KeepDest, copies, Goto, Return, At, Staging, Own, Stage, Staged, Untouched
<1>4. CASE New_(p)
  <2>1. EditsInPlace(p)'
    <3>1. Inspectable(dest) => dest # Unsafe
      BY DEF Inspectable, Unsafe
    <3>2. got[p] = {}
      BY <1>4 DEF New_, CopiesOne
    <3> QED
      BY <1>4, <3>1, <3>2 DEF New_, EditsInPlace, Aliased
  <2>2. CopiesOne(p)'
    BY <1>4 DEF New_, CopiesOne, SnapshotsHaveInput
  <2> QED
    BY <2>1, <2>2
<1>5. CASE OpenInput(p)
  <2>1. \/ /\ opened' = [opened EXCEPT ![p] = Source(p)]
           /\ handle' = [handle EXCEPT ![p] = Source(p)]
           /\ pc' = [pc EXCEPT ![p] = "first"]
        \/ opened' = opened /\ handle' = handle /\ pc' = [pc EXCEPT ![p] = "drop"]
    BY <1>5, Zenon DEF OpenInput
  <2>2. /\ pc[p] = "open" /\ dest' = dest /\ snapshot' = snapshot /\ got' = got
        /\ checked' = checked
    BY <1>5 DEF OpenInput
  <2>3. Source(p) \in SoFar /\ (source[p] = "same" => Source(p) = dest)
    BY DEF Source, Apart, SoFar
  <2>4. EditsInPlace(p)'
    BY <2>1, <2>2, <2>3 DEF EditsInPlace
  <2>5. CopiesOne(p)'
    BY <2>1, <2>2, <2>3 DEF CopiesOne
  <2> QED
    BY <2>4, <2>5
<1>6. CASE ReadInput(p)
  <2>1. EditsInPlace(p)'
    BY <1>6 DEF ReadInput, EditsInPlace
  <2>2. CopiesOne(p)'
    BY <1>6 DEF ReadInput, CopiesOne
  <2> QED
    BY <2>1, <2>2
<1>7. CASE CompareInput(p)
  <2>1. EditsInPlace(p)'
    BY <1>7 DEF CompareInput, EditsInPlace
  <2>2. CopiesOne(p)'
    BY <1>7 DEF CompareInput, CopiesOne
  <2> QED
    BY <2>1, <2>2
<1>8. CASE RunWriter(p) \/ Verify(p)
  BY <1>8 DEF RunWriter, Verify, EditsInPlace, CopiesOne
<1>9. CASE RecheckDestination(p)
  <2>1. EditsInPlace(p)'
    BY <1>9 DEF RecheckDestination, Recheck, EditsInPlace
  <2>2. CopiesOne(p)'
    BY <1>9 DEF RecheckDestination, CopiesOne
  <2> QED
    BY <2>1, <2>2
<1>10. CASE InheritPermissions(p)
  BY <1>10 DEF InheritPermissions, Method, Publishing, EditsInPlace, CopiesOne
<1>11. CASE Rename(p)
  BY <1>11 DEF Rename, Publishing, EditsInPlace, CopiesOne
<1>12. CASE Drop(p) \/ Die(p)
  BY <1>12 DEF Drop, Die, EditsInPlace, CopiesOne
<1> QED
  BY <1>4, <1>5, <1>6, <1>7, <1>8, <1>9, <1>10, <1>11, <1>12 DEF Step

\* Another program's file is a version nobody has seen.
LEMMA OtherUnix == IInv /\ UnixInv /\ OtherProgram => UnixInv'
<1> SUFFICES ASSUME IInv, UnixInv, OtherProgram PROVE UnixInv'
  OBVIOUS
<1> DEFINE x == Ext(ext + 1)
<1> USE DEF OtherProgram, given, KeepDest
<1>1. TypeOK /\ x \notin SoFar /\ ext + 1 \in 1..ext' /\ 1..ext \subseteq 1..ext'
  BY BoundsAssumption, NewIsNew DEF IInv, TypeOK
<1>2. /\ dest' \in {dest, Missing, Unsafe, x} /\ input' \in {input, x}
      /\ dest' = dest \/ input' = input
      /\ dest' = dest \/ dest' # dest
  OBVIOUS
<1>3. x \in DestSoFar' /\ x \in InputSoFar' /\ DestSoFar \subseteq DestSoFar'
      /\ InputSoFar \subseteq InputSoFar'
  BY <1>1 DEF DestSoFar, InputSoFar
<1>4. Apart'
  <2>1. {Missing, Unsafe} \subseteq DestSoFar'
    BY DEF DestSoFar
  <2>2. dest' \in DestSoFar' /\ input' \in InputSoFar'
    BY <1>2, <1>3, <2>1 DEF UnixInv, Apart
  <2>3. dest' # input'
    BY <1>1, <1>2, NewIsNew DEF UnixInv, Apart, SoFar
  <2>4. ASSUME NEW p \in Procs PROVE snapshot'[p] \in DestSoFar' /\ snapshot'[p] # input'
    BY <1>1, <1>2, <1>3 DEF UnixInv, Apart, SoFar
  <2> QED
    BY <2>2, <2>3, <2>4 DEF Apart
<1>5. ASSUME NEW p \in Procs PROVE EditsInPlace(p)' /\ CopiesOne(p)'
  <2>1. /\ pc' = pc /\ snapshot' = snapshot /\ got' = got /\ opened' = opened
        /\ checked' = checked /\ api' = api /\ source' = source
    OBVIOUS
  <2>2. handle'[p] = handle[p] \/ handle'[p] = x
    BY <1>1 DEF TypeOK, Rewrite
  <2>3. snapshot[p] \in SoFar /\ snapshot[p] # input
    BY DEF UnixInv, Apart, SoFar
  <2>4. EditsInPlace(p)'
    <3> SUFFICES ASSUME source[p] = "same", pc[p] \in Staging \ {"new"}, dest' = snapshot[p]
                 PROVE  /\ got[p] \subseteq {snapshot[p]}
                        /\ pc[p] \in {"first", "second"} => handle'[p] = snapshot[p]
      BY <2>1 DEF UnixInv, EditsInPlace
    <3>1. dest' = dest
      BY <1>1, <1>2, <2>3 DEF UnixInv, EditsInPlace
    <3>2. got[p] \subseteq {snapshot[p]} /\ (pc[p] \in {"first", "second"} => handle[p] = snapshot[p])
      BY <3>1 DEF UnixInv, EditsInPlace
    <3>3. handle[p] = snapshot[p] => handle'[p] = handle[p]
      BY <1>1, <2>3, <3>1 DEF TypeOK, Rewrite
    <3> QED
      BY <3>2, <3>3
  <2>5. CopiesOne(p)'
    <3>1. opened[p] \in SoFar => opened[p] \in SoFar' /\ (handle[p] # opened[p] => handle'[p] # opened[p])
      BY <1>1, <1>3, <2>2 DEF SoFar
    <3> QED
      BY <2>1, <3>1 DEF UnixInv, CopiesOne
  <2> QED
    BY <2>4, <2>5
<1> QED
  BY <1>4, <1>5 DEF UnixInv, SnapshotsHaveInput

LEMMA NextUnix == IInv /\ UnixInv /\ [Next]_vars => UnixInv'
<1> SUFFICES ASSUME IInv, UnixInv, [Next]_vars PROVE UnixInv'
  OBVIOUS
<1>1. CASE UNCHANGED vars
  BY <1>1 DEF UnixInv, SnapshotsHaveInput, Apart, EditsInPlace, CopiesOne, SoFar,
     DestSoFar, InputSoFar, vars, given, copies
<1>2. ASSUME NEW p \in Procs, Act(p) PROVE UnixInv'
  <2>1. Apart' /\ EditsInPlace(p)' /\ CopiesOne(p)'
    BY <1>2, ApartStep, OwnRead
  <2>2. ASSUME NEW q \in Procs, q # p PROVE EditsInPlace(q)' /\ CopiesOne(q)'
    BY <1>2, <2>2, OthersRead
  <2>3. given' = given
    BY <1>2, UnixEffect
  <2>4. platform' = "unix" /\ SnapshotsHaveInput'
    BY <2>3 DEF given, UnixInv, SnapshotsHaveInput
  <2> QED
    BY <2>1, <2>2, <2>4 DEF UnixInv
<1>3. CASE OtherProgram
  BY <1>3, OtherUnix
<1> QED
  BY <1>1, <1>2, <1>3 DEF Next, Act, AllStopped

LEMMA UnixInvariance == Spec /\ platform = "unix" => []UnixInv
BY InitUnix, NextUnix, Invariance, PTL DEF Spec

\* On unix an edit in place was computed from the very version it replaced,
\* whoever renames or rewrites the file while it is read: the snapshot is taken
\* first, and no version comes back (StagedOutput::new, recheck_destination).
THEOREM EditIsOfWhatItReplaces == Spec => []EditsWhatItReplaces
<1>1. IInv /\ UnixInv => EditsWhatItReplaces
  BY DEF IInv, TypeOK, Own, Stage, UnixInv, EditsInPlace, EditsWhatItReplaces
<1>2. platform # "unix" => EditsWhatItReplaces
  BY DEF EditsWhatItReplaces
<1>3. TypeOK /\ platform # "unix" /\ [Next]_vars => (platform # "unix")'
  <2>1. TypeOK /\ (\E p \in Procs : Act(p)) => platform' = platform
    BY FaultsAct
  <2> QED
    BY <2>1 DEF Next, Act, AllStopped, OtherProgram, vars, given
<1>4. Spec /\ platform # "unix" => [](platform # "unix")
  BY <1>3, TypeCorrect, PTL DEF Spec
<1>5. platform = "unix" \/ platform # "unix"
  OBVIOUS
<1> QED
  BY <1>1, <1>2, <1>4, <1>5, Invariance, UnixInvariance, PTL

\* On unix the private copy a command's writer and hash see is one version of
\* the input, whatever is written to it during the copy (copy_input_snapshot).
THEOREM CopyIsWhole == Spec /\ platform = "unix" => []InputIsWhole
<1>1. IInv /\ UnixInv => InputIsWhole
  BY DEF IInv, TypeOK, Own, Stage, UnixInv, CopiesOne, InputIsWhole
<1> QED
  BY <1>1, Invariance, UnixInvariance, PTL
=============================================================================
