--------------------------- MODULE OutputPairProofs ---------------------------
(***************************************************************************)
(* What OutputPair promises, proved for any number of failing calls and of *)
(* steps of another program, and a process death anywhere: what the caller *)
(* is told is true, body and media belong together, no workspace is left   *)
(* unaccounted for, and the pair is published as Publication says.         *)
(***************************************************************************)
EXTENDS OutputPair, TLAPS

(***************************************************************************)
(* The invariant                                                           *)
(***************************************************************************)

Staging    == {"overlap", "stageBody", "stageMedia", "copy", "recheckCopy", "write"}
Alone      == {"recheckAlone", "publishAlone"}
Checking   == {"recheckBody", "recheckMedia", "inherit"}
Moving     == {"backupMedia", "backupBody", "publishMedia", "publishBody"}
Recovering == {"removeMedia", "restoreMedia", "restoreBody"}
Cleaning   == {"cleanBody", "cleanMedia", "syncParents"}
Returned   == {"drop", "done"}

\* Nothing has been moved; and no destination holds anything of the command's.
Intact    == Staging \cup Alone \cup Checking \cup {"backupMedia"}
NothingIn == Intact \cup {"backupBody", "publishMedia"}

\* What a destination may hold that the command did not put there, so far.
Found == {Missing, Unsafe} \cup {Old(i) : i \in Items} \cup {Ext(n) : n \in 1..ext}

Had     == {i \in Items : snapshot[i] # Missing}
Mine(i) == i \notin disturbed

\* The snapshots, and what stands at the destinations before the first rename.
Looked ==
  /\ \A i \in Items : snapshot[i] \in Found \ {Unsafe}
  /\ pc \in NothingIn \/ result = "error" => \A i \in Items : dest[i] \in Found
  /\ pc \in {"overlap", "stageBody"} => snapshot[Body] = Missing
  /\ pc \in {"overlap", "stageBody", "stageMedia"} => snapshot[Media] = Missing
  /\ pc \in {"copy", "recheckCopy"} => snapshot[Media] # Missing

\* How far the staging has come: the copy is of the tree that was inspected, or
\* that tree has changed since.
Staged ==
  /\ pc \in Staging \ {"recheckCopy", "write"} => staged[Media] = Missing
  /\ pc = "recheckCopy" => staged[Media] = snapshot[Media] \/ dest[Media] # snapshot[Media]
  /\ pc = "write" => staged[Media] = snapshot[Media]
  /\ pc \in Alone \cup Checking \cup Moving => staged[Body] = New(Body)
  /\ pc \in Checking \cup (Moving \ {"publishBody"}) => staged[Media] = New(Media)
  /\ pc \in Staging \cup Alone => ~changed
  /\ pc \in Checking \cup Moving \cup Recovering \cup Cleaning => changed

\* Whose workspace exists, and who owns it.
Owned ==
  /\ pc \in {"overlap", "stageBody"} => workspace = {} /\ owned = {}
  /\ pc = "stageMedia" => workspace = {Body} /\ owned = {Body}
  /\ pc \in {"copy", "recheckCopy"} => workspace = Items /\ owned = {Body}
  /\ pc \in {"write"} \cup Alone \cup Checking \cup Moving \cup Recovering \cup Cleaning =>
       workspace = Items /\ owned = Items

\* What was moved aside and moved in so far.
Progress ==
  /\ backedUp \subseteq Had
  /\ pc \in Intact \/ result = "error" => backedUp = {}
  /\ pc = "backupBody" => backedUp = Had \cap {Media}
  /\ pc \in {"publishMedia", "publishBody"} \cup Cleaning => backedUp = Had
  /\ pc \in NothingIn \/ result = "error" => published = {}
  /\ pc = "publishBody" => published = {Media}
  /\ pc \in Recovering => published = {} \/ (published = {Media} /\ backedUp = Had)
  /\ pc \in Cleaning => published = Items

\* What went wrong, and what the caller is told of it.
Answered ==
  /\ pc \notin Returned \cup {"crashed"} => result = "none"
  /\ pc \in Returned => result # "none"
  /\ preserve \subseteq recErr
  /\ pc \in NothingIn \cup {"publishBody", "removeMedia"} => restored = {} /\ recErr = {}
  /\ pc = "restoreMedia" => restored = {} /\ preserve = {}
  /\ pc = "restoreBody" => restored \subseteq {Media}
  /\ result \in {"error", "restored", "ok"} => recErr = {}
  /\ result = "warned" => faults > 0
  /\ pc \in Cleaning => restored = {} /\ (recErr # {} => faults > 0)

\* What the backups hold, and which of them are to be kept.
Kept ==
  /\ \A i \in Items : backup[i] # Missing => i \in backedUp \ restored
  /\ \A i \in backedUp \ restored :
       /\ \/ pc \in Moving \cup Recovering \cup {"cleanBody"}
          \/ pc = "cleanMedia" /\ i = Media
          => backup[i] \in Found \ {Missing}
       /\ pc \in Moving \cup Recovering /\ Mine(i) => backup[i] = snapshot[i]
       /\ pc = "restoreBody" /\ i = Media => i \in preserve
  /\ pc = "cleanMedia" => (backup[Body] # Missing => Body \in preserve)
  /\ pc = "syncParents" => \A i \in Items : backup[i] # Missing => i \in preserve
  /\ pc \in Returned => \A i \in Items : backup[i] # Missing => i \in workspace \cap preserve

\* After the recovery: old, or kept, or what is left of new media.
Recovered(i) ==
  \/ dest[i] = snapshot[i]
  \/ i \in preserve /\ backup[i] = snapshot[i]
  \/ snapshot[i] = Missing /\ i \in published /\ dest[i] \in {New(i), Partial}

\* What the calls have left at a destination nobody else has written.
Ended(i) ==
  pc \in Returned =>
    /\ result = "restored" => dest[i] = snapshot[i]
    /\ result = "incomplete" => Recovered(i)
    /\ result \in {"ok", "warned"} => (i = Body \/ changed => dest[i] = New(i))

BodyPlaced ==
  /\ pc \in {"recheckMedia", "inherit", "backupMedia", "backupBody", "publishAlone"} =>
       dest[Body] = snapshot[Body]
  /\ pc \in {"publishMedia", "publishBody"} => dest[Body] = Missing
  /\ pc \in Recovering => dest[Body] = IF Body \in backedUp THEN Missing ELSE snapshot[Body]
  /\ pc \in Cleaning => dest[Body] = New(Body)

MediaPlaced ==
  /\ pc \in {"inherit", "backupMedia"} => dest[Media] = snapshot[Media]
  /\ pc \in {"backupBody", "publishMedia"} => dest[Media] = Missing
  /\ pc \in {"publishBody"} \cup Cleaning => dest[Media] = New(Media)
  /\ pc = "removeMedia" =>
       dest[Media] = IF Media \in published THEN New(Media)
                     ELSE IF Media \in backedUp THEN Missing ELSE snapshot[Media]
  /\ pc = "restoreMedia" =>
       IF Media \in recErr THEN Media \in published /\ dest[Media] \in {New(Media), Partial}
       ELSE dest[Media] = IF Media \in backedUp THEN Missing ELSE snapshot[Media]
  /\ pc = "restoreBody" =>
       IF Media \in recErr THEN Recovered(Media) ELSE dest[Media] = snapshot[Media]

Placed ==
  /\ Mine(Body) => BodyPlaced
  /\ Mine(Media) => MediaPlaced
  /\ \A i \in Items : Mine(i) => Ended(i)

IInv ==
  /\ TypeOK
  /\ Looked /\ Staged /\ Owned /\ Progress /\ Answered /\ Kept
  /\ Placed
  /\ PairIsNeverMixed
  /\ WorkspacesAreAccountedFor

-----------------------------------------------------------------------------
(***************************************************************************)
(* Lemmas                                                                  *)
(***************************************************************************)

\* There are two items.
LEMMA ItemFacts ==
  /\ Body \in Items /\ Media \in Items /\ Body # Media
  /\ \A i \in Items : i = Body \/ i = Media
BY DEF Items, Body, Media

\* What a destination may hold is told apart by its kind from what the command
\* puts there.
LEMMA VersionFacts ==
  /\ Found \subseteq Version
  /\ Missing \in Found /\ Unsafe \in Found /\ Missing # Unsafe
  /\ Partial \in Version /\ Partial \notin Found /\ Partial.kind = "partial"
  /\ \A i \in Items : /\ Old(i) \in Found
                      /\ New(i) \in Version /\ New(i) \notin Found /\ New(i).kind = "new"
  /\ \A v \in Found : /\ v.kind \in {"missing", "unsafe", "old", "ext"}
                      /\ (v.kind = "missing") = (v = Missing)
                      /\ (v.kind = "unsafe") = (v = Unsafe)
                      /\ Inspectable(v) = (v # Unsafe)
<1>1. \A i \in Items : i \in Nat
  BY DEF Items, Body, Media
<1>2. Found \subseteq Version
  BY <1>1, BoundsAssumption DEF Found, Missing, Unsafe, Old, Ext, Version, Kinds
<1>3. ASSUME NEW v \in Found
      PROVE  /\ v.kind \in {"missing", "unsafe", "old", "ext"}
             /\ (v.kind = "missing") = (v = Missing)
             /\ (v.kind = "unsafe") = (v = Unsafe)
             /\ Inspectable(v) = (v # Unsafe)
  BY DEF Found, Missing, Unsafe, Old, Ext, Inspectable
<1>4. Partial \in Version /\ \A i \in Items : New(i) \in Version
  BY <1>1 DEF Partial, New, Version, Kinds
<1>5. Partial.kind = "partial" /\ \A i \in Items : New(i).kind = "new"
  BY DEF Partial, New
<1>6. Missing \in Found /\ Unsafe \in Found /\ \A i \in Items : Old(i) \in Found
  BY DEF Found
<1>7. Partial \notin Found /\ \A i \in Items : New(i) \notin Found
  BY <1>3, <1>5
<1>8. Missing # Unsafe
  BY DEF Missing, Unsafe
<1> QED
  BY <1>2, <1>3, <1>4, <1>5, <1>6, <1>7, <1>8

\* Another program's step is a version nobody has seen.
LEMMA FoundLater ==
  ASSUME TypeOK, OtherProgram
  PROVE  Found \subseteq Found' /\ Ext(ext + 1) \in Found' /\ Ext(ext + 1) \notin Found
<1>1. ext \in Nat /\ ext' = ext + 1
  BY BoundsAssumption DEF TypeOK, OtherProgram
<1>2. Found \subseteq Found' /\ Ext(ext + 1) \in Found'
  BY <1>1 DEF Found
<1>3. ASSUME Ext(ext + 1) \in Found PROVE FALSE
  <2>1. PICK n \in 1..ext : Ext(ext + 1) = Ext(n)
    BY <1>3 DEF Found, Ext, Missing, Unsafe, Old
  <2>2. Ext(ext + 1).id = ext + 1 /\ Ext(n).id = n
    BY DEF Ext
  <2> QED
    BY <1>1, <2>1, <2>2
<1> QED
  BY <1>2, <1>3

\* The command itself finds nothing new.
LEMMA FoundGrows == ext' = ext => Found' = Found
BY DEF Found

\* A snapshot is of what was found, and is not of what is refused.
LEMMA LookAt ==
  ASSUME TypeOK, NEW i \in Items, dest[i] \in Found, ext' = ext,
         \A j \in Items : snapshot[j] \in Found \ {Unsafe},
         \/ snapshot' = snapshot
         \/ snapshot' = [snapshot EXCEPT ![i] = dest[i]] /\ Inspectable(dest[i])
  PROVE  /\ \A j \in Items : snapshot'[j] \in Found' \ {Unsafe}
         /\ \A j \in Items : j # i => snapshot'[j] = snapshot[j]
<1>1. Found' = Found
  BY FoundGrows
<1>2. dest[i] = Unsafe => ~Inspectable(dest[i])
  BY DEF Inspectable, Unsafe
<1>3. CASE snapshot' = snapshot
  BY <1>1, <1>3
<1>4. CASE snapshot' = [snapshot EXCEPT ![i] = dest[i]] /\ Inspectable(dest[i])
  BY <1>1, <1>2, <1>4 DEF TypeOK
<1> QED
  BY <1>3, <1>4

\* Every call keeps every variable in its type.
LEMMA TypeStep == IInv /\ (Step \/ Crash) => TypeOK'
<1> SUFFICES ASSUME IInv, Step \/ Crash PROVE TypeOK'
  OBVIOUS
<1> USE ItemFacts, VersionFacts, FoundGrows, BoundsAssumption DEF IInv, TypeOK, PCs,
        Results, Staging, Alone, Checking, Moving, Recovering, Cleaning, Returned,
        Intact, NothingIn, Fault, Fails, Return, Goto, Try, fsVars, procVars,
        obsVars
<1>1. CASE RejectOverlap \/ RecheckAlone \/ RecheckBody \/ RecheckMedia \/
          InheritPermissions \/ Crash
  BY <1>1
     DEF RejectOverlap, RecheckAlone, RecheckBody, RecheckMedia,
         InheritPermissions, Crash, Owned, Answered, Looked, Recheck
<1>2. CASE StageBody
  BY <1>2 DEF StageBody, Owned, Answered, Looked
<1>3. CASE StageMedia
  BY <1>3 DEF StageMedia, Owned, Answered, Looked
<1>4. CASE CopyTree \/ RecheckCopy
  BY <1>4 DEF CopyTree, RecheckCopy, Owned, Answered, Looked, Recheck
<1>5. CASE WriteStaged
  <2>1. staged' \in [Items -> Version] /\ changed' \in BOOLEAN
    <3>1. CASE staged' = staged /\ changed' = changed
      BY <3>1
    <3>2. CASE staged' # staged \/ changed' # changed
      <4>1. PICK tree \in {staged[Media], New(Media)} :
              /\ staged' = [i \in Items |-> IF i = Body THEN New(Body) ELSE tree]
              /\ changed' = IsChanged(tree, snapshot[Media])
        BY <1>5, <3>2 DEF WriteStaged
      <4>2. tree \in Version /\ New(Body) \in Version
        BY ItemFacts, VersionFacts
      <4> QED
        BY <4>1, <4>2 DEF IsChanged
    <3> QED
      BY <3>1, <3>2
  <2> QED
    BY <1>5, <2>1 DEF WriteStaged
<1>6. CASE PublishAlone
  BY <1>6 DEF PublishAlone, Owned, Answered, Looked
<1>7. CASE BackUpMedia
  BY <1>7 DEF BackUpMedia, Owned, Answered, Looked, BackUp
<1>8. CASE BackUpBody
  BY <1>8 DEF BackUpBody, Owned, Answered, Looked, BackUp
<1>9. CASE PublishMedia \/ PublishBody
  BY <1>9 DEF PublishMedia, PublishBody, Owned, Answered, Looked, MoveIn, Blocked
<1>10. CASE RemoveMedia
  BY <1>10 DEF RemoveMedia, Owned, Answered, Looked
<1>11. CASE RestoreMedia
  BY <1>11 DEF RestoreMedia, Owned, Answered, Looked, Restore, Blocked
<1>12. CASE RestoreBody
  BY <1>12 DEF RestoreBody, Owned, Answered, Looked, Restore, Blocked, RecoveryTold
<1>13. CASE CleanBody \/ CleanMedia
  BY <1>13 DEF CleanBody, CleanMedia, Owned, Answered, Looked, CleanUp
<1>14. CASE SyncParents
  BY <1>14 DEF SyncParents, Owned, Answered, Looked
<1>15. CASE Drop
  BY <1>15 DEF Drop, Owned, Answered, Looked, Sweeps
<1> QED
  BY <1>1, <1>2, <1>3, <1>4, <1>5, <1>6, <1>7, <1>8, <1>9, <1>10, <1>11, <1>12,
     <1>13, <1>14, <1>15 DEF Step

\* What stands at the destinations before the first rename was found there.
LEMMA LookedStep == IInv /\ (Step \/ Crash) => Looked'
<1> SUFFICES ASSUME IInv, Step \/ Crash PROVE Looked'
  OBVIOUS
<1> USE ItemFacts, VersionFacts, FoundGrows, BoundsAssumption DEF IInv, TypeOK,
        Looked, Answered, Staging, Alone, Checking, Moving, Recovering, Cleaning,
        Returned, Intact, NothingIn, Fault, Fails, Return, Goto, Try, fsVars,
        procVars, obsVars
<1>1. CASE RejectOverlap \/ RecheckAlone \/ RecheckBody \/ RecheckMedia \/
          InheritPermissions \/ Crash
  BY <1>1
     DEF RejectOverlap, RecheckAlone, RecheckBody, RecheckMedia,
         InheritPermissions, Crash, Recheck
<1>2. CASE StageBody
  <2>1. /\ ext' = ext /\ dest' = dest /\ pc = "stageBody" /\ pc' \in {"stageMedia", "drop"}
        /\ \/ snapshot' = snapshot
           \/ snapshot' = [snapshot EXCEPT ![Body] = dest[Body]] /\ Inspectable(dest[Body])
    BY <1>2 DEF StageBody
  <2>2. /\ \A i \in Items : snapshot'[i] \in Found' \ {Unsafe}
        /\ \A i \in Items : i # Body => snapshot'[i] = snapshot[i]
    BY <2>1, LookAt
  <2>3. \A i \in Items : dest[i] \in Found
    BY <2>1
  <2>4. Found' = Found
    BY <2>1
  <2>5. snapshot'[Media] = Missing
    BY <2>1, <2>2
  <2> QED
    BY <2>1, <2>2, <2>3, <2>4, <2>5
<1>3. CASE StageMedia
  <2>1. /\ ext' = ext /\ dest' = dest /\ pc = "stageMedia" /\ pc' \in {"write", "copy", "drop"}
        /\ \/ snapshot' = snapshot
           \/ snapshot' = [snapshot EXCEPT ![Media] = dest[Media]] /\ Inspectable(dest[Media])
    BY <1>3 DEF StageMedia
  <2>2. /\ \A i \in Items : snapshot'[i] \in Found' \ {Unsafe}
        /\ \A i \in Items : i # Media => snapshot'[i] = snapshot[i]
    BY <2>1, LookAt
  <2>3. \A i \in Items : dest[i] \in Found
    BY <2>1
  <2>4. Found' = Found
    BY <2>1
  <2>5. pc' = "copy" => snapshot'[Media] # Missing
    BY <1>3, <2>1 DEF StageMedia
  <2> QED
    BY <2>1, <2>2, <2>3, <2>4, <2>5
<1>4. CASE CopyTree \/ RecheckCopy
  BY <1>4 DEF CopyTree, RecheckCopy, Recheck
<1>5. CASE WriteStaged
  BY <1>5 DEF WriteStaged, IsChanged
<1>6. CASE PublishAlone
  BY <1>6 DEF PublishAlone
<1>7. CASE BackUpMedia
  BY <1>7 DEF BackUpMedia, BackUp
<1>8. CASE BackUpBody
  BY <1>8 DEF BackUpBody, BackUp
<1>9. CASE PublishMedia \/ PublishBody
  BY <1>9 DEF PublishMedia, PublishBody, MoveIn, Blocked
<1>10. CASE RemoveMedia
  BY <1>10 DEF RemoveMedia
<1>11. CASE RestoreMedia
  BY <1>11 DEF RestoreMedia, Restore, Blocked
<1>12. CASE RestoreBody
  BY <1>12 DEF RestoreBody, Restore, Blocked, RecoveryTold
<1>13. CASE CleanBody \/ CleanMedia
  BY <1>13 DEF CleanBody, CleanMedia, CleanUp
<1>14. CASE SyncParents
  BY <1>14 DEF SyncParents
<1>15. CASE Drop
  BY <1>15 DEF Drop, Sweeps
<1> QED
  BY <1>1, <1>2, <1>3, <1>4, <1>5, <1>6, <1>7, <1>8, <1>9, <1>10, <1>11, <1>12,
     <1>13, <1>14, <1>15 DEF Step

\* The staging makes what is to be moved in.
LEMMA StagedStep == IInv /\ (Step \/ Crash) => Staged'
<1> SUFFICES ASSUME IInv, Step \/ Crash PROVE Staged'
  OBVIOUS
<1> USE ItemFacts, VersionFacts, FoundGrows, BoundsAssumption DEF IInv, TypeOK,
        Looked, Staged, Had, Staging, Alone, Checking, Moving, Recovering, Cleaning,
        Returned, Intact, NothingIn, Fault, Fails, Return, Goto, Try, fsVars,
        procVars, obsVars
<1>1. CASE RejectOverlap \/ RecheckAlone \/ RecheckBody \/ RecheckMedia \/
          InheritPermissions \/ Crash
  BY <1>1
     DEF RejectOverlap, RecheckAlone, RecheckBody, RecheckMedia,
         InheritPermissions, Crash, Recheck
<1>2. CASE StageBody
  BY <1>2 DEF StageBody
<1>3. CASE StageMedia
  BY <1>3 DEF StageMedia
<1>4. CASE CopyTree \/ RecheckCopy
  BY <1>4 DEF CopyTree, RecheckCopy, Recheck
<1>5. CASE WriteStaged
  BY <1>5 DEF WriteStaged, IsChanged
<1>6. CASE PublishAlone
  BY <1>6 DEF PublishAlone
<1>7. CASE BackUpMedia
  BY <1>7 DEF BackUpMedia, BackUp
<1>8. CASE BackUpBody
  BY <1>8 DEF BackUpBody, BackUp
<1>9. CASE PublishMedia \/ PublishBody
  BY <1>9 DEF PublishMedia, PublishBody, MoveIn, Blocked
<1>10. CASE RemoveMedia
  BY <1>10 DEF RemoveMedia
<1>11. CASE RestoreMedia
  BY <1>11 DEF RestoreMedia, Restore, Blocked
<1>12. CASE RestoreBody
  BY <1>12 DEF RestoreBody, Restore, Blocked, RecoveryTold
<1>13. CASE CleanBody \/ CleanMedia
  BY <1>13 DEF CleanBody, CleanMedia, CleanUp
<1>14. CASE SyncParents
  BY <1>14 DEF SyncParents
<1>15. CASE Drop
  BY <1>15 DEF Drop, Sweeps
<1> QED
  BY <1>1, <1>2, <1>3, <1>4, <1>5, <1>6, <1>7, <1>8, <1>9, <1>10, <1>11, <1>12,
     <1>13, <1>14, <1>15 DEF Step

\* Workspaces exist and are owned in this order.
LEMMA OwnedStep == IInv /\ (Step \/ Crash) => Owned'
<1> SUFFICES ASSUME IInv, Step \/ Crash PROVE Owned'
  OBVIOUS
<1> USE ItemFacts, VersionFacts, FoundGrows, BoundsAssumption DEF IInv, TypeOK,
        Looked, Owned, Items, Staging, Alone, Checking, Moving, Recovering,
        Cleaning, Returned, Intact, NothingIn, Fault, Fails, Return, Goto, Try,
        fsVars, procVars, obsVars
<1>1. CASE RejectOverlap \/ RecheckAlone \/ RecheckBody \/ RecheckMedia \/
          InheritPermissions \/ Crash
  BY <1>1
     DEF RejectOverlap, RecheckAlone, RecheckBody, RecheckMedia,
         InheritPermissions, Crash, Recheck
<1>2. CASE StageBody
  BY <1>2 DEF StageBody
<1>3. CASE StageMedia
  BY <1>3 DEF StageMedia
<1>4. CASE CopyTree \/ RecheckCopy
  BY <1>4 DEF CopyTree, RecheckCopy, Recheck
<1>5. CASE WriteStaged
  BY <1>5 DEF WriteStaged, IsChanged
<1>6. CASE PublishAlone
  BY <1>6 DEF PublishAlone
<1>7. CASE BackUpMedia
  BY <1>7 DEF BackUpMedia, BackUp
<1>8. CASE BackUpBody
  BY <1>8 DEF BackUpBody, BackUp
<1>9. CASE PublishMedia \/ PublishBody
  BY <1>9 DEF PublishMedia, PublishBody, MoveIn, Blocked
<1>10. CASE RemoveMedia
  BY <1>10 DEF RemoveMedia
<1>11. CASE RestoreMedia
  BY <1>11 DEF RestoreMedia, Restore, Blocked
<1>12. CASE RestoreBody
  BY <1>12 DEF RestoreBody, Restore, Blocked, RecoveryTold
<1>13. CASE CleanBody \/ CleanMedia
  BY <1>13 DEF CleanBody, CleanMedia, CleanUp
<1>14. CASE SyncParents
  BY <1>14 DEF SyncParents
<1>15. CASE Drop
  BY <1>15 DEF Drop, Sweeps
<1> QED
  BY <1>1, <1>2, <1>3, <1>4, <1>5, <1>6, <1>7, <1>8, <1>9, <1>10, <1>11, <1>12,
     <1>13, <1>14, <1>15 DEF Step

\* Old ones are moved aside before new ones are moved in.
LEMMA ProgressStep == IInv /\ (Step \/ Crash) => Progress'
<1> SUFFICES ASSUME IInv, Step \/ Crash PROVE Progress'
  OBVIOUS
<1> USE ItemFacts, VersionFacts, FoundGrows, BoundsAssumption DEF IInv, TypeOK,
        Looked, Answered, Progress, Had, Items, Staging, Alone, Checking, Moving,
        Recovering, Cleaning, Returned, Intact, NothingIn, Fault, Fails, Return,
        Goto, Try, fsVars, procVars, obsVars
<1>1. CASE RejectOverlap \/ RecheckAlone \/ RecheckBody \/ RecheckMedia \/
          InheritPermissions \/ Crash
  BY <1>1
     DEF RejectOverlap, RecheckAlone, RecheckBody, RecheckMedia,
         InheritPermissions, Crash, Recheck
<1>2. CASE StageBody
  BY <1>2 DEF StageBody
<1>3. CASE StageMedia
  BY <1>3 DEF StageMedia
<1>4. CASE CopyTree \/ RecheckCopy
  BY <1>4 DEF CopyTree, RecheckCopy, Recheck
<1>5. CASE WriteStaged
  BY <1>5 DEF WriteStaged, IsChanged
<1>6. CASE PublishAlone
  BY <1>6 DEF PublishAlone
<1>7. CASE BackUpMedia
  BY <1>7 DEF BackUpMedia, BackUp
<1>8. CASE BackUpBody
  BY <1>8 DEF BackUpBody, BackUp
<1>9. CASE PublishMedia \/ PublishBody
  BY <1>9 DEF PublishMedia, PublishBody, MoveIn, Blocked
<1>10. CASE RemoveMedia
  BY <1>10 DEF RemoveMedia
<1>11. CASE RestoreMedia
  BY <1>11 DEF RestoreMedia, Restore, Blocked
<1>12. CASE RestoreBody
  BY <1>12 DEF RestoreBody, Restore, Blocked, RecoveryTold
<1>13. CASE CleanBody \/ CleanMedia
  BY <1>13 DEF CleanBody, CleanMedia, CleanUp
<1>14. CASE SyncParents
  BY <1>14 DEF SyncParents
<1>15. CASE Drop
  BY <1>15 DEF Drop, Sweeps
<1> QED
  BY <1>1, <1>2, <1>3, <1>4, <1>5, <1>6, <1>7, <1>8, <1>9, <1>10, <1>11, <1>12,
     <1>13, <1>14, <1>15 DEF Step

\* The caller is told once, and of what went wrong.
LEMMA AnsweredStep == IInv /\ (Step \/ Crash) => Answered'
<1> SUFFICES ASSUME IInv, Step \/ Crash PROVE Answered'
  OBVIOUS
<1> USE ItemFacts, VersionFacts, FoundGrows, BoundsAssumption DEF IInv, TypeOK,
        Progress, Answered, Staging, Alone, Checking, Moving, Recovering, Cleaning,
        Returned, Intact, NothingIn, Fault, Fails, Return, Goto, Try, fsVars,
        procVars, obsVars
<1>1. CASE RejectOverlap \/ RecheckAlone \/ RecheckBody \/ RecheckMedia \/
          InheritPermissions \/ Crash
  BY <1>1
     DEF RejectOverlap, RecheckAlone, RecheckBody, RecheckMedia,
         InheritPermissions, Crash, Recheck
<1>2. CASE StageBody
  BY <1>2 DEF StageBody
<1>3. CASE StageMedia
  BY <1>3 DEF StageMedia
<1>4. CASE CopyTree \/ RecheckCopy
  BY <1>4 DEF CopyTree, RecheckCopy, Recheck
<1>5. CASE WriteStaged
  BY <1>5 DEF WriteStaged, IsChanged
<1>6. CASE PublishAlone
  BY <1>6 DEF PublishAlone
<1>7. CASE BackUpMedia
  BY <1>7 DEF BackUpMedia, BackUp
<1>8. CASE BackUpBody
  BY <1>8 DEF BackUpBody, BackUp
<1>9. CASE PublishMedia \/ PublishBody
  BY <1>9 DEF PublishMedia, PublishBody, MoveIn, Blocked
<1>10. CASE RemoveMedia
  BY <1>10 DEF RemoveMedia
<1>11. CASE RestoreMedia
  BY <1>11 DEF RestoreMedia, Restore, Blocked
<1>12. CASE RestoreBody
  BY <1>12 DEF RestoreBody, Restore, Blocked, RecoveryTold
<1>13. CASE CleanBody \/ CleanMedia
  BY <1>13 DEF CleanBody, CleanMedia, CleanUp
<1>14. CASE SyncParents
  BY <1>14 DEF SyncParents
<1>15. CASE Drop
  BY <1>15 DEF Drop, Sweeps
<1> QED
  BY <1>1, <1>2, <1>3, <1>4, <1>5, <1>6, <1>7, <1>8, <1>9, <1>10, <1>11, <1>12,
     <1>13, <1>14, <1>15 DEF Step

\* A backup holds the old one until it is put back, given up or to be kept.
LEMMA KeptStep == IInv /\ (Step \/ Crash) => Kept'
<1> SUFFICES ASSUME IInv, Step \/ Crash PROVE Kept'
  OBVIOUS
<1> USE ItemFacts, VersionFacts, FoundGrows, BoundsAssumption DEF IInv, TypeOK,
        Looked, Owned, Progress, Answered, Kept, Placed, BodyPlaced, MediaPlaced,
        Mine, Had, Staging, Alone, Checking, Moving, Recovering, Cleaning, Returned,
        Intact, NothingIn, Fault, Fails, Return, Goto, Try, fsVars, procVars,
        obsVars
<1>1. CASE RejectOverlap \/ RecheckAlone \/ RecheckBody \/ RecheckMedia \/
          InheritPermissions \/ Crash
  BY <1>1
     DEF RejectOverlap, RecheckAlone, RecheckBody, RecheckMedia,
         InheritPermissions, Crash, Recheck
<1>2. CASE StageBody
  BY <1>2 DEF StageBody
<1>3. CASE StageMedia
  BY <1>3 DEF StageMedia
<1>4. CASE CopyTree \/ RecheckCopy
  BY <1>4 DEF CopyTree, RecheckCopy, Recheck
<1>5. CASE WriteStaged
  BY <1>5 DEF WriteStaged, IsChanged
<1>6. CASE PublishAlone
  BY <1>6 DEF PublishAlone
<1>7. CASE BackUpMedia
  BY <1>7 DEF BackUpMedia, BackUp
<1>8. CASE BackUpBody
  BY <1>8 DEF BackUpBody, BackUp
<1>9. CASE PublishMedia \/ PublishBody
  BY <1>9 DEF PublishMedia, PublishBody, MoveIn, Blocked
<1>10. CASE RemoveMedia
  BY <1>10 DEF RemoveMedia
<1>11. CASE RestoreMedia
  BY <1>11 DEF RestoreMedia, Restore, Blocked
<1>12. CASE RestoreBody
  BY <1>12 DEF RestoreBody, Restore, Blocked, RecoveryTold
<1>13. CASE CleanBody \/ CleanMedia
  BY <1>13 DEF CleanBody, CleanMedia, CleanUp
<1>14. CASE SyncParents
  BY <1>14 DEF SyncParents
<1>15. CASE Drop
  BY <1>15 DEF Drop, Sweeps
<1> QED
  BY <1>1, <1>2, <1>3, <1>4, <1>5, <1>6, <1>7, <1>8, <1>9, <1>10, <1>11, <1>12,
     <1>13, <1>14, <1>15 DEF Step

\* The calls leave at the destinations what they should.
LEMMA PlacedStep == IInv /\ (Step \/ Crash) => Placed'
<1> SUFFICES ASSUME IInv, Step \/ Crash PROVE Placed'
  OBVIOUS
<1> USE ItemFacts, VersionFacts, FoundGrows, BoundsAssumption DEF IInv, TypeOK,
        Looked, Staged, Progress, Answered, Kept, Placed, BodyPlaced, MediaPlaced,
        Mine, Ended, Recovered, Had, Staging, Alone, Checking, Moving, Recovering,
        Cleaning, Returned, Intact, NothingIn, Fault, Fails, Return, Goto, Try,
        fsVars, procVars, obsVars
<1>1. CASE RejectOverlap \/ RecheckAlone \/ RecheckBody \/ RecheckMedia \/
          InheritPermissions \/ Crash
  BY <1>1
     DEF RejectOverlap, RecheckAlone, RecheckBody, RecheckMedia,
         InheritPermissions, Crash, Recheck
<1>2. CASE StageBody
  BY <1>2 DEF StageBody
<1>3. CASE StageMedia
  BY <1>3 DEF StageMedia
<1>4. CASE CopyTree \/ RecheckCopy
  BY <1>4 DEF CopyTree, RecheckCopy, Recheck
<1>5. CASE WriteStaged
  BY <1>5 DEF WriteStaged, IsChanged
<1>6. CASE PublishAlone
  BY <1>6 DEF PublishAlone
<1>7. CASE BackUpMedia
  BY <1>7 DEF BackUpMedia, BackUp
<1>8. CASE BackUpBody
  BY <1>8 DEF BackUpBody, BackUp
<1>9. CASE PublishMedia \/ PublishBody
  BY <1>9 DEF PublishMedia, PublishBody, MoveIn, Blocked
<1>10. CASE RemoveMedia
  BY <1>10 DEF RemoveMedia
<1>11. CASE RestoreMedia
  BY <1>11 DEF RestoreMedia, Restore, Blocked
<1>12. CASE RestoreBody
  <2>1. pc = "restoreBody" /\ pc' = "drop" /\ disturbed' = disturbed
    BY <1>12 DEF RestoreBody
  <2>2. Mine(Body) => Ended(Body)'
    BY <1>12, <2>1 DEF RestoreBody, Restore, Blocked, RecoveryTold
  <2>3. Mine(Media) => Ended(Media)'
    BY <1>12, <2>1 DEF RestoreBody, Restore, Blocked, RecoveryTold
  <2> QED
    BY <2>1, <2>2, <2>3
<1>13. CASE CleanBody \/ CleanMedia
  BY <1>13 DEF CleanBody, CleanMedia, CleanUp
<1>14. CASE SyncParents
  BY <1>14 DEF SyncParents
<1>15. CASE Drop
  BY <1>15 DEF Drop, Sweeps
<1> QED
  BY <1>1, <1>2, <1>3, <1>4, <1>5, <1>6, <1>7, <1>8, <1>9, <1>10, <1>11, <1>12,
     <1>13, <1>14, <1>15 DEF Step

\* No call puts a body beside media that are not its own.
LEMMA MixedStep == IInv /\ (Step \/ Crash) => PairIsNeverMixed'
<1> SUFFICES ASSUME IInv, Step \/ Crash PROVE PairIsNeverMixed'
  OBVIOUS
<1> USE ItemFacts, VersionFacts, FoundGrows, BoundsAssumption DEF IInv, TypeOK,
        Looked, Staged, Progress, Answered, Kept, Placed, BodyPlaced, MediaPlaced,
        Mine, Ended, Recovered, Had, PairIsNeverMixed, Staging, Alone, Checking,
        Moving, Recovering, Cleaning, Returned, Intact, NothingIn, Fault, Fails,
        Return, Goto, Try, fsVars, procVars, obsVars
<1>1. CASE RejectOverlap \/ RecheckAlone \/ RecheckBody \/ RecheckMedia \/
          InheritPermissions \/ Crash
  BY <1>1
     DEF RejectOverlap, RecheckAlone, RecheckBody, RecheckMedia,
         InheritPermissions, Crash, Recheck
<1>2. CASE StageBody
  BY <1>2 DEF StageBody
<1>3. CASE StageMedia
  BY <1>3 DEF StageMedia
<1>4. CASE CopyTree \/ RecheckCopy
  BY <1>4 DEF CopyTree, RecheckCopy, Recheck
<1>5. CASE WriteStaged
  BY <1>5 DEF WriteStaged, IsChanged
<1>6. CASE PublishAlone
  BY <1>6 DEF PublishAlone
<1>7. CASE BackUpMedia
  BY <1>7 DEF BackUpMedia, BackUp
<1>8. CASE BackUpBody
  BY <1>8 DEF BackUpBody, BackUp
<1>9. CASE PublishMedia \/ PublishBody
  BY <1>9 DEF PublishMedia, PublishBody, MoveIn, Blocked
<1>10. CASE RemoveMedia
  BY <1>10 DEF RemoveMedia
<1>11. CASE RestoreMedia
  BY <1>11 DEF RestoreMedia, Restore, Blocked
<1>12. CASE RestoreBody
  BY <1>12 DEF RestoreBody, Restore, Blocked, RecoveryTold
<1>13. CASE CleanBody \/ CleanMedia
  BY <1>13 DEF CleanBody, CleanMedia, CleanUp
<1>14. CASE SyncParents
  BY <1>14 DEF SyncParents
<1>15. CASE Drop
  BY <1>15 DEF Drop, Sweeps
<1> QED
  BY <1>1, <1>2, <1>3, <1>4, <1>5, <1>6, <1>7, <1>8, <1>9, <1>10, <1>11, <1>12,
     <1>13, <1>14, <1>15 DEF Step

\* What Drop leaves is what the message speaks of, or what could not be removed.
LEMMA AccountedStep == IInv /\ (Step \/ Crash) => WorkspacesAreAccountedFor'
<1> SUFFICES ASSUME IInv, Step \/ Crash PROVE WorkspacesAreAccountedFor'
  OBVIOUS
<1> USE ItemFacts, VersionFacts, FoundGrows, BoundsAssumption DEF IInv, TypeOK,
        Owned, Progress, Answered, Kept, WorkspacesAreAccountedFor, Staging, Alone,
        Checking, Moving, Recovering, Cleaning, Returned, Intact, NothingIn, Fault,
        Fails, Return, Goto, Try, fsVars, procVars, obsVars
<1>1. CASE RejectOverlap \/ RecheckAlone \/ RecheckBody \/ RecheckMedia \/
          InheritPermissions \/ Crash
  BY <1>1
     DEF RejectOverlap, RecheckAlone, RecheckBody, RecheckMedia,
         InheritPermissions, Crash, Recheck
<1>2. CASE StageBody
  BY <1>2 DEF StageBody
<1>3. CASE StageMedia
  BY <1>3 DEF StageMedia
<1>4. CASE CopyTree \/ RecheckCopy
  BY <1>4 DEF CopyTree, RecheckCopy, Recheck
<1>5. CASE WriteStaged
  BY <1>5 DEF WriteStaged, IsChanged
<1>6. CASE PublishAlone
  BY <1>6 DEF PublishAlone
<1>7. CASE BackUpMedia
  BY <1>7 DEF BackUpMedia, BackUp
<1>8. CASE BackUpBody
  BY <1>8 DEF BackUpBody, BackUp
<1>9. CASE PublishMedia \/ PublishBody
  BY <1>9 DEF PublishMedia, PublishBody, MoveIn, Blocked
<1>10. CASE RemoveMedia
  BY <1>10 DEF RemoveMedia
<1>11. CASE RestoreMedia
  BY <1>11 DEF RestoreMedia, Restore, Blocked
<1>12. CASE RestoreBody
  BY <1>12 DEF RestoreBody, Restore, Blocked, RecoveryTold
<1>13. CASE CleanBody \/ CleanMedia
  BY <1>13 DEF CleanBody, CleanMedia, CleanUp
<1>14. CASE SyncParents
  BY <1>14 DEF SyncParents
<1>15. CASE Drop
  <2>1. pc = "drop"
    BY <1>15 DEF Drop
  <2>2. PICK left \in SUBSET Items :
          LET gone == {i \in Items \ left : Sweeps(i)}
          IN  /\ IF left = {} THEN faults' = faults ELSE Fault
              /\ workspace' = workspace \ gone
              /\ backup' = [i \in Items |-> IF i \in gone THEN Missing ELSE backup[i]]
    BY <1>15 DEF Drop
  <2>3. UNCHANGED <<owned, preserve, recErr, result>>
    BY <1>15 DEF Drop
  <2>4. ASSUME NEW i \in Items, backup'[i] # Missing
        PROVE  i \in workspace' \cap preserve' /\ result' \in {"incomplete", "warned"}
    <3>1. backup[i] # Missing /\ i \in workspace \cap preserve
      BY <2>1, <2>2, <2>4
    <3>2. i \in workspace'
      BY <2>2, <3>1 DEF Sweeps
    <3>3. recErr # {} /\ result # "none"
      BY <2>1, <3>1
    <3> QED
      BY <2>3, <3>1, <3>2, <3>3 DEF Results
  <2>5. ASSUME faults' = 0, result' # "incomplete" PROVE workspace' \cap owned' = {}
    <3>1. left = {} /\ faults = 0
      BY <2>2, <2>5
    <3>2. result \in {"error", "restored", "ok"}
      BY <2>1, <2>3, <2>5, <3>1 DEF Results
    <3>3. preserve = {}
      BY <3>2
    <3> QED
      BY <2>2, <2>3, <3>1, <3>3 DEF Sweeps
  <2> QED
    BY <2>4, <2>5
<1> QED
  BY <1>1, <1>2, <1>3, <1>4, <1>5, <1>6, <1>7, <1>8, <1>9, <1>10, <1>11, <1>12,
     <1>13, <1>14, <1>15 DEF Step

\* Another program changes nothing that the calls rely on without disturbing it.
LEMMA OtherStep == IInv /\ OtherProgram => IInv'
<1> SUFFICES ASSUME IInv, OtherProgram PROVE IInv'
  OBVIOUS
<1> USE DEF IInv
<1>1. PICK i \in Items, v \in {Missing, Unsafe, Ext(ext + 1)} :
        /\ dest' = [dest EXCEPT ![i] = v]
        /\ disturbed' = disturbed \cup {j \in {i} : Rechecked(j)}
  BY DEF OtherProgram
<1>2. /\ ext' \in 0..MaxExt
      /\ UNCHANGED <<workspace, staged, backup, procVars, faults, restored>>
  BY BoundsAssumption DEF OtherProgram, TypeOK
<1>3. /\ v \in Found' /\ v \in Version /\ Found \subseteq Found'
      /\ \A j \in Items : v # New(j)
      /\ v # Partial /\ v.kind # "old"
      /\ v \in Found => v \in {Missing, Unsafe}
  <2>1. v \in Found' /\ Found \subseteq Found' /\ (v \in Found => v \in {Missing, Unsafe})
    BY FoundLater, VersionFacts
  <2>2. ext + 1 \in Nat
    BY DEF TypeOK
  <2> QED
    BY <2>1, <2>2 DEF Missing, Unsafe, Ext, New, Partial, Version, Kinds
<1>4. dest' \in [Items -> Version] /\ \A j \in Items : dest'[j] \in {dest[j], v}
  BY <1>1, <1>3 DEF TypeOK
<1>5. TypeOK'
  BY <1>1, <1>2, <1>4 DEF TypeOK, procVars
<1>6. Looked'
  BY <1>2, <1>3, <1>4 DEF Looked, procVars
<1>7. Staged'
  BY ItemFacts, <1>2, <1>3, <1>4 DEF Looked, Staged, procVars
<1>8. Owned' /\ Progress' /\ Answered'
  BY <1>2 DEF Owned, Progress, Answered, Had, procVars
<1>9. \A j \in Items : Rechecked(j) /\ Mine(j)' => Mine(j) /\ dest'[j] = dest[j]
  BY <1>1 DEF Mine, TypeOK
<1>10. Kept'
  BY <1>1, <1>2, <1>3 DEF Kept, Mine, procVars
<1>11. Placed'
  BY ItemFacts, <1>2, <1>9 DEF Placed, BodyPlaced, MediaPlaced, Ended, Recovered, Rechecked,
     Recovering, Cleaning, Returned, procVars
<1>12. PairIsNeverMixed'
  <2> SUFFICES ASSUME disturbed' = {} PROVE PairIsNeverMixed'
    BY DEF PairIsNeverMixed
  <2>1. disturbed = {} /\ ~Rechecked(i)
    BY <1>1
  <2>2. UNCHANGED <<changed, recErr, result, pc>>
    BY <1>2 DEF procVars
  <2>3. pc \in NothingIn
    BY <2>1, ItemFacts DEF Rechecked, NothingIn, Intact, Staging, Alone, Checking, TypeOK, PCs
  <2>4. \A j \in Items : dest'[j] \in Found'
    BY <1>3, <1>4, <2>2, <2>3 DEF Looked
  <2>5. \A j \in Items : dest'[j] # New(j) /\ dest'[j] # Partial
    BY <1>1, <1>3, <1>4, <2>3, VersionFacts DEF Looked
  <2> QED
    BY ItemFacts, <2>5 DEF PairIsNeverMixed
<1>13. WorkspacesAreAccountedFor'
  BY <1>2 DEF WorkspacesAreAccountedFor, procVars
<1> QED
  BY <1>5, <1>6, <1>7, <1>8, <1>10, <1>11, <1>12, <1>13

\* The command starts with nothing looked at and nothing moved.
LEMMA InitInv == Init => IInv
<1> SUFFICES ASSUME Init PROVE IInv
  OBVIOUS
<1>1. \A i \in Items : dest[i] \in Found
  <2>1. PICK had \in SUBSET Items, bad \in SUBSET Items :
          dest = [i \in Items |-> IF i \in bad THEN Unsafe
                                  ELSE IF i \in had THEN Old(i) ELSE Missing]
    BY DEF Init
  <2> QED
    BY <2>1, VersionFacts
<1>2. TypeOK
  <2>1. dest \in [Items -> Version]
    BY <1>1, VersionFacts DEF Init
  <2>2. [i \in Items |-> Missing] \in [Items -> Version]
    BY VersionFacts
  <2>3. snapshot \in [Items -> Version] /\ staged \in [Items -> Version]
        /\ backup \in [Items -> Version]
    BY <2>2 DEF Init
  <2>4. faults \in 0..MaxFaults /\ ext \in 0..MaxExt
    BY BoundsAssumption DEF Init
  <2>5. pc \in PCs /\ result \in Results /\ changed \in BOOLEAN
    BY DEF Init, PCs, Results
  <2> QED
    BY <2>1, <2>3, <2>4, <2>5 DEF Init, TypeOK
<1>3. PairIsNeverMixed
  BY ItemFacts, VersionFacts, <1>1 DEF Init, PairIsNeverMixed
<1>4. Looked /\ Staged /\ Owned /\ Progress /\ Answered
  BY ItemFacts, VersionFacts, <1>1
     DEF Init, Looked, Staged, Owned, Progress, Answered, Had, Staging, Alone, Checking, Moving,
         Recovering, Cleaning, Returned, Intact, NothingIn
<1>5. Kept /\ Placed /\ WorkspacesAreAccountedFor
  BY ItemFacts
     DEF Init, Kept, Placed, BodyPlaced, MediaPlaced, Ended, WorkspacesAreAccountedFor, Moving,
         Recovering, Cleaning, Returned
<1> QED
  BY <1>2, <1>3, <1>4, <1>5 DEF IInv

\* Every step keeps all of it.
LEMMA NextInv == IInv /\ [Next]_vars => IInv'
<1>1. IInv /\ (Step \/ Crash) => IInv'
  BY TypeStep, LookedStep, StagedStep, OwnedStep, ProgressStep, AnsweredStep, KeptStep,
     PlacedStep, MixedStep, AccountedStep DEF IInv
<1>2. IInv /\ UNCHANGED vars => IInv'
  <2> SUFFICES ASSUME IInv, UNCHANGED vars PROVE IInv'
    OBVIOUS
  <2>1. UNCHANGED <<dest, snapshot, workspace, owned, staged, backup, changed, preserve,
                    backedUp, published, recErr, pc, result, faults, ext, restored, disturbed>>
    BY DEF vars, fsVars, procVars, obsVars
  <2>2. TypeOK' /\ Looked' /\ Staged' /\ Owned'
    BY <2>1 DEF IInv, TypeOK, Looked, Staged, Owned, Found
  <2>3. Progress' /\ Answered' /\ Kept'
    BY <2>1 DEF IInv, Progress, Answered, Kept, Mine, Had, Found
  <2>4. Placed' /\ PairIsNeverMixed' /\ WorkspacesAreAccountedFor'
    BY <2>1 DEF IInv, Placed, BodyPlaced, MediaPlaced, Ended, Recovered, Mine, PairIsNeverMixed,
                WorkspacesAreAccountedFor
  <2> QED
    BY <2>2, <2>3, <2>4 DEF IInv
<1> QED
  BY <1>1, <1>2, OtherStep DEF Next, Done

\* The invariant is one of the specification.
LEMMA Invariance == Spec => []IInv
BY InitInv, NextInv, PTL DEF Spec

-----------------------------------------------------------------------------
(***************************************************************************)
(* Safety                                                                  *)
(***************************************************************************)

\* Every variable keeps its type, for any number of failing calls and of steps
\* of another program.
THEOREM TypeCorrect == Spec => []TypeOK
<1>1. IInv => TypeOK
  BY DEF IInv
<1> QED
  BY <1>1, Invariance, PTL

\* What write_validated_with_sidecar tells its caller is true of the disk:
\* "restored" means the old pair is back, success that the new one is in place,
\* and after an incomplete recovery each half is old, kept, or a remainder of
\* new media where there were none.
THEOREM OutcomeTrue == Spec => []OutcomeIsTrue
<1>1. IInv => OutcomeIsTrue
  <2> SUFFICES ASSUME IInv, pc = "done", NEW i \in Items \ disturbed
               PROVE  CASE result = "restored" -> dest[i] = snapshot[i]
                        [] result \in {"ok", "warned"} -> i = Body \/ changed => dest[i] = New(i)
                        [] result = "incomplete" ->
                             \/ dest[i] = snapshot[i]
                             \/ i \in preserve /\ backup[i] = snapshot[i]
                             \/ snapshot[i] = Missing /\ i \in published
                                /\ dest[i] \in {New(i), Partial}
                        [] OTHER -> i \notin backedUp /\ dest[i] # New(i)
    BY DEF OutcomeIsTrue
  <2>1. result \in {"error", "restored", "incomplete", "ok", "warned"}
    BY DEF IInv, TypeOK, Results, Answered, Returned
  <2>2. /\ result = "restored" => dest[i] = snapshot[i]
        /\ result = "incomplete" => Recovered(i)
        /\ result \in {"ok", "warned"} => (i = Body \/ changed => dest[i] = New(i))
    BY DEF IInv, Placed, Mine, Ended, Returned
  <2>3. result = "error" => i \notin backedUp /\ dest[i] # New(i)
    BY VersionFacts DEF IInv, Looked, Progress
  <2> QED
    BY <2>1, <2>2, <2>3 DEF Recovered
<1> QED
  BY <1>1, Invariance, PTL

\* Whatever fails and wherever the process dies, a new body never stands beside
\* media that are not its own, and an old body stands beside new media only
\* after a recovery step failed.
THEOREM PairBelongsTogether == Spec => []PairIsNeverMixed
<1>1. IInv => PairIsNeverMixed
  BY DEF IInv
<1> QED
  BY <1>1, Invariance, PTL

\* A workspace that outlives the command holds a backup the message speaks of,
\* could not be removed because a call failed, or is the one
\* StagedDirectory::new abandoned.
THEOREM WorkspacesAccounted == Spec => []WorkspacesAreAccountedFor
<1>1. IInv => WorkspacesAreAccountedFor
  BY DEF IInv
<1> QED
  BY <1>1, Invariance, PTL

-----------------------------------------------------------------------------
(***************************************************************************)
(* Refinement                                                              *)
(***************************************************************************)

\* What Publication sees.
Olds == [i \in Items |-> OldPlace(i)]
Seen == <<snapshot, restored, backedUp, backup, published, changed, result>>

\* A step that changes nothing Publication sees is a stutter.
LEMMA Quiet == UNCHANGED Seen => UNCHANGED P!vars
BY DEF Seen, P!vars, OldPlace, Told, Moved

\* The old files are told where they are by four variables.
LEMMA OldsKept ==
  ASSUME UNCHANGED <<restored, backedUp, backup, published, changed>>
  PROVE  Olds' = Olds /\ Moved' = Moved
BY DEF Olds, OldPlace, Moved

\* Before the first rename every old file is in place.
LEMMA UntouchedYet ==
  ASSUME IInv, pc \in Intact
  PROVE  /\ restored = {} /\ backedUp = {} /\ published = {}
         /\ result = "none" /\ Told = "none"
         /\ Olds = [i \in Items |-> "place"] /\ Moved = {}
         /\ P!Untouched(Olds, Moved)
<1>1. restored = {} /\ backedUp = {} /\ published = {} /\ result = "none"
  BY DEF IInv, Progress, Answered, NothingIn, Intact, Staging, Alone, Checking, Returned
<1> QED
  BY <1>1 DEF Olds, OldPlace, Moved, Told, P!Untouched

\* A call that fails before anything was moved is a Tell; one that succeeds and
\* looks at nothing changes nothing Publication sees.
LEMMA EarlyRefines ==
  ASSUME IInv, pc \in Intact,
         UNCHANGED <<snapshot, restored, backedUp, backup, published>>,
         result' = result \/ result' = "error"
  PROVE  P!Next \/ UNCHANGED P!vars
<1>1. /\ restored = {} /\ backedUp = {} /\ published = {} /\ result = "none" /\ Told = "none"
      /\ Olds = [i \in Items |-> "place"] /\ Moved = {} /\ P!Untouched(Olds, Moved)
  BY UntouchedYet
<1>2. Olds' = Olds /\ Moved' = Moved
  BY <1>1 DEF Olds, OldPlace, Moved
<1>3. CASE result' = result
  BY <1>2, <1>3 DEF P!vars, Olds, Told
<1>4. CASE result' = "error"
  <2>1. Told' = "untouched"
    BY <1>4 DEF Told
  <2>2. P!Report
    BY <1>1, <1>2, <2>1 DEF P!Report, P!Tales, P!Truthful, Olds
  <2>3. P!Tell
    BY <1>2, <2>2 DEF P!Tell, Olds
  <2> QED
    BY <2>3 DEF P!Next
<1> QED
  BY <1>3, <1>4

\* Staging one of the pair looks at its destination.
LEMMA StageRefines ==
  ASSUME IInv, StageBody \/ StageMedia
  PROVE  P!Next \/ UNCHANGED P!vars
<1>0. PICK j \in Items : j = IF pc = "stageBody" THEN Body ELSE Media
  BY ItemFacts
<1>1. /\ pc \in Intact
      /\ UNCHANGED <<restored, backedUp, backup, published, changed>>
      /\ \/ snapshot' = snapshot /\ (result' = result \/ result' = "error")
         \/ snapshot' = [snapshot EXCEPT ![j] = dest[j]] /\ result' = result
  BY <1>0, ItemFacts DEF StageBody, StageMedia, Try, Goto, Fails, Fault, Return, obsVars,
     Intact, Staging
<1>2. CASE snapshot' = snapshot /\ (result' = result \/ result' = "error")
  BY <1>1, <1>2, EarlyRefines
<1>3. CASE snapshot' = [snapshot EXCEPT ![j] = dest[j]] /\ result' = result
  <2>1. j \in Items /\ snapshot[j] = Missing
    BY <1>0, ItemFacts DEF StageBody, StageMedia, IInv, Looked
  <2>2. CASE dest[j] = Missing
    <3>1. snapshot' = snapshot
      BY <1>3, <2>1, <2>2 DEF IInv, TypeOK
    <3> QED
      BY <1>1, <1>3, <3>1, EarlyRefines
  <2>3. CASE dest[j] # Missing
    <3>1. {i \in Items : snapshot'[i] # Missing} = {i \in Items : snapshot[i] # Missing} \cup {j}
      BY <1>3, <2>1, <2>3 DEF IInv, TypeOK
    <3>2. Olds' = Olds /\ Moved' = Moved /\ Told' = Told
      BY <1>1, <1>3, OldsKept DEF Told
    <3>3. P!Look(j)
      BY <1>1, <3>1, <3>2, UntouchedYet DEF P!Look, Olds
    <3> QED
      BY <2>1, <3>3 DEF P!Next
  <2> QED
    BY <2>2, <2>3
<1> QED
  BY <1>1, <1>2, <1>3

\* One rename replaces the old body when the media came out unchanged.
LEMMA ExchangeRefines ==
  ASSUME IInv, PublishAlone
  PROVE  P!Next \/ UNCHANGED P!vars
<1>1. /\ pc \in Intact /\ pc = "publishAlone"
      /\ UNCHANGED <<snapshot, restored, backedUp, backup, changed>>
      /\ \/ published' = published /\ result' = "error"
         \/ published' = {Body} /\ result' \in {"ok", "warned"}
  BY DEF PublishAlone, Return, Fails, Fault, obsVars, Intact, Alone
<1>2. CASE published' = published /\ result' = "error"
  BY <1>1, <1>2, EarlyRefines
<1>3. CASE published' = {Body} /\ result' \in {"ok", "warned"}
  <2>1. changed = FALSE
    BY <1>1 DEF IInv, TypeOK, Staged, Alone
  <2>2. /\ restored = {} /\ backedUp = {} /\ published = {} /\ Told = "none"
        /\ Olds = [i \in Items |-> "place"] /\ P!Untouched(Olds, Moved)
    BY <1>1, UntouchedYet
  <2>3. Olds' = [Olds EXCEPT ![Body] = "gone"]
    BY <1>1, <1>3, <2>1, <2>2, ItemFacts DEF Olds, OldPlace
  <2>4. Moved' = Items /\ Told' = "replaced"
    BY <1>1, <1>3, <2>1 DEF Moved, Told
  <2>5. P!Report
    BY <2>2, <2>4 DEF P!Report, P!Tales, P!Truthful
  <2>6. P!Exchange(Body)
    BY <1>1, <2>2, <2>3, <2>4, <2>5 DEF P!Exchange, Olds
  <2> QED
    BY <2>6, ItemFacts DEF P!Next
<1> QED
  BY <1>1, <1>2, <1>3

\* What Publication sees from the first rename on: the message is still to be
\* given, and an old file that was not put back or given up is aside.
LEMMA MovingFacts ==
  ASSUME IInv, pc \in Moving \cup Recovering \cup Cleaning
  PROVE  /\ changed = TRUE /\ Moved = published /\ result = "none" /\ Told = "none"
         /\ \A i \in Items \ restored :
              /\ i \notin backedUp => OldPlace(i) = "place"
              /\ i \in backedUp /\ backup[i] \in Found \ {Missing} => OldPlace(i) = "aside"
<1>1. changed = TRUE /\ result = "none"
  <2>1. pc \notin Returned \cup {"crashed"}
    BY DEF Moving, Recovering, Cleaning, Returned
  <2> QED
    BY <2>1 DEF IInv, TypeOK, Staged, Answered
<1>2. \A v \in Found \ {Missing} : v.kind \notin {"missing", "partial"}
  BY VersionFacts
<1> QED
  BY <1>1, <1>2 DEF Moved, Told, OldPlace

\* An old file or tree is moved aside.
LEMMA BackUpRefines ==
  ASSUME IInv, BackUpMedia \/ BackUpBody
  PROVE  P!Next \/ UNCHANGED P!vars
<1>0. PICK j \in Items : j = IF pc = "backupMedia" THEN Media ELSE Body
  BY ItemFacts
<1>1. /\ pc \in Moving /\ pc \in NothingIn /\ j \in Items
      /\ UNCHANGED <<snapshot, restored, published, changed, result>>
      /\ \/ UNCHANGED <<backedUp, backup>>
         \/ /\ snapshot[j] # Missing /\ dest[j] # Missing
            /\ backup' = [backup EXCEPT ![j] = dest[j]]
            /\ backedUp' = backedUp \cup {j}
  BY <1>0, ItemFacts DEF BackUpMedia, BackUpBody, BackUp, Goto, obsVars, Moving, NothingIn, Intact
<1>2. CASE UNCHANGED <<backedUp, backup>>
  BY <1>1, <1>2, Quiet DEF Seen
<1>3. CASE /\ snapshot[j] # Missing /\ dest[j] # Missing
           /\ backup' = [backup EXCEPT ![j] = dest[j]]
           /\ backedUp' = backedUp \cup {j}
  <2>1. /\ changed = TRUE /\ Moved = published /\ Told = "none"
        /\ \A i \in Items \ restored : i \notin backedUp => OldPlace(i) = "place"
    BY <1>1, MovingFacts
  <2>2. restored = {} /\ published = {} /\ j \notin backedUp
    BY <1>0, <1>1, ItemFacts DEF BackUpMedia, BackUpBody, IInv, Progress, Answered, Intact
  <2>3. dest[j].kind \notin {"missing", "partial"}
    BY <1>1, <1>3, VersionFacts DEF IInv, Looked
  <2>4. Olds' = [Olds EXCEPT ![j] = "aside"]
    <3>1. OldPlace(j)' = "aside"
      BY <1>1, <1>3, <2>1, <2>2, <2>3 DEF OldPlace, IInv, TypeOK
    <3>2. \A i \in Items \ {j} : OldPlace(i)' = OldPlace(i)
      BY <1>1, <1>3 DEF OldPlace, IInv, TypeOK
    <3> QED
      BY <3>1, <3>2 DEF Olds
  <2>5. Moved' = Moved /\ Told' = Told
    BY <1>1 DEF Moved, Told
  <2>6. P!MoveAside(j)
    BY <1>1, <1>3, <2>1, <2>2, <2>4, <2>5 DEF P!MoveAside, Olds
  <2> QED
    BY <1>1, <2>6 DEF P!Next
<1> QED
  BY <1>1, <1>2, <1>3

\* A new file or tree is moved in when every old one is aside.
LEMMA MoveInRefines ==
  ASSUME IInv, PublishMedia \/ PublishBody
  PROVE  P!Next \/ UNCHANGED P!vars
<1>0. PICK j \in Items : j = IF pc = "publishMedia" THEN Media ELSE Body
  BY ItemFacts
<1>1. /\ pc \in Moving /\ pc \in {"publishMedia", "publishBody"} /\ j \in Items
      /\ UNCHANGED <<snapshot, restored, backedUp, backup, changed, result>>
      /\ published' = published \/ published' = published \cup {j}
  BY <1>0, ItemFacts DEF PublishMedia, PublishBody, MoveIn, Goto, obsVars, Moving
<1>2. CASE published' = published
  BY <1>1, <1>2, Quiet DEF Seen
<1>3. CASE published' = published \cup {j}
  <2>1. /\ changed = TRUE /\ Moved = published /\ Told = "none"
        /\ \A i \in Items \ restored :
             i \in backedUp /\ backup[i] \in Found \ {Missing} => OldPlace(i) = "aside"
    BY <1>1, MovingFacts
  <2>2. restored = {} /\ backedUp = Had
    BY <1>1 DEF IInv, Progress, Answered, NothingIn
  <2>3. \A i \in Items : snapshot[i] # Missing => OldPlace(i) = "aside"
    BY <1>1, <2>1, <2>2 DEF IInv, Kept, Had
  <2>4. Olds' = Olds /\ Told' = Told /\ Moved' = Moved \cup {j}
    BY <1>1, <1>3, <2>1 DEF Olds, OldPlace, Told, Moved
  <2>5. P!MoveIn(j)
    BY <1>1, <2>1, <2>3, <2>4 DEF P!MoveIn, Olds
  <2> QED
    BY <1>1, <2>5 DEF P!Next
<1> QED
  BY <1>1, <1>2, <1>3

\* The old media are put back, while the new pair is not complete.
LEMMA RestoreMediaRefines ==
  ASSUME IInv, RestoreMedia
  PROVE  P!Next \/ UNCHANGED P!vars
<1>1. /\ pc \in Recovering /\ pc = "restoreMedia"
      /\ UNCHANGED <<snapshot, backedUp, published, changed, result>>
      /\ \/ UNCHANGED <<backup, restored>>
         \/ /\ Media \in backedUp
            /\ backup' = [backup EXCEPT ![Media] = Missing]
            /\ restored' = restored \cup {Media}
  BY DEF RestoreMedia, Restore, Goto, Recovering
<1>2. CASE UNCHANGED <<backup, restored>>
  BY <1>1, <1>2, Quiet DEF Seen
<1>3. CASE /\ Media \in backedUp
           /\ backup' = [backup EXCEPT ![Media] = Missing]
           /\ restored' = restored \cup {Media}
  <2>1. /\ changed = TRUE /\ Moved = published /\ Told = "none"
        /\ \A i \in Items \ restored :
             i \in backedUp /\ backup[i] \in Found \ {Missing} => OldPlace(i) = "aside"
    BY <1>1, MovingFacts
  <2>2. restored = {} /\ Body \notin published
    BY <1>1, ItemFacts DEF IInv, Progress, Answered
  <2>3. OldPlace(Media) = "aside"
    BY <1>1, <1>3, <2>1, <2>2, ItemFacts DEF IInv, Kept
  <2>4. Olds' = [Olds EXCEPT ![Media] = "back"] /\ Told' = Told /\ Moved' = Moved
    BY <1>1, <1>3, <2>2, ItemFacts DEF Olds, OldPlace, Told, Moved, IInv, TypeOK
  <2>5. P!Report
    BY <2>1, <2>4 DEF P!Report, P!Tales, P!Truthful
  <2>6. P!PutBack(Media)
    BY <1>1, <2>1, <2>2, <2>3, <2>4, <2>5, ItemFacts DEF P!PutBack, Olds
  <2> QED
    BY <2>6, ItemFacts DEF P!Next
<1> QED
  BY <1>1, <1>2, <1>3

\* The old body is put back, or not, and the message says which.
LEMMA RestoreBodyRefines ==
  ASSUME IInv, RestoreBody
  PROVE  P!Next \/ UNCHANGED P!vars
<1>1. /\ pc \in Recovering /\ pc = "restoreBody"
      /\ UNCHANGED <<snapshot, backedUp, published, changed>>
      /\ result' = RecoveryTold(recErr')
      /\ \/ /\ UNCHANGED <<backup, restored>>
            /\ Body \in backedUp => Body \in recErr'
         \/ /\ Body \in backedUp
            /\ backup' = [backup EXCEPT ![Body] = Missing]
            /\ restored' = restored \cup {Body}
      /\ recErr \subseteq recErr'
  BY DEF RestoreBody, Restore, Return, Recovering
<1>2. /\ changed = TRUE /\ Moved = published /\ Told = "none"
      /\ \A i \in Items \ restored :
           /\ i \notin backedUp => OldPlace(i) = "place"
           /\ i \in backedUp /\ backup[i] \in Found \ {Missing} => OldPlace(i) = "aside"
  BY <1>1, MovingFacts
<1>3. Moved' = Moved /\ Body \notin Moved
  BY <1>1, <1>2, ItemFacts DEF Moved, IInv, Progress
<1>4. Told' = IF recErr' = {} THEN "restored" ELSE "kept"
  BY <1>1 DEF Told, RecoveryTold
<1>5. recErr' = {} => Media \notin backedUp \/ Media \in restored
  BY <1>1, ItemFacts DEF IInv, Kept, Answered
<1>6. OldPlace(Media)' = OldPlace(Media)
  BY <1>1, ItemFacts DEF OldPlace, IInv, TypeOK
<1>7. recErr' = {} => OldPlace(Media) \in {"place", "back"}
  BY <1>2, <1>5, ItemFacts DEF OldPlace
<1>8. CASE UNCHANGED <<backup, restored>> /\ (Body \in backedUp => Body \in recErr')
  <2>1. Olds' = Olds
    BY <1>1, <1>8, OldsKept
  <2>2. recErr' = {} => OldPlace(Body) \in {"place", "back"}
    BY <1>2, <1>8, ItemFacts DEF OldPlace
  <2>3. P!Report
    BY <1>2, <1>3, <1>4, <1>7, <2>1, <2>2, ItemFacts
       DEF P!Report, P!Tales, P!Truthful, Olds
  <2>4. P!Tell
    BY <1>1, <1>3, <2>1, <2>3 DEF P!Tell, Olds
  <2> QED
    BY <2>4 DEF P!Next
<1>9. CASE /\ Body \in backedUp
           /\ backup' = [backup EXCEPT ![Body] = Missing]
           /\ restored' = restored \cup {Body}
  <2>1. OldPlace(Body) = "aside"
    BY <1>1, <1>2, <1>9, ItemFacts DEF IInv, Kept, Answered
  <2>2. OldPlace(Body)' = "back"
    BY <1>9 DEF OldPlace
  <2>3. Olds' = [Olds EXCEPT ![Body] = "back"]
    BY <1>6, <2>2, ItemFacts DEF Olds
  <2>4. P!Report
    BY <1>2, <1>3, <1>4, <1>6, <1>7, <2>2, ItemFacts DEF P!Report, P!Tales, P!Truthful
  <2>5. P!PutBack(Body)
    BY <1>1, <1>3, <2>1, <2>3, <2>4, ItemFacts DEF P!PutBack, Olds
  <2> QED
    BY <2>5, ItemFacts DEF P!Next
<1> QED
  BY <1>1, <1>8, <1>9

\* An old file or tree is given up when both new ones are in.
LEMMA CleanUpRefines ==
  ASSUME IInv, CleanBody \/ CleanMedia
  PROVE  P!Next \/ UNCHANGED P!vars
<1>0. PICK j \in Items : j = IF pc = "cleanBody" THEN Body ELSE Media
  BY ItemFacts
<1>1. /\ pc \in Cleaning /\ pc \in {"cleanBody", "cleanMedia"} /\ j \in Items
      /\ UNCHANGED <<snapshot, restored, backedUp, published, changed, result>>
      /\ \E left \in {Missing, Partial, backup[j]} : backup' = [backup EXCEPT ![j] = left]
  BY <1>0, ItemFacts DEF CleanBody, CleanMedia, CleanUp, Goto, obsVars, Cleaning
<1>2. PICK left \in {Missing, Partial, backup[j]} : backup' = [backup EXCEPT ![j] = left]
  BY <1>1
<1>3. /\ changed = TRUE /\ Moved = published /\ Told = "none" /\ Moved = Items
      /\ \A i \in Items \ restored :
           /\ i \notin backedUp => OldPlace(i) = "place"
           /\ i \in backedUp /\ backup[i] \in Found \ {Missing} => OldPlace(i) = "aside"
  BY <1>1, MovingFacts DEF IInv, Progress
<1>4. Moved' = Moved /\ Told' = Told
  BY <1>1 DEF Moved, Told
<1>5. \A i \in Items \ {j} : OldPlace(i)' = OldPlace(i)
  BY <1>1, <1>2 DEF OldPlace, IInv, TypeOK
<1>6. restored = {}
  BY <1>1 DEF IInv, Answered
<1>7. CASE j \in backedUp /\ left # backup[j]
  <2>1. OldPlace(j) = "aside"
    BY <1>0, <1>1, <1>3, <1>6, <1>7, ItemFacts DEF IInv, Kept
  <2>2. OldPlace(j)' = "gone"
    <3>1. backup'[j].kind \in {"missing", "partial"}
      BY <1>1, <1>2, <1>7 DEF Missing, Partial, IInv, TypeOK
    <3> QED
      BY <1>1, <1>3, <1>6, <1>7, <3>1 DEF OldPlace
  <2>3. Olds' = [Olds EXCEPT ![j] = "gone"]
    BY <1>5, <2>2 DEF Olds
  <2>4. P!Report
    BY <1>3, <1>4 DEF P!Report, P!Tales, P!Truthful
  <2>5. P!GiveUp(j)
    BY <1>1, <1>3, <1>4, <2>1, <2>3, <2>4 DEF P!GiveUp, Olds
  <2> QED
    BY <1>1, <2>5 DEF P!Next
<1>8. CASE j \notin backedUp \/ left = backup[j]
  <2>1. OldPlace(j)' = OldPlace(j)
    BY <1>1, <1>2, <1>8 DEF OldPlace, IInv, TypeOK
  <2>2. Olds' = Olds
    BY <1>5, <2>1 DEF Olds
  <2> QED
    BY <1>1, <1>4, <2>2 DEF P!vars, Olds
<1> QED
  BY <1>7, <1>8

\* Success is told when both new ones are in.
LEMMA SyncRefines ==
  ASSUME IInv, SyncParents
  PROVE  P!Next \/ UNCHANGED P!vars
<1>1. /\ pc \in Cleaning
      /\ UNCHANGED <<snapshot, restored, backedUp, backup, published, changed>>
      /\ result' \in {"ok", "warned"}
  BY DEF SyncParents, Return, obsVars, Cleaning
<1>2. Told = "none" /\ Moved = Items
  BY <1>1, MovingFacts DEF IInv, Progress
<1>3. Olds' = Olds /\ Moved' = Moved /\ Told' = "replaced"
  BY <1>1, OldsKept DEF Told
<1>4. P!Report
  BY <1>2, <1>3 DEF P!Report, P!Tales, P!Truthful
<1>5. P!Tell
  BY <1>1, <1>3, <1>4 DEF P!Tell, Olds
<1> QED
  BY <1>5 DEF P!Next

\* Drop removes no backup that is still there.
LEMMA DropRefines ==
  ASSUME IInv, Drop
  PROVE  UNCHANGED P!vars
<1>1. /\ UNCHANGED <<snapshot, restored, backedUp, published, changed, result>>
      /\ pc = "drop" /\ backup' \in [Items -> Version \cup {Missing}]
      /\ \A i \in Items : backup'[i] = backup[i] \/ (backup'[i] = Missing /\ i \notin preserve)
  BY DEF Drop, Sweeps, obsVars, IInv, TypeOK
<1>2. \A i \in Items : backup'[i] = backup[i]
  BY <1>1 DEF IInv, Kept, Returned
<1>3. backup' = backup
  BY <1>1, <1>2 DEF IInv, TypeOK
<1> QED
  BY <1>1, <1>3, Quiet DEF Seen

\* Every step is one of Publication's, or changes nothing it sees.
LEMMA NextRefines == IInv /\ [Next]_vars => [P!Next]_(P!vars)
<1> SUFFICES ASSUME IInv, [Next]_vars PROVE P!Next \/ UNCHANGED P!vars
  OBVIOUS
<1>1. CASE \/ RejectOverlap \/ CopyTree \/ RecheckCopy \/ WriteStaged \/ RecheckAlone
           \/ RecheckBody \/ RecheckMedia \/ InheritPermissions
  <2>1. /\ pc \in Intact
        /\ UNCHANGED <<snapshot, restored, backedUp, backup, published>>
        /\ result' = result \/ result' = "error"
    BY <1>1 DEF RejectOverlap, CopyTree, RecheckCopy, WriteStaged, RecheckAlone, RecheckBody,
       RecheckMedia, InheritPermissions, Try, Goto, Fails, Fault, Return, fsVars, obsVars,
       Intact, Staging, Alone, Checking
  <2> QED
    BY <2>1, EarlyRefines
<1>2. CASE StageBody \/ StageMedia
  BY <1>2, StageRefines
<1>3. CASE PublishAlone
  BY <1>3, ExchangeRefines
<1>4. CASE BackUpMedia \/ BackUpBody
  BY <1>4, BackUpRefines
<1>5. CASE PublishMedia \/ PublishBody
  BY <1>5, MoveInRefines
<1>6. CASE RestoreMedia
  BY <1>6, RestoreMediaRefines
<1>7. CASE RestoreBody
  BY <1>7, RestoreBodyRefines
<1>8. CASE CleanBody \/ CleanMedia
  BY <1>8, CleanUpRefines
<1>9. CASE SyncParents
  BY <1>9, SyncRefines
<1>10. CASE Drop
  BY <1>10, DropRefines
<1>11. CASE RemoveMedia \/ Crash \/ OtherProgram \/ UNCHANGED vars
  BY <1>11, Quiet DEF RemoveMedia, Crash, OtherProgram, Goto, vars, fsVars, procVars, obsVars,
     Seen
<1> QED
  BY <1>1, <1>2, <1>3, <1>4, <1>5, <1>6, <1>7, <1>8, <1>9, <1>10, <1>11
     DEF Next, Step, Done

\* The command starts as a publication starts.
LEMMA InitRefines == Init => P!Init
BY DEF Init, P!Init, OldPlace, Told, Moved

\* StagedOutputPair implements the abstract publication: nothing old is given up
\* before both new ones are in, nothing is put back after that, and the message
\* agrees with where the old ones are, for any number of failing calls and of
\* steps of another program, and a process death anywhere.
THEOREM Refines == Spec => ImplementsPublication
BY InitInv, NextInv, InitRefines, NextRefines, PTL DEF Spec, ImplementsPublication, P!Spec
=============================================================================
