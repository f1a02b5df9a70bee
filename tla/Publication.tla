----------------------------- MODULE Publication -----------------------------
(***************************************************************************)
(* What the output layer of hwp-cli promises when several outputs replace  *)
(* the files of a user as one unit (crates/hwp-cli/src/commands/output.rs, *)
(* publish_output_set and StagedOutputPair): the old files are only moved  *)
(* aside until every new one is in, an old file is given up only then, and *)
(* what the caller is told agrees with where the old files are.            *)
(*                                                                         *)
(* This is the abstract specification: no file system, no workspaces, no   *)
(* order among the outputs, no other program.  OutputSet and OutputPair    *)
(* are shown to implement it.                                              *)
(***************************************************************************)
CONSTANT Items      \* the outputs that are published together

VARIABLES
  had,    \* outputs whose destination held a file when it was looked at
  old,    \* where the old file of each output is
  moved,  \* outputs whose new file was moved to its destination
  told    \* what the caller was told, "none" before

vars == <<had, old, moved, told>>

Places == {"place", "aside", "back", "gone"}
Tales  == {"none", "untouched", "restored", "kept", "replaced"}

TypeOK ==
  /\ had \subseteq Items
  /\ old \in [Items -> Places]
  /\ moved \subseteq Items
  /\ told \in Tales

Init ==
  /\ had = {}
  /\ old = [i \in Items |-> "place"]
  /\ moved = {}
  /\ told = "none"

Untouched(o, m) == m = {} /\ \A i \in Items : o[i] = "place"

\* The caller may be told t when the old files are at o and m were moved in.
Truthful(t, o, m) ==
  CASE t = "untouched" -> Untouched(o, m)
    [] t = "restored"  -> m # Items /\ \A i \in Items : o[i] \in {"place", "back"}
    [] t = "kept"      -> m # Items
    [] t = "replaced"  -> m = Items
    [] OTHER           -> t = "none"

\* A step may end the publication, with a message that is true after it.
Report == told = "none" /\ told' \in Tales /\ Truthful(told', old', moved')

\* An output's destination is looked at, before anything is moved.
Look(i) ==
  /\ Untouched(old, moved)
  /\ had' = had \cup {i}
  /\ UNCHANGED <<old, moved, told>>

\* Every old file is moved aside before the first new one is moved in.
MoveAside(i) ==
  /\ told = "none"
  /\ i \in had
  /\ old[i] = "place"
  /\ moved = {}
  /\ old' = [old EXCEPT ![i] = "aside"]
  /\ UNCHANGED <<had, moved, told>>

MoveIn(i) ==
  /\ told = "none"
  /\ \A j \in had : old[j] = "aside"
  /\ moved' = moved \cup {i}
  /\ UNCHANGED <<had, old, told>>

\* When every other output is what its destination already holds, one rename
\* replaces the old file of the last one, and there is nothing to be undone.
Exchange(i) ==
  /\ Untouched(old, moved)
  /\ old' = [old EXCEPT ![i] = "gone"]
  /\ moved' = Items
  /\ Report
  /\ UNCHANGED had

\* Only an incomplete publication is undone.
PutBack(i) ==
  /\ moved # Items
  /\ old[i] = "aside"
  /\ old' = [old EXCEPT ![i] = "back"]
  /\ Report
  /\ UNCHANGED <<had, moved>>

\* Only a complete publication gives an old file up.
GiveUp(i) ==
  /\ moved = Items
  /\ old[i] = "aside"
  /\ old' = [old EXCEPT ![i] = "gone"]
  /\ Report
  /\ UNCHANGED <<had, moved>>

Tell == Report /\ UNCHANGED <<had, old, moved>>

Next ==
  \/ \E i \in Items : Look(i) \/ MoveAside(i) \/ Exchange(i) \/ MoveIn(i)
                     \/ PutBack(i) \/ GiveUp(i)
  \/ Tell

Spec == Init /\ [][Next]_vars

\* No old file is given up while a new one is missing.
NothingGivenUpEarly == \A i \in Items : old[i] = "gone" => moved = Items
=============================================================================
