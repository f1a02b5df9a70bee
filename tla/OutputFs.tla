------------------------------ MODULE OutputFs ------------------------------
(***************************************************************************)
(* The file system as the output layer of hwp-cli sees it                  *)
(* (crates/hwp-cli/src/commands/output.rs).                                *)
(*                                                                         *)
(* A directory entry is abstracted to the VERSION of the file it names.    *)
(* The code compares entries by identity (device, inode, link count),      *)
(* length, modification time, SHA-256 and mode, so two versions are equal  *)
(* exactly when all of those are; every external write makes a new one.    *)
(***************************************************************************)
EXTENDS Naturals

Kinds == {"missing", "unsafe", "partial", "old", "new", "ext"}
Version == [kind: Kinds, id: Nat]

\* No directory entry.
Missing == [kind |-> "missing", id |-> 0]
\* A symbolic link, a hard-linked file, a directory or a special file, or a
\* second name of the command's input: what the output layer refuses.
Unsafe  == [kind |-> "unsafe", id |-> 0]
\* What a copy that failed half-way leaves.
Partial == [kind |-> "partial", id |-> 0]
\* The regular file a destination held when the command was started.
Old(d)  == [kind |-> "old", id |-> d]
\* The bytes the command's writer staged for output d.
New(d)  == [kind |-> "new", id |-> d]
\* What the n-th step of some other program left at a destination.
Ext(n)  == [kind |-> "ext", id |-> n]

\* What inspect_destination accepts: a missing entry, or a regular file with
\* one link.  Anything else is refused before any byte is staged.
Inspectable(v) == v.kind # "unsafe"

\* Mutant: the second look is as lax as the first.
RecheckLax(v, snap) == Inspectable(v)

\* recheck_destination: the entry is inspected again and must be the very
\* version the snapshot recorded.
Recheck(v, snap) == Inspectable(v) /\ v = snap
=============================================================================
