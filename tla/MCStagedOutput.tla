--------------------------- MODULE MCStagedOutput ---------------------------
EXTENDS StagedOutput

\* The entry points differ before the publication, the builds in it: both are
\* in use on unix, one on each build with a recovery machine.
EntryPoints ==
  [b \in Platforms |-> IF b = "unix" THEN {"direct", "snapshot"}
                       ELSE IF b = "windows" THEN {"direct"}
                       ELSE {"snapshot"}]

\* The publication of unix is one call, the others are recovery machines.
Failures == [b \in Platforms |-> IF b = "unix" THEN 1 ELSE 3]
=============================================================================
