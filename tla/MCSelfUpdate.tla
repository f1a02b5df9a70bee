---------------------------- MODULE MCSelfUpdate ----------------------------
(***************************************************************************)
(* Releases 0.3.1 to 0.3.10 with the running version 0.3.0; the release    *)
(* tagged 0.3.2 was built wrong and reports 0.3.1.  The text of 0.3.10     *)
(* contains that of 0.3.1.                                                 *)
(***************************************************************************)
EXTENDS SelfUpdate

ReleaseTags == {"0.3.0", "0.3.1", "0.3.2", "0.3.10"}
Printed == [t \in ReleaseTags |-> IF t = "0.3.2" THEN "0.3.1" ELSE t]
Substrings == {<<t, t>> : t \in ReleaseTags} \cup {<<"0.3.10", "0.3.1">>}
=============================================================================
