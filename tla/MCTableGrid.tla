----------------------------- MODULE MCTableGrid -----------------------------
(***************************************************************************)
(* Tables of two and of three rows by two columns of unequal widths, with  *)
(* cells holding only an object and blank cells among those with text; and *)
(* a table a document may come with, of three rows and columns, with two   *)
(* merged regions.                                                         *)
(***************************************************************************)
EXTENDS TableGrid

Mixed == [r, k \in 0 .. 2 |->
            IF r = 0 THEN "text" ELSE IF k = 0 THEN "object" ELSE "blank"]
AllText == [r, k \in 0 .. 2 |-> "text"]

\* (0,0)-(1,1) merged, and (2,1)-(2,2).
Staggered ==
  Merged(Merged(FreshTable(3, <<2, 6, 4>>, AllText), 0, 0, 1, 1), 2, 1, 2, 2)

Tables == {FreshTable(2, <<3, 1>>, Mixed), FreshTable(3, <<4, 9>>, Mixed), Staggered}
Pair == {FreshTable(2, <<3, 1>>, Mixed)}
=============================================================================
