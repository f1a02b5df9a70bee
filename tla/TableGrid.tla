------------------------------ MODULE TableGrid ------------------------------
(***************************************************************************)
(* Structural edits of one table of a document                             *)
(* (crates/hwp-convert/src/edit.rs): rows and columns are added and        *)
(* deleted, cells merged and split, a cell's text replaced.                *)
(*                                                                         *)
(* A table is stored the way Hangul stores it: a merged region is its top  *)
(* left anchor cell only, the cells it covers are absent, and              *)
(* row_cell_counts counts the anchors of each row.  Every edit rewrites    *)
(* positions, spans, widths, paragraphs and counts by hand and ends in     *)
(* validate_table_invariants; some edit a clone that replaces the table    *)
(* only when that succeeds, the others the table itself.                   *)
(*                                                                         *)
(* The list of cells is a set: its row-major order is re-established by    *)
(* every edit.  Heights, margins, borders and shapes are left out.         *)
(***************************************************************************)
EXTENDS Integers, Sequences, FiniteSets, FiniteSetsExt, SequencesExt, Totals

CONSTANTS
  FirstTables,  \* the tables a session of edits may start from
  Outside,      \* instance ids of paragraphs of the document outside the table
  IdSpace,      \* instance ids are 0..IdSpace-1, and wrap (2^32)
  MaxDim,       \* the largest number of rows or columns (u16::MAX)
  BodyWidth,    \* BODY_WIDTH_APPROX
  MaxCount,     \* bound: rows or columns added by one call
  MaxCalls      \* bound: calls in a behaviour

ASSUME NumbersAssumption ==
  /\ IdSpace \in Nat \ {0}
  /\ MaxDim \in Nat \ {0}
  /\ {BodyWidth, MaxCount, MaxCalls} \subseteq Nat
ASSUME OutsideAssumption == Outside \subseteq 1..IdSpace - 1

VARIABLES
  table,  \* rows, cols, cells and row_cell_counts
  call,   \* the last call, the row and the column it named and whether it answered Ok
  calls   \* calls made

vars == <<table, call, calls>>

Atleast(n, x) == IF x < n THEN n ELSE x

\* The data.  A paragraph holds text, an object of another kind or nothing.
Kinds == {"text", "object", "blank"}
Para  == [kind : Kinds, id : 0 .. IdSpace - 1]
Cell  == [row : Nat, col : Nat, rs : Nat \ {0}, cs : Nat \ {0}, w : Nat \ {0},
          paras : Seq(Para) \ {<<>>}]

-----------------------------------------------------------------------------
(* The grid.                                                               *)

ColsOf(c) == c.col .. c.col + c.cs - 1
RowsOf(c) == c.row .. c.row + c.rs - 1
Covers(c, r, k) == r \in RowsOf(c) /\ k \in ColsOf(c)
Rows(t) == 0 .. t.rows - 1
Cols(t) == 0 .. t.cols - 1

\* build_grid succeeds: no cell leaves the table, no two overlap, no gap.
Tiled(t) ==
  /\ \A c \in t.cells : RowsOf(c) \subseteq Rows(t) /\ ColsOf(c) \subseteq Cols(t)
  /\ \A r \in Rows(t), k \in Cols(t) :
       \E c \in t.cells : /\ Covers(c, r, k)
                          /\ \A d \in t.cells : Covers(d, r, k) => d = c

Owner(t, r, k) == CHOOSE c \in t.cells : Covers(c, r, k)

Recount(t) == [r \in Rows(t) |-> Cardinality({c \in t.cells : c.row = r})]

Valid(t) == Tiled(t) /\ t.counts = Recount(t)

IsTable(t) ==
  /\ t \in [rows : 1 .. MaxDim, cols : 1 .. MaxDim, cells : SUBSET Cell,
            counts : {t.counts}]
  /\ t.counts \in [Rows(t) -> Nat]

CleanRow(t, r) ==
  /\ r \in DOMAIN t.counts /\ t.counts[r] = t.cols
  /\ \A c \in t.cells : c.row = r => c.rs = 1 /\ c.cs = 1

\* Positions and cells in the order the code walks them.
Precedes(x, y) == x[1] < y[1] \/ (x[1] = y[1] /\ x[2] < y[2])
Before(c, d)   == Precedes(<<c.row, c.col>>, <<d.row, d.col>>)
InOrder(cells) ==
  [i \in 1 .. Cardinality(cells) |->
     CHOOSE c \in cells : Cardinality({d \in cells : Before(d, c)}) = i - 1]

-----------------------------------------------------------------------------
(* Widths.                                                                 *)

\* What the one-column cells say of a column; 0 when there is none.
OwnWidth(t, k) ==
  Max({0} \cup {c.w : c \in {d \in t.cells : d.cs = 1 /\ d.col = k}})

\* A wider cell gives what it has left to its unknown columns, in equal shares.
FillFrom(w, c) ==
  LET unknown == {j \in ColsOf(c) : w[j] = 0}
      rem     == Atleast(0, c.w - Total(w, ColsOf(c)))
      each    == rem \div Cardinality(unknown)
  IN  [j \in DOMAIN w |->
         IF j \notin unknown THEN w[j]
         ELSE IF j = Max(unknown) THEN rem - each * (Cardinality(unknown) - 1)
         ELSE each]

ColumnWidths(t) ==
  LET filled   == FoldLeft(FillFrom, [k \in Cols(t) |-> OwnWidth(t, k)],
                           InOrder({c \in t.cells : c.cs > 1}))
      total    == Total(filled, Cols(t))
      fallback == Atleast(1, (IF total > 0 THEN total ELSE BodyWidth) \div t.cols)
  IN  [k \in Cols(t) |-> IF filled[k] = 0 THEN fallback ELSE filled[k]]

\* Mutant: the last width is scaled like the others.
ScaleRoundsAll(w, n, target) ==
  [j \in 0 .. n - 1 |-> (w[j] * target) \div Total(w, 0 .. n - 1)]

\* The n widths 0..n-1 scaled to target: the last one takes what rounding left.
Scale(w, n, target) ==
  LET s == [j \in 0 .. n - 1 |-> (w[j] * target) \div Total(w, 0 .. n - 1)]
  IN  [s EXCEPT ![n - 1] = target - Total(s, 0 .. n - 2)]

\* Scaled to make room for count more of one equal share each.
Share(w, n, count) == Total(w, 0 .. n - 1) \div (n + count)
MakeRoom(w, n, count) ==
  Scale(w, n, Total(w, 0 .. n - 1) - Share(w, n, count) * count)

Resized(t, w) ==
  [t EXCEPT !.cells = {[c EXCEPT !.w = Atleast(1, Total(w, ColsOf(c)))] : c \in @}]

-----------------------------------------------------------------------------
(* Paragraphs.                                                             *)

ParasIn(cells) == UNION {ToSet(c.paras) : c \in cells}
IdsIn(cells)   == {p.id : p \in ParasIn(cells)}
MaxId(t)       == Max({0} \cup IdsIn(t.cells))

\* Every paragraph of the table has an instance id of its own, not 0.
\* (Without paragraphs outside the table and before ids wrap.)
DistinctIds(t) ==
  /\ 0 \notin IdsIn(t.cells)
  /\ \A c \in t.cells : \A i \in DOMAIN c.paras :
       /\ \A j \in DOMAIN c.paras : c.paras[i].id = c.paras[j].id => i = j
       /\ c.paras[i].id \notin IdsIn(t.cells \ {c})

\* A document comes with tables whose grid builds and whose ids are distinct.
ASSUME TablesAssumption ==
  \A t \in FirstTables : IsTable(t) /\ Valid(t) /\ DistinctIds(t)

\* The id of the new cell at x when the cells at the positions S are created.
FreshId(t, S, x) ==
  (MaxId(t) + Cardinality({y \in S : Precedes(y, x) \/ y = x})) % IdSpace

BlankCell(r, k, width, inst) ==
  [row |-> r, col |-> k, rs |-> 1, cs |-> 1, w |-> width,
   paras |-> <<[kind |-> "blank", id |-> inst]>>]

HasText(p) == p.kind = "text"
WithText(paras) ==
  FoldLeft(LAMBDA kept, p : IF HasText(p) THEN Append(kept, p) ELSE kept, <<>>, paras)

-----------------------------------------------------------------------------
(* The results of the edits.                                               *)

\* One blank cell at each position w gives a width for.
NewCells(t, w) ==
  {BlankCell(x[1], x[2], w[x], FreshId(t, DOMAIN w, x)) : x \in DOMAIN w}

NoRow == -1  \* an omitted template row

\* The row a new row takes its style from: append prefers a clean row.
TemplateRow(t, b, tpl) ==
  IF tpl # NoRow THEN tpl
  ELSE IF b < t.rows THEN Atleast(0, b - 1)
  ELSE Max({r \in Rows(t) : CleanRow(t, r)})

\* Appending after a clean row only pushes cells and counts.
PlainAppend(t, b, tpl) == b = t.rows /\ CleanRow(t, TemplateRow(t, b, tpl))

\* Cells over the boundary grow, cells below it move, the rest of the band
\* gets new cells as wide as the template row's.
AddedRows(t, b, count, tpl) ==
  LET src         == TemplateRow(t, b, tpl)
      crosses(c)  == c.row < b /\ b < c.row + c.rs
      band        == (b .. b + count - 1) \X Cols(t)
      covered     == {x \in band : \E c \in t.cells : crosses(c) /\ x[2] \in ColsOf(c)}
      donor(x)    == Owner(t, src, x[2])
      width(x)    == IF donor(x).cs = 1 THEN donor(x).w ELSE ColumnWidths(t)[x[2]]
      stretch(c)  == IF c.row >= b THEN [c EXCEPT !.row = @ + count]
                     ELSE IF crosses(c) THEN [c EXCEPT !.rs = @ + count] ELSE c
      grown       == [t EXCEPT !.rows = @ + count,
                               !.cells = {stretch(c) : c \in @}
                                          \cup NewCells(t, [x \in band \ covered |-> width(x)])]
  IN  IF PlainAppend(t, b, tpl)
      THEN [grown EXCEPT !.counts = [r \in Rows(grown) |-> IF r < b THEN @[r] ELSE t.cols]]
      ELSE [grown EXCEPT !.counts = Recount(grown)]

\* Mutant: the row after the one asked for.
WithoutRowAfter(t, r) ==
  LET gone == IF r = t.rows - 1 THEN 0 ELSE r + 1
  IN  [rows |-> t.rows - 1, cols |-> t.cols,
       cells |-> {IF c.row > gone THEN [c EXCEPT !.row = @ - 1] ELSE c :
                    c \in {d \in t.cells : d.row # gone}},
       counts |-> [i \in 0 .. t.rows - 2 |-> IF i < gone THEN t.counts[i] ELSE t.counts[i + 1]]]

WithoutRow(t, r) ==
  [rows |-> t.rows - 1, cols |-> t.cols,
   cells |-> {IF c.row > r THEN [c EXCEPT !.row = @ - 1] ELSE c :
                c \in {d \in t.cells : d.row # r}},
   counts |-> [i \in 0 .. t.rows - 2 |-> IF i < r THEN t.counts[i] ELSE t.counts[i + 1]]]

Touched(t, r1, k1, r2, k2) ==
  {c \in t.cells : RowsOf(c) \cap r1 .. r2 # {} /\ ColsOf(c) \cap k1 .. k2 # {}}

\* The paragraphs the anchor of a merge takes over.
Kept(cells) ==
  LET all == FlattenSeq([i \in DOMAIN InOrder(cells) |-> InOrder(cells)[i].paras])
  IN  IF \E p \in ToSet(all) : HasText(p) THEN WithText(all) ELSE <<Head(all)>>

Merged(t, r1, k1, r2, k2) ==
  LET gone  == Touched(t, r1, k1, r2, k2)
      whole == [row |-> r1, col |-> k1, rs |-> r2 - r1 + 1, cs |-> k2 - k1 + 1,
                w |-> Total(ColumnWidths(t), k1 .. k2), paras |-> Kept(gone)]
      t1    == [t EXCEPT !.cells = (@ \ gone) \cup {whole}]
  IN  [t1 EXCEPT !.counts = Recount(t1)]

SplitUp(t, a) ==
  LET base     == Atleast(1, a.w \div a.cs)
      width(k) == IF k = a.col + a.cs - 1 THEN Atleast(1, a.w - base * (a.cs - 1)) ELSE base
      places   == (RowsOf(a) \X ColsOf(a)) \ {<<a.row, a.col>>}
      anchor   == [a EXCEPT !.rs = 1, !.cs = 1, !.w = width(a.col)]
      t1       == [t EXCEPT !.cells = (@ \ {a}) \cup {anchor}
                                        \cup NewCells(t, [x \in places |-> width(x[2])])]
  IN  [t1 EXCEPT !.counts = Recount(t1)]

HasMerge(t) == \E c \in t.cells : c.cs # 1 \/ c.rs # 1

\* Appending to a table without merges redistributes each row on its own.
RowWidths(t, r) == [k \in Cols(t) |-> Owner(t, r, k).w]
AppendedCols(t, count) ==
  LET band     == Rows(t) \X (t.cols .. t.cols + count - 1)
      width    == [x \in band |-> Share(RowWidths(t, x[1]), t.cols, count)]
  IN  [rows |-> t.rows, cols |-> t.cols + count,
       cells |-> {[c EXCEPT !.w = MakeRoom(RowWidths(t, c.row), t.cols, count)[c.col]] :
                    c \in t.cells} \cup NewCells(t, width),
       counts |-> [r \in Rows(t) |-> t.counts[r] + count]]

\* Otherwise the columns are scaled and every cell takes the sum of its own.
FinalWidths(t, at, count) ==
  LET w == ColumnWidths(t)
      s == MakeRoom(w, t.cols, count)
  IN  [k \in 0 .. t.cols + count - 1 |->
         IF k < at THEN s[k] ELSE IF k < at + count THEN Share(w, t.cols, count)
         ELSE s[k - count]]

InsertedCols(t, at, count) ==
  LET crosses(c) == c.col < at /\ at < c.col + c.cs
      band       == Rows(t) \X (at .. at + count - 1)
      covered    == {x \in band : \E c \in t.cells : crosses(c) /\ x[1] \in RowsOf(c)}
      stretch(c) == IF c.col >= at THEN [c EXCEPT !.col = @ + count]
                    ELSE IF crosses(c) THEN [c EXCEPT !.cs = @ + count] ELSE c
      t1         == [t EXCEPT !.cols = @ + count,
                              !.cells = {stretch(c) : c \in @}
                                 \cup NewCells(t, [x \in band \ covered |-> 1])]
  IN  Resized([t1 EXCEPT !.counts = Recount(t1)], FinalWidths(t, at, count))

\* The columns left take the deleted one's width in proportion.
WidthsWithout(t, k) ==
  LET w == ColumnWidths(t)
      rest == [j \in 0 .. t.cols - 2 |-> IF j < k THEN w[j] ELSE w[j + 1]]
  IN  Scale(rest, t.cols - 1, Total(w, Cols(t)))

WithoutCol(t, k) ==
  LET only(c)   == c.col = k /\ c.cs = 1
      shrink(c) == IF c.col > k THEN [c EXCEPT !.col = @ - 1]
                   ELSE IF k \in ColsOf(c) THEN [c EXCEPT !.cs = @ - 1] ELSE c
      t1        == [t EXCEPT !.cols = @ - 1,
                             !.cells = {shrink(c) : c \in {d \in @ : ~only(d)}}]
  IN  Resized([t1 EXCEPT !.counts = Recount(t1)], WidthsWithout(t, k))

-----------------------------------------------------------------------------
(* The calls.                                                              *)

Ops == {"none", "addrows", "delrow", "merge", "split", "addcols", "delcol", "setcell"}

\* A call that names rows only has column 0 here, and the other way round.
Row(r) == <<r, 0>>
Col(k) == <<0, k>>

Answer(op, at, ok) == call' = [op |-> op, at |-> at, ok |-> ok] /\ calls' = calls + 1
Refuse(op, at)     == Answer(op, at, FALSE) /\ UNCHANGED table
Called             == calls < MaxCalls

\* The table itself was edited, and its validation answers.
InPlace(op, at, t) == table' = t /\ Answer(op, at, Valid(t))
\* A clone was edited: it replaces the table when its validation succeeds.
OnClone(op, at, t) ==
  IF Valid(t) THEN table' = t /\ Answer(op, at, TRUE) ELSE Refuse(op, at)

RowsRefused(t, at, count, tpl) ==
  \/ at > t.rows
  \/ count > MaxDim - t.rows
  \/ tpl # NoRow /\ tpl >= t.rows
  \/ tpl = NoRow /\ at = t.rows /\ ~\E r \in Rows(t) : CleanRow(t, r)

\* add_rows_at; at = rows stands for an omitted position as well.
AddRows ==
  /\ Called
  /\ \E at \in 0 .. table.rows + 1, count \in 0 .. MaxCount,
        tpl \in {NoRow} \cup 0 .. table.rows :
       \/ count = 0 /\ Answer("addrows", Row(at), TRUE) /\ UNCHANGED table
       \/ count > 0 /\ RowsRefused(table, at, count, tpl) /\ Refuse("addrows", Row(at))
       \/ /\ count > 0 /\ ~RowsRefused(table, at, count, tpl)
          /\ IF PlainAppend(table, at, tpl)
             THEN table' = AddedRows(table, at, count, tpl) /\ Answer("addrows", Row(at), TRUE)
             ELSE OnClone("addrows", Row(at), AddedRows(table, at, count, tpl))

\* Mutant: rows with merged or covered cells are deleted too.
RowStaysIfLast(t, r) == r >= t.rows \/ t.rows <= 1

RowStays(t, r) == r >= t.rows \/ t.rows <= 1 \/ ~CleanRow(t, r)

\* delete_table_row, which does not validate.
DeleteRow ==
  /\ Called
  /\ \E r \in 0 .. table.rows :
       \/ RowStays(table, r) /\ Refuse("delrow", Row(r))
       \/ /\ ~RowStays(table, r)
          /\ table' = WithoutRow(table, r)
          /\ Answer("delrow", Row(r), TRUE)

\* Mutant: a region may cut through merged cells.
MergeRefusedOutside(t, r1, k1, r2, k2) ==
  \/ r2 >= t.rows \/ k2 >= t.cols
  \/ r1 = r2 /\ k1 = k2

MergeRefused(t, r1, k1, r2, k2) ==
  \/ r2 >= t.rows \/ k2 >= t.cols
  \/ r1 = r2 /\ k1 = k2
  \/ \E c \in Touched(t, r1, k1, r2, k2) :
       ~(RowsOf(c) \subseteq r1 .. r2 /\ ColsOf(c) \subseteq k1 .. k2)

\* merge_cells; the corners are given in order, as the code orders them.
Merge ==
  /\ Called
  /\ \E r1, r2 \in 0 .. table.rows, k1, k2 \in 0 .. table.cols :
       /\ r1 <= r2 /\ k1 <= k2
       /\ \/ MergeRefused(table, r1, k1, r2, k2) /\ Refuse("merge", <<r1, k1>>)
          \/ /\ ~MergeRefused(table, r1, k1, r2, k2)
             /\ InPlace("merge", <<r1, k1>>, Merged(table, r1, k1, r2, k2))

\* split_cell: only the anchor of a merged region can be split.
Split ==
  /\ Called
  /\ \E r \in 0 .. table.rows, k \in 0 .. table.cols :
       LET spans == {c \in table.cells : /\ c.row = r /\ c.col = k
                                         /\ (c.cs > 1 \/ c.rs > 1)}
       IN  \/ spans = {} /\ Refuse("split", <<r, k>>)
           \/ \E a \in spans : InPlace("split", <<r, k>>, SplitUp(table, a))

\* Some column would be left without any width.
NoWidthFor(t, at, count) ==
  IF at = t.cols /\ ~HasMerge(t)
  THEN \E r \in Rows(t) :
         \/ Share(RowWidths(t, r), t.cols, count) < 1
         \/ \E k \in Cols(t) : MakeRoom(RowWidths(t, r), t.cols, count)[k] < 1
  ELSE \E k \in 0 .. t.cols + count - 1 : FinalWidths(t, at, count)[k] < 1

ColsRefused(t, at, count) ==
  IF count = 0 \/ at > t.cols \/ t.cols + count > MaxDim THEN TRUE
  ELSE NoWidthFor(t, at, count)

\* add_table_columns; at = cols stands for an omitted position as well.
AddCols ==
  /\ Called
  /\ \E at \in 0 .. table.cols + 1, count \in 0 .. MaxCount :
       \/ ColsRefused(table, at, count) /\ Refuse("addcols", Col(at))
       \/ /\ ~ColsRefused(table, at, count)
          /\ IF at = table.cols /\ ~HasMerge(table)
             THEN table' = AppendedCols(table, count) /\ Answer("addcols", Col(at), TRUE)
             ELSE OnClone("addcols", Col(at), InsertedCols(table, at, count))

\* delete_table_column.
DeleteCol ==
  /\ Called
  /\ \E k \in 0 .. table.cols :
       \/ (k >= table.cols \/ table.cols <= 1) /\ Refuse("delcol", Col(k))
       \/ /\ k < table.cols /\ table.cols > 1
          /\ InPlace("delcol", Col(k), WithoutCol(table, k))

\* set_cell: the first paragraph keeps its id, the others take ids above
\* every id of the document, reserved before anything is changed.  An empty
\* value has no block and leaves one blank paragraph.
DocMaxId(t) == Max({MaxId(t)} \cup Outside)
NewText(t, c, blocks) ==
  [i \in 1 .. Atleast(1, blocks) |->
     [kind |-> IF blocks = 0 THEN "blank" ELSE "text",
      id   |-> IF i = 1 THEN c.paras[1].id ELSE DocMaxId(t) + i - 1]]

SetCell ==
  /\ Called
  /\ \E r \in 0 .. table.rows, k \in 0 .. table.cols, blocks \in 0 .. 2 :
       LET at  == {c \in table.cells : c.row = r /\ c.col = k}
           out == blocks > 1 /\ DocMaxId(table) + blocks - 1 >= IdSpace
       IN  \/ (at = {} \/ out) /\ Refuse("setcell", <<r, k>>)
           \/ /\ ~out
              /\ \E c \in at :
                   table' = [table EXCEPT !.cells = (@ \ {c})
                               \cup {[c EXCEPT !.paras = NewText(table, c, blocks)]}]
              /\ Answer("setcell", <<r, k>>, TRUE)

\* A rows by Len(widths) table without merges; ids from 1 in row-major order.
\* kind[r, k]: what the paragraph of the cell holds.
FreshTable(rows, widths, kind) ==
  LET cols == Len(widths)
  IN  [rows |-> rows, cols |-> cols, counts |-> [r \in 0 .. rows - 1 |-> cols],
       cells |-> {[row |-> r, col |-> k, rs |-> 1, cs |-> 1, w |-> widths[k + 1],
                   paras |-> <<[kind |-> kind[r, k], id |-> r * cols + k + 1]>>] :
                    r \in 0 .. rows - 1, k \in 0 .. cols - 1}]

Init == /\ table \in FirstTables
        /\ call = [op |-> "none", at |-> <<0, 0>>, ok |-> TRUE]
        /\ calls = 0

Next == AddRows \/ DeleteRow \/ Merge \/ Split \/ AddCols \/ DeleteCol \/ SetCell

Spec == Init /\ [][Next]_vars

-----------------------------------------------------------------------------
(* Properties.                                                             *)

TypeOK ==
  /\ IsTable(table)
  /\ call \in [op : Ops, at : Nat \X Nat, ok : BOOLEAN]
  /\ calls \in 0 .. MaxCalls

IdsUnique == DistinctIds(table)

\* Whatever edits were made in whatever order, every position of the grid
\* belongs to exactly one cell (build_grid; two of the edits never validate),
\* row_cell_counts, which is written to the file and decides which rows are
\* clean, is the number of cells anchored in each row, and paragraph ids are
\* not used twice.
WellFormed == Tiled(table) /\ table.counts = Recount(table) /\ IdsUnique

\* An edit that answers an error changed nothing: the edits made in place
\* have changed the table before validate_table_invariants could refuse it.
RefusedChangesNothing == [][~call'.ok => table' = table]_vars

TextIds(cells) == {p.id : p \in {q \in ParasIn(cells) : HasText(q)}}

\* A structural edit loses text only with the row or the column it was asked to
\* delete: the text of cells that lie in that line and nowhere else.  Merging,
\* splitting and adding lose none, and set_cell that of its own cell only.
TextSurvives ==
  [][ \A c \in table.cells :
        \/ TextIds({c}) \subseteq TextIds(table'.cells)
        \/ call'.op = "setcell" /\ call'.at = <<c.row, c.col>>
        \/ call'.op = "delrow" /\ c.rs = 1 /\ call'.at = Row(c.row)
        \/ call'.op = "delcol" /\ c.cs = 1 /\ call'.at = Col(c.col) ]_vars

RowWidth(t, r) ==
  MapThenSumSet(LAMBDA c : c.w, {c \in t.cells : r \in RowsOf(c)})
Aligned(t) ==
  \A c \in t.cells : c.w = Total(ColumnWidths(t), ColsOf(c))

\* A column is added or deleted within the width of the table, to the unit,
\* while every cell is as wide as its columns.  (split_cell shares a width out
\* equally and can leave cells of one column of several widths: the next column
\* edit then takes the widest and the table grows.)
WidthKept ==
  [][ call'.op \in {"addcols", "delcol"} /\ Aligned(table) =>
        \A r \in Rows(table) : RowWidth(table', r) = RowWidth(table, r) ]_vars

=============================================================================
