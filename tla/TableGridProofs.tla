---------------------------- MODULE TableGridProofs ----------------------------
(***************************************************************************)
(* The theorems about TableGrid.                                           *)
(*                                                                         *)
(* The invariant says that a table is in order: its cells tile the grid    *)
(* and its counts are those of its rows.  No edit needs more than that of  *)
(* the table it is given, so the proof is one lemma for each edit, about   *)
(* the table it computes (SetCellKeeps, MergeKeeps, SplitKeeps,            *)
(* AddRowsKeeps, AppendColsKeeps, InsertColsKeeps, DeleteColKeeps,         *)
(* DeleteRowKeeps), and one step for each action.                          *)
(*                                                                         *)
(* A tiling is reasoned about in arithmetic (In, Inside, Full, Apart) and  *)
(* changed in three ways: positions renumbered, some cells replaced by     *)
(* others on the same positions, cells added on new positions (Renumber,   *)
(* Replace, Extend).                                                       *)
(***************************************************************************)
EXTENDS TableGrid, FoldFacts

-----------------------------------------------------------------------------
(* Tilings: the grid in arithmetic.                                        *)

\* Cell c lies on position (r, k).
In(c, r, k) == c.row <= r /\ r < c.row + c.rs /\ c.col <= k /\ k < c.col + c.cs

\* The cells tile R rows and K columns: none leaves them, every position has
\* a cell and no more than one.
Inside(R, K, cells) == \A c \in cells : c.row + c.rs <= R /\ c.col + c.cs <= K
Full(R, K, cells)   == \A r \in 0 .. R - 1, k \in 0 .. K - 1 : \E c \in cells : In(c, r, k)
Apart(cells)        == \A c, d \in cells : \A r, k \in Nat : In(c, r, k) /\ In(d, r, k) => c = d
Tiling(R, K, cells) == Inside(R, K, cells) /\ Full(R, K, cells) /\ Apart(cells)

\* What the type of a cell says of its fields.
LEMMA CellTypes ==
  ASSUME NEW c \in Cell
  PROVE  /\ c.row \in Nat /\ c.col \in Nat
         /\ c.rs \in Nat /\ c.rs >= 1 /\ c.cs \in Nat /\ c.cs >= 1
         /\ c.w \in Nat /\ c.w >= 1
         /\ c.paras \in Seq(Para) /\ c.paras # <<>>
BY DEF Cell

\* A range of numbers from 0 is finite, and how large it is.
LEMMA Interval ==
  ASSUME NEW n \in Nat
  PROVE  IsFiniteSet(0 .. n - 1) /\ Cardinality(0 .. n - 1) = n
<1>1. n - 1 \in Int /\ 0 \in Int
  OBVIOUS
<1>2. /\ IsFiniteSet(0 .. n - 1)
      /\ Cardinality(0 .. n - 1) = IF 0 > n - 1 THEN 0 ELSE (n - 1) - 0 + 1
  BY <1>1, FS_Interval
<1> QED
  BY <1>2

\* The arithmetic form of Covers.
LEMMA CoversIn ==
  ASSUME NEW c \in Cell, NEW r \in Int, NEW k \in Int
  PROVE  Covers(c, r, k) <=> In(c, r, k)
BY CellTypes DEF Covers, In, RowsOf, ColsOf

\* A position a cell inside the grid covers lies in the grid.
LEMMA InBounds ==
  ASSUME NEW c \in Cell, NEW R \in Nat, NEW K \in Nat, NEW r \in Nat, NEW k \in Nat,
         c.row + c.rs <= R, c.col + c.cs <= K, In(c, r, k)
  PROVE  r \in 0 .. R - 1 /\ k \in 0 .. K - 1
<1>1. c.row \in Nat /\ c.rs \in Nat /\ c.col \in Nat /\ c.cs \in Nat
  BY CellTypes
<1> QED
  BY <1>1 DEF In

\* build_grid succeeds exactly when the cells tile the table.
LEMMA TiledIff ==
  ASSUME NEW t, t.rows \in Nat, t.cols \in Nat, t.cells \subseteq Cell
  PROVE  Tiled(t) <=> Tiling(t.rows, t.cols, t.cells)
<1>1. ASSUME Tiled(t) PROVE Tiling(t.rows, t.cols, t.cells)
  <2>1. ASSUME NEW c \in t.cells PROVE c.row + c.rs <= t.rows /\ c.col + c.cs <= t.cols
    <3>1. c \in Cell
      OBVIOUS
    <3>2. c.row + c.rs - 1 \in RowsOf(c) /\ c.col + c.cs - 1 \in ColsOf(c)
      BY <3>1, CellTypes DEF RowsOf, ColsOf
    <3>3. c.row + c.rs - 1 \in Rows(t) /\ c.col + c.cs - 1 \in Cols(t)
      BY <3>2, <1>1 DEF Tiled
    <3>4. /\ c.row \in Nat /\ c.rs \in Nat /\ c.col \in Nat /\ c.cs \in Nat
          /\ 0 <= c.row + c.rs - 1 /\ c.row + c.rs - 1 <= t.rows - 1
          /\ 0 <= c.col + c.cs - 1 /\ c.col + c.cs - 1 <= t.cols - 1
      BY <3>1, <3>3, CellTypes DEF Rows, Cols
    <3> QED
      BY <3>4
  <2>2. ASSUME NEW r \in 0 .. t.rows - 1, NEW k \in 0 .. t.cols - 1
        PROVE  \E c \in t.cells : In(c, r, k) /\ \A d \in t.cells : In(d, r, k) => d = c
    <3>1. PICK c \in t.cells : Covers(c, r, k) /\ \A d \in t.cells : Covers(d, r, k) => d = c
      BY <1>1 DEF Tiled, Rows, Cols
    <3> QED
      BY <3>1, CoversIn
  <2>3. ASSUME NEW c \in t.cells, NEW d \in t.cells, NEW r \in Nat, NEW k \in Nat,
               In(c, r, k), In(d, r, k)
        PROVE  c = d
    <3>1. /\ c.row \in Nat /\ c.rs \in Nat /\ c.col \in Nat /\ c.cs \in Nat
          /\ c.row + c.rs <= t.rows /\ c.col + c.cs <= t.cols
      BY <2>1, CellTypes
    <3>2. r \in 0 .. t.rows - 1 /\ k \in 0 .. t.cols - 1
      BY <3>1, <2>3 DEF In
    <3> QED
      BY <3>2, <2>2, <2>3
  <2> QED
    BY <2>1, <2>2, <2>3 DEF Tiling, Inside, Full, Apart
<1>2. ASSUME Tiling(t.rows, t.cols, t.cells) PROVE Tiled(t)
  <2>1. ASSUME NEW c \in t.cells PROVE RowsOf(c) \subseteq Rows(t) /\ ColsOf(c) \subseteq Cols(t)
    <3>1. c.row + c.rs <= t.rows /\ c.col + c.cs <= t.cols
      BY <1>2 DEF Tiling, Inside
    <3>2. c.row \in Nat /\ c.rs \in Nat /\ c.col \in Nat /\ c.cs \in Nat
      BY CellTypes
    <3> QED
      BY <3>1, <3>2 DEF RowsOf, ColsOf, Rows, Cols
  <2>2. ASSUME NEW r \in Rows(t), NEW k \in Cols(t)
        PROVE  \E c \in t.cells : /\ Covers(c, r, k)
                                  /\ \A d \in t.cells : Covers(d, r, k) => d = c
    <3>1. r \in Nat /\ k \in Nat /\ r \in 0 .. t.rows - 1 /\ k \in 0 .. t.cols - 1
      BY DEF Rows, Cols
    <3>2. PICK c \in t.cells : In(c, r, k)
      BY <1>2, <3>1 DEF Tiling, Full
    <3>3. Covers(c, r, k)
      BY <3>1, <3>2, CoversIn
    <3>4. ASSUME NEW d \in t.cells, Covers(d, r, k) PROVE d = c
      <4>1. In(d, r, k)
        BY <3>1, <3>4, CoversIn
      <4> QED
        BY <3>1, <3>2, <4>1, <1>2 DEF Tiling, Apart
    <3> QED
      BY <3>3, <3>4
  <2> QED
    BY <2>1, <2>2 DEF Tiled
<1> QED
  BY <1>1, <1>2

RowCells(cells, r) == {c \in cells : c.row = r}
Anchors(cells, r)  == {c.col : c \in RowCells(cells, r)}

\* A tiling has finitely many cells: one at most begins at each position.
LEMMA CellsFinite ==
  ASSUME NEW R \in Nat, NEW K \in Nat, NEW cells \in SUBSET Cell, Tiling(R, K, cells)
  PROVE  /\ IsFiniteSet(cells)
         /\ Cardinality(cells) <= R * K
<1> DEFINE place == [c \in cells |-> <<c.row, c.col>>]
           P     == (0 .. R - 1) \X (0 .. K - 1)
<1>1. ASSUME NEW c \in cells
      PROVE  In(c, c.row, c.col) /\ c.row \in 0 .. R - 1 /\ c.col \in 0 .. K - 1
  <2>1. c \in Cell /\ c.row + c.rs <= R /\ c.col + c.cs <= K
    BY DEF Tiling, Inside
  <2> QED
    BY <2>1, CellTypes DEF In
<1>2. place \in Injection(cells, P)
  <2>1. place \in [cells -> P]
    BY <1>1
  <2>2. ASSUME NEW c \in cells, NEW d \in cells, place[c] = place[d] PROVE c = d
    <3>1. c.row = d.row /\ c.col = d.col
      BY <2>2
    <3>2. c.row \in Nat /\ c.col \in Nat
      BY <1>1
    <3> QED
      BY <1>1, <3>1, <3>2 DEF Tiling, Apart
  <2> QED
    BY <2>1, <2>2 DEF Injection, IsInjective
<1>3. /\ IsFiniteSet(0 .. R - 1) /\ Cardinality(0 .. R - 1) = R
      /\ IsFiniteSet(0 .. K - 1) /\ Cardinality(0 .. K - 1) = K
  BY Interval
<1>4. IsFiniteSet(P) /\ Cardinality(P) = R * K
  <2> DEFINE A == 0 .. R - 1
             B == 0 .. K - 1
  <2>1. IsFiniteSet(A) /\ IsFiniteSet(B) /\ Cardinality(A) = R /\ Cardinality(B) = K /\ P = A \X B
    BY <1>3
  <2> HIDE DEF A, B, P
  <2>2. IsFiniteSet(A \X B) /\ Cardinality(A \X B) = Cardinality(A) * Cardinality(B)
    BY <2>1, FS_Product
  <2> QED
    BY <2>1, <2>2
<1> QED
  BY <1>2, <1>4, FS_Injection

\* The cells that begin in a row are counted by the columns they begin in.
LEMMA RowCount ==
  ASSUME NEW R \in Nat, NEW K \in Nat, NEW cells \in SUBSET Cell, Tiling(R, K, cells),
         NEW r \in Nat
  PROVE  /\ IsFiniteSet(RowCells(cells, r))
         /\ Anchors(cells, r) \subseteq 0 .. K - 1
         /\ IsFiniteSet(Anchors(cells, r))
         /\ Cardinality(RowCells(cells, r)) = Cardinality(Anchors(cells, r))
         /\ Cardinality(RowCells(cells, r)) \in Nat
<1> DEFINE S == RowCells(cells, r)
           T == Anchors(cells, r)
           f == [c \in S |-> c.col]
<1>1. IsFiniteSet(S)
  BY CellsFinite, FS_Subset DEF RowCells
<1>2. ASSUME NEW c \in S
      PROVE  c \in cells /\ c.row = r /\ In(c, c.row, c.col) /\ c.col \in 0 .. K - 1
  <2>1. c \in cells /\ c \in Cell /\ c.row = r /\ c.row + c.rs <= R /\ c.col + c.cs <= K
    BY DEF Tiling, Inside, RowCells
  <2> QED
    BY <2>1, CellTypes DEF In
<1>3. f \in Bijection(S, T)
  <2>1. f \in [S -> T] /\ \A k \in T : \E c \in S : f[c] = k
    BY DEF Anchors
  <2>2. ASSUME NEW c \in S, NEW d \in S, f[c] = f[d] PROVE c = d
    <3>1. c.col = d.col /\ c.row = d.row
      BY <2>2, <1>2
    <3> QED
      BY <1>2, <3>1 DEF Tiling, Apart
  <2> QED
    BY <2>1, <2>2 DEF Bijection, Injection, Surjection, IsInjective
<1>4. IsFiniteSet(T) /\ Cardinality(T) = Cardinality(S)
  BY <1>1, <1>3, FS_Bijection DEF ExistsBijection
<1>5. T \subseteq 0 .. K - 1
  BY <1>2 DEF Anchors
<1> QED
  BY <1>1, <1>4, <1>5, FS_CardinalityType

\* Cells moved, or shrunk, so that they cover what they covered before the
\* positions were renumbered: row `i' was row `fr[i]', column `j' column `fc[j]'.
Renumbered(R2, K2, cells, kept, g, fr, fc) ==
  /\ \A c \in kept : \A i \in 0 .. R2 - 1, j \in 0 .. K2 - 1 :
       In(g[c], i, j) <=> In(c, fr[i], fc[j])
  /\ \A c \in cells \ kept : \A i \in 0 .. R2 - 1, j \in 0 .. K2 - 1 :
       ~In(c, fr[i], fc[j])

ImageOf(img, g, kept) == img = {g[c] : c \in kept}

\* The image of a tiling under such a move is a tiling.
LEMMA Renumber ==
  ASSUME NEW R \in Nat, NEW K \in Nat, NEW cells \in SUBSET Cell, Tiling(R, K, cells),
         NEW R2 \in Nat, NEW K2 \in Nat, NEW kept \in SUBSET cells, NEW g \in [kept -> Cell],
         NEW fr \in [0 .. R2 - 1 -> 0 .. R - 1], NEW fc \in [0 .. K2 - 1 -> 0 .. K - 1],
         Renumbered(R2, K2, cells, kept, g, fr, fc),
         NEW img, ImageOf(img, g, kept), Inside(R2, K2, img)
  PROVE  Tiling(R2, K2, img)
<1>1. ASSUME NEW i \in 0 .. R2 - 1, NEW j \in 0 .. K2 - 1
      PROVE  \E c \in kept : In(g[c], i, j)
  <2>1. PICK c \in cells : In(c, fr[i], fc[j])
    BY DEF Tiling, Full
  <2>2. c \in kept
    BY <2>1 DEF Renumbered
  <2>3. In(g[c], i, j)
    BY <2>1, <2>2 DEF Renumbered
  <2> QED
    BY <2>2, <2>3
<1>2. ASSUME NEW c \in kept, NEW d \in kept, NEW i \in Nat, NEW j \in Nat,
             In(g[c], i, j), In(g[d], i, j)
      PROVE  g[c] = g[d]
  <2>1. g[c].row + g[c].rs <= R2 /\ g[c].col + g[c].cs <= K2
    BY DEF Inside, ImageOf
  <2>2. g[c] \in Cell
    OBVIOUS
  <2>3. i \in 0 .. R2 - 1 /\ j \in 0 .. K2 - 1
    BY <1>2, <2>1, <2>2, InBounds
  <2>4. fr[i] \in Nat /\ fc[j] \in Nat
    BY <2>3
  <2>5. In(c, fr[i], fc[j]) /\ In(d, fr[i], fc[j])
    BY <1>2, <2>3 DEF Renumbered
  <2>6. c = d
    BY <2>4, <2>5 DEF Tiling, Apart
  <2> QED
    BY <2>6
<1>3. Full(R2, K2, img)
  <2> SUFFICES ASSUME NEW i \in 0 .. R2 - 1, NEW j \in 0 .. K2 - 1
               PROVE  \E x \in img : In(x, i, j)
    BY DEF Full
  <2>1. PICK c \in kept : In(g[c], i, j)
    BY <1>1
  <2> QED
    BY <2>1 DEF ImageOf
<1>4. Apart(img)
  BY <1>2 DEF Apart, ImageOf
<1> QED
  BY <1>3, <1>4 DEF Tiling

\* Some cells replaced by others that cover the same positions.
LEMMA Replace ==
  ASSUME NEW R \in Nat, NEW K \in Nat, NEW cells \in SUBSET Cell, Tiling(R, K, cells),
         NEW gone \in SUBSET cells, NEW new \in SUBSET Cell, Inside(R, K, new), Apart(new),
         \A r, k \in Nat : (\E c \in gone : In(c, r, k)) <=> (\E c \in new : In(c, r, k))
  PROVE  Tiling(R, K, (cells \ gone) \cup new)
<1> DEFINE C == (cells \ gone) \cup new
<1>1. Inside(R, K, C)
  BY DEF Tiling, Inside
<1>2. ASSUME NEW r \in 0 .. R - 1, NEW k \in 0 .. K - 1
      PROVE  \E c \in C : In(c, r, k)
  <2>1. PICK c \in cells : In(c, r, k)
    BY DEF Tiling, Full
  <2>2. r \in Nat /\ k \in Nat
    OBVIOUS
  <2> QED
    BY <2>1, <2>2
<1>3. ASSUME NEW c \in C, NEW d \in C, NEW r \in Nat, NEW k \in Nat,
             In(c, r, k), In(d, r, k)
      PROVE  c = d
  <2>1. CASE c \in new /\ d \in new
    BY <2>1, <1>3 DEF Apart
  <2>2. CASE c \notin new /\ d \notin new
    BY <2>2, <1>3 DEF Tiling, Apart
  <2>3. CASE c \in new /\ d \notin new
    <3>1. PICK e \in gone : In(e, r, k)
      BY <2>3, <1>3
    <3>2. e = d
      BY <3>1, <2>3, <1>3 DEF Tiling, Apart
    <3> QED
      BY <3>1, <3>2, <2>3
  <2>4. CASE c \notin new /\ d \in new
    <3>1. PICK e \in gone : In(e, r, k)
      BY <2>4, <1>3
    <3>2. e = c
      BY <3>1, <2>4, <1>3 DEF Tiling, Apart
    <3> QED
      BY <3>1, <3>2, <2>4
  <2> QED
    BY <2>1, <2>2, <2>3, <2>4
<1> QED
  BY <1>1, <1>2, <1>3 DEF Tiling, Full, Apart

\* Cells added on new positions.
LEMMA Extend ==
  ASSUME NEW R \in Nat, NEW K \in Nat, NEW cells \in SUBSET Cell, Tiling(R, K, cells),
         NEW R2 \in Nat, NEW K2 \in Nat, R <= R2, K <= K2,
         NEW new \in SUBSET Cell, Inside(R2, K2, new), Apart(new),
         \A r \in 0 .. R2 - 1, k \in 0 .. K2 - 1 :
           (\E c \in new : In(c, r, k)) <=> ~(r < R /\ k < K)
  PROVE  Tiling(R2, K2, cells \cup new)
<1> DEFINE C == cells \cup new
<1>1. ASSUME NEW c \in cells
      PROVE  /\ c.row + c.rs <= R2 /\ c.col + c.cs <= K2
             /\ \A r, k \in Nat : In(c, r, k) => r < R /\ k < K
  <2>1. c.row + c.rs <= R /\ c.col + c.cs <= K
    BY DEF Tiling, Inside
  <2>2. /\ c.row \in Nat /\ c.rs \in Nat /\ c.col \in Nat /\ c.cs \in Nat
    BY CellTypes
  <2> QED
    BY <2>1, <2>2 DEF In
<1>2. Inside(R2, K2, C)
  BY <1>1 DEF Inside
<1>3. ASSUME NEW r \in 0 .. R2 - 1, NEW k \in 0 .. K2 - 1
      PROVE  \E c \in C : In(c, r, k)
  <2>1. CASE r < R /\ k < K
    <3>1. r \in 0 .. R - 1 /\ k \in 0 .. K - 1
      BY <2>1
    <3>2. PICK c \in cells : In(c, r, k)
      BY <3>1 DEF Tiling, Full
    <3> QED
      BY <3>2
  <2>2. CASE ~(r < R /\ k < K)
    BY <2>2
  <2> QED
    BY <2>1, <2>2
<1>4. ASSUME NEW c \in C, NEW d \in C, NEW r \in Nat, NEW k \in Nat,
             In(c, r, k), In(d, r, k)
      PROVE  c = d
  <2>1. /\ c.row + c.rs <= R2 /\ c.col + c.cs <= K2
        /\ c.row \in Nat /\ c.rs \in Nat /\ c.col \in Nat /\ c.cs \in Nat
    BY <1>2, CellTypes DEF Inside
  <2>2. r \in 0 .. R2 - 1 /\ k \in 0 .. K2 - 1
    BY <2>1, <1>4 DEF In
  <2>3. CASE r < R /\ k < K
    <3>1. c \in cells /\ d \in cells
      BY <2>2, <2>3, <1>4
    <3> QED
      BY <3>1, <1>4 DEF Tiling, Apart
  <2>4. CASE ~(r < R /\ k < K)
    <3>1. c \in new /\ d \in new
      BY <2>4, <1>1, <1>4
    <3> QED
      BY <3>1, <1>4 DEF Apart
  <2> QED
    BY <2>3, <2>4
<1> QED
  BY <1>2, <1>3, <1>4 DEF Tiling, Full, Apart

-----------------------------------------------------------------------------
(* Cells in order.                                                         *)

\* No two of the cells begin at the same position.
Placed(cells) == \A c, d \in cells : c.row = d.row /\ c.col = d.col => c = d

\* The cells of a tiling are determined by where they begin.
LEMMA TilingPlaces ==
  ASSUME NEW R \in Nat, NEW K \in Nat, NEW cells \in SUBSET Cell, Tiling(R, K, cells),
         NEW S \in SUBSET cells
  PROVE  IsFiniteSet(S) /\ Placed(S)
<1>1. IsFiniteSet(S)
  BY CellsFinite, FS_Subset
<1>2. ASSUME NEW c \in S, NEW d \in S, c.row = d.row, c.col = d.col PROVE c = d
  <2>1. /\ c.row \in Nat /\ c.rs \in Nat /\ c.rs >= 1 /\ c.col \in Nat /\ c.cs \in Nat /\ c.cs >= 1
        /\ d.row \in Nat /\ d.rs \in Nat /\ d.rs >= 1 /\ d.col \in Nat /\ d.cs \in Nat /\ d.cs >= 1
    BY CellTypes
  <2>2. In(c, c.row, c.col) /\ In(d, c.row, c.col)
    BY <1>2, <2>1 DEF In
  <2> QED
    BY <2>1, <2>2 DEF Tiling, Apart
<1> QED
  BY <1>1, <1>2 DEF Placed

\* The list of the cells in row-major order has each of them once.
LEMMA InOrderLists ==
  ASSUME NEW cells \in SUBSET Cell, IsFiniteSet(cells), Placed(cells)
  PROVE  /\ Cardinality(cells) \in Nat
         /\ InOrder(cells) \in [1 .. Cardinality(cells) -> cells]
         /\ \A c \in cells : \E i \in 1 .. Cardinality(cells) : InOrder(cells)[i] = c
         /\ \A i, j \in 1 .. Cardinality(cells) : InOrder(cells)[i] = InOrder(cells)[j] => i = j
<1> DEFINE n       == Cardinality(cells)
           ahead(c) == {d \in cells : Before(d, c)}
           rank    == [c \in cells |-> Cardinality(ahead(c))]
<1>1. n \in Nat
  BY FS_CardinalityType
<1>2. ASSUME NEW c \in cells, NEW d \in cells
      PROVE  /\ ~Before(c, c)
             /\ c # d => Before(c, d) \/ Before(d, c)
             /\ \A e \in cells : Before(e, c) /\ Before(c, d) => Before(e, d)
  <2>1. c.row \in Nat /\ c.col \in Nat /\ d.row \in Nat /\ d.col \in Nat
    BY CellTypes
  <2>2. \A e \in cells : e.row \in Nat /\ e.col \in Nat
    BY CellTypes
  <2>3. c # d => c.row # d.row \/ c.col # d.col
    BY DEF Placed
  <2> QED
    BY <2>1, <2>2, <2>3 DEF Before, Precedes
<1>3. ASSUME NEW c \in cells
      PROVE  IsFiniteSet(ahead(c)) /\ rank[c] \in 0 .. n - 1 /\ rank[c] \in Nat
  <2>1. ahead(c) \in SUBSET cells /\ ahead(c) # cells
    BY <1>2
  <2>2. /\ IsFiniteSet(ahead(c)) /\ Cardinality(ahead(c)) <= n
        /\ Cardinality(ahead(c)) # n /\ Cardinality(ahead(c)) \in Nat
    <3> HIDE DEF ahead
    <3> QED
      BY <2>1, FS_Subset, FS_CardinalityType
  <2> QED
    BY <1>1, <2>2
<1>4. ASSUME NEW c \in cells, NEW d \in cells, Before(c, d)
      PROVE  rank[c] < rank[d]
  <2>1. ahead(c) \in SUBSET ahead(d) /\ ahead(c) # ahead(d)
    BY <1>2, <1>4
  <2>2. Cardinality(ahead(c)) <= Cardinality(ahead(d)) /\ Cardinality(ahead(c)) # Cardinality(ahead(d))
    <3>1. IsFiniteSet(ahead(d))
      BY <1>3
    <3> HIDE DEF ahead
    <3> QED
      BY <2>1, <3>1, FS_Subset
  <2>3. rank[c] \in Nat /\ rank[d] \in Nat
    BY <1>3
  <2>4. rank[c] = Cardinality(ahead(c)) /\ rank[d] = Cardinality(ahead(d))
    OBVIOUS
  <2> HIDE DEF rank, ahead
  <2> QED
    BY <2>2, <2>3, <2>4
<1>5. rank \in Injection(cells, 0 .. n - 1)
  <2>1. rank \in [cells -> 0 .. n - 1]
    BY <1>3
  <2>2. ASSUME NEW c \in cells, NEW d \in cells, rank[c] = rank[d] PROVE c = d
    <3> HIDE DEF rank, ahead
    <3>1. rank[c] \in Nat /\ ~(rank[c] < rank[d]) /\ ~(rank[d] < rank[c])
      BY <2>2, <1>3
    <3> QED
      BY <3>1, <1>2, <1>4
  <2> HIDE DEF rank
  <2> QED
    BY <2>1, <2>2 DEF Injection, IsInjective
<1>6. rank \in Surjection(cells, 0 .. n - 1)
  <2>1. IsFiniteSet(0 .. n - 1) /\ Cardinality(0 .. n - 1) = n
    BY <1>1, Interval
  <2> HIDE DEF rank
  <2> QED
    BY <1>5, <2>1, FS_Injection
<1>7. ASSUME NEW i \in 1 .. n
      PROVE  /\ InOrder(cells)[i] \in cells
             /\ rank[InOrder(cells)[i]] = i - 1
  <2>1. i - 1 \in 0 .. n - 1
    BY <1>1
  <2>2. \E c \in cells : rank[c] = i - 1
    <3> HIDE DEF rank
    <3> QED
      BY <2>1, <1>6 DEF Surjection
  <2>3. \E c \in cells : Cardinality(ahead(c)) = i - 1
    BY <2>2
  <2>4. InOrder(cells)[i] = CHOOSE c \in cells : Cardinality(ahead(c)) = i - 1
    BY DEF InOrder
  <2> QED
    BY <2>3, <2>4
<1>8. ASSUME NEW c \in cells PROVE \E i \in 1 .. n : InOrder(cells)[i] = c
  <2>1. rank[c] + 1 \in 1 .. n /\ rank[InOrder(cells)[rank[c] + 1]] = rank[c]
    <3>1. rank[c] + 1 \in 1 .. n /\ (rank[c] + 1) - 1 = rank[c]
      <4>1. rank[c] \in 0 .. n - 1
        BY <1>3
      <4> HIDE DEF rank, n
      <4> QED
        BY <1>1, <4>1
    <3> HIDE DEF rank
    <3> QED
      BY <3>1, <1>7
  <2>2. InOrder(cells)[rank[c] + 1] \in cells
    BY <2>1, <1>7
  <2>3. InOrder(cells)[rank[c] + 1] = c
    <3> HIDE DEF rank
    <3> QED
      BY <2>1, <2>2, <1>5 DEF Injection, IsInjective
  <2> QED
    BY <2>1, <2>3
<1>9. ASSUME NEW i \in 1 .. n, NEW j \in 1 .. n, InOrder(cells)[i] = InOrder(cells)[j] PROVE i = j
  <2>1. i - 1 = j - 1
    BY <1>7, <1>9
  <2> QED
    BY <2>1
<1>10. InOrder(cells) \in [1 .. n -> cells]
  <2> DEFINE at(i) == CHOOSE c \in cells : Cardinality({d \in cells : Before(d, c)}) = i - 1
  <2>1. InOrder(cells) = [i \in 1 .. n |-> at(i)]
    BY DEF InOrder
  <2> HIDE DEF at, n
  <2>2. ASSUME NEW i \in 1 .. n PROVE at(i) \in cells
    BY <1>7, <2>1
  <2> QED
    BY <2>1, <2>2
<1> QED
  BY <1>1, <1>8, <1>9, <1>10

-----------------------------------------------------------------------------
(* Column widths.                                                          *)

\* Sharing a among n: the shares are whole, and n of them are no more than a.
LEMMA Shares ==
  ASSUME NEW a \in Nat, NEW n \in Nat, n # 0
  PROVE  /\ a \div n \in Nat
         /\ (a \div n) * n <= a
         /\ (a \div n) * (n - 1) <= a
         /\ (a \div n) * (n - 1) \in Nat
<1>1. a \div n \in Nat /\ (a \div n) * n <= a
  OBVIOUS
<1>2. n - 1 \in Nat /\ (a \div n) * (n - 1) = (a \div n) * n - (a \div n)
  BY <1>1
<1>3. (a \div n) * (n - 1) \in Nat /\ (a \div n) * n \in Nat
  BY <1>1, <1>2
<1> QED
  BY <1>1, <1>2, <1>3

\* The image of a finite set is finite.
LEMMA ImageFinite ==
  ASSUME NEW S, IsFiniteSet(S), NEW f
  PROVE  /\ IsFiniteSet({f[x] : x \in S})
         /\ Cardinality({f[x] : x \in S}) <= Cardinality(S)
<1> DEFINE g == [x \in S |-> f[x]]
<1>1. g \in Surjection(S, {f[x] : x \in S})
  BY DEF Surjection
<1> HIDE DEF g
<1> QED
  BY <1>1, FS_Surjection

\* What is known of a table whose cells tile it.
Grid(t) ==
  /\ t.rows \in Nat /\ t.rows >= 1 /\ t.cols \in Nat /\ t.cols >= 1
  /\ t.cells \in SUBSET Cell
  /\ Tiling(t.rows, t.cols, t.cells)

\* What one-column cells say of a column is a width or 0.
LEMMA OwnWidthType ==
  ASSUME NEW t, Grid(t), NEW k \in Int
  PROVE  OwnWidth(t, k) \in Nat
<1> DEFINE D == {d \in t.cells : d.cs = 1 /\ d.col = k}
           f == [c \in D |-> c.w]
           W == {f[c] : c \in D}
<1>1. IsFiniteSet(D)
  BY CellsFinite, FS_Subset DEF Grid
<1>2. IsFiniteSet(W)
  <2> HIDE DEF D, f
  <2> QED
    BY <1>1, ImageFinite
<1>3. W = {c.w : c \in D}
  OBVIOUS
<1>4. W \subseteq Nat
  <2>1. \A c \in D : c \in Cell
    BY DEF Grid
  <2>2. \A c \in D : c.w \in Nat
    BY <2>1, CellTypes
  <2> QED
    BY <1>3, <2>2
<1>5. IsFiniteSet({0} \cup W) /\ {0} \cup W # {} /\ {0} \cup W \subseteq Nat
  <2> HIDE DEF W
  <2>1. IsFiniteSet(W \cup {0})
    BY <1>2, FS_AddElement
  <2> QED
    BY <1>4, <2>1
<1>6. Max({0} \cup W) \in Nat
  <2>1. {0} \cup W \subseteq Int
    BY <1>5
  <2>2. Max({0} \cup W) \in {0} \cup W
    <3> HIDE DEF W
    <3> QED
      BY <1>5, <2>1, MaxExists
  <2> QED
    BY <1>5, <2>2
<1> QED
  BY <1>3, <1>6 DEF OwnWidth

\* A wider cell only adds widths.
LEMMA FillType ==
  ASSUME NEW K \in Nat, NEW w \in [0 .. K - 1 -> Nat], NEW c \in Cell, c.col + c.cs <= K
  PROVE  FillFrom(w, c) \in [0 .. K - 1 -> Nat]
<1> DEFINE unknown == {j \in ColsOf(c) : w[j] = 0}
           rem     == Atleast(0, c.w - Total(w, ColsOf(c)))
           n       == Cardinality(unknown)
           each    == rem \div n
<1>1. ColsOf(c) \subseteq 0 .. K - 1 /\ IsFiniteSet(ColsOf(c))
  <2>1. c.col \in Nat /\ c.cs \in Nat
    BY CellTypes
  <2>2. c.col \in Int /\ c.col + c.cs - 1 \in Int
    BY <2>1
  <2>3. IsFiniteSet(c.col .. c.col + c.cs - 1)
    BY <2>2, FS_Interval
  <2> QED
    BY <2>1, <2>3 DEF ColsOf
<1>2. rem \in Nat
  <2>1. Total(w, ColsOf(c)) \in Nat
    BY <1>1, TotalNat
  <2>2. c.w \in Nat
    BY CellTypes
  <2> QED
    BY <2>1, <2>2 DEF Atleast
<1>3. ASSUME NEW j \in unknown PROVE each \in Nat /\ rem - each * (n - 1) \in Nat
  <2>1. IsFiniteSet(unknown)
    BY <1>1, FS_Subset
  <2>2. n \in Nat /\ n # 0
    <3> HIDE DEF unknown
    <3> QED
      BY <2>1, FS_CardinalityType, FS_EmptySet
  <2> HIDE DEF rem, n
  <2>3. each \in Nat /\ each * (n - 1) <= rem /\ each * (n - 1) \in Nat
    BY <1>2, <2>2, Shares
  <2> HIDE DEF each
  <2> QED
    BY <1>2, <2>3
<1>4. FillFrom(w, c) = [j \in 0 .. K - 1 |->
                          IF j \notin unknown THEN w[j]
                          ELSE IF j = Max(unknown) THEN rem - each * (n - 1) ELSE each]
  BY DEF FillFrom
<1> HIDE DEF unknown, rem, n, each
<1> QED
  BY <1>3, <1>4

\* A list of cells fills the widths one after the other.
LEMMA FillAllType ==
  ASSUME NEW K \in Nat, NEW w \in [0 .. K - 1 -> Nat], NEW n \in Nat,
         NEW list \in [1 .. n -> Cell], \A i \in 1 .. n : list[i].col + list[i].cs <= K
  PROVE  FoldLeft(FillFrom, w, list) \in [0 .. K - 1 -> Nat]
<1> DEFINE V      == [0 .. K - 1 -> Nat]
           S      == 1 .. n
           ch     == [s \in SUBSET S |-> Max(s)]
           h      == [x \in (SUBSET S) \X V |->
                        IF x[1] = {} THEN w ELSE FillFrom(x[2], list[Max(x[1])])]
           Eqn(f) == f = [s \in SUBSET S |->
                            IF s = {} THEN w ELSE FillFrom(f[s \ {Max(s)}], list[Max(s)])]
<1>1. IsFiniteSet(S)
  BY FS_Interval
<1>2. ASSUME NEW s \in SUBSET S, s # {} PROVE Max(s) \in s /\ Max(s) \in S
  <2>1. s \subseteq Int
    OBVIOUS
  <2>2. IsFiniteSet(s)
    <3> HIDE DEF S
    <3> QED
      BY <1>1, FS_Subset
  <2> QED
    BY <1>2, <2>1, <2>2, MaxExists
<1>3. ASSUME NEW v \in V, NEW s \in SUBSET S, s # {}
      PROVE  FillFrom(v, list[Max(s)]) \in V
  BY <1>2, <1>3, FillType
<1>4. FoldGiven(S, V, w, h, ch)
  <2>1. ASSUME NEW s \in SUBSET S, NEW v \in V PROVE h[<<s, v>>] \in V
    <3>1. h[<<s, v>>] = IF s = {} THEN w ELSE FillFrom(v, list[Max(s)])
      OBVIOUS
    <3> HIDE DEF h, V
    <3> QED
      BY <3>1, <1>3 DEF V
  <2>2. \A s \in SUBSET S : s # {} => ch[s] \in s
    BY <1>2
  <2> HIDE DEF h, ch, V
  <2> QED
    BY <2>1, <2>2 DEF FoldGiven, V
<1>5. PICK g : FoldOf(g, S, V, w, h, ch)
  <2> HIDE DEF h, ch, V, S
  <2> QED
    BY <1>1, <1>4, FoldExists
<1>6. Eqn(g)
  <2>1. ASSUME NEW s \in SUBSET S, s # {}
        PROVE  g[s] = FillFrom(g[s \ {Max(s)}], list[Max(s)])
    <3>1. s \ {Max(s)} \in SUBSET S /\ g[s \ {Max(s)}] \in V
      <4> HIDE DEF V
      <4> QED
        BY <1>5 DEF FoldOf
    <3>2. g[s] = h[<<s, g[s \ {ch[s]}]>>] /\ ch[s] = Max(s)
      <4>1. ch[s] = Max(s)
        OBVIOUS
      <4> HIDE DEF V, h, ch
      <4> QED
        BY <1>5, <2>1, <4>1 DEF FoldOf
    <3>3. h[<<s, g[s \ {Max(s)}]>>] = FillFrom(g[s \ {Max(s)}], list[Max(s)])
      <4> HIDE DEF V
      <4> QED
        BY <2>1, <3>1
    <3> HIDE DEF h, ch
    <3> QED
      BY <3>2, <3>3
  <2> HIDE DEF h, ch, V
  <2> QED
    BY <1>5, <2>1 DEF FoldOf
<1> DEFINE f == CHOOSE f : Eqn(f)
<1>7. Eqn(f)
  BY <1>6
<1>8. FoldLeft(FillFrom, w, list) = f[S]
  BY DEF FoldLeft, MapThenFoldSet
<1>9. f[S] \in V
  <2> HIDE DEF f, V
  <2> DEFINE G == {s \in SUBSET S : f[s] \in V}
  <2>1. ASSUME NEW s \in SUBSET S, \A u \in SUBSET s : u # s => u \in G
        PROVE  s \in G
    <3>1. CASE s = {}
      BY <3>1, <1>7 DEF V
    <3>2. CASE s # {}
      <4>1. f[s] = FillFrom(f[s \ {Max(s)}], list[Max(s)])
        BY <3>2, <1>7
      <4>2. f[s \ {Max(s)}] \in V
        BY <3>2, <1>2, <2>1
      <4> QED
        BY <3>2, <4>1, <4>2, <1>3
    <3> QED
      BY <3>1, <3>2
  <2>2. S \in G
    <3> HIDE DEF G, S
    <3> QED
      BY <1>1, <2>1, BySubsets
  <2> QED
    BY <2>2
<1> QED
  BY <1>8, <1>9

\* Every column has a width: none is 0.
LEMMA ColumnWidthsType ==
  ASSUME NEW t, Grid(t), BodyWidth \in Nat
  PROVE  ColumnWidths(t) \in [0 .. t.cols - 1 -> Nat \ {0}]
<1> DEFINE wide   == {c \in t.cells : c.cs > 1}
           own    == [k \in Cols(t) |-> OwnWidth(t, k)]
           filled == FoldLeft(FillFrom, own, InOrder(wide))
           total  == Total(filled, Cols(t))
           share  == (IF total > 0 THEN total ELSE BodyWidth) \div t.cols
<1>1. own \in [0 .. t.cols - 1 -> Nat]
  <2>1. \A k \in Cols(t) : OwnWidth(t, k) \in Nat
    BY OwnWidthType DEF Cols
  <2> QED
    BY <2>1 DEF Cols
<1>2. wide \in SUBSET t.cells /\ IsFiniteSet(wide) /\ Placed(wide)
  <2>1. wide \in SUBSET t.cells
    OBVIOUS
  <2> HIDE DEF wide
  <2> QED
    BY <2>1, TilingPlaces DEF Grid
<1>3. /\ Cardinality(wide) \in Nat
      /\ InOrder(wide) \in [1 .. Cardinality(wide) -> Cell]
      /\ \A i \in 1 .. Cardinality(wide) : InOrder(wide)[i].col + InOrder(wide)[i].cs <= t.cols
  <2>1. wide \in SUBSET Cell
    BY DEF Grid
  <2>2. \A c \in wide : c \in Cell /\ c.col + c.cs <= t.cols
    BY DEF Grid, Tiling, Inside
  <2> HIDE DEF wide
  <2> QED
    BY <1>2, <2>1, <2>2, InOrderLists
<1>4. filled \in [0 .. t.cols - 1 -> Nat]
  <2> HIDE DEF own, wide
  <2> QED
    BY <1>1, <1>3, FillAllType DEF Grid
<1> HIDE DEF filled
<1>5. total \in Nat
  <2>1. IsFiniteSet(Cols(t))
    BY Interval DEF Grid, Cols
  <2> QED
    BY <1>4, <2>1, TotalNat DEF Cols
<1> HIDE DEF total
<1>6. Atleast(1, share) \in Nat \ {0}
  <2>1. (IF total > 0 THEN total ELSE BodyWidth) \in Nat /\ t.cols \in Nat /\ t.cols # 0
    BY <1>5 DEF Grid
  <2>2. share \in Nat
    BY <2>1, Shares
  <2> HIDE DEF share
  <2> QED
    BY <2>2 DEF Atleast
<1>7. ColumnWidths(t) = [k \in Cols(t) |-> IF filled[k] = 0 THEN Atleast(1, share) ELSE filled[k]]
  BY DEF ColumnWidths, filled, total
<1> HIDE DEF share
<1> QED
  BY <1>4, <1>6, <1>7 DEF Cols

-----------------------------------------------------------------------------
(* Ids of new cells.                                                       *)

\* The paragraphs of finitely many cells are finitely many, and their ids
\* have a greatest one.
LEMMA ParasFinite ==
  ASSUME NEW cells \in SUBSET Cell, IsFiniteSet(cells)
  PROVE  /\ ParasIn(cells) \subseteq Para
         /\ IsFiniteSet(IdsIn(cells))
         /\ IdsIn(cells) \subseteq 0 .. IdSpace - 1
<1> DEFINE sets == [c \in cells |-> ToSet(c.paras)]
           ids  == [p \in ParasIn(cells) |-> p.id]
<1>1. ASSUME NEW c \in cells
      PROVE  ToSet(c.paras) \subseteq Para /\ IsFiniteSet(ToSet(c.paras))
  <2>1. c.paras \in Seq(Para)
    BY CellTypes
  <2>2. Len(c.paras) \in Nat /\ DOMAIN c.paras = 1 .. Len(c.paras)
        /\ \A i \in DOMAIN c.paras : c.paras[i] \in Para
    BY <2>1
  <2>3. IsFiniteSet(DOMAIN c.paras)
    <3>1. 1 \in Int /\ Len(c.paras) \in Int
      BY <2>2
    <3>2. IsFiniteSet(1 .. Len(c.paras))
      BY <3>1, FS_Interval
    <3> QED
      BY <2>2, <3>2
  <2> DEFINE D == DOMAIN c.paras
             q == c.paras
  <2>4. IsFiniteSet({q[i] : i \in D})
    <3> HIDE DEF q, D
    <3> QED
      BY <2>3, ImageFinite DEF D
  <2> QED
    BY <2>2, <2>4 DEF ToSet
<1>2. ParasIn(cells) \subseteq Para
  BY <1>1 DEF ParasIn
<1>3. IsFiniteSet({sets[c] : c \in cells})
  <2> HIDE DEF sets
  <2> QED
    BY ImageFinite
<1>4. \A T \in {sets[c] : c \in cells} : IsFiniteSet(T)
  BY <1>1
<1>5. IsFiniteSet(UNION {sets[c] : c \in cells})
  <2> HIDE DEF sets
  <2> QED
    BY <1>3, <1>4, FS_UNION
<1>6. ParasIn(cells) = UNION {sets[c] : c \in cells}
  BY DEF ParasIn
<1>7. IsFiniteSet({ids[p] : p \in ParasIn(cells)})
  <2> HIDE DEF ids
  <2> QED
    BY <1>5, <1>6, ImageFinite
<1>8. IdsIn(cells) = {ids[p] : p \in ParasIn(cells)}
  BY DEF IdsIn
<1>9. IdsIn(cells) \subseteq 0 .. IdSpace - 1
  BY <1>2 DEF IdsIn, Para
<1> QED
  BY <1>2, <1>7, <1>8, <1>9

\* The largest id is one, or 0, and no id exceeds it.
LEMMA MaxIdFacts ==
  ASSUME NEW t, Grid(t)
  PROVE  MaxId(t) \in Nat /\ \A x \in IdsIn(t.cells) : x \in Nat /\ x <= MaxId(t)
<1> DEFINE I == {0} \cup IdsIn(t.cells)
<1>1. /\ IsFiniteSet(IdsIn(t.cells))
      /\ IdsIn(t.cells) \subseteq Nat
  <2>1. t.cells \in SUBSET Cell /\ IsFiniteSet(t.cells)
    BY CellsFinite DEF Grid
  <2>2. IdsIn(t.cells) \subseteq 0 .. IdSpace - 1 /\ IsFiniteSet(IdsIn(t.cells))
    BY <2>1, ParasFinite
  <2> QED
    BY <2>2
<1>2. I \subseteq Nat /\ I # {} /\ I \subseteq Int
  BY <1>1
<1>3. IsFiniteSet(I)
  <2>1. IsFiniteSet(IdsIn(t.cells) \cup {0})
    BY <1>1, FS_AddElement
  <2> QED
    BY <2>1
<1>4. Max(I) \in I /\ \A x \in I : x <= Max(I)
  <2> HIDE DEF I
  <2> QED
    BY <1>2, <1>3, MaxExists
<1> QED
  BY <1>2, <1>4 DEF MaxId

\* The number of the new cell at x among those at S, in row-major order.
Turn(S, x) == Cardinality({y \in S : Precedes(y, x) \/ y = x})

\* The turn of a new cell: each has another one, within the number of cells.
LEMMA TurnFacts ==
  ASSUME NEW S \in SUBSET (Nat \X Nat), IsFiniteSet(S)
  PROVE  /\ \A x \in S : Turn(S, x) \in 1 .. Cardinality(S) /\ Turn(S, x) \in Nat
         /\ \A x, y \in S : Turn(S, x) = Turn(S, y) => x = y
         /\ Cardinality(S) \in Nat
<1> DEFINE upto(x) == {y \in S : Precedes(y, x) \/ y = x}
<1>1. ASSUME NEW x \in S
      PROVE  /\ IsFiniteSet(upto(x)) /\ Turn(S, x) \in Nat
             /\ 1 <= Turn(S, x) /\ Turn(S, x) <= Cardinality(S)
  <2>1. upto(x) \in SUBSET S /\ x \in upto(x)
    OBVIOUS
  <2>2. Turn(S, x) = Cardinality(upto(x))
    BY DEF Turn
  <2> HIDE DEF upto
  <2>3. IsFiniteSet(upto(x)) /\ Cardinality(upto(x)) <= Cardinality(S) /\ Cardinality(upto(x)) \in Nat
    BY <2>1, FS_Subset, FS_CardinalityType
  <2>4. Cardinality(upto(x)) # 0
    BY <2>1, <2>3, FS_EmptySet
  <2> QED
    BY <2>2, <2>3, <2>4
<1>2. Cardinality(S) \in Nat
  BY FS_CardinalityType
<1>3. ASSUME NEW x \in S, NEW y \in S, Precedes(x, y)
      PROVE  Turn(S, x) # Turn(S, y)
  <2>1. /\ x[1] \in Nat /\ x[2] \in Nat /\ y[1] \in Nat /\ y[2] \in Nat
        /\ \A z \in S : z[1] \in Nat /\ z[2] \in Nat
    OBVIOUS
  <2>2. y \notin upto(x) /\ y \in upto(y) /\ \A z \in upto(x) : z \in upto(y)
    BY <2>1, <1>3 DEF Precedes
  <2>3. upto(x) \in SUBSET upto(y) /\ upto(x) # upto(y) /\ IsFiniteSet(upto(y))
    <3>1. upto(x) \in SUBSET upto(y) /\ upto(x) # upto(y)
      <4> HIDE DEF upto
      <4> QED
        BY <2>2
    <3> QED
      BY <3>1, <1>1
  <2>4. Cardinality(upto(x)) # Cardinality(upto(y))
    <3> HIDE DEF upto
    <3> QED
      BY <2>3, FS_Subset
  <2> QED
    BY <2>4 DEF Turn
<1>4. ASSUME NEW x \in S, NEW y \in S, x # y PROVE Precedes(x, y) \/ Precedes(y, x)
  <2>1. /\ x[1] \in Nat /\ x[2] \in Nat /\ y[1] \in Nat /\ y[2] \in Nat
        /\ x = <<x[1], x[2]>> /\ y = <<y[1], y[2]>>
    OBVIOUS
  <2> QED
    BY <2>1, <1>4 DEF Precedes
<1>5. ASSUME NEW x \in S
      PROVE  Turn(S, x) \in 1 .. Cardinality(S) /\ Turn(S, x) \in Nat
  <2>1. Turn(S, x) \in Nat /\ 1 <= Turn(S, x) /\ Turn(S, x) <= Cardinality(S)
    BY <1>1
  <2> QED
    BY <2>1, <1>2
<1>6. \A x, y \in S : Turn(S, x) = Turn(S, y) => x = y
  BY <1>3, <1>4
<1> QED
  BY <1>2, <1>5, <1>6

\* Below the modulus a remainder is the number itself.
LEMMA Modulo ==
  ASSUME NEW a \in Nat, NEW n \in Nat \ {0}
  PROVE  a % n \in 0 .. n - 1 /\ (a < n => a % n = a)
OBVIOUS

\* New cells take ids above every id of the table, each its own, as long as
\* the ids do not wrap.
LEMMA FreshIds ==
  ASSUME NEW t, Grid(t), NEW S \in SUBSET (Nat \X Nat), IsFiniteSet(S)
  PROVE  /\ \A x \in S : FreshId(t, S, x) \in 0 .. IdSpace - 1
         /\ MaxId(t) + Cardinality(S) < IdSpace =>
              \A x \in S : FreshId(t, S, x) = MaxId(t) + Turn(S, x)
<1>1. /\ MaxId(t) \in Nat
      /\ Cardinality(S) \in Nat
      /\ \A x \in S : Turn(S, x) \in Nat /\ Turn(S, x) <= Cardinality(S)
  BY MaxIdFacts, TurnFacts
<1>2. \A x \in S : FreshId(t, S, x) = (MaxId(t) + Turn(S, x)) % IdSpace
  BY DEF FreshId, Turn
<1>3. IdSpace \in Nat \ {0}
  BY NumbersAssumption
<1>4. ASSUME NEW x \in S
      PROVE  /\ FreshId(t, S, x) \in 0 .. IdSpace - 1
             /\ MaxId(t) + Cardinality(S) < IdSpace => FreshId(t, S, x) = MaxId(t) + Turn(S, x)
  <2>1. MaxId(t) + Turn(S, x) \in Nat /\ MaxId(t) + Turn(S, x) <= MaxId(t) + Cardinality(S)
    BY <1>1
  <2>2. MaxId(t) + Cardinality(S) < IdSpace => MaxId(t) + Turn(S, x) < IdSpace
    BY <1>1, <1>3, <2>1
  <2> QED
    BY <1>2, <1>3, <2>1, <2>2, Modulo
<1> QED
  BY <1>4

-----------------------------------------------------------------------------
(* New cells.                                                              *)

\* new has one cell of a single position at each position of S, and no other.
Singles(new, S) ==
  /\ \A c \in new : c.rs = 1 /\ c.cs = 1 /\ <<c.row, c.col>> \in S
  /\ \A x \in S : \E c \in new : c.row = x[1] /\ c.col = x[2]
  /\ Placed(new)

\* A new cell is one blank cell of one position.
LEMMA NewCellsShape ==
  ASSUME NEW t, Grid(t), NEW S \in SUBSET (Nat \X Nat), IsFiniteSet(S), NEW w \in [S -> Nat \ {0}]
  PROVE  NewCells(t, w) \in SUBSET Cell /\ Singles(NewCells(t, w), S)
<1> DEFINE cell(x) == BlankCell(x[1], x[2], w[x], FreshId(t, S, x))
<1>1. NewCells(t, w) = {cell(x) : x \in S}
  BY DEF NewCells
<1>2. ASSUME NEW x \in S
      PROVE  /\ cell(x) \in Cell /\ cell(x).rs = 1 /\ cell(x).cs = 1
             /\ cell(x).row = x[1] /\ cell(x).col = x[2] /\ <<x[1], x[2]>> = x
  <2>1. x[1] \in Nat /\ x[2] \in Nat /\ w[x] \in Nat \ {0} /\ <<x[1], x[2]>> = x
    OBVIOUS
  <2>2. [kind |-> "blank", id |-> FreshId(t, S, x)] \in Para
    BY FreshIds DEF Para, Kinds
  <2>3. <<[kind |-> "blank", id |-> FreshId(t, S, x)]>> \in Seq(Para) \ {<<>>}
    BY <2>2
  <2> QED
    BY <2>1, <2>3 DEF BlankCell, Cell
<1>3. ASSUME NEW c \in NewCells(t, w)
      PROVE  \E x \in S : /\ c = cell(x) /\ c \in Cell /\ c.rs = 1 /\ c.cs = 1
                          /\ x = <<c.row, c.col>>
  <2>1. PICK x \in S : c = cell(x)
    BY <1>1
  <2> HIDE DEF cell
  <2> QED
    BY <2>1, <1>2
<1>4. \A x \in S : \E c \in NewCells(t, w) : c.row = x[1] /\ c.col = x[2]
  <2> HIDE DEF cell
  <2> QED
    BY <1>1, <1>2
<1>5. Placed(NewCells(t, w))
  <2> SUFFICES ASSUME NEW c \in NewCells(t, w), NEW d \in NewCells(t, w),
                      c.row = d.row, c.col = d.col
               PROVE  c = d
    BY DEF Placed
  <2>1. PICK x \in S : c = cell(x) /\ x = <<c.row, c.col>>
    BY <1>3
  <2>2. PICK y \in S : d = cell(y) /\ y = <<d.row, d.col>>
    BY <1>3
  <2> QED
    BY <2>1, <2>2
<1> HIDE DEF cell
<1>6. NewCells(t, w) \in SUBSET Cell
  BY <1>3
<1>7. \A c \in NewCells(t, w) : c.rs = 1 /\ c.cs = 1 /\ <<c.row, c.col>> \in S
  BY <1>3
<1> QED
  BY <1>4, <1>5, <1>6, <1>7 DEF Singles

\* What such cells cover.
LEMMA SinglesCover ==
  ASSUME NEW new \in SUBSET Cell, NEW S \in SUBSET (Nat \X Nat), Singles(new, S)
  PROVE  /\ Apart(new)
         /\ \A r, k \in Nat : (\E c \in new : In(c, r, k)) <=> <<r, k>> \in S
<1>1. ASSUME NEW c \in new, NEW r \in Nat, NEW k \in Nat
      PROVE  In(c, r, k) <=> r = c.row /\ k = c.col
  <2>1. c.row \in Nat /\ c.col \in Nat /\ c.rs = 1 /\ c.cs = 1
    BY CellTypes DEF Singles
  <2> QED
    BY <2>1 DEF In
<1>2. Apart(new)
  BY <1>1 DEF Apart, Singles, Placed
<1>3. ASSUME NEW r \in Nat, NEW k \in Nat
      PROVE  (\E c \in new : In(c, r, k)) <=> <<r, k>> \in S
  <2>1. ASSUME NEW c \in new, In(c, r, k) PROVE <<r, k>> \in S
    <3>1. r = c.row /\ k = c.col
      BY <1>1, <2>1
    <3> QED
      BY <3>1 DEF Singles
  <2>2. ASSUME <<r, k>> \in S PROVE \E c \in new : In(c, r, k)
    <3>1. PICK c \in new : c.row = r /\ c.col = k
      BY <2>2 DEF Singles
    <3> QED
      BY <3>1, <1>1
  <2> QED
    BY <2>1, <2>2
<1> QED
  BY <1>2, <1>3

-----------------------------------------------------------------------------
(* Sequences joined; the paragraphs a merge keeps.                         *)

\* The elements of s come, each once, from the sequences that are joined.
Joined(s, seqs, n, A) ==
  /\ s \in Seq(A)
  /\ \A p \in 1 .. Len(s) : \E i \in 1 .. n : \E a \in 1 .. Len(seqs[i]) : s[p] = seqs[i][a]
  /\ \A i \in 1 .. n : \A a \in 1 .. Len(seqs[i]) : \E p \in 1 .. Len(s) : s[p] = seqs[i][a]

\* All elements of all the sequences differ.
AllDiffer(seqs, n) ==
  \A i, j \in 1 .. n : \A a \in 1 .. Len(seqs[i]), b \in 1 .. Len(seqs[j]) :
    seqs[i][a] = seqs[j][b] => i = j /\ a = b

\* f[i] joins the first i of n sequences.
JoinsOf(f, seqs, n, A) ==
  /\ f \in [1 .. n -> Seq(A)]
  /\ f[1] = seqs[1]
  /\ \A i \in 2 .. n : f[i] = f[i - 1] \o seqs[i]

\* The definition of FlattenSeq, one step of its recursion at a time.
LEMMA FlattenUnfold ==
  ASSUME NEW A, NEW n \in Nat, n >= 1, NEW seqs \in [1 .. n -> Seq(A)]
  PROVE  \E f : JoinsOf(f, seqs, n, A) /\ FlattenSeq(seqs) = f[n]
<1> DEFINE V      == Seq(A)
           h      == [x \in (1 .. n) \X V |-> x[2] \o seqs[x[1]]]
           Eqn(f) == f = [i \in 1 .. n |-> IF i = 1 THEN seqs[i] ELSE f[i - 1] \o seqs[i]]
<1>1. StepsGiven(n, V, <<>>, h)
  <2>1. ASSUME NEW i \in 1 .. n, NEW v \in V PROVE h[<<i, v>>] \in V
    <3>1. h[<<i, v>>] = v \o seqs[i] /\ seqs[i] \in Seq(A)
      OBVIOUS
    <3> HIDE DEF h
    <3> QED
      BY <3>1
  <2> HIDE DEF h
  <2> QED
    BY <2>1 DEF StepsGiven
<1>2. PICK g : StepsOf(g, n, V, <<>>, h)
  <2> HIDE DEF V, h
  <2> QED
    BY <1>1, StepsExist
<1>3. ASSUME NEW i \in 1 .. n
      PROVE  g[i] = g[i - 1] \o seqs[i] /\ g[i] \in Seq(A) /\ g[i - 1] \in Seq(A)
  <2>1. i - 1 \in 0 .. n /\ i \in 0 .. n
    OBVIOUS
  <2>2. g[i] = h[<<i, g[i - 1]>>] /\ g[i - 1] \in V /\ g[i] \in V
    <3> HIDE DEF V, h
    <3> QED
      BY <1>2, <2>1 DEF StepsOf
  <2> QED
    BY <2>2
<1>4. g[1] = seqs[1]
  <2>1. 1 \in 1 .. n /\ g[0] = <<>>
    BY <1>2 DEF StepsOf
  <2>z. 1 - 1 = 0
    OBVIOUS
  <2>2. g[1] = <<>> \o seqs[1] /\ seqs[1] \in Seq(A)
    BY <1>3, <2>1, <2>z
  <2> QED
    BY <2>2, ConcatEmptySeq
<1> DEFINE e == [i \in 1 .. n |-> g[i]]
<1>5. Eqn(e)
  <2>1. ASSUME NEW i \in 1 .. n
        PROVE  e[i] = IF i = 1 THEN seqs[i] ELSE e[i - 1] \o seqs[i]
    <3>1. i # 1 => i - 1 \in 1 .. n
      OBVIOUS
    <3> QED
      BY <1>3, <1>4, <3>1
  <2>2. e = [i \in 1 .. n |-> e[i]]
    OBVIOUS
  <2> HIDE DEF e
  <2> QED
    BY <2>1, <2>2
<1> DEFINE f == CHOOSE f : Eqn(f)
<1>6. Eqn(f)
  <2> HIDE DEF e
  <2> QED
    BY <1>5
<1>7. FlattenSeq(seqs) = f[n]
  <2>1. Len(seqs) = n
    BY LenProperties
  <2> QED
    BY <2>1 DEF FlattenSeq
<1> HIDE DEF f
<1>8. f[1] = seqs[1] /\ \A i \in 2 .. n : f[i] = f[i - 1] \o seqs[i]
  <2>1. \A i \in 1 .. n : f[i] = IF i = 1 THEN seqs[i] ELSE f[i - 1] \o seqs[i]
    BY <1>6
  <2>2. 1 \in 1 .. n /\ \A i \in 2 .. n : i \in 1 .. n /\ i # 1
    OBVIOUS
  <2> QED
    BY <2>1, <2>2
<1>9. f \in [1 .. n -> Seq(A)]
  <2> DEFINE N == {m \in Nat : m \in 1 .. n => f[m] \in Seq(A)}
  <2>1. 0 \in N
    OBVIOUS
  <2>2. ASSUME NEW m \in Nat, m \in N PROVE m + 1 \in N
    <3> SUFFICES ASSUME m + 1 \in 1 .. n PROVE f[m + 1] \in Seq(A)
      OBVIOUS
    <3>1. CASE m = 0
      <4>1. 1 \in 1 .. n
        OBVIOUS
      <4> QED
        BY <3>1, <4>1, <1>8
    <3>2. CASE m # 0
      <4>1. m \in 1 .. n /\ m + 1 \in 2 .. n /\ (m + 1) - 1 = m
        BY <3>2
      <4>2. f[m + 1] = f[m] \o seqs[m + 1] /\ f[m] \in Seq(A) /\ seqs[m + 1] \in Seq(A)
        BY <4>1, <1>8, <2>2
      <4> QED
        BY <4>2
    <3> QED
      BY <3>1, <3>2
  <2>3. Nat \subseteq N
    <3> HIDE DEF N
    <3> QED
      BY <2>1, <2>2, AllNumbers
  <2>4. \A i \in 1 .. n : f[i] \in Seq(A)
    BY <2>3
  <2>5. f = [i \in 1 .. n |-> f[i]]
    BY <1>6
  <2> QED
    BY <2>4, <2>5
<1> QED
  BY <1>7, <1>8, <1>9 DEF JoinsOf

\* No element of s occurs twice.
Distinct(s) == \A p, q \in 1 .. Len(s) : s[p] = s[q] => p = q

\* One more sequence joined.
LEMMA JoinedStep ==
  ASSUME NEW A, NEW m \in Nat, NEW seqs, NEW s, Joined(s, seqs, m, A),
         seqs[m + 1] \in Seq(A)
  PROVE  /\ Joined(s \o seqs[m + 1], seqs, m + 1, A)
         /\ AllDiffer(seqs, m + 1) /\ Distinct(s) => Distinct(s \o seqs[m + 1])
<1> DEFINE t == seqs[m + 1]
           u == s \o t
<1> USE DEF Joined
<1>1. /\ s \in Seq(A) /\ t \in Seq(A) /\ u \in Seq(A)
      /\ Len(s) \in Nat /\ Len(t) \in Nat /\ Len(u) = Len(s) + Len(t)
      /\ \A p \in 1 .. Len(u) : u[p] = IF p <= Len(s) THEN s[p] ELSE t[p - Len(s)]
  BY ConcatProperties, LenProperties
<1> HIDE DEF u, t
<1>2. ASSUME NEW p \in 1 .. Len(u)
      PROVE  \/ p \in 1 .. Len(s) /\ u[p] = s[p]
             \/ p \notin 1 .. Len(s) /\ p - Len(s) \in 1 .. Len(t) /\ u[p] = t[p - Len(s)]
  BY <1>1
<1>3. \A i \in 1 .. m : i \in 1 .. m + 1 /\ i # m + 1
  OBVIOUS
<1>4. m + 1 \in 1 .. m + 1 /\ \A i \in 1 .. m + 1 : i = m + 1 \/ i \in 1 .. m
  OBVIOUS
<1>5. ASSUME NEW p \in 1 .. Len(u)
      PROVE  \E i \in 1 .. m + 1 : \E a \in 1 .. Len(seqs[i]) : u[p] = seqs[i][a]
  <2>1. CASE p \in 1 .. Len(s)
    <3>1. PICK i \in 1 .. m : \E a \in 1 .. Len(seqs[i]) : s[p] = seqs[i][a]
      BY <2>1
    <3> QED
      BY <1>2, <1>3, <2>1, <3>1
  <2>2. CASE p \notin 1 .. Len(s)
    <3>1. p - Len(s) \in 1 .. Len(seqs[m + 1]) /\ u[p] = seqs[m + 1][p - Len(s)]
      BY <1>2, <2>2 DEF t
    <3> QED
      BY <1>4, <3>1
  <2> QED
    BY <2>1, <2>2
<1>6. ASSUME NEW i \in 1 .. m + 1, NEW a \in 1 .. Len(seqs[i])
      PROVE  \E p \in 1 .. Len(u) : u[p] = seqs[i][a]
  <2>1. CASE i \in 1 .. m
    <3>1. PICK p \in 1 .. Len(s) : s[p] = seqs[i][a]
      BY <2>1
    <3>2. p \in 1 .. Len(u) /\ u[p] = s[p]
      BY <1>1
    <3> QED
      BY <3>1, <3>2
  <2>2. CASE i = m + 1
    <3>1. a \in 1 .. Len(t)
      BY <2>2 DEF t
    <3>2. Len(s) + a \in 1 .. Len(u) /\ ~(Len(s) + a <= Len(s)) /\ (Len(s) + a) - Len(s) = a
      BY <1>1, <3>1
    <3>3. u[Len(s) + a] = t[a]
      BY <1>1, <3>2
    <3> QED
      BY <2>2, <3>2, <3>3 DEF t
  <2> QED
    BY <1>4, <2>1, <2>2
<1>7. ASSUME AllDiffer(seqs, m + 1), Distinct(s),
             NEW p \in 1 .. Len(u), NEW q \in 1 .. Len(u), u[p] = u[q]
      PROVE  p = q
  <2>1. CASE p \in 1 .. Len(s) /\ q \in 1 .. Len(s)
    BY <1>2, <1>7, <2>1 DEF Distinct
  <2>2. CASE p \notin 1 .. Len(s) /\ q \notin 1 .. Len(s)
    <3>1. /\ p - Len(s) \in 1 .. Len(t) /\ q - Len(s) \in 1 .. Len(t)
          /\ t[p - Len(s)] = t[q - Len(s)]
      BY <1>2, <1>7, <2>2
    <3>a. ASSUME NEW a \in 1 .. Len(t), NEW b \in 1 .. Len(t), t[a] = t[b] PROVE a = b
      BY <3>a, <1>4, <1>7 DEF AllDiffer, t
    <3>2. p - Len(s) = q - Len(s)
      BY <3>1, <3>a
    <3> QED
      BY <1>1, <3>2
  <2>3. ASSUME NEW x \in 1 .. Len(s), NEW y \in 1 .. Len(t)
        PROVE  s[x] # t[y]
    <3>1. PICK i \in 1 .. m : \E a \in 1 .. Len(seqs[i]) : s[x] = seqs[i][a]
      OBVIOUS
    <3> QED
      BY <3>1, <1>3, <1>4, <1>7 DEF AllDiffer, t
  <2> QED
    BY <1>2, <1>7, <2>1, <2>2, <2>3
<1>8. Joined(u, seqs, m + 1, A)
  BY <1>1, <1>5, <1>6
<1> QED
  BY <1>7, <1>8 DEF Distinct, u, t

\* Joining sequences keeps every element, and once if all differ.
LEMMA FlattenFacts ==
  ASSUME NEW A, NEW n \in Nat, n >= 1, NEW seqs \in [1 .. n -> Seq(A)]
  PROVE  /\ Joined(FlattenSeq(seqs), seqs, n, A)
         /\ AllDiffer(seqs, n) => Distinct(FlattenSeq(seqs))
<1>0. PICK f : JoinsOf(f, seqs, n, A) /\ FlattenSeq(seqs) = f[n]
  BY FlattenUnfold
<1>1. /\ f \in [1 .. n -> Seq(A)]
      /\ f[1] = seqs[1]
      /\ \A i \in 2 .. n : f[i] = f[i - 1] \o seqs[i]
      /\ FlattenSeq(seqs) = f[n]
  BY <1>0 DEF JoinsOf
<1> DEFINE Ok(m) == /\ Joined(f[m], seqs, m, A)
                    /\ AllDiffer(seqs, n) => Distinct(f[m])
           N == {m \in Nat : m \in 1 .. n => Ok(m)}
<1>2. 0 \in N
  OBVIOUS
<1>3. ASSUME NEW m \in Nat, m \in N PROVE m + 1 \in N
  <2> SUFFICES ASSUME m + 1 \in 1 .. n PROVE Ok(m + 1)
    OBVIOUS
  <2>1. CASE m = 0
    <3>1. 1 \in 1 .. n /\ 1 .. 1 = {1} /\ 0 + 1 = 1
      OBVIOUS
    <3>2. f[1] = seqs[1] /\ seqs[1] \in Seq(A)
      BY <1>1, <3>1
    <3>3. Joined(f[1], seqs, 1, A)
      BY <3>1, <3>2 DEF Joined
    <3>4. AllDiffer(seqs, n) => Distinct(f[1])
      BY <3>1, <3>2 DEF AllDiffer, Distinct
    <3> QED
      BY <2>1, <3>1, <3>3, <3>4
  <2>2. CASE m # 0
    <3>1. m \in 1 .. n /\ m + 1 \in 2 .. n /\ (m + 1) - 1 = m
      BY <2>2
    <3>2. f[m + 1] = f[m] \o seqs[m + 1] /\ seqs[m + 1] \in Seq(A)
      BY <1>1, <3>1
    <3>3. Ok(m)
      BY <1>3, <3>1
    <3>4. AllDiffer(seqs, n) => AllDiffer(seqs, m + 1)
      <4>1. \A i \in 1 .. m + 1 : i \in 1 .. n
        OBVIOUS
      <4> QED
        BY <4>1 DEF AllDiffer
    <3>5. Joined(f[m] \o seqs[m + 1], seqs, m + 1, A)
      BY <3>2, <3>3, JoinedStep
    <3>6. AllDiffer(seqs, m + 1) /\ Distinct(f[m]) => Distinct(f[m] \o seqs[m + 1])
      BY <3>2, <3>3, JoinedStep
    <3> QED
      BY <3>2, <3>3, <3>4, <3>5, <3>6
  <2> QED
    BY <2>1, <2>2
<1>4. Nat \subseteq N
  <2> HIDE DEF N
  <2> QED
    BY <1>2, <1>3, AllNumbers
<1>5. Ok(n)
  BY <1>4
<1> QED
  BY <1>1, <1>5

\* The paragraphs with text among the positions s of a list, in a list of their own.
Picked(u, paras, s) ==
  /\ u \in Seq(Para)
  /\ \A p \in 1 .. Len(u) : \E i \in s : u[p] = paras[i] /\ HasText(paras[i])
  /\ \A i \in s : HasText(paras[i]) => \E p \in 1 .. Len(u) : u[p] = paras[i]
  /\ Distinct(paras) => Distinct(u)

PickNext(kept, p) == IF HasText(p) THEN Append(kept, p) ELSE kept

\* One more paragraph looked at.
LEMMA PickStep ==
  ASSUME NEW paras \in Seq(Para), NEW s \in SUBSET (1 .. Len(paras)), NEW m \in s,
         NEW u, Picked(u, paras, s \ {m})
  PROVE  Picked(PickNext(u, paras[m]), paras, s)
<1>1. m \in 1 .. Len(paras) /\ paras[m] \in Para
  OBVIOUS
<1>2. CASE ~HasText(paras[m])
  BY <1>2 DEF Picked, PickNext
<1>3. CASE HasText(paras[m])
  <2> DEFINE v == Append(u, paras[m])
  <2>1. /\ u \in Seq(Para) /\ Len(u) \in Nat /\ v \in Seq(Para) /\ Len(v) = Len(u) + 1
        /\ \A p \in 1 .. Len(u) : v[p] = u[p]
        /\ v[Len(u) + 1] = paras[m]
    BY <1>1, AppendProperties, LenProperties DEF Picked
  <2> HIDE DEF v
  <2>2. /\ \A p \in 1 .. Len(v) : p \in 1 .. Len(u) \/ p = Len(u) + 1
        /\ Len(u) + 1 \in 1 .. Len(v)
        /\ \A p \in 1 .. Len(u) : p \in 1 .. Len(v)
    BY <2>1
  <2>3. ASSUME NEW p \in 1 .. Len(v)
        PROVE  \E i \in s : v[p] = paras[i] /\ HasText(paras[i])
    <3>1. CASE p \in 1 .. Len(u)
      <4>1. PICK i \in s \ {m} : u[p] = paras[i] /\ HasText(paras[i])
        BY <3>1 DEF Picked
      <4>2. v[p] = u[p]
        BY <2>1, <3>1
      <4> QED
        BY <4>1, <4>2
    <3>2. CASE p = Len(u) + 1
      BY <1>3, <2>1, <3>2
    <3> QED
      BY <2>2, <3>1, <3>2
  <2>4. ASSUME NEW i \in s, HasText(paras[i]) PROVE \E p \in 1 .. Len(v) : v[p] = paras[i]
    <3>1. CASE i = m
      BY <2>1, <2>2, <3>1
    <3>2. CASE i # m
      <4>1. PICK p \in 1 .. Len(u) : u[p] = paras[i]
        BY <2>4, <3>2 DEF Picked
      <4> QED
        BY <2>1, <2>2, <4>1
    <3> QED
      BY <3>1, <3>2
  <2>5. ASSUME Distinct(paras), NEW p \in 1 .. Len(v), NEW q \in 1 .. Len(v), v[p] = v[q]
        PROVE  p = q
    <3>1. ASSUME NEW x \in 1 .. Len(u) PROVE u[x] # paras[m]
      <4>1. PICK i \in s \ {m} : u[x] = paras[i]
        BY DEF Picked
      <4>2. i \in 1 .. Len(paras) /\ i # m
        OBVIOUS
      <4> QED
        BY <1>1, <2>5, <4>1, <4>2 DEF Distinct
    <3>2. CASE p \in 1 .. Len(u) /\ q \in 1 .. Len(u)
      BY <2>1, <2>5, <3>2 DEF Picked, Distinct
    <3> QED
      BY <2>1, <2>2, <2>5, <3>1, <3>2
  <2>6. Picked(v, paras, s)
    BY <2>1, <2>3, <2>4, <2>5 DEF Picked, Distinct
  <2> QED
    BY <1>3, <2>6 DEF v, PickNext
<1> QED
  BY <1>2, <1>3

\* What WithText leaves of a list of paragraphs.
LEMMA WithTextFacts ==
  ASSUME NEW paras \in Seq(Para)
  PROVE  Picked(WithText(paras), paras, 1 .. Len(paras))
<1> DEFINE V      == Seq(Para)
           S      == 1 .. Len(paras)
           ch     == [s \in SUBSET S |-> Max(s)]
           h      == [x \in (SUBSET S) \X V |->
                        IF x[1] = {} THEN <<>> ELSE PickNext(x[2], paras[Max(x[1])])]
           Eqn(f) == f = [s \in SUBSET S |->
                            IF s = {} THEN <<>> ELSE PickNext(f[s \ {Max(s)}], paras[Max(s)])]
<1>1. IsFiniteSet(S)
  BY FS_Interval, LenProperties
<1>2. ASSUME NEW s \in SUBSET S, s # {} PROVE Max(s) \in s /\ Max(s) \in S
  <2>1. s \subseteq Int
    OBVIOUS
  <2>2. IsFiniteSet(s)
    <3> HIDE DEF S
    <3> QED
      BY <1>1, FS_Subset
  <2> QED
    BY <1>2, <2>1, <2>2, MaxExists
<1>3. ASSUME NEW v \in V, NEW s \in SUBSET S, s # {}
      PROVE  PickNext(v, paras[Max(s)]) \in V
  <2>1. paras[Max(s)] \in Para
    BY <1>2, <1>3
  <2>2. Append(v, paras[Max(s)]) \in Seq(Para)
    BY <2>1, AppendProperties
  <2> QED
    BY <2>2 DEF PickNext
<1>4. FoldGiven(S, V, <<>>, h, ch)
  <2>1. ASSUME NEW s \in SUBSET S, NEW v \in V PROVE h[<<s, v>>] \in V
    <3>1. h[<<s, v>>] = IF s = {} THEN <<>> ELSE PickNext(v, paras[Max(s)])
      OBVIOUS
    <3>2. <<>> \in V
      OBVIOUS
    <3> HIDE DEF h, V
    <3> QED
      BY <3>1, <3>2, <1>3 DEF V
  <2>2. \A s \in SUBSET S : s # {} => ch[s] \in s
    BY <1>2
  <2>3. <<>> \in V
    OBVIOUS
  <2> HIDE DEF h, ch, V
  <2> QED
    BY <2>1, <2>2, <2>3 DEF FoldGiven
<1>5. PICK g : FoldOf(g, S, V, <<>>, h, ch)
  <2> HIDE DEF h, ch, V, S
  <2> QED
    BY <1>1, <1>4, FoldExists
<1>6. Eqn(g)
  <2>1. ASSUME NEW s \in SUBSET S, s # {}
        PROVE  g[s] = PickNext(g[s \ {Max(s)}], paras[Max(s)])
    <3>1. s \ {Max(s)} \in SUBSET S /\ g[s \ {Max(s)}] \in V
      <4> HIDE DEF V
      <4> QED
        BY <1>5 DEF FoldOf
    <3>2. g[s] = h[<<s, g[s \ {ch[s]}]>>] /\ ch[s] = Max(s)
      <4>1. ch[s] = Max(s)
        OBVIOUS
      <4> HIDE DEF V, h, ch
      <4> QED
        BY <1>5, <2>1, <4>1 DEF FoldOf
    <3>3. h[<<s, g[s \ {Max(s)}]>>] = PickNext(g[s \ {Max(s)}], paras[Max(s)])
      <4> HIDE DEF V
      <4> QED
        BY <2>1, <3>1
    <3> HIDE DEF h, ch
    <3> QED
      BY <3>2, <3>3
  <2> HIDE DEF h, ch, V
  <2> QED
    BY <1>5, <2>1 DEF FoldOf
<1> DEFINE f == CHOOSE f : Eqn(f)
<1>7. Eqn(f)
  BY <1>6
<1>8. WithText(paras) = f[S]
  <2>1. DOMAIN paras = S
    BY LenProperties
  <2> QED
    BY <2>1 DEF WithText, FoldLeft, MapThenFoldSet, PickNext
<1> HIDE DEF f
<1>9. Picked(f[S], paras, S)
  <2> DEFINE G == {s \in SUBSET S : Picked(f[s], paras, s)}
  <2>1. ASSUME NEW s \in SUBSET S, \A u \in SUBSET s : u # s => u \in G
        PROVE  s \in G
    <3>1. CASE s = {}
      <4>1. f[s] = <<>>
        BY <1>7, <3>1
      <4>2. <<>> \in Seq(Para) /\ 1 .. Len(<<>>) = {}
        OBVIOUS
      <4>3. Picked(<<>>, paras, {})
        BY <4>2 DEF Picked, Distinct
      <4> QED
        BY <3>1, <4>1, <4>3
    <3>2. CASE s # {}
      <4>1. f[s] = PickNext(f[s \ {Max(s)}], paras[Max(s)])
        BY <3>2, <1>7
      <4>2. Max(s) \in s
        BY <1>2, <3>2
      <4>3. Picked(f[s \ {Max(s)}], paras, s \ {Max(s)})
        BY <4>2, <2>1
      <4> QED
        BY <4>1, <4>2, <4>3, PickStep
    <3> QED
      BY <3>1, <3>2
  <2>2. S \in G
    <3> HIDE DEF G, S
    <3> QED
      BY <1>1, <2>1, BySubsets
  <2> QED
    BY <2>2
<1> QED
  BY <1>8, <1>9

\* A cell of a set of cells with paragraphs of their own: its kept paragraphs.
IdsDiffer(cells) ==
  /\ 0 \notin IdsIn(cells)
  /\ \A c, d \in cells : \A i \in 1 .. Len(c.paras), j \in 1 .. Len(d.paras) :
       c.paras[i].id = d.paras[j].id => c = d /\ i = j

\* The paragraphs of cells are those at some index of some cell.
LEMMA InParas ==
  ASSUME NEW cells \in SUBSET Cell
  PROVE  \A p : p \in ParasIn(cells) <=>
                  \E c \in cells : \E i \in 1 .. Len(c.paras) : p = c.paras[i]
<1>1. ASSUME NEW c \in cells PROVE DOMAIN c.paras = 1 .. Len(c.paras)
  <2>1. c.paras \in Seq(Para)
    BY CellTypes
  <2> QED
    BY <2>1, LenProperties
<1> QED
  BY <1>1 DEF ParasIn, ToSet

\* Merging keeps every paragraph with text, or one paragraph if there is none,
\* and none twice.
LEMMA KeptFacts ==
  ASSUME NEW gone \in SUBSET Cell, IsFiniteSet(gone), gone # {}, Placed(gone)
  PROVE  /\ Kept(gone) \in Seq(Para) \ {<<>>}
         /\ ToSet(Kept(gone)) \subseteq ParasIn(gone)
         /\ \A p \in ParasIn(gone) : HasText(p) => p \in ToSet(Kept(gone))
         /\ IdsDiffer(gone) =>
              \A i, j \in 1 .. Len(Kept(gone)) : Kept(gone)[i].id = Kept(gone)[j].id => i = j
<1> DEFINE n    == Cardinality(gone)
           list == InOrder(gone)
           seqs == [i \in DOMAIN list |-> list[i].paras]
           all  == FlattenSeq(seqs)
           kept == Kept(gone)
<1>1. /\ n \in Nat /\ n >= 1
      /\ list \in [1 .. n -> gone]
      /\ \A c \in gone : \E i \in 1 .. n : list[i] = c
      /\ \A i, j \in 1 .. n : list[i] = list[j] => i = j
  <2>1. n \in Nat /\ n # 0
    BY FS_CardinalityType, FS_EmptySet
  <2> QED
    BY <2>1, InOrderLists
<1> HIDE DEF n, list
<1>2. seqs \in [1 .. n -> Seq(Para)] /\ \A i \in 1 .. n : seqs[i] = list[i].paras /\ seqs[i] # <<>>
  <2>1. \A c \in gone : c.paras \in Seq(Para) /\ c.paras # <<>>
    BY CellTypes
  <2> QED
    BY <1>1, <2>1
<1>3. /\ Joined(all, seqs, n, Para)
      /\ AllDiffer(seqs, n) => Distinct(all)
  <2> HIDE DEF seqs
  <2> QED
    BY <1>1, <1>2, FlattenFacts
<1> HIDE DEF all, seqs
<1>4. all \in Seq(Para) /\ Len(all) \in Nat /\ DOMAIN all = 1 .. Len(all)
  BY <1>3, LenProperties DEF Joined
<1>5. ASSUME NEW p \in 1 .. Len(all) PROVE all[p] \in ParasIn(gone) /\ all[p] \in Para
  <2>1. PICK i \in 1 .. n : \E a \in 1 .. Len(seqs[i]) : all[p] = seqs[i][a]
    BY <1>3 DEF Joined
  <2>2. list[i] \in gone /\ \E a \in 1 .. Len(list[i].paras) : all[p] = list[i].paras[a]
    BY <1>1, <1>2, <2>1
  <2> QED
    BY <1>4, <2>2, InParas
<1>6. ASSUME NEW q \in ParasIn(gone) PROVE \E p \in 1 .. Len(all) : all[p] = q
  <2>1. PICK c \in gone : \E i \in 1 .. Len(c.paras) : q = c.paras[i]
    BY InParas
  <2>2. PICK i \in 1 .. n : list[i] = c
    BY <1>1
  <2> QED
    BY <1>2, <1>3, <2>1, <2>2 DEF Joined
<1>7. 1 \in 1 .. Len(all)
  <2>1. 1 \in 1 .. n
    BY <1>1
  <2>2. seqs[1] \in Seq(Para) /\ seqs[1] # <<>>
    BY <1>2, <2>1
  <2>3. 1 \in 1 .. Len(seqs[1])
    BY <2>2, EmptySeq, LenProperties
  <2>4. \E p \in 1 .. Len(all) : all[p] = seqs[1][1]
    BY <1>3, <2>1, <2>3 DEF Joined
  <2> QED
    BY <1>4, <2>4
<1>8. ToSet(all) = ParasIn(gone)
  BY <1>4, <1>5, <1>6 DEF ToSet
<1>9. /\ kept \in Seq(Para) /\ kept # <<>>
      /\ \A x \in 1 .. Len(kept) : \E y \in 1 .. Len(all) : kept[x] = all[y]
      /\ \A y \in 1 .. Len(all) : HasText(all[y]) => \E x \in 1 .. Len(kept) : kept[x] = all[y]
      /\ Distinct(all) => Distinct(kept)
  <2>1. CASE \E p \in ToSet(all) : HasText(p)
    <3>1. kept = WithText(all)
      BY <2>1 DEF Kept, all, seqs, list
    <3>2. Picked(kept, all, 1 .. Len(all))
      BY <1>4, <3>1, WithTextFacts
    <3>3. kept # <<>>
      <4>1. PICK p \in 1 .. Len(all) : HasText(all[p])
        BY <1>6, <1>8, <2>1
      <4>2. \E x \in 1 .. Len(kept) : kept[x] = all[p]
        BY <3>2, <4>1 DEF Picked
      <4>3. Len(<<>>) = 0
        OBVIOUS
      <4> QED
        BY <4>2, <4>3
    <3> HIDE DEF kept
    <3> QED
      BY <3>2, <3>3 DEF Picked
  <2>2. CASE ~\E p \in ToSet(all) : HasText(p)
    <3>1. kept = <<Head(all)>>
      BY <2>2 DEF Kept, all, seqs, list
    <3>2. all[1] \in Para /\ Head(all) = all[1]
      BY <1>4, <1>5, <1>7, HeadTailProperties, EmptySeq
    <3>3. kept \in Seq(Para) /\ Len(kept) = 1 /\ kept[1] = all[1] /\ kept # <<>>
      BY <3>1, <3>2
    <3>4. \A x \in 1 .. Len(kept) : x = 1
      BY <3>3
    <3> HIDE DEF kept
    <3>5. \A y \in 1 .. Len(all) : ~HasText(all[y])
      BY <1>5, <1>8, <2>2
    <3> QED
      BY <1>7, <3>3, <3>4, <3>5 DEF Distinct
  <2> QED
    BY <2>1, <2>2
<1> HIDE DEF kept
<1>10. DOMAIN kept = 1 .. Len(kept)
  BY <1>9, LenProperties
<1>11. ASSUME IdsDiffer(gone) PROVE AllDiffer(seqs, n)
  <2> SUFFICES ASSUME NEW i \in 1 .. n, NEW j \in 1 .. n,
                      NEW a \in 1 .. Len(seqs[i]), NEW b \in 1 .. Len(seqs[j]),
                      seqs[i][a] = seqs[j][b]
               PROVE  i = j /\ a = b
    BY DEF AllDiffer
  <2>1. /\ list[i] \in gone /\ list[j] \in gone
        /\ a \in 1 .. Len(list[i].paras) /\ b \in 1 .. Len(list[j].paras)
        /\ list[i].paras[a].id = list[j].paras[b].id
    BY <1>1, <1>2
  <2>a. \A x \in 1 .. Len(list[i].paras), y \in 1 .. Len(list[j].paras) :
          list[i].paras[x].id = list[j].paras[y].id => list[i] = list[j] /\ x = y
    <3>1. \A c, d \in gone : \A x \in 1 .. Len(c.paras), y \in 1 .. Len(d.paras) :
            c.paras[x].id = d.paras[y].id => c = d /\ x = y
      BY <1>11 DEF IdsDiffer
    <3>2. list[i] \in gone /\ list[j] \in gone
      BY <2>1
    <3> QED
      BY <3>1, <3>2
  <2>2. list[i] = list[j] /\ a = b
    BY <2>1, <2>a
  <2> QED
    BY <1>1, <2>2
<1>12. ASSUME IdsDiffer(gone), NEW x \in 1 .. Len(kept), NEW y \in 1 .. Len(kept),
              kept[x].id = kept[y].id
       PROVE  x = y
  <2>1. kept[x] \in ParasIn(gone) /\ kept[y] \in ParasIn(gone)
    BY <1>5, <1>9
  <2>a. PICK c \in gone : \E i \in 1 .. Len(c.paras) : kept[x] = c.paras[i]
    BY <2>1, InParas
  <2>2. PICK i \in 1 .. Len(c.paras) : kept[x] = c.paras[i]
    BY <2>a
  <2>b. PICK d \in gone : \E j \in 1 .. Len(d.paras) : kept[y] = d.paras[j]
    BY <2>1, InParas
  <2>3. PICK j \in 1 .. Len(d.paras) : kept[y] = d.paras[j]
    BY <2>b
  <2>4. c = d /\ i = j
    BY <1>12, <2>2, <2>3 DEF IdsDiffer
  <2>5. kept[x] = kept[y]
    BY <2>2, <2>3, <2>4
  <2> QED
    BY <1>3, <1>9, <1>11, <1>12, <2>5 DEF Distinct
<1>13. ToSet(kept) \subseteq ParasIn(gone)
  BY <1>5, <1>9, <1>10 DEF ToSet
<1>14. \A p \in ParasIn(gone) : HasText(p) => p \in ToSet(kept)
  BY <1>6, <1>9, <1>10 DEF ToSet
<1> QED
  BY <1>9, <1>12, <1>13, <1>14 DEF kept

-----------------------------------------------------------------------------
(* Tables in order.                                                        *)

\* A table in order: what every edit starts from.
Tidy(t) == IsTable(t) /\ Valid(t)

\* A table in order is a grid with finitely many cells.
LEMMA TidyGrid ==
  ASSUME NEW t, Tidy(t)
  PROVE  /\ Grid(t) /\ IsFiniteSet(t.cells)
         /\ t = [rows |-> t.rows, cols |-> t.cols, cells |-> t.cells, counts |-> t.counts]
         /\ t.rows \in 1 .. MaxDim /\ t.cols \in 1 .. MaxDim /\ t.cells \in SUBSET Cell
<1>1. /\ t.rows \in 1 .. MaxDim /\ t.cols \in 1 .. MaxDim /\ t.cells \in SUBSET Cell
      /\ t = [rows |-> t.rows, cols |-> t.cols, cells |-> t.cells, counts |-> t.counts]
  BY DEF Tidy, IsTable
<1>2. t.rows \in Nat /\ t.rows >= 1 /\ t.cols \in Nat /\ t.cols >= 1
  BY <1>1, NumbersAssumption
<1>3. Tiling(t.rows, t.cols, t.cells)
  BY <1>1, <1>2, TiledIff DEF Tidy, Valid
<1>4. IsFiniteSet(t.cells)
  BY <1>1, <1>2, <1>3, CellsFinite
<1> QED
  BY <1>1, <1>2, <1>3, <1>4 DEF Grid

\* The counts of a table of finitely many cells are numbers.
LEMMA RecountType ==
  ASSUME NEW t, IsFiniteSet(t.cells)
  PROVE  Recount(t) \in [Rows(t) -> Nat]
<1>1. ASSUME NEW r \in Rows(t) PROVE Cardinality({c \in t.cells : c.row = r}) \in Nat
  BY FS_Subset, FS_CardinalityType
<1> QED
  BY <1>1 DEF Recount

\* A table put together from finitely many cells and the counts of its rows.
Recounted(t, R, K, cells) ==
  /\ t = [rows |-> R, cols |-> K, cells |-> cells, counts |-> t.counts]
  /\ t.counts = Recount(t)

\* A tiling with its counts recounted is a table in order.
LEMMA RecountedTable ==
  ASSUME NEW t, NEW R \in 1 .. MaxDim, NEW K \in 1 .. MaxDim,
         NEW cells \in SUBSET Cell, IsFiniteSet(cells), Recounted(t, R, K, cells)
  PROVE  /\ IsTable(t)
         /\ Tiling(R, K, cells) => Tidy(t)
<1>1. t.rows = R /\ t.cols = K /\ t.cells = cells /\ t.counts = Recount(t)
  BY DEF Recounted
<1>2. t.counts \in [Rows(t) -> Nat]
  BY <1>1, RecountType
<1>3. IsTable(t)
  BY <1>1, <1>2 DEF IsTable, Recounted
<1>4. R \in Nat /\ K \in Nat
  BY NumbersAssumption
<1>5. Tiling(R, K, cells) => Tiled(t)
  BY <1>1, <1>4, TiledIff
<1> QED
  BY <1>1, <1>3, <1>5 DEF Tidy, Valid

\* The cells of a tiling begin inside it.
LEMMA Places ==
  ASSUME NEW t, Grid(t), NEW c \in t.cells
  PROVE  /\ c \in Cell /\ c.row \in 0 .. t.rows - 1 /\ c.col \in 0 .. t.cols - 1
         /\ c.row + c.rs <= t.rows /\ c.col + c.cs <= t.cols
         /\ In(c, c.row, c.col)
<1>1. c \in Cell /\ c.row + c.rs <= t.rows /\ c.col + c.cs <= t.cols /\ t.rows \in Nat /\ t.cols \in Nat
  BY DEF Grid, Tiling, Inside
<1>2. /\ c.row \in Nat /\ c.rs \in Nat /\ c.rs >= 1
      /\ c.col \in Nat /\ c.cs \in Nat /\ c.cs >= 1
  BY <1>1, CellTypes
<1>3. c.row \in 0 .. t.rows - 1 /\ c.col \in 0 .. t.cols - 1
  BY <1>1, <1>2
<1>4. In(c, c.row, c.col)
  BY <1>2 DEF In
<1> QED
  BY <1>1, <1>3, <1>4

\* Owner(t, r, k) is the cell of position (r, k).
LEMMA OwnerFacts ==
  ASSUME NEW t, Grid(t), NEW r \in 0 .. t.rows - 1, NEW k \in 0 .. t.cols - 1
  PROVE  /\ Owner(t, r, k) \in t.cells /\ In(Owner(t, r, k), r, k)
         /\ Owner(t, r, k).w \in Nat \ {0}
         /\ \A c \in t.cells : In(c, r, k) => c = Owner(t, r, k)
<1>1. r \in Nat /\ k \in Nat
  OBVIOUS
<1>2. \A c \in t.cells : c \in Cell /\ (Covers(c, r, k) <=> In(c, r, k))
  BY <1>1, CoversIn DEF Grid
<1>3. \E c \in t.cells : Covers(c, r, k)
  BY <1>2 DEF Grid, Tiling, Full
<1>4. Owner(t, r, k) \in t.cells /\ Covers(Owner(t, r, k), r, k)
  BY <1>3 DEF Owner
<1>5. Owner(t, r, k).w \in Nat \ {0}
  BY <1>2, <1>4, CellTypes
<1> QED
  BY <1>1, <1>2, <1>4, <1>5 DEF Grid, Tiling, Apart

-----------------------------------------------------------------------------
(* Ids.                                                                    *)

\* The ids of cells are those at some index of some cell.
LEMMA InIds ==
  ASSUME NEW cells \in SUBSET Cell
  PROVE  \A x : x \in IdsIn(cells) <=>
                  \E c \in cells : \E i \in 1 .. Len(c.paras) : x = c.paras[i].id
BY InParas DEF IdsIn

\* DistinctIds by indices.
LEMMA DistinctIff ==
  ASSUME NEW t, t.cells \in SUBSET Cell
  PROVE  DistinctIds(t) <=> IdsDiffer(t.cells)
<1>1. ASSUME NEW c \in t.cells PROVE DOMAIN c.paras = 1 .. Len(c.paras)
  <2>1. c \in Cell
    OBVIOUS
  <2>2. c.paras \in Seq(Para)
    BY <2>1, CellTypes
  <2> QED
    BY <2>2, LenProperties
<1>2. ASSUME DistinctIds(t), NEW c \in t.cells, NEW d \in t.cells,
             NEW i \in 1 .. Len(c.paras), NEW j \in 1 .. Len(d.paras),
             c.paras[i].id = d.paras[j].id
      PROVE  c = d /\ i = j
  <2>1. CASE c = d
    BY <1>1, <1>2, <2>1 DEF DistinctIds
  <2>2. CASE c # d
    <3>1. t.cells \ {c} \in SUBSET Cell /\ d \in t.cells \ {c}
      BY <2>2
    <3>2. c.paras[i].id \in IdsIn(t.cells \ {c})
      BY <1>2, <3>1, InIds
    <3> QED
      BY <1>1, <1>2, <3>2 DEF DistinctIds
  <2> QED
    BY <2>1, <2>2
<1>3. ASSUME IdsDiffer(t.cells), NEW c \in t.cells, NEW i \in 1 .. Len(c.paras)
      PROVE  /\ \A j \in 1 .. Len(c.paras) : c.paras[i].id = c.paras[j].id => i = j
             /\ c.paras[i].id \notin IdsIn(t.cells \ {c})
  <2>1. \A d \in t.cells : \A j \in 1 .. Len(d.paras) :
          c.paras[i].id = d.paras[j].id => c = d /\ i = j
    BY <1>3 DEF IdsDiffer
  <2>2. t.cells \ {c} \in SUBSET Cell
    OBVIOUS
  <2> QED
    BY <2>1, <2>2, InIds
<1> QED
  BY <1>1, <1>2, <1>3 DEF DistinctIds, IdsDiffer

\* img is what the cells of kept became, their paragraphs unchanged.
Moved(img, g, kept) ==
  /\ g \in [kept -> Cell]
  /\ \A c \in kept : g[c].paras = c.paras
  /\ img = {g[c] : c \in kept}

\* Cells that keep their paragraphs keep ids that differ.
LEMMA IdsMoved ==
  ASSUME NEW cells \in SUBSET Cell, IdsDiffer(cells), NEW kept \in SUBSET cells,
         NEW g, NEW img, Moved(img, g, kept)
  PROVE  /\ IdsDiffer(img)
         /\ IdsIn(img) \subseteq IdsIn(cells)
<1>1. img \in SUBSET Cell /\ \A x \in img : \E c \in kept : x = g[c] /\ x.paras = c.paras
  BY DEF Moved
<1>2. IdsIn(img) \subseteq IdsIn(cells)
  BY <1>1, InIds
<1>3. ASSUME NEW x \in img, NEW y \in img,
             NEW i \in 1 .. Len(x.paras), NEW j \in 1 .. Len(y.paras),
             x.paras[i].id = y.paras[j].id
      PROVE  x = y /\ i = j
  <2>1. PICK c \in kept : x = g[c] /\ x.paras = c.paras
    BY <1>1
  <2>2. PICK d \in kept : y = g[d] /\ y.paras = d.paras
    BY <1>1
  <2>3. \A a \in 1 .. Len(c.paras), b \in 1 .. Len(d.paras) :
          c.paras[a].id = d.paras[b].id => c = d /\ a = b
    BY DEF IdsDiffer
  <2> QED
    BY <1>3, <2>1, <2>2, <2>3
<1>4. IdsDiffer(img)
  BY <1>2, <1>3 DEF IdsDiffer
<1> QED
  BY <1>2, <1>4

\* Cells with ids of their own joined by cells with other ids.
LEMMA IdsJoined ==
  ASSUME NEW A \in SUBSET Cell, NEW B \in SUBSET Cell, IdsDiffer(A), IdsDiffer(B),
         \A x \in IdsIn(A) : x \notin IdsIn(B)
  PROVE  IdsDiffer(A \cup B)
<1>1. ASSUME NEW c \in A \cup B, NEW d \in A \cup B,
             NEW i \in 1 .. Len(c.paras), NEW j \in 1 .. Len(d.paras),
             c.paras[i].id = d.paras[j].id
      PROVE  c = d /\ i = j
  <2>1. c \in A => c.paras[i].id \in IdsIn(A)
    BY InIds
  <2>2. c \in B => c.paras[i].id \in IdsIn(B)
    BY InIds
  <2>3. d \in A => d.paras[j].id \in IdsIn(A)
    BY InIds
  <2>4. d \in B => d.paras[j].id \in IdsIn(B)
    BY InIds
  <2>5. CASE c \in A /\ d \in A
    BY <1>1, <2>5 DEF IdsDiffer
  <2>6. CASE c \in B /\ d \in B
    BY <1>1, <2>6 DEF IdsDiffer
  <2> QED
    BY <1>1, <2>1, <2>2, <2>3, <2>4, <2>5, <2>6
<1>2. A \cup B \in SUBSET Cell
  OBVIOUS
<1>3. 0 \notin IdsIn(A \cup B)
  <2> SUFFICES ASSUME 0 \in IdsIn(A \cup B) PROVE FALSE
    OBVIOUS
  <2>1. PICK c \in A \cup B : \E i \in 1 .. Len(c.paras) : 0 = c.paras[i].id
    BY <1>2, InIds
  <2>2. 0 \in IdsIn(A) \/ 0 \in IdsIn(B)
    BY <2>1, InIds
  <2> QED
    BY <2>2 DEF IdsDiffer
<1> QED
  BY <1>1, <1>3 DEF IdsDiffer

\* Some of the cells: their ids differ, and are none of the others'.
LEMMA IdsApart ==
  ASSUME NEW cells \in SUBSET Cell, IdsDiffer(cells), NEW gone \in SUBSET cells
  PROVE  /\ IdsDiffer(gone) /\ IdsDiffer(cells \ gone)
         /\ \A x \in IdsIn(cells \ gone) : x \notin IdsIn(gone)
         /\ IdsIn(gone) \subseteq IdsIn(cells) /\ IdsIn(cells \ gone) \subseteq IdsIn(cells)
<1>1. gone \in SUBSET Cell /\ cells \ gone \in SUBSET Cell
  OBVIOUS
<1>2. IdsIn(gone) \subseteq IdsIn(cells) /\ IdsIn(cells \ gone) \subseteq IdsIn(cells)
  BY <1>1, InIds
<1>3. IdsDiffer(gone) /\ IdsDiffer(cells \ gone)
  BY <1>2 DEF IdsDiffer
<1>4. ASSUME NEW x, x \in IdsIn(cells \ gone), x \in IdsIn(gone) PROVE FALSE
  <2>1. PICK c \in cells \ gone : \E i \in 1 .. Len(c.paras) : x = c.paras[i].id
    BY <1>1, <1>4, InIds
  <2>2. PICK d \in gone : \E j \in 1 .. Len(d.paras) : x = d.paras[j].id
    BY <1>1, <1>4, InIds
  <2>3. \A a \in 1 .. Len(c.paras), b \in 1 .. Len(d.paras) :
          c.paras[a].id = d.paras[b].id => c = d /\ a = b
    BY DEF IdsDiffer
  <2> QED
    BY <2>1, <2>2, <2>3
<1> QED
  BY <1>2, <1>3, <1>4

\* New cells have ids above every id of the table, unless ids wrap.
LEMMA NewCellsIds ==
  ASSUME NEW t, Grid(t), NEW S \in SUBSET (Nat \X Nat), IsFiniteSet(S), NEW w \in [S -> Nat \ {0}],
         MaxId(t) + Cardinality(S) < IdSpace
  PROVE  /\ IdsDiffer(NewCells(t, w))
         /\ \A x \in IdsIn(t.cells) : x \notin IdsIn(NewCells(t, w))
<1> DEFINE new == NewCells(t, w)
<1>1. new \in SUBSET Cell
  BY NewCellsShape
<1>2. ASSUME NEW c \in new
      PROVE  /\ Len(c.paras) = 1
             /\ \E x \in S : c = BlankCell(x[1], x[2], w[x], FreshId(t, S, x))
                             /\ c.paras[1].id = MaxId(t) + Turn(S, x)
  <2>1. PICK x \in S : c = BlankCell(x[1], x[2], w[x], FreshId(t, S, x))
    BY DEF NewCells
  <2>2. FreshId(t, S, x) = MaxId(t) + Turn(S, x)
    BY FreshIds
  <2>3. c.paras = <<[kind |-> "blank", id |-> FreshId(t, S, x)]>>
    BY <2>1 DEF BlankCell
  <2>4. Len(c.paras) = 1 /\ c.paras[1].id = FreshId(t, S, x)
    BY <2>3
  <2> QED
    BY <2>1, <2>2, <2>4
<1> HIDE DEF new
<1>3. /\ MaxId(t) \in Nat /\ \A x \in IdsIn(t.cells) : x \in Nat /\ x <= MaxId(t)
      /\ \A x \in S : Turn(S, x) \in Nat /\ Turn(S, x) >= 1
      /\ \A x, y \in S : Turn(S, x) = Turn(S, y) => x = y
  <2>1. \A x \in S : Turn(S, x) \in 1 .. Cardinality(S) /\ Turn(S, x) \in Nat
    BY TurnFacts
  <2> QED
    BY <2>1, MaxIdFacts, TurnFacts
<1>4. ASSUME NEW x \in IdsIn(new) PROVE x \in Nat /\ x > MaxId(t)
  <2>1. PICK c \in new : \E i \in 1 .. Len(c.paras) : x = c.paras[i].id
    BY <1>1, InIds
  <2>2. x = c.paras[1].id
    BY <1>2, <2>1
  <2>3. PICK y \in S : x = MaxId(t) + Turn(S, y)
    BY <1>2, <2>2
  <2> QED
    BY <1>3, <2>3
<1>5. ASSUME NEW c \in new, NEW d \in new,
             NEW i \in 1 .. Len(c.paras), NEW j \in 1 .. Len(d.paras),
             c.paras[i].id = d.paras[j].id
      PROVE  c = d /\ i = j
  <2>a. Len(c.paras) = 1 /\ Len(d.paras) = 1
    BY <1>2
  <2>1. i = 1 /\ j = 1
    BY <2>a
  <2>2. PICK x \in S : c = BlankCell(x[1], x[2], w[x], FreshId(t, S, x))
                       /\ c.paras[1].id = MaxId(t) + Turn(S, x)
    BY <1>2
  <2>3. PICK y \in S : d = BlankCell(y[1], y[2], w[y], FreshId(t, S, y))
                       /\ d.paras[1].id = MaxId(t) + Turn(S, y)
    BY <1>2
  <2>4. MaxId(t) + Turn(S, x) = MaxId(t) + Turn(S, y)
    BY <1>5, <2>1, <2>2, <2>3
  <2>5. Turn(S, x) = Turn(S, y)
    BY <1>3, <2>4
  <2>6. x = y
    BY <1>3, <2>5
  <2> QED
    BY <2>1, <2>2, <2>3, <2>6
<1>6. IdsDiffer(new)
  <2>1. 0 \notin IdsIn(new)
    BY <1>3, <1>4
  <2> QED
    BY <1>5, <2>1 DEF IdsDiffer
<1>7. \A x \in IdsIn(t.cells) : x \notin IdsIn(new)
  BY <1>3, <1>4
<1> QED
  BY <1>6, <1>7 DEF new

\* Recount counts the columns in which cells begin.
LEMMA RecountByColumn ==
  ASSUME NEW t, Grid(t), NEW r \in Rows(t)
  PROVE  /\ Recount(t)[r] = Cardinality(Anchors(t.cells, r))
         /\ Anchors(t.cells, r) \subseteq 0 .. t.cols - 1
<1>1. r \in Nat
  BY DEF Rows
<1>2. Recount(t)[r] = Cardinality(RowCells(t.cells, r))
  BY DEF Recount, RowCells
<1> QED
  BY <1>1, <1>2, RowCount DEF Grid

\* Tables whose cells begin in the same places have the same counts.
LEMMA SameCounts ==
  ASSUME NEW t, NEW u, Grid(t), Grid(u), Rows(t) = Rows(u),
         \A r \in Rows(t) : Anchors(t.cells, r) = Anchors(u.cells, r)
  PROVE  Recount(t) = Recount(u)
<1>1. \A r \in Rows(t) : Recount(t)[r] = Recount(u)[r]
  BY RecountByColumn
<1> QED
  BY <1>1 DEF Recount

-----------------------------------------------------------------------------
(* set_cell.                                                               *)

\* The largest id of the document is at least that of the table.
LEMMA DocMaxFacts ==
  ASSUME NEW t, Grid(t)
  PROVE  DocMaxId(t) \in Nat /\ MaxId(t) <= DocMaxId(t)
<1>1. MaxId(t) \in Nat
  BY MaxIdFacts
<1>2. IsFiniteSet(Outside) /\ Outside \subseteq Nat
  <2>1. IdSpace - 1 \in Int /\ 1 \in Int
    BY NumbersAssumption
  <2>2. IsFiniteSet(1 .. IdSpace - 1)
    BY <2>1, FS_Interval
  <2>3. 1 .. IdSpace - 1 \subseteq Nat
    BY <2>1
  <2> QED
    BY <2>2, <2>3, FS_Subset, OutsideAssumption
<1> DEFINE S == {MaxId(t)} \cup Outside
<1>3. IsFiniteSet(Outside \cup {MaxId(t)})
  BY <1>2, FS_AddElement
<1>a. S = Outside \cup {MaxId(t)} /\ S # {} /\ MaxId(t) \in S
  OBVIOUS
<1>b. S \subseteq Nat
  BY <1>1, <1>2
<1>4. S = Outside \cup {MaxId(t)} /\ S \subseteq Nat /\ S \subseteq Int /\ S # {} /\ MaxId(t) \in S
  <2> HIDE DEF S
  <2> QED
    BY <1>a, <1>b
<1>5. Max(S) \in S /\ \A x \in S : x <= Max(S)
  <2> HIDE DEF S
  <2> QED
    BY <1>3, <1>4, MaxExists
<1> QED
  BY <1>4, <1>5 DEF DocMaxId

\* The paragraphs of a new text: the first keeps its id, the others are new.
LEMMA NewTextFacts ==
  ASSUME NEW t, Grid(t), NEW c \in t.cells, NEW blocks \in Nat,
         ~(blocks > 1 /\ DocMaxId(t) + blocks - 1 >= IdSpace)
  PROVE  /\ NewText(t, c, blocks) \in Seq(Para) \ {<<>>}
         /\ \A i \in 1 .. Len(NewText(t, c, blocks)) :
              \/ i = 1 /\ NewText(t, c, blocks)[i].id = c.paras[1].id
              \/ i # 1 /\ NewText(t, c, blocks)[i].id = DocMaxId(t) + i - 1
<1> DEFINE n == Atleast(1, blocks)
           s == NewText(t, c, blocks)
           p(i) == [kind |-> IF blocks = 0 THEN "blank" ELSE "text",
                    id   |-> IF i = 1 THEN c.paras[1].id ELSE DocMaxId(t) + i - 1]
<1>1. n \in Nat /\ n >= 1 /\ (n = 1 \/ n = blocks)
  BY DEF Atleast
<1>2. s = [i \in 1 .. n |-> p(i)]
  BY DEF NewText
<1>3. c.paras[1].id \in 0 .. IdSpace - 1
  <2>1. c \in Cell
    BY DEF Grid
  <2>2. c.paras \in Seq(Para) /\ c.paras # <<>>
    BY <2>1, CellTypes
  <2>3. 1 \in 1 .. Len(c.paras)
    BY <2>2, EmptySeq, LenProperties
  <2>4. c.paras[1] \in Para
    BY <2>2, <2>3
  <2> QED
    BY <2>4 DEF Para
<1> HIDE DEF n
<1>4. ASSUME NEW i \in 1 .. n PROVE p(i) \in Para
  <2>1. i # 1 => DocMaxId(t) + i - 1 \in 0 .. IdSpace - 1
    <3> SUFFICES ASSUME i # 1 PROVE DocMaxId(t) + i - 1 \in 0 .. IdSpace - 1
      OBVIOUS
    <3>1. blocks > 1 /\ i <= blocks /\ i >= 1
      BY <1>1
    <3>2. DocMaxId(t) \in Nat /\ IdSpace \in Nat
      BY DocMaxFacts, NumbersAssumption
    <3> QED
      BY <3>1, <3>2
  <2>2. (IF blocks = 0 THEN "blank" ELSE "text") \in Kinds
    BY DEF Kinds
  <2> QED
    BY <1>3, <2>1, <2>2 DEF Para
<1>5. s \in [1 .. n -> Para]
  <2> HIDE DEF p, s
  <2> QED
    BY <1>2, <1>4
<1>6. s \in Seq(Para) /\ Len(s) = n
  <2> HIDE DEF p, s
  <2> QED
    BY <1>1, <1>5
<1>7. s # <<>>
  <2> HIDE DEF p, s
  <2> QED
    BY <1>1, <1>6
<1>8. \A i \in 1 .. n : s[i].id = IF i = 1 THEN c.paras[1].id ELSE DocMaxId(t) + i - 1
  BY <1>2
<1> HIDE DEF p, s
<1> QED
  BY <1>6, <1>7, <1>8 DEF s

\* The table u that set_cell leaves: c has the paragraphs of the new text.
TextSet(t, c, blocks, u) ==
  /\ c \in t.cells /\ blocks \in Nat
  /\ ~(blocks > 1 /\ DocMaxId(t) + blocks - 1 >= IdSpace)
  /\ u = [t EXCEPT !.cells = (@ \ {c}) \cup {[c EXCEPT !.paras = NewText(t, c, blocks)]}]

\* Text is kept where the paragraphs with text are.
LEMMA TextKept ==
  ASSUME NEW A, NEW B, \A p \in ParasIn(A) : HasText(p) => p \in ParasIn(B)
  PROVE  TextIds(A) \subseteq TextIds(B)
BY DEF TextIds

\* set_cell leaves a table in order, and ids that differ.
LEMMA SetCellKeeps ==
  ASSUME NEW t, Tidy(t), NEW c, NEW blocks, NEW u, TextSet(t, c, blocks, u)
  PROVE  /\ Tidy(u)
         /\ IdsDiffer(t.cells) => IdsDiffer(u.cells)
         /\ \A e \in t.cells : e # c => TextIds({e}) \subseteq TextIds(u.cells)
<1> DEFINE s == NewText(t, c, blocks)
           d == [c EXCEPT !.paras = s]
<1>0. /\ c \in t.cells /\ blocks \in Nat
      /\ ~(blocks > 1 /\ DocMaxId(t) + blocks - 1 >= IdSpace)
  BY DEF TextSet
<1>1. /\ Grid(t) /\ IsFiniteSet(t.cells)
      /\ t = [rows |-> t.rows, cols |-> t.cols, cells |-> t.cells, counts |-> t.counts]
      /\ t.rows \in 1 .. MaxDim /\ t.cols \in 1 .. MaxDim /\ t.cells \in SUBSET Cell
  BY TidyGrid
<1>2. s \in Seq(Para) \ {<<>>}
  BY <1>0, <1>1, NewTextFacts
<1>3. \A i \in 1 .. Len(s) : \/ i = 1 /\ s[i].id = c.paras[1].id
                             \/ i # 1 /\ s[i].id = DocMaxId(t) + i - 1
  BY <1>0, <1>1, NewTextFacts
<1> HIDE DEF s
<1>4. /\ c \in Cell /\ d \in Cell
      /\ d.row = c.row /\ d.col = c.col /\ d.rs = c.rs /\ d.cs = c.cs /\ d.paras = s
  <2>1. c \in Cell
    BY <1>0, <1>1
  <2> QED
    BY <1>2, <2>1 DEF Cell
<1>5. /\ u = [rows |-> t.rows, cols |-> t.cols, cells |-> (t.cells \ {c}) \cup {d},
              counts |-> t.counts]
      /\ u.rows = t.rows /\ u.cols = t.cols /\ u.counts = t.counts
      /\ u.cells = (t.cells \ {c}) \cup {d}
  BY <1>1 DEF s, TextSet
<1> HIDE DEF d
<1> DEFINE A == {c}
           B == {d}
<1>0a. /\ A \in SUBSET t.cells /\ A \in SUBSET Cell /\ B \in SUBSET Cell
      /\ t.cells \ A \in SUBSET Cell
      /\ u.cells = (t.cells \ A) \cup B
      /\ t.rows \in Nat /\ t.cols \in Nat /\ Tiling(t.rows, t.cols, t.cells)
  BY <1>0, <1>1, <1>4, <1>5 DEF Grid
<1>6. Tiling(t.rows, t.cols, u.cells)
  <2>1. \A r, k \in Nat : In(d, r, k) <=> In(c, r, k)
    BY <1>4 DEF In
  <2>2. Inside(t.rows, t.cols, B)
    BY <1>0, <1>1, <1>4, Places DEF Inside
  <2>3. Apart(B)
    BY DEF Apart
  <2>5. \A r, k \in Nat : (\E x \in A : In(x, r, k)) <=> (\E x \in B : In(x, r, k))
    BY <2>1
  <2> HIDE DEF A, B
  <2>6. Tiling(t.rows, t.cols, (t.cells \ A) \cup B)
    BY <1>0a, <2>2, <2>3, <2>5, Replace
  <2> QED
    BY <1>0a, <2>6
<1>7. Grid(u)
  BY <1>1, <1>4, <1>5, <1>6 DEF Grid
<1>8. Rows(u) = Rows(t)
  BY <1>5 DEF Rows
<1>9. Recount(t) = Recount(u)
  <2>1. ASSUME NEW r \in Rows(t) PROVE Anchors(t.cells, r) = Anchors(u.cells, r)
    BY <1>0, <1>4, <1>5 DEF Anchors, RowCells
  <2> QED
    BY <1>1, <1>7, <1>8, <2>1, SameCounts
<1>10. u.counts = Recount(u)
  BY <1>5, <1>9 DEF Tidy, Valid
<1>11. Tidy(u)
  <2>1. u.cells \in SUBSET Cell
    BY <1>7 DEF Grid
  <2>2. IsFiniteSet(u.cells)
    BY <1>7, CellsFinite DEF Grid
  <2>3. Recounted(u, t.rows, t.cols, u.cells)
    BY <1>5, <1>10 DEF Recounted
  <2> QED
    BY <1>1, <1>6, <2>1, <2>2, <2>3, RecountedTable
<1>12. ASSUME IdsDiffer(t.cells) PROVE IdsDiffer(u.cells)
  <2>1. /\ IdsDiffer(A) /\ IdsDiffer(t.cells \ A)
        /\ \A x \in IdsIn(t.cells \ A) : x \notin IdsIn(A)
        /\ IdsIn(A) \subseteq IdsIn(t.cells) /\ IdsIn(t.cells \ A) \subseteq IdsIn(t.cells)
    <3> HIDE DEF A
    <3> QED
      BY <1>1, <1>0a, <1>12, IdsApart
  <2>2. MaxId(t) \in Nat /\ DocMaxId(t) \in Nat /\ MaxId(t) <= DocMaxId(t)
        /\ \A x \in IdsIn(t.cells) : x \in Nat /\ x <= MaxId(t)
    BY <1>1, MaxIdFacts, DocMaxFacts
  <2>3. c.paras[1].id \in IdsIn(A)
    <3>1. c.paras \in Seq(Para) /\ c.paras # <<>>
      BY <1>4, CellTypes
    <3>2. 1 \in 1 .. Len(c.paras)
      BY <3>1, EmptySeq, LenProperties
    <3> QED
      BY <1>0a, <3>2, InIds
  <2>4. ASSUME NEW i \in 1 .. Len(s)
        PROVE  \/ i = 1 /\ s[i].id \in IdsIn(A)
               \/ i # 1 /\ s[i].id = DocMaxId(t) + i - 1 /\ s[i].id \in Nat /\ s[i].id > DocMaxId(t)
    <3>1. CASE i = 1
      BY <1>3, <2>3, <3>1
    <3>2. CASE i # 1
      <4>1. s[i].id = DocMaxId(t) + i - 1 /\ i \in Nat /\ i > 1
        BY <1>3, <3>2
      <4> QED
        BY <2>2, <3>2, <4>1
    <3> QED
      BY <3>1, <3>2
  <2>5. ASSUME NEW x \in IdsIn(B)
        PROVE  x # 0 /\ x \notin IdsIn(t.cells \ A)
    <3>1. PICK i \in 1 .. Len(s) : x = s[i].id
      BY <1>0a, <1>4, InIds
    <3>2. CASE x \in IdsIn(A)
      BY <1>12, <2>1, <3>2 DEF IdsDiffer
    <3>3. CASE x \in Nat /\ x > DocMaxId(t)
      <4>1. \A y \in IdsIn(t.cells) : y \in Nat /\ y <= DocMaxId(t)
        BY <2>2
      <4>2. x \notin IdsIn(t.cells) /\ x # 0
        BY <2>2, <3>3, <4>1
      <4> QED
        BY <2>1, <4>2
    <3> QED
      BY <2>4, <3>1, <3>2, <3>3
  <2>6. ASSUME NEW i \in 1 .. Len(s), NEW j \in 1 .. Len(s), s[i].id = s[j].id PROVE i = j
    <3>1. \A x \in IdsIn(A) : x \in Nat /\ x <= DocMaxId(t)
      <4>1. \A x \in IdsIn(t.cells) : x \in Nat /\ x <= DocMaxId(t)
        BY <2>2
      <4> QED
        BY <2>1, <4>1
    <3>2. CASE i = 1 \/ j = 1
      <4>1. (i = 1 => s[i].id \in IdsIn(A)) /\ (j = 1 => s[j].id \in IdsIn(A))
        BY <2>4
      <4>2. /\ i # 1 => s[i].id \in Nat /\ s[i].id > DocMaxId(t)
            /\ j # 1 => s[j].id \in Nat /\ s[j].id > DocMaxId(t)
        BY <2>4
      <4>3. ~(s[i].id <= DocMaxId(t) /\ s[j].id > DocMaxId(t))
            /\ ~(s[j].id <= DocMaxId(t) /\ s[i].id > DocMaxId(t))
        BY <2>2, <2>6, <3>1, <4>1, <4>2
      <4> QED
        BY <3>1, <3>2, <4>1, <4>2, <4>3
    <3>3. CASE i # 1 /\ j # 1
      <4>1. DocMaxId(t) + i - 1 = DocMaxId(t) + j - 1 /\ i \in Nat /\ j \in Nat
        BY <2>4, <2>6, <3>3
      <4> QED
        BY <2>2, <4>1
    <3> QED
      BY <3>2, <3>3
  <2>7. IdsDiffer(B)
    BY <1>4, <2>5, <2>6 DEF IdsDiffer
  <2>9. \A x \in IdsIn(t.cells \ A) : x \notin IdsIn(B)
    BY <2>5
  <2> HIDE DEF A, B
  <2> QED
    BY <1>0a, <2>1, <2>7, <2>9, IdsJoined
<1>13. ASSUME NEW e \in t.cells, e # c PROVE TextIds({e}) \subseteq TextIds(u.cells)
  <2>1. e \in u.cells
    BY <1>5, <1>13
  <2>2. \A p \in ParasIn({e}) : p \in ParasIn(u.cells)
    BY <2>1 DEF ParasIn
  <2> QED
    BY <2>2, TextKept
<1> QED
  BY <1>11, <1>12, <1>13

\* The table with recounted counts, field by field.
LEMMA RecountIs ==
  ASSUME NEW v, v = [rows |-> v.rows, cols |-> v.cols, cells |-> v.cells, counts |-> v.counts],
         NEW u, u = [v EXCEPT !.counts = Recount(v)]
  PROVE  /\ Recounted(u, v.rows, v.cols, v.cells)
         /\ u.rows = v.rows /\ u.cols = v.cols /\ u.cells = v.cells
<1>1. u.rows = v.rows /\ u.cols = v.cols /\ u.cells = v.cells /\ u.counts = Recount(v)
  OBVIOUS
<1>2. u = [rows |-> v.rows, cols |-> v.cols, cells |-> v.cells, counts |-> u.counts]
  OBVIOUS
<1>3. Recount(u) = Recount(v)
  BY <1>1 DEF Recount, Rows
<1> QED
  BY <1>1, <1>2, <1>3 DEF Recounted

-----------------------------------------------------------------------------
(* merge_cells.                                                            *)

\* Touched cells are those that cover a position of the region.
LEMMA TouchedIff ==
  ASSUME NEW t, Grid(t), NEW r1 \in Nat, NEW r2 \in Nat, NEW k1 \in Nat, NEW k2 \in Nat,
         NEW c \in t.cells
  PROVE  c \in Touched(t, r1, k1, r2, k2)
           <=> \E r \in r1 .. r2, k \in k1 .. k2 : In(c, r, k)
<1>1. c.row \in Nat /\ c.rs \in Nat /\ c.col \in Nat /\ c.cs \in Nat
  BY CellTypes DEF Grid
<1> QED
  BY <1>1 DEF Touched, RowsOf, ColsOf, In

\* merge_cells leaves a table in order, ids that differ, and all text.
LEMMA MergeKeeps ==
  ASSUME NEW t, Tidy(t), BodyWidth \in Nat,
         NEW r1 \in Nat, NEW r2 \in Nat, NEW k1 \in Nat, NEW k2 \in Nat,
         r1 <= r2, k1 <= k2, ~MergeRefused(t, r1, k1, r2, k2),
         NEW u, u = Merged(t, r1, k1, r2, k2)
  PROVE  /\ Tidy(u)
         /\ IdsDiffer(t.cells) => IdsDiffer(u.cells)
         /\ \A c \in t.cells : TextIds({c}) \subseteq TextIds(u.cells)
<1> DEFINE gone  == Touched(t, r1, k1, r2, k2)
           whole == [row |-> r1, col |-> k1, rs |-> r2 - r1 + 1, cs |-> k2 - k1 + 1,
                     w |-> Total(ColumnWidths(t), k1 .. k2), paras |-> Kept(gone)]
           new   == {whole}
           cells == (t.cells \ gone) \cup new
           v     == [t EXCEPT !.cells = cells]
<1>1. /\ Grid(t) /\ IsFiniteSet(t.cells)
      /\ t = [rows |-> t.rows, cols |-> t.cols, cells |-> t.cells, counts |-> t.counts]
      /\ t.rows \in 1 .. MaxDim /\ t.cols \in 1 .. MaxDim /\ t.cells \in SUBSET Cell
  BY TidyGrid
<1>2. t.rows \in Nat /\ t.cols \in Nat /\ Tiling(t.rows, t.cols, t.cells)
  BY <1>1 DEF Grid
<1>3. r2 < t.rows /\ k2 < t.cols
  BY <1>2 DEF MergeRefused
<1>4. gone \in SUBSET t.cells /\ gone \in SUBSET Cell /\ IsFiniteSet(gone) /\ Placed(gone)
  <2>1. gone \in SUBSET t.cells
    BY DEF Touched
  <2> HIDE DEF gone
  <2> QED
    BY <1>1, <1>2, <2>1, TilingPlaces
<1>5. ASSUME NEW r \in Nat, NEW k \in Nat
      PROVE  (\E c \in gone : In(c, r, k)) <=> r \in r1 .. r2 /\ k \in k1 .. k2
  <2>1. ASSUME NEW c \in gone, In(c, r, k) PROVE r \in r1 .. r2 /\ k \in k1 .. k2
    <3>1. RowsOf(c) \subseteq r1 .. r2 /\ ColsOf(c) \subseteq k1 .. k2 /\ c \in Cell
      BY <1>4 DEF MergeRefused
    <3>2. r \in RowsOf(c) /\ k \in ColsOf(c)
      BY <2>1, <3>1, CoversIn DEF Covers
    <3> QED
      BY <3>1, <3>2
  <2>2. ASSUME r \in r1 .. r2, k \in k1 .. k2 PROVE \E c \in gone : In(c, r, k)
    <3>1. r \in 0 .. t.rows - 1 /\ k \in 0 .. t.cols - 1
      BY <1>2, <1>3, <2>2
    <3>2. PICK c \in t.cells : In(c, r, k)
      BY <1>2, <3>1 DEF Tiling, Full
    <3> QED
      BY <1>1, <2>2, <3>2, TouchedIff
  <2> QED
    BY <2>1, <2>2
<1>6. gone # {}
  <2>1. r1 \in r1 .. r2 /\ k1 \in k1 .. k2
    OBVIOUS
  <2> QED
    BY <1>5, <2>1
<1> HIDE DEF gone
<1>7. /\ Kept(gone) \in Seq(Para) \ {<<>>}
      /\ ToSet(Kept(gone)) \subseteq ParasIn(gone)
      /\ \A p \in ParasIn(gone) : HasText(p) => p \in ToSet(Kept(gone))
      /\ IdsDiffer(gone) =>
           \A i, j \in 1 .. Len(Kept(gone)) : Kept(gone)[i].id = Kept(gone)[j].id => i = j
  BY <1>4, <1>6, KeptFacts
<1>8. Total(ColumnWidths(t), k1 .. k2) \in Nat \ {0}
  <2> DEFINE w == ColumnWidths(t)
             S == k1 .. k2
  <2>1. w \in [0 .. t.cols - 1 -> Nat \ {0}]
    BY <1>1, ColumnWidthsType
  <2>2. \A k \in S : k \in 0 .. t.cols - 1
    BY <1>2, <1>3
  <2>3. IsFiniteSet(S) /\ k1 \in S
    BY FS_Interval
  <2>4. \A k \in S : w[k] \in Nat /\ w[k] >= 1
    <3> HIDE DEF S, w
    <3> QED
      BY <2>1, <2>2
  <2> HIDE DEF S, w
  <2>5. Total(w, S) \in Nat /\ w[k1] <= Total(w, S)
    BY <2>3, <2>4, TotalNat
  <2>6. Total(w, S) \in Nat \ {0}
    BY <2>3, <2>4, <2>5
  <2> QED
    BY <2>6 DEF S, w
<1>9. /\ whole \in Cell
      /\ whole.row = r1 /\ whole.col = k1 /\ whole.rs = r2 - r1 + 1 /\ whole.cs = k2 - k1 + 1
      /\ whole.paras = Kept(gone)
  <2>1. r2 - r1 + 1 \in Nat \ {0} /\ k2 - k1 + 1 \in Nat \ {0}
    OBVIOUS
  <2> QED
    BY <1>7, <1>8, <2>1 DEF Cell
<1> HIDE DEF whole
<1>10. ASSUME NEW r \in Nat, NEW k \in Nat
       PROVE  In(whole, r, k) <=> r \in r1 .. r2 /\ k \in k1 .. k2
  <2>1. r1 + (r2 - r1 + 1) = r2 + 1 /\ k1 + (k2 - k1 + 1) = k2 + 1
    OBVIOUS
  <2> QED
    BY <1>9, <2>1 DEF In
<1>11. new \in SUBSET Cell /\ whole \in new /\ \A c \in new : c = whole
  BY <1>9
<1> HIDE DEF new
<1>12. Tiling(t.rows, t.cols, cells)
  <2>1. Inside(t.rows, t.cols, new)
    <3>1. r1 + (r2 - r1 + 1) <= t.rows /\ k1 + (k2 - k1 + 1) <= t.cols
      BY <1>2, <1>3
    <3> QED
      BY <1>9, <1>11, <3>1 DEF Inside
  <2>2. Apart(new)
    BY <1>11 DEF Apart
  <2>3. ASSUME NEW r \in Nat, NEW k \in Nat
        PROVE  (\E c \in gone : In(c, r, k)) <=> (\E c \in new : In(c, r, k))
    BY <1>5, <1>10, <1>11
  <2> QED
    BY <1>1, <1>2, <1>4, <1>11, <2>1, <2>2, <2>3, Replace
<1>13. cells \in SUBSET Cell /\ IsFiniteSet(cells)
  <2>1. cells \in SUBSET Cell
    BY <1>1, <1>11
  <2> QED
    BY <1>2, <1>12, <2>1, CellsFinite
<1>14. /\ v = [rows |-> v.rows, cols |-> v.cols, cells |-> v.cells, counts |-> v.counts]
       /\ v.rows = t.rows /\ v.cols = t.cols /\ v.cells = cells
  BY <1>1
<1>15. u = [v EXCEPT !.counts = Recount(v)]
  BY DEF Merged, gone, whole, new
<1> HIDE DEF v, cells
<1>16. Recounted(u, t.rows, t.cols, cells) /\ u.cells = cells
  BY <1>14, <1>15, RecountIs
<1>17. Tidy(u)
  BY <1>1, <1>12, <1>13, <1>16, RecountedTable
<1>18. DOMAIN whole.paras = 1 .. Len(whole.paras)
  BY <1>7, <1>9, LenProperties
<1>19. ASSUME IdsDiffer(t.cells) PROVE IdsDiffer(u.cells)
  <2>1. /\ IdsDiffer(gone) /\ IdsDiffer(t.cells \ gone)
        /\ \A x \in IdsIn(t.cells \ gone) : x \notin IdsIn(gone)
    BY <1>1, <1>4, <1>19, IdsApart
  <2>2. \A x \in IdsIn(new) : x \in IdsIn(gone)
    <3> SUFFICES ASSUME NEW x \in IdsIn(new) PROVE x \in IdsIn(gone)
      OBVIOUS
    <3>1. PICK i \in 1 .. Len(whole.paras) : x = whole.paras[i].id
      BY <1>11, InIds
    <3>2. whole.paras[i] \in ParasIn(gone)
      BY <1>7, <1>9, <1>18 DEF ToSet
    <3> QED
      BY <3>1, <3>2 DEF IdsIn
  <2>3. IdsDiffer(new)
    <3>1. 0 \notin IdsIn(new)
      BY <2>1, <2>2 DEF IdsDiffer
    <3> QED
      BY <1>7, <1>9, <1>11, <2>1, <3>1 DEF IdsDiffer
  <2>4. t.cells \ gone \in SUBSET Cell /\ \A x \in IdsIn(t.cells \ gone) : x \notin IdsIn(new)
    BY <1>1, <2>1, <2>2
  <2>5. IdsDiffer((t.cells \ gone) \cup new)
    BY <1>11, <2>1, <2>3, <2>4, IdsJoined
  <2> QED
    BY <1>16, <2>5 DEF cells
<1>20. ASSUME NEW c \in t.cells PROVE TextIds({c}) \subseteq TextIds(u.cells)
  <2>1. ASSUME NEW p \in ParasIn({c}), HasText(p) PROVE p \in ParasIn(u.cells)
    <3>1. p \in ToSet(c.paras)
      BY DEF ParasIn
    <3>2. CASE c \notin gone
      BY <1>16, <3>1, <3>2 DEF ParasIn, cells
    <3>3. CASE c \in gone
      <4>1. p \in ParasIn(gone)
        BY <3>1, <3>3 DEF ParasIn
      <4>2. p \in ToSet(whole.paras)
        BY <1>7, <1>9, <2>1, <4>1
      <4> QED
        BY <1>11, <1>16, <4>2 DEF ParasIn, cells
    <3> QED
      BY <3>2, <3>3
  <2> QED
    BY <2>1, TextKept
<1> QED
  BY <1>17, <1>19, <1>20

\* There is an id for every position of the largest grid the next call can make.
Room(t) == MaxId(t) + (t.rows + MaxCount) * (t.cols + MaxCount) < IdSpace
RoomForIds == Room(table)

\* The positions of that grid.
Reach(t) == (0 .. (t.rows + MaxCount) - 1) \X (0 .. (t.cols + MaxCount) - 1)

\* Cells created within that grid take ids below the end.
LEMMA Fits ==
  ASSUME NEW t, Grid(t), NEW S \in SUBSET Reach(t)
  PROVE  /\ S \in SUBSET (Nat \X Nat) /\ IsFiniteSet(S)
         /\ Room(t) => MaxId(t) + Cardinality(S) < IdSpace
<1> DEFINE R == t.rows + MaxCount
           K == t.cols + MaxCount
           A == 0 .. R - 1
           B == 0 .. K - 1
<1>1. R \in Nat /\ K \in Nat /\ MaxId(t) \in Nat /\ IdSpace \in Nat
  BY NumbersAssumption, MaxIdFacts DEF Grid
<1>2. /\ IsFiniteSet(A) /\ Cardinality(A) = R
      /\ IsFiniteSet(B) /\ Cardinality(B) = K
  <2> HIDE DEF R, K
  <2> QED
    BY <1>1, Interval
<1>3. A \subseteq Nat /\ B \subseteq Nat
  OBVIOUS
<1> HIDE DEF A, B
<1>4. IsFiniteSet(A \X B) /\ Cardinality(A \X B) = (t.rows + MaxCount) * (t.cols + MaxCount)
  BY <1>2, FS_Product
<1>5. S \in SUBSET (A \X B)
  <2>1. Reach(t) = A \X B
    BY DEF Reach, A, B
  <2> QED
    BY <2>1
<1>6. IsFiniteSet(S) /\ Cardinality(S) <= Cardinality(A \X B)
  BY <1>4, <1>5, FS_Subset
<1>7. Cardinality(S) \in Nat
  BY <1>6, FS_CardinalityType
<1>8. Room(t) => MaxId(t) + Cardinality(S) < IdSpace
  <2> DEFINE m == (t.rows + MaxCount) * (t.cols + MaxCount)
  <2>1. m \in Nat /\ Cardinality(S) <= m
    BY <1>1, <1>4, <1>6
  <2>2. Room(t) <=> MaxId(t) + m < IdSpace
    BY DEF Room
  <2> HIDE DEF m
  <2> QED
    BY <1>1, <1>7, <2>1, <2>2
<1> QED
  BY <1>3, <1>5, <1>6, <1>8

\* Cells that keep their paragraphs, and new cells beside them.
LEMMA MovedAndNew ==
  ASSUME NEW t, Grid(t), NEW kept \in SUBSET t.cells, NEW g, NEW img, Moved(img, g, kept),
         NEW S \in SUBSET Reach(t), NEW w \in [S -> Nat \ {0}],
         NEW cells, cells = img \cup NewCells(t, w)
  PROVE  /\ cells \in SUBSET Cell /\ IsFiniteSet(cells)
         /\ IdsDiffer(t.cells) /\ Room(t) => IdsDiffer(cells)
         /\ \A c \in kept : TextIds({c}) \subseteq TextIds(cells)
<1> DEFINE new == NewCells(t, w)
<1>1. t.cells \in SUBSET Cell /\ IsFiniteSet(t.cells)
  BY CellsFinite DEF Grid
<1>2. S \in SUBSET (Nat \X Nat) /\ IsFiniteSet(S)
  BY Fits
<1>3. new \in SUBSET Cell /\ IsFiniteSet(new)
  <2>1. new \in SUBSET Cell
    BY <1>2, NewCellsShape
  <2> DEFINE f == [x \in S |-> BlankCell(x[1], x[2], w[x], FreshId(t, S, x))]
  <2>2. new = {f[x] : x \in S}
    BY DEF NewCells
  <2>3. IsFiniteSet({f[x] : x \in S})
    <3> HIDE DEF f
    <3> QED
      BY <1>2, ImageFinite
  <2> QED
    BY <2>1, <2>2, <2>3
<1>4. img \in SUBSET Cell /\ IsFiniteSet(img)
  <2>1. IsFiniteSet(kept)
    BY <1>1, FS_Subset
  <2>2. img = {g[c] : c \in kept} /\ img \in SUBSET Cell
    BY DEF Moved
  <2> QED
    BY <2>1, <2>2, ImageFinite
<1>5. ASSUME IdsDiffer(t.cells), Room(t) PROVE IdsDiffer(cells)
  <2>1. IdsDiffer(img) /\ IdsIn(img) \subseteq IdsIn(t.cells)
    BY <1>1, <1>5, IdsMoved
  <2>2. IdsDiffer(new) /\ \A x \in IdsIn(t.cells) : x \notin IdsIn(new)
    BY <1>2, <1>5, Fits, NewCellsIds
  <2>3. \A x \in IdsIn(img) : x \notin IdsIn(new)
    BY <2>1, <2>2
  <2> HIDE DEF new
  <2>4. IdsDiffer(img \cup new)
    BY <1>3, <1>4, <2>1, <2>2, <2>3, IdsJoined
  <2> QED
    BY <2>4 DEF new
<1>6. ASSUME NEW c \in kept PROVE TextIds({c}) \subseteq TextIds(cells)
  <2>1. ASSUME NEW p \in ParasIn({c}), HasText(p) PROVE p \in ParasIn(cells)
    <3>1. p \in ToSet(c.paras) /\ g[c] \in cells /\ g[c].paras = c.paras
      BY DEF ParasIn, Moved
    <3> QED
      BY <3>1 DEF ParasIn
  <2> QED
    BY <2>1, TextKept
<1>7. cells = img \cup new
  OBVIOUS
<1>8. cells \in SUBSET Cell /\ IsFiniteSet(cells)
  <2> HIDE DEF new
  <2>1. IsFiniteSet(img \cup new) /\ img \cup new \in SUBSET Cell
    BY <1>3, <1>4, FS_Union
  <2> QED
    BY <1>7, <2>1
<1> QED
  BY <1>5, <1>6, <1>8

-----------------------------------------------------------------------------
(* split_cell.                                                             *)

\* The widths a split shares out.
ShareOut(a, k) ==
  IF k = a.col + a.cs - 1 THEN Atleast(1, a.w - Atleast(1, a.w \div a.cs) * (a.cs - 1))
  ELSE Atleast(1, a.w \div a.cs)

\* The shares of a split width are positive.
LEMMA ShareOutType ==
  ASSUME NEW a \in Cell, NEW k
  PROVE  ShareOut(a, k) \in Nat \ {0}
<1> DEFINE base == Atleast(1, a.w \div a.cs)
<1>1. a.w \in Nat /\ a.cs \in Nat /\ a.cs # 0
  BY CellTypes
<1>2. a.w \div a.cs \in Nat
  BY <1>1, Shares
<1>3. base \in Nat \ {0}
  BY <1>2 DEF Atleast
<1>4. a.cs - 1 \in Nat
  BY <1>1
<1> HIDE DEF base
<1>5. a.w - base * (a.cs - 1) \in Int
  BY <1>1, <1>3, <1>4
<1>6. Atleast(1, a.w - base * (a.cs - 1)) \in Nat \ {0}
  BY <1>5 DEF Atleast
<1> QED
  BY <1>3, <1>6 DEF ShareOut, base

Alone(b, a, w) == b = [a EXCEPT !.rs = 1, !.cs = 1, !.w = w]

\* The anchor of a split is a cell of one position.
LEMMA Single ==
  ASSUME NEW a \in Cell, NEW w \in Nat \ {0}, NEW b, Alone(b, a, w)
  PROVE  /\ b \in Cell
         /\ b.row = a.row /\ b.col = a.col /\ b.rs = 1 /\ b.cs = 1 /\ b.paras = a.paras
<1>1. /\ b.row = a.row /\ b.col = a.col /\ b.rs = 1 /\ b.cs = 1 /\ b.paras = a.paras /\ b.w = w
      /\ b = [row |-> b.row, col |-> b.col, rs |-> b.rs, cs |-> b.cs, w |-> b.w, paras |-> b.paras]
  BY DEF Cell, Alone
<1>2. a.row \in Nat /\ a.col \in Nat /\ a.paras \in Seq(Para) \ {<<>>}
  BY DEF Cell
<1> QED
  BY <1>1, <1>2 DEF Cell

\* split_cell leaves a table in order, ids that differ, and all text.
LEMMA SplitKeeps ==
  ASSUME NEW t, Tidy(t), NEW a \in t.cells, NEW u, u = SplitUp(t, a)
  PROVE  /\ Tidy(u)
         /\ IdsDiffer(t.cells) /\ Room(t) => IdsDiffer(u.cells)
         /\ \A c \in t.cells : TextIds({c}) \subseteq TextIds(u.cells)
<1> DEFINE all    == RowsOf(a) \X ColsOf(a)
           places == all \ {<<a.row, a.col>>}
           w      == [x \in places |-> ShareOut(a, x[2])]
           anchor == [a EXCEPT !.rs = 1, !.cs = 1, !.w = ShareOut(a, a.col)]
           fresh  == NewCells(t, w)
           new    == {anchor} \cup fresh
           gone   == {a}
           cells  == (t.cells \ gone) \cup new
           v      == [t EXCEPT !.cells = cells]
           g      == [c \in t.cells |-> IF c = a THEN anchor ELSE c]
           img    == (t.cells \ gone) \cup {anchor}
<1>1. /\ Grid(t) /\ IsFiniteSet(t.cells)
      /\ t = [rows |-> t.rows, cols |-> t.cols, cells |-> t.cells, counts |-> t.counts]
      /\ t.rows \in 1 .. MaxDim /\ t.cols \in 1 .. MaxDim /\ t.cells \in SUBSET Cell
  BY TidyGrid
<1>2. t.rows \in Nat /\ t.cols \in Nat /\ Tiling(t.rows, t.cols, t.cells) /\ MaxCount \in Nat
  BY <1>1, NumbersAssumption DEF Grid
<1>3. /\ a \in Cell /\ a.row \in Nat /\ a.col \in Nat /\ a.rs \in Nat /\ a.cs \in Nat
      /\ a.rs >= 1 /\ a.cs >= 1 /\ a.row + a.rs <= t.rows /\ a.col + a.cs <= t.cols
  BY <1>1, Places, CellTypes
<1>4. anchor \in Cell /\ anchor.row = a.row /\ anchor.col = a.col
      /\ anchor.rs = 1 /\ anchor.cs = 1 /\ anchor.paras = a.paras
  <2>1. ShareOut(a, a.col) \in Nat \ {0}
    BY <1>3, ShareOutType
  <2> DEFINE share == ShareOut(a, a.col)
  <2>2. Alone(anchor, a, share)
    BY DEF Alone
  <2> HIDE DEF anchor, share
  <2>3. share \in Nat \ {0}
    BY <2>1 DEF share
  <2> QED
    BY <1>3, <2>2, <2>3, Single
<1> HIDE DEF anchor
<1>5. \A r, k \in Nat : <<r, k>> \in all <=> In(a, r, k)
  BY <1>3 DEF RowsOf, ColsOf, In
<1>6. all \in SUBSET (Nat \X Nat) /\ places \in SUBSET Reach(t) /\ <<a.row, a.col>> \in all
  BY <1>2, <1>3 DEF RowsOf, ColsOf, Reach
<1>7. places \in SUBSET (Nat \X Nat) /\ IsFiniteSet(places)
  <2> HIDE DEF places
  <2> QED
    BY <1>1, <1>6, Fits
<1>8. w \in [places -> Nat \ {0}]
  <2>1. \A x \in places : ShareOut(a, x[2]) \in Nat \ {0}
    BY <1>3, ShareOutType
  <2> QED
    BY <2>1
<1> HIDE DEF w
<1>9. fresh \in SUBSET Cell /\ Singles(fresh, places)
  <2> HIDE DEF places
  <2> QED
    BY <1>1, <1>7, <1>8, NewCellsShape
<1> HIDE DEF fresh
<1>10. new \in SUBSET Cell
  BY <1>4, <1>9
<1>11. Singles(new, all)
  <2>1. \A c \in new : c.rs = 1 /\ c.cs = 1 /\ <<c.row, c.col>> \in all
    BY <1>4, <1>6, <1>9 DEF Singles
  <2>2. ASSUME NEW x \in all PROVE \E c \in new : c.row = x[1] /\ c.col = x[2]
    <3>1. CASE x = <<a.row, a.col>>
      BY <1>4, <3>1
    <3>2. CASE x # <<a.row, a.col>>
      BY <1>9, <3>2 DEF Singles
    <3> QED
      BY <3>1, <3>2
  <2>3. ASSUME NEW c \in fresh PROVE ~(c.row = a.row /\ c.col = a.col)
    BY <1>9 DEF Singles
  <2>4. Placed(new)
    BY <1>4, <1>9, <2>3 DEF Singles, Placed
  <2> QED
    BY <2>1, <2>2, <2>4 DEF Singles
<1> HIDE DEF all, new
<1>12. /\ Apart(new)
       /\ \A r, k \in Nat : (\E c \in new : In(c, r, k)) <=> <<r, k>> \in all
  BY <1>6, <1>10, <1>11, SinglesCover
<1>13. Tiling(t.rows, t.cols, cells)
  <2>1. ASSUME NEW c \in new PROVE c.row + c.rs <= t.rows /\ c.col + c.cs <= t.cols
    <3>1. c.rs = 1 /\ c.cs = 1 /\ <<c.row, c.col>> \in all /\ c.row \in Nat /\ c.col \in Nat
      BY <1>10, <1>11, CellTypes DEF Singles
    <3>2. In(a, c.row, c.col)
      BY <1>5, <3>1
    <3> QED
      BY <1>2, <1>3, <3>1, <3>2 DEF In
  <2>2. Inside(t.rows, t.cols, new)
    BY <2>1 DEF Inside
  <2>3. \A r, k \in Nat : (\E c \in gone : In(c, r, k)) <=> (\E c \in new : In(c, r, k))
    BY <1>5, <1>12
  <2>4. gone \in SUBSET t.cells
    OBVIOUS
  <2> HIDE DEF gone
  <2> QED
    BY <1>1, <1>2, <1>10, <1>12, <2>2, <2>3, <2>4, Replace
<1>14. Moved(img, g, t.cells)
  <2>1. g \in [t.cells -> Cell] /\ \A c \in t.cells : g[c].paras = c.paras
    BY <1>1, <1>4
  <2>2. img = {g[c] : c \in t.cells}
    OBVIOUS
  <2> QED
    BY <2>1, <2>2 DEF Moved
<1>15. cells = img \cup fresh
  BY DEF new
<1> HIDE DEF g, places, cells, img
<1>16. /\ cells \in SUBSET Cell /\ IsFiniteSet(cells)
       /\ IdsDiffer(t.cells) /\ Room(t) => IdsDiffer(cells)
       /\ \A c \in t.cells : TextIds({c}) \subseteq TextIds(cells)
  <2>1. t.cells \in SUBSET t.cells
    OBVIOUS
  <2> QED
    BY <1>1, <1>6, <1>8, <1>14, <1>15, <2>1, MovedAndNew DEF fresh
<1>17. /\ v = [rows |-> v.rows, cols |-> v.cols, cells |-> v.cells, counts |-> v.counts]
       /\ v.rows = t.rows /\ v.cols = t.cols /\ v.cells = cells
  BY <1>1
<1>18. u = [v EXCEPT !.counts = Recount(v)]
  BY DEF SplitUp, cells, new, fresh, anchor, w, places, all, ShareOut
<1> HIDE DEF v
<1>19. Recounted(u, t.rows, t.cols, cells) /\ u.cells = cells
  BY <1>17, <1>18, RecountIs
<1>20. Tidy(u)
  BY <1>1, <1>13, <1>16, <1>19, RecountedTable
<1> QED
  BY <1>16, <1>19, <1>20

-----------------------------------------------------------------------------
(* add_rows_at.                                                            *)

\* The template row of rows that are not refused is a row of the table.
LEMMA TemplateFacts ==
  ASSUME NEW t, Tidy(t), NEW b \in Nat, NEW count \in Nat, NEW tpl \in {NoRow} \cup Nat,
         ~RowsRefused(t, b, count, tpl)
  PROVE  TemplateRow(t, b, tpl) \in 0 .. t.rows - 1
<1>1. Grid(t) /\ t.rows \in Nat /\ t.rows >= 1 /\ b <= t.rows
  BY TidyGrid DEF Grid, RowsRefused
<1>2. CASE tpl # NoRow
  BY <1>1, <1>2 DEF TemplateRow, RowsRefused
<1>3. CASE tpl = NoRow /\ b < t.rows
  <2>1. Atleast(0, b - 1) \in 0 .. t.rows - 1
    BY <1>1, <1>3 DEF Atleast
  <2> QED
    BY <1>3, <2>1 DEF TemplateRow
<1>4. CASE tpl = NoRow /\ b = t.rows
  <2> DEFINE S == {r \in Rows(t) : CleanRow(t, r)}
  <2>1. S # {} /\ S \subseteq 0 .. t.rows - 1
    BY <1>4 DEF RowsRefused, Rows
  <2>2. TemplateRow(t, b, tpl) = Max(S)
    BY <1>1, <1>4 DEF TemplateRow
  <2> HIDE DEF S
  <2>3. IsFiniteSet(0 .. t.rows - 1) /\ 0 .. t.rows - 1 \subseteq Int
    BY <1>1, Interval
  <2>4. IsFiniteSet(S) /\ S \subseteq Int
    BY <2>1, <2>3, FS_Subset
  <2> QED
    BY <2>1, <2>2, <2>4, MaxExists
<1> QED
  BY <1>1, <1>2, <1>3, <1>4

\* The fields of a table with another number of rows, or columns, and cells.
LEMMA Taller ==
  ASSUME NEW t, t = [rows |-> t.rows, cols |-> t.cols, cells |-> t.cells, counts |-> t.counts],
         NEW R, NEW cells, NEW v, v = [t EXCEPT !.rows = R, !.cells = cells]
  PROVE  /\ v = [rows |-> v.rows, cols |-> v.cols, cells |-> v.cells, counts |-> v.counts]
         /\ v.rows = R /\ v.cols = t.cols /\ v.cells = cells /\ v.counts = t.counts
OBVIOUS

\* A table with other columns and cells, field by field.
LEMMA Wider ==
  ASSUME NEW t, t = [rows |-> t.rows, cols |-> t.cols, cells |-> t.cells, counts |-> t.counts],
         NEW K, NEW cells, NEW v, v = [t EXCEPT !.cols = K, !.cells = cells]
  PROVE  /\ v = [rows |-> v.rows, cols |-> v.cols, cells |-> v.cells, counts |-> v.counts]
         /\ v.rows = t.rows /\ v.cols = K /\ v.cells = cells /\ v.counts = t.counts
OBVIOUS

\* add_rows_at leaves a table in order, ids that differ, and all text: the append
\* that never validates, because the template row is clean; the insert, because
\* the result is validated.
LEMMA AddRowsKeeps ==
  ASSUME NEW t, Tidy(t), BodyWidth \in Nat,
         NEW b \in Nat, NEW count \in 1 .. MaxCount, NEW tpl \in {NoRow} \cup Nat,
         ~RowsRefused(t, b, count, tpl), NEW u, u = AddedRows(t, b, count, tpl)
  PROVE  /\ PlainAppend(t, b, tpl) \/ Valid(u) => Tidy(u)
         /\ IdsDiffer(t.cells) /\ Room(t) => IdsDiffer(u.cells)
         /\ \A c \in t.cells : TextIds({c}) \subseteq TextIds(u.cells)
         /\ u.rows = t.rows + count
<1> DEFINE src        == TemplateRow(t, b, tpl)
           crosses(c) == c.row < b /\ b < c.row + c.rs
           band       == (b .. b + count - 1) \X Cols(t)
           covered    == {x \in band : \E c \in t.cells : crosses(c) /\ x[2] \in ColsOf(c)}
           donor(x)   == Owner(t, src, x[2])
           width(x)   == IF donor(x).cs = 1 THEN donor(x).w ELSE ColumnWidths(t)[x[2]]
           stretch(c) == IF c.row >= b THEN [c EXCEPT !.row = @ + count]
                         ELSE IF crosses(c) THEN [c EXCEPT !.rs = @ + count] ELSE c
           S          == band \ covered
           w          == [x \in S |-> width(x)]
           g          == [c \in t.cells |-> stretch(c)]
           img        == {stretch(c) : c \in t.cells}
           new        == NewCells(t, w)
           cells      == img \cup new
           grown      == [t EXCEPT !.rows = @ + count, !.cells = cells]
<1>1. /\ Grid(t) /\ IsFiniteSet(t.cells)
      /\ t = [rows |-> t.rows, cols |-> t.cols, cells |-> t.cells, counts |-> t.counts]
      /\ t.rows \in 1 .. MaxDim /\ t.cols \in 1 .. MaxDim /\ t.cells \in SUBSET Cell
  BY TidyGrid
<1>2. /\ t.rows \in Nat /\ t.cols \in Nat /\ Tiling(t.rows, t.cols, t.cells)
      /\ MaxCount \in Nat /\ MaxDim \in Nat /\ count \in Nat /\ count >= 1 /\ count <= MaxCount
  BY <1>1, NumbersAssumption DEF Grid
<1>3. b <= t.rows /\ t.rows + count \in 1 .. MaxDim /\ t.rows + count \in Nat
  <2>1. ~(b > t.rows) /\ ~(count > MaxDim - t.rows)
    BY DEF RowsRefused
  <2> QED
    BY <1>2, <2>1
<1>4. src \in 0 .. t.rows - 1
  BY <1>2, TemplateFacts
<1>5. S \in SUBSET Reach(t)
  <2>1. \A r \in b .. b + count - 1 : r \in 0 .. (t.rows + MaxCount) - 1
    BY <1>2, <1>3
  <2>2. \A k \in Cols(t) : k \in 0 .. (t.cols + MaxCount) - 1
    BY <1>2 DEF Cols
  <2> QED
    BY <2>1, <2>2 DEF Reach
<1>6. S \in SUBSET (Nat \X Nat) /\ IsFiniteSet(S)
  <2> HIDE DEF S
  <2> QED
    BY <1>1, <1>5, Fits
<1>7. w \in [S -> Nat \ {0}]
  <2>1. ASSUME NEW x \in S PROVE width(x) \in Nat \ {0}
    <3>1. x[2] \in 0 .. t.cols - 1
      BY DEF Cols
    <3>2. donor(x).w \in Nat \ {0}
      BY <1>1, <1>4, <3>1, OwnerFacts
    <3>3. ColumnWidths(t)[x[2]] \in Nat \ {0}
      BY <1>1, <3>1, ColumnWidthsType
    <3> QED
      BY <3>2, <3>3
  <2> HIDE DEF width, S
  <2> QED
    BY <2>1
<1>8. Moved(img, g, t.cells)
  <2>1. ASSUME NEW c \in t.cells PROVE stretch(c) \in Cell /\ stretch(c).paras = c.paras
    <3>1. c \in Cell /\ c.row + count \in Nat /\ c.rs + count \in Nat \ {0}
      BY <1>1, <1>2, CellTypes
    <3>2. /\ [c EXCEPT !.row = @ + count] \in Cell /\ [c EXCEPT !.row = @ + count].paras = c.paras
      BY <3>1 DEF Cell
    <3>3. /\ [c EXCEPT !.rs = @ + count] \in Cell /\ [c EXCEPT !.rs = @ + count].paras = c.paras
      BY <3>1 DEF Cell
    <3> QED
      BY <3>1, <3>2, <3>3
  <2>2. img = {g[c] : c \in t.cells}
    OBVIOUS
  <2> QED
    BY <2>1, <2>2 DEF Moved
<1> HIDE DEF g
<1>9. /\ cells \in SUBSET Cell /\ IsFiniteSet(cells)
      /\ IdsDiffer(t.cells) /\ Room(t) => IdsDiffer(cells)
      /\ \A c \in t.cells : TextIds({c}) \subseteq TextIds(cells)
  <2>1. t.cells \in SUBSET t.cells
    OBVIOUS
  <2>2. cells = img \cup NewCells(t, w)
    OBVIOUS
  <2> HIDE DEF img, S, w, new, cells
  <2> QED
    BY <1>1, <1>5, <1>7, <1>8, <2>1, <2>2, MovedAndNew
<1>10. /\ grown = [rows |-> grown.rows, cols |-> grown.cols, cells |-> grown.cells,
                   counts |-> grown.counts]
       /\ grown.rows = t.rows + count /\ grown.cols = t.cols /\ grown.cells = cells
       /\ grown.counts = t.counts
  <2>1. grown = [t EXCEPT !.rows = t.rows + count, !.cells = cells]
    OBVIOUS
  <2> HIDE DEF cells, grown
  <2> QED
    BY <1>1, <2>1, Taller
<1>11. u = IF PlainAppend(t, b, tpl)
           THEN [grown EXCEPT !.counts = [r \in Rows(grown) |-> IF r < b THEN @[r] ELSE t.cols]]
           ELSE [grown EXCEPT !.counts = Recount(grown)]
  BY DEF AddedRows
<1> HIDE DEF grown
<1>12. CASE ~PlainAppend(t, b, tpl)
  <2>1. Recounted(u, t.rows + count, t.cols, cells) /\ u.cells = cells /\ u.rows = t.rows + count
    BY <1>10, <1>11, <1>12, RecountIs
  <2>2. IsTable(u)
    <3> HIDE DEF cells
    <3> QED
      BY <1>1, <1>3, <1>9, <2>1, RecountedTable
  <2> HIDE DEF cells
  <2> QED
    BY <1>9, <1>12, <2>1, <2>2 DEF Tidy
<1>13. CASE PlainAppend(t, b, tpl)
  <2>1. b = t.rows
    BY <1>13 DEF PlainAppend
  <2>2. ASSUME NEW c \in t.cells PROVE c.row < b /\ ~crosses(c) /\ stretch(c) = c
    <3>1. c.row \in Nat /\ c.row < t.rows /\ c.row + c.rs <= t.rows /\ c.rs \in Nat
      <4>1. c \in Cell /\ c.row \in 0 .. t.rows - 1 /\ c.row + c.rs <= t.rows
        BY <1>1, Places
      <4> QED
        BY <1>2, <4>1, CellTypes
    <3> QED
      BY <1>2, <2>1, <3>1
  <2>3. img = t.cells
    BY <2>2
  <2>4. S = band
    BY <2>2
  <2>5. new \in SUBSET Cell /\ Singles(new, S)
    <3> HIDE DEF S, w
    <3> QED
      BY <1>1, <1>6, <1>7, NewCellsShape
  <2>6. /\ Apart(new)
        /\ \A r, k \in Nat : (\E c \in new : In(c, r, k)) <=> <<r, k>> \in S
    <3> HIDE DEF new, S
    <3> QED
      BY <1>6, <2>5, SinglesCover
  <2>7. ASSUME NEW c \in new
        PROVE  /\ c.rs = 1 /\ c.cs = 1 /\ c.row \in b .. b + count - 1 /\ c.col \in 0 .. t.cols - 1
    <3>1. c.rs = 1 /\ c.cs = 1 /\ <<c.row, c.col>> \in band
      BY <2>4, <2>5 DEF Singles
    <3> QED
      BY <3>1 DEF Cols
  <2>8. Tiling(t.rows + count, t.cols, t.cells \cup new)
    <3>1. Inside(t.rows + count, t.cols, new)
      BY <1>2, <2>1, <2>7 DEF Inside
    <3>2. ASSUME NEW r \in 0 .. (t.rows + count) - 1, NEW k \in 0 .. t.cols - 1
          PROVE  (\E c \in new : In(c, r, k)) <=> ~(r < t.rows /\ k < t.cols)
      <4>1. r \in Nat /\ k \in Nat /\ k < t.cols
        BY <1>2
      <4>2. <<r, k>> \in band <=> ~(r < t.rows)
        BY <1>2, <2>1 DEF Cols
      <4> QED
        BY <2>4, <2>6, <4>1, <4>2
    <3>3. t.rows <= t.rows + count /\ t.cols <= t.cols
      BY <1>2
    <3> HIDE DEF new
    <3> QED
      BY <1>1, <1>2, <1>3, <2>5, <2>6, <3>1, <3>2, <3>3, Extend
  <2>9. /\ u.rows = t.rows + count /\ u.cols = t.cols /\ u.cells = t.cells \cup new
        /\ u.counts = [r \in Rows(u) |-> IF r < b THEN t.counts[r] ELSE t.cols]
        /\ u = [rows |-> t.rows + count, cols |-> t.cols, cells |-> t.cells \cup new,
                counts |-> u.counts]
    <3>1. u = [grown EXCEPT !.counts = [r \in Rows(grown) |-> IF r < b THEN @[r] ELSE t.cols]]
      BY <1>11, <1>13
    <3>2. Rows(u) = Rows(grown)
      BY <1>10, <3>1 DEF Rows
    <3> HIDE DEF new, img
    <3> QED
      BY <1>10, <2>3, <3>1, <3>2
  <2> HIDE DEF new
  <2>10. Grid(u)
    BY <1>1, <1>2, <1>3, <2>5, <2>8, <2>9 DEF Grid
  <2>11. u.counts = Recount(u)
    <3>1. ASSUME NEW r \in Rows(u), r < b PROVE Recount(u)[r] = t.counts[r]
      <4>1. r \in Rows(t)
        BY <1>2, <2>1, <2>9, <3>1 DEF Rows
      <4>2. Anchors(u.cells, r) = Anchors(t.cells, r)
        <5>1. \A c \in new : c.row # r
          BY <1>2, <2>7, <3>1
        <5> QED
          BY <2>9, <5>1 DEF Anchors, RowCells
      <4>3. Recount(u)[r] = Recount(t)[r]
        BY <1>1, <2>10, <4>1, <4>2, RecountByColumn
      <4> QED
        BY <4>3 DEF Tidy, Valid
    <3>2. ASSUME NEW r \in Rows(u), ~(r < b) PROVE Recount(u)[r] = t.cols
      <4>1. r \in Nat /\ r \in b .. b + count - 1
        BY <1>2, <2>1, <2>9, <3>2 DEF Rows
      <4>2. ASSUME NEW k \in 0 .. t.cols - 1 PROVE k \in Anchors(u.cells, r)
        <5>1. <<r, k>> \in S
          BY <2>4, <4>1 DEF Cols
        <5>2. PICK c \in new : c.row = r /\ c.col = k
          <6>1. \E c \in new : c.row = <<r, k>>[1] /\ c.col = <<r, k>>[2]
            BY <2>5, <5>1 DEF Singles
          <6> QED
            BY <6>1
        <5> QED
          BY <2>9, <5>2 DEF Anchors, RowCells
      <4>3. Anchors(u.cells, r) \subseteq 0 .. t.cols - 1
        BY <2>9, <2>10, RecountByColumn
      <4>4. Anchors(u.cells, r) = 0 .. t.cols - 1
        BY <4>2, <4>3
      <4>5. Cardinality(0 .. t.cols - 1) = t.cols
        BY <1>2, Interval
      <4> QED
        BY <2>10, <4>4, <4>5, RecountByColumn
    <3>3. \A r \in Rows(u) : u.counts[r] = Recount(u)[r]
      BY <2>9, <3>1, <3>2
    <3>4. DOMAIN u.counts = Rows(u) /\ DOMAIN Recount(u) = Rows(u)
          /\ u.counts = [r \in Rows(u) |-> u.counts[r]]
          /\ Recount(u) = [r \in Rows(u) |-> Recount(u)[r]]
      BY <2>9 DEF Recount
    <3> QED
      BY <3>3, <3>4
  <2>12. t.cells \cup new \in SUBSET Cell /\ IsFiniteSet(t.cells \cup new)
    BY <1>9, <2>3 DEF new
  <2>13. Recounted(u, t.rows + count, t.cols, t.cells \cup new)
    BY <2>9, <2>11 DEF Recounted
  <2>14. Tidy(u)
    BY <1>1, <1>3, <2>8, <2>12, <2>13, RecountedTable
  <2>15. u.cells = cells
    BY <2>3, <2>9 DEF new
  <2> HIDE DEF cells
  <2> QED
    BY <1>9, <2>9, <2>14, <2>15
<1> QED
  BY <1>12, <1>13

-----------------------------------------------------------------------------
(* Widths of columns.                                                      *)

\* The widths of K columns, each at least 1.
Widths(w, K) == w \in [0 .. K - 1 -> Nat \ {0}]

\* The total of positive widths is positive.
LEMMA WidthsTotal ==
  ASSUME NEW n \in Nat, n >= 1, NEW w, Widths(w, n)
  PROVE  Total(w, 0 .. n - 1) \in Nat /\ Total(w, 0 .. n - 1) >= 1
<1> DEFINE S == 0 .. n - 1
<1>1. IsFiniteSet(S) /\ 0 \in S
  BY Interval
<1>2. \A j \in S : w[j] \in Nat /\ w[j] >= 1
  BY DEF Widths
<1> HIDE DEF S
<1>3. Total(w, S) \in Nat /\ w[0] <= Total(w, S)
  BY <1>1, <1>2, TotalNat
<1>4. Total(w, S) \in Nat /\ Total(w, S) >= 1
  BY <1>1, <1>2, <1>3
<1> QED
  BY <1>4 DEF S

\* A quotient of integers by a positive divisor is an integer.
LEMMA IntDiv ==
  ASSUME NEW a \in Int, NEW n \in Nat, n >= 1
  PROVE  a \div n \in Int
OBVIOUS

\* Scaled widths are whole numbers, and what is shared out is the target.
LEMMA ScaleType ==
  ASSUME NEW n \in Nat, n >= 1, NEW w, Widths(w, n), NEW target \in Int
  PROVE  /\ Scale(w, n, target) \in [0 .. n - 1 -> Int]
<1> DEFINE total == Total(w, 0 .. n - 1)
           s == [j \in 0 .. n - 1 |-> (w[j] * target) \div total]
<1>1. total \in Nat /\ total >= 1
  BY WidthsTotal
<1>2. Scale(w, n, target) = [s EXCEPT ![n - 1] = target - Total(s, 0 .. n - 2)]
  BY DEF Scale
<1> HIDE DEF total
<1>3. s \in [0 .. n - 1 -> Int]
  <2>1. ASSUME NEW j \in 0 .. n - 1 PROVE (w[j] * target) \div total \in Int
    <3>1. w[j] \in Int
      BY DEF Widths
    <3>2. w[j] * target \in Int
      BY <3>1
    <3> QED
      BY <1>1, <3>2, IntDiv
  <2> QED
    BY <2>1
<1> HIDE DEF s
<1>4. Total(s, 0 .. n - 2) \in Int
  <2>1. IsFiniteSet(0 .. n - 2)
    BY FS_Interval
  <2>2. \A j \in 0 .. n - 2 : s[j] \in Int
    BY <1>3
  <2> QED
    BY <2>1, <2>2, TotalOut
<1> QED
  BY <1>2, <1>3, <1>4

\* MakeRoom gives an integer for every column.
LEMMA RoomType ==
  ASSUME NEW n \in Nat, n >= 1, NEW w, Widths(w, n), NEW count \in Nat
  PROVE  /\ Share(w, n, count) \in Nat
         /\ MakeRoom(w, n, count) \in [0 .. n - 1 -> Int]
<1>1. Total(w, 0 .. n - 1) \in Nat
  BY WidthsTotal
<1>2. n + count \in Nat /\ n + count # 0
  OBVIOUS
<1>3. Share(w, n, count) \in Nat
  BY <1>1, <1>2, Shares DEF Share
<1>4. Total(w, 0 .. n - 1) - Share(w, n, count) * count \in Int
  BY <1>1, <1>3
<1> QED
  BY <1>3, <1>4, ScaleType DEF MakeRoom

\* FinalWidths gives an integer for every column.
LEMMA FinalType ==
  ASSUME NEW t, Grid(t), BodyWidth \in Nat, NEW at \in Nat, at <= t.cols, NEW count \in Nat
  PROVE  FinalWidths(t, at, count) \in [0 .. t.cols + count - 1 -> Int]
<1> DEFINE w == ColumnWidths(t)
           s == MakeRoom(w, t.cols, count)
<1>1. t.cols \in Nat /\ t.cols >= 1 /\ Widths(w, t.cols)
  BY ColumnWidthsType DEF Grid, Widths
<1> HIDE DEF w
<1>2. s \in [0 .. t.cols - 1 -> Int] /\ Share(w, t.cols, count) \in Int
  <2>1. Share(w, t.cols, count) \in Nat /\ MakeRoom(w, t.cols, count) \in [0 .. t.cols - 1 -> Int]
    BY <1>1, RoomType
  <2> QED
    BY <2>1
<1>3. FinalWidths(t, at, count)
        = [k \in 0 .. t.cols + count - 1 |->
             IF k < at THEN s[k] ELSE IF k < at + count THEN Share(w, t.cols, count)
             ELSE s[k - count]]
  BY DEF FinalWidths, w
<1> HIDE DEF s
<1>4. ASSUME NEW k \in 0 .. t.cols + count - 1
      PROVE  (IF k < at THEN s[k] ELSE IF k < at + count THEN Share(w, t.cols, count)
              ELSE s[k - count]) \in Int
  <2>1. k < at => k \in 0 .. t.cols - 1
    BY <1>1
  <2>2. ~(k < at + count) => k - count \in 0 .. t.cols - 1
    BY <1>1
  <2> QED
    BY <1>2, <2>1, <2>2
<1> QED
  BY <1>3, <1>4

\* Cells that only change in width cover what they covered.
SamePlace(c, d) == c.row = d.row /\ c.col = d.col /\ c.rs = d.rs /\ c.cs = d.cs

\* Cells of other widths in the same places form the same tiling.
LEMMA Rewidth ==
  ASSUME NEW cells \in SUBSET Cell, NEW g, NEW img, Moved(img, g, cells),
         \A c \in cells : SamePlace(g[c], c),
         NEW R \in Nat, NEW K \in Nat
  PROVE  /\ Tiling(R, K, cells) => Tiling(R, K, img)
         /\ \A r \in Nat : Anchors(img, r) = Anchors(cells, r)
<1>1. \A d \in img : \E c \in cells : d = g[c] /\ SamePlace(d, c)
  BY DEF Moved
<1>2. \A c \in cells : g[c] \in img /\ SamePlace(g[c], c)
  BY DEF Moved
<1>3. ASSUME NEW r \in Nat PROVE Anchors(img, r) = Anchors(cells, r)
  <2>1. \A k : k \in Anchors(img, r) => k \in Anchors(cells, r)
    BY <1>1 DEF Anchors, RowCells, SamePlace
  <2>2. \A k : k \in Anchors(cells, r) => k \in Anchors(img, r)
    BY <1>2 DEF Anchors, RowCells, SamePlace
  <2> QED
    BY <2>1, <2>2
<1>4. ASSUME Tiling(R, K, cells) PROVE Tiling(R, K, img)
  <2>1. \A c, d : SamePlace(c, d) => \A r, k : In(c, r, k) <=> In(d, r, k)
    BY DEF SamePlace, In
  <2>2. Inside(R, K, img)
    BY <1>1, <1>4 DEF Tiling, Inside, SamePlace
  <2>3. Full(R, K, img)
    BY <1>2, <1>4, <2>1 DEF Tiling, Full
  <2>4. ASSUME NEW x \in img, NEW y \in img, NEW r \in Nat, NEW k \in Nat,
               In(x, r, k), In(y, r, k)
        PROVE  x = y
    <3>1. PICK c \in cells : x = g[c] /\ SamePlace(x, c)
      BY <1>1
    <3>2. PICK d \in cells : y = g[d] /\ SamePlace(y, d)
      BY <1>1
    <3>3. In(c, r, k) /\ In(d, r, k)
      BY <2>1, <2>4, <3>1, <3>2
    <3>4. c = d
      BY <1>4, <3>3 DEF Tiling, Apart
    <3> QED
      BY <3>1, <3>2, <3>4
  <2> QED
    BY <2>2, <2>3, <2>4 DEF Tiling, Apart
<1> QED
  BY <1>3, <1>4

\* Resized changes nothing but widths.
LEMMA ResizedCells ==
  ASSUME NEW t, t.cells \in SUBSET Cell, NEW K \in Nat,
         \A c \in t.cells : c.col + c.cs <= K,
         NEW w \in [0 .. K - 1 -> Int], NEW u, u = Resized(t, w),
         t = [rows |-> t.rows, cols |-> t.cols, cells |-> t.cells, counts |-> t.counts]
  PROVE  /\ u = [rows |-> u.rows, cols |-> u.cols, cells |-> u.cells, counts |-> u.counts]
         /\ u.rows = t.rows /\ u.cols = t.cols /\ u.counts = t.counts
         /\ \E g : Moved(u.cells, g, t.cells) /\ \A c \in t.cells : SamePlace(g[c], c)
<1> DEFINE size(c) == Atleast(1, Total(w, ColsOf(c)))
           g == [c \in t.cells |-> [c EXCEPT !.w = size(c)]]
           img == {[c EXCEPT !.w = size(c)] : c \in t.cells}
<1>1. ASSUME NEW c \in t.cells
      PROVE  size(c) \in Nat \ {0}
  <2>1. c \in Cell
    OBVIOUS
  <2>2. c.col \in Nat /\ c.cs \in Nat /\ c.col + c.cs <= K
    BY <2>1, CellTypes
  <2>3. \A k \in ColsOf(c) : k \in 0 .. K - 1
    BY <2>2 DEF ColsOf
  <2>4. IsFiniteSet(ColsOf(c))
    BY <2>2, FS_Interval DEF ColsOf
  <2>5. Total(w, ColsOf(c)) \in Int
    BY <2>3, <2>4, TotalOut
  <2> QED
    BY <2>5 DEF Atleast
<1> HIDE DEF size
<1>2. ASSUME NEW c \in t.cells
      PROVE  g[c] \in Cell /\ g[c].paras = c.paras /\ SamePlace(g[c], c)
  <2>1. c \in Cell
    OBVIOUS
  <2> QED
    BY <1>1, <2>1 DEF Cell, SamePlace
<1>3. u = [t EXCEPT !.cells = img]
  BY DEF Resized, size
<1>4. Moved(img, g, t.cells)
  <2>1. img = {g[c] : c \in t.cells}
    OBVIOUS
  <2> QED
    BY <1>2, <2>1 DEF Moved
<1> HIDE DEF img, g
<1>5. /\ u = [rows |-> u.rows, cols |-> u.cols, cells |-> u.cells, counts |-> u.counts]
      /\ u.rows = t.rows /\ u.cols = t.cols /\ u.counts = t.counts /\ u.cells = img
  BY <1>3
<1> QED
  BY <1>2, <1>4, <1>5

-----------------------------------------------------------------------------
(* add_table_columns.                                                      *)

\* A table without merges has a cell that begins at every position.
LEMMA NoMerge ==
  ASSUME NEW t, Grid(t), ~HasMerge(t)
  PROVE  /\ \A c \in t.cells : c.rs = 1 /\ c.cs = 1
         /\ \A r \in Rows(t) : Anchors(t.cells, r) = 0 .. t.cols - 1
         /\ \A r \in Rows(t) : Recount(t)[r] = t.cols
<1>1. \A c \in t.cells : c.rs = 1 /\ c.cs = 1
  BY DEF HasMerge
<1>2. ASSUME NEW r \in Rows(t) PROVE Anchors(t.cells, r) = 0 .. t.cols - 1
  <2>1. ASSUME NEW k \in 0 .. t.cols - 1 PROVE k \in Anchors(t.cells, r)
    <3>1. PICK c \in t.cells : In(c, r, k)
      BY DEF Grid, Tiling, Full, Rows
    <3>2. c.row = r /\ c.col = k
      <4>1. c.row \in Nat /\ c.col \in Nat /\ r \in Nat /\ k \in Nat
        BY CellTypes DEF Grid, Rows
      <4> QED
        BY <1>1, <3>1, <4>1 DEF In
    <3> QED
      BY <3>2 DEF Anchors, RowCells
  <2>2. Anchors(t.cells, r) \subseteq 0 .. t.cols - 1
    BY RecountByColumn
  <2> QED
    BY <2>1, <2>2
<1>3. \A r \in Rows(t) : Recount(t)[r] = t.cols
  <2>1. Cardinality(0 .. t.cols - 1) = t.cols
    BY Interval DEF Grid
  <2> QED
    BY <1>2, <2>1, RecountByColumn
<1> QED
  BY <1>1, <1>2, <1>3

\* Columns appended to a table without merges, which is not validated.
LEMMA AppendColsKeeps ==
  ASSUME NEW t, Tidy(t), NEW count \in 1 .. MaxCount, t.cols + count <= MaxDim,
         ~HasMerge(t), ~NoWidthFor(t, t.cols, count),
         NEW u, u = AppendedCols(t, count)
  PROVE  /\ Tidy(u)
         /\ IdsDiffer(t.cells) /\ Room(t) => IdsDiffer(u.cells)
         /\ \A c \in t.cells : TextIds({c}) \subseteq TextIds(u.cells)
<1> DEFINE K     == t.cols + count
           S     == Rows(t) \X (t.cols .. t.cols + count - 1)
           w     == [x \in S |-> Share(RowWidths(t, x[1]), t.cols, count)]
           wd(c) == MakeRoom(RowWidths(t, c.row), t.cols, count)[c.col]
           g     == [c \in t.cells |-> [c EXCEPT !.w = wd(c)]]
           img   == {[c EXCEPT !.w = wd(c)] : c \in t.cells}
           new   == NewCells(t, w)
           cells == img \cup new
<1>1. /\ Grid(t) /\ IsFiniteSet(t.cells)
      /\ t = [rows |-> t.rows, cols |-> t.cols, cells |-> t.cells, counts |-> t.counts]
      /\ t.rows \in 1 .. MaxDim /\ t.cols \in 1 .. MaxDim /\ t.cells \in SUBSET Cell
  BY TidyGrid
<1>2. /\ t.rows \in Nat /\ t.cols \in Nat /\ t.cols >= 1 /\ Tiling(t.rows, t.cols, t.cells)
      /\ MaxCount \in Nat /\ MaxDim \in Nat /\ count \in Nat /\ count >= 1 /\ count <= MaxCount
      /\ K \in 1 .. MaxDim /\ K \in Nat
  BY <1>1, NumbersAssumption DEF Grid
<1>3. \A r \in Rows(t) : Widths(RowWidths(t, r), t.cols)
  BY <1>1, OwnerFacts DEF Widths, RowWidths, Rows, Cols
<1>4. /\ \A r \in Rows(t) : ~(Share(RowWidths(t, r), t.cols, count) < 1)
      /\ \A r \in Rows(t) : \A k \in Cols(t) : ~(MakeRoom(RowWidths(t, r), t.cols, count)[k] < 1)
  BY DEF NoWidthFor
<1>5. ASSUME NEW r \in Rows(t)
      PROVE  /\ Share(RowWidths(t, r), t.cols, count) \in Nat \ {0}
             /\ \A k \in Cols(t) : MakeRoom(RowWidths(t, r), t.cols, count)[k] \in Nat \ {0}
  <2>1. /\ Share(RowWidths(t, r), t.cols, count) \in Nat
        /\ MakeRoom(RowWidths(t, r), t.cols, count) \in [0 .. t.cols - 1 -> Int]
    BY <1>2, <1>3, RoomType
  <2>2. Share(RowWidths(t, r), t.cols, count) \in Nat \ {0}
    BY <1>4, <2>1
  <2>3. ASSUME NEW k \in Cols(t) PROVE MakeRoom(RowWidths(t, r), t.cols, count)[k] \in Nat \ {0}
    <3>1. MakeRoom(RowWidths(t, r), t.cols, count)[k] \in Int
      BY <2>1 DEF Cols
    <3>2. ~(MakeRoom(RowWidths(t, r), t.cols, count)[k] < 1)
      BY <1>4
    <3> QED
      BY <3>1, <3>2
  <2> QED
    BY <2>2, <2>3
<1>6. S \in SUBSET Reach(t)
  <2>1. \A k \in t.cols .. t.cols + count - 1 : k \in 0 .. (t.cols + MaxCount) - 1
    BY <1>2
  <2>2. \A r \in Rows(t) : r \in 0 .. (t.rows + MaxCount) - 1
    BY <1>2 DEF Rows
  <2> QED
    BY <2>1, <2>2 DEF Reach
<1>7. S \in SUBSET (Nat \X Nat) /\ IsFiniteSet(S)
  <2> HIDE DEF S
  <2> QED
    BY <1>1, <1>6, Fits
<1>8. w \in [S -> Nat \ {0}]
  <2>1. \A x \in S : Share(RowWidths(t, x[1]), t.cols, count) \in Nat \ {0}
    BY <1>5
  <2> HIDE DEF S
  <2> QED
    BY <2>1
<1>9. ASSUME NEW c \in t.cells
      PROVE  g[c] \in Cell /\ g[c].paras = c.paras /\ SamePlace(g[c], c)
  <2>1. c \in Cell /\ c.row \in Rows(t) /\ c.col \in Cols(t)
    BY <1>1, Places DEF Rows, Cols
  <2>2. wd(c) \in Nat \ {0}
    BY <1>5, <2>1
  <2> HIDE DEF wd
  <2> QED
    BY <2>1, <2>2 DEF Cell, SamePlace
<1>10. Moved(img, g, t.cells)
  <2>1. img = {g[c] : c \in t.cells}
    OBVIOUS
  <2> QED
    BY <1>9, <2>1 DEF Moved
<1>11. /\ cells \in SUBSET Cell /\ IsFiniteSet(cells)
       /\ IdsDiffer(t.cells) /\ Room(t) => IdsDiffer(cells)
       /\ \A c \in t.cells : TextIds({c}) \subseteq TextIds(cells)
  <2>1. t.cells \in SUBSET t.cells /\ cells = img \cup NewCells(t, w)
    OBVIOUS
  <2> HIDE DEF img, S, w, new, cells, g
  <2> QED
    BY <1>1, <1>6, <1>8, <1>10, <2>1, MovedAndNew
<1>12. u = [rows |-> t.rows, cols |-> K, cells |-> cells,
            counts |-> [r \in Rows(t) |-> t.counts[r] + count]]
  BY DEF AppendedCols
<1> HIDE DEF g, img, w, wd
<1>13. /\ Tiling(t.rows, t.cols, img)
       /\ \A r \in Nat : Anchors(img, r) = Anchors(t.cells, r)
  BY <1>1, <1>2, <1>9, <1>10, Rewidth
<1>14. new \in SUBSET Cell /\ Singles(new, S)
  <2> HIDE DEF S
  <2> QED
    BY <1>1, <1>7, <1>8, NewCellsShape
<1>15. /\ Apart(new)
       /\ \A r, k \in Nat : (\E c \in new : In(c, r, k)) <=> <<r, k>> \in S
  <2> HIDE DEF new, S
  <2> QED
    BY <1>7, <1>14, SinglesCover
<1> HIDE DEF new
<1>16. ASSUME NEW c \in new
       PROVE  c.rs = 1 /\ c.cs = 1 /\ c.row \in 0 .. t.rows - 1 /\ c.col \in t.cols .. t.cols + count - 1
  <2>1. c.rs = 1 /\ c.cs = 1 /\ <<c.row, c.col>> \in S
    BY <1>14 DEF Singles
  <2> QED
    BY <2>1 DEF Rows
<1>17. Tiling(t.rows, K, cells)
  <2>1. Inside(t.rows, K, new)
    BY <1>2, <1>16 DEF Inside
  <2>2. ASSUME NEW r \in 0 .. t.rows - 1, NEW k \in 0 .. K - 1
        PROVE  (\E c \in new : In(c, r, k)) <=> ~(r < t.rows /\ k < t.cols)
    <3>1. r \in Nat /\ k \in Nat /\ r < t.rows
      BY <1>2
    <3>2. <<r, k>> \in S <=> ~(k < t.cols)
      BY <1>2 DEF Rows
    <3> QED
      BY <1>15, <3>1, <3>2
  <2>3. t.rows <= t.rows /\ t.cols <= K
    BY <1>2
  <2>4. img \in SUBSET Cell
    BY <1>10 DEF Moved
  <2> HIDE DEF K
  <2> QED
    BY <1>2, <1>13, <1>14, <1>15, <2>1, <2>2, <2>3, <2>4, Extend
<1>18. u.rows = t.rows /\ u.cols = K /\ u.cells = cells
       /\ u.counts = [r \in Rows(t) |-> t.counts[r] + count] /\ Rows(u) = Rows(t)
  BY <1>12 DEF Rows
<1> HIDE DEF cells
<1>19. Grid(u)
  <2> HIDE DEF K
  <2>1. K >= 1 /\ t.rows >= 1
    BY <1>1, <1>2 DEF Grid
  <2> QED
    BY <1>2, <1>11, <1>17, <1>18, <2>1 DEF Grid
<1>20. u.counts = Recount(u)
  <2>1. ASSUME NEW r \in Rows(t) PROVE u.counts[r] = K /\ Recount(u)[r] = K
    <3>1. u.counts[r] = t.counts[r] + count /\ t.counts[r] = Recount(t)[r]
      BY <1>18 DEF Tidy, Valid
    <3>2. Recount(t)[r] = t.cols /\ Anchors(t.cells, r) = 0 .. t.cols - 1 /\ r \in Nat
      BY <1>1, NoMerge DEF Rows
    <3>3. ASSUME NEW k \in 0 .. K - 1 PROVE k \in Anchors(cells, r)
      <4>1. CASE k < t.cols
        <5>1. k \in Anchors(img, r)
          BY <1>2, <1>13, <3>2, <4>1
        <5> QED
          BY <5>1 DEF Anchors, RowCells, cells
      <4>2. CASE ~(k < t.cols)
        <5>1. <<r, k>> \in S
          BY <1>2, <4>2
        <5>2. \E c \in new : c.row = <<r, k>>[1] /\ c.col = <<r, k>>[2]
          BY <1>14, <5>1 DEF Singles
        <5>3. PICK c \in new : c.row = r /\ c.col = k
          BY <5>2
        <5> QED
          BY <5>3 DEF Anchors, RowCells, cells
      <4> QED
        BY <4>1, <4>2
    <3>4. Recount(u)[r] = Cardinality(Anchors(cells, r)) /\ Anchors(cells, r) \subseteq 0 .. K - 1
      BY <1>18, <1>19, RecountByColumn
    <3>5. Anchors(cells, r) = 0 .. K - 1
      BY <3>3, <3>4
    <3>6. Cardinality(0 .. K - 1) = K
      <4> HIDE DEF K
      <4> QED
        BY <1>2, Interval
    <3> QED
      BY <3>1, <3>2, <3>4, <3>5, <3>6
  <2>2. DOMAIN u.counts = Rows(t) /\ DOMAIN Recount(u) = Rows(t)
        /\ u.counts = [r \in Rows(t) |-> u.counts[r]]
        /\ Recount(u) = [r \in Rows(t) |-> Recount(u)[r]]
    BY <1>18 DEF Recount
  <2> QED
    BY <2>1, <2>2
<1>21. Tidy(u)
  <2>1. u = [rows |-> t.rows, cols |-> K, cells |-> cells, counts |-> u.counts]
    BY <1>12, <1>18
  <2>2. Recounted(u, t.rows, K, cells)
    BY <1>20, <2>1 DEF Recounted
  <2> HIDE DEF K
  <2> QED
    BY <1>1, <1>2, <1>11, <1>17, <2>2, RecountedTable
<1> QED
  BY <1>11, <1>18, <1>21

\* Columns inserted into a clone, which is validated.
LEMMA InsertColsKeeps ==
  ASSUME NEW t, Tidy(t), BodyWidth \in Nat, NEW count \in 1 .. MaxCount, t.cols + count <= MaxDim,
         NEW at \in Nat, at <= t.cols,
         NEW u, u = InsertedCols(t, at, count)
  PROVE  /\ Valid(u) => Tidy(u)
         /\ IdsDiffer(t.cells) /\ Room(t) => IdsDiffer(u.cells)
         /\ \A c \in t.cells : TextIds({c}) \subseteq TextIds(u.cells)
<1> DEFINE K          == t.cols + count
           crosses(c) == c.col < at /\ at < c.col + c.cs
           band       == Rows(t) \X (at .. at + count - 1)
           covered    == {x \in band : \E c \in t.cells : crosses(c) /\ x[1] \in RowsOf(c)}
           stretch(c) == IF c.col >= at THEN [c EXCEPT !.col = @ + count]
                         ELSE IF crosses(c) THEN [c EXCEPT !.cs = @ + count] ELSE c
           S          == band \ covered
           w          == [x \in S |-> 1]
           g          == [c \in t.cells |-> stretch(c)]
           img        == {stretch(c) : c \in t.cells}
           new        == NewCells(t, w)
           cells      == img \cup new
           t1         == [t EXCEPT !.cols = @ + count, !.cells = cells]
           t2         == [t1 EXCEPT !.counts = Recount(t1)]
           fw         == FinalWidths(t, at, count)
<1>1. /\ Grid(t) /\ IsFiniteSet(t.cells)
      /\ t = [rows |-> t.rows, cols |-> t.cols, cells |-> t.cells, counts |-> t.counts]
      /\ t.rows \in 1 .. MaxDim /\ t.cols \in 1 .. MaxDim /\ t.cells \in SUBSET Cell
  BY TidyGrid
<1>2. /\ t.rows \in Nat /\ t.cols \in Nat /\ t.cols >= 1 /\ Tiling(t.rows, t.cols, t.cells)
      /\ MaxCount \in Nat /\ MaxDim \in Nat /\ count \in Nat /\ count >= 1 /\ count <= MaxCount
      /\ K \in 1 .. MaxDim /\ K \in Nat
  BY <1>1, NumbersAssumption DEF Grid
<1>3. S \in SUBSET Reach(t)
  <2>1. \A k \in at .. at + count - 1 : k \in 0 .. (t.cols + MaxCount) - 1
    BY <1>2
  <2>2. \A r \in Rows(t) : r \in 0 .. (t.rows + MaxCount) - 1
    BY <1>2 DEF Rows
  <2> QED
    BY <2>1, <2>2 DEF Reach
<1>4. S \in SUBSET (Nat \X Nat) /\ IsFiniteSet(S)
  <2> HIDE DEF S
  <2> QED
    BY <1>1, <1>3, Fits
<1>5. w \in [S -> Nat \ {0}]
  OBVIOUS
<1>6. ASSUME NEW c \in t.cells
      PROVE  stretch(c) \in Cell /\ stretch(c).paras = c.paras
             /\ stretch(c).col + stretch(c).cs <= K
  <2>1. /\ c \in Cell /\ c.col + count \in Nat /\ c.cs + count \in Nat \ {0}
        /\ c.col \in Nat /\ c.cs \in Nat /\ c.col + c.cs <= t.cols
    <3>1. c \in Cell /\ c.col + c.cs <= t.cols
      BY <1>1, Places
    <3>2. c.col \in Nat /\ c.cs \in Nat /\ c.cs >= 1
      BY <3>1, CellTypes
    <3>3. count \in Nat
      BY NumbersAssumption
    <3> HIDE DEF g, img, w, S, t1, t2, fw
    <3>4. c.col + count \in Nat /\ c.cs + count \in Nat \ {0}
      BY <3>2, <3>3
    <3> QED
      BY <3>1, <3>2, <3>4
  <2>2. /\ [c EXCEPT !.col = @ + count] \in Cell /\ [c EXCEPT !.col = @ + count].paras = c.paras
        /\ [c EXCEPT !.col = @ + count].col = c.col + count
        /\ [c EXCEPT !.col = @ + count].cs = c.cs
    BY <2>1 DEF Cell
  <2>3. /\ [c EXCEPT !.cs = @ + count] \in Cell /\ [c EXCEPT !.cs = @ + count].paras = c.paras
        /\ [c EXCEPT !.cs = @ + count].cs = c.cs + count
        /\ [c EXCEPT !.cs = @ + count].col = c.col
    BY <2>1 DEF Cell
  <2>4. c.col + count + c.cs <= K /\ c.col + (c.cs + count) <= K /\ c.col + c.cs <= K
    BY <1>2, <2>1
  <2> HIDE DEF K
  <2> QED
    BY <2>1, <2>2, <2>3, <2>4
<1>7. Moved(img, g, t.cells)
  <2>1. img = {g[c] : c \in t.cells}
    OBVIOUS
  <2>2. \A c \in t.cells : g[c] = stretch(c)
    OBVIOUS
  <2> HIDE DEF stretch, img
  <2> QED
    BY <1>6, <2>1, <2>2 DEF Moved
<1>8. /\ cells \in SUBSET Cell /\ IsFiniteSet(cells)
      /\ IdsDiffer(t.cells) /\ Room(t) => IdsDiffer(cells)
      /\ \A c \in t.cells : TextIds({c}) \subseteq TextIds(cells)
  <2>1. t.cells \in SUBSET t.cells /\ cells = img \cup NewCells(t, w)
    OBVIOUS
  <2> HIDE DEF img, S, w, new, cells, g
  <2> QED
    <3>a. IsFiniteSet(cells)
      BY <1>1, <1>3, <1>5, <1>7, <2>1, MovedAndNew
    <3>b. cells \in SUBSET Cell
      <4>1. img \in SUBSET Cell
        BY <1>7 DEF Moved
      <4>2. NewCells(t, w) \in SUBSET Cell
        BY <1>1, <1>4, <1>5, NewCellsShape
      <4> QED
        BY <2>1, <4>1, <4>2
    <3>1. cells \in SUBSET Cell /\ IsFiniteSet(cells)
      BY <3>a, <3>b
    <3>2. IdsDiffer(t.cells) /\ Room(t) => IdsDiffer(cells)
      BY <1>1, <1>3, <1>5, <1>7, <2>1, MovedAndNew
    <3>3. \A c \in t.cells : TextIds({c}) \subseteq TextIds(cells)
      BY <1>1, <1>3, <1>5, <1>7, <2>1, MovedAndNew
    <3> QED
      BY <3>1, <3>2, <3>3
<1>9. new \in SUBSET Cell /\ Singles(new, S)
  <2> HIDE DEF S, w
  <2> QED
    BY <1>1, <1>4, <1>5, NewCellsShape
<1>10. ASSUME NEW c \in cells PROVE c.col + c.cs <= K
  <2>1. CASE c \in img
    BY <1>6, <2>1
  <2>2. CASE c \in new
    <3>1. c.cs = 1 /\ <<c.row, c.col>> \in band
      BY <1>9, <2>2 DEF Singles
    <3>2. c.col \in at .. at + count - 1
      BY <3>1
    <3> QED
      BY <1>2, <3>1, <3>2
  <2> QED
    BY <2>1, <2>2
<1> HIDE DEF cells
<1>11. /\ t1 = [rows |-> t1.rows, cols |-> t1.cols, cells |-> t1.cells, counts |-> t1.counts]
       /\ t1.rows = t.rows /\ t1.cols = K /\ t1.cells = cells
  <2>1. t1 = [t EXCEPT !.cols = K, !.cells = cells]
    OBVIOUS
  <2> HIDE DEF t1, K
  <2> QED
    BY <1>1, <2>1, Wider
<1>12. u = Resized(t2, fw)
  BY DEF InsertedCols, cells
<1> HIDE DEF t1
<1>13. Recounted(t2, t.rows, K, cells) /\ t2.rows = t.rows /\ t2.cols = K /\ t2.cells = cells
  <2> HIDE DEF K
  <2> QED
    BY <1>11, RecountIs
<1> HIDE DEF t2
<1>14. IsTable(t2) /\ t2 = [rows |-> t2.rows, cols |-> t2.cols, cells |-> t2.cells, counts |-> t2.counts]
  <2>1. IsTable(t2)
    <3> HIDE DEF K
    <3> QED
      BY <1>1, <1>2, <1>8, <1>13, RecountedTable
  <2> QED
    BY <2>1 DEF IsTable
<1>15. fw \in [0 .. K - 1 -> Int]
  <2>1. t.cols + count - 1 = K - 1
    BY <1>2
  <2>2. fw \in [0 .. t.cols + count - 1 -> Int]
    BY <1>1, FinalType
  <2> QED
    BY <2>1, <2>2
<1> HIDE DEF fw
<1>16. /\ u = [rows |-> u.rows, cols |-> u.cols, cells |-> u.cells, counts |-> u.counts]
       /\ u.rows = t2.rows /\ u.cols = t2.cols /\ u.counts = t2.counts
       /\ \E h : Moved(u.cells, h, t2.cells) /\ \A c \in t2.cells : SamePlace(h[c], c)
  <2>1. t2.cells \in SUBSET Cell /\ K \in Nat
    BY <1>2, <1>8, <1>13
  <2>2. \A c \in t2.cells : c.col + c.cs <= K
    BY <1>10, <1>13
  <2> HIDE DEF K
  <2> QED
    BY <2>1, <2>2, <1>12, <1>14, <1>15, ResizedCells
<1>17. PICK h : Moved(u.cells, h, cells)
  BY <1>13, <1>16
<1>18. u.cells \in SUBSET Cell
  BY <1>17 DEF Moved
<1>19. Valid(u) => Tidy(u)
  <2>1. u.rows \in 1 .. MaxDim /\ u.cols \in 1 .. MaxDim /\ Rows(u) = Rows(t2)
    BY <1>1, <1>2, <1>13, <1>16 DEF Rows
  <2>2. u.counts \in [Rows(u) -> Nat]
    BY <1>14, <1>16, <2>1 DEF IsTable
  <2> QED
    BY <1>16, <1>18, <2>1, <2>2 DEF Tidy, IsTable
<1>20. ASSUME IdsDiffer(t.cells), Room(t) PROVE IdsDiffer(u.cells)
  <2>1. cells \in SUBSET cells
    OBVIOUS
  <2> QED
    BY <1>8, <1>17, <1>20, <2>1, IdsMoved
<1>21. ASSUME NEW c \in t.cells PROVE TextIds({c}) \subseteq TextIds(u.cells)
  <2>1. ASSUME NEW p \in ParasIn(cells), HasText(p) PROVE p \in ParasIn(u.cells)
    BY <1>17 DEF Moved, ParasIn
  <2>2. TextIds(cells) \subseteq TextIds(u.cells)
    BY <2>1, TextKept
  <2> QED
    BY <1>8, <2>2
<1> QED
  BY <1>19, <1>20, <1>21

-----------------------------------------------------------------------------
(* delete_table_column.                                                    *)

\* WidthsWithout gives an integer for every column left.
LEMMA WithoutType ==
  ASSUME NEW t, Grid(t), BodyWidth \in Nat, NEW k \in Nat, k < t.cols, t.cols > 1
  PROVE  WidthsWithout(t, k) \in [0 .. (t.cols - 1) - 1 -> Int]
<1> DEFINE w    == ColumnWidths(t)
           n    == t.cols - 1
           rest == [j \in 0 .. t.cols - 2 |-> IF j < k THEN w[j] ELSE w[j + 1]]
<1>1. t.cols \in Nat /\ t.cols >= 1 /\ w \in [0 .. t.cols - 1 -> Nat \ {0}]
  BY ColumnWidthsType DEF Grid
<1>2. n \in Nat /\ n >= 1 /\ t.cols - 2 = n - 1
  BY <1>1
<1>3. Total(w, Cols(t)) \in Int
  <2>1. IsFiniteSet(Cols(t))
    BY <1>1, Interval DEF Cols
  <2>2. \A j \in Cols(t) : w[j] \in Int
    BY <1>1 DEF Cols
  <2> QED
    BY <2>1, <2>2, TotalOut
<1>4. WidthsWithout(t, k) = Scale(rest, n, Total(w, Cols(t)))
  BY DEF WidthsWithout
<1> HIDE DEF w
<1>5. Widths(rest, n)
  <2>1. \A j \in 0 .. t.cols - 2 : j \in 0 .. t.cols - 1 /\ j + 1 \in 0 .. t.cols - 1
    BY <1>1
  <2>2. rest \in [0 .. t.cols - 2 -> Nat \ {0}]
    BY <1>1, <2>1
  <2> HIDE DEF rest, n
  <2> QED
    BY <1>2, <2>2 DEF Widths
<1> HIDE DEF rest, n
<1>6. Scale(rest, n, Total(w, Cols(t))) \in [0 .. n - 1 -> Int]
  BY <1>2, <1>3, <1>5, ScaleType
<1> QED
  BY <1>4, <1>6 DEF n

\* delete_table_column leaves a table in order and ids that differ; text goes
\* only with cells of the one column.
LEMMA DeleteColKeeps ==
  ASSUME NEW t, Tidy(t), BodyWidth \in Nat, NEW k \in Nat, k < t.cols, t.cols > 1,
         NEW u, u = WithoutCol(t, k)
  PROVE  /\ Tidy(u)
         /\ IdsDiffer(t.cells) => IdsDiffer(u.cells)
         /\ \A c \in t.cells : TextIds({c}) \subseteq TextIds(u.cells) \/ (c.cs = 1 /\ c.col = k)
         /\ u.cols = t.cols - 1
<1> DEFINE K         == t.cols - 1
           only(c)   == c.col = k /\ c.cs = 1
           shrink(c) == IF c.col > k THEN [c EXCEPT !.col = @ - 1]
                        ELSE IF k \in ColsOf(c) THEN [c EXCEPT !.cs = @ - 1] ELSE c
           kept      == {d \in t.cells : ~only(d)}
           g         == [c \in kept |-> shrink(c)]
           cells     == {shrink(c) : c \in kept}
           t1        == [t EXCEPT !.cols = @ - 1, !.cells = cells]
           t2        == [t1 EXCEPT !.counts = Recount(t1)]
           fw        == WidthsWithout(t, k)
           fr        == [i \in 0 .. t.rows - 1 |-> i]
           fc        == [j \in 0 .. K - 1 |-> IF j < k THEN j ELSE j + 1]
<1>1. /\ Grid(t) /\ IsFiniteSet(t.cells)
      /\ t = [rows |-> t.rows, cols |-> t.cols, cells |-> t.cells, counts |-> t.counts]
      /\ t.rows \in 1 .. MaxDim /\ t.cols \in 1 .. MaxDim /\ t.cells \in SUBSET Cell
  BY TidyGrid
<1>2. /\ t.rows \in Nat /\ t.rows >= 1 /\ t.cols \in Nat /\ Tiling(t.rows, t.cols, t.cells)
      /\ MaxDim \in Nat /\ K \in Nat /\ K >= 1 /\ K \in 1 .. MaxDim
  BY <1>1, NumbersAssumption DEF Grid
<1>3. ASSUME NEW c \in kept
      PROVE  /\ g[c] \in Cell /\ g[c].paras = c.paras
             /\ g[c].row = c.row /\ g[c].rs = c.rs
             /\ \/ c.col > k /\ g[c].col = c.col - 1 /\ g[c].cs = c.cs
                \/ c.col <= k /\ k < c.col + c.cs /\ g[c].col = c.col /\ g[c].cs = c.cs - 1
                \/ c.col + c.cs <= k /\ g[c].col = c.col /\ g[c].cs = c.cs
  <2>1. c \in Cell /\ c.col \in Nat /\ c.cs \in Nat /\ c.cs >= 1 /\ (c.col = k => c.cs # 1)
    BY <1>1, CellTypes
  <2>2. CASE c.col > k
    <3>1. g[c] = [c EXCEPT !.col = c.col - 1] /\ c.col - 1 \in Nat
      BY <2>1, <2>2
    <3> QED
      BY <2>1, <2>2, <3>1 DEF Cell
  <2>3. CASE ~(c.col > k) /\ k \in ColsOf(c)
    <3>1. c.col <= k /\ k < c.col + c.cs
      BY <2>1, <2>3 DEF ColsOf
    <3>2. g[c] = [c EXCEPT !.cs = c.cs - 1] /\ c.cs - 1 \in Nat \ {0}
      BY <2>1, <2>3, <3>1
    <3> QED
      BY <2>1, <3>1, <3>2 DEF Cell
  <2>4. CASE ~(c.col > k) /\ k \notin ColsOf(c)
    <3>1. c.col + c.cs <= k
      BY <2>1, <2>4 DEF ColsOf
    <3>2. g[c] = c
      BY <2>4
    <3> QED
      BY <2>1, <3>1, <3>2
  <2> QED
    BY <2>2, <2>3, <2>4
<1>4. Moved(cells, g, kept)
  <2>1. cells = {g[c] : c \in kept}
    OBVIOUS
  <2>2. g \in [kept -> Cell]
    BY <1>3
  <2> HIDE DEF g, kept, cells
  <2> QED
    BY <1>3, <2>1, <2>2 DEF Moved
<1>5. /\ kept \in SUBSET t.cells /\ \A c \in t.cells \ kept : c.col = k /\ c.cs = 1
  OBVIOUS
<1>6. /\ t1 = [rows |-> t1.rows, cols |-> t1.cols, cells |-> t1.cells, counts |-> t1.counts]
      /\ t1.rows = t.rows /\ t1.cols = K /\ t1.cells = cells
  <2>1. t1 = [t EXCEPT !.cols = K, !.cells = cells]
    OBVIOUS
  <2> HIDE DEF t1, K, cells
  <2> QED
    BY <1>1, <2>1, Wider
<1>7. u = Resized(t2, fw)
  BY DEF WithoutCol
<1> HIDE DEF g, kept, cells
<1>8. /\ fr \in [0 .. t.rows - 1 -> 0 .. t.rows - 1]
      /\ fc \in [0 .. K - 1 -> 0 .. t.cols - 1]
      /\ \A i \in 0 .. t.rows - 1 : fr[i] = i
      /\ \A j \in 0 .. K - 1 : fc[j] = IF j < k THEN j ELSE j + 1
  BY <1>2
<1> HIDE DEF fr, fc
<1>9. Tiling(t.rows, K, cells)
  <2>1. ASSUME NEW c \in kept, NEW i \in 0 .. t.rows - 1, NEW j \in 0 .. K - 1
        PROVE  In(g[c], i, j) <=> In(c, fr[i], fc[j])
    <3>1. c \in Cell
      BY <1>1, <1>5
    <3>2. c.col \in Nat /\ c.cs \in Nat
      BY <3>1, CellTypes
    <3>a. fc[j] = IF j < k THEN j ELSE j + 1
      BY <1>8
    <3>b. j \in Nat
      OBVIOUS
    <3>3. g[c].col <= j /\ j < g[c].col + g[c].cs <=> c.col <= fc[j] /\ fc[j] < c.col + c.cs
      <4>1. CASE c.col > k /\ g[c].col = c.col - 1 /\ g[c].cs = c.cs
        BY <3>2, <3>a, <3>b, <4>1
      <4>2. CASE c.col <= k /\ k < c.col + c.cs /\ g[c].col = c.col /\ g[c].cs = c.cs - 1
        BY <3>2, <3>a, <3>b, <4>2
      <4>3. CASE c.col + c.cs <= k /\ g[c].col = c.col /\ g[c].cs = c.cs
        BY <3>2, <3>a, <3>b, <4>3
      <4> QED
        BY <1>3, <4>1, <4>2, <4>3
    <3>4. fr[i] = i /\ g[c].row = c.row /\ g[c].rs = c.rs
      BY <1>3, <1>8
    <3> QED
      BY <3>3, <3>4 DEF In
  <2>2. ASSUME NEW c \in t.cells \ kept, NEW i \in 0 .. t.rows - 1, NEW j \in 0 .. K - 1
        PROVE  ~In(c, fr[i], fc[j])
    <3>1. c.col = k /\ c.cs = 1
      BY <1>5
    <3> QED
      BY <1>8, <3>1 DEF In
  <2>3. ASSUME NEW d \in cells PROVE d.row + d.rs <= t.rows /\ d.col + d.cs <= K
    <3>1. PICK c \in kept : d = g[c]
      BY <1>4 DEF Moved
    <3>2. c \in Cell /\ c.row + c.rs <= t.rows /\ c.col + c.cs <= t.cols
      BY <1>1, <1>5, Places
    <3>3. c.col \in Nat /\ c.cs \in Nat
      BY <3>2, CellTypes
    <3> QED
      BY <1>2, <1>3, <3>1, <3>2, <3>3
  <2>4. Inside(t.rows, K, cells)
    BY <2>3 DEF Inside
  <2>5. g \in [kept -> Cell] /\ ImageOf(cells, g, kept)
    BY <1>4 DEF Moved, ImageOf
  <2>6. Renumbered(t.rows, K, t.cells, kept, g, fr, fc)
    BY <2>1, <2>2 DEF Renumbered
  <2> HIDE DEF K
  <2> QED
    BY <1>1, <1>2, <1>5, <1>8, <2>4, <2>5, <2>6, Renumber
<1>10. cells \in SUBSET Cell /\ IsFiniteSet(cells)
  <2>1. cells \in SUBSET Cell
    BY <1>4 DEF Moved
  <2> HIDE DEF K
  <2> QED
    BY <1>2, <1>9, <2>1, CellsFinite
<1> HIDE DEF t1
<1>11. Recounted(t2, t.rows, K, cells) /\ t2.rows = t.rows /\ t2.cols = K /\ t2.cells = cells
  <2> HIDE DEF K
  <2> QED
    BY <1>6, RecountIs
<1> HIDE DEF t2
<1>12. Tidy(t2)
  <2> HIDE DEF K
  <2> QED
    BY <1>1, <1>2, <1>9, <1>10, <1>11, RecountedTable
<1>13. /\ Grid(t2)
       /\ t2 = [rows |-> t2.rows, cols |-> t2.cols, cells |-> t2.cells, counts |-> t2.counts]
       /\ t2.counts = Recount(t2)
  BY <1>12, TidyGrid DEF Tidy, Valid
<1>14. fw \in [0 .. K - 1 -> Int]
  BY <1>1, WithoutType
<1> HIDE DEF fw
<1>15. /\ u = [rows |-> u.rows, cols |-> u.cols, cells |-> u.cells, counts |-> u.counts]
       /\ u.rows = t2.rows /\ u.cols = t2.cols /\ u.counts = t2.counts
       /\ \E h : Moved(u.cells, h, t2.cells) /\ \A c \in t2.cells : SamePlace(h[c], c)
  <2>1. t2.cells \in SUBSET Cell /\ K \in Nat
    BY <1>2, <1>10, <1>11
  <2>2. \A c \in t2.cells : c.col + c.cs <= K
    BY <1>9, <1>11 DEF Tiling, Inside
  <2> HIDE DEF K
  <2> QED
    BY <2>1, <2>2, <1>7, <1>13, <1>14, ResizedCells
<1>16. PICK h : Moved(u.cells, h, cells) /\ \A c \in cells : SamePlace(h[c], c)
  BY <1>11, <1>15
<1>17. /\ Tiling(t.rows, K, u.cells)
       /\ \A r \in Nat : Anchors(u.cells, r) = Anchors(cells, r)
  <2>1. cells \in SUBSET Cell /\ t.rows \in Nat /\ K \in Nat
    BY <1>2, <1>10
  <2>2. Moved(u.cells, h, cells) /\ \A c \in cells : SamePlace(h[c], c)
    BY <1>16
  <2>3. Tiling(t.rows, K, cells)
    BY <1>9
  <2> HIDE DEF K, only, shrink
  <2>4. /\ Tiling(t.rows, K, cells) => Tiling(t.rows, K, u.cells)
        /\ \A r \in Nat : Anchors(u.cells, r) = Anchors(cells, r)
    BY <2>1, <2>2, Rewidth
  <2> QED
    BY <2>3, <2>4
<1>18. u.cells \in SUBSET Cell
  BY <1>16 DEF Moved
<1>19. u.rows = t.rows /\ u.cols = K /\ Rows(u) = Rows(t2)
  BY <1>11, <1>15 DEF Rows
<1>20. Grid(u)
  <2> HIDE DEF K
  <2> QED
    BY <1>2, <1>17, <1>18, <1>19 DEF Grid
<1>21. u.counts = Recount(u)
  <2>1. \A r \in Rows(t2) : Anchors(t2.cells, r) = Anchors(u.cells, r)
    BY <1>11, <1>17 DEF Rows
  <2>2. Recount(t2) = Recount(u)
    BY <1>13, <1>19, <1>20, <2>1, SameCounts
  <2> QED
    BY <1>13, <1>15, <2>2
<1>22. Tidy(u)
  <2>1. IsFiniteSet(u.cells)
    BY <1>20, CellsFinite DEF Grid
  <2>2. Recounted(u, t.rows, K, u.cells)
    BY <1>15, <1>19, <1>21 DEF Recounted
  <2> HIDE DEF K
  <2> QED
    BY <1>1, <1>2, <1>17, <1>18, <2>1, <2>2, RecountedTable
<1>23. ASSUME IdsDiffer(t.cells) PROVE IdsDiffer(u.cells)
  <2>1. IdsDiffer(cells)
    BY <1>1, <1>4, <1>5, <1>23, IdsMoved
  <2>2. cells \in SUBSET cells
    OBVIOUS
  <2> QED
    BY <1>10, <1>16, <2>1, <2>2, IdsMoved
<1>24. ASSUME NEW c \in t.cells, ~(c.cs = 1 /\ c.col = k)
       PROVE  TextIds({c}) \subseteq TextIds(u.cells)
  <2>1. c \in kept
    BY <1>5, <1>24
  <2>2. g[c] \in cells /\ g[c].paras = c.paras
    BY <1>4, <2>1 DEF Moved
  <2>3. h[g[c]] \in u.cells /\ h[g[c]].paras = c.paras
    BY <1>16, <2>2 DEF Moved
  <2>4. ASSUME NEW p \in ParasIn({c}), HasText(p) PROVE p \in ParasIn(u.cells)
    BY <2>3 DEF ParasIn
  <2> QED
    BY <2>4, TextKept
<1> QED
  BY <1>19, <1>22, <1>23, <1>24

-----------------------------------------------------------------------------
(* The width of a row, which a column edit keeps.                          *)

\* f gives every subset of S the sum of its cells' widths.
WidthsOf(f, S) ==
  f = [s \in SUBSET S |-> IF s = {} THEN 0 ELSE Chosen(s).w + f[s \ {Chosen(s)}]]

RowCellsOf(t, r) == {c \in t.cells : r \in RowsOf(c)}

\* A row's width is a total, over the cells that have a position in the row.
LEMMA RowWidthIs ==
  ASSUME NEW t, NEW r, IsFiniteSet(t.cells), \A c \in t.cells : c.w \in Int
  PROVE  LET S == RowCellsOf(t, r)
         IN  RowWidth(t, r) = Total([c \in S |-> c.w], S)
<1> DEFINE S == RowCellsOf(t, r)
           v == [c \in S |-> c.w]
           F == CHOOSE f : WidthsOf(f, S)
           H == CHOOSE f : SumsOf(f, v, S)
<1>1. RowWidth(t, r) = F[S]
  BY DEF RowWidth, MapThenSumSet, MapThenFoldSet, WidthsOf, Chosen, RowCellsOf
<1>2. IsFiniteSet(S) /\ \A c \in S : c.w \in Int
  BY FS_Subset DEF RowCellsOf
<1> HIDE DEF S
<1>3. \A c \in S : v[c] \in Int
  BY <1>2
<1>4. \A f : WidthsOf(f, S) <=> SumsOf(f, v, S)
  <2>1. \A s \in SUBSET S : s # {} => v[Chosen(s)] = Chosen(s).w
    BY DEF Chosen
  <2> TAKE f
  <2>2. \A s \in SUBSET S : (IF s = {} THEN 0 ELSE Chosen(s).w + f[s \ {Chosen(s)}])
                            = (IF s = {} THEN 0 ELSE v[Chosen(s)] + f[s \ {Chosen(s)}])
    BY <2>1
  <2> HIDE DEF v
  <2> QED
    BY <2>2 DEF WidthsOf, SumsOf
<1>5. Total(v, S) = H[S]
  BY TotalIsSum
<1>6. \E f : SumsOf(f, v, S)
  <2> HIDE DEF v
  <2> QED
    BY <1>2, <1>3, SumsExist
<1>7. SumsOf(F, v, S) /\ SumsOf(H, v, S)
  BY <1>4, <1>6
<1> HIDE DEF F, H, v
<1>8. F[S] = H[S]
  BY <1>2, <1>7, SumsAgree
<1> QED
  BY <1>1, <1>5, <1>8 DEF v, S

\* A row whose cells are as wide as their columns is as wide as all columns.
LEMMA RowSum ==
  ASSUME NEW t, Grid(t), IsFiniteSet(t.cells), NEW r \in 0 .. t.rows - 1,
         NEW w, \A k \in 0 .. t.cols - 1 : w[k] \in Int,
         \A c \in RowCellsOf(t, r) : c.w = Total(w, ColsOf(c))
  PROVE  RowWidth(t, r) = Total(w, 0 .. t.cols - 1)
<1> DEFINE S == RowCellsOf(t, r)
           v == [c \in S |-> c.w]
           part == [c \in S |-> ColsOf(c)]
<1>1. t.rows \in Nat /\ t.cols \in Nat /\ t.cells \in SUBSET Cell /\ r \in Nat
      /\ Inside(t.rows, t.cols, t.cells) /\ Full(t.rows, t.cols, t.cells) /\ Apart(t.cells)
  BY DEF Grid, Tiling
<1>2. \A c \in S : c \in t.cells /\ c \in Cell /\ r \in RowsOf(c)
  BY <1>1 DEF RowCellsOf
<1>3. \A c \in S : \A k \in ColsOf(c) : k \in Int /\ In(c, r, k)
  <2> SUFFICES ASSUME NEW c \in S, NEW k \in ColsOf(c) PROVE k \in Int /\ In(c, r, k)
    OBVIOUS
  <2>1. c \in Cell /\ Covers(c, r, k) /\ k \in Int
    BY <1>2, CellTypes DEF Covers, ColsOf
  <2> QED
    BY <1>1, <2>1, CoversIn
<1>4. \A c \in S : \A k \in ColsOf(c) : k \in 0 .. t.cols - 1
  <2> SUFFICES ASSUME NEW c \in S, NEW k \in ColsOf(c) PROVE k \in 0 .. t.cols - 1
    OBVIOUS
  <2>1. c \in Cell /\ In(c, r, k) /\ k \in Int /\ c.col + c.cs <= t.cols
    BY <1>1, <1>2, <1>3 DEF Inside
  <2>2. c.col \in Nat /\ c.cs \in Nat
    BY <2>1, CellTypes
  <2> QED
    BY <1>1, <2>1, <2>2 DEF In
<1>5. \A k \in 0 .. t.cols - 1 : \E c \in S : k \in ColsOf(c)
  <2> SUFFICES ASSUME NEW k \in 0 .. t.cols - 1 PROVE \E c \in S : k \in ColsOf(c)
    OBVIOUS
  <2>1. PICK c \in t.cells : In(c, r, k)
    BY <1>1 DEF Full
  <2>2. c \in Cell /\ k \in Int
    BY <1>1
  <2>3. Covers(c, r, k)
    BY <1>1, <2>1, <2>2, CoversIn
  <2> QED
    BY <2>3 DEF Covers, RowCellsOf
<1>6. \A c, d \in S : c # d => ColsOf(c) \cap ColsOf(d) = {}
  <2> SUFFICES ASSUME NEW c \in S, NEW d \in S, NEW k \in ColsOf(c), k \in ColsOf(d) PROVE c = d
    OBVIOUS
  <2>1. In(c, r, k) /\ In(d, r, k) /\ k \in Nat
    BY <1>3, <1>4
  <2> QED
    BY <1>1, <1>2, <2>1 DEF Apart
<1>7. \A c \in S : IsFiniteSet(ColsOf(c))
  <2> SUFFICES ASSUME NEW c \in S PROVE IsFiniteSet(ColsOf(c))
    OBVIOUS
  <2>1. c.col \in Int /\ c.col + c.cs - 1 \in Int
    BY <1>2, CellTypes
  <2> QED
    BY <2>1, FS_Interval DEF ColsOf
<1>8. IsFiniteSet(S)
  BY FS_Subset DEF RowCellsOf
<1>9. RowWidth(t, r) = Total(v, S)
  <2>1. \A c \in t.cells : c.w \in Int
    BY <1>1, CellTypes
  <2> QED
    BY <2>1, RowWidthIs
<1>10. \A c \in S : part[c] = ColsOf(c) /\ v[c] = c.w
  OBVIOUS
<1>11. Whole(S, part) = 0 .. t.cols - 1
  <2> HIDE DEF S, part
  <2> QED
    BY <1>4, <1>5, <1>10 DEF Whole
<1>12. \A c \in S : c.w = Total(w, ColsOf(c))
  OBVIOUS
<1> HIDE DEF S, part, v
<1>13. \A c \in S : /\ IsFiniteSet(part[c]) /\ v[c] = Total(w, part[c])
                    /\ \A j \in part[c] : w[j] \in Int
  BY <1>4, <1>7, <1>10, <1>12
<1>14. \A c, d \in S : c # d => part[c] \cap part[d] = {}
  BY <1>6, <1>10
<1>15. Parts(w, S, part, v)
  BY <1>13, <1>14 DEF Parts
<1>16. Total(v, S) = Total(w, Whole(S, part))
  BY <1>8, <1>15, TotalOfParts
<1> QED
  BY <1>9, <1>11, <1>16

\* n widths with count more of width x before the one at the position at.
Spliced(s, n, at, count, x) ==
  [k \in 0 .. n + count - 1 |->
     IF k < at THEN s[k] ELSE IF k < at + count THEN x ELSE s[k - count]]

\* Their total is that of the n and count times x.
LEMMA SplicedTotal ==
  ASSUME NEW n \in Nat, NEW s \in [0 .. n - 1 -> Int], NEW at \in Nat, at <= n,
         NEW count \in Nat, NEW x \in Int
  PROVE  Total(Spliced(s, n, at, count, x), 0 .. n + count - 1) = Total(s, 0 .. n - 1) + count * x
<1> DEFINE f == Spliced(s, n, at, count, x)
           A == 0 .. at - 1
           B == at .. at + count - 1
           C == at + count .. n + count - 1
           D == at .. n - 1
           part == [k \in C |-> {k - count}]
<1>1. /\ IsFiniteSet(A) /\ IsFiniteSet(B) /\ IsFiniteSet(C) /\ IsFiniteSet(D)
      /\ Cardinality(B) = count
  <2>1. /\ IsFiniteSet(B)
        /\ Cardinality(B) = IF at > at + count - 1 THEN 0 ELSE (at + count - 1) - at + 1
    BY FS_Interval
  <2>2. IsFiniteSet(A) /\ IsFiniteSet(C) /\ IsFiniteSet(D)
    BY FS_Interval
  <2> QED
    BY <2>1, <2>2
<1>2. /\ \A k \in A : f[k] = s[k] /\ s[k] \in Int
      /\ \A k \in B : f[k] = x
      /\ \A k \in C : f[k] = s[k - count] /\ s[k - count] \in Int
      /\ \A k \in D : s[k] \in Int
  <2>1. \A k \in A : k \in 0 .. n + count - 1 /\ k \in 0 .. n - 1 /\ k < at
    OBVIOUS
  <2>2. \A k \in B : k \in 0 .. n + count - 1 /\ ~(k < at) /\ k < at + count
    OBVIOUS
  <2>3. \A k \in C : /\ k \in 0 .. n + count - 1 /\ ~(k < at) /\ ~(k < at + count)
                     /\ k - count \in 0 .. n - 1
    OBVIOUS
  <2>4. \A k \in D : k \in 0 .. n - 1
    OBVIOUS
  <2> HIDE DEF A, B, C, D
  <2> QED
    BY <2>1, <2>2, <2>3, <2>4 DEF Spliced
<1>3. 0 .. n + count - 1 = A \cup (B \cup C) /\ A \cap (B \cup C) = {} /\ B \cap C = {}
  OBVIOUS
<1>4. 0 .. n - 1 = A \cup D /\ A \cap D = {}
  OBVIOUS
<1>5. UNION {{k - count} : k \in C} = D /\ \A k \in C : k \in Int
  <2>1. \A k \in D : k + count \in C /\ k = (k + count) - count
    OBVIOUS
  <2>2. \A k \in C : k - count \in D /\ k \in Int
    OBVIOUS
  <2> HIDE DEF C, D
  <2> QED
    BY <2>1, <2>2
<1>6. \A k \in C : part[k] = {k - count}
  OBVIOUS
<1> HIDE DEF f, A, B, C, D, part
<1>7. Total(f, A) = Total(s, A)
  BY <1>1, <1>2, TotalSame
<1>8. Total(f, B) = count * x
  BY <1>1, <1>2, TotalEqual
<1>9. Total(f, C) = Total(s, D)
  <2>1. \A k \in C : Total(s, {k - count}) = s[k - count]
    <3> SUFFICES ASSUME NEW k \in C PROVE Total(s, {k - count}) = s[k - count]
      OBVIOUS
    <3> DEFINE j == k - count
    <3>1. s[j] \in Int
      BY <1>2
    <3> HIDE DEF j
    <3>2. IsFiniteSet({j}) /\ {j} \ {j} = {}
      BY FS_Singleton
    <3>3. Total(s, {}) = 0
      BY TotalStep, FS_EmptySet
    <3>4. \A i \in {j} : s[i] \in Int
      BY <3>1
    <3>5. \A i \in {j} : Total(s, {j}) = s[i] + Total(s, {j} \ {i})
      BY <3>2, <3>4, TotalOut
    <3>6. Total(s, {j}) = s[j] + Total(s, {j} \ {j})
      BY <3>5
    <3>7. Total(s, {j}) = s[j] + 0
      BY <3>2, <3>3, <3>6
    <3>8. Total(s, {j}) = s[j]
      BY <3>1, <3>7
    <3> QED
      BY <3>8 DEF j
  <2>2. \A k \in C : IsFiniteSet({k - count})
    BY FS_Singleton
  <2>3. \A k \in C : /\ IsFiniteSet(part[k]) /\ f[k] = Total(s, part[k])
                     /\ \A j \in part[k] : s[j] \in Int
    BY <1>2, <1>6, <2>1, <2>2
  <2>4. \A k, l \in C : k # l => part[k] \cap part[l] = {}
    BY <1>5, <1>6
  <2>5. Parts(s, C, part, f)
    BY <2>3, <2>4 DEF Parts
  <2>7. Total(f, C) = Total(s, Whole(C, part))
    BY <1>1, <2>5, TotalOfParts
  <2>6. Whole(C, part) = D
    BY <1>5, <1>6 DEF Whole
  <2> QED
    BY <2>6, <2>7
<1>10. IsFiniteSet(B \cup C) /\ \A k \in B \cup C : f[k] \in Int
  BY <1>1, <1>2, FS_Union
<1>11. Total(f, B \cup C) = Total(f, B) + Total(f, C)
  BY <1>1, <1>3, <1>10, TotalBoth
<1>12. Total(f, A \cup (B \cup C)) = Total(f, A) + Total(f, B \cup C)
  BY <1>1, <1>2, <1>3, <1>10, TotalBoth
<1>13. Total(s, A \cup D) = Total(s, A) + Total(s, D)
  BY <1>1, <1>2, <1>4, TotalBoth
<1>14. Total(s, A) \in Int /\ Total(s, D) \in Int /\ count * x \in Int
  BY <1>1, <1>2, TotalOut
<1>15. Total(f, A \cup (B \cup C)) = Total(s, A \cup D) + count * x
  BY <1>7, <1>8, <1>9, <1>11, <1>12, <1>13, <1>14
<1> QED
  BY <1>3, <1>4, <1>15 DEF f

\* Scaled widths make the target, to the unit.
LEMMA ScaledTotal ==
  ASSUME NEW n \in Nat, n >= 1, NEW w, Widths(w, n), NEW target \in Int
  PROVE  Total(Scale(w, n, target), 0 .. n - 1) = target
<1> DEFINE s == [j \in 0 .. n - 1 |-> (w[j] * target) \div Total(w, 0 .. n - 1)]
           S == 0 .. n - 1
           T == 0 .. n - 2
           z == Scale(w, n, target)
<1>1. z = [s EXCEPT ![n - 1] = target - Total(s, T)]
  BY DEF Scale
<1>2. z \in [S -> Int]
  BY ScaleType
<1>3. \A j \in T : j \in S /\ j # n - 1
  OBVIOUS
<1>4. n - 1 \in S /\ S \ {n - 1} = T /\ IsFiniteSet(S) /\ IsFiniteSet(T)
  <2>1. n - 1 \in S /\ S \ {n - 1} = T
    OBVIOUS
  <2>2. n - 1 \in Int /\ n - 2 \in Int /\ 0 \in Int
    OBVIOUS
  <2>3. IsFiniteSet(S) /\ IsFiniteSet(T)
    BY <2>2, FS_Interval
  <2> QED
    BY <2>1, <2>3
<1>5. DOMAIN s = S
  OBVIOUS
<1> HIDE DEF s, S, T, z
<1>6. z[n - 1] = target - Total(s, T) /\ \A j \in T : z[j] = s[j]
  BY <1>1, <1>3, <1>4, <1>5
<1>7. \A j \in T : z[j] \in Int /\ s[j] = z[j]
  BY <1>2, <1>3, <1>6
<1>8. Total(s, T) = Total(z, T)
  BY <1>4, <1>7, TotalSame
<1>9. Total(z, T) \in Int
  BY <1>4, <1>7, TotalOut
<1>10. \A j \in S : z[j] \in Int
  BY <1>2
<1>11. Total(z, S) = z[n - 1] + Total(z, T)
  BY <1>4, <1>10, TotalOut
<1>12. Total(z, S) = target
  BY <1>6, <1>8, <1>9, <1>11
<1> QED
  BY <1>12 DEF z, S

\* The cells u are cells resized to the widths w of their columns.
SizedBy(cells, u, w) ==
  u = {[c EXCEPT !.w = Atleast(1, Total(w, ColsOf(c)))] : c \in cells}

\* Cells that were resized to their columns make up the columns' width.
LEMMA ResizedRow ==
  ASSUME NEW u, Grid(u), IsFiniteSet(u.cells), NEW w, Widths(w, u.cols),
         NEW cells, SizedBy(cells, u.cells, w),
         NEW r \in 0 .. u.rows - 1
  PROVE  RowWidth(u, r) = Total(w, 0 .. u.cols - 1)
<1>1. u.cells \in SUBSET Cell /\ u.cols \in Nat /\ Inside(u.rows, u.cols, u.cells)
  BY DEF Grid, Tiling
<1>2. \A k \in 0 .. u.cols - 1 : w[k] \in Nat /\ w[k] >= 1
  BY DEF Widths
<1>3. ASSUME NEW d \in u.cells PROVE d.w = Total(w, ColsOf(d))
  <2>1. PICK c \in cells : d = [c EXCEPT !.w = Atleast(1, Total(w, ColsOf(c)))]
    BY DEF SizedBy
  <2>2. d \in Cell /\ d.col + d.cs <= u.cols
    BY <1>1 DEF Inside
  <2>3. d.col = c.col /\ d.cs = c.cs /\ d.w = Atleast(1, Total(w, ColsOf(c)))
    BY <2>1, <2>2 DEF Cell
  <2>4. ColsOf(d) = ColsOf(c)
    BY <2>3 DEF ColsOf
  <2>5. d.col \in Nat /\ d.cs \in Nat /\ d.cs >= 1
    BY <2>2, CellTypes
  <2>6. IsFiniteSet(ColsOf(d)) /\ d.col \in ColsOf(d)
    <3>1. d.col \in Int /\ d.col + d.cs - 1 \in Int /\ d.col <= d.col + d.cs - 1
      BY <2>5
    <3>2. IsFiniteSet(d.col .. d.col + d.cs - 1)
      BY <3>1, FS_Interval
    <3> QED
      BY <3>1, <3>2 DEF ColsOf
  <2>7. \A k \in ColsOf(d) : k \in 0 .. u.cols - 1
    BY <1>1, <2>2, <2>5 DEF ColsOf
  <2>8. \A k \in ColsOf(d) : w[k] \in Nat
    BY <1>2, <2>7
  <2>9. Total(w, ColsOf(d)) \in Nat /\ w[d.col] <= Total(w, ColsOf(d))
    BY <2>6, <2>8, TotalNat
  <2>10. w[d.col] >= 1 /\ w[d.col] \in Nat
    BY <1>2, <2>6, <2>7
  <2>11. ~(Total(w, ColsOf(d)) < 1)
    BY <2>9, <2>10
  <2> QED
    BY <2>3, <2>4, <2>11 DEF Atleast
<1>4. \A c \in RowCellsOf(u, r) : c.w = Total(w, ColsOf(c))
  BY <1>3 DEF RowCellsOf
<1>5. \A k \in 0 .. u.cols - 1 : w[k] \in Int
  BY <1>2
<1> QED
  BY <1>4, <1>5, RowSum

\* The rows of an aligned table are as wide as its columns.
LEMMA AlignedRow ==
  ASSUME NEW t, Grid(t), IsFiniteSet(t.cells), BodyWidth \in Nat, Aligned(t),
         NEW r \in 0 .. t.rows - 1
  PROVE  RowWidth(t, r) = Total(ColumnWidths(t), 0 .. t.cols - 1)
<1> DEFINE w == ColumnWidths(t)
<1>1. w \in [0 .. t.cols - 1 -> Nat \ {0}]
  BY ColumnWidthsType
<1>2. \A c \in RowCellsOf(t, r) : c.w = Total(w, ColsOf(c))
  BY DEF Aligned, RowCellsOf
<1> HIDE DEF w
<1>3. \A k \in 0 .. t.cols - 1 : w[k] \in Int
  BY <1>1
<1>4. RowWidth(t, r) = Total(w, 0 .. t.cols - 1)
  BY <1>2, <1>3, RowSum
<1> QED
  BY <1>4 DEF w

\* Making room for count shares, and filling it, keeps the total.
LEMMA RoomTotal ==
  ASSUME NEW n \in Nat, n >= 1, NEW w, Widths(w, n), NEW at \in Nat, at <= n, NEW count \in Nat
  PROVE  Total(Spliced(MakeRoom(w, n, count), n, at, count, Share(w, n, count)), 0 .. n + count - 1)
           = Total(w, 0 .. n - 1)
<1> DEFINE s == MakeRoom(w, n, count)
           x == Share(w, n, count)
           all == Total(w, 0 .. n - 1)
<1>1. x \in Nat /\ s \in [0 .. n - 1 -> Int]
  BY RoomType
<1>2. all \in Nat
  BY WidthsTotal
<1>3. s = Scale(w, n, all - x * count)
  BY DEF MakeRoom
<1> HIDE DEF s, x, all
<1>4. all - x * count \in Int /\ x \in Int
  BY <1>1, <1>2
<1>5. Total(s, 0 .. n - 1) = all - x * count
  BY <1>3, <1>4, ScaledTotal
<1>6. Total(Spliced(s, n, at, count, x), 0 .. n + count - 1) = Total(s, 0 .. n - 1) + count * x
  <2>1. s \in [0 .. n - 1 -> Int] /\ x \in Int
    BY <1>1, <1>4
  <2> QED
    BY <2>1, SplicedTotal
<1>7. (all - x * count) + count * x = all
  BY <1>1, <1>2
<1> QED
  BY <1>5, <1>6, <1>7 DEF s, x, all

\* Inserting columns keeps the width of each row.
LEMMA InsertWidth ==
  ASSUME NEW t, Tidy(t), Aligned(t), BodyWidth \in Nat, NEW count \in Nat, NEW at \in Nat, at <= t.cols,
         \A k \in 0 .. t.cols + count - 1 : ~(FinalWidths(t, at, count)[k] < 1),
         NEW u, u = InsertedCols(t, at, count), Tidy(u), NEW r \in Rows(t)
  PROVE  RowWidth(u, r) = RowWidth(t, r)
<1> DEFINE n == t.cols
           w == ColumnWidths(t)
           f == FinalWidths(t, at, count)
<1>1. /\ Grid(t) /\ IsFiniteSet(t.cells) /\ Grid(u) /\ IsFiniteSet(u.cells)
      /\ t = [rows |-> t.rows, cols |-> t.cols, cells |-> t.cells, counts |-> t.counts]
  BY TidyGrid
<1>2. n \in Nat /\ n >= 1 /\ Widths(w, n)
  BY <1>1, ColumnWidthsType DEF Grid, Widths
<1>3. f = Spliced(MakeRoom(w, n, count), n, at, count, Share(w, n, count))
  BY DEF FinalWidths, Spliced
<1>4. f \in [0 .. n + count - 1 -> Int]
  BY <1>1, FinalType
<1>5. \E cells : SizedBy(cells, u.cells, f) /\ u.rows = t.rows /\ u.cols = n + count
  BY <1>1 DEF InsertedCols, Resized, SizedBy
<1>6. r \in 0 .. t.rows - 1
  BY DEF Rows
<1>7. \A k \in 0 .. n + count - 1 : ~(f[k] < 1)
  OBVIOUS
<1> HIDE DEF n, w, f
<1>8. Widths(f, n + count)
  <2>1. \A k \in 0 .. n + count - 1 : f[k] \in Nat \ {0}
    BY <1>4, <1>7
  <2>2. f \in [0 .. n + count - 1 -> Nat \ {0}]
    BY <1>4, <2>1
  <2>3. n + count - 1 = (n + count) - 1
    BY <1>2
  <2>4. f \in [0 .. (n + count) - 1 -> Nat \ {0}]
    BY <2>2, <2>3, Zenon
  <2> QED
    BY <2>4, Zenon DEF Widths
<1>9. PICK cells : SizedBy(cells, u.cells, f) /\ u.rows = t.rows /\ u.cols = n + count
  BY <1>5
<1>10. RowWidth(u, r) = Total(f, 0 .. u.cols - 1)
  <2>1. Widths(f, u.cols) /\ r \in 0 .. u.rows - 1
    BY <1>6, <1>8, <1>9
  <2> QED
    BY <1>1, <1>9, <2>1, ResizedRow
<1>11. Total(f, 0 .. n + count - 1) = Total(w, 0 .. n - 1)
  BY <1>2, <1>3, RoomTotal DEF n
<1>12. RowWidth(t, r) = Total(w, 0 .. n - 1)
  BY <1>1, <1>6, AlignedRow DEF w, n
<1> QED
  BY <1>2, <1>9, <1>10, <1>11, <1>12

\* A row of single cells is as wide as they are.
LEMMA SingleRow ==
  ASSUME NEW t, Grid(t), IsFiniteSet(t.cells), NEW r \in 0 .. t.rows - 1,
         NEW w, \A k \in 0 .. t.cols - 1 : w[k] \in Int,
         \A c \in t.cells : c.rs = 1 /\ c.cs = 1,
         \A c \in t.cells : c.row = r => c.w = w[c.col]
  PROVE  RowWidth(t, r) = Total(w, 0 .. t.cols - 1)
<1>1. ASSUME NEW c \in RowCellsOf(t, r) PROVE c.w = Total(w, ColsOf(c))
  <2>1. /\ c \in t.cells /\ c \in Cell /\ r \in RowsOf(c)
        /\ c.rs = 1 /\ c.cs = 1 /\ c.col \in 0 .. t.cols - 1
    BY Places DEF RowCellsOf
  <2>2. c.row \in Nat /\ c.col \in Nat
    BY <2>1, CellTypes
  <2>3. c.row = r
    BY <2>1, <2>2 DEF RowsOf
  <2> DEFINE j == c.col
  <2>4. ColsOf(c) = {j}
    BY <2>1, <2>2 DEF ColsOf
  <2>5. w[j] \in Int /\ c.w = w[j]
    BY <2>1, <2>3
  <2> HIDE DEF j
  <2>6. IsFiniteSet({j}) /\ {j} \ {j} = {}
    BY FS_Singleton
  <2>7. Total(w, {}) = 0
    BY TotalStep, FS_EmptySet
  <2>8. Total(w, {j}) = w[j] + Total(w, {j} \ {j})
    BY <2>5, <2>6, TotalOut
  <2>9. Total(w, {j}) = w[j]
    <3>1. Total(w, {j} \ {j}) = 0
      BY <2>6, <2>7
    <3>2. \A n \in Int : n + 0 = n
      OBVIOUS
    <3> QED
      BY <2>5, <2>8, <3>1, <3>2
  <2> QED
    BY <2>4, <2>5, <2>9
<1> QED
  BY <1>1, RowSum

\* Appending columns to a table without merges keeps the width of each row.
LEMMA AppendWidth ==
  ASSUME NEW t, Tidy(t), ~HasMerge(t), NEW count \in Nat,
         NEW u, u = AppendedCols(t, count), Tidy(u), NEW r \in Rows(t)
  PROVE  RowWidth(u, r) = RowWidth(t, r)
<1> DEFINE n == t.cols
           w == RowWidths(t, r)
           f == Spliced(MakeRoom(w, n, count), n, n, count, Share(w, n, count))
<1>1. /\ Grid(t) /\ IsFiniteSet(t.cells) /\ Grid(u) /\ IsFiniteSet(u.cells)
  BY TidyGrid
<1>2. /\ n \in Nat /\ n >= 1 /\ Widths(w, n) /\ r \in 0 .. t.rows - 1
      /\ \A c \in t.cells : c \in Cell /\ c.rs = 1 /\ c.cs = 1 /\ c.col \in 0 .. n - 1
                            /\ In(c, c.row, c.col) /\ c.row \in 0 .. t.rows - 1
  BY <1>1, OwnerFacts, Places, NoMerge DEF Grid, Widths, RowWidths, Rows, Cols
<1>3. \A c \in t.cells : c.row = r => c.w = w[c.col]
  BY <1>1, <1>2, OwnerFacts DEF RowWidths, Cols
<1>4. RowWidth(t, r) = Total(w, 0 .. n - 1)
  <2>1. \A k \in 0 .. n - 1 : w[k] \in Int
    BY <1>2 DEF Widths
  <2> HIDE DEF w
  <2> QED
    BY <1>1, <1>2, <1>3, <2>1, SingleRow
<1>5. u.rows = t.rows /\ u.cols = n + count
  BY DEF AppendedCols
<1>6. \A d \in u.cells :
        \/ \E c \in t.cells : d = [c EXCEPT !.w = MakeRoom(RowWidths(t, c.row), n, count)[c.col]]
        \/ \E x \in Rows(t) \X (n .. n + count - 1) : \E z :
             d = BlankCell(x[1], x[2], Share(RowWidths(t, x[1]), n, count), z)
  <2> DEFINE B == Rows(t) \X (n .. n + count - 1)
             width == [x \in B |-> Share(RowWidths(t, x[1]), n, count)]
             sized(c) == [c EXCEPT !.w = MakeRoom(RowWidths(t, c.row), n, count)[c.col]]
             made(x) == BlankCell(x[1], x[2], width[x], FreshId(t, B, x))
  <2>1. u.cells = {sized(c) : c \in t.cells} \cup NewCells(t, width)
    BY DEF AppendedCols
  <2>2. NewCells(t, width) = {made(x) : x \in B}
    BY DEF NewCells
  <2>3. \A x \in B : \E z : made(x) = BlankCell(x[1], x[2], Share(RowWidths(t, x[1]), n, count), z)
    OBVIOUS
  <2> SUFFICES ASSUME NEW d \in u.cells
               PROVE  \/ \E c \in t.cells : d = sized(c)
                      \/ \E x \in B : \E z :
                           d = BlankCell(x[1], x[2], Share(RowWidths(t, x[1]), n, count), z)
    OBVIOUS
  <2>4. (\E c \in t.cells : d = sized(c)) \/ (\E x \in B : d = made(x))
    <3> HIDE DEF sized, made, B, width
    <3> QED
      BY <2>1, <2>2
  <2>5. CASE \E c \in t.cells : d = sized(c)
    BY <2>5
  <2>6. CASE \E x \in B : d = made(x)
    <3>1. PICK x \in B : d = made(x)
      BY <2>6
    <3>2. PICK z : made(x) = BlankCell(x[1], x[2], Share(RowWidths(t, x[1]), n, count), z)
      BY <2>3
    <3>3. d = BlankCell(x[1], x[2], Share(RowWidths(t, x[1]), n, count), z)
      BY <3>1, <3>2
    <3> HIDE DEF sized, made, width, B
    <3> QED
      BY <3>3
  <2> QED
    BY <2>4, <2>5, <2>6
<1>7. Share(w, n, count) \in Nat /\ MakeRoom(w, n, count) \in [0 .. n - 1 -> Int]
  BY <1>2, RoomType
<1>8. \A k \in 0 .. n + count - 1 : f[k] = IF k < n THEN MakeRoom(w, n, count)[k] ELSE Share(w, n, count)
  BY <1>2 DEF Spliced
<1>9. ASSUME NEW d \in u.cells
      PROVE  d.rs = 1 /\ d.cs = 1 /\ (d.row = r => d.w = f[d.col])
  <2>1. CASE \E c \in t.cells : d = [c EXCEPT !.w = MakeRoom(RowWidths(t, c.row), n, count)[c.col]]
    <3>1. PICK c \in t.cells : d = [c EXCEPT !.w = MakeRoom(RowWidths(t, c.row), n, count)[c.col]]
      BY <2>1
    <3>2. c \in Cell /\ c.rs = 1 /\ c.cs = 1 /\ c.col \in 0 .. n - 1
      BY <1>2
    <3>3. d.row = c.row /\ d.col = c.col /\ d.rs = 1 /\ d.cs = 1
          /\ d.w = MakeRoom(RowWidths(t, c.row), n, count)[c.col]
      BY <3>1, <3>2 DEF Cell
    <3>4. c.col \in 0 .. n + count - 1 /\ c.col < n
      BY <1>2, <3>2
    <3> QED
      BY <1>8, <3>3, <3>4
  <2>2. CASE \E x \in Rows(t) \X (n .. n + count - 1) : \E z :
               d = BlankCell(x[1], x[2], Share(RowWidths(t, x[1]), n, count), z)
    <3>1. PICK x \in Rows(t) \X (n .. n + count - 1) : \E z :
             d = BlankCell(x[1], x[2], Share(RowWidths(t, x[1]), n, count), z)
      BY <2>2
    <3>2. d.row = x[1] /\ d.col = x[2] /\ d.rs = 1 /\ d.cs = 1
          /\ d.w = Share(RowWidths(t, x[1]), n, count) /\ x[2] \in n .. n + count - 1
      BY <3>1 DEF BlankCell
    <3>3. x[2] \in 0 .. n + count - 1 /\ ~(x[2] < n)
      BY <1>2, <3>2
    <3> QED
      BY <1>8, <3>2, <3>3
  <2> QED
    BY <1>6, <2>1, <2>2
<1>10. \A k \in 0 .. n + count - 1 : f[k] \in Int
  <2> HIDE DEF f, w, n
  <2> SUFFICES ASSUME NEW k \in 0 .. n + count - 1 PROVE f[k] \in Int
    OBVIOUS
  <2>1. f[k] = IF k < n THEN MakeRoom(w, n, count)[k] ELSE Share(w, n, count)
    BY <1>8
  <2>2. CASE k < n
    <3>1. k \in 0 .. n - 1
      BY <1>2, <2>2
    <3> QED
      BY <1>7, <2>1, <2>2, <3>1
  <2>3. CASE ~(k < n)
    BY <1>7, <2>1, <2>3
  <2> QED
    BY <2>2, <2>3
<1>11. Total(f, 0 .. n + count - 1) = Total(w, 0 .. n - 1)
  <2> HIDE DEF w, n
  <2>1. n <= n
    BY <1>2
  <2> QED
    BY <1>2, <2>1, RoomTotal
<1> HIDE DEF f, w
<1>12. RowWidth(u, r) = Total(f, 0 .. u.cols - 1)
  <2>1. r \in 0 .. u.rows - 1
    BY <1>2, <1>5
  <2>2. \A k \in 0 .. u.cols - 1 : f[k] \in Int
    BY <1>2, <1>5, <1>10
  <2>3. \A c \in u.cells : c.rs = 1 /\ c.cs = 1
    BY <1>9
  <2>4. \A c \in u.cells : c.row = r => c.w = f[c.col]
    BY <1>9
  <2> QED
    BY <1>1, <2>1, <2>2, <2>3, <2>4, SingleRow
<1> QED
  BY <1>2, <1>4, <1>5, <1>11, <1>12

\* Widths scaled up stay at least what they were.
LEMMA ScaledUp ==
  ASSUME NEW n \in Nat, n >= 1, NEW w, Widths(w, n), NEW target \in Nat,
         target >= Total(w, 0 .. n - 1)
  PROVE  Widths(Scale(w, n, target), n)
<1> DEFINE S == 0 .. n - 1
           T == 0 .. n - 2
           all == Total(w, S)
           s == [j \in S |-> (w[j] * target) \div all]
           z == Scale(w, n, target)
           last == w[n - 1]
<1>1. all \in Nat /\ all >= 1
  BY WidthsTotal
<1>2. IsFiniteSet(S) /\ IsFiniteSet(T) /\ n - 1 \in S /\ T = S \ {n - 1} /\ T \subseteq S
  <2>1. n - 1 \in Int /\ n - 2 \in Int /\ 0 \in Int
    OBVIOUS
  <2>2. IsFiniteSet(S) /\ IsFiniteSet(T)
    BY <2>1, FS_Interval
  <2>3. n - 1 \in S /\ T = S \ {n - 1} /\ T \subseteq S
    OBVIOUS
  <2> QED
    BY <2>2, <2>3
<1>3. \A j \in S : w[j] \in Nat /\ w[j] >= 1
  BY DEF Widths
<1>4. z = [s EXCEPT ![n - 1] = target - Total(s, T)]
  BY DEF Scale
<1>5. z \in [S -> Int]
  BY ScaleType
<1>6. target \in Nat /\ target >= all
  OBVIOUS
<1>7. \A j \in S : s[j] = (w[j] * target) \div all
  OBVIOUS
<1>8. DOMAIN s = S
  OBVIOUS
<1> HIDE DEF S, T, all, s, z
<1>9. ASSUME NEW j \in S
      PROVE  s[j] \in Nat /\ s[j] >= w[j] /\ s[j] * all <= w[j] * target
  <2> DEFINE a == w[j] * target
             q == a \div all
  <2>1. a \in Nat /\ w[j] \in Nat
    BY <1>3, <1>6
  <2>2. a >= w[j] * all
    BY <1>1, <1>6, <2>1
  <2> HIDE DEF a
  <2>3. q \in Int /\ q * all <= a /\ a < (q + 1) * all
    BY <1>1, <2>1
  <2>4. q >= w[j]
    <3> SUFFICES ASSUME q < w[j] PROVE FALSE
      BY <2>1, <2>3
    <3> HIDE DEF q
    <3>1. q + 1 <= w[j] /\ q + 1 \in Int
      BY <2>1, <2>3
    <3>2. (q + 1) * all <= w[j] * all
      BY <1>1, <2>1, <3>1
    <3> QED
      BY <1>1, <2>1, <2>2, <2>3, <3>2
  <2>5. s[j] = q
    BY <1>7 DEF a
  <2> HIDE DEF q
  <2> QED
    BY <1>3, <2>1, <2>3, <2>4, <2>5 DEF a
<1>10. Total(s, T) * all <= Total(w, T) * target
  <2> DEFINE G == {U \in SUBSET T : Total(s, U) * all <= Total(w, U) * target}
  <2>1. ASSUME NEW U \in SUBSET T, \A V \in SUBSET U : V # U => V \in G
        PROVE  U \in G
    <3>1. IsFiniteSet(U) /\ \A j \in U : s[j] \in Int /\ w[j] \in Int
      BY <1>2, <1>3, <1>9, FS_Subset
    <3>2. CASE U = {}
      <4>1. Total(s, {}) = 0 /\ Total(w, {}) = 0
        BY TotalStep, FS_EmptySet
      <4> QED
        BY <1>1, <1>6, <3>2, <4>1
    <3>3. CASE U # {}
      <4>1. PICK y \in U : TRUE
        BY <3>3
      <4> DEFINE V == U \ {y}
                 ts == Total(s, V)
                 tw == Total(w, V)
      <4>2. Total(s, U) = s[y] + ts /\ Total(w, U) = w[y] + tw
        BY <3>1, TotalOut
      <4>3. ts * all <= tw * target
        BY <2>1
      <4>4. ts \in Int /\ tw \in Int
        <5>1. IsFiniteSet(V)
          BY <3>1, FS_Subset
        <5> QED
          BY <3>1, <5>1, TotalOut
      <4>5. y \in S /\ s[y] \in Nat /\ w[y] \in Nat /\ s[y] * all <= w[y] * target
        BY <1>2, <1>3, <1>9
      <4> HIDE DEF ts, tw
      <4>6. /\ (s[y] + ts) * all = s[y] * all + ts * all
            /\ (w[y] + tw) * target = w[y] * target + tw * target
        BY <1>1, <1>6, <4>4, <4>5
      <4>7. (s[y] + ts) * all <= (w[y] + tw) * target
        <5> DEFINE a == s[y] * all
                   b == ts * all
                   c == w[y] * target
                   d == tw * target
        <5>1. a \in Int /\ b \in Int /\ c \in Int /\ d \in Int
          BY <1>1, <1>6, <4>4, <4>5
        <5>2. a <= c /\ b <= d
          BY <4>3, <4>5
        <5> HIDE DEF a, b, c, d
        <5>3. a + b <= c + d
          BY <5>1, <5>2
        <5>4. (s[y] + ts) * all = a + b /\ (w[y] + tw) * target = c + d
          BY <4>6 DEF a, b, c, d
        <5> QED
          BY <5>3, <5>4
      <4> QED
        BY <4>2, <4>7
    <3> QED
      BY <3>2, <3>3
  <2> HIDE DEF G
  <2>2. \A U \in SUBSET T : (\A V \in SUBSET U : V # U => V \in G) => U \in G
    BY <2>1
  <2>3. IsFiniteSet(T)
    BY <1>2
  <2>4. T \in G
    BY <2>2, <2>3, BySubsets
  <2> QED
    BY <2>4 DEF G
<1>11. /\ all = last + Total(w, T) /\ Total(w, T) \in Int /\ Total(s, T) \in Int
       /\ last \in Nat /\ last >= 1
  <2>1. \A j \in S : w[j] \in Int
    BY <1>3
  <2>2. \A j \in T : w[j] \in Int /\ s[j] \in Int
    BY <1>2, <1>3, <1>9
  <2>3. Total(w, T) \in Int /\ Total(s, T) \in Int
    BY <1>2, <2>2, TotalOut
  <2>4. Total(w, S) = w[n - 1] + Total(w, S \ {n - 1})
    BY <1>2, <2>1, TotalOut
  <2>5. w[n - 1] \in Nat /\ w[n - 1] >= 1
    BY <1>2, <1>3
  <2> QED
    BY <1>2, <2>3, <2>4, <2>5 DEF all
<1> HIDE DEF last
<1>12. target - Total(s, T) >= 1
  <2> DEFINE x == Total(s, T)
             y == Total(w, T)
  <2>1. x \in Int /\ y \in Int /\ x * all <= y * target /\ y = all - last
    BY <1>1, <1>10, <1>11
  <2> HIDE DEF x, y
  <2>2. y * target = all * target - last * target
    BY <1>1, <1>6, <1>11, <2>1
  <2>3. last * target >= 1
    BY <1>1, <1>6, <1>11
  <2>4. x * all < all * target
    <3> DEFINE xa == x * all
               yt == y * target
               at == all * target
               lt == last * target
    <3>1. xa \in Int /\ yt \in Int /\ at \in Int /\ lt \in Int
      <4>1. target \in Int /\ all \in Int /\ last \in Int /\ x \in Int /\ y \in Int
        BY <1>1, <1>6, <1>11, <2>1
      <4>2. \A p, q \in Int : p * q \in Int
        OBVIOUS
      <4> QED
        BY <4>1, <4>2
    <3>2. xa <= yt /\ yt = at - lt /\ lt >= 1
      BY <2>1, <2>2, <2>3
    <3> HIDE DEF xa, yt, at, lt
    <3>3. xa < at
      BY <3>1, <3>2
    <3> QED
      BY <3>3 DEF xa, at
  <2>5. x < target
    BY <1>1, <1>6, <2>1, <2>4
  <2> QED
    BY <1>6, <2>1, <2>5 DEF x
<1>13. ASSUME NEW j \in S PROVE z[j] \in Nat \ {0}
  <2>1. CASE j = n - 1
    <3>1. z[j] = target - Total(s, T)
      BY <1>4, <1>8, <1>13, <2>1
    <3> QED
      BY <1>6, <1>11, <1>12, <3>1
  <2>2. CASE j # n - 1
    <3>1. z[j] = s[j]
      BY <1>4, <1>8, <1>13, <2>2
    <3> QED
      BY <1>3, <1>9, <3>1
  <2> QED
    BY <2>1, <2>2
<1>14. z \in [S -> Nat \ {0}]
  BY <1>5, <1>13
<1> QED
  BY <1>14, Zenon DEF Widths, z, S

\* The columns that stay are no wider together than all of them.
LEMMA RestTotal ==
  ASSUME NEW n \in Nat, NEW k \in Nat, k <= n, NEW w, Widths(w, n + 1),
         NEW rest \in [0 .. n - 1 -> Int],
         \A j \in 0 .. n - 1 : rest[j] = IF j < k THEN w[j] ELSE w[j + 1]
  PROVE  Total(rest, 0 .. n - 1) <= Total(w, 0 .. n)
<1> DEFINE v == Spliced(rest, n, k, 1, w[k])
           S == 0 .. n + 1 - 1
<1>1. n + 1 - 1 = n
  OBVIOUS
<1>2. (n + 1) - 1 = n /\ k \in 0 .. n
  OBVIOUS
<1>3. w \in [0 .. n -> Nat \ {0}]
  BY <1>2 DEF Widths
<1>4. w[k] \in Int /\ w[k] >= 1
  BY <1>2, <1>3
<1>5. \A j \in 0 .. n : w[j] \in Int
  BY <1>3
<1>6. ASSUME NEW j \in 0 .. n PROVE v[j] = w[j]
  <2>1. j \in 0 .. n + 1 - 1
    BY <1>1
  <2>2. v[j] = IF j < k THEN rest[j] ELSE IF j < k + 1 THEN w[k] ELSE rest[j - 1]
    BY <2>1 DEF Spliced
  <2>3. CASE j < k
    <3>1. j \in 0 .. n - 1
      BY <2>3
    <3> QED
      BY <2>2, <2>3, <3>1
  <2>4. CASE j = k
    <3>1. ~(j < k) /\ j < k + 1
      BY <2>4
    <3> QED
      BY <2>2, <2>4, <3>1
  <2>5. CASE j > k
    <3>1. ~(j < k) /\ ~(j < k + 1) /\ j - 1 \in 0 .. n - 1 /\ ~(j - 1 < k) /\ (j - 1) + 1 = j
      BY <2>5
    <3>2. rest[j - 1] = w[(j - 1) + 1]
      BY <3>1
    <3>3. rest[j - 1] = w[j]
      BY <3>1, <3>2
    <3> QED
      BY <2>2, <3>1, <3>3
  <2> QED
    BY <2>3, <2>4, <2>5
<1>7. Total(v, 0 .. n + 1 - 1) = Total(rest, 0 .. n - 1) + 1 * w[k]
  <2> DEFINE x == w[k]
  <2>1. x \in Int
    BY <1>4
  <2> HIDE DEF x
  <2>2. Total(Spliced(rest, n, k, 1, x), 0 .. n + 1 - 1) = Total(rest, 0 .. n - 1) + 1 * x
    <3>1. 1 \in Nat
      OBVIOUS
    <3> QED
      BY <2>1, <3>1, SplicedTotal
  <2> QED
    BY <2>2 DEF x
<1> HIDE DEF v
<1>8. IsFiniteSet(0 .. n)
  <2>1. 0 \in Int /\ n \in Int
    OBVIOUS
  <2> QED
    BY <2>1, FS_Interval
<1>9. Total(v, 0 .. n) = Total(w, 0 .. n)
  BY <1>5, <1>6, <1>8, TotalSame
<1>10. Total(rest, 0 .. n - 1) \in Int
  <2>1. 0 \in Int /\ n - 1 \in Int
    OBVIOUS
  <2>2. IsFiniteSet(0 .. n - 1)
    BY <2>1, FS_Interval
  <2>3. \A j \in 0 .. n - 1 : rest[j] \in Int
    OBVIOUS
  <2> QED
    BY <2>2, <2>3, TotalOut
<1>11. Total(v, 0 .. n) = Total(rest, 0 .. n - 1) + w[k]
  BY <1>1, <1>4, <1>7
<1> QED
  BY <1>4, <1>9, <1>10, <1>11

\* Deleting a column keeps the width of each row.
LEMMA DeleteWidth ==
  ASSUME NEW t, Tidy(t), Aligned(t), BodyWidth \in Nat, NEW k \in Nat, k < t.cols, t.cols > 1,
         NEW u, u = WithoutCol(t, k), Tidy(u), NEW r \in Rows(t)
  PROVE  RowWidth(u, r) = RowWidth(t, r)
<1> DEFINE n    == t.cols - 1
           w    == ColumnWidths(t)
           rest == [j \in 0 .. t.cols - 2 |-> IF j < k THEN w[j] ELSE w[j + 1]]
           f    == WidthsWithout(t, k)
           all  == Total(w, Cols(t))
<1>1. /\ Grid(t) /\ IsFiniteSet(t.cells) /\ Grid(u) /\ IsFiniteSet(u.cells)
      /\ t = [rows |-> t.rows, cols |-> t.cols, cells |-> t.cells, counts |-> t.counts]
  BY TidyGrid
<1>2. t.cols \in Nat /\ t.cols >= 1 /\ w \in [0 .. t.cols - 1 -> Nat \ {0}] /\ t.rows \in Nat
  BY <1>1, ColumnWidthsType DEF Grid
<1>3. n \in Nat /\ n >= 1 /\ t.cols - 2 = n - 1 /\ k <= n /\ n + 1 = t.cols
  BY <1>2
<1>4. f = Scale(rest, n, all)
  BY DEF WidthsWithout
<1>5. \E cells : SizedBy(cells, u.cells, f) /\ u.rows = t.rows /\ u.cols = n
  BY <1>1 DEF WithoutCol, Resized, SizedBy
<1>6. r \in 0 .. t.rows - 1
  BY DEF Rows
<1>7. RowWidth(t, r) = Total(w, 0 .. t.cols - 1)
  BY <1>1, <1>6, AlignedRow
<1>8. all = Total(w, 0 .. t.cols - 1)
  BY DEF Cols
<1>9. \A j \in 0 .. t.cols - 2 : rest[j] = IF j < k THEN w[j] ELSE w[j + 1]
  OBVIOUS
<1>10. rest \in [0 .. t.cols - 2 -> Nat \ {0}]
  <2>1. \A j \in 0 .. t.cols - 2 : j \in 0 .. t.cols - 1 /\ j + 1 \in 0 .. t.cols - 1
    BY <1>2
  <2> QED
    BY <1>2, <2>1
<1> HIDE DEF w, f, rest, all
<1>11. Widths(w, n + 1) /\ t.cols - 1 = n
  <2>1. t.cols - 1 = n
    OBVIOUS
  <2>2. Widths(w, t.cols)
    BY <1>2 DEF Widths
  <2> HIDE DEF n
  <2> QED
    BY <1>3, <2>1, <2>2, Zenon
<1> HIDE DEF n
<1>12. Widths(rest, n)
  BY <1>3, <1>10, Zenon DEF Widths
<1>13. \A j \in 0 .. n - 1 : rest[j] = IF j < k THEN w[j] ELSE w[j + 1]
  BY <1>3, <1>9, Zenon
<1>14. rest \in [0 .. n - 1 -> Int]
  BY <1>12 DEF Widths
<1>15. Total(rest, 0 .. n - 1) <= Total(w, 0 .. n)
  BY <1>3, <1>11, <1>13, <1>14, RestTotal
<1>16. all = Total(w, 0 .. n)
  BY <1>8, <1>11, Zenon
<1>17. all \in Nat
  <2>1. Total(w, 0 .. t.cols - 1) \in Nat
    BY <1>2, <1>3, <1>11, WidthsTotal
  <2> QED
    BY <1>8, <2>1
<1>18. all >= Total(rest, 0 .. n - 1)
  <2>1. Total(rest, 0 .. n - 1) \in Nat
    BY <1>3, <1>12, WidthsTotal
  <2> QED
    BY <1>15, <1>16, <1>17, <2>1
<1>19. Widths(f, n)
  BY <1>3, <1>4, <1>12, <1>17, <1>18, ScaledUp
<1>20. Total(f, 0 .. n - 1) = all
  <2>1. all \in Int
    BY <1>17
  <2> QED
    BY <1>3, <1>4, <1>12, <2>1, ScaledTotal
<1>21. PICK cells : SizedBy(cells, u.cells, f) /\ u.rows = t.rows /\ u.cols = n
  BY <1>5
<1>22. RowWidth(u, r) = Total(f, 0 .. u.cols - 1)
  <2>1. Widths(f, u.cols) /\ r \in 0 .. u.rows - 1
    BY <1>6, <1>19, <1>21
  <2> QED
    BY <1>1, <1>21, <2>1, ResizedRow
<1> QED
  BY <1>7, <1>8, <1>20, <1>21, <1>22

-----------------------------------------------------------------------------
(* delete_table_row.                                                       *)

\* In a clean row a cell begins in every column, and none comes from above.
LEMMA CleanFacts ==
  ASSUME NEW t, Tidy(t), NEW r \in 0 .. t.rows - 1, CleanRow(t, r)
  PROVE  \A c \in t.cells : c.row < r => c.row + c.rs <= r
<1>1. Grid(t)
  BY TidyGrid
<1>2. r \in Rows(t) /\ r \in Nat
  BY DEF Rows
<1>3. Cardinality(Anchors(t.cells, r)) = t.cols /\ Anchors(t.cells, r) \subseteq 0 .. t.cols - 1
  BY <1>1, <1>2, RecountByColumn DEF CleanRow, Tidy, Valid
<1>4. Anchors(t.cells, r) = 0 .. t.cols - 1
  <2>1. IsFiniteSet(0 .. t.cols - 1) /\ Cardinality(0 .. t.cols - 1) = t.cols
    BY <1>1, Interval DEF Grid
  <2> QED
    BY <1>3, <2>1, FS_Subset
<1>5. ASSUME NEW c \in t.cells, c.row < r, ~(c.row + c.rs <= r) PROVE FALSE
  <2>1. /\ c \in Cell /\ c.col \in 0 .. t.cols - 1 /\ c.row \in Nat /\ c.rs \in Nat
        /\ c.col \in Nat /\ c.cs \in Nat /\ c.cs >= 1
    <3>1. c \in Cell /\ c.col \in 0 .. t.cols - 1
      BY <1>1, Places
    <3> QED
      BY <3>1, CellTypes
  <2>2. In(c, r, c.col)
    BY <1>2, <1>5, <2>1 DEF In
  <2>3. PICK d \in t.cells : d.row = r /\ d.col = c.col
    BY <1>4, <2>1 DEF Anchors, RowCells
  <2>4. In(d, r, c.col)
    <3>1. In(d, d.row, d.col)
      BY <1>1, Places
    <3> QED
      BY <2>3, <3>1
  <2>5. c = d
    BY <1>1, <1>2, <2>1, <2>2, <2>4 DEF Grid, Tiling, Apart
  <2> QED
    BY <1>2, <1>5, <2>1, <2>3, <2>5
<1> QED
  BY <1>5

\* delete_table_row, which never validates, leaves a table in order because the
\* row is clean; text goes only with cells of the one row.
LEMMA DeleteRowKeeps ==
  ASSUME NEW t, Tidy(t), NEW r \in Nat, ~RowStays(t, r), NEW u, u = WithoutRow(t, r)
  PROVE  /\ Tidy(u)
         /\ IdsDiffer(t.cells) => IdsDiffer(u.cells)
         /\ \A c \in t.cells : TextIds({c}) \subseteq TextIds(u.cells) \/ (c.rs = 1 /\ c.row = r)
         /\ u.rows = t.rows - 1
<1> DEFINE R      == t.rows - 1
           kept   == {d \in t.cells : d.row # r}
           up(c)  == IF c.row > r THEN [c EXCEPT !.row = @ - 1] ELSE c
           g      == [c \in kept |-> up(c)]
           cells  == {up(c) : c \in kept}
           counts == [i \in 0 .. t.rows - 2 |-> IF i < r THEN t.counts[i] ELSE t.counts[i + 1]]
           fr     == [i \in 0 .. R - 1 |-> IF i < r THEN i ELSE i + 1]
           fc     == [j \in 0 .. t.cols - 1 |-> j]
<1>1. /\ Grid(t) /\ IsFiniteSet(t.cells)
      /\ t = [rows |-> t.rows, cols |-> t.cols, cells |-> t.cells, counts |-> t.counts]
      /\ t.rows \in 1 .. MaxDim /\ t.cols \in 1 .. MaxDim /\ t.cells \in SUBSET Cell
  BY TidyGrid
<1>2. /\ t.rows \in Nat /\ t.cols \in Nat /\ t.cols >= 1 /\ Tiling(t.rows, t.cols, t.cells)
      /\ MaxDim \in Nat
  BY <1>1, NumbersAssumption DEF Grid
<1>3. ~(r >= t.rows) /\ ~(t.rows <= 1) /\ CleanRow(t, r)
  BY DEF RowStays
<1>4. r \in 0 .. t.rows - 1 /\ R \in Nat /\ R >= 1 /\ R \in 1 .. MaxDim /\ t.rows - 2 = R - 1
  BY <1>1, <1>2, <1>3
<1>5. \A c \in t.cells : c.row < r => c.row + c.rs <= r
  BY <1>3, <1>4, CleanFacts
<1>6. ASSUME NEW c \in kept
      PROVE  /\ g[c] \in Cell /\ g[c].paras = c.paras
             /\ g[c].col = c.col /\ g[c].cs = c.cs /\ g[c].rs = c.rs
             /\ \/ c.row > r /\ g[c].row = c.row - 1
                \/ c.row < r /\ c.row + c.rs <= r /\ g[c].row = c.row
  <2>1. c \in Cell /\ c.row \in Nat /\ c.row # r
    BY <1>1, CellTypes
  <2>2. CASE c.row > r
    <3>1. g[c] = [c EXCEPT !.row = c.row - 1] /\ c.row - 1 \in Nat
      BY <2>1, <2>2
    <3> QED
      BY <2>1, <2>2, <3>1 DEF Cell
  <2>3. CASE ~(c.row > r)
    <3>1. g[c] = c /\ c.row < r
      BY <2>1, <2>3
    <3> QED
      BY <1>5, <2>1, <3>1
  <2> QED
    BY <2>2, <2>3
<1>7. Moved(cells, g, kept)
  <2>1. cells = {g[c] : c \in kept}
    OBVIOUS
  <2>2. g \in [kept -> Cell]
    BY <1>6
  <2> HIDE DEF g, kept, cells
  <2> QED
    BY <1>6, <2>1, <2>2 DEF Moved
<1>8. kept \in SUBSET t.cells /\ (\A c \in t.cells \ kept : c.row = r)
      /\ \A c \in t.cells : c.row # r => c \in kept
  OBVIOUS
<1>9. u = [rows |-> R, cols |-> t.cols, cells |-> cells, counts |-> counts]
  BY DEF WithoutRow
<1> HIDE DEF g, kept, cells
<1>10. /\ fc \in [0 .. t.cols - 1 -> 0 .. t.cols - 1]
       /\ fr \in [0 .. R - 1 -> 0 .. t.rows - 1]
       /\ \A j \in 0 .. t.cols - 1 : fc[j] = j
       /\ \A i \in 0 .. R - 1 : fr[i] = IF i < r THEN i ELSE i + 1
  BY <1>2, <1>4
<1> HIDE DEF fr, fc
<1>11. Tiling(R, t.cols, cells)
  <2>1. ASSUME NEW c \in kept, NEW i \in 0 .. R - 1, NEW j \in 0 .. t.cols - 1
        PROVE  In(g[c], i, j) <=> In(c, fr[i], fc[j])
    <3>1. c \in Cell
      BY <1>1, <1>8
    <3>2. c.row \in Nat /\ c.rs \in Nat
      BY <3>1, CellTypes
    <3>3. g[c].row <= i /\ i < g[c].row + g[c].rs <=> c.row <= fr[i] /\ fr[i] < c.row + c.rs
      BY <1>6, <1>10, <3>2
    <3>4. fc[j] = j /\ g[c].col = c.col /\ g[c].cs = c.cs
      BY <1>6, <1>10
    <3> QED
      BY <3>3, <3>4 DEF In
  <2>2. ASSUME NEW c \in t.cells \ kept, NEW i \in 0 .. R - 1, NEW j \in 0 .. t.cols - 1
        PROVE  ~In(c, fr[i], fc[j])
    <3>1. c.row = r /\ c.rs = 1
      BY <1>3, <1>8 DEF CleanRow
    <3> QED
      BY <1>10, <3>1 DEF In
  <2>3. ASSUME NEW d \in cells PROVE d.row + d.rs <= R /\ d.col + d.cs <= t.cols
    <3>1. PICK c \in kept : d = g[c]
      BY <1>7 DEF Moved
    <3>2. c \in Cell /\ c.row + c.rs <= t.rows /\ c.col + c.cs <= t.cols
      BY <1>1, <1>8, Places
    <3>3. c.row \in Nat /\ c.rs \in Nat
      BY <3>2, CellTypes
    <3> QED
      BY <1>2, <1>4, <1>6, <3>1, <3>2, <3>3
  <2>4. g \in [kept -> Cell] /\ ImageOf(cells, g, kept)
    BY <1>7 DEF Moved, ImageOf
  <2>5. Inside(R, t.cols, cells)
    BY <2>3 DEF Inside
  <2>6. Renumbered(R, t.cols, t.cells, kept, g, fr, fc)
    BY <2>1, <2>2 DEF Renumbered
  <2> HIDE DEF R
  <2> QED
    BY <1>1, <1>2, <1>4, <1>8, <1>10, <2>4, <2>5, <2>6, Renumber
<1>12. cells \in SUBSET Cell
  BY <1>7 DEF Moved
<1>13. IsFiniteSet(cells)
  <2> HIDE DEF R
  <2> QED
    BY <1>2, <1>4, <1>11, <1>12, CellsFinite
<1>14. /\ u.rows = R /\ u.cols = t.cols /\ u.cells = cells /\ u.counts = counts
       /\ Rows(u) = 0 .. R - 1
       /\ u = [rows |-> R, cols |-> t.cols, cells |-> cells, counts |-> u.counts]
  BY <1>9 DEF Rows
<1>15. Grid(u)
  <2> HIDE DEF R
  <2> QED
    BY <1>2, <1>4, <1>11, <1>12, <1>14 DEF Grid
<1>16. u.counts = Recount(u)
  <2>1. ASSUME NEW i \in 0 .. R - 1
        PROVE  u.counts[i] = Recount(u)[i]
    <3>1. fr[i] \in Rows(t) /\ fr[i] \in Nat /\ i \in Rows(u) /\ i \in Nat
      BY <1>4, <1>10, <1>14 DEF Rows
    <3>2. u.counts[i] = t.counts[fr[i]]
      <4>1. i \in 0 .. t.rows - 2
        BY <1>4
      <4> QED
        BY <1>10, <1>14, <4>1
    <3>3. t.counts[fr[i]] = Cardinality(Anchors(t.cells, fr[i]))
      BY <1>1, <3>1, RecountByColumn DEF Tidy, Valid
    <3>4. \A c \in kept : g[c].row = i <=> c.row = fr[i]
      <4> SUFFICES ASSUME NEW c \in kept PROVE g[c].row = i <=> c.row = fr[i]
        OBVIOUS
      <4>1. c \in Cell
        BY <1>1, <1>8
      <4>2. c.row \in Nat
        BY <4>1, CellTypes
      <4> QED
        BY <1>4, <1>6, <1>10, <4>2
    <3>5. fr[i] # r
      BY <1>4, <1>10
    <3>6. ASSUME NEW k, k \in Anchors(cells, i) PROVE k \in Anchors(t.cells, fr[i])
      <4>1. PICK d \in cells : d.row = i /\ d.col = k
        BY <3>6 DEF Anchors, RowCells
      <4>2. PICK c \in kept : d = g[c]
        BY <1>7 DEF Moved
      <4>3. c \in t.cells /\ c.row = fr[i] /\ c.col = k
        BY <1>6, <1>8, <3>4, <4>1, <4>2
      <4> QED
        BY <4>3 DEF Anchors, RowCells
    <3>7. ASSUME NEW k, k \in Anchors(t.cells, fr[i]) PROVE k \in Anchors(cells, i)
      <4>1. PICK c \in t.cells : c.row = fr[i] /\ c.col = k
        BY <3>7 DEF Anchors, RowCells
      <4>2. c \in kept
        BY <1>8, <3>5, <4>1
      <4>3. g[c] \in cells /\ g[c].row = i /\ g[c].col = k
        BY <1>6, <1>7, <3>4, <4>1, <4>2 DEF Moved
      <4> QED
        BY <4>3 DEF Anchors, RowCells
    <3>8. Anchors(u.cells, i) = Anchors(t.cells, fr[i])
      BY <1>14, <3>6, <3>7
    <3> QED
      BY <1>15, <3>1, <3>2, <3>3, <3>8, RecountByColumn
  <2>2. DOMAIN u.counts = 0 .. R - 1 /\ DOMAIN Recount(u) = 0 .. R - 1
        /\ u.counts = [i \in 0 .. R - 1 |-> u.counts[i]]
        /\ Recount(u) = [i \in 0 .. R - 1 |-> Recount(u)[i]]
    BY <1>4, <1>14 DEF Recount
  <2> QED
    BY <2>1, <2>2
<1>17. Tidy(u)
  <2>1. Recounted(u, R, t.cols, cells)
    BY <1>14, <1>16 DEF Recounted
  <2> HIDE DEF R
  <2> QED
    BY <1>1, <1>4, <1>11, <1>12, <1>13, <2>1, RecountedTable
<1>18. ASSUME IdsDiffer(t.cells) PROVE IdsDiffer(u.cells)
  BY <1>1, <1>7, <1>8, <1>14, <1>18, IdsMoved
<1>19. ASSUME NEW c \in t.cells, ~(c.rs = 1 /\ c.row = r)
       PROVE  TextIds({c}) \subseteq TextIds(u.cells)
  <2>1. c \in kept
    BY <1>3, <1>8, <1>19 DEF CleanRow
  <2>2. g[c] \in u.cells /\ g[c].paras = c.paras
    BY <1>7, <1>14, <2>1 DEF Moved
  <2>3. ASSUME NEW p \in ParasIn({c}), HasText(p) PROVE p \in ParasIn(u.cells)
    BY <2>2 DEF ParasIn
  <2> QED
    BY <2>3, TextKept
<1> QED
  BY <1>14, <1>17, <1>18, <1>19

-----------------------------------------------------------------------------
(* The steps.                                                              *)

\* The invariant.  It needs neither the ids nor the history: every edit is
\* shown to take a table in order to a table in order.
Inv == TypeOK /\ Valid(table)

\* What a step from such a state does, whichever call it is.
TextStays(c) ==
  \/ TextIds({c}) \subseteq TextIds(table'.cells)
  \/ call'.op = "setcell" /\ call'.at = <<c.row, c.col>>
  \/ call'.op = "delrow" /\ c.rs = 1 /\ call'.at = Row(c.row)
  \/ call'.op = "delcol" /\ c.cs = 1 /\ call'.at = Col(c.col)

GoodStep ==
  /\ Tidy(table')
  /\ call' \in [op : Ops, at : Nat \X Nat, ok : BOOLEAN]
  /\ calls' \in 0 .. MaxCalls
  /\ ~call'.ok => table' = table
  /\ IdsDiffer(table.cells) /\ Room(table) => IdsDiffer(table'.cells)
  /\ \A c \in table.cells : TextStays(c)

\* What the invariant says in the form the lemmas about the edits take.
LEMMA InvFacts ==
  ASSUME Inv
  PROVE  /\ Tidy(table) /\ BodyWidth \in Nat
         /\ table.rows \in Nat /\ table.cols \in Nat
  <1>1. Tidy(table) /\ BodyWidth \in Nat
    BY NumbersAssumption DEF Inv, TypeOK, Tidy
  <1> QED
    BY <1>1, TidyGrid DEF Grid

\* A call that leaves the table alone, whatever it answers.
LEMMA Idle ==
  ASSUME Inv, Called, NEW op \in Ops, NEW at \in Nat \X Nat, NEW ok \in BOOLEAN,
         Answer(op, at, ok), table' = table
  PROVE  GoodStep
<1>1. call' \in [op : Ops, at : Nat \X Nat, ok : BOOLEAN] /\ calls' \in 0 .. MaxCalls
  BY NumbersAssumption DEF Inv, TypeOK, Called, Answer
<1>2. Tidy(table')
  BY InvFacts
<1>3. ASSUME NEW c \in table.cells PROVE TextStays(c)
  <2>1. \A p \in ParasIn({c}) : p \in ParasIn(table.cells)
    BY DEF ParasIn
  <2> QED
    BY <2>1, TextKept DEF TextStays
<1> QED
  BY <1>1, <1>2, <1>3 DEF GoodStep

\* A call that puts u in the place of the table and answers Ok.
LEMMA Done ==
  ASSUME Inv, Called, NEW op \in Ops, NEW at \in Nat \X Nat, Answer(op, at, TRUE),
         Tidy(table'),
         IdsDiffer(table.cells) /\ Room(table) => IdsDiffer(table'.cells),
         \A c \in table.cells : TextStays(c)
  PROVE  GoodStep
<1>1. call' \in [op : Ops, at : Nat \X Nat, ok : BOOLEAN] /\ calls' \in 0 .. MaxCalls /\ call'.ok = TRUE
  BY NumbersAssumption DEF Inv, TypeOK, Called, Answer
<1> QED
  BY <1>1 DEF GoodStep

\* AddRows.
LEMMA AddRowsStep ==
  ASSUME Inv, AddRows
  PROVE  GoodStep
<1>1. PICK at \in 0 .. table.rows + 1, count \in 0 .. MaxCount,
           tpl \in {NoRow} \cup 0 .. table.rows :
        \/ count = 0 /\ Answer("addrows", Row(at), TRUE) /\ UNCHANGED table
        \/ count > 0 /\ RowsRefused(table, at, count, tpl) /\ Refuse("addrows", Row(at))
        \/ /\ count > 0 /\ ~RowsRefused(table, at, count, tpl)
           /\ IF PlainAppend(table, at, tpl)
              THEN table' = AddedRows(table, at, count, tpl) /\ Answer("addrows", Row(at), TRUE)
              ELSE OnClone("addrows", Row(at), AddedRows(table, at, count, tpl))
  BY DEF AddRows
<1>2. Called /\ "addrows" \in Ops /\ Row(at) \in Nat \X Nat
  BY InvFacts DEF AddRows, Ops, Row
<1>3. /\ Tidy(table) /\ BodyWidth \in Nat /\ at \in Nat
      /\ count \in 0 .. MaxCount /\ MaxCount \in Nat
      /\ tpl \in {NoRow} \cup Nat
  BY InvFacts, NumbersAssumption
<1>4. CASE count = 0 /\ Answer("addrows", Row(at), TRUE) /\ UNCHANGED table
  BY <1>2, <1>4, Idle
<1>5. CASE count > 0 /\ RowsRefused(table, at, count, tpl) /\ Refuse("addrows", Row(at))
  BY <1>2, <1>5, Idle DEF Refuse
<1>6. CASE /\ count > 0 /\ ~RowsRefused(table, at, count, tpl)
           /\ IF PlainAppend(table, at, tpl)
              THEN table' = AddedRows(table, at, count, tpl) /\ Answer("addrows", Row(at), TRUE)
              ELSE OnClone("addrows", Row(at), AddedRows(table, at, count, tpl))
  <2> DEFINE u == AddedRows(table, at, count, tpl)
  <2>1. count \in 1 .. MaxCount
    BY <1>3, <1>6
  <2>2. u = AddedRows(table, at, count, tpl)
    OBVIOUS
  <2>3. \/ table' = u /\ Answer("addrows", Row(at), TRUE) /\ (PlainAppend(table, at, tpl) \/ Valid(u))
        \/ Refuse("addrows", Row(at))
    BY <1>6 DEF OnClone
  <2> HIDE DEF u
  <2>4. /\ PlainAppend(table, at, tpl) \/ Valid(u) => Tidy(u)
        /\ IdsDiffer(table.cells) /\ Room(table) => IdsDiffer(u.cells)
        /\ \A c \in table.cells : TextIds({c}) \subseteq TextIds(u.cells)
    BY <1>3, <1>6, <2>1, <2>2, AddRowsKeeps
  <2>5. CASE Refuse("addrows", Row(at))
    BY <1>2, <2>5, Idle DEF Refuse
  <2>6. CASE table' = u /\ Answer("addrows", Row(at), TRUE) /\ (PlainAppend(table, at, tpl) \/ Valid(u))
    BY <1>2, <2>4, <2>6, Done DEF TextStays
  <2> QED
    BY <2>3, <2>5, <2>6
<1> QED
  BY <1>1, <1>4, <1>5, <1>6

\* DeleteRow.
LEMMA DeleteRowStep ==
  ASSUME Inv, DeleteRow
  PROVE  GoodStep
<1>1. PICK r \in 0 .. table.rows :
        \/ RowStays(table, r) /\ Refuse("delrow", Row(r))
        \/ ~RowStays(table, r) /\ table' = WithoutRow(table, r) /\ Answer("delrow", Row(r), TRUE)
  BY DEF DeleteRow
<1>2. Called /\ "delrow" \in Ops /\ r \in Nat /\ Row(r) \in Nat \X Nat
  BY InvFacts DEF DeleteRow, Ops, Row
<1>3. CASE RowStays(table, r) /\ Refuse("delrow", Row(r))
  BY <1>2, <1>3, Idle DEF Refuse
<1>4. CASE ~RowStays(table, r) /\ table' = WithoutRow(table, r) /\ Answer("delrow", Row(r), TRUE)
  <2>1. /\ Tidy(table')
        /\ IdsDiffer(table.cells) => IdsDiffer(table'.cells)
        /\ \A c \in table.cells : TextIds({c}) \subseteq TextIds(table'.cells) \/ (c.rs = 1 /\ c.row = r)
        /\ table'.rows = table.rows - 1
    BY <1>2, <1>4, InvFacts, DeleteRowKeeps
  <2>2. call'.op = "delrow" /\ call'.at = Row(r)
    BY <1>4 DEF Answer
  <2>3. \A c \in table.cells : TextStays(c)
    BY <2>1, <2>2 DEF TextStays
  <2> QED
    BY <1>2, <1>4, <2>1, <2>3, Done
<1> QED
  BY <1>1, <1>3, <1>4

\* Merge.
LEMMA MergeStep ==
  ASSUME Inv, Merge
  PROVE  GoodStep
<1>1. PICK r1 \in 0 .. table.rows, r2 \in 0 .. table.rows,
           k1 \in 0 .. table.cols, k2 \in 0 .. table.cols :
        /\ r1 <= r2 /\ k1 <= k2
        /\ \/ MergeRefused(table, r1, k1, r2, k2) /\ Refuse("merge", <<r1, k1>>)
           \/ /\ ~MergeRefused(table, r1, k1, r2, k2)
              /\ InPlace("merge", <<r1, k1>>, Merged(table, r1, k1, r2, k2))
  BY DEF Merge
<1>2. /\ Called /\ "merge" \in Ops
      /\ r1 \in Nat /\ r2 \in Nat /\ k1 \in Nat /\ k2 \in Nat
  BY InvFacts DEF Merge, Ops
<1>2a. <<r1, k1>> \in Nat \X Nat
  BY <1>2
<1>3. CASE MergeRefused(table, r1, k1, r2, k2) /\ Refuse("merge", <<r1, k1>>)
  BY <1>2, <1>2a, <1>3, Idle DEF Refuse
<1>4. CASE /\ ~MergeRefused(table, r1, k1, r2, k2)
           /\ InPlace("merge", <<r1, k1>>, Merged(table, r1, k1, r2, k2))
  <2>1. table' = Merged(table, r1, k1, r2, k2) /\ Answer("merge", <<r1, k1>>, Valid(table'))
    BY <1>4 DEF InPlace
  <2>2. /\ Tidy(table')
        /\ IdsDiffer(table.cells) => IdsDiffer(table'.cells)
        /\ \A c \in table.cells : TextIds({c}) \subseteq TextIds(table'.cells)
    BY <1>1, <1>2, <1>4, <2>1, InvFacts, MergeKeeps
  <2>3. Valid(table')
    BY <2>2 DEF Tidy
  <2>4. Answer("merge", <<r1, k1>>, TRUE)
    BY <2>1, <2>3 DEF Answer, Valid
  <2> QED
    BY <1>2, <1>2a, <2>2, <2>4, Done DEF TextStays
<1> QED
  BY <1>1, <1>3, <1>4

\* Split.
LEMMA SplitStep ==
  ASSUME Inv, Split
  PROVE  GoodStep
<1>1. PICK r \in 0 .. table.rows, k \in 0 .. table.cols :
        \/ Refuse("split", <<r, k>>)
        \/ \E a \in table.cells : InPlace("split", <<r, k>>, SplitUp(table, a))
  BY DEF Split
<1>2. Called /\ "split" \in Ops /\ <<r, k>> \in Nat \X Nat
  BY InvFacts DEF Split, Ops
<1>3. CASE Refuse("split", <<r, k>>)
  BY <1>2, <1>3, Idle DEF Refuse
<1>4. ASSUME NEW a \in table.cells, InPlace("split", <<r, k>>, SplitUp(table, a))
      PROVE  GoodStep
  <2>1. table' = SplitUp(table, a) /\ Answer("split", <<r, k>>, Valid(table'))
    BY <1>4 DEF InPlace
  <2>2. /\ Tidy(table')
        /\ IdsDiffer(table.cells) /\ Room(table) => IdsDiffer(table'.cells)
        /\ \A c \in table.cells : TextIds({c}) \subseteq TextIds(table'.cells)
    BY <2>1, InvFacts, SplitKeeps
  <2>3. Valid(table')
    BY <2>2 DEF Tidy
  <2>4. Answer("split", <<r, k>>, TRUE)
    BY <2>1, <2>3 DEF Answer, Valid
  <2> QED
    BY <1>2, <2>2, <2>4, Done DEF TextStays
<1> QED
  BY <1>1, <1>3, <1>4

\* AddCols.
LEMMA AddColsStep ==
  ASSUME Inv, AddCols
  PROVE  GoodStep
<1>1. PICK at \in 0 .. table.cols + 1, count \in 0 .. MaxCount :
        \/ ColsRefused(table, at, count) /\ Refuse("addcols", Col(at))
        \/ /\ ~ColsRefused(table, at, count)
           /\ IF at = table.cols /\ ~HasMerge(table)
              THEN table' = AppendedCols(table, count) /\ Answer("addcols", Col(at), TRUE)
              ELSE OnClone("addcols", Col(at), InsertedCols(table, at, count))
  BY DEF AddCols
<1>2. /\ Called /\ "addcols" \in Ops /\ Tidy(table) /\ BodyWidth \in Nat
      /\ at \in Nat /\ count \in Nat /\ MaxCount \in Nat /\ table.cols \in Nat
      /\ Col(at) \in Nat \X Nat
  BY InvFacts, NumbersAssumption DEF AddCols, Ops, Col
<1>3. CASE ColsRefused(table, at, count) /\ Refuse("addcols", Col(at))
  BY <1>2, <1>3, Idle DEF Refuse
<1>4. CASE /\ ~ColsRefused(table, at, count)
           /\ IF at = table.cols /\ ~HasMerge(table)
              THEN table' = AppendedCols(table, count) /\ Answer("addcols", Col(at), TRUE)
              ELSE OnClone("addcols", Col(at), InsertedCols(table, at, count))
  <2>1. /\ ~(count = 0) /\ ~(at > table.cols) /\ ~(table.cols + count > MaxDim)
        /\ ~NoWidthFor(table, at, count)
    BY <1>4 DEF ColsRefused
  <2>2. count \in 1 .. MaxCount /\ at <= table.cols /\ table.cols + count <= MaxDim
    BY <1>2, <2>1, NumbersAssumption
  <2>3. CASE at = table.cols /\ ~HasMerge(table)
    <3>1. table' = AppendedCols(table, count) /\ Answer("addcols", Col(at), TRUE)
      BY <1>4, <2>3
    <3>2. /\ Tidy(table')
          /\ IdsDiffer(table.cells) /\ Room(table) => IdsDiffer(table'.cells)
          /\ \A c \in table.cells : TextIds({c}) \subseteq TextIds(table'.cells)
      BY <1>2, <2>1, <2>2, <2>3, <3>1, AppendColsKeeps
    <3> QED
      BY <1>2, <3>1, <3>2, Done DEF TextStays
  <2>4. CASE ~(at = table.cols /\ ~HasMerge(table))
    <3>1. OnClone("addcols", Col(at), InsertedCols(table, at, count))
      BY <1>4, <2>4
    <3>2. CASE Valid(InsertedCols(table, at, count))
      <4>1. table' = InsertedCols(table, at, count) /\ Answer("addcols", Col(at), TRUE)
        BY <3>1, <3>2 DEF OnClone
      <4>2. Valid(table')
        BY <3>2, <4>1
      <4>3. /\ Valid(table') => Tidy(table')
            /\ IdsDiffer(table.cells) /\ Room(table) => IdsDiffer(table'.cells)
            /\ \A c \in table.cells : TextIds({c}) \subseteq TextIds(table'.cells)
        BY <1>2, <2>2, <4>1, InsertColsKeeps
      <4> QED
        BY <1>2, <4>1, <4>2, <4>3, Done DEF TextStays
    <3>3. CASE ~Valid(InsertedCols(table, at, count))
      <4>1. Refuse("addcols", Col(at))
        BY <3>1, <3>3 DEF OnClone
      <4> QED
        BY <1>2, <4>1, Idle DEF Refuse
    <3> QED
      BY <3>2, <3>3
  <2> QED
    BY <2>3, <2>4
<1> QED
  BY <1>1, <1>3, <1>4

\* DeleteCol.
LEMMA DeleteColStep ==
  ASSUME Inv, DeleteCol
  PROVE  GoodStep
<1>1. PICK k \in 0 .. table.cols :
        \/ (k >= table.cols \/ table.cols <= 1) /\ Refuse("delcol", Col(k))
        \/ /\ k < table.cols /\ table.cols > 1
           /\ InPlace("delcol", Col(k), WithoutCol(table, k))
  BY DEF DeleteCol
<1>2. Called /\ "delcol" \in Ops /\ k \in Nat /\ Col(k) \in Nat \X Nat
  BY InvFacts DEF DeleteCol, Ops, Col
<1>3. CASE (k >= table.cols \/ table.cols <= 1) /\ Refuse("delcol", Col(k))
  BY <1>2, <1>3, Idle DEF Refuse
<1>4. CASE k < table.cols /\ table.cols > 1 /\ InPlace("delcol", Col(k), WithoutCol(table, k))
  <2>1. table' = WithoutCol(table, k) /\ Answer("delcol", Col(k), Valid(table'))
    BY <1>4 DEF InPlace
  <2>2. /\ Tidy(table')
        /\ IdsDiffer(table.cells) => IdsDiffer(table'.cells)
        /\ \A c \in table.cells : TextIds({c}) \subseteq TextIds(table'.cells) \/ (c.cs = 1 /\ c.col = k)
        /\ table'.cols = table.cols - 1
    BY <1>2, <1>4, <2>1, InvFacts, DeleteColKeeps
  <2>3. Valid(table')
    BY <2>2 DEF Tidy
  <2>4. Answer("delcol", Col(k), TRUE)
    BY <2>1, <2>3 DEF Answer, Valid
  <2>5. call'.op = "delcol" /\ call'.at = Col(k)
    BY <2>4 DEF Answer
  <2>6. \A c \in table.cells : TextStays(c)
    BY <2>2, <2>5 DEF TextStays
  <2> QED
    BY <1>2, <2>2, <2>4, <2>6, Done
<1> QED
  BY <1>1, <1>3, <1>4

\* SetCell.
LEMMA SetCellStep ==
  ASSUME Inv, SetCell
  PROVE  GoodStep
<1>1. PICK r \in 0 .. table.rows, k \in 0 .. table.cols, blocks \in 0 .. 2 :
        \/ Refuse("setcell", <<r, k>>)
        \/ /\ ~(blocks > 1 /\ DocMaxId(table) + blocks - 1 >= IdSpace)
           /\ \E c \in table.cells :
                /\ c.row = r /\ c.col = k
                /\ table' = [table EXCEPT !.cells = (@ \ {c})
                               \cup {[c EXCEPT !.paras = NewText(table, c, blocks)]}]
           /\ Answer("setcell", <<r, k>>, TRUE)
  BY DEF SetCell
<1>2. Called /\ "setcell" \in Ops /\ blocks \in Nat /\ <<r, k>> \in Nat \X Nat
  BY InvFacts DEF SetCell, Ops
<1>3. CASE Refuse("setcell", <<r, k>>)
  BY <1>2, <1>3, Idle DEF Refuse
<1>4. ASSUME ~(blocks > 1 /\ DocMaxId(table) + blocks - 1 >= IdSpace),
             NEW c \in table.cells, c.row = r, c.col = k,
             table' = [table EXCEPT !.cells = (@ \ {c})
                         \cup {[c EXCEPT !.paras = NewText(table, c, blocks)]}],
             Answer("setcell", <<r, k>>, TRUE)
      PROVE  GoodStep
  <2>1. TextSet(table, c, blocks, table')
    BY <1>2, <1>4 DEF TextSet
  <2>2. call'.op = "setcell" /\ call'.at = <<c.row, c.col>>
    BY <1>4 DEF Answer
  <2>3. /\ Tidy(table') /\ (IdsDiffer(table.cells) => IdsDiffer(table'.cells))
        /\ \A d \in table.cells : d # c => TextIds({d}) \subseteq TextIds(table'.cells)
    BY <2>1, InvFacts, SetCellKeeps
  <2>4. \A d \in table.cells : TextStays(d)
    BY <2>2, <2>3 DEF TextStays
  <2> QED
    BY <1>2, <1>4, <2>3, <2>4, Done
<1> QED
  BY <1>1, <1>3, <1>4

\* Whichever call it is.
LEMMA EveryStep ==
  ASSUME Inv, Next
  PROVE  GoodStep
BY AddRowsStep, DeleteRowStep, MergeStep, SplitStep, AddColsStep, DeleteColStep, SetCellStep
   DEF Next

\* What a step from such a state does to the widths of the rows.
WidthStep ==
  call'.op \in {"addcols", "delcol"} /\ Aligned(table) =>
    \A r \in Rows(table) : RowWidth(table', r) = RowWidth(table, r)

\* add_table_columns keeps them.
LEMMA AddColsWidth ==
  ASSUME Inv, AddCols
  PROVE  WidthStep
<1> SUFFICES ASSUME Aligned(table), NEW r \in Rows(table)
             PROVE  RowWidth(table', r) = RowWidth(table, r)
  BY DEF WidthStep
<1>1. PICK at \in 0 .. table.cols + 1, count \in 0 .. MaxCount :
        \/ ColsRefused(table, at, count) /\ Refuse("addcols", Col(at))
        \/ /\ ~ColsRefused(table, at, count)
           /\ IF at = table.cols /\ ~HasMerge(table)
              THEN table' = AppendedCols(table, count) /\ Answer("addcols", Col(at), TRUE)
              ELSE OnClone("addcols", Col(at), InsertedCols(table, at, count))
  BY DEF AddCols
<1>2. /\ Tidy(table) /\ BodyWidth \in Nat
      /\ at \in Nat /\ count \in Nat /\ MaxCount \in Nat /\ table.cols \in Nat
  BY InvFacts, NumbersAssumption
<1>3. CASE table' = table
  BY <1>3
<1>4. CASE Refuse("addcols", Col(at))
  BY <1>3, <1>4 DEF Refuse
<1>5. Inv /\ AddCols => Tidy(table')
  BY AddColsStep DEF GoodStep
<1>6. CASE /\ ~ColsRefused(table, at, count)
           /\ IF at = table.cols /\ ~HasMerge(table)
              THEN table' = AppendedCols(table, count) /\ Answer("addcols", Col(at), TRUE)
              ELSE OnClone("addcols", Col(at), InsertedCols(table, at, count))
  <2>1. ~(at > table.cols) /\ ~NoWidthFor(table, at, count)
    BY <1>6 DEF ColsRefused
  <2>2. at <= table.cols
    BY <1>2, <2>1
  <2>3. CASE at = table.cols /\ ~HasMerge(table)
    <3>1. table' = AppendedCols(table, count)
      BY <1>6, <2>3
    <3> DEFINE u == AppendedCols(table, count)
    <3>2. Tidy(u)
      BY <1>5, <3>1
    <3>3. RowWidth(u, r) = RowWidth(table, r)
      BY <1>2, <2>3, <3>2, AppendWidth
    <3> QED
      BY <3>1, <3>3
  <2>4. CASE ~(at = table.cols /\ ~HasMerge(table))
    <3>1. OnClone("addcols", Col(at), InsertedCols(table, at, count))
      BY <1>6, <2>4
    <3> DEFINE u == InsertedCols(table, at, count)
    <3>2. CASE table' = u
      <4>1. Tidy(u)
        BY <1>5, <3>2
      <4>2. \A k \in 0 .. table.cols + count - 1 : ~(FinalWidths(table, at, count)[k] < 1)
        BY <2>1, <2>4 DEF NoWidthFor
      <4> HIDE DEF u
      <4>3. u = InsertedCols(table, at, count)
        BY DEF u
      <4>4. RowWidth(u, r) = RowWidth(table, r)
        BY <1>2, <2>2, <4>1, <4>2, <4>3, InsertWidth
      <4> QED
        BY <3>2, <4>4
    <3>3. table' = u \/ table' = table
      BY <3>1 DEF OnClone, Refuse
    <3> QED
      BY <1>3, <3>2, <3>3
  <2> QED
    BY <2>3, <2>4
<1> QED
  BY <1>1, <1>4, <1>6

\* delete_table_column keeps them.
LEMMA DeleteColWidth ==
  ASSUME Inv, DeleteCol
  PROVE  WidthStep
<1> SUFFICES ASSUME Aligned(table), NEW r \in Rows(table)
             PROVE  RowWidth(table', r) = RowWidth(table, r)
  BY DEF WidthStep
<1>1. PICK k \in 0 .. table.cols :
        \/ (k >= table.cols \/ table.cols <= 1) /\ Refuse("delcol", Col(k))
        \/ /\ k < table.cols /\ table.cols > 1
           /\ InPlace("delcol", Col(k), WithoutCol(table, k))
  BY DEF DeleteCol
<1>2. Tidy(table) /\ BodyWidth \in Nat /\ k \in Nat /\ Tidy(table')
  BY InvFacts, DeleteColStep DEF GoodStep
<1>3. CASE Refuse("delcol", Col(k))
  BY <1>3 DEF Refuse
<1>4. CASE k < table.cols /\ table.cols > 1 /\ InPlace("delcol", Col(k), WithoutCol(table, k))
  <2> DEFINE u == WithoutCol(table, k)
  <2>1. table' = u
    BY <1>4 DEF InPlace
  <2>2. Tidy(u)
    BY <1>2, <2>1
  <2>3. RowWidth(u, r) = RowWidth(table, r)
    BY <1>2, <1>4, <2>2, DeleteWidth
  <2> QED
    BY <2>1, <2>3
<1> QED
  BY <1>1, <1>3, <1>4

-----------------------------------------------------------------------------
(* The theorems.                                                           *)

\* The invariant holds of the tables a document comes with and every call
\* keeps it.
THEOREM InvHolds == Spec => []Inv
<1>1. Init => Inv
  BY TablesAssumption, NumbersAssumption DEF Init, Inv, TypeOK, Ops
<1>2. Inv /\ [Next]_vars => Inv'
  <2>1. ASSUME Inv, Next PROVE Inv'
    <3>1. GoodStep
      BY <2>1, EveryStep
    <3> QED
      BY <3>1 DEF GoodStep, Inv, TypeOK, Tidy
  <2>2. ASSUME Inv, UNCHANGED vars PROVE Inv'
    BY <2>2 DEF Inv, TypeOK, vars
  <2> QED
    BY <2>1, <2>2
<1> QED
  BY <1>1, <1>2, PTL DEF Spec

\* The table keeps the form the code relies on: dimensions of 1 to u16::MAX,
\* every cell with a positive span, a positive width and a paragraph whose id
\* is a u32, and one count for each row.
THEOREM TypeCorrect == Spec => []TypeOK
<1>1. Inv => TypeOK
  BY DEF Inv
<1> QED
  BY <1>1, InvHolds, PTL

\* Whatever calls are made in whatever order, every position of the grid
\* belongs to exactly one cell and row_cell_counts counts the anchors of each
\* row: build_grid never fails and validate_table_invariants never refuses
\* what the two edits that do not call it have left.
THEOREM GridStaysTiled == Spec => [](Tiled(table) /\ table.counts = Recount(table))
<1>1. Inv => Tiled(table) /\ table.counts = Recount(table)
  BY DEF Inv, Valid
<1> QED
  BY <1>1, InvHolds, PTL

\* While ids do not reach the end of the u32 range, paragraph ids are not used
\* twice either.  (next_inst.wrapping_add wraps there.)
THEOREM TableWellFormed == Spec /\ []RoomForIds => []WellFormed
<1> DEFINE IInv == Inv /\ IdsDiffer(table.cells)
<1>1. Inv => (IdsUnique <=> IdsDiffer(table.cells))
  <2> SUFFICES ASSUME Inv PROVE IdsUnique <=> IdsDiffer(table.cells)
    OBVIOUS
  <2>1. table.cells \in SUBSET Cell
    BY InvFacts, TidyGrid
  <2> QED
    BY <2>1, DistinctIff DEF IdsUnique
<1>2. Init => IdsDiffer(table.cells)
  <2> SUFFICES ASSUME Init PROVE IdsDiffer(table.cells)
    OBVIOUS
  <2>1. table \in FirstTables
    BY DEF Init
  <2>2. IsTable(table) /\ Valid(table) /\ DistinctIds(table)
    BY <2>1, TablesAssumption
  <2>3. table.cells \in SUBSET Cell
    BY <2>2, TidyGrid DEF Tidy
  <2> QED
    BY <2>2, <2>3, DistinctIff
<1>3. Inv /\ RoomForIds /\ IdsDiffer(table.cells) /\ [Next]_vars => IdsDiffer(table.cells)'
  <2>1. ASSUME Inv, RoomForIds, IdsDiffer(table.cells), Next PROVE IdsDiffer(table.cells)'
    <3>1. GoodStep
      BY <2>1, EveryStep
    <3> QED
      BY <2>1, <3>1 DEF GoodStep, RoomForIds
  <2>2. ASSUME IdsDiffer(table.cells), UNCHANGED vars PROVE IdsDiffer(table.cells)'
    BY <2>2 DEF vars
  <2> QED
    BY <2>1, <2>2
<1>4. Inv /\ IdsDiffer(table.cells) => WellFormed
  BY <1>1 DEF WellFormed, Inv, Valid
<1> QED
  BY <1>2, <1>3, <1>4, InvHolds, PTL DEF Spec

\* merge_cells, split_cell and delete_table_column, which edit the table
\* itself, never come to the validation with a table it refuses.
THEOREM RefusalIsClean == Spec => RefusedChangesNothing
<1>1. Inv /\ [Next]_vars => [~call'.ok => table' = table]_vars
  <2>1. ASSUME Inv, Next PROVE ~call'.ok => table' = table
    BY <2>1, EveryStep DEF GoodStep
  <2> QED
    BY <2>1
<1> QED
  BY <1>1, InvHolds, PTL DEF Spec, RefusedChangesNothing

\* Merging, splitting and adding lose no text; a row or a column that is deleted
\* takes along the text of the cells that lie in it alone, and it is the one the
\* call named; set_cell replaces the text of the cell it named.
THEOREM NoTextIsLost == Spec => TextSurvives
<1>1. Inv /\ [Next]_vars => [\A c \in table.cells : TextStays(c)]_vars
  <2>1. ASSUME Inv, Next PROVE \A c \in table.cells : TextStays(c)
    BY <2>1, EveryStep DEF GoodStep
  <2> QED
    BY <2>1
<1>2. Inv /\ [Next]_vars =>
        [\A c \in table.cells :
           \/ TextIds({c}) \subseteq TextIds(table'.cells)
           \/ call'.op = "setcell" /\ call'.at = <<c.row, c.col>>
           \/ call'.op = "delrow" /\ c.rs = 1 /\ call'.at = Row(c.row)
           \/ call'.op = "delcol" /\ c.cs = 1 /\ call'.at = Col(c.col)]_vars
  BY <1>1 DEF TextStays
<1> QED
  BY <1>2, InvHolds, PTL DEF Spec, TextSurvives

\* A column is added or deleted within the width of the table, to the unit,
\* when every cell is as wide as its columns.
THEOREM WidthStays == Spec => WidthKept
<1>1. Inv /\ [Next]_vars => [WidthStep]_vars
  <2>1. ASSUME Inv, AddRows \/ DeleteRow \/ Merge \/ Split \/ SetCell PROVE WidthStep
    <3>1. call'.op \in {"addrows", "delrow", "merge", "split", "setcell"}
      BY <2>1 DEF AddRows, DeleteRow, Merge, Split, SetCell, Answer, Refuse, InPlace, OnClone
    <3> QED
      BY <3>1 DEF WidthStep
  <2>2. ASSUME Inv, Next PROVE WidthStep
    BY <2>1, <2>2, AddColsWidth, DeleteColWidth DEF Next
  <2> QED
    BY <2>2
<1>2. Inv /\ [Next]_vars =>
        [call'.op \in {"addcols", "delcol"} /\ Aligned(table) =>
           \A r \in Rows(table) : RowWidth(table', r) = RowWidth(table, r)]_vars
  BY <1>1 DEF WidthStep
<1> QED
  BY <1>2, InvHolds, PTL DEF Spec, WidthKept
=============================================================================
