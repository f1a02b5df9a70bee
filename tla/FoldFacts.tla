------------------------------ MODULE FoldFacts ------------------------------
(***************************************************************************)
(* Facts about numbers, finite sets, totals and recursive functions that   *)
(* the proofs about the components share.                                  *)
(*                                                                         *)
(* They are found by taking a least counterexample (LeastNumber,           *)
(* BySubsets): the folds of the libraries are known by their definitions,  *)
(* once it is shown that functions satisfying these exist (FoldExists,     *)
(* StepsExist).                                                            *)
(***************************************************************************)
EXTENDS Totals, Integers, Sequences, TLAPS, FiniteSetTheorems, WellFoundedInduction, SequenceTheorems

-----------------------------------------------------------------------------
(* Numbers.                                                                *)

\* A non-empty set of numbers has a least one.  (Induction over the numbers:
\* the least counterexample.)
LEMMA LeastNumber ==
  ASSUME NEW T, T \subseteq Nat, T # {}
  PROVE  \E n \in T : \A m \in T : n <= m
<1>1. IsWellFoundedOn(OpToRel(<, Nat), Nat)
  BY NatLessThanWellFounded
<1>2. PICK n \in T : \A m \in T : <<m, n>> \notin OpToRel(<, Nat)
  BY <1>1, WFMin
<1>3. \A m \in T : ~(m < n)
  BY <1>2 DEF OpToRel
<1> QED
  BY <1>3

\* A set of numbers that holds 0 and with each number the next holds all.
LEMMA AllNumbers ==
  ASSUME NEW S, 0 \in S, \A n \in Nat : n \in S => n + 1 \in S
  PROVE  Nat \subseteq S
<1> DEFINE T == Nat \ S
<1> SUFFICES ASSUME T # {} PROVE FALSE
  OBVIOUS
<1>1. PICK n \in T : \A m \in T : n <= m
  BY LeastNumber
<1>2. n # 0 /\ n - 1 \in Nat /\ ~(n <= n - 1)
  BY <1>1
<1>3. n - 1 \in S
  BY <1>1, <1>2
<1> QED
  BY <1>1, <1>2, <1>3

\* A finite set of numbers that is not empty has a greatest one, Max.
LEMMA MaxExists ==
  ASSUME NEW S, S \subseteq Int, IsFiniteSet(S), S # {}
  PROVE  /\ Max(S) \in S
         /\ \A x \in S : x <= Max(S)
<1> DEFINE Good(T) == \E x \in T : \A y \in T : y <= x
           Ok(n)   == \A T \in SUBSET S : T # {} /\ Cardinality(T) = n => Good(T)
           N       == {n \in Nat : Ok(n)}
<1>1. 0 \in N
  BY FS_EmptySet, FS_Subset
<1>2. ASSUME NEW n \in Nat, n \in N PROVE n + 1 \in N
  <2> SUFFICES ASSUME NEW T \in SUBSET S, T # {}, Cardinality(T) = n + 1
               PROVE  Good(T)
    OBVIOUS
  <2>1. PICK x \in T : TRUE
    OBVIOUS
  <2>2. IsFiniteSet(T)
    BY FS_Subset
  <2>3. IsFiniteSet(T \ {x}) /\ Cardinality(T \ {x}) = Cardinality(T) - 1
    BY <2>2, FS_RemoveElement
  <2>4. IsFiniteSet(T \ {x}) /\ Cardinality(T \ {x}) = n
    BY <2>3
  <2>5. CASE T = {x}
    BY <2>5
  <2>6. CASE T # {x}
    <3>1. PICK m \in T \ {x} : \A y \in T \ {x} : y <= m
      BY <1>2, <2>4, <2>6
    <3> QED
      BY <3>1
  <2> QED
    BY <2>5, <2>6
<1>3. Nat \subseteq N
  <2> HIDE DEF N
  <2> QED
    BY <1>1, <1>2, AllNumbers
<1>4. Good(S)
  BY <1>3, FS_CardinalityType
<1> QED
  BY <1>4 DEF Max

-----------------------------------------------------------------------------
(* Recursive functions.                                                    *)

\* A recursive function on 0..n: b is its first value, h makes the others.
StepsGiven(n, V, b, h) ==
  /\ b \in V
  /\ \A i \in 1 .. n, v \in V : h[<<i, v>>] \in V
StepsOf(f, n, V, b, h) ==
  /\ f \in [0 .. n -> V]
  /\ f[0] = b
  /\ \A i \in 1 .. n : f[i] = h[<<i, f[i - 1]>>]

\* What a recursive definition on 0..n defines exists.
LEMMA StepsExist ==
  ASSUME NEW n \in Nat, NEW V, NEW b, NEW h, StepsGiven(n, V, b, h)
  PROVE  \E f : StepsOf(f, n, V, b, h)
<1> USE DEF StepsGiven
<1> DEFINE N == {m \in Nat : m <= n => \E f : StepsOf(f, m, V, b, h)}
<1>1. 0 \in N
  <2> DEFINE f == [i \in 0 .. 0 |-> b]
  <2>1. StepsOf(f, 0, V, b, h)
    BY DEF StepsOf
  <2> HIDE DEF f
  <2> QED
    BY <2>1
<1>2. ASSUME NEW m \in Nat, m \in N PROVE m + 1 \in N
  <2> SUFFICES ASSUME m + 1 <= n PROVE \E f : StepsOf(f, m + 1, V, b, h)
    OBVIOUS
  <2>1. PICK f : StepsOf(f, m, V, b, h)
    BY <1>2
  <2> DEFINE g == [i \in 0 .. m + 1 |-> IF i <= m THEN f[i] ELSE h[<<i, f[i - 1]>>]]
  <2>2. \A i \in 0 .. m : g[i] = f[i] /\ f[i] \in V
    BY <2>1 DEF StepsOf
  <2>3. ASSUME NEW i \in 1 .. m + 1
        PROVE  g[i] = h[<<i, g[i - 1]>>] /\ g[i] \in V
    <3>a. i - 1 \in 0 .. m /\ i \in 1 .. n
      OBVIOUS
    <3>1. i - 1 \in 0 .. m /\ i \in 1 .. n /\ g[i - 1] = f[i - 1] /\ f[i - 1] \in V
      <4> HIDE DEF g
      <4> QED
        BY <2>2, <3>a
    <3>2. CASE i <= m
      <4>1. g[i] = f[i] /\ f[i] = h[<<i, f[i - 1]>>] /\ f[i] \in V
        BY <2>1, <2>2, <3>2 DEF StepsOf
      <4> QED
        BY <3>1, <4>1
    <3>3. CASE ~(i <= m)
      <4>1. g[i] = h[<<i, f[i - 1]>>]
        BY <3>3
      <4> HIDE DEF g
      <4> QED
        BY <3>1, <4>1
    <3> QED
      BY <3>2, <3>3
  <2>4. g[0] = b
    BY <2>1, <2>2 DEF StepsOf
  <2>5. g \in [0 .. m + 1 -> V]
    <3>1. \A i \in 0 .. m + 1 : g[i] \in V
      <4>1. \A i \in 0 .. m + 1 : i \in 0 .. m \/ i \in 1 .. m + 1
        OBVIOUS
      <4>2. \A i \in 0 .. m : g[i] \in V
        BY <2>2
      <4> HIDE DEF g
      <4> QED
        BY <4>1, <4>2, <2>3
    <3> QED
      BY <3>1
  <2>6. StepsOf(g, m + 1, V, b, h)
    <3> HIDE DEF g
    <3> QED
      BY <2>3, <2>4, <2>5 DEF StepsOf
  <2> HIDE DEF g
  <2> QED
    BY <2>6
<1>3. Nat \subseteq N
  <2> HIDE DEF N
  <2> QED
    BY <1>1, <1>2, AllNumbers
<1> QED
  BY <1>3

-----------------------------------------------------------------------------
(* Folds over a finite set.                                                *)

\* The element a fold takes first.
Chosen(s) == CHOOSE x \in s : TRUE

\* The subsets with at most n elements.
Small(S, n) == {s \in SUBSET S : Cardinality(s) <= n}

\* A set without one of its members is smaller by one.
LEMMA OneOut ==
  ASSUME NEW S, IsFiniteSet(S), NEW s \in SUBSET S, NEW x \in s
  PROVE  /\ IsFiniteSet(s) /\ Cardinality(s) \in Nat /\ Cardinality(s) # 0
         /\ s \ {x} \in SUBSET S
         /\ Cardinality(s \ {x}) = Cardinality(s) - 1
<1>1. IsFiniteSet(s)
  BY FS_Subset
<1>2. Cardinality(s) \in Nat /\ Cardinality(s) # 0
  BY <1>1, FS_CardinalityType, FS_EmptySet
<1>3. Cardinality(s \ {x}) = Cardinality(s) - 1
  BY <1>1, FS_RemoveElement
<1> QED
  BY <1>1, <1>2, <1>3

\* A fold over the subsets of S: b is the value of the empty set, ch chooses
\* the element to take out, h makes the value of a set from that of the rest.
FoldGiven(S, V, b, h, ch) ==
  /\ b \in V
  /\ \A s \in SUBSET S, v \in V : h[<<s, v>>] \in V
  /\ \A s \in SUBSET S : s # {} => ch[s] \in s
FoldOf(f, S, V, b, h, ch) ==
  /\ f \in [SUBSET S -> V]
  /\ \A s \in SUBSET S : f[s] = IF s = {} THEN b ELSE h[<<s, f[s \ {ch[s]}]>>]

\* What a fold over a finite set defines exists.
LEMMA FoldExists ==
  ASSUME NEW S, IsFiniteSet(S), NEW V, NEW b, NEW h, NEW ch, FoldGiven(S, V, b, h, ch)
  PROVE  \E f : FoldOf(f, S, V, b, h, ch)
<1> USE DEF FoldGiven
<1> DEFINE Good(f, D) == /\ f \in [D -> V]
                         /\ \A s \in D : f[s] = IF s = {} THEN b ELSE h[<<s, f[s \ {ch[s]}]>>]
           N == {n \in Nat : \E f : Good(f, Small(S, n))}
<1>1. 0 \in N
  <2> DEFINE f == [s \in Small(S, 0) |-> b]
  <2>1. ASSUME NEW s \in Small(S, 0) PROVE s = {}
    <3>1. s \in SUBSET S /\ IsFiniteSet(s) /\ Cardinality(s) <= 0
      BY FS_Subset DEF Small
    <3>2. Cardinality(s) = 0
      BY <3>1, FS_CardinalityType
    <3> QED
      BY <3>1, <3>2, FS_EmptySet
  <2>2. Good(f, Small(S, 0))
    BY <2>1
  <2> QED
    BY <2>2
<1>2. ASSUME NEW n \in Nat, n \in N PROVE n + 1 \in N
  <2>1. PICK f : Good(f, Small(S, n))
    BY <1>2
  <2> DEFINE g == [s \in Small(S, n + 1) |->
                     IF s \in Small(S, n) THEN f[s] ELSE h[<<s, f[s \ {ch[s]}]>>]]
  <2>2. {} \in Small(S, n)
    BY FS_EmptySet DEF Small
  <2>3. ASSUME NEW s \in Small(S, n + 1), s # {}
        PROVE  /\ s \in SUBSET S
               /\ s \ {ch[s]} \in Small(S, n) /\ s \ {ch[s]} \in Small(S, n + 1)
    BY <2>3, OneOut DEF Small
  <2>4. ASSUME NEW s \in Small(S, n) PROVE s \in Small(S, n + 1) /\ f[s] = g[s] /\ f[s] \in V
    <3>1. s \in SUBSET S /\ Cardinality(s) <= n /\ Cardinality(s) \in Nat
      BY FS_Subset, FS_CardinalityType DEF Small
    <3>2. Cardinality(s) <= n + 1
      BY <3>1
    <3> QED
      BY <2>1, <3>1, <3>2 DEF Small
  <2>5. ASSUME NEW s \in Small(S, n + 1)
        PROVE  g[s] = (IF s = {} THEN b ELSE h[<<s, g[s \ {ch[s]}]>>]) /\ g[s] \in V
    <3>1. CASE s = {}
      BY <3>1, <2>1, <2>2, <2>4
    <3>2. CASE s # {} /\ s \in Small(S, n)
      <4>1. f[s] = h[<<s, f[s \ {ch[s]}]>>]
        BY <2>1, <3>2
      <4> QED
        BY <4>1, <3>2, <2>3, <2>4
    <3>3. CASE s # {} /\ s \notin Small(S, n)
      <4>1. g[s] = h[<<s, g[s \ {ch[s]}]>>]
        BY <3>3, <2>3, <2>4
      <4>2. g[s \ {ch[s]}] \in V /\ s \in SUBSET S
        BY <3>3, <2>3, <2>4
      <4> QED
        BY <4>1, <4>2, <3>3
    <3> QED
      BY <3>1, <3>2, <3>3
  <2>6. Good(g, Small(S, n + 1))
    BY <2>5
  <2>7. n + 1 \in Nat
    OBVIOUS
  <2> HIDE DEF Good, g
  <2> QED
    BY <2>6, <2>7
<1>3. Nat \subseteq N
  <2> HIDE DEF N
  <2> QED
    BY <1>1, <1>2, AllNumbers
<1>4. Cardinality(S) \in Nat
  BY FS_CardinalityType
<1>5. SUBSET S = Small(S, Cardinality(S))
  BY FS_Subset DEF Small
<1>6. PICK f : Good(f, Small(S, Cardinality(S)))
  BY <1>3, <1>4
<1>7. Good(f, SUBSET S)
  <2> HIDE DEF Good
  <2> QED
    BY <1>5, <1>6
<1> QED
  BY <1>7 DEF FoldOf

\* Induction over the subsets of a finite set: a property, as the set G of
\* the sets that have it, holds of a set when it holds of its proper subsets.
LEMMA BySubsets ==
  ASSUME NEW S, IsFiniteSet(S), NEW G,
         ASSUME NEW T \in SUBSET S, \A U \in SUBSET T : U # T => U \in G
         PROVE  T \in G
  PROVE  \A T \in SUBSET S : T \in G
<1> DEFINE B == (SUBSET S) \ G
           N == {Cardinality(T) : T \in B}
<1> SUFFICES ASSUME B # {} PROVE FALSE
  OBVIOUS
<1>1. N \subseteq Nat /\ N # {}
  BY FS_Subset, FS_CardinalityType
<1>2. PICK T \in B : \A U \in B : Cardinality(T) <= Cardinality(U)
  <2>1. \E n \in N : \A m \in N : n <= m
    <3> HIDE DEF N
    <3> QED
      BY <1>1, LeastNumber
  <2> QED
    BY <2>1
<1>3. ASSUME NEW U \in SUBSET T, U # T PROVE U \in G
  <2>1. IsFiniteSet(T) /\ IsFiniteSet(U) /\ Cardinality(U) \in Nat /\ Cardinality(T) \in Nat
    BY FS_Subset, FS_CardinalityType
  <2>2. Cardinality(U) <= Cardinality(T) /\ Cardinality(U) # Cardinality(T)
    BY <1>3, <2>1, FS_Subset
  <2> QED
    BY <1>2, <2>1, <2>2
<1> QED
  BY <1>3

-----------------------------------------------------------------------------
(* Totals.                                                                 *)

\* f gives every subset of S the sum of w over it.
SumsOf(f, w, S) ==
  f = [s \in SUBSET S |-> IF s = {} THEN 0 ELSE w[Chosen(s)] + f[s \ {Chosen(s)}]]

\* Total is a sum: the facts about sums apply to it.
LEMMA TotalIsSum ==
  ASSUME NEW w, NEW S
  PROVE  Total(w, S) = (CHOOSE f : SumsOf(f, w, S))[S]
BY DEF SumsOf, Total, MapThenSumSet, MapThenFoldSet, Chosen

\* Every finite set has a sum.
LEMMA SumsExist ==
  ASSUME NEW w, NEW S, IsFiniteSet(S), \A j \in S : w[j] \in Int
  PROVE  \E f : SumsOf(f, w, S)
<1> DEFINE ch == [s \in SUBSET S |-> Chosen(s)]
           h  == [x \in (SUBSET S) \X Int |-> IF x[1] = {} THEN 0 ELSE w[Chosen(x[1])] + x[2]]
<1>1. \A s \in SUBSET S : s # {} => ch[s] \in s
  BY DEF Chosen
<1>2. ASSUME NEW s \in SUBSET S, NEW v \in Int PROVE h[<<s, v>>] \in Int
  <2>1. h[<<s, v>>] = IF s = {} THEN 0 ELSE w[Chosen(s)] + v
    OBVIOUS
  <2>2. s # {} => w[Chosen(s)] \in Int
    BY <1>1
  <2> QED
    BY <2>1, <2>2
<1>3. FoldGiven(S, Int, 0, h, ch)
  <2> HIDE DEF h, ch
  <2> QED
    BY <1>1, <1>2 DEF FoldGiven
<1>f. PICK f : FoldOf(f, S, Int, 0, h, ch)
  <2> HIDE DEF h, ch
  <2> QED
    BY <1>3, FoldExists
<1>4. ASSUME NEW s \in SUBSET S, s # {}
      PROVE  f[s] = w[Chosen(s)] + f[s \ {Chosen(s)}]
  <2>1. s \ {Chosen(s)} \in SUBSET S
    OBVIOUS
  <2> QED
    BY <1>f, <1>4, <2>1 DEF FoldOf
<1>5. f = [s \in SUBSET S |-> IF s = {} THEN 0 ELSE w[Chosen(s)] + f[s \ {Chosen(s)}]]
  BY <1>f, <1>4 DEF FoldOf
<1> QED
  BY <1>5 DEF SumsOf

\* Sums over different sets agree where both are defined.
LEMMA SumsAgree ==
  ASSUME NEW w, NEW S, IsFiniteSet(S), NEW T \in SUBSET S,
         NEW f, NEW g, SumsOf(f, w, S), SumsOf(g, w, T)
  PROVE  f[T] = g[T]
<1> DEFINE G == {s \in SUBSET T : f[s] = g[s]}
<1>1. ASSUME NEW s \in SUBSET T, \A u \in SUBSET s : u # s => u \in G
      PROVE  s \in G
  <2>1. CASE s = {}
    BY <2>1 DEF SumsOf
  <2>2. CASE s # {}
    <3>1. s \in SUBSET S /\ Chosen(s) \in s
      BY <2>2 DEF Chosen
    <3>2. f[s] = w[Chosen(s)] + f[s \ {Chosen(s)}] /\ g[s] = w[Chosen(s)] + g[s \ {Chosen(s)}]
      BY <2>2, <3>1 DEF SumsOf
    <3>3. f[s \ {Chosen(s)}] = g[s \ {Chosen(s)}]
      BY <3>1, <1>1
    <3> QED
      BY <3>2, <3>3
  <2> QED
    BY <2>1, <2>2
<1>2. T \in G
  <2> HIDE DEF G
  <2>1. IsFiniteSet(T)
    BY FS_Subset
  <2> QED
    BY <1>1, <2>1, BySubsets
<1> QED
  BY <1>2

\* A total is the first element's part and the total of the others.
LEMMA TotalStep ==
  ASSUME NEW w, NEW S, IsFiniteSet(S), \A j \in S : w[j] \in Int
  PROVE  Total(w, S) = IF S = {} THEN 0 ELSE w[Chosen(S)] + Total(w, S \ {Chosen(S)})
<1> DEFINE f == CHOOSE f : SumsOf(f, w, S)
           T == S \ {Chosen(S)}
           g == CHOOSE g : SumsOf(g, w, T)
<1>1. IsFiniteSet(T)
  BY FS_Subset
<1>2. SumsOf(f, w, S) /\ SumsOf(g, w, T)
  BY <1>1, SumsExist
<1>t. T \in SUBSET S
  OBVIOUS
<1>3. f[T] = g[T]
  <2> HIDE DEF f, g, T
  <2> QED
    BY <1>2, <1>t, SumsAgree
<1>4. f[S] = IF S = {} THEN 0 ELSE w[Chosen(S)] + f[T]
  <2> HIDE DEF f
  <2> QED
    BY <1>2 DEF SumsOf
<1>5. Total(w, S) = f[S] /\ Total(w, T) = g[T]
  BY TotalIsSum
<1> QED
  BY <1>3, <1>4, <1>5

\* The total of whole numbers is one, and no order of adding matters.
LEMMA TotalOut ==
  ASSUME NEW w, NEW S, IsFiniteSet(S), \A j \in S : w[j] \in Int
  PROVE  /\ Total(w, S) \in Int
         /\ \A x \in S : Total(w, S) = w[x] + Total(w, S \ {x})
<1> DEFINE Ok(T) == /\ Total(w, T) \in Int
                    /\ \A x \in T : Total(w, T) = w[x] + Total(w, T \ {x})
           G == {T \in SUBSET S : Ok(T)}
<1>1. ASSUME NEW T \in SUBSET S, \A U \in SUBSET T : U # T => U \in G
      PROVE  T \in G
  <2>1. CASE T = {}
    <3>1. Total(w, {}) = 0
      BY TotalStep, FS_EmptySet
    <3> QED
      BY <2>1, <3>1
  <2>2. CASE T # {}
    <3> DEFINE y == Chosen(T)
    <3>1. y \in T /\ w[y] \in Int
      BY <2>2 DEF Chosen
    <3>2. Total(w, T) = w[y] + Total(w, T \ {y})
      BY <2>2, FS_Subset, TotalStep
    <3> HIDE DEF y
    <3>3. ASSUME NEW U \in SUBSET T, U # T PROVE Ok(U)
      BY <1>1, <3>3
    <3>4. Total(w, T) \in Int
      BY <3>1, <3>2, <3>3
    <3>5. ASSUME NEW x \in T, x # y PROVE Total(w, T) = w[x] + Total(w, T \ {x})
      <4> DEFINE U == (T \ {x}) \ {y}
      <4>1. /\ Ok(T \ {x}) /\ Ok(T \ {y}) /\ Ok(U) /\ w[x] \in Int
            /\ y \in T \ {x} /\ x \in T \ {y} /\ U = (T \ {y}) \ {x}
        BY <3>1, <3>3, <3>5
      <4>2. Total(w, T \ {x}) = w[y] + Total(w, U) /\ Total(w, T \ {y}) = w[x] + Total(w, U)
        BY <4>1
      <4> QED
        BY <3>1, <3>2, <4>1, <4>2
    <3> QED
      BY <3>2, <3>4, <3>5
  <2> QED
    BY <2>1, <2>2
<1>2. S \in G
  <2> HIDE DEF G
  <2> QED
    BY <1>1, BySubsets
<1> QED
  BY <1>2

\* The total of natural numbers is one, and no part of it is larger.
LEMMA TotalNat ==
  ASSUME NEW w, NEW S, IsFiniteSet(S), \A j \in S : w[j] \in Nat
  PROVE  /\ Total(w, S) \in Nat
         /\ \A x \in S : w[x] <= Total(w, S)
<1> DEFINE G == {T \in SUBSET S : Total(w, T) \in Nat}
<1>1. ASSUME NEW T \in SUBSET S, \A U \in SUBSET T : U # T => U \in G
      PROVE  T \in G
  <2>1. IsFiniteSet(T)
    BY FS_Subset
  <2>2. CASE T = {}
    <3>1. Total(w, {}) = 0
      BY TotalStep, FS_EmptySet
    <3> QED
      BY <2>2, <3>1
  <2>3. CASE T # {}
    <3>1. PICK y \in T : TRUE
      BY <2>3
    <3>2. Total(w, T) = w[y] + Total(w, T \ {y})
      BY <2>1, TotalOut
    <3>3. Total(w, T \ {y}) \in Nat
      BY <1>1
    <3> QED
      BY <3>2, <3>3
  <2> QED
    BY <2>2, <2>3
<1>2. \A T \in SUBSET S : T \in G
  <2> HIDE DEF G
  <2> QED
    BY <1>1, BySubsets
<1>3. ASSUME NEW x \in S PROVE w[x] <= Total(w, S)
  <2>1. Total(w, S) = w[x] + Total(w, S \ {x})
    BY TotalOut
  <2>2. Total(w, S \ {x}) \in Nat
    BY <1>2
  <2> QED
    BY <2>1, <2>2
<1> QED
  BY <1>2, <1>3

\* The total over two disjoint sets.
LEMMA TotalBoth ==
  ASSUME NEW w, NEW A, NEW B, IsFiniteSet(A), IsFiniteSet(B), A \cap B = {},
         \A j \in A \cup B : w[j] \in Int
  PROVE  Total(w, A \cup B) = Total(w, A) + Total(w, B)
<1> DEFINE G == {T \in SUBSET A : Total(w, T \cup B) = Total(w, T) + Total(w, B)}
<1>1. Total(w, B) \in Int
  BY TotalOut
<1>2. ASSUME NEW T \in SUBSET A, \A U \in SUBSET T : U # T => U \in G
      PROVE  T \in G
  <2>1. IsFiniteSet(T) /\ IsFiniteSet(T \cup B)
    BY FS_Subset, FS_Union
  <2>2. CASE T = {}
    <3>1. Total(w, {}) = 0
      BY TotalStep, FS_EmptySet
    <3>2. {} \cup B = B
      OBVIOUS
    <3> QED
      BY <1>1, <2>2, <3>1, <3>2
  <2>3. CASE T # {}
    <3>1. PICK y \in T : TRUE
      BY <2>3
    <3> DEFINE U == T \ {y}
    <3>2. U \in G
      BY <1>2
    <3>3. (T \cup B) \ {y} = U \cup B /\ y \in T \cup B
      BY <3>1
    <3>4. Total(w, T \cup B) = w[y] + Total(w, U \cup B)
      BY <2>1, <3>3, TotalOut
    <3>5. Total(w, T) = w[y] + Total(w, U)
      BY <2>1, TotalOut
    <3>6. Total(w, U) \in Int /\ w[y] \in Int
      BY <2>1, FS_Subset, TotalOut
    <3> HIDE DEF U
    <3>7. Total(w, U \cup B) = Total(w, U) + Total(w, B)
      BY <3>2
    <3> QED
      BY <1>1, <3>4, <3>5, <3>6, <3>7
  <2> QED
    BY <2>2, <2>3
<1>3. A \in G
  <2> HIDE DEF G
  <2> QED
    BY <1>2, BySubsets
<1> QED
  BY <1>3

\* Two totals with the same parts are the same.
LEMMA TotalSame ==
  ASSUME NEW w, NEW v, NEW S, IsFiniteSet(S), \A j \in S : w[j] \in Int /\ v[j] = w[j]
  PROVE  Total(v, S) = Total(w, S)
<1> DEFINE G == {T \in SUBSET S : Total(v, T) = Total(w, T)}
<1>1. ASSUME NEW T \in SUBSET S, \A U \in SUBSET T : U # T => U \in G
      PROVE  T \in G
  <2>1. IsFiniteSet(T)
    BY FS_Subset
  <2>2. CASE T = {}
    BY <2>2, TotalStep, FS_EmptySet
  <2>3. CASE T # {}
    <3>1. PICK y \in T : TRUE
      BY <2>3
    <3>2. Total(w, T) = w[y] + Total(w, T \ {y}) /\ Total(v, T) = v[y] + Total(v, T \ {y})
      BY <2>1, TotalOut
    <3>3. Total(v, T \ {y}) = Total(w, T \ {y}) /\ v[y] = w[y]
      BY <1>1
    <3> QED
      BY <3>2, <3>3
  <2> QED
    BY <2>2, <2>3
<1>2. S \in G
  <2> HIDE DEF G
  <2> QED
    BY <1>1, BySubsets
<1> QED
  BY <1>2

\* S stands for disjoint sets, and v gives each one's total.
Parts(w, S, part, v) ==
  /\ \A c \in S : /\ IsFiniteSet(part[c]) /\ v[c] = Total(w, part[c])
                   /\ \A j \in part[c] : w[j] \in Int
  /\ \A c, d \in S : c # d => part[c] \cap part[d] = {}

Whole(S, part) == UNION {part[c] : c \in S}

\* All of them together, totalled part by part.
LEMMA TotalOfParts ==
  ASSUME NEW w, NEW S, IsFiniteSet(S), NEW part, NEW v, Parts(w, S, part, v)
  PROVE  Total(v, S) = Total(w, Whole(S, part))
<1> USE DEF Parts, Whole
<1> DEFINE All(T) == UNION {part[c] : c \in T}
           G == {T \in SUBSET S : IsFiniteSet(All(T)) /\ Total(v, T) = Total(w, All(T))}
<1>1. ASSUME NEW T \in SUBSET S, \A U \in SUBSET T : U # T => U \in G
      PROVE  T \in G
  <2>1. IsFiniteSet(T)
    BY FS_Subset
  <2>2. CASE T = {}
    <3>1. All(T) = {}
      BY <2>2
    <3>2. Total(v, {}) = 0 /\ Total(w, {}) = 0
      BY TotalStep, FS_EmptySet
    <3> QED
      BY <2>2, <3>1, <3>2, FS_EmptySet
  <2>3. CASE T # {}
    <3>1. PICK y \in T : TRUE
      BY <2>3
    <3> DEFINE U == T \ {y}
               A == part[y]
               B == All(U)
    <3>2. U \in G
      BY <1>1
    <3>3. IsFiniteSet(B) /\ Total(v, U) = Total(w, B)
      BY <3>2
    <3>4. IsFiniteSet(A) /\ v[y] = Total(w, A)
      BY <3>1
    <3>5. All(T) = A \cup B
      BY <3>1
    <3>6. A \cap B = {} /\ \A j \in A \cup B : w[j] \in Int
      BY <3>1
    <3>7. \A c \in T : v[c] \in Int
      BY TotalOut
    <3>8. Total(v, T) = v[y] + Total(v, U)
      BY <2>1, <3>7, TotalOut
    <3> HIDE DEF U, A, B, All
    <3>9. IsFiniteSet(A) /\ IsFiniteSet(B)
      BY <3>3, <3>4
    <3>10. IsFiniteSet(A \cup B)
      BY <3>9, FS_Union
    <3>11. Total(w, A \cup B) = Total(w, A) + Total(w, B)
      BY <3>6, <3>9, TotalBoth
    <3> QED
      BY <3>3, <3>4, <3>5, <3>8, <3>10, <3>11
  <2> QED
    BY <2>2, <2>3
<1>2. S \in G
  <2> HIDE DEF G
  <2> QED
    BY <1>1, BySubsets
<1> QED
  BY <1>2

\* The total of equal parts.
LEMMA TotalEqual ==
  ASSUME NEW w, NEW S, IsFiniteSet(S), NEW x \in Int, \A j \in S : w[j] = x
  PROVE  Total(w, S) = Cardinality(S) * x
<1> DEFINE G == {T \in SUBSET S : Total(w, T) = Cardinality(T) * x}
<1>1. ASSUME NEW T \in SUBSET S, \A U \in SUBSET T : U # T => U \in G
      PROVE  T \in G
  <2>1. IsFiniteSet(T)
    BY FS_Subset
  <2>2. CASE T = {}
    <3>1. Total(w, {}) = 0 /\ Cardinality({}) = 0
      BY TotalStep, FS_EmptySet
    <3> QED
      BY <2>2, <3>1
  <2>3. CASE T # {}
    <3>1. PICK y \in T : TRUE
      BY <2>3
    <3>2. Total(w, T) = x + Total(w, T \ {y})
      BY <2>1, TotalOut
    <3>3. /\ Cardinality(T) \in Nat /\ Cardinality(T \ {y}) = Cardinality(T) - 1
      BY <2>1, <3>1, OneOut
    <3>4. Total(w, T \ {y}) = Cardinality(T \ {y}) * x
      BY <1>1
    <3>5. \A n \in Nat : x + (n - 1) * x = n * x
      OBVIOUS
    <3> QED
      BY <3>2, <3>3, <3>4, <3>5
  <2> QED
    BY <2>2, <2>3
<1>2. S \in G
  <2> HIDE DEF G
  <2> QED
    BY <1>1, BySubsets
<1> QED
  BY <1>2
=============================================================================
