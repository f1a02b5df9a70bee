--------------------------- MODULE DocumentProofs ---------------------------
(***************************************************************************)
(* What holds of merging and of splitting whatever the documents are.      *)
(*                                                                         *)
(* Merging.  The target only grows: its collections are extended at the    *)
(* end, so what a place in them holds stays, and all that has to be shown  *)
(* of a round is that the references and numbers of the input it appends   *)
(* are shifted to the places its own entries get.                          *)
(*                                                                         *)
(* What a picture names is followed through the graft: the entries of the   *)
(* table get storage ids that no stream goes by, their payloads the names  *)
(* of these, and the other streams keep their names or get one that nobody *)
(* has; so what a reference finds first is what it found first.            *)
(*                                                                         *)
(* Splitting.  A run publishes its fragments under their numbers, and from *)
(* then on only other files are touched: each is removed, or was never     *)
(* there, or there is a warning.  A range becomes two boundaries between   *)
(* paragraphs, and a fragment is what lies between them: page starts are   *)
(* in document order, so the starts up to a paragraph are the first ones,  *)
(* and rounding a start moves it past no paragraph's beginning.            *)
(***************************************************************************)
EXTENDS DocumentMerge, DocumentSplit, FoldFacts

\* A function has finitely many values on a finite set.
LEMMA FiniteImage ==
  ASSUME NEW S, IsFiniteSet(S), NEW f
  PROVE  IsFiniteSet({f[x] : x \in S})
<1> DEFINE g == [x \in S |-> f[x]]
<1>1. g \in Surjection(S, {f[x] : x \in S})
  BY DEF Surjection
<1> QED
  BY <1>1, FS_Surjection

(***************************************************************************)
(* Inputs                                                                  *)
(***************************************************************************)

\* The inputs are three documents as the readers make them.
InputsOK ==
  /\ Len(inputs) = 3 /\ DOMAIN inputs = 1..3
  /\ \A k \in 1..3 : IsInput(inputs[k], k)

\* Where a merge begins: three inputs, and the first as the target.
LEMMA InitInputs ==
  ASSUME Init
  PROVE  InputsOK /\ target = inputs[1]
<1>1. PICK some \in Documents : \E a \in some[1], b \in some[2], c \in some[3] :
        inputs = <<a, b, c>>
  BY DEF Init
<1>2. PICK a \in some[1], b \in some[2], c \in some[3] : inputs = <<a, b, c>>
  BY <1>1
<1>3. IsInput(a, 1) /\ IsInput(b, 2) /\ IsInput(c, 3)
  BY DocumentsAssumption
<1>4. Len(inputs) = 3 /\ DOMAIN inputs = 1..3
  BY <1>2
<1>5. \A k \in 1..3 : IsInput(inputs[k], k)
  BY <1>2, <1>3
<1> QED
  BY <1>4, <1>5 DEF InputsOK, Init

\* The inputs stay.
LEMMA InputsStay ==
  ASSUME InputsOK, [Next]_vars
  PROVE  InputsOK'
BY DEF Next, MergeInput, Finish, Done, vars, InputsOK

\* The parts of an input.
LEMMA InputParts ==
  ASSUME NEW d, NEW k, IsInput(d, k)
  PROVE  /\ d \in Document
         /\ d.levels \in Seq(Entry) /\ d.bullets \in Seq(Entry)
         /\ d.rawLevels \in Seq(Entry) /\ d.rawBullets \in Seq(Entry)
         /\ d.sections \in Seq(Seq(Paragraph)) /\ Len(d.sections) = 1
         /\ d.sections[1] \in Seq(Paragraph)
         /\ RawAligned(d.rawLevels, d.levels) /\ RawAligned(d.rawBullets, d.bullets)
<1>1. d \in Document /\ Len(d.sections) = 1
  BY DEF IsInput
<1>2. d.sections \in Seq(Seq(Paragraph))
  BY <1>1 DEF Document
<1>3. d.sections[1] \in Seq(Paragraph)
  BY <1>1, <1>2
<1>4. /\ d.levels \in Seq(Entry) /\ d.bullets \in Seq(Entry)
      /\ d.rawLevels \in Seq(Entry) /\ d.rawBullets \in Seq(Entry)
  BY <1>1 DEF Document
<1> QED
  BY <1>1, <1>2, <1>3, <1>4 DEF IsInput

(***************************************************************************)
(* Raw records                                                             *)
(***************************************************************************)

\* Appending entries, and raw records by AlignedRaw or not at all, keeps every
\* raw record at its entry.
LEMMA AlignedStays ==
  ASSUME NEW raw \in Seq(Entry), NEW entries \in Seq(Entry),
         NEW inRaw \in Seq(Entry), NEW inEntries \in Seq(Entry),
         RawAligned(raw, entries), RawAligned(inRaw, inEntries)
  PROVE  /\ AlignedRaw(raw, entries, inRaw, inEntries) \in Seq(Entry)
         /\ RawAligned(AlignedRaw(raw, entries, inRaw, inEntries), entries \o inEntries)
         /\ RawAligned(raw, entries \o inEntries)
<1> DEFINE all == entries \o inEntries
<1>1. /\ all \in Seq(Entry) /\ Len(all) = Len(entries) + Len(inEntries)
      /\ \A n \in 1..Len(entries) : all[n] = entries[n]
      /\ \A n \in 1..Len(inEntries) : all[n + Len(entries)] = inEntries[n]
  OBVIOUS
<1>2. RawAligned(raw, all)
  BY <1>1 DEF RawAligned
<1>3. ASSUME Len(raw) = Len(entries), Len(inRaw) = Len(inEntries)
      PROVE  RawAligned(raw \o inRaw, all)
  <2> DEFINE raws == raw \o inRaw
  <2>1. /\ raws \in Seq(Entry) /\ Len(raws) = Len(raw) + Len(inRaw)
        /\ \A n \in 1..Len(raw) : raws[n] = raw[n]
        /\ \A n \in 1..Len(inRaw) : raws[n + Len(raw)] = inRaw[n]
    OBVIOUS
  <2> SUFFICES ASSUME NEW n \in 1..Len(raws)
               PROVE  n \in DOMAIN all /\ raws[n].of = all[n].of
    <3>1. DOMAIN raws = 1..Len(raws)
      BY <2>1
    <3> HIDE DEF raws, all
    <3>2. RawAligned(raws, all) <=> \A m \in DOMAIN raws : m \in DOMAIN all /\ raws[m].of = all[m].of
      BY Zenon DEF RawAligned
    <3> QED
      BY <3>1, <3>2 DEF raws
  <2>2. n \in DOMAIN all
    BY <1>1, <1>3, <2>1
  <2>3. CASE n <= Len(raw)
    BY <2>3, <2>2, <2>1, <1>1, <1>3 DEF RawAligned
  <2>4. CASE n > Len(raw)
    <3> DEFINE m == n - Len(raw)
    <3>1. m \in 1..Len(inRaw) /\ n = m + Len(raw)
      BY <2>4, <2>1
    <3>2. raws[n] = inRaw[m] /\ all[n] = inEntries[m]
      BY <3>1, <2>1, <1>1, <1>3
    <3>3. inRaw[m].of = inEntries[m].of
      BY <3>1 DEF RawAligned
    <3> QED
      BY <3>2, <3>3, <2>2
  <2> QED
    BY <2>3, <2>4, <2>1
<1>4. raw \o inRaw \in Seq(Entry)
  OBVIOUS
<1> QED
  BY <1>2, <1>3, <1>4 DEF AlignedRaw

(***************************************************************************)
(* Object numbers                                                          *)
(***************************************************************************)

\* The objects of an input are those of its paragraphs, finitely many.
LEMMA InputObjects ==
  ASSUME NEW d, NEW k, IsInput(d, k)
  PROVE  /\ ObjectsOf(d) = {d.sections[1][j].object : j \in DOMAIN d.sections[1]}
         /\ ObjectsOf(d) \subseteq Object
         /\ IsFiniteSet(ObjectsOf(d))
<1> DEFINE section == d.sections[1]
           objects == {section[j].object : j \in DOMAIN section}
<1>1. Len(d.sections) = 1 /\ d.sections \in Seq(Seq(Paragraph)) /\ section \in Seq(Paragraph)
  BY InputParts
<1>2. ToSet(d.sections) = {section}
  BY <1>1 DEF ToSet
<1>3. UNION {ToSet(s) : s \in ToSet(d.sections)} = ToSet(section)
  BY <1>2
<1>4. ObjectsOf(d) = {p.object : p \in ToSet(section)}
  BY <1>3 DEF ObjectsOf
<1>5. ObjectsOf(d) = objects
  BY <1>4 DEF ToSet
<1>6. \A j \in DOMAIN section : section[j].object \in Object
  <2>1. \A j \in DOMAIN section : section[j] \in Paragraph
    BY <1>1
  <2> QED
    BY <2>1 DEF Paragraph
<1>7. IsFiniteSet(objects)
  <2>1. DOMAIN section = 1..Len(section) /\ Len(section) \in Nat
    BY <1>1
  <2>2. IsFiniteSet(DOMAIN section)
    BY <2>1, FS_Interval
  <2> DEFINE f == [j \in DOMAIN section |-> section[j].object]
  <2>3. IsFiniteSet({f[j] : j \in DOMAIN section})
    BY <2>2, FiniteImage
  <2>4. {f[j] : j \in DOMAIN section} = objects
    OBVIOUS
  <2> QED
    BY <2>3, <2>4
<1> QED
  BY <1>5, <1>6, <1>7

\* The id made of a z-order is a number.
LEMMA FromZType ==
  ASSUME NEW o \in Object
  PROVE  FromZ(o) \in Int
<1>1. o.number \in Int /\ Synthetic \in Int /\ Wrap \in Nat \ {0}
  BY NumbersAssumption DEF Object
<1>2. o.number % Wrap \in Int
  BY <1>1
<1>3. Synthetic + (o.number % Wrap) \in Int
  BY <1>1, <1>2
<1> QED
  BY <1>3 DEF FromZ

\* What is counted of an object is at most one number.
LEMMA CountedFacts ==
  ASSUME NEW o \in Object
  PROVE  /\ o.number \in Int
         /\ CountedId(o) \subseteq Int /\ IsFiniteSet(CountedId(o))
<1>1. o.number \in Int /\ FromZ(o) \in Int
  BY FromZType DEF Object
<1>2. CountedId(o) = {} \/ CountedId(o) = {o.number} \/ CountedId(o) = {FromZ(o)}
  BY DEF CountedId
<1> HIDE DEF CountedId
<1>3. IsFiniteSet(CountedId(o))
  BY <1>2, FS_EmptySet, FS_Singleton
<1> QED
  BY <1>1, <1>2, <1>3

\* What is numbered has one identity: its number, or the id made of it.
LEMMA IdentityFacts ==
  ASSUME NEW o \in Object
  PROVE  /\ o.number \in Int
         /\ Numbering(o) = "id" => Identity(o) = {o.number}
         /\ Numbering(o) = "z"  => Identity(o) = {Synthetic + (o.number % Wrap)}
<1>1. o.number \in Int
  BY DEF Object
<1>2. Numbering(o) = "id" => o.data = "full"
  BY DEF Numbering
<1>3. Numbering(o) = "z" => o.data = "empty" /\ o.kind = "table" /\ o.placed
  BY DEF Numbering
<1> QED
  BY <1>1, <1>2, <1>3 DEF Identity, FromZ

\* The first numbers handed out are past all of the first input.
LEMMA FirstNumbers ==
  ASSUME NEW d, NEW k, IsInput(d, k)
  PROVE  /\ Max(ObjectIds(d) \cup {0}) \in Int
         /\ Max(ZOrders(d) \cup {0}) \in Int
         /\ \A o \in ObjectsOf(d) :
              /\ Numbering(o) = "id" => o.number <= Max(ObjectIds(d) \cup {0})
              /\ Numbering(o) = "z"  => o.number <= Max(ZOrders(d) \cup {0})
<1>1. ObjectsOf(d) \subseteq Object /\ IsFiniteSet(ObjectsOf(d))
  BY InputObjects
<1>2. ObjectIds(d) \subseteq Int /\ IsFiniteSet(ObjectIds(d))
  <2> DEFINE sets == {CountedId(o) : o \in ObjectsOf(d)}
  <2>1. \A o \in ObjectsOf(d) : IsFiniteSet(CountedId(o)) /\ CountedId(o) \subseteq Int
    BY <1>1, CountedFacts
  <2>2. IsFiniteSet(sets)
    <3> DEFINE f == [o \in ObjectsOf(d) |-> CountedId(o)]
    <3>1. IsFiniteSet({f[o] : o \in ObjectsOf(d)})
      BY <1>1, FiniteImage
    <3>2. {f[o] : o \in ObjectsOf(d)} = sets
      OBVIOUS
    <3> QED
      BY <3>1, <3>2
  <2>3. \A s \in sets : IsFiniteSet(s)
    BY <2>1
  <2>4. IsFiniteSet(UNION sets)
    BY <2>2, <2>3, FS_UNION
  <2> QED
    BY <2>1, <2>4 DEF ObjectIds
<1>3. ZOrders(d) \subseteq Int /\ IsFiniteSet(ZOrders(d))
  <2> DEFINE some == {x \in ObjectsOf(d) : Numbering(x) = "z"}
  <2>1. IsFiniteSet(some)
    BY <1>1, FS_Subset
  <2>2. IsFiniteSet({o.number : o \in some})
    <3> DEFINE f == [o \in some |-> o.number]
    <3> HIDE DEF some
    <3>1. IsFiniteSet({f[o] : o \in some})
      BY <2>1, FiniteImage
    <3>2. {f[o] : o \in some} = {o.number : o \in some}
      OBVIOUS
    <3> QED
      BY <3>1, <3>2
  <2>3. \A o \in some : o.number \in Int
    BY <1>1, CountedFacts
  <2> QED
    BY <2>2, <2>3 DEF ZOrders
<1>4. /\ Max(ObjectIds(d) \cup {0}) \in Int
      /\ \A n \in ObjectIds(d) : n <= Max(ObjectIds(d) \cup {0})
  <2> DEFINE S == ObjectIds(d) \cup {0}
  <2>1. S \subseteq Int /\ S # {} /\ IsFiniteSet(S)
    BY <1>2, FS_AddElement
  <2> HIDE DEF S
  <2>2. Max(S) \in S /\ \A x \in S : x <= Max(S)
    BY <2>1, MaxExists
  <2> QED
    BY <2>1, <2>2 DEF S
<1>5. /\ Max(ZOrders(d) \cup {0}) \in Int
      /\ \A n \in ZOrders(d) : n <= Max(ZOrders(d) \cup {0})
  <2> DEFINE S == ZOrders(d) \cup {0}
  <2>1. S \subseteq Int /\ S # {} /\ IsFiniteSet(S)
    BY <1>3, FS_AddElement
  <2> HIDE DEF S
  <2>2. Max(S) \in S /\ \A x \in S : x <= Max(S)
    BY <2>1, MaxExists
  <2> QED
    BY <2>1, <2>2 DEF S
<1>6. ASSUME NEW o \in ObjectsOf(d)
      PROVE  /\ Numbering(o) = "id" => o.number \in ObjectIds(d)
             /\ Numbering(o) = "z"  => o.number \in ZOrders(d)
  <2>1. Numbering(o) = "id" => o.data = "full"
    BY DEF Numbering
  <2>2. Numbering(o) = "id" => o.number \in CountedId(o)
    BY <2>1 DEF CountedId
  <2> QED
    BY <2>2 DEF ObjectIds, ZOrders
<1> QED
  BY <1>4, <1>5, <1>6

\* How many places up to one are numbered in a way: a number that grows by one
\* at each such place.
LEMMA NumberedCount ==
  ASSUME NEW section, NEW way, NEW n \in Nat
  PROVE  /\ IsFiniteSet(NumberedSo(section, way, n))
         /\ Cardinality(NumberedSo(section, way, n)) \in Nat
         /\ \A i \in 1..n :
              /\ Cardinality(NumberedSo(section, way, i - 1)) \in Nat
              /\ Cardinality(NumberedSo(section, way, i - 1)) <= Cardinality(NumberedSo(section, way, n))
              /\ Numbering(section[i].object) = way =>
                   Cardinality(NumberedSo(section, way, i - 1)) < Cardinality(NumberedSo(section, way, n))
<1>1. \A m \in Nat : IsFiniteSet(NumberedSo(section, way, m))
  <2> SUFFICES ASSUME NEW m \in Nat PROVE IsFiniteSet(NumberedSo(section, way, m))
    OBVIOUS
  <2>1. IsFiniteSet(1..m)
    BY FS_Interval
  <2> QED
    BY <2>1, FS_Subset DEF NumberedSo
<1>2. \A m \in Nat : Cardinality(NumberedSo(section, way, m)) \in Nat
  BY <1>1, FS_CardinalityType
<1>3. ASSUME NEW i \in 1..n
      PROVE  /\ Cardinality(NumberedSo(section, way, i - 1)) \in Nat
             /\ Cardinality(NumberedSo(section, way, i - 1)) <= Cardinality(NumberedSo(section, way, n))
             /\ Numbering(section[i].object) = way =>
                  Cardinality(NumberedSo(section, way, i - 1)) < Cardinality(NumberedSo(section, way, n))
  <2> DEFINE A == NumberedSo(section, way, i - 1)
             B == NumberedSo(section, way, n)
  <2>1. i - 1 \in Nat /\ A \subseteq B
    BY DEF NumberedSo
  <2>2. IsFiniteSet(B) /\ IsFiniteSet(A)
    BY <1>1, <2>1
  <2>3. Cardinality(A) <= Cardinality(B)
    BY <2>1, <2>2, FS_Subset
  <2>4. ASSUME Numbering(section[i].object) = way PROVE Cardinality(A) < Cardinality(B)
    <3>1. i \in B /\ i \notin A
      BY <2>4 DEF NumberedSo
    <3>2. Cardinality(A) # Cardinality(B)
      BY <3>1, <2>1, <2>2, FS_Subset
    <3>3. Cardinality(A) \in Nat /\ Cardinality(B) \in Nat
      BY <1>2, <2>1
    <3> QED
      BY <3>2, <3>3, <2>3
  <2> QED
    BY <2>1, <2>3, <2>4, <1>2
<1> QED
  BY <1>1, <1>2, <1>3

\* A sequence of paragraphs of which only the objects matter.
HasObjects(section) ==
  /\ Len(section) \in Nat /\ DOMAIN section = 1..Len(section)
  /\ \A i \in DOMAIN section : section[i].object \in Object /\ "object" \in DOMAIN section[i]

\* Every number the section gets lies between what was handed out before and
\* what is handed out next; the objects are the same otherwise.
LEMMA RenumberedFacts ==
  ASSUME NEW section, HasObjects(section), NEW object \in Int, NEW z \in Int
  PROVE  LET r == Renumbered(section, object, z)
         IN /\ r.object \in Int /\ r.z \in Int /\ object <= r.object /\ z <= r.z
            /\ DOMAIN r.section = DOMAIN section
            /\ \A i \in DOMAIN section :
                 /\ r.section[i].object \in Object
                 /\ Numbering(r.section[i].object) = Numbering(section[i].object)
                 /\ Numbering(r.section[i].object) = "id" =>
                      object <= r.section[i].object.number /\ r.section[i].object.number < r.object
                 /\ Numbering(r.section[i].object) = "z" =>
                      z <= r.section[i].object.number /\ r.section[i].object.number < r.z
                 /\ r.section[i] = [section[i] EXCEPT !.object = r.section[i].object]
<1> DEFINE Count(way, n) == Cardinality(NumberedSo(section, way, n))
           Number(i) == CASE Numbering(section[i].object) = "id" -> object + Count("id", i - 1)
                          [] Numbering(section[i].object) = "z"  -> z + Count("z", i - 1)
                          [] OTHER -> section[i].object.number
           r == Renumbered(section, object, z)
           L == Len(section)
<1>1. L \in Nat /\ DOMAIN section = 1..L
  BY DEF HasObjects
<1>2. /\ r.object = object + Count("id", L) /\ r.z = z + Count("z", L)
      /\ r.section = [i \in DOMAIN section |-> [section[i] EXCEPT !.object.number = Number(i)]]
  BY DEF Renumbered
<1>3. /\ Count("id", L) \in Nat /\ Count("z", L) \in Nat
      /\ \A i \in 1..L : Count("id", i - 1) \in Nat /\ Count("z", i - 1) \in Nat
      /\ \A i \in 1..L : Numbering(section[i].object) = "id" => Count("id", i - 1) < Count("id", L)
      /\ \A i \in 1..L : Numbering(section[i].object) = "z" => Count("z", i - 1) < Count("z", L)
  BY <1>1, NumberedCount
<1> HIDE DEF Count
<1>4. r.object \in Int /\ r.z \in Int /\ object <= r.object /\ z <= r.z
  BY <1>2, <1>3
<1>5. ASSUME NEW i \in DOMAIN section
      PROVE  /\ r.section[i].object \in Object
             /\ Numbering(r.section[i].object) = Numbering(section[i].object)
             /\ Numbering(r.section[i].object) = "id" =>
                  object <= r.section[i].object.number /\ r.section[i].object.number < r.object
             /\ Numbering(r.section[i].object) = "z" =>
                  z <= r.section[i].object.number /\ r.section[i].object.number < r.z
             /\ r.section[i] = [section[i] EXCEPT !.object = r.section[i].object]
  <2> DEFINE p == section[i]
             o == p.object
             q == r.section[i]
  <2>1. "object" \in DOMAIN p /\ o \in Object /\ i \in 1..L
    BY <1>1 DEF HasObjects
  <2>2. o.number \in Int
    BY <2>1 DEF Object
  <2>3. Number(i) \in Int
    BY <2>1, <2>2, <1>3
  <2>4. q = [p EXCEPT !.object.number = Number(i)]
    BY <1>2
  <2> HIDE DEF Number
  <2>5. q.object = [o EXCEPT !.number = Number(i)] /\ q = [p EXCEPT !.object = q.object]
    BY <2>4, <2>1
  <2>6. /\ q.object \in Object /\ q.object.number = Number(i)
        /\ q.object.kind = o.kind /\ q.object.data = o.data /\ q.object.placed = o.placed
    BY <2>5, <2>1, <2>3 DEF Object
  <2>7. Numbering(q.object) = Numbering(o)
    BY <2>6 DEF Numbering
  <2>8. Numbering(o) = "id" => Number(i) = object + Count("id", i - 1)
    BY DEF Number
  <2>9. Numbering(o) = "z" => Number(i) = z + Count("z", i - 1)
    BY DEF Number
  <2> HIDE DEF o, q
  <2>10. Numbering(q.object) = "id" => object <= q.object.number /\ q.object.number < r.object
    <3> SUFFICES ASSUME Numbering(q.object) = "id"
                 PROVE  object <= q.object.number /\ q.object.number < r.object
      OBVIOUS
    <3>1. q.object.number = object + Count("id", i - 1) /\ Numbering(section[i].object) = "id"
      BY <2>6, <2>7, <2>8 DEF o
    <3>2. Count("id", i - 1) \in Nat /\ Count("id", i - 1) < Count("id", L)
      BY <2>1, <1>3, <3>1
    <3> HIDE DEF r
    <3> QED
      BY <3>1, <3>2, <1>2, <1>3
  <2>11. Numbering(q.object) = "z" => z <= q.object.number /\ q.object.number < r.z
    <3> SUFFICES ASSUME Numbering(q.object) = "z"
                 PROVE  z <= q.object.number /\ q.object.number < r.z
      OBVIOUS
    <3>1. q.object.number = z + Count("z", i - 1) /\ Numbering(section[i].object) = "z"
      BY <2>6, <2>7, <2>9 DEF o
    <3>2. Count("z", i - 1) \in Nat /\ Count("z", i - 1) < Count("z", L)
      BY <2>1, <1>3, <3>1
    <3> HIDE DEF r
    <3> QED
      BY <3>1, <3>2, <1>2, <1>3
  <2> QED
    BY <2>5, <2>6, <2>7, <2>10, <2>11 DEF o, q
<1>6. DOMAIN r.section = DOMAIN section
  BY <1>2
<1> QED
  BY <1>4, <1>5, <1>6

\* The input's section with its references shifted, before it is renumbered.
Remapped(in, how, names) ==
  [i \in DOMAIN in.sections[1] |-> GraftedParagraph(how, names, in.sections[1][i])]

\* What appending an input does to the target and the two counters.
Appended(t, in, how, names, bins, streams, object, z) ==
  Merged(t, in, how, bins, streams, Renumbered(Remapped(in, how, names), object, z).section)

\* A remapped paragraph has the object of the paragraph.
LEMMA RemappedObjects ==
  ASSUME NEW in, NEW k, IsInput(in, k), NEW how, NEW names
  PROVE  LET sec == Remapped(in, how, names)
         IN /\ Len(sec) \in Nat /\ DOMAIN sec = 1..Len(sec)
            /\ DOMAIN sec = DOMAIN in.sections[1]
            /\ \A i \in DOMAIN sec :
                 /\ sec[i] = GraftedParagraph(how, names, in.sections[1][i])
                 /\ sec[i].object = in.sections[1][i].object
                 /\ sec[i].object \in Object
                 /\ "object" \in DOMAIN sec[i]
<1> DEFINE section == in.sections[1]
           sec == Remapped(in, how, names)
<1>1. section \in Seq(Paragraph)
  BY InputParts
<1>2. DOMAIN section = 1..Len(section) /\ Len(section) \in Nat
  BY <1>1
<1>3. DOMAIN sec = 1..Len(section)
  BY <1>2 DEF Remapped
<1>4. Len(sec) = Len(section)
  BY <1>2, <1>3
<1>5. ASSUME NEW i \in DOMAIN section
      PROVE  /\ sec[i] = GraftedParagraph(how, names, section[i])
             /\ sec[i].object = section[i].object
             /\ sec[i].object \in Object
             /\ "object" \in DOMAIN sec[i]
  <2>1. sec[i] = GraftedParagraph(how, names, section[i])
    BY DEF Remapped
  <2>2. section[i] \in Paragraph
    BY <1>1
  <2>3. /\ GraftedParagraph(how, names, section[i]).object = section[i].object
        /\ "object" \in DOMAIN GraftedParagraph(how, names, section[i])
        /\ section[i].object \in Object
    BY <2>2 DEF GraftedParagraph, Paragraph
  <2> QED
    BY <2>1, <2>3
<1> QED
  BY <1>2, <1>3, <1>4, <1>5

\* One round of the loop: the merge is refused, or the next input appended.
LEMMA MergeInputStep ==
  ASSUME MergeInput, InputsOK, done \in 1..3
  PROVE  /\ inputs' = inputs
         /\ \/ UNCHANGED <<done, target, nextObject, nextZ>>
            \/ \E names, bins, streams :
                 LET in  == inputs[done + 1]
                     how == Method(target, in)
                     num == Renumbered(Remapped(in, how, names), nextObject, nextZ)
                 IN /\ done + 1 \in 1..3 /\ done' = done + 1
                    /\ target' = Appended(target, in, how, names, bins, streams, nextObject, nextZ)
                    /\ nextObject' = num.object /\ nextZ' = num.z
<1> DEFINE in   == inputs[done + 1]
           how  == Method(target, in)
           bins == GraftBins(target, in)
           strs == GraftStreams(target, how, in, bins.renamed)
           sec  == [i \in DOMAIN in.sections[1] |->
                      GraftedParagraph(how, strs.names, in.sections[1][i])]
           num  == Renumbered(sec, nextObject, nextZ)
<1>1. inputs' = inputs /\ done + 1 \in 1..3
  <2>1. inputs' = inputs /\ done < Len(inputs)
    BY DEF MergeInput
  <2>2. Len(inputs) = 3
    BY DEF InputsOK
  <2> QED
    BY <2>1, <2>2
<1>2. CASE Overflows(target, in, how, sec, num)
  BY <1>1, <1>2 DEF MergeInput
<1>3. CASE ~Overflows(target, in, how, sec, num)
  <2>1. /\ done' = done + 1
        /\ target' = Merged(target, in, how, bins.bins, strs.streams, num.section)
        /\ nextObject' = num.object /\ nextZ' = num.z
    BY <1>3 DEF MergeInput
  <2>2. sec = Remapped(in, how, strs.names)
    BY DEF Remapped
  <2>3. target' = Appended(target, in, how, strs.names, bins.bins, strs.streams, nextObject, nextZ)
    BY <2>1, <2>2 DEF Appended
  <2> HIDE DEF bins, strs, sec
  <2>4. \E names, b, streams :
          LET n == Renumbered(Remapped(in, how, names), nextObject, nextZ)
          IN /\ done' = done + 1
             /\ target' = Appended(target, in, how, names, b, streams, nextObject, nextZ)
             /\ nextObject' = n.object /\ nextZ' = n.z
    <3>1. /\ nextObject' = Renumbered(Remapped(in, how, strs.names), nextObject, nextZ).object
          /\ nextZ' = Renumbered(Remapped(in, how, strs.names), nextObject, nextZ).z
      BY <2>1, <2>2
    <3> QED
      BY <2>1, <2>3, <3>1
  <2> QED
    BY <1>1, <2>4
<1> QED
  BY <1>2, <1>3

\* Any other step leaves what is merged as it is.
LEMMA OtherSteps ==
  ASSUME [Next]_vars
  PROVE  MergeInput \/ UNCHANGED <<inputs, done, target, nextObject, nextZ>>
BY DEF Next, Finish, Done, vars

(***************************************************************************)
(* Raw records stand for their entries                                     *)
(***************************************************************************)

\* The lists of the target are sequences, with their raw records in place.
ListsOK ==
  /\ target.levels \in Seq(Entry) /\ target.bullets \in Seq(Entry)
  /\ target.rawLevels \in Seq(Entry) /\ target.rawBullets \in Seq(Entry)
  /\ RawRecordsStandForTheirEntries

RawInv == InputsOK /\ done \in 1..3 /\ ListsOK

\* The first input's raw records are in place.
LEMMA RawInit == Init => RawInv
<1> SUFFICES ASSUME Init PROVE RawInv
  OBVIOUS
<1>1. InputsOK /\ target = inputs[1]
  BY InitInputs
<1>2. IsInput(target, 1)
  BY <1>1 DEF InputsOK
<1>3. /\ target.levels \in Seq(Entry) /\ target.bullets \in Seq(Entry)
      /\ target.rawLevels \in Seq(Entry) /\ target.rawBullets \in Seq(Entry)
      /\ RawAligned(target.rawLevels, target.levels) /\ RawAligned(target.rawBullets, target.bullets)
  BY <1>2, InputParts
<1>4. done \in 1..3
  BY DEF Init
<1> QED
  BY <1>1, <1>3, <1>4 DEF RawInv, ListsOK, RawRecordsStandForTheirEntries

\* A round appends raw records for all of its input's entries or for none.
LEMMA RawStep == RawInv /\ [Next]_vars => RawInv'
<1> SUFFICES ASSUME RawInv, [Next]_vars PROVE RawInv'
  OBVIOUS
<1>1. InputsOK /\ done \in 1..3 /\ ListsOK
  BY DEF RawInv
<1>2. InputsOK'
  BY <1>1, InputsStay
<1>3. CASE UNCHANGED <<done, target>>
  BY <1>1, <1>2, <1>3 DEF RawInv, ListsOK, RawRecordsStandForTheirEntries
<1>4. ASSUME NEW names, NEW bins, NEW streams, done + 1 \in 1..3, done' = done + 1,
             target' = Appended(target, inputs[done + 1], Method(target, inputs[done + 1]),
                                names, bins, streams, nextObject, nextZ)
      PROVE  RawInv'
  <2> DEFINE in  == inputs[done + 1]
             how == Method(target, in)
             Raw(raw, entries, inRaw, inEntries) ==
               IF how.whole THEN AlignedRaw(raw, entries, inRaw, inEntries) ELSE raw
  <2>1. IsInput(in, done + 1)
    BY <1>1, <1>4 DEF InputsOK
  <2>2. /\ target'.levels = target.levels \o in.levels
        /\ target'.bullets = target.bullets \o in.bullets
        /\ target'.rawLevels = Raw(target.rawLevels, target.levels, in.rawLevels, in.levels)
        /\ target'.rawBullets = Raw(target.rawBullets, target.bullets, in.rawBullets, in.bullets)
    BY <1>4 DEF Appended, Merged
  <2>3. /\ in.levels \in Seq(Entry) /\ in.bullets \in Seq(Entry)
        /\ in.rawLevels \in Seq(Entry) /\ in.rawBullets \in Seq(Entry)
        /\ RawAligned(in.rawLevels, in.levels) /\ RawAligned(in.rawBullets, in.bullets)
    BY <2>1, InputParts
  <2>4. /\ target.levels \in Seq(Entry) /\ target.bullets \in Seq(Entry)
        /\ target.rawLevels \in Seq(Entry) /\ target.rawBullets \in Seq(Entry)
        /\ RawAligned(target.rawLevels, target.levels) /\ RawAligned(target.rawBullets, target.bullets)
    BY <1>1 DEF ListsOK, RawRecordsStandForTheirEntries
  <2> HIDE DEF in, how
  <2>5. target'.rawLevels \in Seq(Entry) /\ RawAligned(target'.rawLevels, target'.levels)
    <3> DEFINE both == AlignedRaw(target.rawLevels, target.levels, in.rawLevels, in.levels)
               all  == target.levels \o in.levels
    <3>1. both \in Seq(Entry) /\ RawAligned(both, all) /\ RawAligned(target.rawLevels, all)
      BY <2>3, <2>4, AlignedStays
    <3>2. target'.rawLevels = both \/ target'.rawLevels = target.rawLevels
      BY <2>2
    <3>3. target'.levels = all
      BY <2>2
    <3> HIDE DEF both, all
    <3> QED
      BY <3>1, <3>2, <3>3, <2>4
  <2>6. target'.rawBullets \in Seq(Entry) /\ RawAligned(target'.rawBullets, target'.bullets)
    <3> DEFINE both == AlignedRaw(target.rawBullets, target.bullets, in.rawBullets, in.bullets)
               all  == target.bullets \o in.bullets
    <3>1. both \in Seq(Entry) /\ RawAligned(both, all) /\ RawAligned(target.rawBullets, all)
      BY <2>3, <2>4, AlignedStays
    <3>2. target'.rawBullets = both \/ target'.rawBullets = target.rawBullets
      BY <2>2
    <3>3. target'.bullets = all
      BY <2>2
    <3> HIDE DEF both, all
    <3> QED
      BY <3>1, <3>2, <3>3, <2>4
  <2>7. target'.levels \in Seq(Entry) /\ target'.bullets \in Seq(Entry)
    BY <2>2, <2>3, <2>4
  <2> QED
    BY <1>2, <1>4, <2>5, <2>6, <2>7 DEF RawInv, ListsOK, RawRecordsStandForTheirEntries
<1>5. MergeInput \/ UNCHANGED <<done, target>>
  BY OtherSteps
<1>6. CASE MergeInput
  BY <1>6, <1>1, <1>3, <1>4, MergeInputStep
<1> QED
  BY <1>3, <1>5, <1>6

\* A raw NUMBERING or BULLET record is always at the index of the entry it
\* stands for, whatever documents are merged (graft_header_general, #377).
THEOREM RawRecordsAligned == Spec => []RawRecordsStandForTheirEntries
<1>1. RawInv => RawRecordsStandForTheirEntries
  BY DEF RawInv, ListsOK
<1> QED
  BY <1>1, RawInit, RawStep, PTL DEF Spec

(***************************************************************************)
(* Objects of inputs differ                                                *)
(***************************************************************************)

\* Every object in the target has a number below the ones to be handed out.
ObjectsBelow ==
  \A i \in 1..done : \A j \in DOMAIN target.sections[i] :
    LET o == target.sections[i][j].object
    IN /\ o \in Object
       /\ Numbering(o) = "id" => o.number < nextObject
       /\ Numbering(o) = "z"  => o.number < nextZ

ObjectsInv ==
  /\ InputsOK /\ done \in 1..3
  /\ Len(target.sections) = done /\ DOMAIN target.sections = 1..done
  /\ nextObject \in Int /\ nextZ \in Int
  /\ ObjectsBelow
  /\ ObjectsOfInputsDiffer

\* Numbers less than a period apart have different remainders.
LEMMA Remainders ==
  ASSUME NEW a \in Int, NEW b \in Int, NEW n \in Nat \ {0}, a < b, b - a < n
  PROVE  a % n # b % n
<1> DEFINE p == a \div n
           q == b \div n
<1>1. /\ a = n * p + (a % n) /\ b = n * q + (b % n)
      /\ p \in Int /\ q \in Int /\ a % n \in Int /\ b % n \in Int
  OBVIOUS
<1> SUFFICES ASSUME a % n = b % n PROVE FALSE
  OBVIOUS
<1> HIDE DEF p, q
<1>2. b - a = n * q - n * p
  BY <1>1
<1>3. CASE q > p
  <2>1. n * q - n * p >= n
    BY <1>1, <1>3
  <2> QED
    BY <1>2, <2>1
<1>4. CASE q = p
  BY <1>1, <1>4
<1>5. CASE q < p
  <2>1. n * p - n * q >= n
    BY <1>1, <1>5
  <2>2. n * p \in Int /\ n * q \in Int
    BY <1>1
  <2> QED
    BY <1>2, <2>1, <2>2
<1> QED
  BY <1>1, <1>3, <1>4, <1>5

\* Two objects, one numbered before the other.
LEMMA NumbersApart ==
  ASSUME NEW x \in Object, NEW y \in Object,
         Numbering(x) = Numbering(y), Numbering(x) # "none", ~Far(x, y),
         x.number # y.number
  PROVE  Identity(x) \cap Identity(y) = {}
<1>1. x.number \in Int /\ y.number \in Int /\ Synthetic \in Int /\ Wrap \in Nat \ {0}
  BY IdentityFacts, NumbersAssumption
<1>2. CASE Numbering(x) = "id"
  <2>1. Identity(x) = {x.number} /\ Identity(y) = {y.number}
    BY <1>2, IdentityFacts
  <2> QED
    BY <2>1
<1>3. CASE Numbering(x) = "z"
  <2> DEFINE m == x.number % Wrap
             n == y.number % Wrap
  <2>1. x.number - y.number < Wrap /\ y.number - x.number < Wrap
    BY <1>1, <1>3 DEF Far
  <2>2. m # n
    <3>1. CASE x.number < y.number
      BY <1>1, <2>1, <3>1, Remainders
    <3>2. CASE y.number < x.number
      BY <1>1, <2>1, <3>2, Remainders
    <3> QED
      BY <1>1, <3>1, <3>2
  <2>3. m \in Int /\ n \in Int
    BY <1>1
  <2>4. Identity(x) = {Synthetic + m} /\ Identity(y) = {Synthetic + n}
    BY <1>3, IdentityFacts
  <2> HIDE DEF m, n
  <2>5. Synthetic + m # Synthetic + n
    BY <1>1, <2>2, <2>3
  <2> QED
    BY <2>4, <2>5
<1>4. Numbering(x) = "id" \/ Numbering(x) = "z"
  BY DEF Numbering
<1> QED
  BY <1>2, <1>3, <1>4

\* ObjectsOfInputsDiffer, of two objects and of two sections.
Unlike(x, y) ==
  Numbering(x) = Numbering(y) /\ Numbering(x) # "none" /\ ~Far(x, y)
    => Identity(x) \cap Identity(y) = {}

Apart(s, r) == \A j \in DOMAIN s, k \in DOMAIN r : Unlike(s[j].object, r[k].object)

\* ObjectsOfInputsDiffer says that the sections are apart.
LEMMA ApartIsDiffer ==
  ObjectsOfInputsDiffer <=>
    \A i, k \in 1..done : i # k => Apart(target.sections[i], target.sections[k])
<1>1. ASSUME ObjectsOfInputsDiffer, NEW i \in 1..done, NEW k \in 1..done, i # k
      PROVE  Apart(target.sections[i], target.sections[k])
  <2> SUFFICES ASSUME NEW j \in DOMAIN target.sections[i], NEW l \in DOMAIN target.sections[k]
               PROVE  Unlike(target.sections[i][j].object, target.sections[k][l].object)
    BY DEF Apart
  <2>1. /\ target.sections[i][j] \in ToSet(target.sections[i])
        /\ target.sections[k][l] \in ToSet(target.sections[k])
    BY DEF ToSet
  <2> QED
    BY <1>1, <2>1 DEF ObjectsOfInputsDiffer, Unlike
<1>2. ASSUME \A i, k \in 1..done : i # k => Apart(target.sections[i], target.sections[k])
      PROVE  ObjectsOfInputsDiffer
  <2> SUFFICES ASSUME NEW i \in 1..done, NEW k \in 1..done,
                      NEW a \in ToSet(target.sections[i]), NEW b \in ToSet(target.sections[k]), i # k
               PROVE  Unlike(a.object, b.object)
    BY DEF ObjectsOfInputsDiffer, Unlike
  <2>1. PICK j \in DOMAIN target.sections[i] : a = target.sections[i][j]
    BY DEF ToSet
  <2>2. PICK l \in DOMAIN target.sections[k] : b = target.sections[k][l]
    BY DEF ToSet
  <2>3. Apart(target.sections[i], target.sections[k])
    BY <1>2
  <2> QED
    BY <2>1, <2>2, <2>3 DEF Apart
<1> QED
  BY <1>1, <1>2

\* Being apart goes both ways.
LEMMA ApartTurned ==
  ASSUME NEW s, NEW r, Apart(s, r)
  PROVE  Apart(r, s)
<1> SUFFICES ASSUME NEW j \in DOMAIN r, NEW k \in DOMAIN s
             PROVE  Unlike(r[j].object, s[k].object)
  BY DEF Apart
<1>1. Unlike(s[k].object, r[j].object)
  BY DEF Apart
<1>2. \A x, y : Far(x, y) => (Numbering(x) = Numbering(y) => Far(y, x))
  BY DEF Far
<1> QED
  BY <1>1, <1>2 DEF Unlike

\* The objects of a section are numbered below, or from, the two counters.
Below(s, object, z) ==
  \A j \in DOMAIN s :
    /\ s[j].object \in Object
    /\ Numbering(s[j].object) = "id" => s[j].object.number < object
    /\ Numbering(s[j].object) = "z"  => s[j].object.number < z

From(s, object, z) ==
  \A j \in DOMAIN s :
    /\ s[j].object \in Object
    /\ Numbering(s[j].object) = "id" => object <= s[j].object.number
    /\ Numbering(s[j].object) = "z"  => z <= s[j].object.number

\* What Renumbered hands out lies between the counters before and after.
LEMMA RenumberedBetween ==
  ASSUME NEW section, HasObjects(section), NEW object \in Int, NEW z \in Int
  PROVE  LET r == Renumbered(section, object, z)
         IN /\ r.object \in Int /\ r.z \in Int /\ object <= r.object /\ z <= r.z
            /\ Below(r.section, r.object, r.z) /\ From(r.section, object, z)
BY RenumberedFacts DEF Below, From

\* Numbers below the counters are apart from numbers from the counters.
LEMMA BelowFromApart ==
  ASSUME NEW s, NEW r, NEW object \in Int, NEW z \in Int, Below(s, object, z), From(r, object, z)
  PROVE  Apart(s, r)
<1> SUFFICES ASSUME NEW j \in DOMAIN s, NEW k \in DOMAIN r
             PROVE  Unlike(s[j].object, r[k].object)
  BY DEF Apart
<1> DEFINE x == s[j].object
           y == r[k].object
<1>1. /\ x \in Object
      /\ Numbering(x) = "id" => x.number < object
      /\ Numbering(x) = "z"  => x.number < z
  BY DEF Below
<1>2. /\ y \in Object
      /\ Numbering(y) = "id" => object <= y.number
      /\ Numbering(y) = "z"  => z <= y.number
  BY DEF From
<1>3. x.number \in Int /\ y.number \in Int
  BY <1>1, <1>2 DEF Object
<1> HIDE DEF x, y
<1>4. Numbering(x) = "id" /\ Numbering(y) = "id" => x.number # y.number
  BY <1>1, <1>2, <1>3
<1>5. Numbering(x) = "z" /\ Numbering(y) = "z" => x.number # y.number
  BY <1>1, <1>2, <1>3
<1>6. Numbering(x) \in {"id", "z", "none"}
  BY DEF Numbering
<1>7. Unlike(x, y)
  BY <1>1, <1>2, <1>4, <1>5, <1>6, NumbersApart DEF Unlike
<1> QED
  BY <1>7 DEF x, y

\* Counters that grow stay above.
LEMMA BelowLater ==
  ASSUME NEW s, NEW object \in Int, NEW z \in Int, NEW o2 \in Int, NEW z2 \in Int,
         Below(s, object, z), object <= o2, z <= z2
  PROVE  Below(s, o2, z2)
<1> SUFFICES ASSUME NEW j \in DOMAIN s
             PROVE  /\ s[j].object \in Object
                    /\ Numbering(s[j].object) = "id" => s[j].object.number < o2
                    /\ Numbering(s[j].object) = "z"  => s[j].object.number < z2
  BY DEF Below
<1>1. /\ s[j].object \in Object
      /\ Numbering(s[j].object) = "id" => s[j].object.number < object
      /\ Numbering(s[j].object) = "z"  => s[j].object.number < z
  BY DEF Below
<1>2. s[j].object.number \in Int
  BY <1>1 DEF Object
<1> QED
  BY <1>1, <1>2

\* ObjectsBelow says that the sections are below the counters.
LEMMA BelowIs ==
  ObjectsBelow <=> \A i \in 1..done : Below(target.sections[i], nextObject, nextZ)
BY DEF ObjectsBelow, Below

\* The counters begin past every number of the first input.
LEMMA ObjectsInit == Init => ObjectsInv
<1> SUFFICES ASSUME Init PROVE ObjectsInv
  OBVIOUS
<1>1. InputsOK /\ target = inputs[1]
  BY InitInputs
<1>2. IsInput(target, 1)
  BY <1>1 DEF InputsOK
<1>3. done = 1 /\ Len(target.sections) = 1 /\ DOMAIN target.sections = 1..1
  <2>1. target.sections \in Seq(Seq(Paragraph)) /\ Len(target.sections) = 1
    BY <1>2, InputParts
  <2> QED
    BY <2>1 DEF Init
<1>4. /\ nextObject = Max(ObjectIds(target) \cup {0}) + 1
      /\ nextZ = Max(ZOrders(target) \cup {0}) + 1
  BY <1>1 DEF Init
<1>5. /\ nextObject \in Int /\ nextZ \in Int
      /\ \A o \in ObjectsOf(target) :
           /\ o \in Object
           /\ Numbering(o) = "id" => o.number < nextObject
           /\ Numbering(o) = "z"  => o.number < nextZ
  <2> DEFINE m == Max(ObjectIds(target) \cup {0})
             w == Max(ZOrders(target) \cup {0})
  <2>1. m \in Int /\ w \in Int
    BY <1>2, FirstNumbers
  <2>2. \A o \in ObjectsOf(target) :
           /\ Numbering(o) = "id" => o.number <= m
           /\ Numbering(o) = "z"  => o.number <= w
    BY <1>2, FirstNumbers
  <2>3. nextObject = m + 1 /\ nextZ = w + 1
    BY <1>4
  <2>4. \A o \in ObjectsOf(target) : o \in Object /\ o.number \in Int
    BY <1>2, InputObjects, CountedFacts
  <2> HIDE DEF m, w
  <2> QED
    BY <2>1, <2>2, <2>3, <2>4
<1>6. ObjectsOf(target) = {target.sections[1][j].object : j \in DOMAIN target.sections[1]}
  BY <1>2, InputObjects
<1>7. Below(target.sections[1], nextObject, nextZ)
  BY <1>5, <1>6 DEF Below
<1>8. ObjectsBelow
  BY <1>3, <1>7, BelowIs
<1>9. ObjectsOfInputsDiffer
  BY <1>3 DEF ObjectsOfInputsDiffer
<1> QED
  BY <1>1, <1>3, <1>5, <1>8, <1>9 DEF ObjectsInv

\* A round hands out numbers that no section has yet.
LEMMA ObjectsStep == ObjectsInv /\ [Next]_vars => ObjectsInv'
<1> SUFFICES ASSUME ObjectsInv, [Next]_vars PROVE ObjectsInv'
  OBVIOUS
<1>1. /\ InputsOK /\ done \in 1..3
      /\ Len(target.sections) = done /\ DOMAIN target.sections = 1..done
      /\ nextObject \in Int /\ nextZ \in Int
      /\ \A i \in 1..done : Below(target.sections[i], nextObject, nextZ)
      /\ \A i, k \in 1..done : i # k => Apart(target.sections[i], target.sections[k])
  BY BelowIs, ApartIsDiffer DEF ObjectsInv
<1>2. InputsOK'
  BY <1>1, InputsStay
<1>3. CASE UNCHANGED <<done, target, nextObject, nextZ>>
  <2>1. ObjectsBelow'
    BY <1>3 DEF ObjectsInv, ObjectsBelow
  <2>2. ObjectsOfInputsDiffer'
    BY <1>3 DEF ObjectsInv, ObjectsOfInputsDiffer
  <2> QED
    BY <1>1, <1>2, <1>3, <2>1, <2>2 DEF ObjectsInv
<1>4. ASSUME NEW names, NEW bins, NEW streams, done + 1 \in 1..3, done' = done + 1,
             target' = Appended(target, inputs[done + 1], Method(target, inputs[done + 1]),
                                names, bins, streams, nextObject, nextZ),
             LET num == Renumbered(Remapped(inputs[done + 1], Method(target, inputs[done + 1]), names),
                                   nextObject, nextZ)
             IN nextObject' = num.object /\ nextZ' = num.z
      PROVE  ObjectsInv'
  <2> DEFINE in  == inputs[done + 1]
             how == Method(target, in)
             sec == Remapped(in, how, names)
             num == Renumbered(sec, nextObject, nextZ)
  <2>1. IsInput(in, done + 1)
    BY <1>1, <1>4 DEF InputsOK
  <2>2. /\ target'.sections = Append(target.sections, num.section)
        /\ nextObject' = num.object /\ nextZ' = num.z
    BY <1>4 DEF Appended, Merged
  <2>3. HasObjects(sec)
    BY <2>1, RemappedObjects DEF HasObjects
  <2> HIDE DEF in, how, sec, num
  <2>4. /\ num.object \in Int /\ num.z \in Int /\ nextObject <= num.object /\ nextZ <= num.z
        /\ Below(num.section, num.object, num.z)
        /\ From(num.section, nextObject, nextZ)
    BY <2>3, <1>1, RenumberedBetween DEF num
  <2>5. /\ Len(target'.sections) = done + 1 /\ DOMAIN target'.sections = 1..(done + 1)
        /\ target'.sections[done + 1] = num.section
        /\ \A i \in 1..done : target'.sections[i] = target.sections[i]
    <3> DEFINE old == target.sections
    <3>1. DOMAIN old = 1..done /\ Len(old) = done
      BY <1>1
    <3>2. \A i \in 1..(done + 1) :
            Append(old, num.section)[i] = IF i <= done THEN old[i] ELSE num.section
      BY <3>1, <1>1
    <3>3. DOMAIN Append(old, num.section) = 1..(done + 1) /\ Len(Append(old, num.section)) = done + 1
      BY <3>1, <1>1
    <3> QED
      BY <2>2, <3>2, <3>3, <1>1
  <2>6. \A i \in 1..(done + 1) : Below(target'.sections[i], num.object, num.z)
    <3> SUFFICES ASSUME NEW i \in 1..(done + 1) PROVE Below(target'.sections[i], num.object, num.z)
      OBVIOUS
    <3>1. CASE i = done + 1
      BY <3>1, <2>4, <2>5
    <3>2. CASE i # done + 1
      <4>1. i \in 1..done
        BY <3>2, <1>1
      <4>2. Below(target.sections[i], nextObject, nextZ)
        BY <4>1, <1>1
      <4> QED
        BY <4>1, <4>2, <2>4, <2>5, <1>1, BelowLater
    <3> QED
      BY <3>1, <3>2
  <2>7. \A i, k \in 1..(done + 1) : i # k => Apart(target'.sections[i], target'.sections[k])
    <3>1. ASSUME NEW i \in 1..done PROVE Apart(target.sections[i], num.section)
      BY <1>1, <2>4, BelowFromApart
    <3>2. \A i \in 1..done : Apart(num.section, target.sections[i])
      BY <3>1, ApartTurned
    <3> SUFFICES ASSUME NEW i \in 1..(done + 1), NEW k \in 1..(done + 1), i # k
                 PROVE  Apart(target'.sections[i], target'.sections[k])
      OBVIOUS
    <3>3. CASE i \in 1..done /\ k \in 1..done
      BY <3>3, <1>1, <2>5
    <3>4. CASE i = done + 1 /\ k \in 1..done
      BY <3>4, <3>2, <2>5
    <3>5. CASE i \in 1..done /\ k = done + 1
      BY <3>5, <3>1, <2>5
    <3> QED
      BY <3>3, <3>4, <3>5, <1>1
  <2>8. /\ (\A i \in 1..done : Below(target.sections[i], nextObject, nextZ))'
        /\ (\A i, k \in 1..done : i # k => Apart(target.sections[i], target.sections[k]))'
    BY <1>4, <2>2, <2>6, <2>7
  <2>9. ObjectsBelow' /\ ObjectsOfInputsDiffer'
    <3>1. ObjectsBelow'
      BY <2>8, BelowIs, PTL
    <3>2. ObjectsOfInputsDiffer'
      BY <2>8, ApartIsDiffer, PTL
    <3> QED
      BY <3>1, <3>2
  <2> QED
    BY <1>2, <1>4, <2>2, <2>4, <2>5, <2>9 DEF ObjectsInv
<1>5. CASE MergeInput
  BY <1>5, <1>1, <1>3, <1>4, MergeInputStep
<1> QED
  BY <1>3, <1>5, OtherSteps

\* No object that is numbered in one input ever has the identity of one numbered
\* in the same way in another, unless their z-orders are 2^16 apart, whatever
\* documents are merged and whatever numbers their objects had
\* (renumber_gso_objects).
THEOREM ObjectsApart == Spec => []ObjectsOfInputsDiffer
<1>1. ObjectsInv => ObjectsOfInputsDiffer
  BY DEF ObjectsInv
<1> QED
  BY <1>1, ObjectsInit, ObjectsStep, PTL DEF Spec

(***************************************************************************)
(* References                                                              *)
(***************************************************************************)

\* The collections of a header that paragraphs refer to are sequences.
HeaderOK(t) ==
  /\ t.chars \in Seq(CharShape) /\ t.paras \in Seq(ParaShape)
  /\ t.styles \in Seq(NamedEntry) /\ t.fonts \in Seq(NamedEntry)
  /\ t.borders \in Seq(Entry) /\ t.tabs \in Seq(Entry) /\ t.rawTabs \in Seq(Entry)
  /\ t.levels \in Seq(Entry) /\ t.bullets \in Seq(Entry)

\* One sequence begins with the other.
Grows(s, l) == Len(s) <= Len(l) /\ \A n \in 1..Len(s) : l[n] = s[n]

Extends(t, u) ==
  /\ Grows(t.chars, u.chars) /\ Grows(t.paras, u.paras)
  /\ Grows(t.styles, u.styles) /\ Grows(t.fonts, u.fonts)
  /\ Grows(t.borders, u.borders)
  /\ Grows(t.tabs, u.tabs) /\ Grows(t.rawTabs, u.rawTabs)
  /\ Grows(t.levels, u.levels) /\ Grows(t.bullets, u.bullets)

\* At, of a place that there is.
LEMMA AtIn ==
  ASSUME NEW R, NEW s \in Seq(R), NEW id \in Nat, id < Len(s)
  PROVE  At(s, id) = {s[id + 1]} /\ id + 1 \in DOMAIN s /\ s[id + 1] \in R
<1>1. id + 1 \in DOMAIN s /\ s[id + 1] \in R
  OBVIOUS
<1>2. DOMAIN s \cap {id + 1} = {id + 1}
  BY <1>1
<1> QED
  BY <1>1, <1>2 DEF At

\* What is at a place stays there.
LEMMA AtGrows ==
  ASSUME NEW R, NEW s \in Seq(R), NEW l \in Seq(R), Grows(s, l), NEW id \in Nat, id < Len(s)
  PROVE  At(l, id) = At(s, id)
<1>1. At(s, id) = {s[id + 1]}
  BY AtIn
<1>2. id < Len(l) /\ l[id + 1] = s[id + 1]
  BY DEF Grows
<1>3. At(l, id) = {l[id + 1]}
  BY <1>2, AtIn
<1> QED
  BY <1>1, <1>2, <1>3

\* The lengths and places of a header's collections.
LEMMA HeaderLengths ==
  ASSUME NEW t, HeaderOK(t)
  PROVE  /\ Len(t.chars) \in Nat /\ Len(t.paras) \in Nat /\ Len(t.styles) \in Nat
         /\ Len(t.fonts) \in Nat /\ Len(t.borders) \in Nat /\ Len(t.tabs) \in Nat
         /\ Len(t.levels) \in Nat /\ Len(t.bullets) \in Nat /\ Len(t.rawTabs) \in Nat
         /\ DOMAIN t.chars = 1..Len(t.chars) /\ DOMAIN t.paras = 1..Len(t.paras)
<1>1. /\ t.chars \in Seq(CharShape) /\ t.paras \in Seq(ParaShape)
      /\ t.styles \in Seq(NamedEntry) /\ t.fonts \in Seq(NamedEntry)
      /\ t.borders \in Seq(Entry) /\ t.tabs \in Seq(Entry) /\ t.rawTabs \in Seq(Entry)
      /\ t.levels \in Seq(Entry) /\ t.bullets \in Seq(Entry)
  BY DEF HeaderOK
<1>2. /\ Len(t.chars) \in Nat /\ DOMAIN t.chars = 1..Len(t.chars)
      /\ Len(t.paras) \in Nat /\ DOMAIN t.paras = 1..Len(t.paras)
  BY <1>1
<1>3. Len(t.styles) \in Nat /\ Len(t.fonts) \in Nat
  BY <1>1
<1>4. Len(t.borders) \in Nat /\ Len(t.tabs) \in Nat /\ Len(t.rawTabs) \in Nat
  BY <1>1
<1>5. Len(t.levels) \in Nat /\ Len(t.bullets) \in Nat
  BY <1>1
<1> QED
  BY <1>2, <1>3, <1>4, <1>5

\* A header that extends another is nowhere shorter.
LEMMA LengthsGrow ==
  ASSUME NEW t, NEW u, Extends(t, u)
  PROVE  /\ Len(t.chars) <= Len(u.chars) /\ Len(t.paras) <= Len(u.paras)
         /\ Len(t.styles) <= Len(u.styles) /\ Len(t.fonts) <= Len(u.fonts)
         /\ Len(t.borders) <= Len(u.borders)
         /\ Len(t.levels) <= Len(u.levels) /\ Len(t.bullets) <= Len(u.bullets)
BY DEF Extends, Grows

\* An id within a header is within one that extends it.
LEMMA Longer ==
  ASSUME NEW t, NEW u, HeaderOK(t), HeaderOK(u), Extends(t, u), NEW n \in Nat
  PROVE  /\ n < Len(t.chars) => n < Len(u.chars)
         /\ n < Len(t.paras) => n < Len(u.paras)
         /\ n < Len(t.styles) => n < Len(u.styles)
         /\ n < Len(t.fonts) => n < Len(u.fonts)
         /\ n < Len(t.levels) => n < Len(u.levels)
         /\ n < Len(t.bullets) => n < Len(u.bullets)
         /\ n <= Len(t.borders) => n <= Len(u.borders)
<1>1. \A k, l \in Nat : k <= l => (n < k => n < l) /\ (n <= k => n <= l)
  OBVIOUS
<1>2. /\ Len(t.chars) \in Nat /\ Len(t.paras) \in Nat /\ Len(t.styles) \in Nat
      /\ Len(t.fonts) \in Nat /\ Len(t.borders) \in Nat
      /\ Len(t.levels) \in Nat /\ Len(t.bullets) \in Nat
  BY HeaderLengths
<1>3. /\ Len(u.chars) \in Nat /\ Len(u.paras) \in Nat /\ Len(u.styles) \in Nat
      /\ Len(u.fonts) \in Nat /\ Len(u.borders) \in Nat
      /\ Len(u.levels) \in Nat /\ Len(u.bullets) \in Nat
  BY HeaderLengths
<1> QED
  BY <1>1, <1>2, <1>3, LengthsGrow

\* A border stays the same border.
LEMMA BorderGrows ==
  ASSUME NEW t, NEW u, HeaderOK(t), HeaderOK(u), Extends(t, u),
         NEW id \in Nat, id <= Len(t.borders)
  PROVE  Border(u, id) = Border(t, id)
<1>1. CASE id = 0
  BY <1>1 DEF Border
<1>2. CASE id # 0
  <2>1. id - 1 \in Nat /\ id - 1 < Len(t.borders)
    BY <1>2 DEF HeaderOK
  <2>2. At(u.borders, id - 1) = At(t.borders, id - 1)
    BY <2>1, AtGrows DEF HeaderOK, Extends
  <2> QED
    BY <2>2 DEF Border
<1> QED
  BY <1>1, <1>2

\* The fields of a char shape.
LEMMA CharTypes ==
  ASSUME NEW e \in CharShape
  PROVE  e.of \in Tag /\ e.font \in Nat /\ e.border \in Nat
BY DEF CharShape

\* The fields of a para shape.
LEMMA ParaTypes ==
  ASSUME NEW e \in ParaShape
  PROVE  e.of \in Tag /\ e.tab \in Nat /\ e.head \in {"none", "number", "bullet"} /\ e.list \in Nat
         /\ e.border \in Nat
BY DEF ParaShape

\* A shape of the target means what it meant when the target has grown.
LEMMA CharGrows ==
  ASSUME NEW t, NEW u, HeaderOK(t), HeaderOK(u), Extends(t, u),
         NEW e \in CharShape, CharResolves(t, e)
  PROVE  CharMeaning(u, e) = CharMeaning(t, e) /\ CharResolves(u, e)
<1>1. e.font \in Nat /\ e.border \in Nat /\ e.font < Len(t.fonts) /\ e.border <= Len(t.borders)
  BY CharTypes DEF CharResolves
<1>2. At(u.fonts, e.font) = At(t.fonts, e.font)
  <2>1. t.fonts \in Seq(NamedEntry) /\ u.fonts \in Seq(NamedEntry)
    BY DEF HeaderOK
  <2>2. Grows(t.fonts, u.fonts)
    BY DEF Extends
  <2> QED
    BY <1>1, <2>1, <2>2, AtGrows
<1>3. Border(u, e.border) = Border(t, e.border)
  BY <1>1, BorderGrows
<1>4. e.font < Len(u.fonts) /\ e.border <= Len(u.borders)
  BY <1>1, HeaderLengths, LengthsGrow
<1> QED
  BY <1>2, <1>3, <1>4 DEF CharMeaning, CharResolves

\* The same for para shapes.
LEMMA ParaGrows ==
  ASSUME NEW t, NEW u, HeaderOK(t), HeaderOK(u), Extends(t, u),
         NEW e \in ParaShape, ParaResolves(t, e)
  PROVE  ParaMeaning(u, e) = ParaMeaning(t, e) /\ ParaResolves(u, e)
<1>1. /\ e.border \in Nat /\ e.list \in Nat /\ e.border <= Len(t.borders)
      /\ e.head = "number" => e.list < Len(t.levels)
      /\ e.head = "bullet" => e.list < Len(t.bullets)
  BY ParaTypes DEF ParaResolves
<1>2. Border(u, e.border) = Border(t, e.border)
  BY <1>1, BorderGrows
<1>3. e.head = "number" => At(u.levels, e.list) = At(t.levels, e.list)
  <2>1. t.levels \in Seq(Entry) /\ u.levels \in Seq(Entry)
    BY DEF HeaderOK
  <2>2. Grows(t.levels, u.levels)
    BY DEF Extends
  <2> QED
    BY <1>1, <2>1, <2>2, AtGrows
<1>4. e.head = "bullet" => At(u.bullets, e.list) = At(t.bullets, e.list)
  <2>1. t.bullets \in Seq(Entry) /\ u.bullets \in Seq(Entry)
    BY DEF HeaderOK
  <2>2. Grows(t.bullets, u.bullets)
    BY DEF Extends
  <2> QED
    BY <1>1, <2>1, <2>2, AtGrows
<1>5. ListOf(u, e) = ListOf(t, e)
  BY <1>3, <1>4 DEF ListOf
<1>6. ParaResolves(u, e)
  BY <1>1, Longer DEF ParaResolves
<1> QED
  BY <1>2, <1>5, <1>6 DEF ParaMeaning

\* The references of a paragraph, whatever picture and object it has.
RefsOK(p) ==
  /\ p.para \in Nat /\ p.char \in Nat /\ p.style \in Nat /\ p.border \in Nat
  /\ p.page.text \in BOOLEAN /\ p.page.id \in Nat

\* What a paragraph whose references resolve means, without At.
LEMMA MeaningIs ==
  ASSUME NEW t, HeaderOK(t), NEW p, RefsOK(p), ParagraphResolves(t, p)
  PROVE  /\ t.paras[p.para + 1] \in ParaShape /\ p.para + 1 \in DOMAIN t.paras
         /\ t.chars[p.char + 1] \in CharShape /\ p.char + 1 \in DOMAIN t.chars
         /\ Meaning(t, p) =
              [para   |-> {ParaMeaning(t, t.paras[p.para + 1])},
               char   |-> {CharMeaning(t, t.chars[p.char + 1])},
               style  |-> Origins(At(t.styles, p.style), 1),
               border |-> Border(t, p.border),
               page   |-> IF p.page.text THEN {} ELSE Border(t, p.page.id)]
<1>1. p.para \in Nat /\ p.char \in Nat /\ p.para < Len(t.paras) /\ p.char < Len(t.chars)
  BY DEF RefsOK, ParagraphResolves
<1>2. /\ At(t.paras, p.para) = {t.paras[p.para + 1]} /\ p.para + 1 \in DOMAIN t.paras
      /\ t.paras[p.para + 1] \in ParaShape
  BY <1>1, AtIn DEF HeaderOK
<1>3. /\ At(t.chars, p.char) = {t.chars[p.char + 1]} /\ p.char + 1 \in DOMAIN t.chars
      /\ t.chars[p.char + 1] \in CharShape
  BY <1>1, AtIn DEF HeaderOK
<1>4. {ParaMeaning(t, e) : e \in At(t.paras, p.para)} = {ParaMeaning(t, t.paras[p.para + 1])}
  BY <1>2
<1>5. {CharMeaning(t, e) : e \in At(t.chars, p.char)} = {CharMeaning(t, t.chars[p.char + 1])}
  BY <1>3
<1> QED
  BY <1>2, <1>3, <1>4, <1>5 DEF Meaning

\* A paragraph of the target means what it meant when the target has grown.
LEMMA MeaningGrows ==
  ASSUME NEW t, NEW u, HeaderOK(t), HeaderOK(u), Extends(t, u), HeaderResolves(t),
         NEW p, RefsOK(p), ParagraphResolves(t, p)
  PROVE  Meaning(u, p) = Meaning(t, p) /\ ParagraphResolves(u, p)
<1> DEFINE a == t.paras[p.para + 1]
           c == t.chars[p.char + 1]
<1>1. ParagraphResolves(u, p)
  BY Longer DEF ParagraphResolves, RefsOK
<1>2. /\ a \in ParaShape /\ c \in CharShape
      /\ p.para + 1 \in DOMAIN t.paras /\ p.char + 1 \in DOMAIN t.chars
      /\ Meaning(t, p) =
              [para   |-> {ParaMeaning(t, a)},
               char   |-> {CharMeaning(t, c)},
               style  |-> Origins(At(t.styles, p.style), 1),
               border |-> Border(t, p.border),
               page   |-> IF p.page.text THEN {} ELSE Border(t, p.page.id)]
  BY MeaningIs
<1>3. Meaning(u, p) =
              [para   |-> {ParaMeaning(u, u.paras[p.para + 1])},
               char   |-> {CharMeaning(u, u.chars[p.char + 1])},
               style  |-> Origins(At(u.styles, p.style), 1),
               border |-> Border(u, p.border),
               page   |-> IF p.page.text THEN {} ELSE Border(u, p.page.id)]
  BY <1>1, MeaningIs
<1>4. u.paras[p.para + 1] = a /\ u.chars[p.char + 1] = c
  <2>1. p.para + 1 \in 1..Len(t.paras) /\ p.char + 1 \in 1..Len(t.chars)
    BY <1>2, HeaderLengths
  <2>2. Grows(t.paras, u.paras) /\ Grows(t.chars, u.chars)
    BY DEF Extends
  <2> QED
    BY <2>1, <2>2 DEF Grows
<1>5. ParaResolves(t, a) /\ CharResolves(t, c)
  BY <1>2 DEF HeaderResolves
<1>6. ParaMeaning(u, a) = ParaMeaning(t, a) /\ CharMeaning(u, c) = CharMeaning(t, c)
  <2>1. a \in ParaShape /\ c \in CharShape
    BY <1>2
  <2> HIDE DEF a, c
  <2>2. ParaMeaning(u, a) = ParaMeaning(t, a)
    BY <1>5, <2>1, ParaGrows
  <2>3. CharMeaning(u, c) = CharMeaning(t, c)
    BY <1>5, <2>1, CharGrows
  <2> QED
    BY <2>2, <2>3
<1>7. At(u.styles, p.style) = At(t.styles, p.style)
  <2>1. t.styles \in Seq(NamedEntry) /\ u.styles \in Seq(NamedEntry)
    BY DEF HeaderOK
  <2>2. Grows(t.styles, u.styles)
    BY DEF Extends
  <2>3. p.style \in Nat /\ p.style < Len(t.styles)
    BY DEF ParagraphResolves, RefsOK
  <2> QED
    BY <2>1, <2>2, <2>3, AtGrows
<1>8. Border(u, p.border) = Border(t, p.border) /\ Border(u, p.page.id) = Border(t, p.page.id)
  BY BorderGrows DEF ParagraphResolves, RefsOK
<1> HIDE DEF a, c
<1> QED
  BY <1>1, <1>2, <1>3, <1>4, <1>6, <1>7, <1>8

\* A shift of references by numbers.
HowOK(how) ==
  /\ how.charBase \in Nat /\ how.paraBase \in Nat /\ how.char \in Nat /\ how.para \in Nat
  /\ how.style \in Nat /\ how.border \in Nat /\ how.tab \in Nat /\ how.font \in Nat
  /\ how.level \in Nat /\ how.bullet \in Nat

\* The fields of a shift.
LEMMA HowTypes ==
  ASSUME NEW how, HowOK(how)
  PROVE  /\ how.charBase \in Nat /\ how.paraBase \in Nat /\ how.char \in Nat /\ how.para \in Nat
         /\ how.style \in Nat /\ how.border \in Nat /\ how.tab \in Nat /\ how.font \in Nat
         /\ how.level \in Nat /\ how.bullet \in Nat
BY DEF HowOK

\* A shifted border id is one.
LEMMA PastNoneType ==
  ASSUME NEW id \in Nat, NEW offset \in Nat
  PROVE  PastNone(id, offset) \in Nat
BY DEF PastNone

\* The shifted shapes, field by field.
LEMMA GraftedCharIs ==
  ASSUME NEW how, HowOK(how), NEW c \in CharShape
  PROVE  LET g == GraftedChar(how, c)
         IN /\ g \in CharShape
            /\ g.of = c.of /\ g.font = c.font + how.font /\ g.border = PastNone(c.border, how.border)
<1>1. c.font \in Nat /\ c.border \in Nat /\ c.of \in Tag
  BY CharTypes
<1>2. c.font + how.font \in Nat /\ PastNone(c.border, how.border) \in Nat
  <2>1. how.font \in Nat /\ how.border \in Nat
    BY HowTypes
  <2>2. c.font + how.font \in Nat
    BY <1>1, <2>1
  <2>3. PastNone(c.border, how.border) \in Nat
    BY <1>1, <2>1, PastNoneType
  <2> QED
    BY <2>2, <2>3
<1>3. /\ GraftedChar(how, c).of = c.of /\ GraftedChar(how, c).font = c.font + how.font
      /\ GraftedChar(how, c).border = PastNone(c.border, how.border)
  BY DEF GraftedChar, CharShape
<1>4. GraftedChar(how, c) \in CharShape
  BY <1>1, <1>2 DEF GraftedChar, CharShape
<1> QED
  BY <1>3, <1>4

\* The same for para shapes.
LEMMA GraftedParaIs ==
  ASSUME NEW how, HowOK(how), NEW p \in ParaShape
  PROVE  LET g == GraftedPara(how, p)
         IN /\ g \in ParaShape
            /\ g.of = p.of /\ g.tab = p.tab + how.tab /\ g.head = p.head
            /\ g.list = p.list + ListOffset(how, p.head)
            /\ g.border = PastNone(p.border, how.border)
<1>1. p.tab \in Nat /\ p.list \in Nat /\ p.border \in Nat /\ p.of \in Tag
      /\ p.head \in {"none", "number", "bullet"}
  BY ParaTypes
<1>2. ListOffset(how, p.head) \in Nat
  BY <1>1 DEF ListOffset, HowOK
<1>3. p.tab + how.tab \in Nat /\ PastNone(p.border, how.border) \in Nat
      /\ p.list + ListOffset(how, p.head) \in Nat
  <2>1. how.tab \in Nat /\ how.border \in Nat
    BY HowTypes
  <2>2. p.tab + how.tab \in Nat /\ p.list + ListOffset(how, p.head) \in Nat
    BY <1>1, <1>2, <2>1
  <2>3. PastNone(p.border, how.border) \in Nat
    BY <1>1, <2>1, PastNoneType
  <2> QED
    BY <2>2, <2>3
<1>4. /\ GraftedPara(how, p).of = p.of /\ GraftedPara(how, p).tab = p.tab + how.tab
      /\ GraftedPara(how, p).head = p.head
      /\ GraftedPara(how, p).list = p.list + ListOffset(how, p.head)
      /\ GraftedPara(how, p).border = PastNone(p.border, how.border)
  BY DEF GraftedPara, ParaShape
<1>5. GraftedPara(how, p) \in ParaShape
  BY <1>1, <1>3 DEF GraftedPara, ParaShape
<1> QED
  BY <1>4, <1>5

\* What comes after the first entries.
LEMMA RestIs ==
  ASSUME NEW R, NEW s \in Seq(R), NEW base \in Nat, base <= Len(s)
  PROVE  LET r == SubSeq(s, base + 1, Len(s))
         IN /\ r \in Seq(R) /\ Len(r) = Len(s) - base
            /\ \A i \in 1..(Len(s) - base) : r[i] = s[i + base]
<1> DEFINE r == SubSeq(s, base + 1, Len(s))
<1>1. Len(s) \in Nat
  OBVIOUS
<1>2. r \in Seq(R)
  <2>1. \A i \in (base + 1)..Len(s) : s[i] \in R
    OBVIOUS
  <2> QED
    BY <1>1, <2>1
<1>3. Len(r) = Len(s) - base
  BY <1>1
<1>4. \A i \in 1..(Len(s) - base) : r[i] = s[i + base]
  BY <1>1
<1> QED
  BY <1>2, <1>3, <1>4

\* Appending.
LEMMA Joined ==
  ASSUME NEW R, NEW s \in Seq(R), NEW q \in Seq(R)
  PROVE  /\ s \o q \in Seq(R) /\ Len(s \o q) = Len(s) + Len(q) /\ Grows(s, s \o q)
         /\ \A i \in 1..Len(q) : (s \o q)[i + Len(s)] = q[i]
<1>1. s \o q \in Seq(R) /\ Len(s \o q) = Len(s) + Len(q) /\ Len(s) \in Nat /\ Len(q) \in Nat
  OBVIOUS
<1>2. \A i \in 1..Len(s) : (s \o q)[i] = s[i]
  OBVIOUS
<1>3. \A i \in 1..Len(q) : (s \o q)[i + Len(s)] = q[i]
  OBVIOUS
<1> QED
  BY <1>1, <1>2, <1>3 DEF Grows

\* A sequence begins with itself.
LEMMA GrowsSelf ==
  ASSUME NEW R, NEW s \in Seq(R)
  PROVE  Grows(s, s)
BY DEF Grows

\* An id shifted by the length that was there finds the appended entry.
LEMMA AtShift ==
  ASSUME NEW R, NEW s \in Seq(R), NEW q \in Seq(R), NEW id \in Nat, id < Len(q)
  PROVE  At(s \o q, id + Len(s)) = At(q, id) /\ id + Len(s) < Len(s \o q)
<1> DEFINE all == s \o q
<1>1. /\ all \in Seq(R) /\ Len(all) = Len(s) + Len(q) /\ Len(s) \in Nat /\ Len(q) \in Nat
      /\ \A i \in 1..Len(q) : all[i + Len(s)] = q[i]
  BY Joined
<1>2. id + 1 \in 1..Len(q)
  BY <1>1
<1>3. all[(id + 1) + Len(s)] = q[id + 1]
  BY <1>1, <1>2
<1>4. (id + 1) + Len(s) = (id + Len(s)) + 1 /\ id + Len(s) \in Nat /\ id + Len(s) < Len(all)
  BY <1>1
<1> HIDE DEF all
<1>5. At(all, id + Len(s)) = {all[(id + Len(s)) + 1]}
  BY <1>1, <1>4, AtIn
<1>6. At(q, id) = {q[id + 1]}
  BY AtIn
<1> QED
  BY <1>3, <1>4, <1>5, <1>6 DEF all

\* The shapes past the shared palette, shifted, after those of the target.
CharsFollow(s, e, how) ==
  s \o [i \in 1..Len(SubSeq(e, how.charBase + 1, Len(e))) |->
          GraftedChar(how, SubSeq(e, how.charBase + 1, Len(e))[i])]

CharsGrafted(s, e, how, l) ==
  /\ l \in Seq(CharShape) /\ Grows(s, l) /\ Len(l) = Len(s) + (Len(e) - how.charBase)
  /\ \A n \in (how.charBase + 1)..Len(e) :
       l[(n - how.charBase) + Len(s)] = GraftedChar(how, e[n])

\* The char shapes of the input that are not of the shared palette follow those
\* of the target, shifted.
LEMMA CharsAppended ==
  ASSUME NEW s \in Seq(CharShape), NEW e \in Seq(CharShape), NEW how, HowOK(how),
         how.charBase <= Len(e), NEW l,
         l = CharsFollow(s, e, how)
  PROVE  CharsGrafted(s, e, how, l)
<1> DEFINE base == how.charBase
           r == SubSeq(e, base + 1, Len(e))
           q == [i \in 1..Len(r) |-> GraftedChar(how, r[i])]
<1>1. base \in Nat /\ base <= Len(e) /\ Len(e) \in Nat /\ Len(s) \in Nat
  <2>1. base \in Nat
    BY HowTypes
  <2> QED
    BY <2>1
<1>2. r \in Seq(CharShape) /\ Len(r) = Len(e) - base /\ \A i \in 1..(Len(e) - base) : r[i] = e[i + base]
  BY <1>1, RestIs
<1> HIDE DEF r
<1>3. \A i \in 1..Len(r) : GraftedChar(how, r[i]) \in CharShape
  BY <1>2, GraftedCharIs
<1>4. q \in Seq(CharShape) /\ Len(q) = Len(r)
  <2>1. Len(r) \in Nat
    BY <1>2
  <2>2. q \in [1..Len(r) -> CharShape]
    BY <1>3
  <2> HIDE DEF q
  <2> QED
    BY <2>1, <2>2, SeqDef
<1>5. l = s \o q
  BY DEF r, CharsFollow
<1>6. \A i \in 1..Len(r) : q[i] = GraftedChar(how, r[i])
  OBVIOUS
<1> HIDE DEF q
<1>7. /\ l \in Seq(CharShape) /\ Len(l) = Len(s) + Len(q) /\ Grows(s, l)
      /\ \A i \in 1..Len(q) : l[i + Len(s)] = q[i]
  <2> DEFINE all == s \o q
  <2>1. q \in Seq(CharShape)
    BY <1>4
  <2>2. Len(all) = Len(s) + Len(q) /\ Len(s) \in Nat /\ Len(q) \in Nat
    BY <2>1
  <2>3. \A i \in 1..Len(s) : all[i] = s[i]
    BY <2>1
  <2>4. \A i \in 1..Len(q) : all[i + Len(s)] = q[i]
    BY <2>1
  <2>5. Len(all) = Len(s) + Len(q) /\ Grows(s, all) /\ \A i \in 1..Len(q) : all[i + Len(s)] = q[i]
    <3> HIDE DEF all
    <3> QED
      BY <2>2, <2>3, <2>4 DEF Grows
  <2>6. s \o q \in Seq(CharShape)
    BY <1>4
  <2> HIDE DEF all
  <2> QED
    BY <2>5, <2>6, <1>5 DEF all
<1>8. ASSUME NEW n \in (base + 1)..Len(e)
      PROVE  l[(n - base) + Len(s)] = GraftedChar(how, e[n])
  <2>1. n - base \in 1..Len(r) /\ (n - base) + base = n
    BY <1>1, <1>2
  <2>2. r[n - base] = e[n]
    BY <1>2, <2>1
  <2> QED
    BY <1>4, <1>6, <1>7, <2>1, <2>2
<1> QED
  BY <1>2, <1>4, <1>7, <1>8 DEF CharsGrafted

ParasFollow(s, e, how) ==
  s \o [i \in 1..Len(SubSeq(e, how.paraBase + 1, Len(e))) |->
          GraftedPara(how, SubSeq(e, how.paraBase + 1, Len(e))[i])]

ParasGrafted(s, e, how, l) ==
  /\ l \in Seq(ParaShape) /\ Grows(s, l) /\ Len(l) = Len(s) + (Len(e) - how.paraBase)
  /\ \A n \in (how.paraBase + 1)..Len(e) :
       l[(n - how.paraBase) + Len(s)] = GraftedPara(how, e[n])

\* The same for para shapes.
LEMMA ParasAppended ==
  ASSUME NEW s \in Seq(ParaShape), NEW e \in Seq(ParaShape), NEW how, HowOK(how),
         how.paraBase <= Len(e), NEW l,
         l = ParasFollow(s, e, how)
  PROVE  ParasGrafted(s, e, how, l)
<1> DEFINE base == how.paraBase
           r == SubSeq(e, base + 1, Len(e))
           q == [i \in 1..Len(r) |-> GraftedPara(how, r[i])]
<1>1. base \in Nat /\ base <= Len(e) /\ Len(e) \in Nat /\ Len(s) \in Nat
  <2>1. base \in Nat
    BY HowTypes
  <2> QED
    BY <2>1
<1>2. r \in Seq(ParaShape) /\ Len(r) = Len(e) - base /\ \A i \in 1..(Len(e) - base) : r[i] = e[i + base]
  BY <1>1, RestIs
<1> HIDE DEF r
<1>3. \A i \in 1..Len(r) : GraftedPara(how, r[i]) \in ParaShape
  BY <1>2, GraftedParaIs
<1>4. q \in Seq(ParaShape) /\ Len(q) = Len(r)
  <2>1. Len(r) \in Nat
    BY <1>2
  <2>2. q \in [1..Len(r) -> ParaShape]
    BY <1>3
  <2> HIDE DEF q
  <2> QED
    BY <2>1, <2>2, SeqDef
<1>5. l = s \o q
  BY DEF r, ParasFollow
<1>6. \A i \in 1..Len(r) : q[i] = GraftedPara(how, r[i])
  OBVIOUS
<1> HIDE DEF q
<1>7. /\ l \in Seq(ParaShape) /\ Len(l) = Len(s) + Len(q) /\ Grows(s, l)
      /\ \A i \in 1..Len(q) : l[i + Len(s)] = q[i]
  <2> DEFINE all == s \o q
  <2>1. q \in Seq(ParaShape)
    BY <1>4
  <2>2. Len(all) = Len(s) + Len(q) /\ Len(s) \in Nat /\ Len(q) \in Nat
    BY <2>1
  <2>3. \A i \in 1..Len(s) : all[i] = s[i]
    BY <2>1
  <2>4. \A i \in 1..Len(q) : all[i + Len(s)] = q[i]
    BY <2>1
  <2>5. Len(all) = Len(s) + Len(q) /\ Grows(s, all) /\ \A i \in 1..Len(q) : all[i + Len(s)] = q[i]
    <3> HIDE DEF all
    <3> QED
      BY <2>2, <2>3, <2>4 DEF Grows
  <2>6. s \o q \in Seq(ParaShape)
    BY <1>4
  <2> HIDE DEF all
  <2> QED
    BY <2>5, <2>6, <1>5 DEF all
<1>8. ASSUME NEW n \in (base + 1)..Len(e)
      PROVE  l[(n - base) + Len(s)] = GraftedPara(how, e[n])
  <2>1. n - base \in 1..Len(r) /\ (n - base) + base = n
    BY <1>1, <1>2
  <2>2. r[n - base] = e[n]
    BY <1>2, <2>1
  <2> QED
    BY <1>4, <1>6, <1>7, <2>1, <2>2
<1> QED
  BY <1>2, <1>4, <1>7, <1>8 DEF ParasGrafted

\* u is t with the header of an input grafted onto it.
Grafted(t, u, in, how) ==
  /\ CharsGrafted(t.chars, in.chars, how, u.chars)
  /\ ParasGrafted(t.paras, in.paras, how, u.paras)
  /\ u.levels = t.levels \o in.levels /\ u.bullets = t.bullets \o in.bullets
  /\ how.whole =>
       /\ u.styles = t.styles \o in.styles /\ u.fonts = t.fonts \o in.fonts
       /\ u.borders = t.borders \o in.borders
       /\ u.tabs = t.tabs \o in.tabs /\ u.rawTabs = t.rawTabs \o in.rawTabs
  /\ ~how.whole =>
       /\ u.styles = t.styles /\ u.fonts = t.fonts /\ u.borders = t.borders
       /\ u.tabs = t.tabs /\ u.rawTabs = t.rawTabs

\* The first entries both headers share are few enough.
LEMMA FamilySizes ==
  ASSUME NEW d, DefaultFamily(d)
  PROVE  /\ Palette <= Len(d.chars) /\ BaseParas <= Len(d.paras)
         /\ Len(d.borders) = 1 /\ Len(d.tabs) = 1 /\ Len(d.styles) = 1 /\ Len(d.fonts) = 1
<1>1. Len(d.chars) >= Palette /\ Len(d.paras) >= BaseParas
  BY DEF DefaultFamily
<1>2. Len(d.borders) = 1 /\ Len(d.tabs) = 1 /\ Len(d.styles) = 1 /\ Len(d.fonts) = 1
  BY DEF DefaultFamily
<1> QED
  BY <1>1, <1>2

\* An input has a header.
LEMMA InputHeader ==
  ASSUME NEW d, NEW k, IsInput(d, k)
  PROVE  HeaderOK(d)
<1>1. d \in Document
  BY DEF IsInput
<1> QED
  BY <1>1 DEF Document, HeaderOK

\* What the two methods shift by: either everything by what was there, or two
\* default-family headers with the palette shared and single entries kept.
LEMMA MethodIs ==
  ASSUME NEW t, HeaderOK(t), NEW in, HeaderOK(in)
  PROVE  LET how == Method(t, in)
         IN /\ HowOK(how)
            /\ how.charBase <= Len(in.chars) /\ how.paraBase <= Len(in.paras)
            /\ how.char = Len(t.chars) - how.charBase /\ how.para = Len(t.paras) - how.paraBase
            /\ how.level = Len(t.levels) /\ how.bullet = Len(t.bullets)
            /\ how.charBase <= Len(t.chars) /\ how.paraBase <= Len(t.paras)
            /\ \/ /\ how.whole
                  /\ how.charBase = 0 /\ how.paraBase = 0
                  /\ how.style = Len(t.styles) /\ how.border = Len(t.borders)
                  /\ how.tab = Len(t.rawTabs) /\ how.font = Len(t.fonts)
               \/ /\ ~how.whole /\ DefaultFamily(t) /\ DefaultFamily(in)
                  /\ how.charBase = Palette /\ how.paraBase = BaseParas
                  /\ how.style = 0 /\ how.border = 0 /\ how.tab = 0 /\ how.font = 0
<1>1. /\ Len(t.chars) \in Nat /\ Len(t.paras) \in Nat /\ Len(t.styles) \in Nat
      /\ Len(t.fonts) \in Nat /\ Len(t.borders) \in Nat /\ Len(t.rawTabs) \in Nat
      /\ Len(t.levels) \in Nat /\ Len(t.bullets) \in Nat
  BY HeaderLengths
<1>2. Len(in.chars) \in Nat /\ Len(in.paras) \in Nat
  BY HeaderLengths
<1>3. Palette \in Nat /\ BaseParas \in Nat
  BY NumbersAssumption
<1>4. CASE PaletteCompatible(t, in)
  <2>1. DefaultFamily(t) /\ DefaultFamily(in)
    BY <1>4 DEF PaletteCompatible
  <2>2. /\ Palette <= Len(t.chars) /\ BaseParas <= Len(t.paras)
        /\ Palette <= Len(in.chars) /\ BaseParas <= Len(in.paras)
    BY <2>1, FamilySizes
  <2>3. Method(t, in) = FastPath(t)
    BY <1>4 DEF Method
  <2>4. Len(t.chars) - Palette \in Nat /\ Len(t.paras) - BaseParas \in Nat
    BY <1>1, <1>3, <2>2
  <2>5. HowOK(FastPath(t))
    BY <1>1, <1>3, <2>4 DEF FastPath, HowOK
  <2> QED
    BY <2>1, <2>2, <2>3, <2>5 DEF FastPath
<1>5. CASE ~PaletteCompatible(t, in)
  <2>1. Method(t, in) = General(t)
    BY <1>5 DEF Method
  <2>2. HowOK(General(t))
    BY <1>1 DEF General, HowOK
  <2> QED
    BY <1>1, <1>2, <2>1, <2>2 DEF General
<1> QED
  BY <1>4, <1>5

\* What MergeInput makes of the target is such a graft.
LEMMA AppendedGrafts ==
  ASSUME NEW t, HeaderOK(t), NEW in, HeaderOK(in),
         NEW names, NEW bins, NEW streams, NEW object, NEW z
  PROVE  Grafted(t, Appended(t, in, Method(t, in), names, bins, streams, object, z), in, Method(t, in))
<1> DEFINE how == Method(t, in)
           u == Appended(t, in, how, names, bins, streams, object, z)
<1>1. HowOK(how) /\ how.charBase <= Len(in.chars) /\ how.paraBase <= Len(in.paras)
  BY MethodIs
<1>2. u.chars = CharsFollow(t.chars, in.chars, how) /\ u.paras = ParasFollow(t.paras, in.paras, how)
  BY DEF Appended, Merged, CharsFollow, ParasFollow
<1>3. /\ u.levels = t.levels \o in.levels /\ u.bullets = t.bullets \o in.bullets
      /\ how.whole =>
           /\ u.styles = t.styles \o in.styles /\ u.fonts = t.fonts \o in.fonts
           /\ u.borders = t.borders \o in.borders
           /\ u.tabs = t.tabs \o in.tabs /\ u.rawTabs = t.rawTabs \o in.rawTabs
      /\ ~how.whole =>
           /\ u.styles = t.styles /\ u.fonts = t.fonts /\ u.borders = t.borders
           /\ u.tabs = t.tabs /\ u.rawTabs = t.rawTabs
  BY DEF Appended, Merged
<1>4. /\ t.chars \in Seq(CharShape) /\ in.chars \in Seq(CharShape)
      /\ t.paras \in Seq(ParaShape) /\ in.paras \in Seq(ParaShape)
  BY DEF HeaderOK
<1> HIDE DEF how, u
<1>5. CharsGrafted(t.chars, in.chars, how, u.chars)
  BY <1>1, <1>2, <1>4, CharsAppended
<1>6. ParasGrafted(t.paras, in.paras, how, u.paras)
  BY <1>1, <1>2, <1>4, ParasAppended
<1> QED
  BY <1>3, <1>5, <1>6 DEF Grafted, how, u

\* The graft is a header again, and extends the target.
LEMMA GraftExtends ==
  ASSUME NEW t, HeaderOK(t), NEW in, HeaderOK(in), NEW how, NEW u, Grafted(t, u, in, how),
         how.whole \in BOOLEAN
  PROVE  HeaderOK(u) /\ Extends(t, u)
<1>1. /\ u.chars \in Seq(CharShape) /\ Grows(t.chars, u.chars)
      /\ u.paras \in Seq(ParaShape) /\ Grows(t.paras, u.paras)
  BY DEF Grafted, CharsGrafted, ParasGrafted
<1>2. /\ t.levels \o in.levels \in Seq(Entry) /\ Grows(t.levels, t.levels \o in.levels)
      /\ t.bullets \o in.bullets \in Seq(Entry) /\ Grows(t.bullets, t.bullets \o in.bullets)
      /\ t.borders \o in.borders \in Seq(Entry) /\ Grows(t.borders, t.borders \o in.borders)
      /\ t.tabs \o in.tabs \in Seq(Entry) /\ Grows(t.tabs, t.tabs \o in.tabs)
      /\ t.rawTabs \o in.rawTabs \in Seq(Entry) /\ Grows(t.rawTabs, t.rawTabs \o in.rawTabs)
      /\ t.styles \o in.styles \in Seq(NamedEntry) /\ Grows(t.styles, t.styles \o in.styles)
      /\ t.fonts \o in.fonts \in Seq(NamedEntry) /\ Grows(t.fonts, t.fonts \o in.fonts)
  BY Joined DEF HeaderOK
<1>3. /\ Grows(t.borders, t.borders) /\ Grows(t.tabs, t.tabs) /\ Grows(t.rawTabs, t.rawTabs)
      /\ Grows(t.styles, t.styles) /\ Grows(t.fonts, t.fonts)
  BY GrowsSelf DEF HeaderOK
<1>4. u.levels = t.levels \o in.levels /\ u.bullets = t.bullets \o in.bullets
  BY DEF Grafted
<1>5. CASE how.whole
  <2>1. /\ u.styles = t.styles \o in.styles /\ u.fonts = t.fonts \o in.fonts
        /\ u.borders = t.borders \o in.borders
        /\ u.tabs = t.tabs \o in.tabs /\ u.rawTabs = t.rawTabs \o in.rawTabs
    BY <1>5 DEF Grafted
  <2> QED
    BY <1>1, <1>2, <1>4, <2>1 DEF HeaderOK, Extends
<1>6. CASE ~how.whole
  <2>1. /\ u.styles = t.styles /\ u.fonts = t.fonts /\ u.borders = t.borders
        /\ u.tabs = t.tabs /\ u.rawTabs = t.rawTabs
    BY <1>6 DEF Grafted
  <2> QED
    BY <1>1, <1>2, <1>3, <1>4, <2>1 DEF HeaderOK, Extends
<1> QED
  BY <1>5, <1>6

\* Shifted references into a collection find what they found before.
Carried(s, e, offset) ==
  \A id \in Nat : id < Len(e) =>
    id + offset < Len(s) /\ Origins(At(s, id + offset), 1) = Origins(At(e, id), 1)

ListCarried(s, e, offset) ==
  \A id \in Nat : id < Len(e) => id + offset < Len(s) /\ At(s, id + offset) = At(e, id)

BordersCarried(u, in, how) ==
  /\ Len(in.borders) <= Len(u.borders)
  /\ \A id \in Nat : id <= Len(in.borders) =>
       /\ PastNone(id, how.border) <= Len(u.borders)
       /\ Border(u, PastNone(id, how.border)) = Border(in, id)

Carries(u, in, how) ==
  /\ Carried(u.fonts, in.fonts, how.font) /\ Carried(u.styles, in.styles, how.style)
  /\ ListCarried(u.levels, in.levels, how.level) /\ ListCarried(u.bullets, in.bullets, how.bullet)
  /\ BordersCarried(u, in, how)

\* The shared palette of the input means what it means in the target.
PaletteCarried(u, in, how) ==
  /\ \A n \in 1..how.charBase : CharMeaning(u, u.chars[n]) = CharMeaning(in, in.chars[n])
  /\ \A n \in 1..how.paraBase : ParaMeaning(u, u.paras[n]) = ParaMeaning(in, in.paras[n])

\* Appending carries a collection over.
LEMMA ListAppended ==
  ASSUME NEW R, NEW s \in Seq(R), NEW e \in Seq(R)
  PROVE  ListCarried(s \o e, e, Len(s)) /\ Carried(s \o e, e, Len(s))
<1>1. ListCarried(s \o e, e, Len(s))
  BY AtShift DEF ListCarried
<1> QED
  BY <1>1 DEF ListCarried, Carried

\* A collection of one entry that is the first of a default-family input.
One(s, k) == Len(s) = 1 /\ s[1].of = <<k, 1>>

\* Every reference into such a collection finds the one entry of the family.
LEMMA OneIs ==
  ASSUME NEW R, NEW s \in Seq(R), NEW k, One(s, k), DefaultFamily(inputs[k])
  PROVE  \A id \in Nat : id < Len(s) => id = 0 /\ Origins(At(s, id), 1) = {<<0, 1>>}
<1> SUFFICES ASSUME NEW id \in Nat, id < Len(s)
             PROVE  id = 0 /\ Origins(At(s, id), 1) = {<<0, 1>>}
  OBVIOUS
<1>1. id = 0
  BY DEF One
<1>2. At(s, id) = {s[1]}
  BY <1>1, AtIn
<1>3. Origin(s[1].of, 1) = <<0, 1>>
  BY DEF One, Origin, Shared
<1> QED
  BY <1>1, <1>2, <1>3 DEF Origins

\* So one such collection stands for another.
LEMMA OneCarried ==
  ASSUME NEW R, NEW s \in Seq(R), NEW e \in Seq(R), NEW j, NEW k, One(s, j), One(e, k),
         DefaultFamily(inputs[j]), DefaultFamily(inputs[k])
  PROVE  Carried(s, e, 0)
<1> SUFFICES ASSUME NEW id \in Nat, id < Len(e)
             PROVE  id + 0 < Len(s) /\ Origins(At(s, id + 0), 1) = Origins(At(e, id), 1)
  BY DEF Carried
<1>1. id = 0 /\ Origins(At(e, id), 1) = {<<0, 1>>}
  BY OneIs
<1>2. 0 < Len(s) /\ id + 0 = 0
  BY <1>1 DEF One
<1>3. Origins(At(s, 0), 1) = {<<0, 1>>}
  BY <1>2, OneIs
<1> QED
  BY <1>1, <1>2, <1>3

\* The same for borders, of which there may be none.
LEMMA OneBorder ==
  ASSUME NEW d, HeaderOK(d), NEW k, One(d.borders, k), DefaultFamily(inputs[k])
  PROVE  \A id \in Nat : id <= Len(d.borders) =>
           id \in {0, 1} /\ Border(d, id) = IF id = 0 THEN {} ELSE {<<0, 1>>}
<1> SUFFICES ASSUME NEW id \in Nat, id <= Len(d.borders)
             PROVE  id \in {0, 1} /\ Border(d, id) = IF id = 0 THEN {} ELSE {<<0, 1>>}
  OBVIOUS
<1>1. Len(d.borders) = 1 /\ d.borders \in Seq(Entry)
  BY DEF One, HeaderOK
<1>2. id \in {0, 1}
  BY <1>1
<1>3. CASE id = 0
  BY <1>3 DEF Border
<1>4. CASE id = 1
  <2>1. Origins(At(d.borders, 0), 1) = {<<0, 1>>}
    <3>1. 0 \in Nat /\ 0 < Len(d.borders)
      BY <1>1
    <3> QED
      BY <1>1, <3>1, OneIs
  <2>2. id - 1 = 0 /\ id # 0
    BY <1>4
  <2> QED
    BY <1>4, <2>1, <2>2 DEF Border
<1> QED
  BY <1>2, <1>3, <1>4

\* Appended borders, of which an id of 0 names none.
LEMMA BordersAppended ==
  ASSUME NEW t, HeaderOK(t), NEW in, HeaderOK(in), NEW u, NEW how,
         u.borders = t.borders \o in.borders, how.border = Len(t.borders)
  PROVE  BordersCarried(u, in, how)
<1>1. /\ t.borders \in Seq(Entry) /\ in.borders \in Seq(Entry)
      /\ Len(t.borders) \in Nat /\ Len(in.borders) \in Nat
  BY HeaderLengths DEF HeaderOK
<1>2. Len(u.borders) = Len(t.borders) + Len(in.borders)
  <2>1. Len(t.borders \o in.borders) = Len(t.borders) + Len(in.borders)
    BY <1>1, Joined
  <2> QED
    BY <2>1
<1>3. \A a, b \in Nat : b <= a + b /\ 0 <= a + b
  OBVIOUS
<1>4. Len(in.borders) <= Len(u.borders) /\ 0 <= Len(u.borders)
  BY <1>1, <1>2, <1>3
<1>5. ListCarried(u.borders, in.borders, Len(t.borders))
  BY <1>1, ListAppended
<1>6. ASSUME NEW id \in Nat, id <= Len(in.borders)
      PROVE  /\ PastNone(id, how.border) <= Len(u.borders)
             /\ Border(u, PastNone(id, how.border)) = Border(in, id)
  <2>1. CASE id = 0
    BY <1>4, <2>1 DEF PastNone, Border
  <2>2. CASE id # 0
    <3>1. PastNone(id, how.border) = id + Len(t.borders)
      BY <2>2 DEF PastNone
    <3>2. id - 1 \in Nat /\ id - 1 < Len(in.borders)
      BY <1>1, <1>6, <2>2
    <3>3. At(u.borders, (id - 1) + Len(t.borders)) = At(in.borders, id - 1)
      BY <1>5, <3>2 DEF ListCarried
    <3>4. /\ (id - 1) + Len(t.borders) = (id + Len(t.borders)) - 1 /\ id + Len(t.borders) # 0
          /\ id + Len(t.borders) <= Len(u.borders)
      BY <1>1, <1>2, <1>6, <2>2
    <3>5. Border(u, id + Len(t.borders)) = Border(in, id)
      BY <2>2, <3>3, <3>4 DEF Border
    <3> QED
      BY <3>1, <3>4, <3>5
  <2> QED
    BY <2>1, <2>2
<1> QED
  BY <1>6, <1>4 DEF BordersCarried

\* The one border of two default-family headers.
LEMMA BordersShared ==
  ASSUME NEW u, HeaderOK(u), NEW in, HeaderOK(in), NEW j, NEW k, NEW how, how.border = 0,
         One(u.borders, j), One(in.borders, k), DefaultFamily(inputs[j]), DefaultFamily(inputs[k])
  PROVE  BordersCarried(u, in, how)
<1>1. Len(in.borders) = 1 /\ Len(u.borders) = 1
  BY DEF One
<1>2. ASSUME NEW id \in Nat, id <= Len(in.borders)
      PROVE  /\ PastNone(id, how.border) <= Len(u.borders)
             /\ Border(u, PastNone(id, how.border)) = Border(in, id)
  <2>1. PastNone(id, how.border) = id
    BY DEF PastNone
  <2>2. id <= Len(u.borders)
    BY <1>1, <1>2
  <2>3. Border(in, id) = IF id = 0 THEN {} ELSE {<<0, 1>>}
    BY <1>2, OneBorder
  <2>4. Border(u, id) = IF id = 0 THEN {} ELSE {<<0, 1>>}
    BY <2>2, OneBorder
  <2> QED
    BY <2>1, <2>2, <2>3, <2>4
<1>3. Len(in.borders) <= Len(u.borders)
  BY <1>1
<1> QED
  BY <1>2, <1>3 DEF BordersCarried

\* The collections of one entry of a header of the default family.
Ones(d, k) == One(d.fonts, k) /\ One(d.borders, k) /\ One(d.tabs, k) /\ One(d.styles, k)

\* An input of the default family has them.
LEMMA OnesInput ==
  ASSUME NEW d, NEW k, IsInput(d, k), DefaultFamily(d)
  PROVE  Ones(d, k)
<1>1. Len(d.borders) = 1 /\ Len(d.tabs) = 1 /\ Len(d.styles) = 1 /\ Len(d.fonts) = 1
  BY FamilySizes
<1>2. d.borders \in Seq(Entry) /\ d.tabs \in Seq(Entry) /\ d.styles \in Seq(NamedEntry)
      /\ d.fonts \in Seq(NamedEntry)
  BY InputHeader DEF HeaderOK
<1>3. 1 \in DOMAIN d.borders /\ 1 \in DOMAIN d.tabs /\ 1 \in DOMAIN d.styles /\ 1 \in DOMAIN d.fonts
  BY <1>1, <1>2
<1>4. Tags(d.borders, k) /\ Tags(d.tabs, k) /\ Tags(d.styles, k) /\ Tags(d.fonts, k)
  BY DEF IsInput
<1> QED
  BY <1>1, <1>3, <1>4 DEF Tags, One, Ones

\* A collection that stays one entry long keeps that entry.
LEMMA OneGrows ==
  ASSUME NEW s, NEW l, NEW k, One(s, k), Grows(s, l), Len(l) = 1
  PROVE  One(l, k)
<1>1. 1 \in 1..Len(s)
  BY DEF One
<1> QED
  BY <1>1 DEF One, Grows

\* So does a target that is still of the default family.
LEMMA OnesGrow ==
  ASSUME NEW d, NEW t, NEW k, Ones(d, k), Extends(d, t), DefaultFamily(t)
  PROVE  Ones(t, k)
<1>1. Len(t.borders) = 1 /\ Len(t.tabs) = 1 /\ Len(t.styles) = 1 /\ Len(t.fonts) = 1
  BY FamilySizes
<1>2. /\ Grows(d.borders, t.borders) /\ Grows(d.tabs, t.tabs)
      /\ Grows(d.styles, t.styles) /\ Grows(d.fonts, t.fonts)
  BY DEF Extends
<1>3. One(d.fonts, k) /\ One(d.borders, k) /\ One(d.tabs, k) /\ One(d.styles, k)
  BY DEF Ones
<1> QED
  BY <1>1, <1>2, <1>3, OneGrows DEF Ones

\* What a char shape of the shared palette means, wherever it is.
LEMMA PaletteChar ==
  ASSUME NEW d, HeaderOK(d), NEW k, Ones(d, k), DefaultFamily(inputs[k]),
         NEW n, n <= Palette, NEW e \in CharShape, e.of = <<k, n>>, CharResolves(d, e)
  PROVE  CharMeaning(d, e) = <<<<0, n>>, {<<0, 1>>}, IF e.border = 0 THEN {} ELSE {<<0, 1>>}>>
<1>1. e.font \in Nat /\ e.border \in Nat /\ e.font < Len(d.fonts) /\ e.border <= Len(d.borders)
  BY CharTypes DEF CharResolves
<1>2. One(d.fonts, k) /\ One(d.borders, k) /\ d.fonts \in Seq(NamedEntry)
  BY DEF Ones, HeaderOK
<1>3. Origins(At(d.fonts, e.font), 1) = {<<0, 1>>}
  BY <1>1, <1>2, OneIs
<1>4. Border(d, e.border) = IF e.border = 0 THEN {} ELSE {<<0, 1>>}
  BY <1>1, <1>2, OneBorder
<1>5. Origin(e.of, Palette) = <<0, n>>
  BY DEF Origin, Shared
<1> QED
  BY <1>3, <1>4, <1>5 DEF CharMeaning

\* The same for para shapes, whose lists are the family's own.
LEMMA PalettePara ==
  ASSUME NEW d, HeaderOK(d), NEW k, Ones(d, k), DefaultFamily(inputs[k]),
         NEW n, n <= BaseParas, NEW e \in ParaShape, e.of = <<k, n>>, ParaResolves(d, e)
  PROVE  ParaMeaning(d, e) =
           <<<<0, n>>, {}, IF e.border = 0 THEN {} ELSE {<<0, 1>>}>>
<1>1. e.border \in Nat /\ e.border <= Len(d.borders)
  BY ParaTypes DEF ParaResolves
<1>2. One(d.borders, k)
  BY DEF Ones
<1>3. Border(d, e.border) = IF e.border = 0 THEN {} ELSE {<<0, 1>>}
  BY <1>1, <1>2, OneBorder
<1>4. Shared(e.of, BaseParas)
  BY DEF Shared
<1>5. Origin(e.of, BaseParas) = <<0, n>> /\ ListOf(d, e) = {}
  BY <1>4 DEF Origin, ListOf
<1> QED
  BY <1>3, <1>5 DEF ParaMeaning

\* Either method carries the collections of an input over.
LEMMA GraftCarries ==
  ASSUME NEW t, HeaderOK(t), NEW k, IsInput(inputs[k], k),
         NEW u, HeaderOK(u), Grafted(t, u, inputs[k], Method(t, inputs[k])),
         IsInput(inputs[1], 1), Extends(inputs[1], t),
         DefaultFamily(t) => DefaultFamily(inputs[1])
  PROVE  Carries(u, inputs[k], Method(t, inputs[k]))
<1> DEFINE in == inputs[k]
           how == Method(t, in)
<1>1. HeaderOK(in)
  BY InputHeader
<1>2. /\ how.level = Len(t.levels) /\ how.bullet = Len(t.bullets)
      /\ \/ /\ how.whole
            /\ how.style = Len(t.styles) /\ how.border = Len(t.borders)
            /\ how.font = Len(t.fonts)
         \/ /\ ~how.whole /\ DefaultFamily(t) /\ DefaultFamily(in)
            /\ how.style = 0 /\ how.border = 0 /\ how.font = 0
  BY <1>1, MethodIs
<1> HIDE DEF how, in
<1>3. Grafted(t, u, in, how)
  BY DEF how, in
<1> SUFFICES Carries(u, in, how)
  BY DEF how, in
<1>4. ListCarried(u.levels, in.levels, how.level) /\ ListCarried(u.bullets, in.bullets, how.bullet)
  <2>1. u.levels = t.levels \o in.levels /\ u.bullets = t.bullets \o in.bullets
    BY <1>3 DEF Grafted
  <2>2. /\ t.levels \in Seq(Entry) /\ in.levels \in Seq(Entry)
        /\ t.bullets \in Seq(Entry) /\ in.bullets \in Seq(Entry)
    BY <1>1 DEF HeaderOK
  <2> QED
    BY <1>2, <2>1, <2>2, ListAppended
<1>5. CASE how.whole
  <2>1. /\ u.styles = t.styles \o in.styles /\ u.fonts = t.fonts \o in.fonts
        /\ u.borders = t.borders \o in.borders
    BY <1>3, <1>5 DEF Grafted
  <2>2. how.style = Len(t.styles) /\ how.border = Len(t.borders) /\ how.font = Len(t.fonts)
    BY <1>2, <1>5
  <2>3. /\ t.styles \in Seq(NamedEntry) /\ in.styles \in Seq(NamedEntry)
        /\ t.fonts \in Seq(NamedEntry) /\ in.fonts \in Seq(NamedEntry)
    BY <1>1 DEF HeaderOK
  <2>4. Carried(u.styles, in.styles, how.style)
    BY <2>1, <2>2, <2>3, ListAppended
  <2>5. Carried(u.fonts, in.fonts, how.font)
    BY <2>1, <2>2, <2>3, ListAppended
  <2>6. BordersCarried(u, in, how)
    BY <1>1, <2>1, <2>2, BordersAppended
  <2> QED
    BY <1>4, <2>4, <2>5, <2>6 DEF Carries
<1>6. CASE ~how.whole
  <2>1. u.styles = t.styles /\ u.fonts = t.fonts /\ u.borders = t.borders
    BY <1>3, <1>6 DEF Grafted
  <2>2. /\ how.style = 0 /\ how.border = 0 /\ how.font = 0
        /\ DefaultFamily(t) /\ DefaultFamily(in) /\ DefaultFamily(inputs[1])
    BY <1>2, <1>6
  <2>3. Ones(in, k)
    BY <2>2, OnesInput DEF in
  <2>4. Ones(t, 1)
    BY <2>2, OnesInput, OnesGrow
  <2>5. /\ One(u.fonts, 1) /\ One(u.borders, 1) /\ One(u.styles, 1)
        /\ One(in.fonts, k) /\ One(in.borders, k) /\ One(in.styles, k)
    BY <2>1, <2>3, <2>4 DEF Ones
  <2>6. /\ u.styles \in Seq(NamedEntry) /\ in.styles \in Seq(NamedEntry)
        /\ u.fonts \in Seq(NamedEntry) /\ in.fonts \in Seq(NamedEntry)
    BY <1>1 DEF HeaderOK
  <2>7. DefaultFamily(inputs[k])
    BY <2>2 DEF in
  <2>8. Carried(u.styles, in.styles, 0)
    BY <2>2, <2>5, <2>6, <2>7, OneCarried
  <2>9. Carried(u.fonts, in.fonts, 0)
    BY <2>2, <2>5, <2>6, <2>7, OneCarried
  <2>10. BordersCarried(u, in, how)
    BY <1>1, <2>2, <2>5, <2>7, BordersShared
  <2> QED
    BY <1>4, <2>2, <2>8, <2>9, <2>10 DEF Carries
<1> QED
  BY <1>5, <1>6

\* The entries at the places of a palette all three headers begin with.
LEMMA PalettePlaces ==
  ASSUME NEW R, NEW s \in Seq(R), NEW l \in Seq(R), NEW m \in Seq(R), Grows(s, l), Grows(l, m),
         NEW k, Tags(s, k), NEW n \in Nat, 1 <= n, n <= Len(s)
  PROVE  /\ n \in DOMAIN s /\ n \in DOMAIN l /\ s[n] \in R /\ s[n].of = <<k, n>>
         /\ l[n] = s[n] /\ m[n] = s[n]
<1>1. n \in 1..Len(s) /\ n \in 1..Len(l)
  BY DEF Grows
<1>2. n \in DOMAIN s /\ n \in DOMAIN l /\ s[n] \in R
  BY <1>1
<1>3. l[n] = s[n] /\ m[n] = l[n]
  BY <1>1 DEF Grows
<1> QED
  BY <1>2, <1>3 DEF Tags

\* The palette an input shares with the target means the same in both: the
\* target's is that of the first input.
LEMMA GraftPalette ==
  ASSUME NEW t, HeaderOK(t), HeaderResolves(t), NEW k, IsInput(inputs[k], k),
         HeaderResolves(inputs[k]),
         NEW u, HeaderOK(u), Grafted(t, u, inputs[k], Method(t, inputs[k])), Extends(t, u),
         IsInput(inputs[1], 1), Extends(inputs[1], t),
         DefaultFamily(t) => DefaultFamily(inputs[1]),
         PaletteCompatible(inputs[1], inputs[k]) => SamePalette(inputs[1], inputs[k])
  PROVE  PaletteCarried(u, inputs[k], Method(t, inputs[k]))
<1> DEFINE in == inputs[k]
           how == Method(t, in)
           base == inputs[1]
<1>1. HeaderOK(in) /\ HeaderOK(base)
  BY InputHeader
<1>2. \/ how.charBase = 0 /\ how.paraBase = 0
      \/ /\ DefaultFamily(t) /\ DefaultFamily(in)
         /\ how.charBase = Palette /\ how.paraBase = BaseParas
  BY <1>1, MethodIs
<1> SUFFICES PaletteCarried(u, in, how)
  OBVIOUS
<1> HIDE DEF how
<1>3. CASE how.charBase = 0 /\ how.paraBase = 0
  BY <1>3 DEF PaletteCarried
<1>4. CASE /\ DefaultFamily(t) /\ DefaultFamily(in)
           /\ how.charBase = Palette /\ how.paraBase = BaseParas
  <2>1. DefaultFamily(t) /\ DefaultFamily(in) /\ DefaultFamily(base)
    BY <1>4
  <2>2. Ones(in, k) /\ Ones(t, 1)
    BY <2>1, OnesInput, OnesGrow
  <2>3. /\ Palette <= Len(base.chars) /\ BaseParas <= Len(base.paras)
        /\ Palette <= Len(in.chars) /\ BaseParas <= Len(in.paras)
        /\ Palette \in Nat /\ BaseParas \in Nat
    BY <2>1, FamilySizes, NumbersAssumption
  <2>4. SamePalette(base, in)
    BY <2>1 DEF PaletteCompatible
  <2>5. /\ base.chars \in Seq(CharShape) /\ base.paras \in Seq(ParaShape)
        /\ in.chars \in Seq(CharShape) /\ in.paras \in Seq(ParaShape)
        /\ t.chars \in Seq(CharShape) /\ t.paras \in Seq(ParaShape)
        /\ u.chars \in Seq(CharShape) /\ u.paras \in Seq(ParaShape)
    BY <1>1 DEF HeaderOK
  <2>6. /\ Grows(base.chars, t.chars) /\ Grows(base.paras, t.paras)
        /\ Grows(t.chars, u.chars) /\ Grows(t.paras, u.paras)
    BY DEF Extends
  <2>7. /\ Tags(base.chars, 1) /\ Tags(base.paras, 1) /\ Tags(in.chars, k) /\ Tags(in.paras, k)
    BY DEF IsInput
  <2>8. Grows(in.chars, in.chars) /\ Grows(in.paras, in.paras)
    BY <2>5, GrowsSelf
  <2>9. ASSUME NEW n \in 1..Palette
        PROVE  CharMeaning(u, u.chars[n]) = CharMeaning(in, in.chars[n])
    <3> DEFINE e == base.chars[n]
               f == in.chars[n]
    <3>1. n \in Nat /\ 1 <= n /\ n <= Palette /\ n <= Len(base.chars) /\ n <= Len(in.chars)
      BY <2>3, <2>5
    <3>2. e \in CharShape /\ e.of = <<1, n>> /\ t.chars[n] = e /\ u.chars[n] = e /\ n \in DOMAIN t.chars
      <4>1. /\ base.chars \in Seq(CharShape) /\ t.chars \in Seq(CharShape) /\ u.chars \in Seq(CharShape)
            /\ Grows(base.chars, t.chars) /\ Grows(t.chars, u.chars) /\ Tags(base.chars, 1)
        BY <2>5, <2>6, <2>7
      <4>2. n \in Nat /\ 1 <= n /\ n <= Len(base.chars)
        BY <3>1
      <4> QED
        BY <4>1, <4>2, PalettePlaces
    <3>3. f \in CharShape /\ f.of = <<k, n>> /\ n \in DOMAIN in.chars
      <4>1. in.chars \in Seq(CharShape) /\ Grows(in.chars, in.chars) /\ Tags(in.chars, k)
        BY <2>5, <2>7, <2>8
      <4>2. n \in Nat /\ 1 <= n /\ n <= Len(in.chars)
        BY <3>1
      <4> QED
        BY <4>1, <4>2, PalettePlaces
    <3>4. CharResolves(t, e) /\ CharResolves(in, f)
      BY <3>2, <3>3 DEF HeaderResolves
    <3>5. e.border = f.border
      BY <2>4 DEF SamePalette
    <3> HIDE DEF e, f
    <3>6. CharMeaning(t, e) = <<<<0, n>>, {<<0, 1>>}, IF e.border = 0 THEN {} ELSE {<<0, 1>>}>>
      BY <2>1, <2>2, <3>1, <3>2, <3>4, PaletteChar
    <3>7. CharMeaning(in, f) = <<<<0, n>>, {<<0, 1>>}, IF f.border = 0 THEN {} ELSE {<<0, 1>>}>>
      BY <1>1, <2>1, <2>2, <3>1, <3>3, <3>4, PaletteChar
    <3>8. CharMeaning(u, e) = CharMeaning(t, e)
      BY <3>2, <3>4, CharGrows
    <3> QED
      BY <3>2, <3>5, <3>6, <3>7, <3>8 DEF f
  <2>10. ASSUME NEW n \in 1..BaseParas
         PROVE  ParaMeaning(u, u.paras[n]) = ParaMeaning(in, in.paras[n])
    <3> DEFINE e == base.paras[n]
               f == in.paras[n]
    <3>1. n \in Nat /\ 1 <= n /\ n <= BaseParas /\ n <= Len(base.paras) /\ n <= Len(in.paras)
      BY <2>3, <2>5
    <3>2. e \in ParaShape /\ e.of = <<1, n>> /\ t.paras[n] = e /\ u.paras[n] = e /\ n \in DOMAIN t.paras
      <4>1. /\ base.paras \in Seq(ParaShape) /\ t.paras \in Seq(ParaShape) /\ u.paras \in Seq(ParaShape)
            /\ Grows(base.paras, t.paras) /\ Grows(t.paras, u.paras) /\ Tags(base.paras, 1)
        BY <2>5, <2>6, <2>7
      <4>2. n \in Nat /\ 1 <= n /\ n <= Len(base.paras)
        BY <3>1
      <4> QED
        BY <4>1, <4>2, PalettePlaces
    <3>3. f \in ParaShape /\ f.of = <<k, n>> /\ n \in DOMAIN in.paras
      <4>1. in.paras \in Seq(ParaShape) /\ Grows(in.paras, in.paras) /\ Tags(in.paras, k)
        BY <2>5, <2>7, <2>8
      <4>2. n \in Nat /\ 1 <= n /\ n <= Len(in.paras)
        BY <3>1
      <4> QED
        BY <4>1, <4>2, PalettePlaces
    <3>4. ParaResolves(t, e) /\ ParaResolves(in, f)
      BY <3>2, <3>3 DEF HeaderResolves
    <3>5. e.border = f.border
      BY <2>4 DEF SamePalette
    <3> HIDE DEF e, f
    <3>6. ParaMeaning(t, e) = <<<<0, n>>, {}, IF e.border = 0 THEN {} ELSE {<<0, 1>>}>>
      BY <2>1, <2>2, <3>1, <3>2, <3>4, PalettePara
    <3>7. ParaMeaning(in, f) = <<<<0, n>>, {}, IF f.border = 0 THEN {} ELSE {<<0, 1>>}>>
      BY <1>1, <2>1, <2>2, <3>1, <3>3, <3>4, PalettePara
    <3>8. ParaMeaning(u, e) = ParaMeaning(t, e)
      BY <3>2, <3>4, ParaGrows
    <3> QED
      BY <3>2, <3>5, <3>6, <3>7, <3>8 DEF f
  <2> QED
    BY <1>4, <2>9, <2>10 DEF PaletteCarried
<1> QED
  BY <1>2, <1>3, <1>4

\* A shifted shape of an input means in the target what it meant in the input.
LEMMA CarriedChar ==
  ASSUME NEW in, NEW u, NEW how, HowOK(how), Carries(u, in, how),
         NEW c \in CharShape, CharResolves(in, c)
  PROVE  /\ CharMeaning(u, GraftedChar(how, c)) = CharMeaning(in, c)
         /\ CharResolves(u, GraftedChar(how, c))
<1> DEFINE g == GraftedChar(how, c)
<1>1. g.of = c.of /\ g.font = c.font + how.font /\ g.border = PastNone(c.border, how.border)
  BY GraftedCharIs
<1> HIDE DEF g
<1>2. c.font \in Nat /\ c.border \in Nat /\ c.font < Len(in.fonts) /\ c.border <= Len(in.borders)
  BY CharTypes DEF CharResolves
<1>3. Carried(u.fonts, in.fonts, how.font) /\ BordersCarried(u, in, how)
  BY DEF Carries
<1>4. /\ g.font < Len(u.fonts)
      /\ Origins(At(u.fonts, g.font), 1) = Origins(At(in.fonts, c.font), 1)
  BY <1>1, <1>2, <1>3 DEF Carried
<1>5. g.border <= Len(u.borders) /\ Border(u, g.border) = Border(in, c.border)
  BY <1>1, <1>2, <1>3 DEF BordersCarried
<1>6. CharMeaning(u, g) = CharMeaning(in, c) /\ CharResolves(u, g)
  BY <1>1, <1>4, <1>5 DEF CharMeaning, CharResolves
<1> QED
  BY <1>6 DEF g

\* The same for para shapes.
LEMMA CarriedPara ==
  ASSUME NEW in, NEW u, NEW how, HowOK(how), Carries(u, in, how),
         NEW p \in ParaShape, ParaResolves(in, p)
  PROVE  /\ ParaMeaning(u, GraftedPara(how, p)) = ParaMeaning(in, p)
         /\ ParaResolves(u, GraftedPara(how, p))
<1> DEFINE g == GraftedPara(how, p)
<1>1. /\ g.of = p.of /\ g.head = p.head
      /\ g.list = p.list + ListOffset(how, p.head) /\ g.border = PastNone(p.border, how.border)
  BY GraftedParaIs
<1> HIDE DEF g
<1>2. /\ p.border \in Nat /\ p.list \in Nat /\ p.border <= Len(in.borders)
      /\ p.head = "number" => p.list < Len(in.levels)
      /\ p.head = "bullet" => p.list < Len(in.bullets)
  BY ParaTypes DEF ParaResolves
<1>3. /\ BordersCarried(u, in, how)
      /\ ListCarried(u.levels, in.levels, how.level) /\ ListCarried(u.bullets, in.bullets, how.bullet)
  BY DEF Carries
<1>4. g.border <= Len(u.borders) /\ Border(u, g.border) = Border(in, p.border)
  BY <1>1, <1>2, <1>3 DEF BordersCarried
<1>5. p.head = "number" => g.list < Len(u.levels) /\ At(u.levels, g.list) = At(in.levels, p.list)
  <2> SUFFICES ASSUME p.head = "number"
               PROVE  g.list < Len(u.levels) /\ At(u.levels, g.list) = At(in.levels, p.list)
    OBVIOUS
  <2>1. g.list = p.list + how.level
    BY <1>1 DEF ListOffset
  <2> QED
    BY <1>2, <1>3, <2>1 DEF ListCarried
<1>6. p.head = "bullet" => g.list < Len(u.bullets) /\ At(u.bullets, g.list) = At(in.bullets, p.list)
  <2> SUFFICES ASSUME p.head = "bullet"
               PROVE  g.list < Len(u.bullets) /\ At(u.bullets, g.list) = At(in.bullets, p.list)
    OBVIOUS
  <2>1. g.list = p.list + how.bullet
    BY <1>1 DEF ListOffset
  <2> QED
    BY <1>2, <1>3, <2>1 DEF ListCarried
<1>7. ListOf(u, g) = ListOf(in, p)
  BY <1>1, <1>5, <1>6 DEF ListOf
<1>8. ParaResolves(u, g)
  BY <1>1, <1>4, <1>5, <1>6 DEF ParaResolves
<1>9. ParaMeaning(u, g) = ParaMeaning(in, p)
  BY <1>1, <1>4, <1>7 DEF ParaMeaning
<1> QED
  BY <1>8, <1>9 DEF g

\* The id in the input of a place past what the target held.
LEMMA PlaceBack ==
  ASSUME NEW base \in Nat, NEW old \in Nat, NEW len \in Nat, NEW n \in 1..(old + (len - base)),
         ~(n <= old)
  PROVE  LET j == (n - old) + base
         IN j \in (base + 1)..len /\ j \in 1..len /\ (j - base) + old = n
OBVIOUS

\* A paragraph's shifted char id finds a shape that means what its own meant.
LEMMA NewChar ==
  ASSUME NEW t, HeaderOK(t), NEW in, HeaderOK(in), HeaderResolves(in), NEW u, HeaderOK(u),
         NEW how, HowOK(how), how.charBase <= Len(in.chars), how.charBase <= Len(t.chars),
         how.char = Len(t.chars) - how.charBase,
         CharsGrafted(t.chars, in.chars, how, u.chars), Carries(u, in, how),
         PaletteCarried(u, in, how), NEW id \in Nat, id < Len(in.chars)
  PROVE  LET m == Past(how.charBase, id, how.char)
         IN /\ m \in Nat /\ m < Len(u.chars)
            /\ CharMeaning(u, u.chars[m + 1]) = CharMeaning(in, in.chars[id + 1])
<1> DEFINE base == how.charBase
           old == Len(t.chars)
           m == Past(base, id, how.char)
<1>1. base \in Nat /\ old \in Nat /\ Len(in.chars) \in Nat /\ base <= old
  BY HowTypes, HeaderLengths
<1>2. Len(u.chars) = old + (Len(in.chars) - base)
  BY DEF CharsGrafted
<1>3. CASE id < base
  <2>1. m = id
    BY <1>3 DEF Past
  <2>2. id + 1 \in 1..base /\ id < Len(u.chars)
    BY <1>1, <1>2, <1>3
  <2>3. CharMeaning(u, u.chars[id + 1]) = CharMeaning(in, in.chars[id + 1])
    BY <2>2 DEF PaletteCarried
  <2> QED
    BY <2>1, <2>2, <2>3
<1>4. CASE ~(id < base)
  <2>1. base <= id /\ how.char = old - base
    BY <1>1, <1>4
  <2>2. m \in Nat /\ m + 1 = ((id + 1) - base) + old
    <3>1. m = id + (old - base)
      BY <1>4, <2>1 DEF Past
    <3>2. base \in Nat /\ old \in Nat /\ base <= old /\ base <= id
      BY <1>1, <2>1
    <3> HIDE DEF m, base, old
    <3> QED
      BY <3>1, <3>2
  <2>3. id + 1 \in (base + 1)..Len(in.chars)
    BY <1>1, <2>1
  <2>4. u.chars[((id + 1) - base) + old] = GraftedChar(how, in.chars[id + 1])
    BY <2>3 DEF CharsGrafted
  <2>5. in.chars[id + 1] \in CharShape /\ id + 1 \in DOMAIN in.chars
    <3>1. in.chars \in Seq(CharShape)
      BY DEF HeaderOK
    <3> QED
      BY <3>1, AtIn
  <2>6. CharResolves(in, in.chars[id + 1])
    BY <2>5 DEF HeaderResolves
  <2>7. CharMeaning(u, GraftedChar(how, in.chars[id + 1])) = CharMeaning(in, in.chars[id + 1])
    BY <2>5, <2>6, CarriedChar
  <2> HIDE DEF m
  <2>8. m < Len(u.chars)
    <3>1. \A a, b, c, d, e \in Nat : a + 1 = ((b + 1) - c) + d /\ b < e => a < d + (e - c)
      OBVIOUS
    <3> HIDE DEF base, old
    <3> QED
      BY <1>1, <1>2, <2>2, <3>1
  <2> QED
    BY <2>2, <2>4, <2>7, <2>8 DEF m
<1> QED
  BY <1>3, <1>4

\* The same for para shapes.
LEMMA NewPara ==
  ASSUME NEW t, HeaderOK(t), NEW in, HeaderOK(in), HeaderResolves(in), NEW u, HeaderOK(u),
         NEW how, HowOK(how), how.paraBase <= Len(in.paras), how.paraBase <= Len(t.paras),
         how.para = Len(t.paras) - how.paraBase,
         ParasGrafted(t.paras, in.paras, how, u.paras), Carries(u, in, how),
         PaletteCarried(u, in, how), NEW id \in Nat, id < Len(in.paras)
  PROVE  LET m == Past(how.paraBase, id, how.para)
         IN /\ m \in Nat /\ m < Len(u.paras)
            /\ ParaMeaning(u, u.paras[m + 1]) = ParaMeaning(in, in.paras[id + 1])
<1> DEFINE base == how.paraBase
           old == Len(t.paras)
           m == Past(base, id, how.para)
<1>1. base \in Nat /\ old \in Nat /\ Len(in.paras) \in Nat /\ base <= old
  BY HowTypes, HeaderLengths
<1>2. Len(u.paras) = old + (Len(in.paras) - base)
  BY DEF ParasGrafted
<1>3. CASE id < base
  <2>1. m = id
    BY <1>3 DEF Past
  <2>2. id + 1 \in 1..base /\ id < Len(u.paras)
    BY <1>1, <1>2, <1>3
  <2>3. ParaMeaning(u, u.paras[id + 1]) = ParaMeaning(in, in.paras[id + 1])
    BY <2>2 DEF PaletteCarried
  <2> QED
    BY <2>1, <2>2, <2>3
<1>4. CASE ~(id < base)
  <2>1. base <= id /\ how.para = old - base
    BY <1>1, <1>4
  <2>2. m \in Nat /\ m + 1 = ((id + 1) - base) + old
    <3>1. m = id + (old - base)
      BY <1>4, <2>1 DEF Past
    <3>2. base \in Nat /\ old \in Nat /\ base <= old /\ base <= id
      BY <1>1, <2>1
    <3> HIDE DEF m, base, old
    <3> QED
      BY <3>1, <3>2
  <2>3. id + 1 \in (base + 1)..Len(in.paras)
    BY <1>1, <2>1
  <2>4. u.paras[((id + 1) - base) + old] = GraftedPara(how, in.paras[id + 1])
    BY <2>3 DEF ParasGrafted
  <2>5. in.paras[id + 1] \in ParaShape /\ id + 1 \in DOMAIN in.paras
    <3>1. in.paras \in Seq(ParaShape)
      BY DEF HeaderOK
    <3> QED
      BY <3>1, AtIn
  <2>6. ParaResolves(in, in.paras[id + 1])
    BY <2>5 DEF HeaderResolves
  <2>7. ParaMeaning(u, GraftedPara(how, in.paras[id + 1])) = ParaMeaning(in, in.paras[id + 1])
    BY <2>5, <2>6, CarriedPara
  <2> HIDE DEF m
  <2>8. m < Len(u.paras)
    <3>1. \A a, b, c, d, e \in Nat : a + 1 = ((b + 1) - c) + d /\ b < e => a < d + (e - c)
      OBVIOUS
    <3> HIDE DEF base, old
    <3> QED
      BY <1>1, <1>2, <2>2, <3>1
  <2> QED
    BY <2>2, <2>4, <2>7, <2>8 DEF m
<1> QED
  BY <1>3, <1>4

\* The header after a graft has only references that resolve.
LEMMA GraftResolves ==
  ASSUME NEW t, HeaderOK(t), HeaderResolves(t), NEW in, HeaderOK(in), HeaderResolves(in),
         NEW u, HeaderOK(u), Extends(t, u),
         NEW how, HowOK(how), how.charBase <= Len(in.chars), how.paraBase <= Len(in.paras),
         Grafted(t, u, in, how), Carries(u, in, how)
  PROVE  HeaderResolves(u)
<1>1. CharsGrafted(t.chars, in.chars, how, u.chars) /\ ParasGrafted(t.paras, in.paras, how, u.paras)
  BY DEF Grafted
<1>2. /\ how.charBase \in Nat /\ how.paraBase \in Nat
      /\ Len(t.chars) \in Nat /\ Len(in.chars) \in Nat /\ Len(t.paras) \in Nat /\ Len(in.paras) \in Nat
      /\ DOMAIN t.chars = 1..Len(t.chars) /\ DOMAIN in.chars = 1..Len(in.chars)
      /\ DOMAIN t.paras = 1..Len(t.paras) /\ DOMAIN in.paras = 1..Len(in.paras)
      /\ DOMAIN u.chars = 1..Len(u.chars) /\ DOMAIN u.paras = 1..Len(u.paras)
  BY HowTypes, HeaderLengths
<1>3. /\ Len(u.chars) = Len(t.chars) + (Len(in.chars) - how.charBase)
      /\ Len(u.paras) = Len(t.paras) + (Len(in.paras) - how.paraBase)
  BY <1>1 DEF CharsGrafted, ParasGrafted
<1>4. Grows(t.chars, u.chars) /\ Grows(t.paras, u.paras)
  BY DEF Extends
<1>5. ASSUME NEW n \in DOMAIN u.chars PROVE CharResolves(u, u.chars[n])
  <2>1. CASE n <= Len(t.chars)
    <3>1. n \in 1..Len(t.chars) /\ n \in DOMAIN t.chars
      BY <1>2, <2>1
    <3>2. u.chars[n] = t.chars[n]
      BY <1>4, <3>1 DEF Grows
    <3>3. t.chars[n] \in CharShape /\ CharResolves(t, t.chars[n])
      BY <3>1 DEF HeaderOK, HeaderResolves
    <3> QED
      BY <3>2, <3>3, CharGrows
  <2>2. CASE ~(n <= Len(t.chars))
    <3> DEFINE j == (n - Len(t.chars)) + how.charBase
    <3>1. /\ j \in (how.charBase + 1)..Len(in.chars) /\ j \in DOMAIN in.chars
          /\ (j - how.charBase) + Len(t.chars) = n
      <4>1. n \in 1..(Len(t.chars) + (Len(in.chars) - how.charBase))
        BY <1>2, <1>3
      <4>2. /\ how.charBase \in Nat /\ Len(t.chars) \in Nat /\ Len(in.chars) \in Nat
            /\ DOMAIN in.chars = 1..Len(in.chars)
        BY <1>2
      <4>3. /\ j \in (how.charBase + 1)..Len(in.chars) /\ j \in 1..Len(in.chars)
            /\ (j - how.charBase) + Len(t.chars) = n
        <5>1. /\ how.charBase \in Nat /\ Len(t.chars) \in Nat /\ Len(in.chars) \in Nat
          BY <4>2
        <5> QED
          BY <2>2, <4>1, <5>1, PlaceBack
      <4> QED
        BY <4>2, <4>3
    <3> HIDE DEF j
    <3>2. u.chars[n] = GraftedChar(how, in.chars[j])
      BY <1>1, <3>1 DEF CharsGrafted
    <3>3. in.chars[j] \in CharShape /\ CharResolves(in, in.chars[j])
      BY <3>1 DEF HeaderOK, HeaderResolves
    <3> QED
      BY <3>2, <3>3, CarriedChar
  <2> QED
    BY <2>1, <2>2
<1>6. ASSUME NEW n \in DOMAIN u.paras PROVE ParaResolves(u, u.paras[n])
  <2>1. CASE n <= Len(t.paras)
    <3>1. n \in 1..Len(t.paras) /\ n \in DOMAIN t.paras
      BY <1>2, <2>1
    <3>2. u.paras[n] = t.paras[n]
      BY <1>4, <3>1 DEF Grows
    <3>3. t.paras[n] \in ParaShape /\ ParaResolves(t, t.paras[n])
      BY <3>1 DEF HeaderOK, HeaderResolves
    <3> QED
      BY <3>2, <3>3, ParaGrows
  <2>2. CASE ~(n <= Len(t.paras))
    <3> DEFINE j == (n - Len(t.paras)) + how.paraBase
    <3>1. /\ j \in (how.paraBase + 1)..Len(in.paras) /\ j \in DOMAIN in.paras
          /\ (j - how.paraBase) + Len(t.paras) = n
      <4>1. n \in 1..(Len(t.paras) + (Len(in.paras) - how.paraBase))
        BY <1>2, <1>3
      <4>2. /\ how.paraBase \in Nat /\ Len(t.paras) \in Nat /\ Len(in.paras) \in Nat
            /\ DOMAIN in.paras = 1..Len(in.paras)
        BY <1>2
      <4>3. /\ j \in (how.paraBase + 1)..Len(in.paras) /\ j \in 1..Len(in.paras)
            /\ (j - how.paraBase) + Len(t.paras) = n
        <5>1. /\ how.paraBase \in Nat /\ Len(t.paras) \in Nat /\ Len(in.paras) \in Nat
          BY <4>2
        <5> QED
          BY <2>2, <4>1, <5>1, PlaceBack
      <4> QED
        BY <4>2, <4>3
    <3> HIDE DEF j
    <3>2. u.paras[n] = GraftedPara(how, in.paras[j])
      BY <1>1, <3>1 DEF ParasGrafted
    <3>3. in.paras[j] \in ParaShape /\ ParaResolves(in, in.paras[j])
      BY <3>1 DEF HeaderOK, HeaderResolves
    <3> QED
      BY <3>2, <3>3, CarriedPara
  <2> QED
    BY <2>1, <2>2
<1> QED
  BY <1>5, <1>6 DEF HeaderResolves

\* A paragraph with the references of another, shifted.
Shifted(q, p, how) ==
  /\ q.para = Past(how.paraBase, p.para, how.para)
  /\ q.char = Past(how.charBase, p.char, how.char)
  /\ q.style = p.style + how.style /\ q.border = PastNone(p.border, how.border)
  /\ q.page.text = p.page.text
  /\ q.page.id = IF p.page.text THEN p.page.id ELSE PastNone(p.page.id, how.border)

\* The references of an input's paragraph are ids.
LEMMA ParagraphTypes ==
  ASSUME NEW p \in Paragraph
  PROVE  RefsOK(p)
<1>1. /\ p.para \in Nat /\ p.char \in Nat /\ p.style \in Nat /\ p.border \in Nat
      /\ p.page \in [text : BOOLEAN, id : Nat]
  BY DEF Paragraph
<1>2. p.page.text \in BOOLEAN /\ p.page.id \in Nat
  BY <1>1
<1> QED
  BY <1>1, <1>2 DEF RefsOK

\* remap_paragraph leaves the page's border as it is, and so would a shift by 0.
LEMMA GraftedShifts ==
  ASSUME NEW p \in Paragraph, NEW how, HowOK(how), how.whole \in BOOLEAN,
         how.whole \/ how.border = 0, NEW names, NEW object
  PROVE  Shifted([GraftedParagraph(how, names, p) EXCEPT !.object = object], p, how)
<1> DEFINE g == GraftedParagraph(how, names, p)
           q == [g EXCEPT !.object = object]
<1>1. /\ g.para = Past(how.paraBase, p.para, how.para)
      /\ g.char = Past(how.charBase, p.char, how.char)
      /\ g.style = p.style + how.style /\ g.border = PastNone(p.border, how.border)
      /\ g.page = GraftedPage(how, p.page)
  <2>1. g.para = Past(how.paraBase, p.para, how.para)
    BY DEF GraftedParagraph, Paragraph
  <2>2. g.char = Past(how.charBase, p.char, how.char)
    BY DEF GraftedParagraph, Paragraph
  <2>3. g.style = p.style + how.style
    BY DEF GraftedParagraph, Paragraph
  <2>4. g.border = PastNone(p.border, how.border)
    BY DEF GraftedParagraph, Paragraph
  <2>5. g.page = GraftedPage(how, p.page)
    BY DEF GraftedParagraph, Paragraph
  <2> HIDE DEF g
  <2> QED
    BY <2>1, <2>2, <2>3, <2>4, <2>5
<1>2. /\ q.para = g.para /\ q.char = g.char /\ q.style = g.style /\ q.border = g.border
      /\ q.page = g.page
  BY DEF GraftedParagraph, Paragraph
<1> HIDE DEF g, q
<1>3. p.page \in [text : BOOLEAN, id : Nat]
  BY DEF Paragraph
<1>4. /\ q.page.text = p.page.text
      /\ q.page.id = IF p.page.text THEN p.page.id ELSE PastNone(p.page.id, how.border)
  <2>1. CASE how.whole /\ ~p.page.text
    <3>1. q.page = [p.page EXCEPT !.id = PastNone(p.page.id, how.border)]
      BY <1>1, <1>2, <2>1 DEF GraftedPage
    <3> QED
      BY <1>3, <2>1, <3>1
  <2>2. CASE ~(how.whole /\ ~p.page.text)
    <3>1. q.page = p.page
      BY <1>1, <1>2, <2>2 DEF GraftedPage
    <3>2. how.border = 0 => PastNone(p.page.id, how.border) = p.page.id
      <4>1. p.page.id \in Nat
        BY <1>3
      <4> QED
        BY <4>1 DEF PastNone
    <3> QED
      BY <2>2, <3>1, <3>2
  <2> QED
    BY <2>1, <2>2
<1> QED
  BY <1>1, <1>2, <1>4 DEF Shifted, g, q

\* A shifted paragraph means in the target what it meant in its own document.
LEMMA NewMeaning ==
  ASSUME NEW t, HeaderOK(t), NEW in, HeaderOK(in), HeaderResolves(in), NEW u, HeaderOK(u),
         NEW how, HowOK(how), how.charBase <= Len(in.chars), how.charBase <= Len(t.chars),
         how.char = Len(t.chars) - how.charBase,
         how.paraBase <= Len(in.paras), how.paraBase <= Len(t.paras),
         how.para = Len(t.paras) - how.paraBase,
         Grafted(t, u, in, how), Carries(u, in, how), PaletteCarried(u, in, how),
         NEW p, RefsOK(p), ParagraphResolves(in, p), NEW q, Shifted(q, p, how)
  PROVE  RefsOK(q) /\ ParagraphResolves(u, q) /\ Meaning(u, q) = Meaning(in, p)
<1>1. /\ p.para \in Nat /\ p.char \in Nat /\ p.style \in Nat /\ p.border \in Nat
      /\ p.page.text \in BOOLEAN /\ p.page.id \in Nat
      /\ p.para < Len(in.paras) /\ p.char < Len(in.chars) /\ p.style < Len(in.styles)
      /\ p.border <= Len(in.borders) /\ p.page.id <= Len(in.borders)
  BY DEF RefsOK, ParagraphResolves
<1>2. /\ q.para = Past(how.paraBase, p.para, how.para)
      /\ q.char = Past(how.charBase, p.char, how.char)
      /\ q.style = p.style + how.style /\ q.border = PastNone(p.border, how.border)
      /\ q.page.text = p.page.text
      /\ q.page.id = IF p.page.text THEN p.page.id ELSE PastNone(p.page.id, how.border)
  BY DEF Shifted
<1>3. CharsGrafted(t.chars, in.chars, how, u.chars) /\ ParasGrafted(t.paras, in.paras, how, u.paras)
  BY DEF Grafted
<1>4. /\ q.char \in Nat /\ q.char < Len(u.chars)
      /\ CharMeaning(u, u.chars[q.char + 1]) = CharMeaning(in, in.chars[p.char + 1])
  <2>1. p.char \in Nat /\ p.char < Len(in.chars)
    BY <1>1
  <2> DEFINE m == Past(how.charBase, p.char, how.char)
  <2>2. /\ m \in Nat /\ m < Len(u.chars)
        /\ CharMeaning(u, u.chars[m + 1]) = CharMeaning(in, in.chars[p.char + 1])
    BY <1>3, <2>1, NewChar
  <2>3. q.char = m
    BY <1>2
  <2> HIDE DEF m
  <2> QED
    BY <2>2, <2>3
<1>5. /\ q.para \in Nat /\ q.para < Len(u.paras)
      /\ ParaMeaning(u, u.paras[q.para + 1]) = ParaMeaning(in, in.paras[p.para + 1])
  <2>1. p.para \in Nat /\ p.para < Len(in.paras)
    BY <1>1
  <2> DEFINE m == Past(how.paraBase, p.para, how.para)
  <2>2. /\ m \in Nat /\ m < Len(u.paras)
        /\ ParaMeaning(u, u.paras[m + 1]) = ParaMeaning(in, in.paras[p.para + 1])
    BY <1>3, <2>1, NewPara
  <2>3. q.para = m
    BY <1>2
  <2> HIDE DEF m
  <2> QED
    BY <2>2, <2>3
<1>6. Carried(u.styles, in.styles, how.style) /\ BordersCarried(u, in, how)
  BY DEF Carries
<1>7. /\ q.style < Len(u.styles)
      /\ Origins(At(u.styles, q.style), 1) = Origins(At(in.styles, p.style), 1)
  BY <1>1, <1>2, <1>6 DEF Carried
<1>8. q.border <= Len(u.borders) /\ Border(u, q.border) = Border(in, p.border)
  BY <1>1, <1>2, <1>6 DEF BordersCarried
<1>9. ~p.page.text =>
        q.page.id <= Len(u.borders) /\ Border(u, q.page.id) = Border(in, p.page.id)
  BY <1>1, <1>2, <1>6 DEF BordersCarried
<1>10. p.page.text => q.page.id <= Len(u.borders)
  <2>1. Len(in.borders) <= Len(u.borders)
    BY <1>6 DEF BordersCarried
  <2>2. Len(in.borders) \in Nat /\ Len(u.borders) \in Nat
    BY HeaderLengths
  <2> QED
    BY <1>1, <1>2, <2>1, <2>2
<1>11. q.style \in Nat /\ q.border \in Nat /\ q.page.id \in Nat
  <2>1. how.style \in Nat /\ how.border \in Nat
    BY HowTypes
  <2>2. p.style + how.style \in Nat
    BY <1>1, <2>1
  <2>3. PastNone(p.border, how.border) \in Nat /\ PastNone(p.page.id, how.border) \in Nat
    BY <1>1, <2>1, PastNoneType
  <2> QED
    BY <1>1, <1>2, <2>2, <2>3
<1>12. RefsOK(q)
  BY <1>1, <1>2, <1>4, <1>5, <1>11 DEF RefsOK
<1>13. ParagraphResolves(u, q)
  BY <1>1, <1>4, <1>5, <1>7, <1>8, <1>9, <1>10 DEF ParagraphResolves
<1>14. Meaning(u, q) =
              [para   |-> {ParaMeaning(u, u.paras[q.para + 1])},
               char   |-> {CharMeaning(u, u.chars[q.char + 1])},
               style  |-> Origins(At(u.styles, q.style), 1),
               border |-> Border(u, q.border),
               page   |-> IF q.page.text THEN {} ELSE Border(u, q.page.id)]
  BY <1>12, <1>13, MeaningIs
<1>15. Meaning(in, p) =
              [para   |-> {ParaMeaning(in, in.paras[p.para + 1])},
               char   |-> {CharMeaning(in, in.chars[p.char + 1])},
               style  |-> Origins(At(in.styles, p.style), 1),
               border |-> Border(in, p.border),
               page   |-> IF p.page.text THEN {} ELSE Border(in, p.page.id)]
  BY MeaningIs
<1>16. Meaning(u, q) = Meaning(in, p)
  <2>1. (IF q.page.text THEN {} ELSE Border(u, q.page.id))
          = (IF p.page.text THEN {} ELSE Border(in, p.page.id))
    <3>1. q.page.text = p.page.text
      BY <1>2
    <3>2. CASE p.page.text
      BY <3>1, <3>2
    <3>3. CASE ~p.page.text
      BY <1>9, <3>1, <3>3
    <3> QED
      BY <3>2, <3>3
  <2>2. /\ {ParaMeaning(u, u.paras[q.para + 1])} = {ParaMeaning(in, in.paras[p.para + 1])}
        /\ {CharMeaning(u, u.chars[q.char + 1])} = {CharMeaning(in, in.chars[p.char + 1])}
    BY <1>4, <1>5
  <2>3. /\ Origins(At(u.styles, q.style), 1) = Origins(At(in.styles, p.style), 1)
        /\ Border(u, q.border) = Border(in, p.border)
    BY <1>7, <1>8
  <2> DEFINE R(a, c, s, b, g) == [para |-> a, char |-> c, style |-> s, border |-> b, page |-> g]
             X == IF q.page.text THEN {} ELSE Border(u, q.page.id)
             Y == IF p.page.text THEN {} ELSE Border(in, p.page.id)
  <2>4. /\ Meaning(u, q) = R({ParaMeaning(u, u.paras[q.para + 1])},
                             {CharMeaning(u, u.chars[q.char + 1])},
                             Origins(At(u.styles, q.style), 1), Border(u, q.border), X)
        /\ Meaning(in, p) = R({ParaMeaning(in, in.paras[p.para + 1])},
                              {CharMeaning(in, in.chars[p.char + 1])},
                              Origins(At(in.styles, p.style), 1), Border(in, p.border), Y)
    BY <1>14, <1>15, Zenon
  <2>5. X = Y
    BY <2>1, Zenon
  <2> HIDE DEF R, X, Y
  <2> QED
    BY <2>2, <2>3, <2>4, <2>5
<1> QED
  BY <1>12, <1>13, <1>16

\* Beginning with is transitive.
LEMMA GrowsOn ==
  ASSUME NEW s, NEW l, NEW m, Len(s) \in Nat, Len(l) \in Nat, Len(m) \in Nat,
         Grows(s, l), Grows(l, m)
  PROVE  Grows(s, m)
<1>1. Len(s) <= Len(l) /\ Len(l) <= Len(m)
  BY DEF Grows
<1>2. \A n \in 1..Len(s) : n \in 1..Len(l)
  BY <1>1
<1>3. Len(s) <= Len(m)
  BY <1>1
<1> QED
  BY <1>2, <1>3 DEF Grows

\* So is extending.
LEMMA ExtendsOn ==
  ASSUME NEW s, NEW t, NEW u, HeaderOK(s), HeaderOK(t), HeaderOK(u), Extends(s, t), Extends(t, u)
  PROVE  Extends(s, u)
<1>1. Grows(s.chars, u.chars)
  <2>1. Len(s.chars) \in Nat /\ Len(t.chars) \in Nat /\ Len(u.chars) \in Nat
    BY HeaderLengths
  <2>2. Grows(s.chars, t.chars) /\ Grows(t.chars, u.chars)
    BY DEF Extends
  <2> QED
    BY <2>1, <2>2, GrowsOn
<1>2. Grows(s.paras, u.paras)
  <2>1. Len(s.paras) \in Nat /\ Len(t.paras) \in Nat /\ Len(u.paras) \in Nat
    BY HeaderLengths
  <2>2. Grows(s.paras, t.paras) /\ Grows(t.paras, u.paras)
    BY DEF Extends
  <2> QED
    BY <2>1, <2>2, GrowsOn
<1>3. Grows(s.styles, u.styles)
  <2>1. Len(s.styles) \in Nat /\ Len(t.styles) \in Nat /\ Len(u.styles) \in Nat
    BY HeaderLengths
  <2>2. Grows(s.styles, t.styles) /\ Grows(t.styles, u.styles)
    BY DEF Extends
  <2> QED
    BY <2>1, <2>2, GrowsOn
<1>4. Grows(s.fonts, u.fonts)
  <2>1. Len(s.fonts) \in Nat /\ Len(t.fonts) \in Nat /\ Len(u.fonts) \in Nat
    BY HeaderLengths
  <2>2. Grows(s.fonts, t.fonts) /\ Grows(t.fonts, u.fonts)
    BY DEF Extends
  <2> QED
    BY <2>1, <2>2, GrowsOn
<1>5. Grows(s.borders, u.borders)
  <2>1. Len(s.borders) \in Nat /\ Len(t.borders) \in Nat /\ Len(u.borders) \in Nat
    BY HeaderLengths
  <2>2. Grows(s.borders, t.borders) /\ Grows(t.borders, u.borders)
    BY DEF Extends
  <2> QED
    BY <2>1, <2>2, GrowsOn
<1>6. Grows(s.tabs, u.tabs)
  <2>1. Len(s.tabs) \in Nat /\ Len(t.tabs) \in Nat /\ Len(u.tabs) \in Nat
    BY HeaderLengths
  <2>2. Grows(s.tabs, t.tabs) /\ Grows(t.tabs, u.tabs)
    BY DEF Extends
  <2> QED
    BY <2>1, <2>2, GrowsOn
<1>7. Grows(s.rawTabs, u.rawTabs)
  <2>1. Len(s.rawTabs) \in Nat /\ Len(t.rawTabs) \in Nat /\ Len(u.rawTabs) \in Nat
    BY HeaderLengths
  <2>2. Grows(s.rawTabs, t.rawTabs) /\ Grows(t.rawTabs, u.rawTabs)
    BY DEF Extends
  <2> QED
    BY <2>1, <2>2, GrowsOn
<1>8. Grows(s.levels, u.levels)
  <2>1. Len(s.levels) \in Nat /\ Len(t.levels) \in Nat /\ Len(u.levels) \in Nat
    BY HeaderLengths
  <2>2. Grows(s.levels, t.levels) /\ Grows(t.levels, u.levels)
    BY DEF Extends
  <2> QED
    BY <2>1, <2>2, GrowsOn
<1>9. Grows(s.bullets, u.bullets)
  <2>1. Len(s.bullets) \in Nat /\ Len(t.bullets) \in Nat /\ Len(u.bullets) \in Nat
    BY HeaderLengths
  <2>2. Grows(s.bullets, t.bullets) /\ Grows(t.bullets, u.bullets)
    BY DEF Extends
  <2> QED
    BY <2>1, <2>2, GrowsOn
<1> QED
  BY <1>1, <1>2, <1>3, <1>4, <1>5, <1>6, <1>7, <1>8, <1>9 DEF Extends

\* A header extends itself.
LEMMA ExtendsSelf ==
  ASSUME NEW t, HeaderOK(t)
  PROVE  Extends(t, t)
BY GrowsSelf DEF HeaderOK, Extends

\* A header that has taken in a font besides its own is not of the default family.
LEMMA NotDefault ==
  ASSUME NEW t, HeaderOK(t), NEW in, HeaderOK(in), NEW u, u.fonts = t.fonts \o in.fonts,
         t.fonts # <<>>, in.fonts # <<>>
  PROVE  ~DefaultFamily(u)
<1>1. t.fonts \in Seq(NamedEntry) /\ in.fonts \in Seq(NamedEntry)
  BY DEF HeaderOK
<1>2. Len(t.fonts) \in Nat \ {0} /\ Len(in.fonts) \in Nat \ {0}
  BY <1>1
<1>3. Len(u.fonts) = Len(t.fonts) + Len(in.fonts)
  BY <1>1
<1>4. Len(u.fonts) # 1
  <2>1. \A a, b \in Nat \ {0} : a + b # 1
    OBVIOUS
  <2> QED
    BY <1>2, <1>3, <2>1
<1> QED
  BY <1>4, FamilySizes

\* The target as a header: it begins with the first input's, and is of the
\* default family only if that is.
TargetOK(base, t) ==
  /\ HeaderOK(t) /\ HeaderResolves(t) /\ t.fonts # <<>>
  /\ Extends(base, t)
  /\ DefaultFamily(t) => DefaultFamily(base)

\* One round leaves it so, and carries the input over.
LEMMA GraftRound ==
  ASSUME NEW k, IsInput(inputs[k], k), Resolves(inputs[k]), IsInput(inputs[1], 1),
         PaletteCompatible(inputs[1], inputs[k]) => SamePalette(inputs[1], inputs[k]),
         NEW t, TargetOK(inputs[1], t),
         NEW u, Grafted(t, u, inputs[k], Method(t, inputs[k]))
  PROVE  /\ TargetOK(inputs[1], u) /\ Extends(t, u)
         /\ Carries(u, inputs[k], Method(t, inputs[k]))
         /\ PaletteCarried(u, inputs[k], Method(t, inputs[k]))
<1> DEFINE in == inputs[k]
           how == Method(t, in)
<1>1. HeaderOK(in) /\ HeaderOK(inputs[1]) /\ HeaderResolves(in) /\ in.fonts # <<>>
  BY InputHeader DEF Resolves
<1>2. /\ HeaderOK(t) /\ HeaderResolves(t) /\ t.fonts # <<>> /\ Extends(inputs[1], t)
      /\ DefaultFamily(t) => DefaultFamily(inputs[1])
  BY DEF TargetOK
<1>3. /\ HowOK(how) /\ how.charBase <= Len(in.chars) /\ how.paraBase <= Len(in.paras)
      /\ how.whole \in BOOLEAN
      /\ how.whole \/ DefaultFamily(t)
  <2>1. HowOK(how) /\ how.charBase <= Len(in.chars) /\ how.paraBase <= Len(in.paras)
        /\ (how.whole \/ DefaultFamily(t))
    BY <1>1, <1>2, MethodIs
  <2>2. how.whole \in BOOLEAN
    BY DEF Method, FastPath, General
  <2> QED
    BY <2>1, <2>2
<1> HIDE DEF how
<1>4. HeaderOK(u) /\ Extends(t, u)
  BY <1>1, <1>2, <1>3, GraftExtends DEF how
<1>5. Carries(u, in, how)
  BY <1>2, <1>4, GraftCarries DEF how
<1>6. PaletteCarried(u, in, how)
  BY <1>1, <1>2, <1>4, GraftPalette DEF how
<1>7. HeaderResolves(u)
  BY <1>1, <1>2, <1>3, <1>4, <1>5, GraftResolves DEF how
<1>8. Extends(inputs[1], u)
  BY <1>1, <1>2, <1>4, ExtendsOn
<1>9. u.fonts # <<>>
  <2>1. Grows(t.fonts, u.fonts) /\ t.fonts \in Seq(NamedEntry) /\ u.fonts \in Seq(NamedEntry)
    BY <1>2, <1>4 DEF Extends, HeaderOK
  <2>2. Len(t.fonts) # 0 /\ Len(t.fonts) \in Nat
    BY <1>2, <2>1
  <2>3. Len(u.fonts) # 0
    BY <2>1, <2>2 DEF Grows
  <2> QED
    BY <2>3
<1>10. DefaultFamily(u) => DefaultFamily(inputs[1])
  <2>1. CASE how.whole
    <3>1. u.fonts = t.fonts \o in.fonts
      BY <2>1 DEF Grafted, how
    <3> QED
      BY <1>1, <1>2, <3>1, NotDefault
  <2>2. CASE ~how.whole
    BY <1>2, <1>3, <2>2
  <2> QED
    BY <2>1, <2>2
<1> QED
  BY <1>4, <1>5, <1>6, <1>7, <1>8, <1>9, <1>10 DEF TargetOK, how

\* A paragraph of the target, and the paragraph of an input it was.
SameParagraph(u, q, in, p) ==
  RefsOK(q) /\ ParagraphResolves(u, q) /\ Meaning(u, q) = Meaning(in, p)

SectionKept(u, new, in) ==
  DOMAIN new = DOMAIN in.sections[1]
  /\ \A j \in DOMAIN in.sections[1] : SameParagraph(u, new[j], in, in.sections[1][j])

\* Where the loop is: the target is a header whose references resolve, and every
\* section in it means what it meant.
RefsInv ==
  /\ ObjectsInv
  /\ TargetOK(inputs[1], target)
  /\ \A i \in 1..done : SectionKept(target, target.sections[i], inputs[i])

\* The inputs, and so what an origin is, do not change.
LEMMA SameMeaning ==
  ASSUME inputs' = inputs
  PROVE  (\A i \in 1..done : SectionKept(target, target.sections[i], inputs[i]))'
           <=> \A i \in 1..done' : SectionKept(target', target'.sections[i], inputs[i])
BY DEF SectionKept, SameParagraph, RefsOK, ParagraphResolves, Meaning, ParaMeaning, CharMeaning,
       ListOf, Border, At, Origins, Origin, Shared, DefaultFamily

\* A section that is in the target means the same after another round.
LEMMA SectionLater ==
  ASSUME NEW t, NEW u, HeaderOK(t), HeaderOK(u), Extends(t, u), HeaderResolves(t),
         NEW new, NEW in, SectionKept(t, new, in)
  PROVE  SectionKept(u, new, in)
<1>1. ASSUME NEW j \in DOMAIN in.sections[1]
      PROVE  SameParagraph(u, new[j], in, in.sections[1][j])
  <2>1. SameParagraph(t, new[j], in, in.sections[1][j])
    BY DEF SectionKept
  <2>2. /\ RefsOK(new[j]) /\ ParagraphResolves(t, new[j])
        /\ Meaning(t, new[j]) = Meaning(in, in.sections[1][j])
    BY <2>1 DEF SameParagraph
  <2>3. Meaning(u, new[j]) = Meaning(t, new[j]) /\ ParagraphResolves(u, new[j])
    BY <2>2, MeaningGrows
  <2> QED
    BY <2>2, <2>3 DEF SameParagraph
<1> QED
  BY <1>1 DEF SectionKept

\* The section that a round appends.
LEMMA SectionNew ==
  ASSUME NEW k, IsInput(inputs[k], k), Resolves(inputs[k]),
         NEW t, HeaderOK(t), NEW u, HeaderOK(u),
         Grafted(t, u, inputs[k], Method(t, inputs[k])),
         Carries(u, inputs[k], Method(t, inputs[k])),
         PaletteCarried(u, inputs[k], Method(t, inputs[k])),
         NEW names, NEW object \in Int, NEW z \in Int
  PROVE  SectionKept(u, Renumbered(Remapped(inputs[k], Method(t, inputs[k]), names), object, z).section,
                     inputs[k])
<1> DEFINE in  == inputs[k]
           how == Method(t, in)
           sec == Remapped(in, how, names)
           num == Renumbered(sec, object, z)
<1>1. HeaderOK(in) /\ HeaderResolves(in)
      /\ \A j \in DOMAIN in.sections[1] : ParagraphResolves(in, in.sections[1][j])
  BY InputHeader DEF Resolves
<1>2. /\ HowOK(how) /\ how.charBase <= Len(in.chars) /\ how.paraBase <= Len(in.paras)
      /\ how.charBase <= Len(t.chars) /\ how.paraBase <= Len(t.paras)
      /\ how.char = Len(t.chars) - how.charBase /\ how.para = Len(t.paras) - how.paraBase
      /\ how.whole \/ how.border = 0
      /\ how.whole \in BOOLEAN
  <2>1. /\ HowOK(how) /\ how.charBase <= Len(in.chars) /\ how.paraBase <= Len(in.paras)
        /\ how.charBase <= Len(t.chars) /\ how.paraBase <= Len(t.paras)
        /\ how.char = Len(t.chars) - how.charBase /\ how.para = Len(t.paras) - how.paraBase
        /\ how.whole \/ how.border = 0
    BY <1>1, MethodIs
  <2>2. how.whole \in BOOLEAN
    BY DEF Method, FastPath, General
  <2> QED
    BY <2>1, <2>2
<1> HIDE DEF how
<1>3. /\ DOMAIN sec = DOMAIN in.sections[1] /\ HasObjects(sec)
      /\ \A j \in DOMAIN sec : sec[j] = GraftedParagraph(how, names, in.sections[1][j])
  BY RemappedObjects DEF HasObjects
<1> HIDE DEF sec
<1>4. /\ DOMAIN num.section = DOMAIN sec
      /\ \A j \in DOMAIN sec : num.section[j] = [sec[j] EXCEPT !.object = num.section[j].object]
  BY <1>3, RenumberedFacts
<1> HIDE DEF num
<1>5. Grafted(t, u, in, how) /\ Carries(u, in, how) /\ PaletteCarried(u, in, how)
  BY DEF how
<1>6. ASSUME NEW j \in DOMAIN in.sections[1]
      PROVE  SameParagraph(u, num.section[j], in, in.sections[1][j])
  <2> DEFINE p == in.sections[1][j]
             q == num.section[j]
  <2>1. p \in Paragraph /\ ParagraphResolves(in, p)
    BY <1>1, InputParts
  <2>2. q = [GraftedParagraph(how, names, p) EXCEPT !.object = q.object]
    BY <1>3, <1>4
  <2> HIDE DEF p, q
  <2>3. Shifted(q, p, how)
    <3> DEFINE o == q.object
    <3>1. q = [GraftedParagraph(how, names, p) EXCEPT !.object = o]
      BY <2>2
    <3> HIDE DEF o
    <3>2. Shifted([GraftedParagraph(how, names, p) EXCEPT !.object = o], p, how)
      BY <1>2, <2>1, GraftedShifts
    <3> QED
      BY <3>1, <3>2
  <2>4. RefsOK(p)
    BY <2>1, ParagraphTypes
  <2>5. RefsOK(q) /\ ParagraphResolves(u, q) /\ Meaning(u, q) = Meaning(in, p)
    BY <1>1, <1>2, <1>5, <2>1, <2>3, <2>4, NewMeaning
  <2> QED
    BY <2>5 DEF SameParagraph, p, q
<1>7. DOMAIN num.section = DOMAIN in.sections[1]
  BY <1>3, <1>4
<1> QED
  BY <1>6, <1>7 DEF SectionKept, num, sec, how

\* The inputs of a merge that was asked for stay well made.
LEMMA WellMadeStays ==
  ASSUME WellMade, inputs' = inputs
  PROVE  WellMade'
BY DEF WellMade

\* The first input as the target.
LEMMA RefsInit == Init /\ WellMade => RefsInv /\ WellMade
<1> SUFFICES ASSUME Init, WellMade PROVE RefsInv
  OBVIOUS
<1>1. ObjectsInv
  BY ObjectsInit
<1>2. InputsOK /\ target = inputs[1] /\ done = 1
  BY InitInputs DEF Init
<1>3. IsInput(target, 1) /\ 1 \in DOMAIN inputs
  BY <1>2 DEF InputsOK
<1>4. Resolves(target)
  BY <1>2, <1>3 DEF WellMade
<1>5. HeaderOK(target)
  BY <1>3, InputHeader
<1>6. TargetOK(inputs[1], target)
  BY <1>2, <1>4, <1>5, ExtendsSelf DEF TargetOK, Resolves
<1>7. ASSUME NEW j \in DOMAIN target.sections[1]
      PROVE  SameParagraph(target, target.sections[1][j], target, target.sections[1][j])
  <2>1. target.sections[1][j] \in Paragraph
    BY <1>3, InputParts
  <2>2. ParagraphResolves(target, target.sections[1][j])
    BY <1>4 DEF Resolves
  <2> QED
    BY <2>1, <2>2, ParagraphTypes DEF SameParagraph
<1>8. SectionKept(target, target.sections[1], target)
  BY <1>7 DEF SectionKept
<1>9. \A i \in 1..done : SectionKept(target, target.sections[i], inputs[i])
  <2>1. \A i \in 1..done : i = 1
    BY <1>2
  <2> QED
    BY <1>2, <1>8, <2>1
<1> QED
  BY <1>1, <1>6, <1>9 DEF RefsInv

\* A round: what was there means what it meant, and what is appended too.
LEMMA RefsStep == RefsInv /\ WellMade /\ [Next]_vars => RefsInv' /\ WellMade'
<1> SUFFICES ASSUME RefsInv, WellMade, [Next]_vars PROVE RefsInv' /\ WellMade'
  OBVIOUS
<1>1. /\ ObjectsInv /\ InputsOK /\ done \in 1..3
      /\ Len(target.sections) = done /\ DOMAIN target.sections = 1..done
      /\ nextObject \in Int /\ nextZ \in Int
      /\ TargetOK(inputs[1], target)
      /\ \A i \in 1..done : SectionKept(target, target.sections[i], inputs[i])
  BY DEF RefsInv, ObjectsInv
<1>2. ObjectsInv'
  BY <1>1, ObjectsStep
<1>3. inputs' = inputs
  BY DEF Next, MergeInput, Finish, Done, vars
<1>4. WellMade'
  BY <1>3, WellMadeStays
<1>5. CASE UNCHANGED <<done, target>>
  <2>1. \A i \in 1..done' : SectionKept(target', target'.sections[i], inputs[i])
    BY <1>1, <1>5
  <2>2. TargetOK(inputs[1], target)'
    BY <1>1, <1>3, <1>5 DEF TargetOK
  <2> QED
    BY <1>2, <1>3, <1>4, <2>1, <2>2, SameMeaning DEF RefsInv
<1>6. ASSUME NEW names, NEW bins, NEW streams, done + 1 \in 1..3, done' = done + 1,
             target' = Appended(target, inputs[done + 1], Method(target, inputs[done + 1]),
                                names, bins, streams, nextObject, nextZ)
      PROVE  RefsInv'
  <2> DEFINE k   == done + 1
             how == Method(target, inputs[k])
             u   == Appended(target, inputs[k], how, names, bins, streams, nextObject, nextZ)
             new == Renumbered(Remapped(inputs[k], how, names), nextObject, nextZ).section
  <2>1. /\ IsInput(inputs[k], k) /\ IsInput(inputs[1], 1) /\ k \in DOMAIN inputs /\ 1 \in DOMAIN inputs
    BY <1>1, <1>6 DEF InputsOK
  <2>2. /\ Resolves(inputs[k])
        /\ PaletteCompatible(inputs[1], inputs[k]) => SamePalette(inputs[1], inputs[k])
    BY <2>1 DEF WellMade
  <2>3. HeaderOK(target) /\ HeaderResolves(target)
    BY <1>1 DEF TargetOK
  <2>4. HeaderOK(inputs[k])
    BY <2>1, InputHeader
  <2>5. Grafted(target, u, inputs[k], how)
    BY <2>3, <2>4, AppendedGrafts
  <2>6. u.sections = Append(target.sections, new)
    BY DEF Appended, Merged
  <2>7. u = target'
    BY <1>6
  <2> HIDE DEF u, how, k
  <2>8. /\ TargetOK(inputs[1], u) /\ Extends(target, u)
        /\ Carries(u, inputs[k], how) /\ PaletteCarried(u, inputs[k], how)
    BY <1>1, <2>1, <2>2, <2>5, GraftRound DEF how
  <2>9. HeaderOK(u)
    BY <2>8 DEF TargetOK
  <2>10. SectionKept(u, new, inputs[k])
    BY <1>1, <2>1, <2>2, <2>3, <2>5, <2>8, <2>9, SectionNew DEF how
  <2> HIDE DEF new
  <2>11. u.sections[k] = new /\ \A i \in 1..done : u.sections[i] = target.sections[i]
    <3> DEFINE old == target.sections
    <3>1. DOMAIN old = 1..done /\ Len(old) = done
      BY <1>1
    <3>2. \A i \in 1..(done + 1) : Append(old, new)[i] = IF i <= done THEN old[i] ELSE new
      BY <3>1, <1>1
    <3> QED
      BY <2>6, <3>2, <1>1 DEF k
  <2>12. ASSUME NEW i \in 1..k PROVE SectionKept(u, u.sections[i], inputs[i])
    <3>1. CASE i = k
      BY <2>10, <2>11, <3>1
    <3>2. CASE i # k
      <4>1. i \in 1..done
        BY <1>1, <3>2 DEF k
      <4>2. SectionKept(target, target.sections[i], inputs[i]) /\ u.sections[i] = target.sections[i]
        BY <1>1, <2>11, <4>1
      <4> QED
        BY <2>3, <2>8, <2>9, <4>2, SectionLater
    <3> QED
      BY <3>1, <3>2
  <2>13. \A i \in 1..done' : SectionKept(target', target'.sections[i], inputs[i])
    BY <1>6, <2>7, <2>12 DEF k
  <2>14. TargetOK(inputs[1], target)'
    BY <1>3, <2>7, <2>8 DEF TargetOK
  <2> QED
    BY <1>2, <1>3, <2>13, <2>14, SameMeaning DEF RefsInv
<1>7. CASE MergeInput
  <2>1. CASE UNCHANGED <<done, target>>
    BY <1>4, <1>5, <2>1
  <2>2. CASE ~UNCHANGED <<done, target>>
    <3>1. \E names, bins, streams :
            /\ done + 1 \in 1..3 /\ done' = done + 1
            /\ target' = Appended(target, inputs[done + 1], Method(target, inputs[done + 1]),
                                  names, bins, streams, nextObject, nextZ)
      BY <1>7, <1>1, <2>2, MergeInputStep
    <3> QED
      BY <1>4, <1>6, <3>1
  <2> QED
    BY <2>1, <2>2
<1> QED
  BY <1>4, <1>5, <1>7, OtherSteps

(***************************************************************************)
(* Tabs                                                                    *)
(***************************************************************************)

\* A paragraph finds in a list of tabs what it found in its own document's.
TabKept(u, list, q, in, own, p) ==
  /\ q.para \in Nat /\ q.para < Len(u.paras)
  /\ u.paras[q.para + 1].tab < Len(list)
  /\ Origins(At(list, u.paras[q.para + 1].tab), 1) = TabOf(in, own, p)

SectionTabs(u, list, new, in, own) ==
  \A j \in DOMAIN in.sections[1] : TabKept(u, list, new[j], in, own, in.sections[1][j])

\* What ReferencesKept says of the tabs of an input's section.
TabsKept(u, i) ==
  /\ StopsFollow(i)   => SectionTabs(u, u.tabs, u.sections[i], inputs[i], inputs[i].tabs)
  /\ RecordsFollow(i) => SectionTabs(u, u.rawTabs, u.sections[i], inputs[i], inputs[i].rawTabs)

\* Every para shape's tab is in a list that is as long as the tabs.
TabsIn(d, list) == \A n \in DOMAIN d.paras : d.paras[n].tab < Len(list)

\* The shared palette's tabs mean what they mean in the target.
PaletteTabs(u, list, in, own, how) ==
  \A n \in 1..how.paraBase :
    /\ u.paras[n].tab < Len(list)
    /\ Origins(At(list, u.paras[n].tab), 1) = Origins(At(own, in.paras[n].tab), 1)

\* A paragraph's tab, without At.
LEMMA TabIs ==
  ASSUME NEW d, HeaderOK(d), NEW list, NEW p, p.para \in Nat, p.para < Len(d.paras)
  PROVE  /\ p.para + 1 \in DOMAIN d.paras /\ d.paras[p.para + 1] \in ParaShape
         /\ TabOf(d, list, p) = Origins(At(list, d.paras[p.para + 1].tab), 1)
<1> DEFINE e == d.paras[p.para + 1]
<1>1. At(d.paras, p.para) = {e} /\ p.para + 1 \in DOMAIN d.paras /\ e \in ParaShape
  <2>1. d.paras \in Seq(ParaShape)
    BY DEF HeaderOK
  <2> QED
    BY <2>1, AtIn
<1> HIDE DEF e
<1>2. TabOf(d, list, p) = UNION {Origins(At(list, x.tab), 1) : x \in {e}}
  BY <1>1 DEF TabOf
<1>3. UNION {Origins(At(list, x.tab), 1) : x \in {e}} = Origins(At(list, e.tab), 1)
  OBVIOUS
<1> QED
  BY <1>1, <1>2, <1>3 DEF e

\* So it is the same tab when there are more paragraph shapes and more tabs.
LEMMA TabGrows ==
  ASSUME NEW t, NEW u, HeaderOK(t), HeaderOK(u), Grows(t.paras, u.paras),
         NEW list \in Seq(Entry), NEW more \in Seq(Entry), Grows(list, more),
         NEW q, NEW in, NEW own, NEW p, TabKept(t, list, q, in, own, p)
  PROVE  TabKept(u, more, q, in, own, p)
<1> DEFINE e == t.paras[q.para + 1]
<1>1. /\ q.para \in Nat /\ q.para < Len(t.paras) /\ e.tab < Len(list)
      /\ Origins(At(list, e.tab), 1) = TabOf(in, own, p)
  BY DEF TabKept
<1>2. /\ q.para + 1 \in 1..Len(t.paras) /\ e \in ParaShape
      /\ Len(t.paras) \in Nat /\ Len(u.paras) \in Nat
  BY <1>1, TabIs, HeaderLengths
<1>3. u.paras[q.para + 1] = e /\ q.para < Len(u.paras)
  BY <1>1, <1>2 DEF Grows
<1> HIDE DEF e
<1>4. e.tab \in Nat
  BY <1>2, ParaTypes
<1>5. At(more, e.tab) = At(list, e.tab) /\ e.tab < Len(more)
  <2>1. At(more, e.tab) = At(list, e.tab)
    BY <1>1, <1>4, AtGrows
  <2>2. Len(list) <= Len(more) /\ Len(list) \in Nat /\ Len(more) \in Nat
    BY DEF Grows
  <2> QED
    BY <1>1, <1>4, <2>1, <2>2
<1> QED
  BY <1>1, <1>3, <1>5 DEF TabKept

\* A round later a section still finds its tabs.
LEMMA TabsLater ==
  ASSUME NEW t, NEW u, HeaderOK(t), HeaderOK(u), Extends(t, u), NEW i, TabsKept(t, i),
         u.sections[i] = t.sections[i]
  PROVE  TabsKept(u, i)
<1>1. /\ Grows(t.paras, u.paras) /\ Grows(t.tabs, u.tabs) /\ Grows(t.rawTabs, u.rawTabs)
      /\ t.tabs \in Seq(Entry) /\ u.tabs \in Seq(Entry)
      /\ t.rawTabs \in Seq(Entry) /\ u.rawTabs \in Seq(Entry)
  BY DEF Extends, HeaderOK
<1>2. ASSUME StopsFollow(i)
      PROVE  SectionTabs(u, u.tabs, u.sections[i], inputs[i], inputs[i].tabs)
  <2>1. SectionTabs(t, t.tabs, t.sections[i], inputs[i], inputs[i].tabs)
    BY <1>2 DEF TabsKept
  <2> QED
    BY <1>1, <2>1, TabGrows DEF SectionTabs
<1>3. ASSUME RecordsFollow(i)
      PROVE  SectionTabs(u, u.rawTabs, u.sections[i], inputs[i], inputs[i].rawTabs)
  <2>1. SectionTabs(t, t.rawTabs, t.sections[i], inputs[i], inputs[i].rawTabs)
    BY <1>3 DEF TabsKept
  <2> QED
    BY <1>1, <2>1, TabGrows DEF SectionTabs
<1> QED
  BY <1>2, <1>3 DEF TabsKept

\* A shifted paragraph finds its tab in a list that carries its document's.
LEMMA TabNew ==
  ASSUME NEW t, HeaderOK(t), NEW in, HeaderOK(in), NEW u, HeaderOK(u),
         NEW how, HowOK(how), how.paraBase <= Len(in.paras), how.paraBase <= Len(t.paras),
         how.para = Len(t.paras) - how.paraBase,
         ParasGrafted(t.paras, in.paras, how, u.paras),
         NEW list \in Seq(Entry), NEW own \in Seq(Entry), Carried(list, own, how.tab),
         TabsIn(in, own), PaletteTabs(u, list, in, own, how),
         NEW p, p.para \in Nat, p.para < Len(in.paras),
         NEW q, q.para = Past(how.paraBase, p.para, how.para)
  PROVE  TabKept(u, list, q, in, own, p)
<1> DEFINE base == how.paraBase
           old == Len(t.paras)
           id == p.para
           e == in.paras[id + 1]
<1>1. base \in Nat /\ old \in Nat /\ Len(in.paras) \in Nat /\ base <= old /\ id \in Nat
  BY HowTypes, HeaderLengths
<1>2. Len(u.paras) = old + (Len(in.paras) - base)
  BY DEF ParasGrafted
<1>3. /\ id + 1 \in DOMAIN in.paras /\ e \in ParaShape
      /\ TabOf(in, own, p) = Origins(At(own, e.tab), 1)
  BY TabIs
<1>4. e.tab \in Nat /\ e.tab < Len(own)
  BY <1>3, ParaTypes DEF TabsIn
<1>5. CASE id < base
  <2>1. q.para = id
    BY <1>5 DEF Past
  <2>2. id + 1 \in 1..base /\ id < Len(u.paras)
    BY <1>1, <1>2, <1>5
  <2>3. /\ u.paras[id + 1].tab < Len(list)
        /\ Origins(At(list, u.paras[id + 1].tab), 1) = Origins(At(own, e.tab), 1)
    BY <2>2 DEF PaletteTabs
  <2> QED
    BY <1>1, <1>3, <2>1, <2>2, <2>3 DEF TabKept
<1>6. CASE ~(id < base)
  <2> DEFINE g == GraftedPara(how, e)
  <2>1. base <= id /\ how.para = old - base
    BY <1>1, <1>6
  <2>2. q.para \in Nat /\ q.para + 1 = ((id + 1) - base) + old
    <3>1. q.para = id + (old - base)
      BY <1>6, <2>1 DEF Past
    <3> HIDE DEF base, old, id
    <3> QED
      BY <1>1, <2>1, <3>1
  <2>3. id + 1 \in (base + 1)..Len(in.paras)
    BY <1>1, <2>1
  <2>4. u.paras[((id + 1) - base) + old] = g
    BY <2>3 DEF ParasGrafted
  <2>5. g.tab = e.tab + how.tab
    BY <1>3, GraftedParaIs
  <2>6. g.tab < Len(list) /\ Origins(At(list, g.tab), 1) = Origins(At(own, e.tab), 1)
    BY <1>4, <2>5 DEF Carried
  <2>7. q.para < Len(u.paras)
    <3>1. \A a, b, c, d, f \in Nat : a + 1 = ((b + 1) - c) + d /\ b < f => a < d + (f - c)
      OBVIOUS
    <3> HIDE DEF base, old
    <3> QED
      BY <1>1, <1>2, <2>2, <3>1
  <2> HIDE DEF g, e
  <2> QED
    BY <1>3, <2>2, <2>4, <2>6, <2>7 DEF TabKept
<1> QED
  BY <1>5, <1>6

\* A list of tabs that begins with the first of a default-family input.
BeginsAs(s, k) == 0 < Len(s) /\ s[1].of = <<k, 1>>

\* Its first tab is the family's.
LEMMA BeginsIs ==
  ASSUME NEW s \in Seq(Entry), NEW k, BeginsAs(s, k), DefaultFamily(inputs[k])
  PROVE  Origins(At(s, 0), 1) = {<<0, 1>>}
<1>1. At(s, 0) = {s[1]}
  <2>1. 0 \in Nat /\ 0 < Len(s) /\ 0 + 1 = 1
    BY DEF BeginsAs
  <2>2. At(s, 0) = {s[0 + 1]}
    BY <2>1, AtIn
  <2> QED
    BY <2>1, <2>2
<1>2. Origin(s[1].of, 1) = <<0, 1>>
  BY DEF BeginsAs, Origin, Shared
<1> QED
  BY <1>1, <1>2 DEF Origins

\* The input's list and the target's, of two headers of the default family.
LEMMA FamilyTabs ==
  ASSUME NEW list \in Seq(Entry), NEW own \in Seq(Entry), NEW k, NEW how, NEW in, NEW u,
         HeaderOK(in), HeaderOK(u), HeaderOK(inputs[1]),
         BeginsAs(list, 1), BeginsAs(own, k), Len(own) = 1,
         DefaultFamily(inputs[1]), DefaultFamily(inputs[k]),
         how.tab = 0, how.paraBase = BaseParas,
         BaseParas <= Len(in.paras), TabsIn(in, own),
         Grows(inputs[1].paras, u.paras), TabsIn(inputs[1], inputs[1].tabs)
  PROVE  Carried(list, own, how.tab) /\ PaletteTabs(u, list, in, own, how)
<1>1. Origins(At(list, 0), 1) = {<<0, 1>>} /\ Origins(At(own, 0), 1) = {<<0, 1>>}
  BY BeginsIs
<1>2. 0 < Len(list)
  BY DEF BeginsAs
<1>3. Carried(list, own, how.tab)
  <2> SUFFICES ASSUME NEW id \in Nat, id < Len(own)
               PROVE  id + 0 < Len(list) /\ Origins(At(list, id + 0), 1) = Origins(At(own, id), 1)
    BY DEF Carried
  <2>1. id = 0 /\ id + 0 = 0
    OBVIOUS
  <2> QED
    BY <1>1, <1>2, <2>1
<1>4. ASSUME NEW n \in 1..BaseParas
      PROVE  in.paras[n].tab = 0 /\ u.paras[n].tab = 0
  <2>1. BaseParas <= Len(inputs[1].paras) /\ Len(inputs[1].tabs) = 1 /\ BaseParas \in Nat
    BY FamilySizes, NumbersAssumption
  <2>2. n \in DOMAIN in.paras /\ n \in DOMAIN inputs[1].paras /\ n \in 1..Len(inputs[1].paras)
    BY <2>1, HeaderLengths
  <2>3. in.paras[n] \in ParaShape /\ inputs[1].paras[n] \in ParaShape
    <3>1. in.paras \in Seq(ParaShape) /\ inputs[1].paras \in Seq(ParaShape)
      BY DEF HeaderOK
    <3> QED
      BY <2>2, <3>1
  <2>4. in.paras[n].tab \in Nat /\ inputs[1].paras[n].tab \in Nat
    BY <2>3, ParaTypes
  <2>5. in.paras[n].tab < 1 /\ inputs[1].paras[n].tab < 1
    BY <2>1, <2>2 DEF TabsIn
  <2>6. u.paras[n] = inputs[1].paras[n]
    BY <2>2 DEF Grows
  <2> QED
    BY <2>4, <2>5, <2>6
<1>5. PaletteTabs(u, list, in, own, how)
  BY <1>1, <1>2, <1>4 DEF PaletteTabs
<1> QED
  BY <1>3, <1>5

\* The paragraphs of an appended section have shifted paragraph shapes.
LEMMA ParasShift ==
  ASSUME NEW in, NEW k, IsInput(in, k), NEW how, HowOK(how), how.whole \in BOOLEAN,
         how.whole \/ how.border = 0, NEW names, NEW object \in Int, NEW z \in Int
  PROVE  \A j \in DOMAIN in.sections[1] :
           Renumbered(Remapped(in, how, names), object, z).section[j].para
             = Past(how.paraBase, in.sections[1][j].para, how.para)
<1> DEFINE sec == Remapped(in, how, names)
           num == Renumbered(sec, object, z)
<1>1. /\ DOMAIN sec = DOMAIN in.sections[1] /\ HasObjects(sec)
      /\ \A j \in DOMAIN sec : sec[j] = GraftedParagraph(how, names, in.sections[1][j])
  BY RemappedObjects DEF HasObjects
<1> HIDE DEF sec
<1>2. \A j \in DOMAIN sec : num.section[j] = [sec[j] EXCEPT !.object = num.section[j].object]
  BY <1>1, RenumberedFacts
<1> HIDE DEF num
<1>3. ASSUME NEW j \in DOMAIN in.sections[1]
      PROVE  num.section[j].para = Past(how.paraBase, in.sections[1][j].para, how.para)
  <2> DEFINE p == in.sections[1][j]
             q == num.section[j]
             o == q.object
  <2>1. p \in Paragraph
    BY InputParts
  <2>2. q = [GraftedParagraph(how, names, p) EXCEPT !.object = o]
    BY <1>1, <1>2
  <2> HIDE DEF p, q, o
  <2>3. Shifted([GraftedParagraph(how, names, p) EXCEPT !.object = o], p, how)
    BY <2>1, GraftedShifts
  <2> QED
    BY <2>2, <2>3 DEF Shifted, p, q
<1> QED
  BY <1>3 DEF num, sec

\* The target has a record for every tab if the inputs in it have, and it is of
\* the default family if they are.
LikeInputs(t, n) ==
  /\ (\A i \in 1..n : HasRecords(inputs[i])) => HasRecords(t)
  /\ (\A i \in 1..n : DefaultFamily(inputs[i])) => DefaultFamily(t)

\* A round leaves it so.
LEMMA LikeRound ==
  ASSUME NEW k \in Nat \ {0}, NEW t, HeaderOK(t), HeaderOK(inputs[k]), LikeInputs(t, k - 1),
         NEW u, HeaderOK(u), Extends(t, u), Grafted(t, u, inputs[k], Method(t, inputs[k]))
  PROVE  LikeInputs(u, k)
<1> DEFINE in == inputs[k]
           how == Method(t, in)
<1>1. k \in 1..k /\ \A i \in 1..(k - 1) : i \in 1..k
  OBVIOUS
<1>2. ASSUME \A i \in 1..k : HasRecords(inputs[i])
      PROVE  HasRecords(u)
  <2>1. Len(t.rawTabs) = Len(t.tabs) /\ Len(in.rawTabs) = Len(in.tabs)
    BY <1>1, <1>2 DEF LikeInputs, HasRecords
  <2>2. CASE how.whole
    <3>1. u.tabs = t.tabs \o in.tabs /\ u.rawTabs = t.rawTabs \o in.rawTabs
      BY <2>2 DEF Grafted
    <3>2. /\ t.tabs \in Seq(Entry) /\ in.tabs \in Seq(Entry)
          /\ t.rawTabs \in Seq(Entry) /\ in.rawTabs \in Seq(Entry)
      BY DEF HeaderOK
    <3>3. Len(u.tabs) = Len(t.tabs) + Len(in.tabs)
      BY <3>1, <3>2
    <3>4. Len(u.rawTabs) = Len(t.rawTabs) + Len(in.rawTabs)
      BY <3>1, <3>2
    <3> QED
      BY <2>1, <3>3, <3>4 DEF HasRecords
  <2>3. CASE ~how.whole
    <3>1. u.tabs = t.tabs /\ u.rawTabs = t.rawTabs
      BY <2>3 DEF Grafted
    <3> QED
      BY <2>1, <3>1 DEF HasRecords
  <2> QED
    BY <2>2, <2>3
<1>3. ASSUME \A i \in 1..k : DefaultFamily(inputs[i])
      PROVE  DefaultFamily(u)
  <2>1. DefaultFamily(t) /\ DefaultFamily(in)
    BY <1>1, <1>3 DEF LikeInputs
  <2>2. ~how.whole
    BY <2>1 DEF Method, PaletteCompatible, FastPath
  <2>3. /\ u.styles = t.styles /\ u.fonts = t.fonts /\ u.borders = t.borders /\ u.tabs = t.tabs
    BY <2>2 DEF Grafted
  <2>4. Len(u.chars) >= Palette /\ Len(u.paras) >= BaseParas
    <3>1. /\ Palette <= Len(t.chars) /\ BaseParas <= Len(t.paras)
          /\ Palette \in Nat /\ BaseParas \in Nat
      BY <2>1, FamilySizes, NumbersAssumption
    <3>2. /\ Len(t.chars) <= Len(u.chars) /\ Len(t.paras) <= Len(u.paras)
      BY LengthsGrow
    <3>3. /\ Len(t.chars) \in Nat /\ Len(u.chars) \in Nat
          /\ Len(t.paras) \in Nat /\ Len(u.paras) \in Nat
      BY HeaderLengths
    <3> QED
      BY <3>1, <3>2, <3>3
  <2> QED
    BY <2>1, <2>3, <2>4 DEF DefaultFamily
<1> QED
  BY <1>2, <1>3 DEF LikeInputs

\* With a record for every tab, the first record is the first tab's.
LEMMA RecordsBegin ==
  ASSUME NEW d, NEW k, IsInput(d, k), DefaultFamily(d), HasRecords(d)
  PROVE  BeginsAs(d.rawTabs, k) /\ Len(d.rawTabs) = 1
<1>1. One(d.tabs, k)
  BY OnesInput DEF Ones
<1>2. Len(d.rawTabs) = 1 /\ d.tabs[1].of = <<k, 1>>
  BY <1>1 DEF One, HasRecords
<1>3. d.rawTabs \in Seq(Entry)
  BY InputHeader DEF HeaderOK
<1>4. 1 \in DOMAIN d.rawTabs
  BY <1>2, <1>3
<1>5. d.rawTabs[1].of = d.tabs[1].of
  BY <1>4 DEF IsInput, RawAligned
<1> QED
  BY <1>2, <1>5 DEF BeginsAs

\* What begins so goes on to.
LEMMA BeginsOn ==
  ASSUME NEW s \in Seq(Entry), NEW l \in Seq(Entry), NEW k, BeginsAs(s, k), Grows(s, l)
  PROVE  BeginsAs(l, k)
<1>1. 0 < Len(s) /\ Len(s) \in Nat /\ Len(l) \in Nat /\ Len(s) <= Len(l) /\ s[1].of = <<k, 1>>
  BY DEF BeginsAs, Grows
<1>2. 1 \in 1..Len(s) /\ 0 < Len(l)
  BY <1>1
<1>3. l[1] = s[1]
  BY <1>2 DEF Grows
<1> QED
  BY <1>1, <1>2, <1>3 DEF BeginsAs

\* The stops of an input's para shapes are carried over, where they follow.
LEMMA StopsCarried ==
  ASSUME NEW k \in Nat \ {0}, IsInput(inputs[k], k), Resolves(inputs[k]),
         IsInput(inputs[1], 1), Resolves(inputs[1]),
         NEW t, TargetOK(inputs[1], t), LikeInputs(t, k - 1),
         NEW u, HeaderOK(u), Extends(inputs[1], u),
         Grafted(t, u, inputs[k], Method(t, inputs[k])), StopsFollow(k)
  PROVE  /\ Carried(u.tabs, inputs[k].tabs, Method(t, inputs[k]).tab)
         /\ TabsIn(inputs[k], inputs[k].tabs)
         /\ PaletteTabs(u, u.tabs, inputs[k], inputs[k].tabs, Method(t, inputs[k]))
<1> DEFINE in == inputs[k]
           how == Method(t, in)
<1>1. HeaderOK(in) /\ HeaderOK(inputs[1]) /\ HeaderOK(t)
  BY InputHeader DEF TargetOK
<1>2. TabsIn(in, in.tabs) /\ TabsIn(inputs[1], inputs[1].tabs)
  BY DEF Resolves, TabsIn
<1>3. \/ how.whole /\ how.paraBase = 0 /\ how.tab = Len(t.rawTabs)
      \/ /\ ~how.whole /\ DefaultFamily(t) /\ DefaultFamily(in)
         /\ how.paraBase = BaseParas /\ how.tab = 0
  BY <1>1, MethodIs
<1>4. DefaultFamily(t) /\ DefaultFamily(in) => ~how.whole
  BY DEF Method, PaletteCompatible, FastPath
<1>5. Grafted(t, u, in, how)
  OBVIOUS
<1> SUFFICES Carried(u.tabs, in.tabs, how.tab) /\ PaletteTabs(u, u.tabs, in, in.tabs, how)
  BY <1>2
<1> HIDE DEF how
<1>6. CASE how.whole
  <2>1. \A i \in 1..(k - 1) : HasRecords(inputs[i])
    <3>1. CASE \A i \in 1..k : DefaultFamily(inputs[i])
      <4>1. k \in 1..k /\ \A i \in 1..(k - 1) : i \in 1..k
        OBVIOUS
      <4>2. DefaultFamily(t) /\ DefaultFamily(in)
        BY <3>1, <4>1 DEF LikeInputs
      <4> QED
        BY <1>4, <1>6, <4>2
    <3> QED
      BY <3>1 DEF StopsFollow
  <2>2. how.tab = Len(t.tabs) /\ how.paraBase = 0
    BY <1>3, <1>6, <2>1 DEF LikeInputs, HasRecords
  <2>3. u.tabs = t.tabs \o in.tabs
    BY <1>5, <1>6 DEF Grafted
  <2>4. t.tabs \in Seq(Entry) /\ in.tabs \in Seq(Entry)
    BY <1>1 DEF HeaderOK
  <2>5. Carried(u.tabs, in.tabs, how.tab)
    BY <2>2, <2>3, <2>4, ListAppended
  <2> QED
    BY <2>2, <2>5 DEF PaletteTabs
<1>7. CASE ~how.whole
  <2>1. /\ DefaultFamily(t) /\ DefaultFamily(in) /\ DefaultFamily(inputs[1])
        /\ how.paraBase = BaseParas /\ how.tab = 0
    BY <1>3, <1>7 DEF TargetOK
  <2>2. Ones(t, 1) /\ Ones(in, k)
    BY <2>1, OnesInput, OnesGrow DEF TargetOK
  <2>3. BeginsAs(t.tabs, 1) /\ BeginsAs(in.tabs, k) /\ Len(in.tabs) = 1
    BY <2>2 DEF Ones, One, BeginsAs
  <2>4. u.tabs = t.tabs
    BY <1>5, <1>7 DEF Grafted
  <2>5. u.tabs \in Seq(Entry) /\ in.tabs \in Seq(Entry)
    BY <1>1 DEF HeaderOK
  <2>6. BaseParas <= Len(in.paras) /\ Grows(inputs[1].paras, u.paras)
    BY <2>1, FamilySizes DEF Extends
  <2> QED
    BY <1>1, <1>2, <2>1, <2>3, <2>4, <2>5, <2>6, FamilyTabs
<1> QED
  BY <1>6, <1>7

\* So are its records.
LEMMA RecordsCarried ==
  ASSUME NEW k \in Nat \ {0}, IsInput(inputs[k], k), Resolves(inputs[k]),
         IsInput(inputs[1], 1), Resolves(inputs[1]),
         NEW t, TargetOK(inputs[1], t),
         NEW u, HeaderOK(u), Extends(inputs[1], u),
         Grafted(t, u, inputs[k], Method(t, inputs[k])), RecordsFollow(k)
  PROVE  /\ Carried(u.rawTabs, inputs[k].rawTabs, Method(t, inputs[k]).tab)
         /\ TabsIn(inputs[k], inputs[k].rawTabs)
         /\ PaletteTabs(u, u.rawTabs, inputs[k], inputs[k].rawTabs, Method(t, inputs[k]))
<1> DEFINE in == inputs[k]
           how == Method(t, in)
<1>1. HeaderOK(in) /\ HeaderOK(inputs[1]) /\ HeaderOK(t)
  BY InputHeader DEF TargetOK
<1>2. HasRecords(in) /\ (PaletteCompatible(inputs[1], in) => HasRecords(inputs[1]))
  BY DEF RecordsFollow
<1>3. TabsIn(in, in.rawTabs) /\ TabsIn(inputs[1], inputs[1].tabs)
  BY <1>2 DEF Resolves, TabsIn, HasRecords
<1>4. \/ how.whole /\ how.paraBase = 0 /\ how.tab = Len(t.rawTabs)
      \/ /\ ~how.whole /\ DefaultFamily(t) /\ DefaultFamily(in)
         /\ how.paraBase = BaseParas /\ how.tab = 0
  BY <1>1, MethodIs
<1>5. Grafted(t, u, in, how)
  OBVIOUS
<1> SUFFICES Carried(u.rawTabs, in.rawTabs, how.tab) /\ PaletteTabs(u, u.rawTabs, in, in.rawTabs, how)
  BY <1>3
<1> HIDE DEF how
<1>6. CASE how.whole
  <2>1. how.tab = Len(t.rawTabs) /\ how.paraBase = 0
    BY <1>4, <1>6
  <2>2. u.rawTabs = t.rawTabs \o in.rawTabs
    BY <1>5, <1>6 DEF Grafted
  <2>3. t.rawTabs \in Seq(Entry) /\ in.rawTabs \in Seq(Entry)
    BY <1>1 DEF HeaderOK
  <2>4. Carried(u.rawTabs, in.rawTabs, how.tab)
    BY <2>1, <2>2, <2>3, ListAppended
  <2> QED
    BY <2>1, <2>4 DEF PaletteTabs
<1>7. CASE ~how.whole
  <2>1. /\ DefaultFamily(t) /\ DefaultFamily(in) /\ DefaultFamily(inputs[1])
        /\ how.paraBase = BaseParas /\ how.tab = 0
    BY <1>4, <1>7 DEF TargetOK
  <2>2. HasRecords(inputs[1])
    BY <1>2, <2>1 DEF PaletteCompatible
  <2>3. /\ BeginsAs(inputs[1].rawTabs, 1) /\ BeginsAs(in.rawTabs, k) /\ Len(in.rawTabs) = 1
    BY <1>2, <2>1, <2>2, RecordsBegin
  <2>4. /\ u.rawTabs \in Seq(Entry) /\ in.rawTabs \in Seq(Entry) /\ inputs[1].rawTabs \in Seq(Entry)
    BY <1>1 DEF HeaderOK
  <2>5. /\ BaseParas <= Len(in.paras)
        /\ Grows(inputs[1].paras, u.paras) /\ Grows(inputs[1].rawTabs, u.rawTabs)
    BY <2>1, FamilySizes DEF Extends
  <2>6. BeginsAs(u.rawTabs, 1)
    BY <2>3, <2>4, <2>5, BeginsOn
  <2> QED
    BY <1>1, <1>3, <2>1, <2>3, <2>4, <2>5, <2>6, FamilyTabs
<1> QED
  BY <1>6, <1>7

\* The section that a round appends finds its tabs.
LEMMA TabsRound ==
  ASSUME NEW k \in Nat \ {0}, IsInput(inputs[k], k), Resolves(inputs[k]),
         IsInput(inputs[1], 1), Resolves(inputs[1]),
         NEW t, TargetOK(inputs[1], t), LikeInputs(t, k - 1),
         NEW u, HeaderOK(u), Extends(inputs[1], u),
         Grafted(t, u, inputs[k], Method(t, inputs[k])),
         \A j \in DOMAIN inputs[k].sections[1] :
           u.sections[k][j].para
             = Past(Method(t, inputs[k]).paraBase, inputs[k].sections[1][j].para,
                    Method(t, inputs[k]).para)
  PROVE  TabsKept(u, k)
<1> DEFINE in == inputs[k]
           how == Method(t, in)
           new == u.sections[k]
<1>1. HeaderOK(in) /\ HeaderOK(t)
  BY InputHeader DEF TargetOK
<1>2. /\ HowOK(how) /\ how.paraBase <= Len(in.paras) /\ how.paraBase <= Len(t.paras)
      /\ how.para = Len(t.paras) - how.paraBase
  BY <1>1, MethodIs
<1>3. ParasGrafted(t.paras, in.paras, how, u.paras)
  BY DEF Grafted
<1>4. /\ u.tabs \in Seq(Entry) /\ in.tabs \in Seq(Entry)
      /\ u.rawTabs \in Seq(Entry) /\ in.rawTabs \in Seq(Entry)
  BY <1>1 DEF HeaderOK
<1>5. \A j \in DOMAIN in.sections[1] :
        /\ in.sections[1][j].para \in Nat /\ in.sections[1][j].para < Len(in.paras)
        /\ new[j].para = Past(how.paraBase, in.sections[1][j].para, how.para)
  <2> SUFFICES ASSUME NEW j \in DOMAIN in.sections[1]
               PROVE  in.sections[1][j].para \in Nat /\ in.sections[1][j].para < Len(in.paras)
    OBVIOUS
  <2>1. in.sections[1][j] \in Paragraph
    BY InputParts
  <2>2. ParagraphResolves(in, in.sections[1][j])
    BY DEF Resolves
  <2> QED
    BY <2>1, <2>2, ParagraphTypes DEF RefsOK, ParagraphResolves
<1>6. /\ StopsFollow(k) => /\ Carried(u.tabs, in.tabs, how.tab) /\ TabsIn(in, in.tabs)
                           /\ PaletteTabs(u, u.tabs, in, in.tabs, how)
      /\ RecordsFollow(k) => /\ Carried(u.rawTabs, in.rawTabs, how.tab) /\ TabsIn(in, in.rawTabs)
                             /\ PaletteTabs(u, u.rawTabs, in, in.rawTabs, how)
  BY StopsCarried, RecordsCarried
<1> HIDE DEF how, new, in
<1>7. StopsFollow(k) => SectionTabs(u, u.tabs, new, in, in.tabs)
  BY <1>1, <1>2, <1>3, <1>4, <1>5, <1>6, TabNew DEF SectionTabs
<1>8. RecordsFollow(k) => SectionTabs(u, u.rawTabs, new, in, in.rawTabs)
  BY <1>1, <1>2, <1>3, <1>4, <1>5, <1>6, TabNew DEF SectionTabs
<1> QED
  BY <1>7, <1>8 DEF TabsKept, in, new

\* Where the loop is, with the tabs.
TabsInv ==
  /\ RefsInv
  /\ LikeInputs(target, done)
  /\ \A i \in 1..done : TabsKept(target, i)

\* The inputs, and so what a tab is and when it follows, do not change.
LEMMA SameTabs ==
  ASSUME inputs' = inputs
  PROVE  /\ LikeInputs(target, done)' <=> LikeInputs(target', done')
         /\ (\A i \in 1..done : TabsKept(target, i))' <=> \A i \in 1..done' : TabsKept(target', i)
<1>1. LikeInputs(target, done)' <=> LikeInputs(target', done')
  BY DEF LikeInputs, HasRecords, DefaultFamily
<1>2. (\A i \in 1..done : TabsKept(target, i))' <=> \A i \in 1..done' : TabsKept(target', i)
  BY DEF TabsKept, SectionTabs, TabKept, TabOf, StopsFollow, RecordsFollow, HasRecords,
         PaletteCompatible, At, Origins, Origin, Shared, DefaultFamily
<1> QED
  BY <1>1, <1>2

\* The first input finds its own tabs.
LEMMA TabsInit == Init /\ WellMade => TabsInv /\ WellMade
<1> SUFFICES ASSUME Init, WellMade PROVE TabsInv
  OBVIOUS
<1>1. RefsInv
  BY RefsInit
<1>2. InputsOK /\ target = inputs[1] /\ done = 1
  BY InitInputs DEF Init
<1>3. IsInput(target, 1) /\ 1 \in DOMAIN inputs
  BY <1>2 DEF InputsOK
<1>4. Resolves(target) /\ HeaderOK(target)
  BY <1>2, <1>3, InputHeader DEF WellMade
<1>5. LikeInputs(target, done)
  BY <1>2 DEF LikeInputs
<1>6. ASSUME NEW list, TabsIn(target, list)
      PROVE  SectionTabs(target, list, target.sections[1], target, list)
  <2> SUFFICES ASSUME NEW j \in DOMAIN target.sections[1]
               PROVE  TabKept(target, list, target.sections[1][j], target, list,
                              target.sections[1][j])
    BY DEF SectionTabs
  <2> DEFINE p == target.sections[1][j]
  <2>1. p \in Paragraph /\ ParagraphResolves(target, p)
    BY <1>3, <1>4, InputParts DEF Resolves
  <2> HIDE DEF p
  <2>2. p.para \in Nat /\ p.para < Len(target.paras)
    BY <2>1, ParagraphTypes DEF RefsOK, ParagraphResolves
  <2>3. /\ p.para + 1 \in DOMAIN target.paras
        /\ TabOf(target, list, p) = Origins(At(list, target.paras[p.para + 1].tab), 1)
    BY <1>4, <2>2, TabIs
  <2> QED
    BY <1>6, <2>2, <2>3 DEF TabsIn, TabKept, p
<1>7. TabsIn(target, target.tabs)
  BY <1>4 DEF Resolves, TabsIn
<1>8. HasRecords(target) => TabsIn(target, target.rawTabs)
  BY <1>7 DEF TabsIn, HasRecords
<1>9. TabsKept(target, 1)
  BY <1>2, <1>6, <1>7, <1>8 DEF TabsKept, RecordsFollow
<1>10. \A i \in 1..done : TabsKept(target, i)
  <2>1. \A i \in 1..done : i = 1
    BY <1>2
  <2> QED
    BY <1>9, <2>1
<1> QED
  BY <1>1, <1>5, <1>10 DEF TabsInv

\* A round: what was there finds the tabs it found, and what is appended too.
LEMMA TabsStep == TabsInv /\ WellMade /\ [Next]_vars => TabsInv' /\ WellMade'
<1> SUFFICES ASSUME TabsInv, WellMade, [Next]_vars PROVE TabsInv' /\ WellMade'
  OBVIOUS
<1>1. /\ RefsInv /\ InputsOK /\ done \in 1..3
      /\ Len(target.sections) = done /\ DOMAIN target.sections = 1..done
      /\ nextObject \in Int /\ nextZ \in Int
      /\ TargetOK(inputs[1], target)
      /\ LikeInputs(target, done) /\ \A i \in 1..done : TabsKept(target, i)
  BY DEF TabsInv, RefsInv, ObjectsInv
<1>2. RefsInv' /\ WellMade'
  BY <1>1, RefsStep
<1>3. inputs' = inputs
  BY DEF Next, MergeInput, Finish, Done, vars
<1>4. CASE UNCHANGED <<done, target>>
  <2>1. LikeInputs(target', done') /\ \A i \in 1..done' : TabsKept(target', i)
    BY <1>1, <1>4
  <2> QED
    BY <1>2, <1>3, <2>1, SameTabs DEF TabsInv
<1>5. ASSUME NEW names, NEW bins, NEW streams, done + 1 \in 1..3, done' = done + 1,
             target' = Appended(target, inputs[done + 1], Method(target, inputs[done + 1]),
                                names, bins, streams, nextObject, nextZ)
      PROVE  TabsInv'
  <2> DEFINE k   == done + 1
             how == Method(target, inputs[k])
             u   == Appended(target, inputs[k], how, names, bins, streams, nextObject, nextZ)
             new == Renumbered(Remapped(inputs[k], how, names), nextObject, nextZ).section
  <2>1. /\ IsInput(inputs[k], k) /\ IsInput(inputs[1], 1) /\ k \in DOMAIN inputs /\ 1 \in DOMAIN inputs
    BY <1>1, <1>5 DEF InputsOK
  <2>2. /\ Resolves(inputs[k]) /\ Resolves(inputs[1])
        /\ PaletteCompatible(inputs[1], inputs[k]) => SamePalette(inputs[1], inputs[k])
    BY <2>1 DEF WellMade
  <2>3. HeaderOK(target) /\ HeaderOK(inputs[k])
    BY <1>1, <2>1, InputHeader DEF TargetOK
  <2>4. Grafted(target, u, inputs[k], how)
    BY <2>3, AppendedGrafts
  <2>5. u.sections = Append(target.sections, new)
    BY DEF Appended, Merged
  <2>6. u = target'
    BY <1>5
  <2>7. HowOK(how) /\ (how.whole \/ how.border = 0)
    BY <2>3, MethodIs
  <2>8. how.whole \in BOOLEAN
    BY DEF Method, FastPath, General
  <2> HIDE DEF u, how, k
  <2>9. \A j \in DOMAIN inputs[k].sections[1] :
          new[j].para = Past(how.paraBase, inputs[k].sections[1][j].para, how.para)
    BY <1>1, <2>1, <2>7, <2>8, ParasShift
  <2>10. TargetOK(inputs[1], u) /\ Extends(target, u)
    BY <1>1, <2>1, <2>2, <2>4, GraftRound DEF how
  <2>11. HeaderOK(u) /\ Extends(inputs[1], u)
    BY <2>10 DEF TargetOK
  <2> HIDE DEF new
  <2>12. u.sections[k] = new /\ \A i \in 1..done : u.sections[i] = target.sections[i]
    <3> DEFINE old == target.sections
    <3>1. DOMAIN old = 1..done /\ Len(old) = done
      BY <1>1
    <3>2. \A i \in 1..(done + 1) : Append(old, new)[i] = IF i <= done THEN old[i] ELSE new
      BY <3>1, <1>1
    <3> QED
      BY <2>5, <3>2, <1>1 DEF k
  <2>13. k \in Nat \ {0} /\ k - 1 = done
    BY <1>1 DEF k
  <2>14. LikeInputs(target, k - 1)
    BY <1>1, <2>13
  <2>15. LikeInputs(u, k)
    BY <2>3, <2>4, <2>10, <2>11, <2>13, <2>14, LikeRound DEF how
  <2>16. TabsKept(u, k)
    BY <1>1, <2>1, <2>2, <2>4, <2>9, <2>11, <2>12, <2>13, <2>14, TabsRound DEF how
  <2>17. ASSUME NEW i \in 1..k PROVE TabsKept(u, i)
    <3>1. CASE i = k
      BY <2>16, <3>1
    <3>2. CASE i # k
      <4>1. i \in 1..done
        BY <1>1, <3>2 DEF k
      <4> QED
        BY <1>1, <2>3, <2>10, <2>11, <2>12, <4>1, TabsLater
    <3> QED
      BY <3>1, <3>2
  <2>18. LikeInputs(target', done') /\ \A i \in 1..done' : TabsKept(target', i)
    BY <1>5, <2>6, <2>15, <2>17 DEF k
  <2> QED
    BY <1>2, <1>3, <2>18, SameTabs DEF TabsInv
<1>6. CASE MergeInput
  <2>1. CASE UNCHANGED <<done, target>>
    BY <1>4, <2>1
  <2>2. CASE ~UNCHANGED <<done, target>>
    <3>1. \E names, bins, streams :
            /\ done + 1 \in 1..3 /\ done' = done + 1
            /\ target' = Appended(target, inputs[done + 1], Method(target, inputs[done + 1]),
                                  names, bins, streams, nextObject, nextZ)
      BY <1>6, <1>1, <2>2, MergeInputStep
    <3> QED
      BY <1>2, <1>5, <3>1
  <2> QED
    BY <2>1, <2>2
<1> QED
  BY <1>2, <1>4, <1>6, OtherSteps

\* That is what ReferencesKept says.
LEMMA ReferencesFollow == TabsInv => ReferencesKept
<1> SUFFICES ASSUME TabsInv, NEW i \in 1..done, NEW j \in DOMAIN inputs[i].sections[1]
             PROVE  LET was == inputs[i].sections[1][j]
                        is  == target.sections[i][j]
                        SameTab(there, here) == TabOf(target, there, is) = TabOf(inputs[i], here, was)
                    IN /\ Meaning(target, is) = Meaning(inputs[i], was)
                       /\ StopsFollow(i)   => SameTab(target.tabs, inputs[i].tabs)
                       /\ RecordsFollow(i) => SameTab(target.rawTabs, inputs[i].rawTabs)
  BY DEF ReferencesKept
<1> DEFINE was == inputs[i].sections[1][j]
           is  == target.sections[i][j]
<1>1. Meaning(target, is) = Meaning(inputs[i], was)
  BY DEF TabsInv, RefsInv, SectionKept, SameParagraph
<1>2. HeaderOK(target) /\ TabsKept(target, i)
  BY DEF TabsInv, RefsInv, TargetOK
<1>3. ASSUME NEW list, NEW own, TabKept(target, list, is, inputs[i], own, was)
      PROVE  TabOf(target, list, is) = TabOf(inputs[i], own, was)
  BY <1>2, <1>3, TabIs DEF TabKept
<1>4. /\ StopsFollow(i)   => TabKept(target, target.tabs, is, inputs[i], inputs[i].tabs, was)
      /\ RecordsFollow(i) => TabKept(target, target.rawTabs, is, inputs[i], inputs[i].rawTabs, was)
  BY <1>2 DEF TabsKept, SectionTabs
<1> HIDE DEF was, is
<1>5. /\ StopsFollow(i) => TabOf(target, target.tabs, is) = TabOf(inputs[i], inputs[i].tabs, was)
      /\ RecordsFollow(i) =>
           TabOf(target, target.rawTabs, is) = TabOf(inputs[i], inputs[i].rawTabs, was)
  BY <1>3, <1>4
<1> QED
  BY <1>1, <1>5 DEF was, is

\* Whatever documents are merged, by either method and in any order, every
\* paragraph of the target refers to the shapes, lists, styles and borders it
\* referred to in its own document, if the references of the documents resolve
\* and their default palettes agree; to the tab stops it referred to, if every
\* document before had a raw record for each of its tabs or all are of the
\* default family; and to the raw record, if its document has one for each and
\* so has the first one where its tabs are shared (graft_header_general,
\* graft_palette_compatible, remap_paragraph).
THEOREM ReferencesStay == Spec /\ WellMade => []ReferencesKept
BY ReferencesFollow, TabsInit, TabsStep, PTL DEF Spec

(***************************************************************************)
(* The table of binary data                                                *)
(***************************************************************************)

\* What the graft of a table makes of an entry.
BinStep(t, acc, id) ==
  LET new == IF id \in DOMAIN acc.renamed THEN acc.renamed[id]
             ELSE FreshId(t, acc.used, id)
  IN IF acc.full THEN acc
     ELSE IF id = 0 THEN [acc EXCEPT !.bins = Append(@, 0)]
     ELSE IF new = 0 THEN [acc EXCEPT !.full = TRUE]
     ELSE [acc EXCEPT
             !.bins    = Append(@, new),
             !.used    = @ \cup {new},
             !.renamed = IF new = id THEN @
                         ELSE [n \in DOMAIN @ \cup {id} |->
                                 IF n = id THEN new ELSE @[n]]]

\* Before the first entry of a table.
NoBins(t) == [bins |-> <<>>, used |-> ToSet(t.bins) \ {0}, renamed |-> <<>>, full |-> FALSE]

\* The fold of a table, as a function of the places that are done.
BinFold(f, t, s) ==
  f = [S \in SUBSET DOMAIN s |->
         IF S = {} THEN NoBins(t) ELSE BinStep(t, f[S \ {Max(S)}], s[Max(S)])]

LEMMA BinsAreFold ==
  ASSUME NEW t, NEW in
  PROVE  GraftBins(t, in) = (CHOOSE f : BinFold(f, t, in.bins))[DOMAIN in.bins]
BY DEF GraftBins, FoldLeft, MapThenFoldSet, BinFold, BinStep, NoBins

\* What the graft of the streams makes of one.
StreamStep(how, in, renamed, acc, s) ==
  LET new == NewName(acc.streams, how.prefix, in, renamed, s.name)
  IN [streams |-> Append(acc.streams, [s EXCEPT !.name = new]),
      names   |-> {p \in acc.names : p[1] # s.name} \cup {<<s.name, new>>}]

\* The fold of the streams.
StreamFold(f, t, how, in, renamed) ==
  f = [S \in SUBSET DOMAIN in.streams |->
         IF S = {} THEN [streams |-> t.streams, names |-> {}]
         ELSE StreamStep(how, in, renamed, f[S \ {Max(S)}], in.streams[Max(S)])]

LEMMA StreamsAreFold ==
  ASSUME NEW t, NEW how, NEW in, NEW renamed
  PROVE  GraftStreams(t, how, in, renamed)
           = (CHOOSE f : StreamFold(f, t, how, in, renamed))[DOMAIN in.streams]
BY DEF GraftStreams, FoldLeft, MapThenFoldSet, StreamFold, StreamStep

\* The least of some numbers.
LEMMA LeastIs ==
  ASSUME NEW T, T \subseteq Nat, T # {}
  PROVE  Min(T) \in T /\ \A m \in T : Min(T) <= m
BY LeastNumber DEF Min

\* The places up to k, taken from the last one.
LEMMA PlacesDown ==
  ASSUME NEW k \in Nat, k # 0
  PROVE  /\ 1..k # {} /\ Max(1..k) = k
         /\ (1..k) \ {Max(1..k)} = 1..(k - 1)
<1>1. k \in 1..k /\ \A x \in 1..k : x <= k
  OBVIOUS
<1>2. \A x \in 1..k : (\A y \in 1..k : y <= x) => x = k
  <2>1. ASSUME NEW x \in 1..k, \A y \in 1..k : y <= x PROVE x = k
    <3>1. k <= x
      BY <1>1, <2>1
    <3> QED
      BY <3>1
  <2> QED
    BY <2>1
<1>3. Max(1..k) = k
  <2>1. Max(1..k) \in 1..k /\ \A y \in 1..k : y <= Max(1..k)
    BY <1>1 DEF Max
  <2> QED
    BY <1>2, <2>1
<1>4. (1..k) \ {k} = 1..(k - 1)
  OBVIOUS
<1> QED
  BY <1>1, <1>3, <1>4

\* FreshId gives an id that neither the table nor a stream has, or 0.
LEMMA FreshIdIs ==
  ASSUME NEW t, NEW used, used \subseteq Nat, IsFiniteSet(used), NEW id \in Nat
  PROVE  /\ FreshId(t, used, id) \in Nat
         /\ FreshId(t, used, id) # 0 =>
              FreshId(t, used, id) \notin used /\ ~NameTaken(t, FreshId(t, used, id))
<1> DEFINE top  == Max(used \cup {0})
           free == {n \in top + 1 .. MaxId : n \notin used /\ ~NameTaken(t, n)}
<1>1. CASE id \notin used /\ ~NameTaken(t, id)
  BY <1>1 DEF FreshId
<1>2. CASE ~(id \notin used /\ ~NameTaken(t, id))
  <2>1. FreshId(t, used, id) = IF free = {} THEN 0 ELSE Min(free)
    BY <1>2 DEF FreshId
  <2>2. CASE free = {}
    BY <2>1, <2>2
  <2>3. CASE free # {}
    <3>1. IsFiniteSet(used \cup {0})
      BY FS_AddElement
    <3>2. top \in used \cup {0}
      <4>1. used \cup {0} \subseteq Int /\ used \cup {0} # {}
        OBVIOUS
      <4> QED
        BY <3>1, <4>1, MaxExists
    <3>3. top \in Nat
      <4> HIDE DEF top
      <4> QED
        BY <3>2
    <3>4. free \subseteq Nat
      BY <3>3, NumbersAssumption
    <3>5. Min(free) \in free
      <4> HIDE DEF free
      <4> QED
        BY <2>3, <3>4, LeastIs
    <3>6. Min(free) \in Nat /\ Min(free) \notin used /\ ~NameTaken(t, Min(free))
      BY <3>4, <3>5
    <3> HIDE DEF free
    <3> QED
      BY <2>1, <2>3, <3>6
  <2> QED
    BY <2>2, <2>3
<1> QED
  BY <1>1, <1>2

\* What a table has become so far.
BinAccs ==
  [bins : Seq(Nat), used : {u \in SUBSET Nat : IsFiniteSet(u)},
   renamed : UNION {[D -> Nat] : D \in SUBSET Nat}, full : BOOLEAN]

LEMMA NoBinsType ==
  ASSUME NEW t, t.bins \in Seq(Nat)
  PROVE  NoBins(t) \in BinAccs
<1> DEFINE b == t.bins
           u == ToSet(t.bins) \ {0}
<1>1. u \subseteq Nat
  BY DEF ToSet
<1>2. IsFiniteSet(ToSet(b))
  <2>1. DOMAIN b = 1..Len(b) /\ Len(b) \in Nat
    OBVIOUS
  <2>2. Len(b) \in Int /\ 1 \in Int
    BY <2>1
  <2>3. IsFiniteSet(DOMAIN b)
    BY <2>1, <2>2, FS_Interval
  <2>4. IsFiniteSet({b[i] : i \in DOMAIN b})
    BY <2>3, FiniteImage
  <2> QED
    BY <2>4 DEF ToSet
<1>3. IsFiniteSet(u)
  BY <1>2, FS_Subset
<1>4. <<>> \in UNION {[D -> Nat] : D \in SUBSET Nat}
  <2>1. <<>> \in [{} -> Nat]
    OBVIOUS
  <2> QED
    BY <2>1
<1>5. NoBins(t) = [bins |-> <<>>, used |-> u, renamed |-> <<>>, full |-> FALSE]
  BY DEF NoBins
<1> DEFINE r == <<>>
<1>6. u \in {v \in SUBSET Nat : IsFiniteSet(v)} /\ r \in UNION {[D -> Nat] : D \in SUBSET Nat}
  BY <1>1, <1>3, <1>4
<1>7. NoBins(t) = [bins |-> <<>>, used |-> u, renamed |-> r, full |-> FALSE]
  BY <1>5
<1> HIDE DEF u, r
<1>8. [bins |-> <<>>, used |-> u, renamed |-> r, full |-> FALSE] \in BinAccs
  BY <1>6 DEF BinAccs
<1> QED
  BY <1>7, <1>8

\* The storage id an entry would get.
Fresh(t, acc, id) == IF id \in DOMAIN acc.renamed THEN acc.renamed[id] ELSE FreshId(t, acc.used, id)

LEMMA FreshType ==
  ASSUME NEW t, NEW acc \in BinAccs, NEW id \in Nat
  PROVE  Fresh(t, acc, id) \in Nat
<1>1. acc.used \subseteq Nat /\ IsFiniteSet(acc.used)
  BY DEF BinAccs
<1>2. PICK D \in SUBSET Nat : acc.renamed \in [D -> Nat]
  BY DEF BinAccs
<1> QED
  BY <1>1, <1>2, FreshIdIs DEF Fresh

\* Changing a part of what is known of a table, and three.
LEMMA AccWith ==
  ASSUME NEW acc, NEW b, NEW u, NEW r, NEW f,
         acc = [bins |-> b, used |-> u, renamed |-> r, full |-> f], NEW x
  PROVE  /\ [acc EXCEPT !.bins = x] = [bins |-> x, used |-> u, renamed |-> r, full |-> f]
         /\ [acc EXCEPT !.full = x] = [bins |-> b, used |-> u, renamed |-> r, full |-> x]
OBVIOUS

LEMMA AccExcept ==
  ASSUME NEW acc, NEW b, NEW u, NEW r, NEW f,
         acc = [bins |-> b, used |-> u, renamed |-> r, full |-> f], NEW x, NEW y, NEW z
  PROVE  [acc EXCEPT !.bins = x, !.used = y, !.renamed = z]
           = [bins |-> x, used |-> y, renamed |-> z, full |-> f]
<1>1. [acc EXCEPT !.bins = x, !.used = y, !.renamed = z]
        = [k \in DOMAIN acc |-> CASE k = "renamed" -> z [] k = "used" -> y [] k = "bins" -> x
                                  [] OTHER -> acc[k]]
  OBVIOUS
<1>2. DOMAIN acc = {"bins", "used", "renamed", "full"} /\ acc["full"] = f
  OBVIOUS
<1> QED
  BY <1>1, <1>2

\* The storage ids that changed, with one more.
RenamedTo(renamed, id, new) ==
  IF new = id THEN renamed
  ELSE [n \in DOMAIN renamed \cup {id} |-> IF n = id THEN new ELSE renamed[n]]

\* The four things that may come of an entry.
LEMMA BinStepIs ==
  ASSUME NEW t, NEW acc \in BinAccs, NEW id \in Nat
  PROVE  \/ acc.full /\ BinStep(t, acc, id) = acc
         \/ /\ ~acc.full /\ id = 0
            /\ BinStep(t, acc, id) = [bins |-> Append(acc.bins, 0), used |-> acc.used,
                                      renamed |-> acc.renamed, full |-> FALSE]
         \/ /\ ~acc.full /\ id # 0 /\ Fresh(t, acc, id) = 0
            /\ BinStep(t, acc, id) = [bins |-> acc.bins, used |-> acc.used,
                                      renamed |-> acc.renamed, full |-> TRUE]
         \/ /\ ~acc.full /\ id # 0 /\ Fresh(t, acc, id) # 0
            /\ BinStep(t, acc, id)
                 = [bins |-> Append(acc.bins, Fresh(t, acc, id)),
                    used |-> acc.used \cup {Fresh(t, acc, id)},
                    renamed |-> RenamedTo(acc.renamed, id, Fresh(t, acc, id)), full |-> FALSE]
<1>1. acc = [bins |-> acc.bins, used |-> acc.used, renamed |-> acc.renamed, full |-> acc.full]
  BY DEF BinAccs
<1>2. acc.full \in BOOLEAN
  BY DEF BinAccs
<1> DEFINE b == acc.bins
           u == acc.used
           r == acc.renamed
           x == Fresh(t, acc, id)
<1>3. CASE acc.full
  BY <1>3 DEF BinStep
<1>4. CASE ~acc.full /\ id = 0
  <2> DEFINE y == Append(b, 0)
  <2>1. acc = [bins |-> b, used |-> u, renamed |-> r, full |-> FALSE]
    BY <1>1, <1>2, <1>4
  <2>2. BinStep(t, acc, id) = [acc EXCEPT !.bins = y]
    BY <1>4 DEF BinStep
  <2> HIDE DEF b, u, r, y
  <2>3. BinStep(t, acc, id) = [bins |-> y, used |-> u, renamed |-> r, full |-> FALSE]
    BY <2>1, <2>2, AccWith
  <2> QED
    BY <1>4, <2>3 DEF b, u, r, y
<1>5. CASE ~acc.full /\ id # 0 /\ x = 0
  <2>1. acc = [bins |-> b, used |-> u, renamed |-> r, full |-> FALSE]
    BY <1>1, <1>2, <1>5
  <2>2. BinStep(t, acc, id) = [acc EXCEPT !.full = TRUE]
    BY <1>5 DEF BinStep, Fresh
  <2> HIDE DEF b, u, r
  <2>3. BinStep(t, acc, id) = [bins |-> b, used |-> u, renamed |-> r, full |-> TRUE]
    BY <2>1, <2>2, AccWith
  <2> QED
    BY <1>5, <2>3 DEF b, u, r
<1>6. CASE ~acc.full /\ id # 0 /\ x # 0
  <2>1. acc = [bins |-> b, used |-> u, renamed |-> r, full |-> FALSE]
    BY <1>1, <1>2, <1>6
  <2> DEFINE y == IF x = id THEN r ELSE [n \in DOMAIN r \cup {id} |-> IF n = id THEN x ELSE r[n]]
             z == Append(b, x)
             w == u \cup {x}
  <2>2. BinStep(t, acc, id) = [acc EXCEPT !.bins = z, !.used = w, !.renamed = y]
    BY <1>6 DEF BinStep, Fresh
  <2>r. y = RenamedTo(r, id, x)
    BY DEF RenamedTo
  <2> HIDE DEF b, u, r, x, y, z, w
  <2>3. BinStep(t, acc, id) = [bins |-> z, used |-> w, renamed |-> y, full |-> FALSE]
    BY <2>1, <2>2, AccExcept
  <2>4. BinStep(t, acc, id)
          = [bins |-> Append(b, x), used |-> u \cup {x}, renamed |-> RenamedTo(r, id, x),
             full |-> FALSE]
    BY <2>3, <2>r DEF z, w
  <2> QED
    BY <1>6, <2>4 DEF b, u, r, x
<1> QED
  BY <1>2, <1>3, <1>4, <1>5, <1>6

LEMMA BinStepType ==
  ASSUME NEW t, NEW acc \in BinAccs, NEW id \in Nat
  PROVE  BinStep(t, acc, id) \in BinAccs
<1> DEFINE b == acc.bins
           u == acc.used
           r == acc.renamed
           x == Fresh(t, acc, id)
           Renamings == UNION {[D -> Nat] : D \in SUBSET Nat}
           Used == {v \in SUBSET Nat : IsFiniteSet(v)}
<1>1. b \in Seq(Nat) /\ u \in Used /\ r \in Renamings /\ x \in Nat
  BY FreshType DEF BinAccs
<1>2. Append(b, 0) \in Seq(Nat) /\ Append(b, x) \in Seq(Nat)
  BY <1>1
<1>3. u \cup {x} \in Used
  BY <1>1, FS_AddElement
<1>4. RenamedTo(r, id, x) \in Renamings
  <2>1. PICK D \in SUBSET Nat : r \in [D -> Nat]
    BY <1>1
  <2>2. CASE x = id
    BY <1>1, <2>2 DEF RenamedTo
  <2>3. CASE x # id
    <3> DEFINE m == RenamedTo(r, id, x)
    <3>1. m = [n \in D \cup {id} |-> IF n = id THEN x ELSE r[n]]
      BY <2>1, <2>3 DEF RenamedTo
    <3>2. m \in [D \cup {id} -> Nat]
      BY <1>1, <2>1, <3>1
    <3>3. D \cup {id} \in SUBSET Nat
      OBVIOUS
    <3> QED
      BY <3>2, <3>3
  <2> QED
    BY <2>2, <2>3
<1> DEFINE m == RenamedTo(r, id, x)
           p == Append(b, 0)
           q == Append(b, x)
           w == u \cup {x}
           Made(B, U, R, F) == [bins |-> B, used |-> U, renamed |-> R, full |-> F]
<1>5. \A B \in Seq(Nat), U \in Used, R \in Renamings, F \in BOOLEAN : Made(B, U, R, F) \in BinAccs
  BY DEF BinAccs
<1>6. BinStep(t, acc, id) \in {acc, Made(p, u, r, FALSE), Made(b, u, r, TRUE), Made(q, w, m, FALSE)}
  BY BinStepIs
<1>7. /\ Made(p, u, r, FALSE) \in BinAccs /\ Made(b, u, r, TRUE) \in BinAccs
      /\ Made(q, w, m, FALSE) \in BinAccs
  <2>1. p \in Seq(Nat) /\ q \in Seq(Nat) /\ w \in Used /\ m \in Renamings
    BY <1>2, <1>3, <1>4
  <2> HIDE DEF p, q, w, m, b, u, r, Used, Renamings, Made
  <2> QED
    BY <1>1, <1>5, <2>1
<1> HIDE DEF p, q, w, m, b, u, r, Made
<1> QED
  BY <1>6, <1>7

\* What a table becomes exists.
LEMMA BinFoldExists ==
  ASSUME NEW t, t.bins \in Seq(Nat), NEW s \in Seq(Nat)
  PROVE  \E f : BinFold(f, t, s)
<1> DEFINE S  == DOMAIN s
           b  == NoBins(t)
           h  == [p \in (SUBSET S) \X BinAccs |->
                    IF p[1] = {} THEN b ELSE BinStep(t, p[2], s[Max(p[1])])]
           ch == [x \in SUBSET S |-> Max(x)]
<1>1. S = 1..Len(s) /\ Len(s) \in Int /\ 1 \in Int
  OBVIOUS
<1>2. IsFiniteSet(S)
  BY <1>1, FS_Interval
<1>3. b \in BinAccs
  BY NoBinsType
<1>4. ASSUME NEW x \in SUBSET S, x # {} PROVE Max(x) \in x
  <2>1. x \subseteq Int /\ IsFiniteSet(x)
    BY <1>1, <1>2, FS_Subset
  <2> QED
    BY <1>4, <2>1, MaxExists
<1>5. ASSUME NEW x \in SUBSET S, NEW v \in BinAccs PROVE h[<<x, v>>] \in BinAccs
  <2>1. h[<<x, v>>] = IF x = {} THEN b ELSE BinStep(t, v, s[Max(x)])
    OBVIOUS
  <2>2. CASE x = {}
    BY <1>3, <2>1, <2>2
  <2>3. CASE x # {}
    <3>1. s[Max(x)] \in Nat
      BY <1>4, <2>3
    <3> QED
      BY <2>1, <2>3, <3>1, BinStepType
  <2> QED
    BY <2>2, <2>3
<1>6. FoldGiven(S, BinAccs, b, h, ch)
  <2>1. \A x \in SUBSET S : x # {} => ch[x] \in x
    BY <1>4
  <2> HIDE DEF h, ch, b, S
  <2> QED
    BY <1>3, <1>5, <2>1 DEF FoldGiven
<1>7. PICK f : FoldOf(f, S, BinAccs, b, h, ch)
  <2> HIDE DEF h, ch, b, S
  <2> QED
    BY <1>2, <1>6, FoldExists
<1>8. ASSUME NEW x \in SUBSET S
      PROVE  f[x] = IF x = {} THEN b ELSE BinStep(t, f[x \ {Max(x)}], s[Max(x)])
  <2>1. f[x] = IF x = {} THEN b ELSE h[<<x, f[x \ {Max(x)}]>>]
    BY <1>7 DEF FoldOf
  <2>2. x \ {Max(x)} \in SUBSET S
    OBVIOUS
  <2>3. f[x \ {Max(x)}] \in BinAccs
    BY <1>7, <2>2 DEF FoldOf
  <2>4. h[<<x, f[x \ {Max(x)}]>>] = IF x = {} THEN b ELSE BinStep(t, f[x \ {Max(x)}], s[Max(x)])
    BY <2>3
  <2> HIDE DEF h
  <2> QED
    BY <2>1, <2>4
<1>9. f = [x \in SUBSET S |-> f[x]]
  BY <1>7 DEF FoldOf
<1>10. f = [x \in SUBSET S |-> IF x = {} THEN b ELSE BinStep(t, f[x \ {Max(x)}], s[Max(x)])]
  <2> HIDE DEF h, ch, b, S
  <2> QED
    BY <1>8, <1>9
<1> QED
  BY <1>10 DEF BinFold

\* What a table has become, entry by entry.
BinRounds(g, t, s) ==
  /\ g[0] = NoBins(t)
  /\ \A k \in 0..Len(s) : g[k] \in BinAccs
  /\ \A k \in 1..Len(s) : g[k] = BinStep(t, g[k - 1], s[k])

\* The graft of a table is what it has become after its last entry.
LEMMA BinsByRound ==
  ASSUME NEW t, t.bins \in Seq(Nat), NEW in, in.bins \in Seq(Nat)
  PROVE  \E g : BinRounds(g, t, in.bins) /\ GraftBins(t, in) = g[Len(in.bins)]
<1> DEFINE s == in.bins
           f == CHOOSE f : BinFold(f, t, s)
           g == [k \in 0..Len(s) |-> f[1..k]]
<1>1. BinFold(f, t, s)
  BY BinFoldExists
<1>2. s \in Seq(Nat) /\ DOMAIN s = 1..Len(s) /\ Len(s) \in Nat
  OBVIOUS
<1>3. GraftBins(t, in) = f[1..Len(s)]
  BY <1>2, BinsAreFold
<1> HIDE DEF f
<1>4. 1..0 = {} /\ f[{}] = NoBins(t)
  BY <1>1 DEF BinFold
<1>5. ASSUME NEW k \in 1..Len(s) PROVE f[1..k] = BinStep(t, f[1..(k - 1)], s[k])
  <2>1. 1..k \in SUBSET DOMAIN s
    BY <1>2
  <2>2. k \in Nat /\ k # 0
    OBVIOUS
  <2>3. 1..k # {} /\ Max(1..k) = k /\ (1..k) \ {Max(1..k)} = 1..(k - 1)
    BY <2>2, PlacesDown
  <2> HIDE DEF s
  <2>4. f[1..k] = BinStep(t, f[(1..k) \ {Max(1..k)}], s[Max(1..k)])
    BY <1>1, <2>1, <2>3 DEF BinFold
  <2> QED
    BY <2>3, <2>4
<1>6. \A k \in 0..Len(s) : f[1..k] \in BinAccs
  <2> DEFINE N == {k \in Nat : k <= Len(s) => f[1..k] \in BinAccs}
  <2>1. 0 \in N
    BY <1>4, NoBinsType
  <2>2. ASSUME NEW k \in Nat, k \in N PROVE k + 1 \in N
    <3> SUFFICES ASSUME k + 1 <= Len(s) PROVE f[1..(k + 1)] \in BinAccs
      OBVIOUS
    <3>1. k + 1 \in 1..Len(s) /\ (k + 1) - 1 = k /\ k <= Len(s)
      BY <1>2
    <3>2. f[1..k] \in BinAccs
      BY <2>2, <3>1
    <3>3. f[1..(k + 1)] = BinStep(t, f[1..k], s[k + 1])
      <4> DEFINE m == k + 1
      <4>1. m \in 1..Len(s) /\ m - 1 = k
        BY <3>1
      <4> HIDE DEF m
      <4>2. f[1..m] = BinStep(t, f[1..k], s[m])
        BY <1>5, <4>1
      <4> QED
        BY <4>2 DEF m
    <3>4. s[k + 1] \in Nat
      BY <1>2, <3>1
    <3> QED
      BY <3>2, <3>3, <3>4, BinStepType
  <2>3. Nat \subseteq N
    <3> HIDE DEF N
    <3> QED
      BY <2>1, <2>2, AllNumbers
  <2> QED
    BY <1>2, <2>3
<1>7. BinRounds(g, t, s)
  <2>1. \A k \in 0..Len(s) : g[k] = f[1..k]
    OBVIOUS
  <2>2. \A k \in 1..Len(s) : k \in 0..Len(s) /\ k - 1 \in 0..Len(s)
    BY <1>2
  <2>3. 0 \in 0..Len(s)
    BY <1>2
  <2> HIDE DEF g, s
  <2>4. g[0] = NoBins(t)
    BY <1>4, <2>1, <2>3
  <2>5. \A k \in 1..Len(s) : g[k] = BinStep(t, g[k - 1], s[k])
    BY <1>5, <2>1, <2>2
  <2> QED
    BY <1>6, <2>1, <2>4, <2>5 DEF BinRounds
<1>8. g[Len(s)] = f[1..Len(s)]
  BY <1>2
<1> QED
  BY <1>3, <1>7, <1>8

\* The storage id that the payload of an id goes by.
NewId(renamed, id) == IF id \in DOMAIN renamed THEN renamed[id] ELSE id

LEMMA RenamedToIs ==
  ASSUME NEW r, NEW id, id \notin DOMAIN r, NEW x
  PROVE  /\ DOMAIN RenamedTo(r, id, x) \subseteq DOMAIN r \cup {id}
         /\ NewId(RenamedTo(r, id, x), id) = x
         /\ \A n : n # id => NewId(RenamedTo(r, id, x), n) = NewId(r, n)
<1>1. CASE x = id
  BY <1>1 DEF RenamedTo, NewId
<1>2. CASE x # id
  <2> DEFINE m == [n \in DOMAIN r \cup {id} |-> IF n = id THEN x ELSE r[n]]
  <2>1. RenamedTo(r, id, x) = m
    BY <1>2 DEF RenamedTo
  <2>2. DOMAIN m = DOMAIN r \cup {id} /\ m[id] = x /\ \A n \in DOMAIN r : n # id => m[n] = r[n]
    OBVIOUS
  <2> HIDE DEF m
  <2>3. NewId(m, id) = x
    BY <2>2 DEF NewId
  <2>4. ASSUME NEW n, n # id PROVE NewId(m, n) = NewId(r, n)
    BY <2>2, <2>4 DEF NewId
  <2> QED
    BY <2>1, <2>2, <2>3, <2>4
<1> QED
  BY <1>1, <1>2

\* Ids that are none's twice, but for the 0 of linked files.
IdsDiffer(s) == \A m, n \in DOMAIN s : s[m] = s[n] => m = n \/ s[m] = 0

\* An entry's new id: the one its payload goes by, which no stream has.
BinKept(t, s, acc, m) ==
  /\ s[m] = 0 => acc.bins[m] = 0
  /\ s[m] # 0 => /\ acc.bins[m] # 0 /\ acc.bins[m] = NewId(acc.renamed, s[m])
                 /\ acc.bins[m] \in acc.used /\ ~NameTaken(t, acc.bins[m])

\* What is known after k entries.
BinsKnown(t, s, k, acc) ==
  /\ Len(acc.bins) = k \/ (acc.full /\ Len(acc.bins) < k)
  /\ DOMAIN acc.renamed \subseteq {s[m] : m \in 1..k} \ {0}
  /\ \A id \in DOMAIN acc.renamed : acc.renamed[id] # 0
  /\ \A m \in 1..Len(acc.bins) : BinKept(t, s, acc, m)
  /\ \A m, n \in 1..Len(acc.bins) : acc.bins[m] = acc.bins[n] /\ acc.bins[m] # 0 => m = n

\* An entry is appended with id x.
LEMMA BinAppended ==
  ASSUME NEW t, NEW s \in Seq(Nat), IdsDiffer(s), NEW k \in 1..Len(s),
         NEW acc, acc \in BinAccs, BinsKnown(t, s, k - 1, acc), Len(acc.bins) = k - 1,
         NEW x \in Nat, NEW new, new \in BinAccs, new.bins = Append(acc.bins, x),
         acc.used \subseteq new.used,
         \A m \in 1..(k - 1) : s[m] # 0 => NewId(new.renamed, s[m]) = NewId(acc.renamed, s[m]),
         BinKept(t, s, new, k), x # 0 => x \notin acc.used,
         DOMAIN new.renamed \subseteq {s[m] : m \in 1..k} \ {0},
         \A id \in DOMAIN new.renamed : new.renamed[id] # 0
  PROVE  BinsKnown(t, s, k, new)
<1> DEFINE b == acc.bins
           c == new.bins
<1>1. b \in Seq(Nat) /\ Len(b) = k - 1 /\ k \in Nat
  BY DEF BinAccs
<1>2. Len(c) = k /\ c[k] = x /\ \A m \in 1..(k - 1) : c[m] = b[m]
  BY <1>1
<1>3. \A m \in 1..k : m = k \/ m \in 1..(k - 1)
  BY <1>1
<1>4. /\ \A m \in 1..(k - 1) : BinKept(t, s, acc, m)
      /\ \A m, n \in 1..(k - 1) : b[m] = b[n] /\ b[m] # 0 => m = n
  BY <1>1 DEF BinsKnown
<1>5. ASSUME NEW m \in 1..k PROVE BinKept(t, s, new, m)
  <2>1. CASE m = k
    BY <2>1
  <2>2. CASE m \in 1..(k - 1)
    <3>1. BinKept(t, s, acc, m) /\ c[m] = b[m]
      BY <1>2, <1>4, <2>2
    <3>2. s[m] # 0 => NewId(new.renamed, s[m]) = NewId(acc.renamed, s[m])
      BY <2>2
    <3> QED
      BY <3>1, <3>2 DEF BinKept
  <2> QED
    BY <1>3, <2>1, <2>2
<1>6. ASSUME NEW m \in 1..(k - 1), b[m] # 0 PROVE b[m] \in acc.used
  <2>1. BinKept(t, s, acc, m)
    BY <1>4
  <2> QED
    BY <1>6, <2>1 DEF BinKept
<1>7. ASSUME NEW m \in 1..k, NEW n \in 1..k, c[m] = c[n], c[m] # 0 PROVE m = n
  <2>1. CASE m \in 1..(k - 1) /\ n \in 1..(k - 1)
    BY <1>2, <1>4, <1>7, <2>1
  <2>2. CASE m = k /\ n \in 1..(k - 1)
    BY <1>2, <1>6, <1>7, <2>2
  <2>3. CASE n = k /\ m \in 1..(k - 1)
    BY <1>2, <1>6, <1>7, <2>3
  <2> QED
    BY <1>3, <2>1, <2>2, <2>3
<1> HIDE DEF b, c
<1>8. Len(new.bins) = k
  BY <1>2 DEF c
<1> QED
  BY <1>5, <1>7, <1>8 DEF BinsKnown, c

\* One more entry.
LEMMA BinsRound ==
  ASSUME NEW t, NEW s \in Seq(Nat), IdsDiffer(s), NEW k \in 1..Len(s),
         NEW acc, acc \in BinAccs, BinsKnown(t, s, k - 1, acc)
  PROVE  BinsKnown(t, s, k, BinStep(t, acc, s[k]))
<1> DEFINE id  == s[k]
           x   == Fresh(t, acc, id)
           new == BinStep(t, acc, id)
<1>1. id \in Nat /\ k \in Nat /\ DOMAIN s = 1..Len(s) /\ k # 0
  OBVIOUS
<1>2. new \in BinAccs /\ x \in Nat
  BY <1>1, BinStepType, FreshType
<1>3. {s[m] : m \in 1..(k - 1)} \subseteq {s[m] : m \in 1..k}
  BY <1>1
<1>4. /\ \/ acc.full /\ new = acc
         \/ ~acc.full /\ id = 0 /\ new.bins = Append(acc.bins, 0) /\ new.used = acc.used
            /\ new.renamed = acc.renamed
         \/ ~acc.full /\ id # 0 /\ x = 0 /\ new.bins = acc.bins /\ new.used = acc.used
            /\ new.renamed = acc.renamed /\ new.full
         \/ ~acc.full /\ id # 0 /\ x # 0 /\ new.bins = Append(acc.bins, x)
            /\ new.used = acc.used \cup {x} /\ new.renamed = RenamedTo(acc.renamed, id, x)
  <2>1. \/ acc.full /\ new = acc
        \/ ~acc.full /\ id = 0
           /\ new = [bins |-> Append(acc.bins, 0), used |-> acc.used,
                     renamed |-> acc.renamed, full |-> FALSE]
        \/ ~acc.full /\ id # 0 /\ x = 0
           /\ new = [bins |-> acc.bins, used |-> acc.used, renamed |-> acc.renamed, full |-> TRUE]
        \/ ~acc.full /\ id # 0 /\ x # 0
           /\ new = [bins |-> Append(acc.bins, x), used |-> acc.used \cup {x},
                     renamed |-> RenamedTo(acc.renamed, id, x), full |-> FALSE]
    <3> HIDE DEF id
    <3> QED
      BY <1>1, BinStepIs
  <2> HIDE DEF new, x, id
  <2> QED
    BY <2>1
<1>5. /\ acc.bins \in Seq(Nat) /\ acc.used \subseteq Nat /\ IsFiniteSet(acc.used)
      /\ acc.full \in BOOLEAN
  BY DEF BinAccs
<1>6. /\ Len(acc.bins) = k - 1 \/ (acc.full /\ Len(acc.bins) < k - 1)
      /\ DOMAIN acc.renamed \subseteq {s[m] : m \in 1..(k - 1)} \ {0}
      /\ \A n \in DOMAIN acc.renamed : acc.renamed[n] # 0
      /\ \A m \in 1..Len(acc.bins) : BinKept(t, s, acc, m)
      /\ \A m, n \in 1..Len(acc.bins) : acc.bins[m] = acc.bins[n] /\ acc.bins[m] # 0 => m = n
  BY DEF BinsKnown
<1>7. DOMAIN acc.renamed \subseteq {s[m] : m \in 1..k} \ {0}
  BY <1>3, <1>6
<1> HIDE DEF new, x
<1>8. CASE acc.full /\ new = acc
  <2>1. Len(acc.bins) < k
    BY <1>1, <1>5, <1>6
  <2> QED
    BY <1>6, <1>7, <1>8, <2>1 DEF BinsKnown, new
<1>9. CASE ~acc.full /\ id = 0 /\ new.bins = Append(acc.bins, 0) /\ new.used = acc.used
           /\ new.renamed = acc.renamed
  <2>1. Len(acc.bins) = k - 1
    BY <1>6, <1>9
  <2>2. new.bins[k] = 0
    BY <1>1, <1>5, <1>9, <2>1
  <2>3. BinKept(t, s, new, k)
    BY <1>9, <2>2 DEF BinKept
  <2>4. /\ acc.used \subseteq new.used
        /\ \A m \in 1..(k - 1) : s[m] # 0 => NewId(new.renamed, s[m]) = NewId(acc.renamed, s[m])
        /\ DOMAIN new.renamed \subseteq {s[m] : m \in 1..k} \ {0}
        /\ \A n \in DOMAIN new.renamed : new.renamed[n] # 0
    BY <1>6, <1>7, <1>9
  <2>5. 0 \in Nat /\ (0 # 0 => 0 \notin acc.used) /\ new.bins = Append(acc.bins, 0)
    BY <1>9
  <2>6. BinsKnown(t, s, k, new)
    BY <1>2, <2>1, <2>3, <2>4, <2>5, BinAppended
  <2> QED
    BY <2>6 DEF new
<1>10. CASE ~acc.full /\ id # 0 /\ x = 0 /\ new.bins = acc.bins /\ new.used = acc.used
            /\ new.renamed = acc.renamed /\ new.full
  <2>1. Len(acc.bins) < k
    BY <1>1, <1>5, <1>6
  <2>2. \A m \in 1..Len(new.bins) : BinKept(t, s, new, m)
    BY <1>6, <1>10 DEF BinKept
  <2>3. BinsKnown(t, s, k, new)
    BY <1>6, <1>7, <1>10, <2>1, <2>2 DEF BinsKnown
  <2> QED
    BY <2>3 DEF new
<1>11. CASE ~acc.full /\ id # 0 /\ x # 0 /\ new.bins = Append(acc.bins, x)
            /\ new.used = acc.used \cup {x} /\ new.renamed = RenamedTo(acc.renamed, id, x)
  <2>1. Len(acc.bins) = k - 1
    BY <1>6, <1>11
  <2>2. id \notin {s[m] : m \in 1..(k - 1)}
    BY <1>1, <1>11 DEF IdsDiffer
  <2>3. id \notin DOMAIN acc.renamed
    BY <1>6, <2>2
  <2>4. x = FreshId(t, acc.used, id)
    BY <2>3 DEF x, Fresh
  <2>5. x \notin acc.used /\ ~NameTaken(t, x)
    <3>1. FreshId(t, acc.used, id) # 0 =>
            FreshId(t, acc.used, id) \notin acc.used /\ ~NameTaken(t, FreshId(t, acc.used, id))
      BY <1>1, <1>5, FreshIdIs
    <3> QED
      BY <1>11, <2>4, <3>1
  <2>6. /\ DOMAIN new.renamed \subseteq DOMAIN acc.renamed \cup {id}
        /\ NewId(new.renamed, id) = x
        /\ \A n : n # id => NewId(new.renamed, n) = NewId(acc.renamed, n)
    BY <1>11, <2>3, RenamedToIs
  <2>7. new.bins[k] = x
    BY <1>1, <1>2, <1>5, <1>11, <2>1
  <2>8. BinKept(t, s, new, k)
    BY <1>11, <2>5, <2>6, <2>7 DEF BinKept
  <2>9. \A m \in 1..(k - 1) : s[m] # 0 => NewId(new.renamed, s[m]) = NewId(acc.renamed, s[m])
    <3>1. \A m \in 1..(k - 1) : s[m] # id
      BY <2>2
    <3> QED
      BY <2>6, <3>1
  <2>10. DOMAIN new.renamed \subseteq {s[m] : m \in 1..k} \ {0}
    <3>1. id \in {s[m] : m \in 1..k}
      BY <1>1
    <3> QED
      BY <1>7, <1>11, <2>6, <3>1
  <2>11. ASSUME NEW n \in DOMAIN new.renamed PROVE new.renamed[n] # 0
    <3>1. new.renamed[n] = NewId(new.renamed, n)
      BY DEF NewId
    <3>2. CASE n = id
      BY <1>11, <2>6, <3>1, <3>2
    <3>3. CASE n # id
      <4>1. n \in DOMAIN acc.renamed /\ NewId(new.renamed, n) = NewId(acc.renamed, n)
        BY <2>6, <3>3
      <4> QED
        BY <1>6, <3>1, <4>1 DEF NewId
    <3> QED
      BY <3>2, <3>3
  <2>12. /\ acc.used \subseteq new.used /\ (x # 0 => x \notin acc.used)
         /\ new.bins = Append(acc.bins, x)
    BY <1>11, <2>5
  <2>13. BinsKnown(t, s, k, new)
    BY <1>2, <2>1, <2>8, <2>9, <2>10, <2>11, <2>12, BinAppended
  <2> QED
    BY <2>13 DEF new
<1> QED
  BY <1>4, <1>8, <1>9, <1>10, <1>11

\* The graft of a table: either all entries are appended, each with an id that
\* no other has and no stream, or entries are dropped.
LEMMA BinsGrafted ==
  ASSUME NEW t, t.bins \in Seq(Nat), NEW in, in.bins \in Seq(Nat), IdsDiffer(in.bins)
  PROVE  /\ GraftBins(t, in) \in BinAccs
         /\ BinsKnown(t, in.bins, Len(in.bins), GraftBins(t, in))
<1> DEFINE s == in.bins
<1>1. PICK g : BinRounds(g, t, s) /\ GraftBins(t, in) = g[Len(s)]
  BY BinsByRound
<1>2. s \in Seq(Nat) /\ Len(s) \in Nat
  OBVIOUS
<1>3. g[0] = NoBins(t) /\ BinsKnown(t, s, 0, g[0])
  <2>1. g[0] = NoBins(t)
    BY <1>1 DEF BinRounds
  <2>2. /\ NoBins(t).bins = <<>> /\ DOMAIN NoBins(t).renamed = {} /\ Len(<<>>) = 0
    BY DEF NoBins
  <2>3. 1..0 = {}
    OBVIOUS
  <2> QED
    BY <2>1, <2>2, <2>3 DEF BinsKnown
<1> DEFINE N == {k \in Nat : k <= Len(s) => BinsKnown(t, s, k, g[k])}
<1>4. 0 \in N
  BY <1>3
<1>5. ASSUME NEW k \in Nat, k \in N PROVE k + 1 \in N
  <2> SUFFICES ASSUME k + 1 <= Len(s) PROVE BinsKnown(t, s, k + 1, g[k + 1])
    OBVIOUS
  <2> DEFINE m == k + 1
  <2>1. m \in 1..Len(s) /\ m - 1 = k /\ k <= Len(s) /\ k \in 0..Len(s)
    BY <1>2
  <2>2. BinsKnown(t, s, k, g[k])
    BY <1>5, <2>1
  <2> HIDE DEF m, s
  <2>3. g[m] = BinStep(t, g[k], s[m]) /\ g[k] \in BinAccs
    BY <1>1, <2>1 DEF BinRounds
  <2>4. BinsKnown(t, s, m - 1, g[k])
    BY <2>1, <2>2
  <2>s. s \in Seq(Nat) /\ IdsDiffer(s)
    BY DEF s
  <2>5. BinsKnown(t, s, m, BinStep(t, g[k], s[m]))
    BY <2>1, <2>3, <2>4, <2>s, BinsRound
  <2> QED
    BY <2>3, <2>5 DEF m
<1>6. Nat \subseteq N
  <2> HIDE DEF N
  <2> QED
    BY <1>4, <1>5, AllNumbers
<1>7. BinsKnown(t, s, Len(s), g[Len(s)])
  BY <1>2, <1>6
<1>8. g[Len(s)] \in BinAccs
  <2>1. Len(s) \in 0..Len(s)
    BY <1>2
  <2> HIDE DEF s
  <2> QED
    BY <1>1, <2>1 DEF BinRounds
<1> QED
  BY <1>1, <1>7, <1>8

(***************************************************************************)
(* Streams and their names                                                 *)
(***************************************************************************)

\* A name, with the texts that the merge makes itself.  (The provers do not know
\* that a text is in STRING.)
Text == STRING \cup {"BIN", "merge", "graft"}

AnyName == [pre : {<<>>} \cup Text \X Nat, dir : BOOLEAN, stem : Text \X Nat, ext : BOOLEAN]

\* A stream, by such a name.
Stream == [name : AnyName, data : Tag]

LEMMA NameType == Name \subseteq AnyName
BY DEF Name, AnyName, Text

\* None of the first m streams has this name.
Untaken(streams, m, name) == \A i \in 1..m : streams[i].name # name

\* A name with a prefix put before it.
With(name, prefix, n) == [name EXCEPT !.pre = <<prefix, n>>]

LEMMA NameIs ==
  ASSUME NEW name \in AnyName
  PROVE  /\ name = [pre |-> name.pre, dir |-> name.dir, stem |-> name.stem, ext |-> name.ext]
         /\ name.dir \in BOOLEAN /\ name.ext \in BOOLEAN /\ name.stem \in Text \X Nat
         /\ name.pre \in {<<>>} \cup Text \X Nat
BY DEF AnyName

LEMMA WithIs ==
  ASSUME NEW name \in AnyName, NEW prefix \in Text, NEW n \in Nat
  PROVE  /\ With(name, prefix, n) \in AnyName
         /\ With(name, prefix, n).pre = <<prefix, n>> /\ With(name, prefix, n).dir = name.dir
         /\ With(name, prefix, n).stem = name.stem /\ With(name, prefix, n).ext = name.ext
BY DEF AnyName, With

\* There is a first name of the form that no stream has: there are more numbers
\* to try than streams.
LEMMA MintedIs ==
  ASSUME NEW streams \in Seq(Stream), NEW prefix \in Text, NEW name \in AnyName
  PROVE  \E n \in Nat : /\ Minted(streams, prefix, name) = With(name, prefix, n)
                        /\ Untaken(streams, Len(streams), With(name, prefix, n))
<1> DEFINE len  == Len(streams)
           Used(n) == \E i \in DOMAIN streams : streams[i].name = With(name, prefix, n)
           tried == len + 1 .. 2 * len + 1
           free == {n \in tried : ~Used(n)}
<1>1. len \in Nat /\ DOMAIN streams = 1..len
  OBVIOUS
<1>2. Minted(streams, prefix, name) = With(name, prefix, Min(free))
  BY DEF Minted, With
<1>3. tried \subseteq Nat
  BY <1>1
<1>4. free # {}
  <2> SUFFICES ASSUME \A n \in tried : Used(n) PROVE FALSE
    OBVIOUS
  <2> DEFINE f == [n \in tried |-> CHOOSE i \in 1..len : streams[i].name = With(name, prefix, n)]
  <2>1. ASSUME NEW n \in tried
        PROVE  f[n] \in 1..len /\ streams[f[n]].name = With(name, prefix, n)
    <3>1. \E i \in 1..len : streams[i].name = With(name, prefix, n)
      BY <1>1
    <3> HIDE DEF len, tried
    <3> QED
      BY <3>1
  <2>2. f \in [tried -> 1..len]
    BY <2>1
  <2>3. IsFiniteSet(tried) /\ Cardinality(tried) = len + 1
    <3> DEFINE a == len + 1
               b == 2 * len + 1
    <3>1. a \in Int /\ b \in Int /\ ~(a > b) /\ b - a + 1 = len + 1
      BY <1>1
    <3>2. tried = a..b
      OBVIOUS
    <3> HIDE DEF a, b, tried
    <3>3. Cardinality(tried) = b - a + 1 /\ IsFiniteSet(tried)
      BY <3>1, <3>2, FS_Interval
    <3> QED
      BY <3>1, <3>3
  <2>4. IsFiniteSet(1..len) /\ Cardinality(1..len) = len
    <3>1. 1 \in Int /\ len \in Int
      BY <1>1
    <3> HIDE DEF len
    <3>2. IsFiniteSet(1..len) /\ Cardinality(1..len) = IF 1 > len THEN 0 ELSE len - 1 + 1
      BY <3>1, FS_Interval
    <3> QED
      BY <1>1, <3>2
  <2>5. Cardinality(1..len) < Cardinality(tried)
    <3> HIDE DEF len, tried
    <3> QED
      BY <1>1, <2>3, <2>4
  <2> HIDE DEF f, tried
  <2>6. PICK x \in tried, y \in tried : x # y /\ f[x] = f[y]
    BY <2>2, <2>3, <2>4, <2>5, FS_PigeonHole
  <2>7. x \in Nat /\ y \in Nat
    BY <1>3
  <2>8. With(name, prefix, x) = With(name, prefix, y)
    BY <2>1, <2>6
  <2>9. <<prefix, x>> = <<prefix, y>>
    <3>1. With(name, prefix, x).pre = <<prefix, x>>
      BY <2>7, WithIs
    <3>2. With(name, prefix, y).pre = <<prefix, y>>
      BY <2>7, WithIs
    <3> QED
      BY <2>8, <3>1, <3>2
  <2> QED
    BY <2>6, <2>9
<1>5. Min(free) \in free
  <2>1. free \subseteq Nat
    BY <1>3
  <2> HIDE DEF free
  <2> QED
    BY <1>4, <2>1, LeastIs
<1>6. Min(free) \in Nat /\ Untaken(streams, len, With(name, prefix, Min(free)))
  BY <1>1, <1>3, <1>5 DEF Untaken
<1> HIDE DEF free
<1> QED
  BY <1>2, <1>6

\* The parts of a payload's name.
LEMMA CanonicalIs ==
  ASSUME NEW id \in Nat
  PROVE  /\ Canonical(id) \in AnyName
         /\ Canonical(id).pre = <<>> /\ Canonical(id).dir = FALSE
         /\ Canonical(id).stem = <<"BIN", id>> /\ Canonical(id).ext = TRUE
         /\ Trailing(Canonical(id)) = Canonical(id)
<1>1. /\ Canonical(id).pre = <<>> /\ Canonical(id).dir = FALSE
      /\ Canonical(id).stem = <<"BIN", id>> /\ Canonical(id).ext = TRUE
  BY DEF Canonical
<1>2. Trailing(Canonical(id)) = Canonical(id)
  BY <1>1 DEF Trailing
<1>3. Canonical(id) \in AnyName
  <2>1. <<"BIN", id>> \in Text \X Nat /\ <<>> \in {<<>>} \cup Text \X Nat
    <3>1. <<"BIN", id>> \in Text \X Nat
      BY DEF Text
    <3>2. <<>> \in {<<>>}
      OBVIOUS
    <3> QED
      BY <3>1, <3>2
  <2> DEFINE stem == <<"BIN", id>>
             pre  == <<>>
  <2>2. stem \in Text \X Nat /\ pre \in {<<>>} \cup Text \X Nat
    BY <2>1
  <2>3. Canonical(id) = [pre |-> pre, dir |-> FALSE, stem |-> stem, ext |-> TRUE]
    BY DEF Canonical
  <2> HIDE DEF stem, pre
  <2> QED
    BY <2>2, <2>3 DEF AnyName
<1> QED
  BY <1>1, <1>2, <1>3

\* The storage ids of a table.
Stored(s) == ToSet(s) \ {0}

\* The storage ids that changed, with the new ones.
Renamings == UNION {[D -> Nat] : D \in SUBSET Nat}

LEMMA StoredType ==
  ASSUME NEW s \in Seq(Nat)
  PROVE  Stored(s) \subseteq Nat
BY DEF Stored, ToSet

LEMMA NewIdType ==
  ASSUME NEW r \in Renamings, NEW id \in Nat
  PROVE  NewId(r, id) \in Nat
BY DEF Renamings, NewId

\* What a name becomes: a payload's is that of its entry's new id; another is
\* kept, or changed when one of the first m streams has it.
Became(streams, m, prefix, s, renamed, old, new) ==
  \/ \E id \in Stored(s) : Trailing(old) = Canonical(id) /\ new = Canonical(NewId(renamed, id))
  \/ /\ \A id \in Stored(s) : Trailing(old) # Canonical(id)
     /\ Untaken(streams, m, new)
     /\ \/ Untaken(streams, m, old) /\ new = old
        \/ ~Untaken(streams, m, old) /\ \E n \in Nat : new = With(old, prefix, n)

\* NewName is what a name becomes.
LEMMA NewNameIs ==
  ASSUME NEW streams \in Seq(Stream), NEW prefix \in Text, NEW in, in.bins \in Seq(Nat),
         NEW renamed \in Renamings, NEW name \in AnyName
  PROVE  /\ NewName(streams, prefix, in, renamed, name) \in AnyName
         /\ Became(streams, Len(streams), prefix, in.bins, renamed, name,
                   NewName(streams, prefix, in, renamed, name))
<1> DEFINE ids == {id \in Stored(in.bins) : Trailing(name) = Canonical(id)}
           id  == CHOOSE id \in ids : TRUE
           new == NewName(streams, prefix, in, renamed, name)
<1>1. DOMAIN streams = 1..Len(streams)
  OBVIOUS
<1>2. new = IF ids # {} THEN Canonical(NewId(renamed, id))
            ELSE IF \E i \in DOMAIN streams : streams[i].name = name
              THEN Minted(streams, prefix, name)
            ELSE name
  BY DEF NewName, NewId, Stored
<1> HIDE DEF new
<1>3. CASE ids # {}
  <2>1. id \in ids
    BY <1>3
  <2> HIDE DEF id
  <2>2. /\ id \in Stored(in.bins) /\ Trailing(name) = Canonical(id)
        /\ new = Canonical(NewId(renamed, id))
    BY <1>2, <1>3, <2>1
  <2>3. id \in Nat
    BY <2>2, StoredType
  <2>4. new \in AnyName
    BY <2>2, <2>3, NewIdType, CanonicalIs
  <2> QED
    BY <2>2, <2>4 DEF Became, new
<1>4. CASE ids = {} /\ Untaken(streams, Len(streams), name)
  <2>1. new = name
    BY <1>1, <1>2, <1>4 DEF Untaken
  <2>2. \A n \in Stored(in.bins) : Trailing(name) # Canonical(n)
    BY <1>4
  <2>3. Became(streams, Len(streams), prefix, in.bins, renamed, name, new)
    BY <1>4, <2>1, <2>2 DEF Became
  <2> QED
    BY <2>1, <2>3 DEF new
<1>5. CASE ids = {} /\ ~Untaken(streams, Len(streams), name)
  <2>1. new = Minted(streams, prefix, name)
    BY <1>1, <1>2, <1>5 DEF Untaken
  <2>2. PICK n \in Nat : /\ Minted(streams, prefix, name) = With(name, prefix, n)
                         /\ Untaken(streams, Len(streams), With(name, prefix, n))
    BY MintedIs
  <2>3. \A m \in Stored(in.bins) : Trailing(name) # Canonical(m)
    BY <1>5
  <2>4. new = With(name, prefix, n) /\ Untaken(streams, Len(streams), new)
    BY <2>1, <2>2
  <2>5. Became(streams, Len(streams), prefix, in.bins, renamed, name, new)
    BY <1>5, <2>3, <2>4 DEF Became
  <2>6. new \in AnyName
    BY <2>4, WithIs
  <2> QED
    BY <2>5, <2>6 DEF new
<1> QED
  BY <1>3, <1>4, <1>5

\* The streams so far, and what the input's names have become.
StreamAccs == [streams : Seq(Stream), names : SUBSET (AnyName \X AnyName)]

\* What the graft of the streams is given.
StreamsGiven(t, how, in, renamed) ==
  /\ t.streams \in Seq(Stream) /\ in.streams \in Seq(Stream) /\ in.bins \in Seq(Nat)
  /\ how.prefix \in Text /\ renamed \in Renamings

\* A stream is appended by what its name becomes, and the pair is noted.
LEMMA StreamStepIs ==
  ASSUME NEW t, NEW how, NEW in, NEW renamed, StreamsGiven(t, how, in, renamed),
         NEW acc \in StreamAccs, NEW s \in Stream
  PROVE  \E new \in AnyName :
           LET next == StreamStep(how, in, renamed, acc, s)
           IN /\ next \in StreamAccs
              /\ next.streams = Append(acc.streams, [name |-> new, data |-> s.data])
              /\ next.names = {p \in acc.names : p[1] # s.name} \cup {<<s.name, new>>}
              /\ Became(acc.streams, Len(acc.streams), how.prefix, in.bins, renamed, s.name, new)
<1> DEFINE new  == NewName(acc.streams, how.prefix, in, renamed, s.name)
           one  == [s EXCEPT !.name = new]
           next == StreamStep(how, in, renamed, acc, s)
<1>1. /\ acc.streams \in Seq(Stream) /\ acc.names \in SUBSET (AnyName \X AnyName)
      /\ s.name \in AnyName /\ s.data \in Tag
      /\ how.prefix \in Text /\ in.bins \in Seq(Nat) /\ renamed \in Renamings
  BY DEF StreamAccs, Stream, StreamsGiven
<1>2. /\ new \in AnyName
      /\ Became(acc.streams, Len(acc.streams), how.prefix, in.bins, renamed, s.name, new)
  BY <1>1, NewNameIs
<1>3. /\ next.streams = Append(acc.streams, one)
      /\ next.names = {p \in acc.names : p[1] # s.name} \cup {<<s.name, new>>}
      /\ next = [streams |-> next.streams, names |-> next.names]
  BY DEF StreamStep
<1> HIDE DEF new, next
<1>4. one = [name |-> new, data |-> s.data] /\ one \in Stream
  BY <1>1, <1>2 DEF Stream
<1>5. next.streams \in Seq(Stream)
  <2> HIDE DEF one
  <2> QED
    BY <1>1, <1>3, <1>4
<1>6. next.names \in SUBSET (AnyName \X AnyName)
  <2>1. <<s.name, new>> \in AnyName \X AnyName
    BY <1>1, <1>2
  <2> QED
    BY <1>1, <1>3, <2>1
<1>7. next \in StreamAccs
  BY <1>3, <1>5, <1>6 DEF StreamAccs
<1>8. next.streams = Append(acc.streams, [name |-> new, data |-> s.data])
  BY <1>3, <1>4
<1> QED
  BY <1>2, <1>3, <1>7, <1>8 DEF next

LEMMA StreamStepType ==
  ASSUME NEW t, NEW how, NEW in, NEW renamed, StreamsGiven(t, how, in, renamed),
         NEW acc \in StreamAccs, NEW s \in Stream
  PROVE  StreamStep(how, in, renamed, acc, s) \in StreamAccs
BY StreamStepIs

\* Before the first stream.
NoStreams(t) == [streams |-> t.streams, names |-> {}]

LEMMA NoStreamsType ==
  ASSUME NEW t, NEW how, NEW in, NEW renamed, StreamsGiven(t, how, in, renamed)
  PROVE  NoStreams(t) \in StreamAccs
BY DEF NoStreams, StreamAccs, StreamsGiven

\* There is such a fold: it is built from the empty set of places up.
LEMMA StreamFoldExists ==
  ASSUME NEW t, NEW how, NEW in, NEW renamed, StreamsGiven(t, how, in, renamed)
  PROVE  \E f : StreamFold(f, t, how, in, renamed)
<1> DEFINE s  == in.streams
           S  == DOMAIN s
           b  == NoStreams(t)
           h  == [p \in (SUBSET S) \X StreamAccs |->
                    IF p[1] = {} THEN b ELSE StreamStep(how, in, renamed, p[2], s[Max(p[1])])]
           ch == [x \in SUBSET S |-> Max(x)]
<1>0. s \in Seq(Stream)
  BY DEF StreamsGiven
<1>1. S = 1..Len(s) /\ Len(s) \in Int /\ 1 \in Int
  BY <1>0
<1>2. IsFiniteSet(S)
  BY <1>1, FS_Interval
<1>3. b \in StreamAccs
  BY NoStreamsType
<1>4. ASSUME NEW x \in SUBSET S, x # {} PROVE Max(x) \in x
  <2>1. x \subseteq Int /\ IsFiniteSet(x)
    BY <1>1, <1>2, FS_Subset
  <2> QED
    BY <1>4, <2>1, MaxExists
<1>5. ASSUME NEW x \in SUBSET S, NEW v \in StreamAccs PROVE h[<<x, v>>] \in StreamAccs
  <2>1. h[<<x, v>>] = IF x = {} THEN b ELSE StreamStep(how, in, renamed, v, s[Max(x)])
    OBVIOUS
  <2>2. CASE x = {}
    BY <1>3, <2>1, <2>2
  <2>3. CASE x # {}
    <3>1. s[Max(x)] \in Stream
      BY <1>0, <1>4, <2>3
    <3>2. StreamStep(how, in, renamed, v, s[Max(x)]) \in StreamAccs
      BY <3>1, StreamStepType
    <3> HIDE DEF h
    <3> QED
      BY <2>1, <2>3, <3>2
  <2> QED
    BY <2>2, <2>3
<1>6. FoldGiven(S, StreamAccs, b, h, ch)
  <2>1. \A x \in SUBSET S : x # {} => ch[x] \in x
    BY <1>4
  <2> HIDE DEF h, ch, b, S
  <2> QED
    BY <1>3, <1>5, <2>1 DEF FoldGiven
<1>7. PICK f : FoldOf(f, S, StreamAccs, b, h, ch)
  <2> HIDE DEF h, ch, b, S
  <2> QED
    BY <1>2, <1>6, FoldExists
<1>8. ASSUME NEW x \in SUBSET S
      PROVE  f[x] = IF x = {} THEN b ELSE StreamStep(how, in, renamed, f[x \ {Max(x)}], s[Max(x)])
  <2>1. f[x] = IF x = {} THEN b ELSE h[<<x, f[x \ {Max(x)}]>>]
    BY <1>7 DEF FoldOf
  <2>2. x \ {Max(x)} \in SUBSET S
    OBVIOUS
  <2>3. f[x \ {Max(x)}] \in StreamAccs
    BY <1>7, <2>2 DEF FoldOf
  <2>4. h[<<x, f[x \ {Max(x)}]>>]
          = IF x = {} THEN b ELSE StreamStep(how, in, renamed, f[x \ {Max(x)}], s[Max(x)])
    BY <2>3
  <2> HIDE DEF h
  <2> QED
    BY <2>1, <2>4
<1>9. f = [x \in SUBSET S |-> f[x]]
  BY <1>7 DEF FoldOf
<1>10. f = [x \in SUBSET S |->
              IF x = {} THEN b ELSE StreamStep(how, in, renamed, f[x \ {Max(x)}], s[Max(x)])]
  <2> HIDE DEF h, ch, b, S
  <2> QED
    BY <1>8, <1>9
<1> QED
  BY <1>10 DEF StreamFold, NoStreams

\* What the streams have become, one by one.
StreamRounds(g, t, how, in, renamed) ==
  /\ g[0] = NoStreams(t)
  /\ \A k \in 0..Len(in.streams) : g[k] \in StreamAccs
  /\ \A k \in 1..Len(in.streams) : g[k] = StreamStep(how, in, renamed, g[k - 1], in.streams[k])

\* The graft of the streams is what they have become after the last one.
LEMMA StreamsByRound ==
  ASSUME NEW t, NEW how, NEW in, NEW renamed, StreamsGiven(t, how, in, renamed)
  PROVE  \E g : StreamRounds(g, t, how, in, renamed)
                /\ GraftStreams(t, how, in, renamed) = g[Len(in.streams)]
<1> DEFINE s == in.streams
           f == CHOOSE f : StreamFold(f, t, how, in, renamed)
           g == [k \in 0..Len(s) |-> f[1..k]]
<1>1. StreamFold(f, t, how, in, renamed)
  BY StreamFoldExists
<1>0. s \in Seq(Stream)
  BY DEF StreamsGiven
<1>2. DOMAIN s = 1..Len(s) /\ Len(s) \in Nat
  BY <1>0
<1>3. GraftStreams(t, how, in, renamed) = f[1..Len(s)]
  BY <1>2, StreamsAreFold
<1> HIDE DEF f
<1>4. 1..0 = {} /\ f[{}] = NoStreams(t)
  BY <1>1 DEF StreamFold, NoStreams
<1>5. ASSUME NEW k \in 1..Len(s)
      PROVE  f[1..k] = StreamStep(how, in, renamed, f[1..(k - 1)], s[k])
  <2>1. 1..k \in SUBSET DOMAIN s
    BY <1>2
  <2>2. k \in Nat /\ k # 0
    OBVIOUS
  <2>3. 1..k # {} /\ Max(1..k) = k /\ (1..k) \ {Max(1..k)} = 1..(k - 1)
    BY <2>2, PlacesDown
  <2>4. f[1..k] = StreamStep(how, in, renamed, f[(1..k) \ {Max(1..k)}], s[Max(1..k)])
    BY <1>1, <2>1, <2>3 DEF StreamFold
  <2> HIDE DEF s
  <2> QED
    BY <2>3, <2>4
<1>6. \A k \in 0..Len(s) : f[1..k] \in StreamAccs
  <2> DEFINE N == {k \in Nat : k <= Len(s) => f[1..k] \in StreamAccs}
  <2>1. 0 \in N
    BY <1>4, NoStreamsType
  <2>2. ASSUME NEW k \in Nat, k \in N PROVE k + 1 \in N
    <3> SUFFICES ASSUME k + 1 <= Len(s) PROVE f[1..(k + 1)] \in StreamAccs
      OBVIOUS
    <3> DEFINE m == k + 1
    <3>1. m \in 1..Len(s) /\ m - 1 = k /\ k <= Len(s)
      BY <1>2
    <3>2. f[1..k] \in StreamAccs
      BY <2>2, <3>1
    <3>4. s[m] \in Stream
      BY <1>0, <1>2, <3>1
    <3> HIDE DEF m, s
    <3>3. f[1..m] = StreamStep(how, in, renamed, f[1..k], s[m])
      BY <1>5, <3>1
    <3>5. f[1..m] \in StreamAccs
      BY <3>2, <3>3, <3>4, StreamStepType
    <3> QED
      BY <3>5 DEF m
  <2>3. Nat \subseteq N
    <3> HIDE DEF N
    <3> QED
      BY <2>1, <2>2, AllNumbers
  <2> QED
    BY <1>2, <2>3
<1>7. StreamRounds(g, t, how, in, renamed)
  <2>1. \A k \in 0..Len(s) : g[k] = f[1..k]
    OBVIOUS
  <2>2. \A k \in 1..Len(s) : k \in 0..Len(s) /\ k - 1 \in 0..Len(s)
    BY <1>2
  <2>3. 0 \in 0..Len(s)
    BY <1>2
  <2> HIDE DEF g, s
  <2>4. g[0] = NoStreams(t)
    BY <1>4, <2>1, <2>3
  <2>5. \A k \in 1..Len(s) : g[k] = StreamStep(how, in, renamed, g[k - 1], s[k])
    BY <1>5, <2>1, <2>2
  <2>6. \A k \in 0..Len(s) : g[k] \in StreamAccs
    BY <1>6, <2>1
  <2> QED
    BY <2>4, <2>5, <2>6 DEF StreamRounds, s
<1>8. g[Len(s)] = f[1..Len(s)]
  BY <1>2
<1> QED
  BY <1>3, <1>7, <1>8

\* What a name became does not depend on the streams after it.
LEMMA BecameStays ==
  ASSUME NEW streams, NEW more, NEW m, \A i \in 1..m : more[i] = streams[i],
         NEW prefix, NEW s, NEW renamed, NEW old, NEW new,
         Became(streams, m, prefix, s, renamed, old, new)
  PROVE  Became(more, m, prefix, s, renamed, old, new)
<1>1. \A name : Untaken(more, m, name) <=> Untaken(streams, m, name)
  BY DEF Untaken
<1>2. /\ Untaken(more, m, old) <=> Untaken(streams, m, old)
      /\ Untaken(more, m, new) <=> Untaken(streams, m, new)
  BY <1>1
<1> QED
  BY <1>2 DEF Became

\* The input's n-th stream, after the target's: its bytes, and its new name.
Follows(t, in, prefix, renamed, streams, n) ==
  /\ streams[Len(t.streams) + n].data = in.streams[n].data
  /\ Became(streams, Len(t.streams) + (n - 1), prefix, in.bins, renamed,
            in.streams[n].name, streams[Len(t.streams) + n].name)

\* What is known after k streams.
StreamsKnown(t, in, prefix, renamed, k, acc) ==
  /\ Len(acc.streams) = Len(t.streams) + k
  /\ \A n \in 1..Len(t.streams) : acc.streams[n] = t.streams[n]
  /\ \A n \in 1..k : Follows(t, in, prefix, renamed, acc.streams, n)
  /\ acc.names = {<<in.streams[n].name, acc.streams[Len(t.streams) + n].name>> : n \in 1..k}

\* No two streams of the input have the same name.
NamesDiffer(in) ==
  \A m, n \in DOMAIN in.streams : in.streams[m].name = in.streams[n].name => m = n

\* One more stream.
LEMMA StreamRound ==
  ASSUME NEW t, NEW how, NEW in, NEW renamed, StreamsGiven(t, how, in, renamed), NamesDiffer(in),
         NEW k \in 1..Len(in.streams), NEW acc \in StreamAccs,
         StreamsKnown(t, in, how.prefix, renamed, k - 1, acc)
  PROVE  StreamsKnown(t, in, how.prefix, renamed, k,
                      StreamStep(how, in, renamed, acc, in.streams[k]))
<1> DEFINE s    == in.streams[k]
           next == StreamStep(how, in, renamed, acc, s)
           len  == Len(t.streams)
           old  == acc.streams
           more == next.streams
<1>1. /\ in.streams \in Seq(Stream) /\ t.streams \in Seq(Stream) /\ old \in Seq(Stream)
      /\ len \in Nat /\ k \in Nat /\ k # 0 /\ DOMAIN in.streams = 1..Len(in.streams)
  BY DEF StreamsGiven, StreamAccs
<1>2. s \in Stream
  BY <1>1
<1>3. PICK new \in AnyName :
           /\ next \in StreamAccs
           /\ more = Append(old, [name |-> new, data |-> s.data])
           /\ next.names = {p \in acc.names : p[1] # s.name} \cup {<<s.name, new>>}
           /\ Became(old, Len(old), how.prefix, in.bins, renamed, s.name, new)
  <2> HIDE DEF s
  <2> QED
    BY <1>2, StreamStepIs
<1> HIDE DEF next
<1>4. /\ Len(old) = len + (k - 1)
      /\ \A n \in 1..len : old[n] = t.streams[n]
      /\ \A n \in 1..(k - 1) : Follows(t, in, how.prefix, renamed, old, n)
      /\ acc.names = {<<in.streams[n].name, old[len + n].name>> : n \in 1..(k - 1)}
  BY DEF StreamsKnown
<1> DEFINE one == [name |-> new, data |-> s.data]
<1>5. /\ Len(more) = len + k
      /\ \A n \in 1..(len + (k - 1)) : more[n] = old[n]
      /\ more[len + k] = one
  <2>1. one.name = new /\ one.data = s.data
    OBVIOUS
  <2> HIDE DEF one, old, len, more
  <2>2. Len(old) + 1 = len + k /\ len + (k - 1) \in Nat
    BY <1>1, <1>4
  <2>3. more = Append(old, one)
    BY <1>3 DEF one, more
  <2> QED
    BY <1>1, <1>4, <2>2, <2>3
<1>6. one.name = new /\ one.data = s.data
  OBVIOUS
<1> HIDE DEF one, more, old, len
<1>7. \A n \in 1..len : more[n] = t.streams[n]
  BY <1>1, <1>4, <1>5
<1>8. ASSUME NEW n \in 1..k PROVE Follows(t, in, how.prefix, renamed, more, n)
  <2>1. CASE n = k
    <3>1. Became(more, len + (k - 1), how.prefix, in.bins, renamed, s.name, new)
      <4>1. Became(old, len + (k - 1), how.prefix, in.bins, renamed, s.name, new)
        BY <1>3, <1>4
      <4> HIDE DEF s
      <4> QED
        BY <1>5, <4>1, BecameStays
    <3> QED
      BY <1>5, <1>6, <2>1, <3>1 DEF Follows, len
  <2>2. CASE n # k
    <3>1. n \in 1..(k - 1) /\ len + n \in 1..(len + (k - 1)) /\ len + (n - 1) <= len + (k - 1)
          /\ len + (n - 1) \in Nat
      BY <1>1, <2>2
    <3>2. Follows(t, in, how.prefix, renamed, old, n)
      BY <1>4, <3>1
    <3>3. more[len + n] = old[len + n] /\ \A i \in 1..(len + (n - 1)) : more[i] = old[i]
      <4>1. \A i \in 1..(len + (n - 1)) : i \in 1..(len + (k - 1))
        BY <1>1, <3>1
      <4> QED
        BY <1>5, <3>1, <4>1
    <3> DEFINE a == in.streams[n].name
               c == old[len + n].name
    <3>4. old[len + n].data = in.streams[n].data
          /\ Became(old, len + (n - 1), how.prefix, in.bins, renamed, a, c)
      BY <3>2 DEF Follows, len
    <3> HIDE DEF a, c
    <3>5. Became(more, len + (n - 1), how.prefix, in.bins, renamed, a, c)
      BY <3>3, <3>4, BecameStays
    <3> QED
      BY <3>3, <3>4, <3>5 DEF Follows, len, a, c
  <2> QED
    BY <2>1, <2>2
<1>9. next.names = {<<in.streams[n].name, more[len + n].name>> : n \in 1..k}
  <2>1. \A n \in 1..(k - 1) : more[len + n] = old[len + n]
    <3>1. \A n \in 1..(k - 1) : len + n \in 1..(len + (k - 1))
      BY <1>1
    <3> QED
      BY <1>5, <3>1
  <2>2. \A n \in 1..(k - 1) : in.streams[n].name # s.name
    <3>1. \A n \in 1..(k - 1) : n \in DOMAIN in.streams /\ k \in DOMAIN in.streams /\ n # k
      BY <1>1
    <3> QED
      BY <3>1 DEF NamesDiffer
  <2>3. {p \in acc.names : p[1] # s.name} = acc.names
    BY <1>4, <2>2
  <2>4. acc.names = {<<in.streams[n].name, more[len + n].name>> : n \in 1..(k - 1)}
    BY <1>4, <2>1
  <2>5. <<s.name, new>> = <<in.streams[k].name, more[len + k].name>>
    BY <1>5, <1>6
  <2>6. 1..k = 1..(k - 1) \cup {k}
    BY <1>1
  <2> DEFINE pair(n) == <<in.streams[n].name, more[len + n].name>>
  <2>7. next.names = {pair(n) : n \in 1..(k - 1)} \cup {pair(k)}
    BY <1>3, <2>3, <2>4, <2>5
  <2>8. {pair(n) : n \in 1..k} = {pair(n) : n \in 1..(k - 1)} \cup {pair(k)}
    <3> HIDE DEF pair
    <3> QED
      BY <2>6
  <2> QED
    BY <2>7, <2>8
<1> QED
  BY <1>5, <1>7, <1>8, <1>9 DEF StreamsKnown, next, more, len

\* The graft of the streams: the target's as they were, and then the input's
\* with their bytes and their new names, which are also told.
LEMMA StreamsGrafted ==
  ASSUME NEW t, NEW how, NEW in, NEW renamed, StreamsGiven(t, how, in, renamed), NamesDiffer(in)
  PROVE  /\ GraftStreams(t, how, in, renamed) \in StreamAccs
         /\ StreamsKnown(t, in, how.prefix, renamed, Len(in.streams),
                         GraftStreams(t, how, in, renamed))
<1> DEFINE s == in.streams
<1>1. PICK g : StreamRounds(g, t, how, in, renamed)
               /\ GraftStreams(t, how, in, renamed) = g[Len(s)]
  BY StreamsByRound
<1>2. s \in Seq(Stream) /\ Len(s) \in Nat /\ t.streams \in Seq(Stream) /\ Len(t.streams) \in Nat
  BY DEF StreamsGiven
<1>3. StreamsKnown(t, in, how.prefix, renamed, 0, g[0])
  <2>1. g[0] = NoStreams(t)
    BY <1>1 DEF StreamRounds
  <2>2. NoStreams(t).streams = t.streams /\ NoStreams(t).names = {}
    BY DEF NoStreams
  <2>3. 1..0 = {} /\ Len(t.streams) + 0 = Len(t.streams)
    BY <1>2
  <2> QED
    BY <2>1, <2>2, <2>3 DEF StreamsKnown
<1> DEFINE N == {k \in Nat : k <= Len(s) => StreamsKnown(t, in, how.prefix, renamed, k, g[k])}
<1>4. 0 \in N
  BY <1>3
<1>5. ASSUME NEW k \in Nat, k \in N PROVE k + 1 \in N
  <2> SUFFICES ASSUME k + 1 <= Len(s)
               PROVE  StreamsKnown(t, in, how.prefix, renamed, k + 1, g[k + 1])
    OBVIOUS
  <2> DEFINE m == k + 1
  <2>1. m \in 1..Len(s) /\ m - 1 = k /\ k <= Len(s) /\ k \in 0..Len(s)
    BY <1>2
  <2>2. StreamsKnown(t, in, how.prefix, renamed, k, g[k])
    BY <1>5, <2>1
  <2> HIDE DEF m
  <2>3. g[m] = StreamStep(how, in, renamed, g[k], s[m]) /\ g[k] \in StreamAccs
    BY <1>1, <2>1 DEF StreamRounds
  <2>4. StreamsKnown(t, in, how.prefix, renamed, m - 1, g[k])
    BY <2>1, <2>2
  <2>5. StreamsKnown(t, in, how.prefix, renamed, m,
                     StreamStep(how, in, renamed, g[k], in.streams[m]))
    BY <2>1, <2>3, <2>4, StreamRound
  <2> QED
    BY <2>3, <2>5 DEF m
<1>6. Nat \subseteq N
  <2> HIDE DEF N
  <2> QED
    BY <1>4, <1>5, AllNumbers
<1>7. StreamsKnown(t, in, how.prefix, renamed, Len(s), g[Len(s)])
  BY <1>2, <1>6
<1>8. g[Len(s)] \in StreamAccs
  <2>1. Len(s) \in 0..Len(s)
    BY <1>2
  <2> QED
    BY <1>1, <2>1 DEF StreamRounds
<1> QED
  BY <1>1, <1>7, <1>8

(***************************************************************************)
(* Finding a stream                                                        *)
(***************************************************************************)

\* The first stream with one of these names is the i-th.
FirstAt(streams, names, i) ==
  /\ i \in 1..Len(streams) /\ streams[i].name \in names
  /\ \A j \in 1..(i - 1) : streams[j].name \notin names

\* First finds the first stream with one of the names, if there is one.
LEMMA FirstIs ==
  ASSUME NEW streams, Len(streams) \in Nat, NEW names
  PROVE  /\ \A i : FirstAt(streams, names, i) => First(streams, names) = {streams[i].data}
         /\ \/ First(streams, names) = {} /\ \A i \in 1..Len(streams) : streams[i].name \notin names
            \/ \E i \in 1..Len(streams) : FirstAt(streams, names, i)
<1> DEFINE I == {i \in 1..Len(streams) : streams[i].name \in names}
           n == IF I # {} THEN Min(I) ELSE 0
<1>1. First(streams, names) = {streams[i].data : i \in {n} \ {0}}
  BY DEF First, SelectInSeq
<1>2. CASE I = {}
  <2>1. First(streams, names) = {}
    BY <1>1, <1>2
  <2> QED
    BY <1>2, <2>1 DEF FirstAt
<1>3. CASE I # {}
  <2>1. I \subseteq Nat
    OBVIOUS
  <2>2. Min(I) \in I /\ \A m \in I : Min(I) <= m
    <3> HIDE DEF I
    <3> QED
      BY <1>3, <2>1, LeastIs
  <2>3. n = Min(I) /\ n # 0
    BY <1>3, <2>2
  <2>4. First(streams, names) = {streams[n].data}
    <3> HIDE DEF n
    <3> QED
      BY <1>1, <2>3
  <2>5. n \in I /\ n \in Nat /\ \A m \in I : n <= m
    BY <2>1, <2>2, <2>3
  <2>6. FirstAt(streams, names, n)
    <3>1. \A j \in 1..(n - 1) : j \in 1..Len(streams) /\ ~(n <= j)
      BY <2>5
    <3> HIDE DEF n
    <3> QED
      BY <2>5, <3>1 DEF FirstAt
  <2>7. ASSUME NEW i, FirstAt(streams, names, i) PROVE i = n
    <3>1. i \in I /\ i \in Nat /\ n <= i
      BY <2>5, <2>7 DEF FirstAt
    <3>2. ~(n \in 1..(i - 1))
      BY <2>5, <2>7 DEF FirstAt
    <3> HIDE DEF n, I
    <3>3. n # 0 /\ n \in Nat
      BY <2>3, <2>5
    <3> QED
      BY <3>1, <3>2, <3>3
  <2>8. n \in 1..Len(streams)
    BY <2>5
  <2> HIDE DEF n
  <2> QED
    BY <2>4, <2>6, <2>7, <2>8
<1> QED
  BY <1>2, <1>3

\* What was found is still found first when streams are appended.
LEMMA FirstStays ==
  ASSUME NEW streams, Len(streams) \in Nat, NEW more, Len(more) \in Nat, Len(streams) <= Len(more),
         \A i \in 1..Len(streams) : more[i] = streams[i],
         NEW N, NEW M,
         \A i \in 1..Len(streams) : streams[i].name \in N <=> streams[i].name \in M,
         First(streams, N) # {}
  PROVE  First(more, M) = First(streams, N)
<1>1. PICK i \in 1..Len(streams) : FirstAt(streams, N, i)
  BY FirstIs
<1>2. First(streams, N) = {streams[i].data}
  BY <1>1, FirstIs
<1>3. FirstAt(more, M, i)
  <2>1. i \in 1..Len(more) /\ \A j \in 1..(i - 1) : j \in 1..Len(streams)
    OBVIOUS
  <2> QED
    BY <1>1, <2>1 DEF FirstAt
<1>4. First(more, M) = {more[i].data}
  BY <1>3, FirstIs
<1> QED
  BY <1>2, <1>4

\* What an input's name finds among its streams, its new name finds among the
\* target's when no other input's has it.
LEMMA FirstMoved ==
  ASSUME NEW own, Len(own) \in Nat, NEW len \in Nat, NEW more, Len(more) = len + Len(own),
         \A n \in 1..Len(own) : more[len + n].data = own[n].data,
         NEW N, NEW M,
         \A n \in 1..Len(own) : own[n].name \in N <=> more[len + n].name \in M,
         \A i \in 1..len : more[i].name \notin M
  PROVE  First(more, M) = First(own, N)
<1>0. Len(more) \in Nat
  OBVIOUS
<1>a. \A i \in 1..Len(more) : i \in 1..len \/ \E n \in 1..Len(own) : i = len + n
  <2>1. ASSUME NEW i \in 1..Len(more), ~(i \in 1..len)
        PROVE  i - len \in 1..Len(own) /\ i = len + (i - len)
    BY <2>1
  <2> QED
    BY <2>1
<1>1. CASE First(own, N) = {}
  <2>1. \A n \in 1..Len(own) : own[n].name \notin N
    <3>1. \A i : FirstAt(own, N, i) => First(own, N) = {own[i].data}
      BY FirstIs
    <3>2. \A i : ~FirstAt(own, N, i)
      BY <1>1, <3>1
    <3> QED
      BY <3>2, FirstIs
  <2>2. \A i \in 1..Len(more) : more[i].name \notin M
    BY <1>a, <2>1
  <2>3. First(more, M) = {}
    <3>1. \A i \in 1..Len(more) : ~FirstAt(more, M, i)
      BY <2>2 DEF FirstAt
    <3> QED
      BY <1>0, <3>1, FirstIs
  <2> QED
    BY <1>1, <2>3
<1>2. CASE First(own, N) # {}
  <2>1. PICK n \in 1..Len(own) : FirstAt(own, N, n)
    BY <1>2, FirstIs
  <2>2. First(own, N) = {own[n].data}
    BY <2>1, FirstIs
  <2> DEFINE i == len + n
  <2>3. i \in 1..Len(more) /\ more[i].name \in M
    BY <2>1 DEF FirstAt
  <2>4. ASSUME NEW j \in 1..(i - 1) PROVE more[j].name \notin M
    <3>1. CASE j \in 1..len
      BY <3>1
    <3>2. CASE ~(j \in 1..len)
      <4>1. j - len \in 1..(n - 1) /\ j - len \in 1..Len(own) /\ len + (j - len) = j
        BY <3>2
      <4>2. own[j - len].name \notin N
        BY <2>1, <4>1 DEF FirstAt
      <4>3. more[len + (j - len)].name \notin M
        BY <4>1, <4>2
      <4> QED
        BY <4>1, <4>3
    <3> QED
      BY <3>1, <3>2
  <2> HIDE DEF i
  <2>5. FirstAt(more, M, i)
    BY <2>3, <2>4 DEF FirstAt
  <2>6. First(more, M) = {more[i].data}
    BY <1>0, <2>5, FirstIs
  <2>7. more[i].data = own[n].data
    BY DEF i
  <2> QED
    BY <2>2, <2>6, <2>7
<1> QED
  BY <1>1, <1>2

(***************************************************************************)
(* Names after a graft                                                     *)
(***************************************************************************)

\* The parts of a name's last part and of that part's stem.
LEMMA TrailingIs ==
  ASSUME NEW x \in AnyName
  PROVE  /\ Trailing(x) \in AnyName /\ Trailing(x).dir = FALSE
         /\ Trailing(x).stem = x.stem /\ Trailing(x).ext = x.ext
         /\ x.dir => Trailing(x).pre = <<>>
         /\ ~x.dir => Trailing(x) = x
         /\ Stem(x) \in AnyName /\ Stem(x).dir = FALSE
         /\ Stem(x).stem = x.stem /\ Stem(x).ext = FALSE
         /\ x.dir => Stem(x).pre = <<>>
         /\ ~x.dir => Stem(x).pre = x.pre
<1>1. /\ Trailing(x) \in AnyName /\ Trailing(x).dir = FALSE
      /\ Trailing(x).stem = x.stem /\ Trailing(x).ext = x.ext
      /\ x.dir => Trailing(x).pre = <<>>
      /\ ~x.dir => Trailing(x) = x
  <2>1. CASE x.dir
    <3> DEFINE z == <<>>
    <3>1. z \in {<<>>} \cup Text \X Nat
      OBVIOUS
    <3>2. Trailing(x) = [x EXCEPT !.pre = z, !.dir = FALSE]
      BY <2>1 DEF Trailing
    <3> HIDE DEF z
    <3>3. /\ [x EXCEPT !.pre = z, !.dir = FALSE].pre = z
          /\ [x EXCEPT !.pre = z, !.dir = FALSE].dir = FALSE
          /\ [x EXCEPT !.pre = z, !.dir = FALSE].stem = x.stem
          /\ [x EXCEPT !.pre = z, !.dir = FALSE].ext = x.ext
          /\ [x EXCEPT !.pre = z, !.dir = FALSE] \in AnyName
      BY <3>1 DEF AnyName
    <3> QED
      BY <2>1, <3>2, <3>3 DEF z
  <2>2. CASE ~x.dir
    <3>1. Trailing(x) = x /\ x.dir \in BOOLEAN
      BY <2>2 DEF Trailing, AnyName
    <3> QED
      BY <2>2, <3>1
  <2> QED
    BY <2>1, <2>2
<1>2. /\ Stem(x) \in AnyName /\ Stem(x).dir = FALSE /\ Stem(x).pre = Trailing(x).pre
      /\ Stem(x).stem = x.stem /\ Stem(x).ext = FALSE
  <2> DEFINE y == Trailing(x)
  <2>1. Stem(x) = [y EXCEPT !.ext = FALSE]
    BY DEF Stem
  <2>2. y \in AnyName /\ y.dir = FALSE /\ y.stem = x.stem
    BY <1>1
  <2> HIDE DEF y
  <2>3. /\ [y EXCEPT !.ext = FALSE] \in AnyName /\ [y EXCEPT !.ext = FALSE].dir = y.dir
        /\ [y EXCEPT !.ext = FALSE].pre = y.pre /\ [y EXCEPT !.ext = FALSE].stem = y.stem
        /\ [y EXCEPT !.ext = FALSE].ext = FALSE
    BY <2>2 DEF AnyName
  <2> QED
    BY <2>1, <2>2, <2>3 DEF y
<1>3. ~x.dir => Stem(x).pre = x.pre
  BY <1>1, <1>2
<1>4. x.dir => Stem(x).pre = <<>>
  BY <1>1, <1>2
<1> QED
  BY <1>1, <1>2, <1>3, <1>4

\* Names with the same parts are the same.
LEMMA SameName ==
  ASSUME NEW x \in AnyName, NEW y \in AnyName,
         x.pre = y.pre, x.dir = y.dir, x.stem = y.stem, x.ext = y.ext
  PROVE  x = y
BY DEF AnyName

\* A name as readers make them, in a document with this table.
NameMade(s, old) ==
  /\ ~old.dir => old.pre = <<>>
  /\ old.stem[1] = "BIN" =>
       IF Stored(s) = {} THEN old.dir ELSE \E id \in Stored(s) : old = Canonical(id)

\* The name of no payload.
Plain(s, old) ==
  /\ ~old.dir => old.pre = <<>>
  /\ old.stem[1] = "BIN" => old.dir /\ Stored(s) = {}

\* A payload has gone from its entry's id to the new one.
Payload(s, renamed, old, new) ==
  \E id \in Stored(s) : old = Canonical(id) /\ new = Canonical(NewId(renamed, id))

\* What became of a name, by its kind.
Turned(s, renamed, prefix, old, new) ==
  \/ Payload(s, renamed, old, new)
  \/ Plain(s, old) /\ new = old
  \/ Plain(s, old) /\ \E n \in Nat : new = With(old, prefix, n)

\* A payload is called by its entry's id only.
LEMMA PayloadOf ==
  ASSUME NEW s \in Seq(Nat), NEW old \in AnyName, NameMade(s, old)
  PROVE  /\ \A id \in Stored(s) : Trailing(old) = Canonical(id) => old = Canonical(id)
         /\ (\A id \in Stored(s) : Trailing(old) # Canonical(id)) => Plain(s, old)
<1>0. Stored(s) \subseteq Nat
  BY StoredType
<1>1. ASSUME NEW id \in Stored(s), Trailing(old) = Canonical(id) PROVE old = Canonical(id)
  <2>1. id \in Nat
    BY <1>0
  <2>2. old.stem = <<"BIN", id>>
    <3>1. Trailing(old).stem = old.stem
      BY TrailingIs
    <3>2. Canonical(id).stem = <<"BIN", id>>
      BY <2>1, CanonicalIs
    <3> QED
      BY <1>1, <3>1, <3>2
  <2>3. old.stem[1] = "BIN"
    BY <2>2
  <2>4. PICK n \in Stored(s) : old = Canonical(n)
    BY <2>3 DEF NameMade
  <2>5. Trailing(old) = old
    BY <1>0, <2>4, CanonicalIs
  <2> QED
    BY <1>1, <2>5
<1>2. ASSUME \A id \in Stored(s) : Trailing(old) # Canonical(id) PROVE Plain(s, old)
  <2>1. ASSUME NEW n \in Stored(s), old = Canonical(n) PROVE FALSE
    <3>1. Trailing(old) = Canonical(n)
      BY <1>0, <2>1, CanonicalIs
    <3> QED
      BY <1>2, <3>1
  <2> QED
    BY <2>1 DEF NameMade, Plain
<1> QED
  BY <1>1, <1>2

\* What a name that readers make has become, by its kind, and who had it.
LEMMA BecameTurned ==
  ASSUME NEW streams, NEW m, NEW prefix \in Text, NEW s \in Seq(Nat), NEW renamed,
         NEW old \in AnyName, NameMade(s, old), NEW new,
         Became(streams, m, prefix, s, renamed, old, new)
  PROVE  /\ Turned(s, renamed, prefix, old, new)
         /\ Payload(s, renamed, old, new) \/ (Plain(s, old) /\ Untaken(streams, m, new))
         /\ ~Payload(s, renamed, old, new) /\ new # old => ~Untaken(streams, m, old)
<1>1. CASE \E id \in Stored(s) :
             Trailing(old) = Canonical(id) /\ new = Canonical(NewId(renamed, id))
  <2>1. Payload(s, renamed, old, new)
    BY <1>1, PayloadOf DEF Payload
  <2> QED
    BY <2>1 DEF Turned
<1>2. CASE ~\E id \in Stored(s) :
             Trailing(old) = Canonical(id) /\ new = Canonical(NewId(renamed, id))
  <2>1. /\ \A id \in Stored(s) : Trailing(old) # Canonical(id)
        /\ Untaken(streams, m, new)
        /\ \/ Untaken(streams, m, old) /\ new = old
           \/ ~Untaken(streams, m, old) /\ \E n \in Nat : new = With(old, prefix, n)
    BY <1>2 DEF Became
  <2>2. Plain(s, old)
    BY <2>1, PayloadOf
  <2> QED
    BY <2>1, <2>2 DEF Turned
<1> QED
  BY <1>1, <1>2

\* The kinds, part by part.
LEMMA PayloadIs ==
  ASSUME NEW s \in Seq(Nat), NEW renamed \in Renamings, NEW old, NEW new,
         Payload(s, renamed, old, new)
  PROVE  /\ new \in AnyName /\ new.pre = <<>> /\ ~new.dir /\ new.stem[1] = "BIN" /\ new.ext = TRUE
         /\ ~old.dir /\ old.stem[1] = "BIN" /\ old.pre = <<>>
         /\ Stored(s) # {} /\ Trailing(new) = new
<1>1. PICK id \in Stored(s) : old = Canonical(id) /\ new = Canonical(NewId(renamed, id))
  BY DEF Payload
<1>2. id \in Nat /\ NewId(renamed, id) \in Nat
  <2>1. id \in Nat
    BY StoredType
  <2> QED
    BY <2>1, NewIdType
<1>3. new.stem = <<"BIN", NewId(renamed, id)>> /\ old.stem = <<"BIN", id>>
  BY <1>1, <1>2, CanonicalIs
<1>4. new.stem[1] = "BIN" /\ old.stem[1] = "BIN"
  BY <1>3
<1>5. /\ new \in AnyName /\ new.pre = <<>> /\ new.dir = FALSE /\ new.ext = TRUE
      /\ Trailing(new) = new
      /\ old.dir = FALSE /\ old.pre = <<>>
  BY <1>1, <1>2, CanonicalIs
<1>6. Stored(s) # {}
  BY <1>1
<1> QED
  BY <1>4, <1>5, <1>6

LEMMA ChangedIs ==
  ASSUME NEW s, NEW prefix \in Text, NEW old \in AnyName, Plain(s, old), NEW n \in Nat,
         NEW new, new = With(old, prefix, n)
  PROVE  /\ new \in AnyName /\ new.pre # <<>> /\ new.dir = old.dir /\ new.stem = old.stem
         /\ new.ext = old.ext
         /\ old.dir => Trailing(new) = Trailing(old) /\ Stem(new) = Stem(old)
<1>1. /\ new \in AnyName /\ new.pre = <<prefix, n>> /\ new.dir = old.dir /\ new.stem = old.stem
      /\ new.ext = old.ext
  BY WithIs
<1>2. new.pre # <<>>
  BY <1>1
<1>3. ASSUME old.dir PROVE Trailing(new) = Trailing(old)
  <2>1. /\ Trailing(new) \in AnyName /\ Trailing(new).dir = FALSE /\ Trailing(new).pre = <<>>
        /\ Trailing(new).stem = new.stem /\ Trailing(new).ext = new.ext
    BY <1>1, <1>3, TrailingIs
  <2>2. /\ Trailing(old) \in AnyName /\ Trailing(old).dir = FALSE /\ Trailing(old).pre = <<>>
        /\ Trailing(old).stem = old.stem /\ Trailing(old).ext = old.ext
    BY <1>3, TrailingIs
  <2> QED
    BY <1>1, <2>1, <2>2, SameName
<1>4. ASSUME old.dir PROVE Stem(new) = Stem(old)
  BY <1>3, <1>4 DEF Stem
<1> QED
  BY <1>1, <1>2, <1>3, <1>4

\* An answer to another's new name is one to its old name.
LEMMA AnswersBack ==
  ASSUME NEW s \in Seq(Nat), NEW renamed \in Renamings, NEW prefix \in Text,
         NEW a \in AnyName, NEW x \in AnyName, NEW b \in AnyName, NEW y \in AnyName,
         Turned(s, renamed, prefix, a, x), Turned(s, renamed, prefix, b, y),
         Answers(x, y), x # y
  PROVE  Answers(a, b)
<1> DEFINE Kept(old, new) == Plain(s, old) /\ new = old
           Changed(old, new) == Plain(s, old) /\ \E n \in Nat : new = With(old, prefix, n)
<1>1. /\ Payload(s, renamed, a, x) \/ Kept(a, x) \/ Changed(a, x)
      /\ Payload(s, renamed, b, y) \/ Kept(b, y) \/ Changed(b, y)
  BY DEF Turned
<1>a. a.dir \in BOOLEAN /\ b.dir \in BOOLEAN /\ x.dir \in BOOLEAN
  BY DEF AnyName
<1>2. CASE x.dir /\ Trailing(x) = y
  <2>1. y.dir = FALSE /\ y.pre = <<>> /\ y.stem = x.stem
    BY <1>2, TrailingIs
  <2>2. ~Payload(s, renamed, a, x)
    BY <1>2, PayloadIs
  <2>3. Kept(a, x) \/ Changed(a, x)
    BY <1>1, <2>2
  <2>4. a.dir /\ Trailing(x) = Trailing(a) /\ a.stem = x.stem /\ Plain(s, a)
    BY <1>2, <2>3, ChangedIs
  <2>5. ~Changed(b, y)
    BY <2>1, ChangedIs
  <2>6. ~Payload(s, renamed, b, y)
    <3> SUFFICES ASSUME Payload(s, renamed, b, y) PROVE FALSE
      OBVIOUS
    <3>1. y.stem[1] = "BIN" /\ Stored(s) # {}
      BY PayloadIs
    <3>2. a.stem[1] = "BIN"
      BY <2>1, <2>4, <3>1
    <3> QED
      BY <2>4, <3>1, <3>2 DEF Plain
  <2>7. y = b
    BY <1>1, <2>5, <2>6
  <2> QED
    BY <1>2, <2>4, <2>7 DEF Answers
<1>3. CASE Stem(x) = y
  <2>1. y.dir = FALSE /\ y.ext = FALSE /\ y.stem = x.stem
    BY <1>3, TrailingIs
  <2>2. ~Payload(s, renamed, b, y)
    BY <2>1, PayloadIs
  <2>3. Plain(s, b) /\ b.dir = y.dir /\ b.stem = y.stem /\ b.ext = y.ext
    BY <1>1, <2>2, ChangedIs
  <2>4. b.pre = <<>>
    BY <2>1, <2>3 DEF Plain
  <2>5. y.pre = <<>> => y = b
    BY <1>1, <2>2, ChangedIs
  <2>6. ~Payload(s, renamed, a, x)
    <3> SUFFICES ASSUME Payload(s, renamed, a, x) PROVE FALSE
      OBVIOUS
    <3>1. x.stem[1] = "BIN" /\ Stored(s) # {}
      BY PayloadIs
    <3>2. b.stem[1] = "BIN"
      BY <2>1, <2>3, <3>1
    <3> QED
      BY <2>3, <3>1, <3>2 DEF Plain
  <2>7. Plain(s, a) /\ a.dir = x.dir /\ a.stem = x.stem /\ a.ext = x.ext
    BY <1>1, <2>6, ChangedIs
  <2>8. CASE x.dir
    <3>1. y.pre = <<>>
      BY <1>3, <2>8, TrailingIs
    <3>2. Stem(x) = Stem(a)
      BY <1>1, <2>6, <2>7, <2>8, ChangedIs
    <3> QED
      BY <1>3, <2>5, <3>1, <3>2 DEF Answers
  <2>9. CASE ~x.dir
    <3>1. a.pre = <<>> /\ ~a.dir
      BY <2>7, <2>9 DEF Plain
    <3>2. /\ Stem(a) \in AnyName /\ Stem(a).dir = FALSE /\ Stem(a).stem = a.stem
          /\ Stem(a).ext = FALSE /\ Stem(a).pre = a.pre
      BY <3>1, TrailingIs
    <3>3. Stem(a) = b
      <4>1. /\ Stem(a).pre = b.pre /\ Stem(a).dir = b.dir
            /\ Stem(a).stem = b.stem /\ Stem(a).ext = b.ext
        BY <2>1, <2>3, <2>4, <2>7, <3>1, <3>2
      <4> QED
        BY <3>2, <4>1, SameName
    <3> QED
      BY <3>3 DEF Answers
  <2> QED
    BY <2>8, <2>9
<1> QED
  BY <1>2, <1>3 DEF Answers

\* The binary data of an input as readers make it.
Own(in) ==
  /\ in.streams \in Seq(Stream) /\ in.bins \in Seq(Nat)
  /\ IdsDiffer(in.bins)
  /\ \A n \in 1..Len(in.streams) : NameMade(in.bins, in.streams[n].name)
  /\ \A m, n \in 1..Len(in.streams) : Answers(in.streams[m].name, in.streams[n].name) => m = n

\* The target's streams, and then the input's.
Moved(t, in, prefix, renamed, more) ==
  /\ t.streams \in Seq(Stream) /\ more \in Seq(Stream)
  /\ prefix \in Text /\ renamed \in Renamings
  /\ Len(more) = Len(t.streams) + Len(in.streams)
  /\ \A i \in 1..Len(t.streams) : more[i] = t.streams[i]
  /\ \A n \in 1..Len(in.streams) : Follows(t, in, prefix, renamed, more, n)

\* The new ids are none's twice, and no stream of the target has one.
IdsMoved(t, in, renamed) ==
  /\ \A id \in Stored(in.bins) : NewId(renamed, id) # 0 /\ ~NameTaken(t, NewId(renamed, id))
  /\ \A m, n \in Stored(in.bins) : NewId(renamed, m) = NewId(renamed, n) => m = n

\* The new name of the input's n-th stream.
NewNameOf(t, more, n) == more[Len(t.streams) + n].name

\* What became of the name of the input's n-th stream; its bytes are the same.
LEMMA OwnTurned ==
  ASSUME NEW t, NEW in, NEW prefix, NEW renamed, NEW more,
         Own(in), Moved(t, in, prefix, renamed, more), NEW n \in 1..Len(in.streams)
  PROVE  LET old == in.streams[n].name
             new == NewNameOf(t, more, n)
             m   == Len(t.streams) + (n - 1)
         IN /\ old \in AnyName /\ new \in AnyName
            /\ Turned(in.bins, renamed, prefix, old, new)
            /\ Payload(in.bins, renamed, old, new) \/ (Plain(in.bins, old) /\ Untaken(more, m, new))
            /\ ~Payload(in.bins, renamed, old, new) /\ new # old => ~Untaken(more, m, old)
            /\ more[Len(t.streams) + n].data = in.streams[n].data
            /\ Len(t.streams) \in Nat /\ Len(in.streams) \in Nat
<1> DEFINE old == in.streams[n].name
           new == NewNameOf(t, more, n)
           m   == Len(t.streams) + (n - 1)
<1>1. /\ in.streams \in Seq(Stream) /\ t.streams \in Seq(Stream) /\ more \in Seq(Stream)
      /\ Len(more) = Len(t.streams) + Len(in.streams)
      /\ in.bins \in Seq(Nat) /\ prefix \in Text
  BY DEF Own, Moved
<1>2. Len(t.streams) \in Nat /\ Len(in.streams) \in Nat /\ n \in Nat
  BY <1>1
<1>3. in.streams[n] \in Stream /\ more[Len(t.streams) + n] \in Stream
  <2> DEFINE len == Len(t.streams)
             own == in.streams
             j   == len + n
  <2>1. len \in Nat /\ own \in Seq(Stream) /\ Len(more) = len + Len(own) /\ n \in 1..Len(own)
    BY <1>1, <1>2
  <2> HIDE DEF len, own
  <2>2. j \in 1..Len(more)
    BY <2>1
  <2>3. own[n] \in Stream
    BY <2>1
  <2> HIDE DEF j
  <2>5. more \in Seq(Stream)
    BY <1>1
  <2>4. more[j] \in Stream
    BY <2>2, <2>5
  <2> QED
    BY <2>3, <2>4 DEF len, own, j
<1>4. old \in AnyName /\ new \in AnyName
  BY <1>3 DEF Stream, NewNameOf
<1>5. Follows(t, in, prefix, renamed, more, n) /\ NameMade(in.bins, old)
  BY DEF Own, Moved
<1>6. /\ more[Len(t.streams) + n].data = in.streams[n].data
      /\ Became(more, m, prefix, in.bins, renamed, old, new)
  BY <1>5 DEF Follows, NewNameOf
<1> HIDE DEF old, new, m
<1>7. /\ Turned(in.bins, renamed, prefix, old, new)
      /\ Payload(in.bins, renamed, old, new) \/ (Plain(in.bins, old) /\ Untaken(more, m, new))
      /\ ~Payload(in.bins, renamed, old, new) /\ new # old => ~Untaken(more, m, old)
  BY <1>1, <1>4, <1>5, <1>6, BecameTurned
<1> QED
  BY <1>2, <1>4, <1>6, <1>7 DEF old, new, m

\* No stream of the target has the new name of an input's.
LEMMA NewNotTaken ==
  ASSUME NEW t, NEW in, NEW prefix, NEW renamed, NEW more,
         Own(in), Moved(t, in, prefix, renamed, more), IdsMoved(t, in, renamed),
         NEW n \in 1..Len(in.streams), NEW i \in 1..Len(t.streams)
  PROVE  more[i].name # NewNameOf(t, more, n)
<1> DEFINE old == in.streams[n].name
           new == NewNameOf(t, more, n)
<1>1. more[i] = t.streams[i] /\ t.streams \in Seq(Stream)
  BY DEF Moved
<1>0. in.bins \in Seq(Nat) /\ renamed \in Renamings
  BY DEF Own, Moved
<1>2. /\ Payload(in.bins, renamed, old, new)
         \/ Untaken(more, Len(t.streams) + (n - 1), new)
      /\ Len(t.streams) \in Nat
  BY OwnTurned
<1> HIDE DEF old, new
<1>3. CASE Payload(in.bins, renamed, old, new)
  <2>1. PICK id \in Stored(in.bins) : new = Canonical(NewId(renamed, id))
    BY <1>3 DEF Payload
  <2>2. ~NameTaken(t, NewId(renamed, id))
    BY DEF IdsMoved
  <2>3. i \in DOMAIN t.streams
    BY <1>1
  <2>4. Trailing(t.streams[i].name) # new
    BY <2>1, <2>2, <2>3 DEF NameTaken
  <2>5. Trailing(new) = new
    <3> DEFINE s == in.bins
    <3>1. s \in Seq(Nat) /\ renamed \in Renamings /\ Payload(s, renamed, old, new)
      BY <1>0, <1>3
    <3> HIDE DEF s
    <3> QED
      BY <3>1, PayloadIs
  <2> QED
    BY <1>1, <2>4, <2>5 DEF new
<1>4. CASE Untaken(more, Len(t.streams) + (n - 1), new)
  <2>1. i \in 1..(Len(t.streams) + (n - 1))
    BY <1>2
  <2> QED
    BY <1>4, <2>1 DEF Untaken, new
<1> QED
  BY <1>2, <1>3, <1>4

\* A payload's name says which id it goes by.
LEMMA CanonicalSame ==
  ASSUME NEW i \in Nat, NEW j \in Nat, Canonical(i) = Canonical(j)
  PROVE  i = j
<1>1. Canonical(i).stem = <<"BIN", i>>
  BY CanonicalIs
<1>2. Canonical(j).stem = <<"BIN", j>>
  BY CanonicalIs
<1>3. <<"BIN", i>> = <<"BIN", j>>
  BY <1>1, <1>2
<1> QED
  BY <1>3

\* A stream that is no payload does not come by a payload's name.
LEMMA PlainIsOther ==
  ASSUME NEW s \in Seq(Nat), NEW renamed \in Renamings, NEW prefix \in Text,
         NEW c \in AnyName, NEW z \in AnyName, Turned(s, renamed, prefix, c, z),
         Plain(s, c), z.stem[1] = "BIN", ~z.dir, z.pre = <<>>, Stored(s) # {}
  PROVE  FALSE
<1>1. CASE z = c
  BY <1>1 DEF Plain
<1>2. CASE \E k \in Nat : z = With(c, prefix, k)
  BY <1>2, ChangedIs
<1>3. CASE Payload(s, renamed, c, z)
  <2>1. c.stem[1] = "BIN" /\ ~c.dir
    BY <1>3, PayloadIs
  <2> QED
    BY <2>1 DEF Plain
<1> QED
  BY <1>1, <1>2, <1>3 DEF Turned

\* The new names of two streams of an input differ.
LEMMA NewNamesDiffer ==
  ASSUME NEW t, NEW in, NEW prefix, NEW renamed, NEW more,
         Own(in), Moved(t, in, prefix, renamed, more), IdsMoved(t, in, renamed),
         NEW m \in 1..Len(in.streams), NEW n \in 1..Len(in.streams),
         NewNameOf(t, more, m) = NewNameOf(t, more, n)
  PROVE  m = n
<1> DEFINE s == in.bins
           len == Len(t.streams)
           a == in.streams[m].name
           b == in.streams[n].name
           x == NewNameOf(t, more, m)
           y == NewNameOf(t, more, n)
<1>0. s \in Seq(Nat) /\ renamed \in Renamings /\ prefix \in Text
  BY DEF Own, Moved
<1>1. /\ a \in AnyName /\ x \in AnyName /\ len \in Nat
      /\ Turned(s, renamed, prefix, a, x)
      /\ Payload(s, renamed, a, x) \/ (Plain(s, a) /\ Untaken(more, len + (m - 1), x))
  BY OwnTurned
<1>2. /\ b \in AnyName /\ y \in AnyName
      /\ Turned(s, renamed, prefix, b, y)
      /\ Payload(s, renamed, b, y) \/ (Plain(s, b) /\ Untaken(more, len + (n - 1), y))
  BY OwnTurned
<1>3. x = y /\ x = more[len + m].name /\ y = more[len + n].name
  BY DEF NewNameOf
<1>4. Answers(a, b) => m = n
  BY DEF Own
<1> HIDE DEF s, len, a, b, x, y
<1>6. CASE Payload(s, renamed, a, x) /\ Payload(s, renamed, b, y)
  <2>1. PICK i \in Stored(s) : a = Canonical(i) /\ x = Canonical(NewId(renamed, i))
    BY <1>6 DEF Payload
  <2>2. PICK j \in Stored(s) : b = Canonical(j) /\ y = Canonical(NewId(renamed, j))
    BY <1>6 DEF Payload
  <2>3. NewId(renamed, i) \in Nat /\ NewId(renamed, j) \in Nat
    <3>1. i \in Nat /\ j \in Nat
      BY <1>0, StoredType
    <3> QED
      BY <1>0, <3>1, NewIdType
  <2>5. NewId(renamed, i) = NewId(renamed, j)
    BY <1>3, <2>1, <2>2, <2>3, CanonicalSame
  <2>6. i = j
    BY <2>5 DEF IdsMoved, s
  <2>7. a = b
    BY <2>1, <2>2, <2>6
  <2> QED
    BY <1>4, <2>7 DEF Answers
<1>7. CASE Payload(s, renamed, a, x) /\ ~Payload(s, renamed, b, y)
  <2>1. x.stem[1] = "BIN" /\ ~x.dir /\ x.pre = <<>> /\ Stored(s) # {}
    BY <1>0, <1>7, PayloadIs
  <2>2. Plain(s, b)
    BY <1>2, <1>7
  <2> QED
    BY <1>0, <1>2, <1>3, <2>1, <2>2, PlainIsOther
<1>8. CASE ~Payload(s, renamed, a, x) /\ Payload(s, renamed, b, y)
  <2>1. y.stem[1] = "BIN" /\ ~y.dir /\ y.pre = <<>> /\ Stored(s) # {}
    BY <1>0, <1>8, PayloadIs
  <2>2. Plain(s, a)
    BY <1>1, <1>8
  <2> QED
    BY <1>0, <1>1, <1>3, <2>1, <2>2, PlainIsOther
<1>9. CASE ~Payload(s, renamed, a, x) /\ ~Payload(s, renamed, b, y)
  <2>1. Untaken(more, len + (m - 1), x) /\ Untaken(more, len + (n - 1), y)
    BY <1>1, <1>2, <1>9
  <2>2. ~(m < n)
    <3>1. m < n => len + m \in 1..(len + (n - 1))
      BY <1>1
    <3> QED
      BY <1>3, <2>1, <3>1 DEF Untaken
  <2>3. ~(n < m)
    <3>1. n < m => len + n \in 1..(len + (m - 1))
      BY <1>1
    <3> QED
      BY <1>3, <2>1, <3>1 DEF Untaken
  <2> QED
    BY <2>2, <2>3
<1> QED
  BY <1>6, <1>7, <1>8, <1>9

\* Which stream of an input answers to another's name stays the same.
LEMMA AnswersOnly ==
  ASSUME NEW t, NEW in, NEW prefix, NEW renamed, NEW more,
         Own(in), Moved(t, in, prefix, renamed, more), IdsMoved(t, in, renamed),
         NEW m \in 1..Len(in.streams), NEW n \in 1..Len(in.streams)
  PROVE  Answers(in.streams[m].name, in.streams[n].name)
           <=> Answers(NewNameOf(t, more, m), NewNameOf(t, more, n))
<1> DEFINE a == in.streams[m].name
           b == in.streams[n].name
           x == NewNameOf(t, more, m)
           y == NewNameOf(t, more, n)
<1>0. in.bins \in Seq(Nat) /\ renamed \in Renamings /\ prefix \in Text
  BY DEF Own, Moved
<1>1. a \in AnyName /\ x \in AnyName /\ Turned(in.bins, renamed, prefix, a, x)
  BY OwnTurned
<1>2. b \in AnyName /\ y \in AnyName /\ Turned(in.bins, renamed, prefix, b, y)
  BY OwnTurned
<1>3. Answers(a, b) => m = n
  BY DEF Own
<1>4. x = y => m = n
  BY NewNamesDiffer
<1>5. m = n => Answers(a, b) /\ Answers(x, y)
  BY DEF Answers
<1> HIDE DEF a, b, x, y
<1>6. Answers(x, y) /\ x # y => Answers(a, b)
  BY <1>0, <1>1, <1>2, AnswersBack
<1> QED
  BY <1>3, <1>4, <1>5, <1>6 DEF a, b, x, y

\* The names of streams that answer to a package item.
ItemNames(streams, item) == {n \in {s.name : s \in ToSet(streams)} : Answers(n, item)}

LEMMA ItemNamesAre ==
  ASSUME NEW streams \in Seq(Stream), NEW item
  PROVE  /\ \A i \in 1..Len(streams) :
              streams[i].name \in ItemNames(streams, item) <=> Answers(streams[i].name, item)
         /\ Len(streams) \in Nat
<1>1. DOMAIN streams = 1..Len(streams) /\ Len(streams) \in Nat
  OBVIOUS
<1>2. ASSUME NEW i \in 1..Len(streams) PROVE streams[i].name \in {s.name : s \in ToSet(streams)}
  <2>1. streams[i] \in ToSet(streams)
    BY <1>1 DEF ToSet
  <2> QED
    BY <2>1
<1> QED
  BY <1>1, <1>2 DEF ItemNames

\* No stream of the target has a package item's name; as its last part or stem,
\* if it is a stream's whole name.
Unclaimed(t, item, whole) ==
  \A i \in 1..Len(t.streams) :
    Answers(t.streams[i].name, item) => whole /\ t.streams[i].name = item

\* The places of the target's streams and of the input's.
LEMMA MovedParts ==
  ASSUME NEW t, NEW in, NEW prefix, NEW renamed, NEW more,
         Own(in), Moved(t, in, prefix, renamed, more)
  PROVE  LET own == in.streams
             len == Len(t.streams)
         IN /\ own \in Seq(Stream) /\ more \in Seq(Stream) /\ t.streams \in Seq(Stream)
            /\ len \in Nat /\ Len(own) \in Nat /\ Len(more) = len + Len(own)
            /\ \A i \in 1..len :
                 i \in 1..Len(more) /\ i \in DOMAIN t.streams /\ more[i] = t.streams[i]
            /\ \A m \in 1..Len(own) : len + m \in 1..Len(more)
<1> DEFINE own == in.streams
           old == t.streams
           len == Len(old)
           all == Len(more)
<1>1. own \in Seq(Stream) /\ more \in Seq(Stream) /\ old \in Seq(Stream)
  BY DEF Own, Moved
<1>2. all = len + Len(own) /\ \A i \in 1..len : more[i] = old[i]
  BY DEF Moved
<1>3. len \in Nat /\ Len(own) \in Nat /\ DOMAIN old = 1..len
  BY <1>1
<1> HIDE DEF own, old, len, all
<1>4. \A i \in 1..len : i \in 1..all
  BY <1>2, <1>3
<1>5. \A m \in 1..Len(own) : len + m \in 1..all
  BY <1>2, <1>3
<1>6. \A i \in 1..len : i \in 1..all /\ i \in DOMAIN old /\ more[i] = old[i]
  BY <1>2, <1>3, <1>4
<1> QED
  BY <1>1, <1>2, <1>3, <1>5, <1>6 DEF own, old, len, all

\* What is found for a package item of the input is found by another name.
Found(in, item, more, as) ==
  First(more, ItemNames(more, as)) = First(in.streams, ItemNames(in.streams, item))

\* The same, for a payload by its storage id.
FoundById(in, id, more, as) == First(more, {Canonical(as)}) = First(in.streams, {Canonical(id)})

\* A whole name finds the same bytes by its new name.
LEMMA WholeResolved ==
  ASSUME NEW t, NEW in, NEW prefix, NEW renamed, NEW more,
         Own(in), Moved(t, in, prefix, renamed, more), IdsMoved(t, in, renamed),
         NEW n \in 1..Len(in.streams), Unclaimed(t, NewNameOf(t, more, n), TRUE)
  PROVE  Found(in, in.streams[n].name, more, NewNameOf(t, more, n))
<1> SUFFICES First(more, ItemNames(more, NewNameOf(t, more, n)))
               = First(in.streams, ItemNames(in.streams, in.streams[n].name))
  BY DEF Found
<1> DEFINE own == in.streams
           len == Len(t.streams)
           old == own[n].name
           new == NewNameOf(t, more, n)
           N == ItemNames(own, old)
           M == ItemNames(more, new)
<1>1. /\ own \in Seq(Stream) /\ more \in Seq(Stream) /\ t.streams \in Seq(Stream)
      /\ len \in Nat /\ Len(own) \in Nat /\ Len(more) = len + Len(own)
      /\ \A i \in 1..len :
           i \in 1..Len(more) /\ i \in DOMAIN t.streams /\ more[i] = t.streams[i]
      /\ \A m \in 1..Len(own) : len + m \in 1..Len(more)
  BY MovedParts, Zenon
<1>2. len \in Nat /\ Len(own) \in Nat
  BY <1>1
<1>3. ASSUME NEW m \in 1..Len(own)
      PROVE  more[len + m].data = own[m].data /\ (own[m].name \in N <=> more[len + m].name \in M)
  <2>1. more[len + m].data = own[m].data
    BY OwnTurned
  <2>2. own[m].name \in N <=> Answers(own[m].name, old)
    BY <1>1, ItemNamesAre
  <2>3. more[len + m].name \in M <=> Answers(more[len + m].name, new)
    <3> DEFINE j == len + m
    <3>1. j \in 1..Len(more)
      BY <1>1
    <3> HIDE DEF j, new
    <3> QED
      BY <1>1, <3>1, ItemNamesAre DEF j
  <2>4. Answers(own[m].name, old) <=> Answers(NewNameOf(t, more, m), new)
    BY AnswersOnly
  <2> QED
    BY <2>1, <2>2, <2>3, <2>4 DEF NewNameOf
<1>4. ASSUME NEW i \in 1..len PROVE more[i].name \notin M
  <2>1. more[i].name # new
    BY NewNotTaken
  <2>2. more[i] = t.streams[i]
    BY <1>1
  <2>3. ~Answers(more[i].name, new)
    BY <2>1, <2>2 DEF Unclaimed
  <2>4. i \in 1..Len(more)
    BY <1>1
  <2> HIDE DEF new
  <2> QED
    BY <1>1, <2>3, <2>4, ItemNamesAre
<1> HIDE DEF own, len, N, M
<1>5. /\ Len(more) = len + Len(own)
      /\ \A m \in 1..Len(own) : more[len + m].data = own[m].data
      /\ \A m \in 1..Len(own) : own[m].name \in N <=> more[len + m].name \in M
  BY <1>1, <1>3
<1>6. First(more, M) = First(own, N)
  <2>1. \A i \in 1..len : more[i].name \notin M
    BY <1>4
  <2> QED
    BY <1>2, <1>5, <2>1, FirstMoved
<1> QED
  BY <1>6 DEF own, N, M

\* A last part or a stem finds the same bytes, in a document without a table.
LEMMA PartAnswers ==
  ASSUME NEW t, NEW in, NEW prefix, NEW renamed, NEW more,
         Own(in), Moved(t, in, prefix, renamed, more), Stored(in.bins) = {},
         NEW item, item.pre = <<>>, Unclaimed(t, item, FALSE),
         \A n \in 1..Len(in.streams) : in.streams[n].name # item,
         NEW n \in 1..Len(in.streams)
  PROVE  Answers(in.streams[n].name, item) <=> Answers(NewNameOf(t, more, n), item)
<1> DEFINE s == in.bins
           len == Len(t.streams)
           old == in.streams[n].name
           new == NewNameOf(t, more, n)
           m == len + (n - 1)
<1>0. s \in Seq(Nat) /\ renamed \in Renamings /\ prefix \in Text /\ t.streams \in Seq(Stream)
  BY DEF Own, Moved
<1>1. /\ old \in AnyName /\ new \in AnyName
      /\ Turned(s, renamed, prefix, old, new)
      /\ ~Payload(s, renamed, old, new) /\ new # old => ~Untaken(more, m, old)
      /\ len \in Nat /\ Len(in.streams) \in Nat
  BY OwnTurned
<1>2. ~Payload(s, renamed, old, new)
  BY DEF Payload
<1>3. old # item
  OBVIOUS
<1>p. \A q \in 1..Len(in.streams) :
        /\ in.streams[q].name \in AnyName /\ NewNameOf(t, more, q) \in AnyName
        /\ Turned(s, renamed, prefix, in.streams[q].name, NewNameOf(t, more, q))
        /\ ~Payload(s, renamed, in.streams[q].name, NewNameOf(t, more, q))
  BY OwnTurned DEF Payload
<1>d. \A q \in 1..Len(in.streams) : in.streams[q].name = old => q = n
  BY DEF Own, Answers
<1>m. \A i \in 1..len : more[i] = t.streams[i]
  BY DEF Moved
<1>n. n \in Nat
  BY <1>1
<1> HIDE DEF s, old, new
<1>4. CASE new = old
  BY <1>4 DEF old, new
<1>5. CASE new # old
  <2>1. Plain(s, old) /\ \E k \in Nat : new = With(old, prefix, k)
    BY <1>1, <1>2, <1>5 DEF Turned
  <2>2. PICK k \in Nat : new = With(old, prefix, k)
    BY <2>1
  <2>3. /\ new.pre # <<>> /\ new.dir = old.dir
        /\ old.dir => Trailing(new) = Trailing(old) /\ Stem(new) = Stem(old)
    BY <1>0, <1>1, <2>1, <2>2, ChangedIs
  <2>4. new # item
    BY <2>3
  <2>5. CASE old.dir
    BY <1>3, <2>3, <2>4, <2>5 DEF Answers, old, new
  <2>6. CASE ~old.dir
    <3>1. Stem(new).pre = new.pre /\ old.pre = <<>>
      BY <1>1, <2>1, <2>3, <2>6, TrailingIs DEF Plain
    <3>2. ~Answers(new, item)
      BY <2>3, <2>4, <2>6, <3>1 DEF Answers
    <3>3. ASSUME Answers(old, item) PROVE FALSE
      <4>1. ~Untaken(more, m, old)
        BY <1>1, <1>2, <1>5
      <4>2. PICK i \in 1..m : more[i].name = old
        BY <4>1 DEF Untaken
      <4>3. CASE i \in 1..len
        <5>1. t.streams[i].name = old
          BY <1>m, <4>2, <4>3
        <5> QED
          BY <3>3, <4>3, <5>1 DEF Unclaimed
      <4>4. CASE ~(i \in 1..len)
        <5> DEFINE q == i - len
        <5>1. q \in 1..Len(in.streams) /\ q # n /\ len + q = i
          BY <1>1, <1>n, <4>4
        <5>2. NewNameOf(t, more, q) = old
          <6> HIDE DEF q
          <6> QED
            BY <4>2, <5>1 DEF NewNameOf
        <5> DEFINE c == in.streams[q].name
        <5>3. c \in AnyName /\ Turned(s, renamed, prefix, c, old) /\ ~Payload(s, renamed, c, old)
          <6> HIDE DEF q
          <6> QED
            BY <1>p, <5>1, <5>2
        <5>4. c # old
          <6> HIDE DEF q
          <6> QED
            BY <1>d, <5>1
        <5> HIDE DEF c
        <5>5. Plain(s, c) /\ \E j \in Nat : old = With(c, prefix, j)
          BY <5>3, <5>4 DEF Turned
        <5>6. old.pre # <<>>
          BY <1>0, <5>3, <5>5, ChangedIs
        <5> QED
          BY <3>1, <5>6
      <4> QED
        BY <4>3, <4>4
    <3> QED
      BY <3>2, <3>3 DEF old, new
  <2> QED
    BY <2>5, <2>6
<1> QED
  BY <1>4, <1>5

\* What the input finds for a last part or stem is found by it after the graft.
LEMMA PartResolved ==
  ASSUME NEW t, NEW in, NEW prefix, NEW renamed, NEW more,
         Own(in), Moved(t, in, prefix, renamed, more), Stored(in.bins) = {},
         NEW item, Unclaimed(t, item, FALSE),
         \A n \in 1..Len(in.streams) : in.streams[n].name # item,
         First(in.streams, ItemNames(in.streams, item)) # {}
  PROVE  Found(in, item, more, item)
<1> SUFFICES First(more, ItemNames(more, item)) = First(in.streams, ItemNames(in.streams, item))
  BY DEF Found
<1> DEFINE own == in.streams
           len == Len(t.streams)
           N == ItemNames(own, item)
           M == ItemNames(more, item)
<1>1. /\ own \in Seq(Stream) /\ more \in Seq(Stream) /\ t.streams \in Seq(Stream)
      /\ len \in Nat /\ Len(own) \in Nat /\ Len(more) = len + Len(own)
      /\ \A i \in 1..len :
           i \in 1..Len(more) /\ i \in DOMAIN t.streams /\ more[i] = t.streams[i]
      /\ \A m \in 1..Len(own) : len + m \in 1..Len(more)
  BY MovedParts, Zenon
<1>2. len \in Nat /\ Len(own) \in Nat
  BY <1>1
<1>3. item.pre = <<>>
  <2>1. PICK n \in 1..Len(own) : FirstAt(own, N, n)
    <3> HIDE DEF own, N
    <3>1. First(own, N) # {}
      BY DEF own, N
    <3> QED
      BY <1>2, <3>1, FirstIs
  <2>2. own[n].name \in N
    BY <2>1 DEF FirstAt
  <2>3. Answers(own[n].name, item)
    BY <1>1, <2>2, ItemNamesAre
  <2>4. own[n].name # item /\ own[n].name \in AnyName /\ NameMade(in.bins, own[n].name)
    <3>1. own[n] \in Stream
      BY <1>1
    <3>2. own[n].name \in AnyName
      BY <3>1 DEF Stream
    <3> QED
      BY <3>2 DEF Own
  <2> DEFINE old == own[n].name
  <2> HIDE DEF old
  <2>5. old # item /\ old \in AnyName /\ NameMade(in.bins, old) /\ Answers(old, item)
    BY <2>3, <2>4 DEF old
  <2>6. old.dir => Trailing(old).pre = <<>> /\ Stem(old).pre = <<>>
    BY <2>5, TrailingIs
  <2>7. ~old.dir => Stem(old).pre = <<>>
    BY <2>5, TrailingIs DEF NameMade
  <2> QED
    BY <2>5, <2>6, <2>7 DEF Answers
<1>4. ASSUME NEW m \in 1..Len(own)
      PROVE  more[len + m].data = own[m].data /\ (own[m].name \in N <=> more[len + m].name \in M)
  <2>1. more[len + m].data = own[m].data
    BY OwnTurned
  <2>2. own[m].name \in N <=> Answers(own[m].name, item)
    BY <1>1, ItemNamesAre
  <2>3. more[len + m].name \in M <=> Answers(more[len + m].name, item)
    <3> DEFINE j == len + m
    <3>1. j \in 1..Len(more)
      BY <1>1
    <3> HIDE DEF j
    <3> QED
      BY <1>1, <3>1, ItemNamesAre DEF j
  <2>4. Answers(own[m].name, item) <=> Answers(NewNameOf(t, more, m), item)
    BY <1>3, PartAnswers
  <2> QED
    BY <2>1, <2>2, <2>3, <2>4 DEF NewNameOf
<1>5. ASSUME NEW i \in 1..len PROVE more[i].name \notin M
  <2>1. more[i] = t.streams[i] /\ i \in 1..Len(more)
    BY <1>1
  <2>2. ~Answers(more[i].name, item)
    BY <2>1 DEF Unclaimed
  <2> QED
    BY <1>1, <2>1, <2>2, ItemNamesAre
<1> HIDE DEF own, len, N, M
<1>6. /\ Len(more) = len + Len(own)
      /\ \A m \in 1..Len(own) : more[len + m].data = own[m].data
      /\ \A m \in 1..Len(own) : own[m].name \in N <=> more[len + m].name \in M
  BY <1>1, <1>4
<1>7. First(more, M) = First(own, N)
  <2>1. \A i \in 1..len : more[i].name \notin M
    BY <1>5
  <2>2. Len(own) \in Nat /\ len \in Nat
    BY <1>2
  <2>3. Len(more) = len + Len(own)
    BY <1>6
  <2>4. \A m \in 1..Len(own) : more[len + m].data = own[m].data
    BY <1>6
  <2>5. \A m \in 1..Len(own) : own[m].name \in N <=> more[len + m].name \in M
    BY <1>6
  <2> QED
    BY <2>1, <2>2, <2>3, <2>4, <2>5, FirstMoved
<1> QED
  BY <1>7 DEF own, N, M

\* A payload is found by its entry's new id.
LEMMA IdResolved ==
  ASSUME NEW t, NEW in, NEW prefix, NEW renamed, NEW more,
         Own(in), Moved(t, in, prefix, renamed, more), IdsMoved(t, in, renamed),
         NEW id \in Stored(in.bins)
  PROVE  FoundById(in, id, more, NewId(renamed, id))
<1> SUFFICES First(more, {Canonical(NewId(renamed, id))}) = First(in.streams, {Canonical(id)})
  BY DEF FoundById
<1> DEFINE s == in.bins
           own == in.streams
           len == Len(t.streams)
           r == NewId(renamed, id)
           N == {Canonical(id)}
           M == {Canonical(r)}
<1>0. s \in Seq(Nat) /\ renamed \in Renamings /\ prefix \in Text
  BY DEF Own, Moved
<1>1. /\ own \in Seq(Stream) /\ more \in Seq(Stream) /\ t.streams \in Seq(Stream)
      /\ len \in Nat /\ Len(own) \in Nat /\ Len(more) = len + Len(own)
      /\ \A i \in 1..len :
           i \in 1..Len(more) /\ i \in DOMAIN t.streams /\ more[i] = t.streams[i]
      /\ \A m \in 1..Len(own) : len + m \in 1..Len(more)
  BY MovedParts, Zenon
<1>2. len \in Nat /\ Len(own) \in Nat
  BY <1>1
<1>3. id \in Nat /\ r \in Nat /\ Stored(s) # {}
  <2>1. id \in Nat /\ Stored(s) # {}
    BY <1>0, StoredType
  <2> QED
    BY <1>0, <2>1, NewIdType
<1>i. \A k \in Stored(s) : NewId(renamed, k) = r => k = id
  BY DEF IdsMoved
<1>4. ASSUME NEW n \in 1..Len(own)
      PROVE  more[len + n].data = own[n].data /\ (own[n].name \in N <=> more[len + n].name \in M)
  <2> DEFINE old == own[n].name
             new == NewNameOf(t, more, n)
  <2>1. /\ more[len + n].data = own[n].data
        /\ old \in AnyName /\ new \in AnyName
        /\ Turned(s, renamed, prefix, old, new)
        /\ Payload(s, renamed, old, new) \/ Plain(s, old)
    BY OwnTurned
  <2> HIDE DEF old, new, s, r
  <2>2. CASE Payload(s, renamed, old, new)
    <3>1. PICK k \in Stored(s) : old = Canonical(k) /\ new = Canonical(NewId(renamed, k))
      BY <2>2 DEF Payload
    <3>2. k \in Nat /\ NewId(renamed, k) \in Nat
      <4>1. k \in Nat
        BY <1>0, StoredType
      <4> QED
        BY <1>0, <4>1, NewIdType
    <3>3. old = Canonical(id) => k = id
      BY <1>3, <3>1, <3>2, CanonicalSame
    <3>4. new = Canonical(r) => k = id
      BY <1>3, <1>i, <3>1, <3>2, CanonicalSame
    <3>5. k = id => old = Canonical(id) /\ new = Canonical(r)
      BY <3>1 DEF r
    <3> QED
      BY <2>1, <3>3, <3>4, <3>5 DEF old, new, NewNameOf
  <2>3. CASE Plain(s, old)
    <3>1. old # Canonical(id)
      <4> SUFFICES ASSUME old = Canonical(id) PROVE FALSE
        OBVIOUS
      <4>1. old.stem = <<"BIN", id>> /\ old.dir = FALSE
        BY <1>3, CanonicalIs
      <4>2. old.stem[1] = "BIN"
        BY <4>1
      <4> QED
        BY <2>3, <4>1, <4>2 DEF Plain
    <3>2. new # Canonical(r)
      <4> SUFFICES ASSUME new = Canonical(r) PROVE FALSE
        OBVIOUS
      <4>1. new.stem = <<"BIN", r>> /\ new.dir = FALSE /\ new.pre = <<>>
        BY <1>3, CanonicalIs
      <4>2. new.stem[1] = "BIN"
        BY <4>1
      <4> QED
        BY <1>0, <1>3, <2>1, <2>3, <4>1, <4>2, PlainIsOther
    <3> QED
      BY <2>1, <3>1, <3>2 DEF old, new, NewNameOf
  <2> QED
    BY <2>1, <2>2, <2>3
<1>5. ASSUME NEW i \in 1..len PROVE more[i].name \notin M
  <2>1. ~NameTaken(t, r)
    BY DEF IdsMoved
  <2>2. i \in DOMAIN t.streams /\ more[i] = t.streams[i]
    BY <1>1
  <2>3. Trailing(more[i].name) # Canonical(r)
    BY <2>1, <2>2 DEF NameTaken
  <2>4. Trailing(Canonical(r)) = Canonical(r)
    BY <1>3, CanonicalIs
  <2> QED
    BY <2>3, <2>4
<1> HIDE DEF own, len, N, M
<1>6. /\ Len(more) = len + Len(own)
      /\ \A m \in 1..Len(own) : more[len + m].data = own[m].data
      /\ \A m \in 1..Len(own) : own[m].name \in N <=> more[len + m].name \in M
  BY <1>1, <1>4
<1>7. First(more, M) = First(own, N)
  <2>1. \A i \in 1..len : more[i].name \notin M
    BY <1>5
  <2>2. Len(own) \in Nat /\ len \in Nat
    BY <1>2
  <2>3. Len(more) = len + Len(own)
    BY <1>6
  <2>4. \A m \in 1..Len(own) : more[len + m].data = own[m].data
    BY <1>6
  <2>5. \A m \in 1..Len(own) : own[m].name \in N <=> more[len + m].name \in M
    BY <1>6
  <2> QED
    BY <2>1, <2>2, <2>3, <2>4, <2>5, FirstMoved
<1> QED
  BY <1>7 DEF own, N, M

(***************************************************************************)
(* Pictures in a round                                                     *)
(***************************************************************************)

\* The binary data of a target: nothing is called by the id of a linked file.
BinaryOK(t) ==
  /\ t.bins \in Seq(Nat) /\ t.streams \in Seq(Stream)
  /\ \A i \in 1..Len(t.streams) : t.streams[i].name # Canonical(0)

\* A picture's reference that finds something, or that nothing will be found for.
Settled(t, is) ==
  \/ is.kind = "none"
  \/ is.kind = "id" /\ is.id \in DOMAIN t.bins /\ (t.bins[is.id] = 0 \/ ResolveBin(t, is) # {})
  \/ is.kind = "item" /\ ResolveBin(t, is) # {}

\* Ambiguous, of any target.
Taken(t, in, k, was, is) ==
  /\ is.kind = "item"
  /\ \E s \in ToSet(t.streams) :
       /\ s.data[1] < k /\ Answers(s.name, is.name)
       /\ NamesWhole(in, was) => s.name # is.name

\* A picture of input k is what it was, or may not be for one of two reasons.
Shows(t, in, k, lost, was, is) ==
  \/ lost > 0
  \/ Taken(t, in, k, was, is)
  \/ Settled(t, is) /\ ResolveBin(t, is) = ResolveBin(in, was)

\* What a reference finds, by its kind.
LEMMA ResolveIs ==
  ASSUME NEW d, NEW ref
  PROVE  /\ ref.kind = "none" => ResolveBin(d, ref) = {}
         /\ ref.kind = "id" /\ ref.id \in DOMAIN d.bins =>
              ResolveBin(d, ref) = First(d.streams, {Canonical(d.bins[ref.id])})
         /\ ref.kind = "item" =>
              ResolveBin(d, ref) = First(d.streams, ItemNames(d.streams, ref.name))
BY DEF ResolveBin, ItemNames

\* Nothing is found for a linked file.
LEMMA LinkedIs ==
  ASSUME NEW t, BinaryOK(t)
  PROVE  First(t.streams, {Canonical(0)}) = {}
<1> DEFINE s == t.streams
<1>1. Len(s) \in Nat
  BY DEF BinaryOK
<1>2. \A i \in 1..Len(s) : ~FirstAt(s, {Canonical(0)}, i)
  BY DEF BinaryOK, FirstAt
<1> HIDE DEF s
<1>3. First(s, {Canonical(0)}) = {}
  BY <1>1, <1>2, FirstIs
<1> QED
  BY <1>3 DEF s

\* The target only grows.
TargetGrows(t, u) ==
  /\ Len(t.bins) <= Len(u.bins) /\ \A n \in 1..Len(t.bins) : u.bins[n] = t.bins[n]
  /\ Len(t.streams) <= Len(u.streams) /\ \A n \in 1..Len(t.streams) : u.streams[n] = t.streams[n]

\* What a picture shows, it shows after the next rounds.
LEMMA ShowsOn ==
  ASSUME NEW t, NEW u, BinaryOK(t), BinaryOK(u), TargetGrows(t, u),
         NEW in, NEW k, NEW lost, NEW was, NEW is, Shows(t, in, k, lost, was, is)
  PROVE  Shows(u, in, k, lost, was, is)
<1> DEFINE s == t.streams
           m == u.streams
<1>1. s \in Seq(Stream) /\ m \in Seq(Stream) /\ t.bins \in Seq(Nat) /\ u.bins \in Seq(Nat)
  BY DEF BinaryOK
<1>2. Len(s) \in Nat /\ Len(m) \in Nat /\ DOMAIN s = 1..Len(s) /\ DOMAIN m = 1..Len(m)
  BY <1>1
<1>3. Len(s) <= Len(m) /\ \A i \in 1..Len(s) : m[i] = s[i]
  BY DEF TargetGrows
<1>4. CASE lost > 0
  BY <1>4 DEF Shows
<1>5. CASE Taken(t, in, k, was, is)
  <2>1. ToSet(s) \subseteq ToSet(m)
    <3>1. \A i \in DOMAIN s : i \in DOMAIN m /\ m[i] = s[i]
      BY <1>2, <1>3
    <3> QED
      BY <3>1 DEF ToSet
  <2>2. Taken(u, in, k, was, is)
    BY <1>5, <2>1 DEF Taken
  <2> QED
    BY <2>2 DEF Shows
<1>6. CASE Settled(t, is) /\ ResolveBin(t, is) = ResolveBin(in, was)
  <2> SUFFICES Settled(u, is) /\ ResolveBin(u, is) = ResolveBin(t, is)
    BY <1>6 DEF Shows
  <2>1. CASE is.kind = "none"
    <3>1. ResolveBin(t, is) = {} /\ ResolveBin(u, is) = {}
      BY <2>1, ResolveIs
    <3> QED
      BY <2>1, <3>1 DEF Settled
  <2>2. CASE is.kind = "id" /\ is.id \in DOMAIN t.bins
             /\ (t.bins[is.id] = 0 \/ ResolveBin(t, is) # {})
    <3>1. is.id \in DOMAIN u.bins /\ u.bins[is.id] = t.bins[is.id]
      <4>1. DOMAIN t.bins = 1..Len(t.bins) /\ DOMAIN u.bins = 1..Len(u.bins)
            /\ Len(t.bins) \in Nat /\ Len(u.bins) \in Nat
        BY <1>1
      <4> QED
        BY <2>2, <4>1 DEF TargetGrows
    <3> DEFINE N == {Canonical(t.bins[is.id])}
    <3>2. ResolveBin(t, is) = First(s, N)
      BY <2>2, ResolveIs
    <3>3. ResolveBin(u, is) = First(m, N)
      BY <2>2, <3>1, ResolveIs
    <3>4. CASE t.bins[is.id] = 0
      <4>1. First(s, N) = {} /\ First(m, N) = {}
        BY <3>4, LinkedIs
      <4> QED
        BY <2>2, <3>1, <3>2, <3>3, <3>4, <4>1 DEF Settled
    <3>5. CASE ResolveBin(t, is) # {}
      <4>1. First(s, N) # {}
        BY <3>2, <3>5
      <4> HIDE DEF s, m, N
      <4>2. First(m, N) = First(s, N)
        BY <1>2, <1>3, <4>1, FirstStays
      <4> QED
        BY <2>2, <3>1, <3>2, <3>3, <3>5, <4>2 DEF Settled
    <3> QED
      BY <2>2, <3>4, <3>5
  <2>3. CASE is.kind = "item" /\ ResolveBin(t, is) # {}
    <3> DEFINE N == ItemNames(s, is.name)
               M == ItemNames(m, is.name)
    <3>1. ResolveBin(t, is) = First(s, N) /\ ResolveBin(u, is) = First(m, M)
      BY <2>3, ResolveIs
    <3>2. \A i \in 1..Len(s) : s[i].name \in N <=> s[i].name \in M
      <4> DEFINE item == is.name
      <4>1. \A i \in 1..Len(s) : s[i].name \in ItemNames(s, item) <=> Answers(s[i].name, item)
        <5> HIDE DEF s, item
        <5> QED
          BY <1>1, ItemNamesAre
      <4>2. \A i \in 1..Len(m) : m[i].name \in ItemNames(m, item) <=> Answers(m[i].name, item)
        <5> HIDE DEF m, item
        <5> QED
          BY <1>1, ItemNamesAre
      <4>3. \A i \in 1..Len(s) : i \in 1..Len(m) /\ m[i] = s[i]
        BY <1>2, <1>3
      <4> HIDE DEF s, m, item
      <4> QED
        BY <4>1, <4>2, <4>3 DEF item
    <3>3. First(s, N) # {}
      BY <2>3, <3>1
    <3> HIDE DEF s, m, N, M
    <3>4. First(m, M) = First(s, N)
      BY <1>2, <1>3, <3>2, <3>3, FirstStays
    <3> QED
      BY <2>3, <3>1, <3>3, <3>4 DEF Settled
  <2> QED
    BY <1>6, <2>1, <2>2, <2>3 DEF Settled
<1> QED
  BY <1>4, <1>5, <1>6 DEF Shows

\* The two parts of a graft: the target after it and what became of the names.
GraftedOn(t, in, how, u, names) ==
  LET bins == GraftBins(t, in)
      strs == GraftStreams(t, how, in, bins.renamed)
  IN u.bins = t.bins \o bins.bins /\ u.streams = strs.streams /\ names = strs.names

LEMMA OwnNames ==
  ASSUME NEW in, Own(in)
  PROVE  /\ NamesDiffer(in) /\ IdsDiffer(in.bins)
         /\ in.streams \in Seq(Stream) /\ in.bins \in Seq(Nat)
         /\ DOMAIN in.streams = 1..Len(in.streams) /\ Len(in.streams) \in Nat
<1>1. in.streams \in Seq(Stream) /\ in.bins \in Seq(Nat) /\ IdsDiffer(in.bins)
  BY DEF Own
<1>2. DOMAIN in.streams = 1..Len(in.streams) /\ Len(in.streams) \in Nat
  BY <1>1
<1>3. NamesDiffer(in)
  BY <1>2 DEF Own, NamesDiffer, Answers
<1> QED
  BY <1>1, <1>2, <1>3

\* What a graft is.
LEMMA GraftMoves ==
  ASSUME NEW t, BinaryOK(t), NEW in, Own(in), NEW how, how.prefix \in Text,
         NEW u, NEW names, GraftedOn(t, in, how, u, names)
  PROVE  LET bins == GraftBins(t, in)
         IN /\ bins \in BinAccs /\ BinsKnown(t, in.bins, Len(in.bins), bins)
            /\ Moved(t, in, how.prefix, bins.renamed, u.streams)
            /\ names = {<<in.streams[n].name, NewNameOf(t, u.streams, n)>> :
                          n \in 1..Len(in.streams)}
<1> DEFINE bins == GraftBins(t, in)
           r    == bins.renamed
           strs == GraftStreams(t, how, in, r)
<1>1. t.bins \in Seq(Nat) /\ t.streams \in Seq(Stream)
  BY DEF BinaryOK
<1>2. bins \in BinAccs /\ BinsKnown(t, in.bins, Len(in.bins), bins)
  BY <1>1, OwnNames, BinsGrafted
<1>3. r \in Renamings
  <2> HIDE DEF bins
  <2> QED
    BY <1>2 DEF BinAccs, Renamings
<1>s. u.streams = strs.streams /\ names = strs.names
  BY DEF GraftedOn
<1> HIDE DEF bins, r
<1>4. StreamsGiven(t, how, in, r)
  BY <1>1, <1>3, OwnNames DEF StreamsGiven
<1>5. /\ strs \in StreamAccs
      /\ StreamsKnown(t, in, how.prefix, r, Len(in.streams), strs)
  BY <1>4, OwnNames, StreamsGrafted
<1> HIDE DEF strs
<1>6. u.streams \in Seq(Stream)
  BY <1>5, <1>s DEF StreamAccs
<1>7. Moved(t, in, how.prefix, r, u.streams)
  BY <1>1, <1>3, <1>5, <1>6, <1>s DEF Moved, StreamsKnown
<1>8. names = {<<in.streams[n].name, NewNameOf(t, u.streams, n)>> : n \in 1..Len(in.streams)}
  BY <1>5, <1>s DEF StreamsKnown, NewNameOf
<1> QED
  BY <1>2, <1>7, <1>8 DEF bins, r

\* While no entry is dropped, the new ids are free.
LEMMA IdsAreMoved ==
  ASSUME NEW t, NEW in, Own(in), NEW bins \in BinAccs,
         BinsKnown(t, in.bins, Len(in.bins), bins), Len(bins.bins) >= Len(in.bins)
  PROVE  /\ Len(bins.bins) = Len(in.bins)
         /\ IdsMoved(t, in, bins.renamed)
         /\ \A m \in 1..Len(in.bins) :
              bins.bins[m] = IF in.bins[m] = 0 THEN 0 ELSE NewId(bins.renamed, in.bins[m])
<1> DEFINE s == in.bins
           b == bins.bins
           r == bins.renamed
           len == Len(s)
<1>1. s \in Seq(Nat) /\ b \in Seq(Nat)
  BY OwnNames DEF BinAccs
<1>2. len \in Nat /\ Len(b) \in Nat /\ DOMAIN s = 1..len
  BY <1>1
<1>3. Len(b) = len
  BY <1>2 DEF BinsKnown
<1>4. /\ \A m \in 1..len : BinKept(t, s, bins, m)
      /\ \A m, n \in 1..len : b[m] = b[n] /\ b[m] # 0 => m = n
  BY <1>3 DEF BinsKnown
<1>5. \A m \in 1..len : b[m] = IF s[m] = 0 THEN 0 ELSE NewId(r, s[m])
  BY <1>4 DEF BinKept
<1>6. \A id \in Stored(s) : \E m \in 1..len : s[m] = id /\ id # 0
  BY <1>2 DEF Stored, ToSet
<1>7. ASSUME NEW id \in Stored(s) PROVE NewId(r, id) # 0 /\ ~NameTaken(t, NewId(r, id))
  <2>1. PICK m \in 1..len : s[m] = id /\ id # 0
    BY <1>6
  <2> QED
    BY <1>4, <2>1 DEF BinKept
<1>8. ASSUME NEW i \in Stored(s), NEW j \in Stored(s), NewId(r, i) = NewId(r, j) PROVE i = j
  <2>1. PICK m \in 1..len : s[m] = i /\ i # 0
    BY <1>6
  <2>2. PICK n \in 1..len : s[n] = j /\ j # 0
    BY <1>6
  <2>3. b[m] = NewId(r, i) /\ b[n] = NewId(r, j) /\ b[m] # 0
    BY <1>5, <1>7, <2>1, <2>2
  <2>4. m = n
    BY <1>4, <1>8, <2>3
  <2> QED
    BY <2>1, <2>2, <2>4
<1> QED
  BY <1>3, <1>5, <1>7, <1>8 DEF IdsMoved

\* The target after a round.
LEMMA GraftIsOn ==
  ASSUME NEW t, BinaryOK(t), NEW in, Own(in), NEW how, how.prefix \in Text,
         NEW u, NEW names, GraftedOn(t, in, how, u, names)
  PROVE  BinaryOK(u) /\ TargetGrows(t, u)
<1> DEFINE bins == GraftBins(t, in)
           b == bins.bins
           r == bins.renamed
           more == u.streams
<1>1. /\ bins \in BinAccs /\ BinsKnown(t, in.bins, Len(in.bins), bins)
      /\ Moved(t, in, how.prefix, r, more)
  BY GraftMoves
<1>2. u.bins = t.bins \o b
  BY DEF GraftedOn
<1> HIDE DEF bins
<1>3. t.bins \in Seq(Nat) /\ b \in Seq(Nat) /\ t.streams \in Seq(Stream)
  BY <1>1 DEF BinaryOK, BinAccs
<1>4. /\ u.bins \in Seq(Nat) /\ Len(t.bins) <= Len(u.bins)
      /\ \A n \in 1..Len(t.bins) : u.bins[n] = t.bins[n]
  <2> DEFINE a == t.bins
  <2> HIDE DEF a, b
  <2>1. a \in Seq(Nat) /\ b \in Seq(Nat)
    BY <1>3 DEF a
  <2>2. a \o b \in Seq(Nat) /\ Len(a) <= Len(a \o b) /\ \A n \in 1..Len(a) : (a \o b)[n] = a[n]
    BY <2>1
  <2> QED
    BY <1>2, <2>2 DEF a
<1>5. /\ more \in Seq(Stream) /\ Len(t.streams) <= Len(more)
      /\ \A i \in 1..Len(t.streams) : more[i] = t.streams[i]
      /\ Len(more) = Len(t.streams) + Len(in.streams)
      /\ Len(t.streams) \in Nat /\ Len(in.streams) \in Nat
      /\ r \in Renamings /\ how.prefix \in Text
  <2>1. /\ more \in Seq(Stream) /\ Len(more) = Len(t.streams) + Len(in.streams)
        /\ \A i \in 1..Len(t.streams) : more[i] = t.streams[i]
        /\ r \in Renamings /\ how.prefix \in Text
    BY <1>1 DEF Moved
  <2>2. Len(t.streams) \in Nat
    BY <1>3
  <2>3. Len(in.streams) \in Nat
    BY OwnNames
  <2>4. Len(t.streams) <= Len(more)
    <3> DEFINE a == Len(t.streams)
               c == Len(in.streams)
               all == Len(more)
    <3>1. a \in Nat /\ c \in Nat /\ all = a + c
      BY <2>1, <2>2, <2>3
    <3> HIDE DEF a, c, all
    <3>2. a <= all
      BY <3>1
    <3> QED
      BY <3>2 DEF a, all
  <2> HIDE DEF more, r
  <2> QED
    BY <2>1, <2>2, <2>3, <2>4, Zenon
\* No payload is called by 0, and what is no payload is not called so.
<1>6. ASSUME NEW n \in 1..Len(in.streams) PROVE NewNameOf(t, more, n) # Canonical(0)
  <2> DEFINE s   == in.bins
             old == in.streams[n].name
             new == NewNameOf(t, more, n)
  <2>1. s \in Seq(Nat) /\ old \in AnyName /\ new \in AnyName /\ Turned(s, r, how.prefix, old, new)
    BY <1>1, OwnTurned, OwnNames
  <2>2. \A id \in DOMAIN r : r[id] # 0
    BY <1>1 DEF BinsKnown
  <2>3. Canonical(0).pre = <<>> /\ Canonical(0).dir = FALSE /\ Canonical(0).stem = <<"BIN", 0>>
    BY CanonicalIs
  <2>4. Canonical(0).stem[1] = "BIN"
    BY <2>3
  <2> HIDE DEF s, old, new, r
  <2> SUFFICES ASSUME new = Canonical(0) PROVE FALSE
    BY DEF new
  <2>5. CASE Payload(s, r, old, new)
    <3>1. PICK id \in Stored(s) : new = Canonical(NewId(r, id))
      BY <2>5 DEF Payload
    <3>2. id \in Nat /\ id # 0
      BY <2>1, StoredType DEF Stored
    <3>3. NewId(r, id) \in Nat /\ NewId(r, id) # 0
      <4>1. NewId(r, id) \in Nat
        BY <1>5, <3>2, NewIdType
      <4> QED
        BY <2>2, <3>2, <4>1 DEF NewId
    <3>4. 0 \in Nat /\ Canonical(NewId(r, id)) = Canonical(0)
      BY <3>1
    <3>5. NewId(r, id) = 0
      BY <3>3, <3>4, CanonicalSame
    <3> QED
      BY <3>3, <3>5
  <2>6. CASE Plain(s, old) /\ new = old
    BY <2>3, <2>4, <2>6 DEF Plain
  <2>7. CASE Plain(s, old) /\ \E k \in Nat : new = With(old, how.prefix, k)
    BY <1>5, <2>1, <2>3, <2>7, ChangedIs
  <2> QED
    BY <2>1, <2>5, <2>6, <2>7 DEF Turned
<1>7. ASSUME NEW i \in 1..Len(more) PROVE more[i].name # Canonical(0)
  <2>1. CASE i \in 1..Len(t.streams)
    <3>1. t.streams[i].name # Canonical(0)
      BY <2>1 DEF BinaryOK
    <3> QED
      BY <1>5, <2>1, <3>1
  <2>2. CASE ~(i \in 1..Len(t.streams))
    <3> DEFINE a == Len(t.streams)
               c == Len(in.streams)
               all == Len(more)
    <3>0. a \in Nat /\ c \in Nat /\ all = a + c /\ i \in 1..all /\ ~(i \in 1..a)
      BY <1>5, <2>2
    <3> HIDE DEF a, c, all
    <3>1. \E n \in 1..c : a + n = i
      <4>1. i - a \in 1..c /\ a + (i - a) = i
        BY <3>0
      <4> QED
        BY <4>1
    <3>2. PICK n \in 1..Len(in.streams) : Len(t.streams) + n = i
      BY <3>1 DEF a, c
    <3> QED
      BY <1>6, <3>2 DEF NewNameOf
  <2> QED
    BY <2>1, <2>2
<1> QED
  BY <1>4, <1>5, <1>7 DEF BinaryOK, TargetGrows

\* The binary data of an input is that of a target.
LEMMA OwnBinary ==
  ASSUME NEW in, Own(in)
  PROVE  BinaryOK(in)
<1>1. in.bins \in Seq(Nat) /\ in.streams \in Seq(Stream)
  BY DEF Own
<1>2. Canonical(0).dir = FALSE /\ Canonical(0).stem = <<"BIN", 0>>
  BY CanonicalIs
<1>3. Canonical(0).stem[1] = "BIN"
  BY <1>2
<1>4. ASSUME NEW n \in 1..Len(in.streams), in.streams[n].name = Canonical(0) PROVE FALSE
  <2>1. NameMade(in.bins, Canonical(0))
    BY <1>4 DEF Own
  <2>2. PICK id \in Stored(in.bins) : Canonical(0) = Canonical(id)
    BY <1>2, <1>3, <2>1 DEF NameMade
  <2>3. id \in Nat /\ id # 0 /\ 0 \in Nat
    BY <1>1, StoredType DEF Stored
  <2> QED
    BY <2>2, <2>3, CanonicalSame
<1> QED
  BY <1>1, <1>4 DEF BinaryOK

\* A new name or item that is not taken is unclaimed.
LEMMA NotTaken ==
  ASSUME NEW t, BinaryOK(t), NEW u, BinaryOK(u), TargetGrows(t, u), NEW k,
         \A i \in 1..Len(t.streams) : t.streams[i].data[1] < k,
         NEW in, NEW was, NEW is, is.kind = "item", ~Taken(u, in, k, was, is)
  PROVE  /\ Unclaimed(t, is.name, TRUE)
         /\ ~NamesWhole(in, was) => Unclaimed(t, is.name, FALSE)
<1>1. t.streams \in Seq(Stream) /\ u.streams \in Seq(Stream)
  BY DEF BinaryOK
<1>2. Len(t.streams) \in Nat /\ Len(u.streams) \in Nat /\ DOMAIN u.streams = 1..Len(u.streams)
  BY <1>1
<1>3. Len(t.streams) <= Len(u.streams) /\ \A i \in 1..Len(t.streams) : u.streams[i] = t.streams[i]
  BY DEF TargetGrows
<1>4. ASSUME NEW i \in 1..Len(t.streams) PROVE t.streams[i] \in ToSet(u.streams)
  <2>1. i \in DOMAIN u.streams /\ u.streams[i] = t.streams[i]
    BY <1>2, <1>3
  <2> QED
    BY <2>1 DEF ToSet
<1>5. ASSUME NEW i \in 1..Len(t.streams), Answers(t.streams[i].name, is.name)
      PROVE  NamesWhole(in, was) /\ t.streams[i].name = is.name
  BY <1>4, <1>5 DEF Taken
<1> QED
  BY <1>5 DEF Unclaimed

\* What a reference becomes.
LEMMA PicBecomes ==
  ASSUME NEW how, NEW names, NEW was
  PROVE  /\ was.kind = "none" => GraftedPic(how, names, was) = was
         /\ was.kind = "id" => GraftedPic(how, names, was) = [was EXCEPT !.id = @ + how.bin]
         /\ was.kind = "item" /\ (\E p \in names : p[1] = was.name) =>
              GraftedPic(how, names, was)
                = [was EXCEPT !.name = (CHOOSE p \in names : p[1] = was.name)[2]]
         /\ was.kind = "item" /\ ~(\E p \in names : p[1] = was.name) =>
              GraftedPic(how, names, was) = was
BY DEF GraftedPic

\* The names of an input's streams, with what became of them.
Pairs(t, in, more) == {<<in.streams[n].name, NewNameOf(t, more, n)>> : n \in 1..Len(in.streams)}

\* A reference to another item.
WithName(ref, name) == [ref EXCEPT !.name = name]

\* A stream's whole name becomes that stream's new name.
LEMMA NameBecomes ==
  ASSUME NEW t, NEW in, Own(in), NEW more, NEW names, names = Pairs(t, in, more),
         NEW n \in 1..Len(in.streams), NEW how,
         NEW was, was.kind = "item", in.streams[n].name = was.name
  PROVE  GraftedPic(how, names, was) = WithName(was, NewNameOf(t, more, n))
<1> DEFINE new(m) == NewNameOf(t, more, m)
           item == was.name
<1>1. \A p \in names : \E m \in 1..Len(in.streams) : p = <<in.streams[m].name, new(m)>>
  BY DEF Pairs
<1>2. <<in.streams[n].name, new(n)>> \in names
  BY DEF Pairs
<1>3. \A m \in 1..Len(in.streams) : in.streams[m].name = in.streams[n].name => m = n
  <2>1. \A m \in 1..Len(in.streams) : Answers(in.streams[m].name, in.streams[n].name) => m = n
    BY DEF Own
  <2> QED
    BY <2>1 DEF Answers
<1>4. \E p \in names : p[1] = item
  BY <1>2
<1> DEFINE p == CHOOSE p \in names : p[1] = item
<1>5. p \in names /\ p[1] = item
  BY <1>4
<1>6. GraftedPic(how, names, was) = [was EXCEPT !.name = p[2]]
  BY <1>4, PicBecomes
<1> HIDE DEF p
<1>7. PICK m \in 1..Len(in.streams) : p = <<in.streams[m].name, new(m)>>
  BY <1>1, <1>5
<1>8. m = n
  BY <1>3, <1>5, <1>7
<1>9. p[2] = new(n)
  BY <1>7, <1>8
<1> QED
  BY <1>6, <1>9 DEF WithName

\* Any other item stays.
LEMMA NameStays ==
  ASSUME NEW t, NEW in, Own(in), NEW more, NEW names, names = Pairs(t, in, more), NEW how,
         NEW was, was.kind = "item", \A n \in 1..Len(in.streams) : in.streams[n].name # was.name
  PROVE  GraftedPic(how, names, was) = was
<1>1. ASSUME NEW p \in names, p[1] = was.name PROVE FALSE
  <2>1. PICK m \in 1..Len(in.streams) : p = <<in.streams[m].name, NewNameOf(t, more, m)>>
    BY DEF Pairs
  <2> QED
    BY <1>1, <2>1
<1> QED
  BY <1>1, PicBecomes

\* Every stream of a target is of one of the first k - 1 inputs.
Earlier(t, k) == \A i \in 1..Len(t.streams) : t.streams[i].data[1] < k

\* A picture that is named by number.
LEMMA ShowsById ==
  ASSUME NEW t, BinaryOK(t), NEW in, Own(in), NEW how, how.prefix \in Text, how.bin = Len(t.bins),
         NEW u, NEW names, GraftedOn(t, in, how, u, names),
         Len(GraftBins(t, in).bins) >= Len(in.bins),
         NEW was \in Reference, was.kind = "id", PictureMade(in, was)
  PROVE  LET is == GraftedPic(how, names, was)
         IN Settled(u, is) /\ ResolveBin(u, is) = ResolveBin(in, was)
<1> DEFINE is == GraftedPic(how, names, was)
           bins == GraftBins(t, in)
           b == bins.bins
           s == in.bins
           a == t.bins
           id == was.id
<1>1. /\ bins \in BinAccs /\ BinsKnown(t, s, Len(s), bins)
      /\ Moved(t, in, how.prefix, bins.renamed, u.streams)
  BY GraftMoves
<1>2. BinaryOK(u) /\ BinaryOK(in)
  BY GraftIsOn, OwnBinary
<1>3. u.bins = a \o b
  BY DEF GraftedOn
<1>4. id \in Nat /\ was = [kind |-> "id", id |-> id]
  BY DEF Reference
<1>5. is = [was EXCEPT !.id = @ + how.bin]
  BY PicBecomes
<1>6. is.kind = "id" /\ is.id = id + Len(a)
  BY <1>4, <1>5
<1>7. id \in DOMAIN s /\ (ResolveBin(in, was) # {} \/ s[id] = 0)
  BY DEF PictureMade
<1> HIDE DEF is, bins
<1>8. /\ Len(b) = Len(s)
      /\ IdsMoved(t, in, bins.renamed)
      /\ \A m \in 1..Len(s) : b[m] = IF s[m] = 0 THEN 0 ELSE NewId(bins.renamed, s[m])
  <2>1. Len(b) >= Len(s)
    BY DEF bins
  <2> QED
    BY <1>1, <2>1, IdsAreMoved
<1>9. /\ s \in Seq(Nat) /\ a \in Seq(Nat) /\ b \in Seq(Nat)
      /\ id \in 1..Len(s)
  <2>1. s \in Seq(Nat) /\ a \in Seq(Nat)
    BY <1>2 DEF BinaryOK
  <2> QED
    BY <1>1, <1>7, <2>1 DEF BinAccs
<1>10. is.id \in DOMAIN u.bins /\ u.bins[is.id] = b[id]
  <2> HIDE DEF a, b, s, id
  <2>1. id + Len(a) \in DOMAIN (a \o b) /\ (a \o b)[id + Len(a)] = b[id]
    BY <1>8, <1>9
  <2> QED
    BY <1>3, <1>6, <2>1
<1>11. ResolveBin(in, was) = First(in.streams, {Canonical(s[id])})
  BY <1>7, ResolveIs
<1>12. ResolveBin(u, is) = First(u.streams, {Canonical(b[id])})
  BY <1>6, <1>10, ResolveIs
<1>13. CASE s[id] = 0
  <2>1. b[id] = 0
    BY <1>8, <1>9, <1>13
  <2>2. First(in.streams, {Canonical(0)}) = {} /\ First(u.streams, {Canonical(0)}) = {}
    BY <1>2, LinkedIs
  <2> QED
    BY <1>6, <1>10, <1>11, <1>12, <1>13, <2>1, <2>2 DEF Settled, is
<1>14. CASE s[id] # 0
  <2>1. b[id] = NewId(bins.renamed, s[id])
    BY <1>8, <1>9, <1>14
  <2>2. s[id] \in Stored(in.bins)
    BY <1>7, <1>14 DEF Stored, ToSet
  <2>3. First(u.streams, {Canonical(b[id])}) = First(in.streams, {Canonical(s[id])})
    <3> DEFINE r == bins.renamed
               old == s[id]
    <3>1. /\ Moved(t, in, how.prefix, r, u.streams) /\ IdsMoved(t, in, r) /\ b[id] = NewId(r, old)
          /\ old \in Stored(in.bins)
      BY <1>1, <1>8, <2>1, <2>2
    <3> HIDE DEF r, b, old
    <3>2. FoundById(in, old, u.streams, NewId(r, old))
      BY <3>1, IdResolved
    <3> QED
      BY <3>1, <3>2 DEF FoundById, old
  <2>4. ResolveBin(u, is) = ResolveBin(in, was)
    BY <1>11, <1>12, <2>3
  <2>5. Settled(u, is)
    BY <1>6, <1>7, <1>10, <1>14, <2>4 DEF Settled
  <2> QED
    BY <2>4, <2>5 DEF is
<1> QED
  BY <1>13, <1>14

\* One that names a package item.
LEMMA ShowsByItem ==
  ASSUME NEW t, BinaryOK(t), NEW in, Own(in), NEW how, how.prefix \in Text,
         NEW u, NEW names, GraftedOn(t, in, how, u, names),
         Len(GraftBins(t, in).bins) >= Len(in.bins),
         NEW k, Earlier(t, k),
         NEW was \in Reference, was.kind = "item", PictureMade(in, was),
         ~Taken(u, in, k, was, GraftedPic(how, names, was))
  PROVE  LET is == GraftedPic(how, names, was)
         IN Settled(u, is) /\ ResolveBin(u, is) = ResolveBin(in, was)
<1> DEFINE is == GraftedPic(how, names, was)
           bins == GraftBins(t, in)
           r == bins.renamed
           item == was.name
<1>1. /\ bins \in BinAccs /\ BinsKnown(t, in.bins, Len(in.bins), bins)
      /\ Moved(t, in, how.prefix, r, u.streams)
      /\ names = {<<in.streams[n].name, NewNameOf(t, u.streams, n)>> : n \in 1..Len(in.streams)}
  BY GraftMoves
<1>2. BinaryOK(u) /\ TargetGrows(t, u)
  BY GraftIsOn
<1>3. was = [kind |-> "item", name |-> item]
  BY DEF Reference
<1>4. ResolveBin(in, was) # {} /\ (NamesWhole(in, was) \/ ToSet(in.bins) \subseteq {0})
  BY DEF PictureMade
<1>5. ResolveBin(in, was) = First(in.streams, ItemNames(in.streams, item))
  BY ResolveIs
<1>6. NamesWhole(in, was) <=> \E n \in 1..Len(in.streams) : in.streams[n].name = item
  <2>1. DOMAIN in.streams = 1..Len(in.streams)
    BY OwnNames
  <2> QED
    BY <2>1 DEF NamesWhole, ToSet
<1>7. IdsMoved(t, in, r)
  <2>1. Len(bins.bins) >= Len(in.bins)
    OBVIOUS
  <2> HIDE DEF bins
  <2> QED
    BY <1>1, <2>1, IdsAreMoved
<1> HIDE DEF bins, r, item
<1>8. \A i \in 1..Len(t.streams) : t.streams[i].data[1] < k
  BY DEF Earlier
<1>n. names = Pairs(t, in, u.streams)
  BY <1>1 DEF Pairs
<1>9. CASE NamesWhole(in, was)
  <2>1. PICK n \in 1..Len(in.streams) : in.streams[n].name = item
    BY <1>6, <1>9
  <2> DEFINE new == NewNameOf(t, u.streams, n)
  <2>2. is = WithName(was, NewNameOf(t, u.streams, n))
    <3>1. in.streams[n].name = was.name
      BY <2>1 DEF item
    <3> QED
      BY <1>n, <3>1, NameBecomes
  <2>3. is.kind = "item" /\ is.name = new
    BY <1>3, <2>2 DEF WithName
  <2> HIDE DEF is
  <2>4. Unclaimed(t, is.name, TRUE)
    <3>1. ~Taken(u, in, k, was, is)
      BY DEF is
    <3> QED
      BY <1>2, <1>8, <2>3, <3>1, NotTaken
  <2>5. Unclaimed(t, NewNameOf(t, u.streams, n), TRUE)
    BY <2>3, <2>4
  <2>6. Found(in, in.streams[n].name, u.streams, NewNameOf(t, u.streams, n))
    BY <1>1, <1>7, <2>5, WholeResolved
  <2>7. ResolveBin(u, is) = First(u.streams, ItemNames(u.streams, is.name))
    BY <2>3, ResolveIs
  <2>8. ResolveBin(u, is) = ResolveBin(in, was)
    BY <1>5, <2>1, <2>3, <2>6, <2>7 DEF Found
  <2> QED
    BY <1>4, <2>3, <2>8 DEF Settled, is
<1>10. CASE ~NamesWhole(in, was)
  <2>1. \A n \in 1..Len(in.streams) : in.streams[n].name # item
    BY <1>6, <1>10
  <2>2. is = was
    BY <1>n, <2>1, NameStays DEF item
  <2>3. is.kind = "item" /\ is.name = item
    BY <2>2 DEF item
  <2> HIDE DEF is
  <2>4. Unclaimed(t, is.name, FALSE)
    <3>1. ~Taken(u, in, k, was, is)
      BY DEF is
    <3> QED
      BY <1>2, <1>8, <1>10, <2>3, <3>1, NotTaken
  <2>5. Unclaimed(t, item, FALSE) /\ First(in.streams, ItemNames(in.streams, item)) # {}
    BY <1>4, <1>5, <2>3, <2>4
  <2>6. Stored(in.bins) = {}
    BY <1>4, <1>10 DEF Stored
  <2>7. Found(in, item, u.streams, item)
    BY <1>1, <2>1, <2>5, <2>6, PartResolved
  <2>8. ResolveBin(u, is) = First(u.streams, ItemNames(u.streams, is.name))
    BY <2>3, ResolveIs
  <2>9. ResolveBin(u, is) = ResolveBin(in, was)
    BY <1>5, <2>3, <2>7, <2>8 DEF Found
  <2> QED
    BY <1>4, <2>3, <2>9 DEF Settled, is
<1> QED
  BY <1>9, <1>10

\* A picture of the input that a round appends.
LEMMA ShowsNew ==
  ASSUME NEW t, BinaryOK(t), NEW in, Own(in), NEW how, how.prefix \in Text, how.bin = Len(t.bins),
         NEW u, NEW names, GraftedOn(t, in, how, u, names),
         NEW k, Earlier(t, k), NEW was \in Reference, PictureMade(in, was)
  PROVE  Shows(u, in, k, Len(in.bins) - Len(GraftBins(t, in).bins), was,
               GraftedPic(how, names, was))
<1> DEFINE is == GraftedPic(how, names, was)
           a == Len(in.bins)
           b == Len(GraftBins(t, in).bins)
<1>1. a \in Nat /\ b \in Nat
  <2> DEFINE bins == GraftBins(t, in)
  <2>1. bins \in BinAccs
    BY GraftMoves
  <2> HIDE DEF bins
  <2>2. bins.bins \in Seq(Nat) /\ in.bins \in Seq(Nat)
    BY <2>1, OwnNames DEF BinAccs
  <2>3. Len(bins.bins) \in Nat /\ Len(in.bins) \in Nat
    BY <2>2
  <2> QED
    BY <2>3 DEF bins
<1> HIDE DEF a, b
<1>2. CASE a - b > 0
  BY <1>2 DEF Shows, a, b
<1>3. CASE ~(a - b > 0)
  <2>1. Len(GraftBins(t, in).bins) >= Len(in.bins)
    <3>1. b >= a
      BY <1>1, <1>3
    <3> QED
      BY <3>1 DEF a, b
  <2>2. CASE was.kind = "none"
    <3>1. is = was
      BY <2>2 DEF GraftedPic
    <3>2. ResolveBin(u, is) = {} /\ ResolveBin(in, was) = {}
      BY <2>2, <3>1, ResolveIs
    <3> QED
      BY <2>2, <3>1, <3>2 DEF Shows, Settled
  <2>3. CASE was.kind = "id"
    <3>1. Settled(u, is) /\ ResolveBin(u, is) = ResolveBin(in, was)
      BY <2>1, <2>3, ShowsById
    <3> QED
      BY <3>1 DEF Shows
  <2>4. CASE was.kind = "item"
    <3>1. CASE Taken(u, in, k, was, is)
      BY <3>1 DEF Shows
    <3>2. CASE ~Taken(u, in, k, was, is)
      <4>1. Settled(u, is) /\ ResolveBin(u, is) = ResolveBin(in, was)
        BY <2>1, <2>4, <3>2, ShowsByItem
      <4> QED
        BY <4>1 DEF Shows
    <3> QED
      BY <3>1, <3>2
  <2>5. was.kind \in {"none", "id", "item"}
    BY DEF Reference
  <2> QED
    BY <2>2, <2>3, <2>4, <2>5
<1> QED
  BY <1>2, <1>3

(***************************************************************************)
(* Pictures over the loop                                                  *)
(***************************************************************************)

\* The binary data of a document as a reader makes it.
LEMMA InputOwn ==
  ASSUME NEW d, NEW k, IsInput(d, k), StreamsMade(d)
  PROVE  Own(d) /\ \A n \in 1..Len(d.streams) : d.streams[n].data = <<k, n>>
<1> DEFINE s == d.bins
           own == d.streams
<1>1. s \in Seq(Nat) /\ own \in Seq([name : Name, data : Tag])
  BY DEF IsInput, Document
<1>2. own \in Seq(Stream)
  <2>1. [name : Name, data : Tag] \subseteq Stream
    BY NameType DEF Stream
  <2> DEFINE S == [name : Name, data : Tag]
  <2>2. own \in Seq(S) /\ S \subseteq Stream
    BY <1>1, <2>1
  <2> HIDE DEF S, own
  <2> QED
    BY <2>2
<1>3. DOMAIN own = 1..Len(own)
  BY <1>1
<1>4. IdsDiffer(s)
  BY DEF StreamsMade, IdsDiffer
<1>5. \A n \in 1..Len(own) : NameMade(s, own[n].name)
  BY <1>3 DEF StreamsMade, NameMade, Stored
<1>6. \A m, n \in 1..Len(own) : Answers(own[m].name, own[n].name) => m = n
  BY <1>3 DEF StreamsMade
<1>7. \A n \in 1..Len(own) : own[n].data = <<k, n>>
  BY <1>3 DEF IsInput
<1> QED
  BY <1>1, <1>2, <1>4, <1>5, <1>6, <1>7 DEF Own

\* What both methods do with binary data.
LEMMA MethodBinary ==
  ASSUME NEW t, NEW in
  PROVE  Method(t, in).prefix \in Text /\ Method(t, in).bin = Len(t.bins)
BY DEF Method, FastPath, General, Text

\* The streams a round adds are the input's.
LEMMA EarlierOn ==
  ASSUME NEW t, BinaryOK(t), NEW in, Own(in), NEW how, how.prefix \in Text,
         NEW u, NEW names, GraftedOn(t, in, how, u, names),
         NEW k \in Nat, Earlier(t, k),
         \A n \in 1..Len(in.streams) : in.streams[n].data = <<k, n>>
  PROVE  Earlier(u, k + 1)
<1> DEFINE r == GraftBins(t, in).renamed
           more == u.streams
           a == Len(t.streams)
           c == Len(in.streams)
<1>1. Moved(t, in, how.prefix, r, more)
  BY GraftMoves
<1> HIDE DEF r
<1>2. /\ t.streams \in Seq(Stream) /\ Len(more) = a + c
      /\ \A i \in 1..a : more[i] = t.streams[i]
  BY <1>1 DEF Moved
<1>3. a \in Nat /\ c \in Nat
  BY <1>2, OwnNames
<1>4. ASSUME NEW i \in 1..a PROVE more[i].data[1] < k + 1
  <2>1. t.streams[i] \in Stream
    BY <1>2
  <2>2. t.streams[i].data[1] \in Nat
    BY <2>1 DEF Stream, Tag
  <2>3. t.streams[i].data[1] < k
    BY DEF Earlier
  <2> DEFINE x == t.streams[i].data[1]
  <2>4. x \in Nat /\ x < k /\ more[i].data[1] = x
    BY <1>2, <2>2, <2>3
  <2> HIDE DEF x
  <2> QED
    BY <2>4
<1>5. ASSUME NEW n \in 1..c PROVE more[a + n].data[1] < k + 1
  <2>1. more[a + n].data = in.streams[n].data
    BY <1>1, OwnTurned
  <2>2. more[a + n].data[1] = k
    BY <2>1
  <2> QED
    BY <2>2
<1> HIDE DEF a, c
<1>6. ASSUME NEW i \in 1..(a + c) PROVE i \in 1..a \/ \E n \in 1..c : i = a + n
  <2>1. CASE ~(i \in 1..a)
    <3>1. i - a \in 1..c /\ i = a + (i - a)
      BY <1>3, <2>1
    <3> QED
      BY <3>1
  <2> QED
    BY <2>1
<1>7. \A i \in 1..Len(more) : more[i].data[1] < k + 1
  BY <1>2, <1>4, <1>5, <1>6
<1> QED
  BY <1>7 DEF Earlier

\* The pictures of a section of the target, and the input it was.
SectionShows(t, in, k, lost, new) ==
  \A j \in DOMAIN in.sections[1] : Shows(t, in, k, lost, in.sections[1][j].pic, new[j].pic)

\* Where the loop is: every section shows what it showed.
PicturesInv ==
  /\ ObjectsInv
  /\ BinaryOK(target) /\ Earlier(target, done + 1)
  /\ DOMAIN losses = 1..3
  /\ \A i \in 1..done :
       SectionShows(target, inputs[i], i, losses[i].bins, target.sections[i])

\* The pictures of the section that a round appends.
LEMMA SectionAdded ==
  ASSUME NEW in, NEW i, IsInput(in, i), StreamsMade(in),
         \A j \in DOMAIN in.sections[1] : PictureMade(in, in.sections[1][j].pic),
         NEW t, BinaryOK(t), NEW how, how.prefix \in Text, how.bin = Len(t.bins),
         NEW u, NEW names, GraftedOn(t, in, how, u, names),
         NEW k, Earlier(t, k), NEW object \in Int, NEW z \in Int
  PROVE  SectionShows(u, in, k, Len(in.bins) - Len(GraftBins(t, in).bins),
                      Renumbered(Remapped(in, how, names), object, z).section)
<1> DEFINE sec == Remapped(in, how, names)
           num == Renumbered(sec, object, z)
           lost == Len(in.bins) - Len(GraftBins(t, in).bins)
<1>1. /\ DOMAIN sec = DOMAIN in.sections[1] /\ HasObjects(sec)
      /\ \A j \in DOMAIN sec : sec[j] = GraftedParagraph(how, names, in.sections[1][j])
  BY RemappedObjects DEF HasObjects
<1> HIDE DEF sec
<1>2. /\ DOMAIN num.section = DOMAIN sec
      /\ \A j \in DOMAIN sec : num.section[j] = [sec[j] EXCEPT !.object = num.section[j].object]
  BY <1>1, RenumberedFacts
<1> HIDE DEF num
<1>3. Own(in)
  BY InputOwn
<1>4. ASSUME NEW j \in DOMAIN in.sections[1]
      PROVE  Shows(u, in, k, lost, in.sections[1][j].pic, num.section[j].pic)
  <2> DEFINE p == in.sections[1][j]
             o == num.section[j].object
  <2>1. p \in Paragraph
    BY InputParts
  <2>2. PictureMade(in, p.pic)
    OBVIOUS
  <2>3. num.section[j] = [GraftedParagraph(how, names, p) EXCEPT !.object = o]
    BY <1>1, <1>2
  <2> HIDE DEF p, o
  <2>4. num.section[j].pic = GraftedPic(how, names, p.pic)
    BY <2>1, <2>3 DEF GraftedParagraph, Paragraph
  <2>5. p.pic \in Reference
    BY <2>1 DEF Paragraph
  <2>6. Shows(u, in, k, lost, p.pic, GraftedPic(how, names, p.pic))
    BY <1>3, <2>2, <2>5, ShowsNew
  <2> QED
    BY <2>4, <2>6 DEF p
<1> QED
  BY <1>4 DEF SectionShows, num, sec

\* A round of the loop, with what becomes of binary data.
LEMMA PicturesRound ==
  ASSUME MergeInput, InputsOK, done \in 1..3
  PROVE  \/ UNCHANGED <<done, target, losses>>
         \/ \E names :
              LET in  == inputs[done + 1]
                  how == Method(target, in)
              IN /\ done + 1 \in 1..3 /\ done' = done + 1
                 /\ GraftedOn(target, in, how, target', names)
                 /\ target'.sections
                      = Append(target.sections,
                               Renumbered(Remapped(in, how, names), nextObject, nextZ).section)
                 /\ \E pages : losses' =
                      [losses EXCEPT ![done + 1] =
                         [bins |-> Len(in.bins) - Len(GraftBins(target, in).bins), pages |-> pages]]
<1> DEFINE in   == inputs[done + 1]
           how  == Method(target, in)
           bins == GraftBins(target, in)
           strs == GraftStreams(target, how, in, bins.renamed)
           sec  == [i \in DOMAIN in.sections[1] |->
                      GraftedParagraph(how, strs.names, in.sections[1][i])]
           num  == Renumbered(sec, nextObject, nextZ)
<1>1. done + 1 \in 1..3
  <2>1. done < Len(inputs) /\ Len(inputs) = 3
    BY DEF MergeInput, InputsOK
  <2> QED
    BY <2>1
<1>2. CASE Overflows(target, in, how, sec, num)
  BY <1>2 DEF MergeInput
<1>3. CASE ~Overflows(target, in, how, sec, num)
  <2>1. /\ done' = done + 1
        /\ target' = Merged(target, in, how, bins.bins, strs.streams, num.section)
        /\ losses' = [losses EXCEPT ![done + 1] =
             [bins  |-> Len(in.bins) - Len(bins.bins),
              pages |-> Cardinality({j \in DOMAIN sec : how.whole /\ sec[j].page.text})]]
    BY <1>3 DEF MergeInput
  <2>2. sec = Remapped(in, how, strs.names)
    BY DEF Remapped
  <2>3. /\ target'.bins = target.bins \o bins.bins
        /\ target'.streams = strs.streams
        /\ target'.sections = Append(target.sections, num.section)
    BY <2>1 DEF Merged
  <2>4. GraftedOn(target, in, how, target', strs.names)
    BY <2>3 DEF GraftedOn
  <2> DEFINE names == strs.names
             pages == Cardinality({j \in DOMAIN sec : how.whole /\ sec[j].page.text})
             lost  == Len(in.bins) - Len(bins.bins)
  <2>5. /\ GraftedOn(target, in, how, target', names)
        /\ target'.sections
             = Append(target.sections,
                      Renumbered(Remapped(in, how, names), nextObject, nextZ).section)
        /\ losses' = [losses EXCEPT ![done + 1] = [bins |-> lost, pages |-> pages]]
    BY <2>1, <2>2, <2>3, <2>4
  <2> HIDE DEF names, pages
  <2>6. \E p : losses' = [losses EXCEPT ![done + 1] = [bins |-> lost, pages |-> p]]
    BY <2>5
  <2> HIDE DEF in, how, lost, bins, strs, sec, num
  <2>7. \E n :
          /\ GraftedOn(target, in, how, target', n)
          /\ target'.sections
               = Append(target.sections,
                        Renumbered(Remapped(in, how, n), nextObject, nextZ).section)
          /\ \E p : losses' = [losses EXCEPT ![done + 1] = [bins |-> lost, pages |-> p]]
    BY <2>5, <2>6
  <2> QED
    BY <1>1, <2>1, <2>7 DEF in, how, lost, bins
<1> QED
  BY <1>2, <1>3

\* The first input as the target.
LEMMA PicturesInit == Init /\ PicturesMade => PicturesInv /\ PicturesMade
<1> SUFFICES ASSUME Init, PicturesMade PROVE PicturesInv
  OBVIOUS
<1>1. ObjectsInv
  BY ObjectsInit
<1>2. InputsOK /\ target = inputs[1] /\ done = 1
  BY InitInputs DEF Init
<1>3. /\ DOMAIN inputs = 1..3 /\ IsInput(target, 1)
      /\ losses = [i \in DOMAIN inputs |-> [bins |-> 0, pages |-> 0]]
  BY <1>2 DEF InputsOK, Init
<1>4. DOMAIN losses = 1..3
  BY <1>3
<1>5. /\ StreamsMade(target)
      /\ \A j \in DOMAIN target.sections[1] : PictureMade(target, target.sections[1][j].pic)
  BY <1>2, <1>3 DEF PicturesMade
<1>6. Own(target) /\ \A n \in 1..Len(target.streams) : target.streams[n].data = <<1, n>>
  BY <1>3, <1>5, InputOwn
<1>7. BinaryOK(target)
  BY <1>6, OwnBinary
<1>8. Earlier(target, done + 1)
  <2>1. \A n \in 1..Len(target.streams) : target.streams[n].data[1] = 1
    BY <1>6
  <2> QED
    BY <1>2, <2>1 DEF Earlier
<1>9. SectionShows(target, target, 1, losses[1].bins, target.sections[1])
  <2>1. ASSUME NEW is, PictureMade(target, is) PROVE Settled(target, is)
    BY <2>1 DEF PictureMade, Settled
  <2> QED
    BY <1>5, <2>1 DEF SectionShows, Shows
<1>10. \A i \in 1..done : SectionShows(target, inputs[i], i, losses[i].bins, target.sections[i])
  <2>1. \A i \in 1..done : i = 1
    BY <1>2
  <2> QED
    BY <1>2, <1>9, <2>1
<1> QED
  BY <1>1, <1>4, <1>7, <1>8, <1>10 DEF PicturesInv

\* A round: what was there shows what it showed, and what is appended too.
LEMMA PicturesStep == PicturesInv /\ PicturesMade /\ [Next]_vars => PicturesInv' /\ PicturesMade'
<1> SUFFICES ASSUME PicturesInv, PicturesMade, [Next]_vars PROVE PicturesInv' /\ PicturesMade'
  OBVIOUS
<1>1. /\ ObjectsInv /\ InputsOK /\ done \in 1..3
      /\ Len(target.sections) = done /\ DOMAIN target.sections = 1..done
      /\ nextObject \in Int /\ nextZ \in Int
      /\ BinaryOK(target) /\ Earlier(target, done + 1) /\ DOMAIN losses = 1..3
      /\ \A i \in 1..done :
           SectionShows(target, inputs[i], i, losses[i].bins, target.sections[i])
  BY DEF PicturesInv, ObjectsInv
<1>2. ObjectsInv'
  BY <1>1, ObjectsStep
<1>3. inputs' = inputs
  BY DEF Next, MergeInput, Finish, Done, vars
<1>4. PicturesMade'
  BY <1>3 DEF PicturesMade
<1>5. CASE UNCHANGED <<done, target, losses>>
  BY <1>1, <1>2, <1>3, <1>4, <1>5 DEF PicturesInv
<1>6. ASSUME NEW names, done + 1 \in 1..3, done' = done + 1,
             GraftedOn(target, inputs[done + 1], Method(target, inputs[done + 1]), target', names),
             target'.sections
               = Append(target.sections,
                        Renumbered(Remapped(inputs[done + 1],
                                            Method(target, inputs[done + 1]), names),
                                   nextObject, nextZ).section),
             NEW pages,
             losses' = [losses EXCEPT ![done + 1] =
                          [bins |-> Len(inputs[done + 1].bins)
                                      - Len(GraftBins(target, inputs[done + 1]).bins),
                           pages |-> pages]]
      PROVE  PicturesInv'
  <2> DEFINE k    == done + 1
             in   == inputs[k]
             how  == Method(target, in)
             new  == Renumbered(Remapped(in, how, names), nextObject, nextZ).section
             lost == Len(in.bins) - Len(GraftBins(target, in).bins)
             u    == target'
  <2>1. /\ IsInput(in, k) /\ StreamsMade(in)
        /\ \A j \in DOMAIN in.sections[1] : PictureMade(in, in.sections[1][j].pic)
    BY <1>1, <1>6 DEF InputsOK, PicturesMade
  <2>2. Own(in) /\ \A n \in 1..Len(in.streams) : in.streams[n].data = <<k, n>>
    BY <2>1, InputOwn
  <2>3. how.prefix \in Text /\ how.bin = Len(target.bins)
    BY MethodBinary
  <2>4. GraftedOn(target, in, how, u, names) /\ u.sections = Append(target.sections, new)
        /\ losses' = [losses EXCEPT ![k] = [bins |-> lost, pages |-> pages]]
    BY <1>6
  <2>5. k \in Nat /\ k \in 1..3 /\ done' = k /\ Earlier(target, k)
    BY <1>1, <1>6
  <2>6. DOMAIN losses' = 1..3 /\ losses'[k].bins = lost
        /\ \A i \in 1..3 : i # k => losses'[i] = losses[i]
    BY <1>1, <2>4, <2>5
  <2> HIDE DEF in, how, k, u
  <2>7. BinaryOK(u) /\ TargetGrows(target, u)
    BY <1>1, <2>2, <2>3, <2>4, GraftIsOn
  <2>8. Earlier(u, k + 1)
    BY <1>1, <2>2, <2>3, <2>4, <2>5, EarlierOn
  <2>9. SectionShows(u, in, k, lost, new)
    BY <1>1, <2>1, <2>3, <2>4, <2>5, SectionAdded
  <2> HIDE DEF new, lost
  <2>10. u.sections[k] = new /\ \A i \in 1..done : u.sections[i] = target.sections[i]
    <3> DEFINE old == target.sections
    <3>1. DOMAIN old = 1..done /\ Len(old) = done
      BY <1>1
    <3>2. \A i \in 1..(done + 1) : Append(old, new)[i] = IF i <= done THEN old[i] ELSE new
      BY <3>1, <1>1
    <3> QED
      BY <2>4, <3>2, <1>1 DEF k
  <2>11. ASSUME NEW i \in 1..k
         PROVE  SectionShows(u, inputs[i], i, losses'[i].bins, u.sections[i])
    <3>1. CASE i = k
      BY <2>6, <2>9, <2>10, <3>1 DEF in
    <3>2. CASE i # k
      <4>1. i \in 1..done /\ i \in 1..3
        BY <1>1, <3>2 DEF k
      <4>2. /\ SectionShows(target, inputs[i], i, losses[i].bins, u.sections[i])
            /\ losses'[i] = losses[i]
        BY <1>1, <2>6, <2>10, <3>2, <4>1
      <4>3. ASSUME NEW was, NEW is, Shows(target, inputs[i], i, losses[i].bins, was, is)
            PROVE  Shows(u, inputs[i], i, losses[i].bins, was, is)
        BY <1>1, <2>7, <4>3, ShowsOn
      <4> QED
        BY <4>2, <4>3 DEF SectionShows
    <3> QED
      BY <3>1, <3>2
  <2> QED
    BY <1>2, <1>3, <2>5, <2>6, <2>7, <2>8, <2>11 DEF PicturesInv, u
<1>7. CASE MergeInput
  BY <1>7, <1>1, <1>4, <1>5, <1>6, PicturesRound
<1>8. CASE ~MergeInput
  BY <1>5, <1>8 DEF Next, Finish, Done, vars
<1> QED
  BY <1>4, <1>5, <1>7, <1>8

\* What a section shows in that invariant is what PicturesKept says of it.
LEMMA PicturesFollow == PicturesInv => PicturesKept
<1> SUFFICES ASSUME PicturesInv, NEW i \in 1..done, NEW j \in DOMAIN inputs[i].sections[1]
             PROVE  LET was == inputs[i].sections[1][j].pic
                        is  == target.sections[i][j].pic
                    IN \/ ResolveBin(target, is) = ResolveBin(inputs[i], was)
                       \/ losses[i].bins > 0
                       \/ Ambiguous(i, was, is)
  BY DEF PicturesKept
<1>1. Shows(target, inputs[i], i, losses[i].bins, inputs[i].sections[1][j].pic,
            target.sections[i][j].pic)
  BY DEF PicturesInv, SectionShows
<1> QED
  BY <1>1 DEF Shows, Taken, Ambiguous

\* Whatever documents are merged, by either method and in any order, every
\* paragraph refers to what it referred to (to its tabs where ReferencesStay says
\* so) and shows the picture it showed, or its input's losses count binary data
\* that was dropped, or the picture names a package item whose name a stream of
\* an earlier input has too (graft_header_general, graft_palette_compatible,
\* graft_bin_data, graft_bin_streams, remap_paragraph, resolve_bin).
THEOREM MeaningKept == Spec /\ WellMade /\ PicturesMade => []MergeKeepsMeaning
<1>1. ReferencesKept /\ PicturesKept => MergeKeepsMeaning
  BY DEF MergeKeepsMeaning
<1> QED
  BY <1>1, ReferencesFollow, TabsInit, TabsStep, PicturesInit, PicturesStep, PicturesFollow,
     PTL DEF Spec

-----------------------------------------------------------------------------
(* Splitting: what a run leaves in the directory.                          *)

Entries ==
  {Absent, Folder, Users} \cup {Fragment(r, n) : r \in Nat, n \in Nat}

\* The fragments are in place under their numbers.
InPlace == \A n \in Numbers \cap DOMAIN fragments : dir[n] = Fragment(run, n)

\* What is left of other files is to be looked at, was missed, or a warning was
\* given.
Remaining ==
  /\ stale \subseteq Numbers \ DOMAIN fragments
  /\ \A n \in Numbers \ DOMAIN fragments :
       dir[n] \in {Absent, Folder} \/ n \in stale \/ n \in missed \/ warned

JobsOK ==
  /\ job \in Seq(ToSet(job))
  /\ \A r \in ToSet(job) : r.pages \subseteq Ranges /\ \A d \in r.docs : IsDocument(d)

SplitTypeOK ==
  /\ JobsOK
  /\ IsDocument(doc) /\ ranges \in Ranges
  /\ dir \in [Numbers -> Entries]
  /\ run \in Nat
  /\ at \in Ends \cup {"split", "build", "publish", "list", "clean"}
  /\ warned \in BOOLEAN
  /\ Len(fragments) \in Nat /\ DOMAIN fragments = 1..Len(fragments)

SplitInv ==
  /\ SplitTypeOK
  /\ at = "list" => InPlace
  /\ at = "clean" => InPlace /\ Remaining
  /\ SuccessIsComplete

\* An empty document, and no ranges.
LEMMA EmptyDocument == IsDocument(<<>>) /\ <<>> \in Ranges
BY DEF IsDocument, Ranges

\* No fragments.
LEMMA NoFragments == Len(<<>>) \in Nat /\ DOMAIN <<>> = 1..Len(<<>>)
OBVIOUS

\* The tail of a sequence is one of its own entries.
LEMMA OwnRange ==
  ASSUME NEW R, NEW s \in Seq(R), s # <<>>
  PROVE  Tail(s) \in Seq(ToSet(Tail(s)))
<1>1. \A t \in Seq(R) : t \in Seq(ToSet(t))
  <2> SUFFICES ASSUME NEW t \in Seq(R) PROVE t \in Seq(ToSet(t))
    OBVIOUS
  <2>1. t \in [1..Len(t) -> R] /\ Len(t) \in Nat
    OBVIOUS
  <2>2. \A n \in 1..Len(t) : t[n] \in ToSet(t)
    BY <2>1 DEF ToSet
  <2>3. t \in [1..Len(t) -> ToSet(t)]
    BY <2>1, <2>2
  <2> QED
    BY <2>1, <2>3, SeqDef
<1>2. Tail(s) \in Seq(R)
  OBVIOUS
<1> QED
  BY <1>1, <1>2

\* What an entry of the directory is.
LEMMA EntryKinds ==
  ASSUME NEW e \in Entries
  PROVE  e.kind \in {"fragment", "user"} \/ e \in {Absent, Folder}
BY DEF Entries, Absent, Folder, Users, Fragment

\* The fragments of a cut are numbered from 1.
LEMMA CutCounts ==
  ASSUME NEW d, IsDocument(d), NEW rs \in Ranges
  PROVE  Len(Cut(d, rs)) \in Nat /\ DOMAIN Cut(d, rs) = 1..Len(Cut(d, rs))
<1>1. Len(d) \in Nat /\ DOMAIN d = 1..Len(d)
  BY DEF IsDocument
<1>2. Len(rs) \in Nat /\ DOMAIN rs = 1..Len(rs)
  BY DEF Ranges
<1>3. DOMAIN Cut(d, rs) = 1..Len(d) \/ DOMAIN Cut(d, rs) = 1..Len(rs)
  BY <1>1, <1>2 DEF Cut
<1>4. \A n \in Nat : DOMAIN Cut(d, rs) = 1..n => Len(Cut(d, rs)) = n
  OBVIOUS
<1> QED
  BY <1>1, <1>2, <1>3, <1>4

\* No run has published yet.
LEMMA SplitInitInv == SplitInit => SplitInv
<1> SUFFICES ASSUME SplitInit PROVE SplitInv
  OBVIOUS
<1>1. PICK j \in Jobs : job = j.runs /\ dir \in j.dirs
  BY DEF SplitInit
<1>2. JobsOK
  BY <1>1, JobsAssumption DEF JobsOK
<1>3. dir \in [Numbers -> Entries]
  BY <1>1, JobsAssumption DEF Entries
<1>4. SplitTypeOK
  <2>1. IsDocument(doc) /\ ranges \in Ranges
    BY EmptyDocument DEF SplitInit
  <2>2. Len(fragments) \in Nat /\ DOMAIN fragments = 1..Len(fragments)
    BY NoFragments DEF SplitInit
  <2>3. at \in Ends /\ warned \in BOOLEAN /\ run \in Nat
    BY DEF SplitInit, Ends
  <2> QED
    BY <1>2, <1>3, <2>1, <2>2, <2>3 DEF SplitTypeOK
<1> QED
  BY <1>4 DEF SplitInit, SplitInv, SuccessIsComplete

\* Every step leaves documents, ranges and directory entries.
LEMMA SplitTypeStep == SplitTypeOK /\ [SplitNext]_splitVars => SplitTypeOK'
<1> SUFFICES ASSUME SplitTypeOK, [SplitNext]_splitVars PROVE SplitTypeOK'
  OBVIOUS
<1>1. CASE Load
  <2>1. job # <<>> /\ job \in Seq(ToSet(job))
    BY <1>1 DEF Load, SplitTypeOK, JobsOK
  <2>2. Head(job) \in ToSet(job) /\ ToSet(Tail(job)) \subseteq ToSet(job)
    <3>1. Head(job) = job[1] /\ 1 \in DOMAIN job
      BY <2>1
    <3>2. \A n \in DOMAIN Tail(job) : n + 1 \in DOMAIN job /\ Tail(job)[n] = job[n + 1]
      BY <2>1
    <3> QED
      BY <3>1, <3>2 DEF ToSet
  <2>3. Tail(job) \in Seq(ToSet(Tail(job)))
    BY <2>1, OwnRange
  <2>4. JobsOK'
    BY <1>1, <2>2, <2>3 DEF Load, SplitTypeOK, JobsOK
  <2>5. IsDocument(doc') /\ ranges' \in Ranges
    BY <1>1, <2>2 DEF Load, SplitTypeOK, JobsOK
  <2>6. dir' = dir /\ run' = run + 1 /\ at' = "split" /\ warned' = FALSE /\ fragments' = <<>>
    BY <1>1 DEF Load
  <2>7. Len(fragments') \in Nat /\ DOMAIN fragments' = 1..Len(fragments')
    BY <2>6, NoFragments
  <2>8. run' \in Nat /\ dir' \in [Numbers -> Entries]
    BY <2>6 DEF SplitTypeOK
  <2>9. at' \in Ends \cup {"split", "build", "publish", "list", "clean"} /\ warned' \in BOOLEAN
    BY <2>6
  <2> QED
    BY <2>4, <2>5, <2>7, <2>8, <2>9 DEF SplitTypeOK
<1>2. CASE Split
  <2>1. UNCHANGED <<job, doc, ranges, dir, run, warned>> /\ at' \in {"failed", "build"}
        /\ (fragments' = fragments \/ fragments' = Cut(doc, ranges))
    BY <1>2 DEF Split, input, noticed
  <2> QED
    BY <2>1, CutCounts DEF SplitTypeOK, JobsOK, Ends
<1>3. CASE Build
  BY <1>3 DEF Build, input, noticed, SplitTypeOK, JobsOK, Ends, Fault
<1>4. CASE Publish
  <2>1. UNCHANGED <<job, doc, ranges, run, warned, fragments>> /\ at' \in {"failed", "list"}
    BY <1>4 DEF Publish, input, noticed
  <2>2. dir' \in [Numbers -> Entries]
    <3> DEFINE Published(k) == [n \in Numbers |-> IF n \in 1..k THEN Fragment(run, n) ELSE dir[n]]
    <3>1. ASSUME NEW k \in Nat PROVE Published(k) \in [Numbers -> Entries]
      BY <3>1, FilesAssumption DEF SplitTypeOK, Entries
    <3>2. \/ dir' = Published(Len(fragments)) \/ dir' = dir
          \/ \E k \in 0..(Len(fragments) - 1) : dir' = [Published(k) EXCEPT ![k + 1] = Absent]
      BY <1>4 DEF Publish
    <3>3. Absent \in Entries
      BY DEF Entries
    <3> HIDE DEF Published
    <3> QED
      BY <3>1, <3>2, <3>3 DEF SplitTypeOK
  <2> QED
    BY <2>1, <2>2 DEF SplitTypeOK, JobsOK, Ends
<1>5. CASE ListDirectory
  BY <1>5 DEF ListDirectory, input, SplitTypeOK, JobsOK, Ends, Fault
<1>6. CASE RemoveStale
  <2>1. UNCHANGED <<job, doc, ranges, run, at, fragments>>
        /\ (warned' = warned \/ warned' = TRUE)
        /\ (dir' = dir \/ \E n \in stale : dir' = [dir EXCEPT ![n] = Absent])
    BY <1>6 DEF RemoveStale, input, noticed
  <2>2. Absent \in Entries
    BY DEF Entries
  <2> QED
    BY <2>1, <2>2 DEF SplitTypeOK, JobsOK
<1>7. CASE Report
  BY <1>7 DEF Report, input, noticed, SplitTypeOK, JobsOK, Ends
<1>8. CASE Die
  BY <1>8 DEF Die, input, noticed, SplitTypeOK, JobsOK, Ends
<1>9. CASE UNCHANGED splitVars
  BY <1>9 DEF splitVars, noticed, SplitTypeOK, JobsOK
<1> QED
  BY <1>1, <1>2, <1>3, <1>4, <1>5, <1>6, <1>7, <1>8, <1>9 DEF SplitNext, SplitDone

\* A step reaches the listing with the fragments in place, and the report with
\* nothing left to look at.
LEMMA SplitStep == SplitInv /\ [SplitNext]_splitVars => SplitInv'
<1> SUFFICES ASSUME SplitInv, [SplitNext]_splitVars PROVE SplitInv'
  OBVIOUS
<1>1. SplitTypeOK /\ SplitTypeOK'
  BY SplitTypeStep DEF SplitInv
<1>2. CASE at' \notin {"list", "clean", "ok"}
  BY <1>1, <1>2 DEF SplitInv, SuccessIsComplete
<1>3. CASE Publish
  <2>1. CASE at' = "failed"
    BY <1>1, <2>1 DEF SplitInv, SuccessIsComplete
  <2>2. CASE at' # "failed"
    <3>1. /\ at' = "list" /\ UNCHANGED <<fragments, run>>
          /\ dir' = [n \in Numbers |-> IF n \in 1..Len(fragments) THEN Fragment(run, n) ELSE dir[n]]
      BY <1>3, <2>2 DEF Publish
    <3>2. InPlace'
      BY <3>1, <1>1 DEF InPlace, SplitTypeOK
    <3> QED
      BY <1>1, <3>1, <3>2 DEF SplitInv, SuccessIsComplete
  <2> QED
    BY <2>1, <2>2
<1>4. CASE ListDirectory
  <2>1. UNCHANGED <<fragments, run, dir>> /\ InPlace
    BY <1>4 DEF ListDirectory, SplitInv
  <2>2. InPlace'
    BY <2>1 DEF InPlace
  <2>3. CASE at' = "clean"
    <3>1. PICK lost \in SUBSET {n \in Numbers : IsStale(n)} :
            stale' = {n \in Numbers : IsStale(n)} \ lost /\ missed' = lost
      BY <1>4, <2>3 DEF ListDirectory
    <3>2. \A n \in Numbers : dir[n] \in Entries
      BY <1>1 DEF SplitTypeOK
    <3>3. Remaining'
      BY <2>1, <3>1, <3>2, EntryKinds DEF Remaining, IsStale
    <3> QED
      BY <1>1, <2>2, <2>3, <3>3 DEF SplitInv, SuccessIsComplete
  <2>4. CASE at' # "clean"
    <3>1. at' = "ok" /\ warned' = TRUE
      BY <1>4, <2>4 DEF ListDirectory
    <3> QED
      BY <1>1, <3>1 DEF SplitInv, SuccessIsComplete
  <2> QED
    BY <2>3, <2>4
<1>5. CASE RemoveStale
  <2>1. at = "clean" /\ at' = "clean" /\ UNCHANGED <<fragments, run>> /\ InPlace /\ Remaining
    BY <1>5 DEF RemoveStale, SplitInv
  <2>2. PICK n \in stale :
          /\ stale' = stale \ {n}
          /\ \/ dir' = [dir EXCEPT ![n] = Absent] /\ warned' = warned /\ missed' = missed
             \/ dir' = dir /\ warned' = TRUE /\ missed' = missed
             \/ dir' = dir /\ warned' = warned /\ missed' = missed \cup {n}
    BY <1>5 DEF RemoveStale, noticed
  <2>3. n \in Numbers /\ n \notin DOMAIN fragments /\ dir \in [Numbers -> Entries]
    BY <2>1, <2>2, <1>1 DEF Remaining, SplitTypeOK
  <2>4. InPlace'
    BY <2>1, <2>2, <2>3 DEF InPlace
  <2>5. Remaining'
    BY <2>1, <2>2, <2>3 DEF Remaining
  <2> QED
    BY <1>1, <2>1, <2>4, <2>5 DEF SplitInv, SuccessIsComplete
<1>6. CASE Report
  <2>1. at = "clean" /\ stale = {} /\ at' = "ok" /\ InPlace /\ Remaining
        /\ UNCHANGED <<fragments, run, dir, warned, missed>>
    BY <1>6 DEF Report, SplitInv, noticed
  <2>2. ~warned => \A n \in Numbers :
          IF n \in DOMAIN fragments THEN dir[n] = Fragment(run, n)
                                    ELSE dir[n] \in {Absent, Folder} \/ n \in missed
    BY <2>1 DEF InPlace, Remaining
  <2> QED
    BY <1>1, <2>1, <2>2 DEF SplitInv, SuccessIsComplete
<1>7. CASE UNCHANGED splitVars
  BY <1>1, <1>7 DEF SplitInv, SuccessIsComplete, InPlace, Remaining, splitVars, noticed
<1>8. CASE Load \/ Split \/ Build \/ Die
  <2>1. at' \notin {"list", "clean", "ok"}
    BY <1>8 DEF Load, Split, Build, Die
  <2> QED
    BY <2>1, <1>2
<1> QED
  BY <1>3, <1>4, <1>5, <1>6, <1>7, <1>8 DEF SplitNext, SplitDone

\* A run of hwp split that succeeds without a warning leaves exactly its own
\* fragments and the entries it could not read or look at, whatever documents,
\* ranges and files there were, however many runs and failures before it
\* (execute, remove_stale_fragments, #177).
THEOREM SuccessComplete == SplitSpec => []SuccessIsComplete
<1>1. SplitInv => SuccessIsComplete
  BY DEF SplitInv
<1> QED
  BY <1>1, SplitInitInv, SplitStep, PTL DEF SplitSpec

-----------------------------------------------------------------------------
(* Splitting: what a fragment holds.                                       *)

\* The recursion of FlattenSeq, up to the n-th sequence.
Flattens(ss, f, n) ==
  f = [i \in 1..n |-> IF i = 1 THEN ss[i] ELSE f[i - 1] \o ss[i]]

\* What such a recursion computes.
FlatValues(T, ss, f, n) ==
  /\ f \in [1..n -> Seq(T)]
  /\ n > 0 => f[1] = ss[1]
  /\ \A i \in 2..n : f[i] = f[i - 1] \o ss[i]

\* The recursion's values, from its equation.
LEMMA FlatUpTo ==
  ASSUME NEW T, NEW ss \in Seq(Seq(T)), NEW f, NEW n \in Nat, n <= Len(ss), Flattens(ss, f, n)
  PROVE  FlatValues(T, ss, f, n)
<1> DEFINE S == {k \in Nat : k \in 1..n => f[k] \in Seq(T)}
<1>1. DOMAIN f = 1..n /\ \A i \in 1..n : f[i] = IF i = 1 THEN ss[i] ELSE f[i - 1] \o ss[i]
  BY DEF Flattens
<1>2. n > 0 => f[1] = ss[1]
  <2> SUFFICES ASSUME n > 0 PROVE f[1] = ss[1]
    OBVIOUS
  <2>1. 1 \in 1..n
    OBVIOUS
  <2> QED
    BY <1>1, <2>1, Zenon
<1>3. \A i \in 2..n : f[i] = f[i - 1] \o ss[i]
  <2> SUFFICES ASSUME NEW i \in 2..n PROVE f[i] = f[i - 1] \o ss[i]
    OBVIOUS
  <2>1. i \in 1..n /\ i # 1
    OBVIOUS
  <2> QED
    BY <1>1, <2>1, Zenon
<1>4. \A i \in 1..n : ss[i] \in Seq(T)
  OBVIOUS
<1>5. 0 \in S
  OBVIOUS
<1>6. ASSUME NEW k \in Nat, k \in S PROVE k + 1 \in S
  <2> SUFFICES ASSUME k + 1 \in 1..n PROVE f[k + 1] \in Seq(T)
    OBVIOUS
  <2>1. CASE k = 0
    BY <2>1, <1>2, <1>4
  <2>2. CASE k # 0
    <3>1. f[k] \in Seq(T) /\ ss[k + 1] \in Seq(T)
      BY <2>2, <1>6, <1>4
    <3>2. k + 1 \in 2..n /\ (k + 1) - 1 = k
      BY <2>2
    <3>3. f[k + 1] = f[k] \o ss[k + 1]
      BY <3>2, <1>3, Zenon
    <3> QED
      BY <3>1, <3>3
  <2> QED
    BY <2>1, <2>2
<1>7. Nat \subseteq S
  <2> HIDE DEF S
  <2> QED
    BY <1>5, <1>6, AllNumbers
<1>8. \A k \in 1..n : f[k] \in Seq(T)
  BY <1>7
<1>9. f = [i \in 1..n |-> f[i]]
  BY Zenon DEF Flattens
<1>10. f \in [1..n -> Seq(T)]
  <2> HIDE DEF S
  <2> QED
    BY <1>8, <1>9, Zenon
<1> QED
  BY <1>2, <1>3, <1>10 DEF FlatValues

\* There is such a function: each sequence extends the one up to it.
LEMMA FlatExists ==
  ASSUME NEW T, NEW ss \in Seq(Seq(T))
  PROVE  \E f : Flattens(ss, f, Len(ss))
<1> DEFINE S == {n \in Nat : n <= Len(ss) => \E f : Flattens(ss, f, n)}
<1>1. 0 \in S
  <2>1. Flattens(ss, [i \in 1..0 |-> ss], 0)
    BY DEF Flattens
  <2> QED
    BY <2>1
<1>2. ASSUME NEW n \in Nat, n \in S PROVE n + 1 \in S
  <2> SUFFICES ASSUME n + 1 <= Len(ss) PROVE \E f : Flattens(ss, f, n + 1)
    OBVIOUS
  <2>1. PICK f : Flattens(ss, f, n)
    BY <1>2
  <2> DEFINE g == [i \in 1..n + 1 |-> IF i = 1 THEN ss[i] ELSE f[i - 1] \o ss[i]]
  <2>2. \A i \in 1..n : f[i] = IF i = 1 THEN ss[i] ELSE f[i - 1] \o ss[i]
    BY <2>1 DEF Flattens
  <2>3. \A i \in 1..n : g[i] = f[i]
    BY <2>2
  <2>4. \A i \in 1..n + 1 :
          (IF i = 1 THEN ss[i] ELSE f[i - 1] \o ss[i]) = (IF i = 1 THEN ss[i] ELSE g[i - 1] \o ss[i])
    <3> SUFFICES ASSUME NEW i \in 1..n + 1, i # 1 PROVE f[i - 1] = g[i - 1]
      BY Zenon
    <3>1. i - 1 \in 1..n
      OBVIOUS
    <3> QED
      BY <3>1, <2>3
  <2>5. g = [i \in 1..n + 1 |-> IF i = 1 THEN ss[i] ELSE g[i - 1] \o ss[i]]
    BY <2>4, Zenon
  <2> QED
    BY <2>5, Zenon DEF Flattens
<1>3. Nat \subseteq S
  <2> HIDE DEF S
  <2> QED
    BY <1>1, <1>2, AllNumbers
<1> QED
  BY <1>3

\* So FlattenSeq is the last value of such a recursion.
LEMMA Flattening ==
  ASSUME NEW T, NEW ss \in Seq(Seq(T)), Len(ss) > 0
  PROVE  \E f \in [1..Len(ss) -> Seq(T)] :
           /\ f[1] = ss[1]
           /\ \A i \in 2..Len(ss) : f[i] = f[i - 1] \o ss[i]
           /\ FlattenSeq(ss) = f[Len(ss)]
<1> DEFINE F == CHOOSE f : Flattens(ss, f, Len(ss))
<1>1. Flattens(ss, F, Len(ss))
  BY FlatExists, Zenon
<1>2. FlattenSeq(ss) = F[Len(ss)]
  <2>1. Len(ss) # 0
    OBVIOUS
  <2> QED
    BY <2>1, Zenon DEF FlattenSeq, Flattens
<1> HIDE DEF F
<1>3. Len(ss) \in Nat /\ Len(ss) <= Len(ss)
  OBVIOUS
<1>4. FlatValues(T, ss, F, Len(ss))
  BY <1>1, <1>3, FlatUpTo
<1> QED
  BY <1>2, <1>4 DEF FlatValues

\* Ordered by a relation, which is a set of pairs.
OrderedBy(s, R) == \A k, l \in DOMAIN s : k < l => <<s[k], s[l]>> \in R

\* A concatenation holds what its parts hold.
LEMMA RangeOfConcat ==
  ASSUME NEW T, NEW s \in Seq(T), NEW t \in Seq(T)
  PROVE  /\ s \o t \in Seq(T)
         /\ \A x : x \in ToSet(s \o t) <=> x \in ToSet(s) \/ x \in ToSet(t)
<1> DEFINE c == s \o t
<1>1. /\ c \in Seq(T) /\ Len(c) = Len(s) + Len(t)
      /\ Len(s) \in Nat /\ Len(t) \in Nat
      /\ DOMAIN c = 1..Len(c) /\ DOMAIN s = 1..Len(s) /\ DOMAIN t = 1..Len(t)
      /\ \A i \in 1..Len(c) : c[i] = IF i <= Len(s) THEN s[i] ELSE t[i - Len(s)]
  OBVIOUS
<1>2. \A i \in 1..Len(s) : i \in 1..Len(c) /\ c[i] = s[i]
  BY <1>1
<1>3. \A i \in 1..Len(t) : Len(s) + i \in 1..Len(c) /\ c[Len(s) + i] = t[i]
  BY <1>1
<1>4. \A i \in 1..Len(c) : i \in 1..Len(s) \/ (i - Len(s) \in 1..Len(t) /\ c[i] = t[i - Len(s)])
  BY <1>1
<1> HIDE DEF c
<1>5. ASSUME NEW x \in ToSet(c) PROVE x \in ToSet(s) \/ x \in ToSet(t)
  <2>1. PICK i \in 1..Len(c) : c[i] = x
    BY <1>1, <1>5 DEF ToSet
  <2> QED
    BY <2>1, <1>1, <1>2, <1>4 DEF ToSet
<1>6. ASSUME NEW x \in ToSet(s) PROVE x \in ToSet(c)
  <2>1. PICK i \in 1..Len(s) : s[i] = x
    BY <1>1, <1>6 DEF ToSet
  <2> QED
    BY <2>1, <1>1, <1>2 DEF ToSet
<1>7. ASSUME NEW x \in ToSet(t) PROVE x \in ToSet(c)
  <2>1. PICK i \in 1..Len(t) : t[i] = x
    BY <1>1, <1>7 DEF ToSet
  <2> QED
    BY <2>1, <1>1, <1>3 DEF ToSet
<1>8. c = s \o t
  BY DEF c
<1> QED
  BY <1>1, <1>5, <1>6, <1>7, <1>8

\* Ordered parts that follow each other are ordered together.
LEMMA OrderOfConcat ==
  ASSUME NEW T, NEW R, NEW s \in Seq(T), NEW t \in Seq(T), OrderedBy(s, R), OrderedBy(t, R),
         \A x \in ToSet(s), y \in ToSet(t) : <<x, y>> \in R
  PROVE  OrderedBy(s \o t, R)
<1> DEFINE c == s \o t
<1>1. /\ c \in Seq(T) /\ Len(c) = Len(s) + Len(t)
      /\ Len(s) \in Nat /\ Len(t) \in Nat
      /\ DOMAIN c = 1..Len(c) /\ DOMAIN s = 1..Len(s) /\ DOMAIN t = 1..Len(t)
      /\ \A i \in 1..Len(c) : c[i] = IF i <= Len(s) THEN s[i] ELSE t[i - Len(s)]
  OBVIOUS
<1>2. \A i \in 1..Len(c) :
        (i \in 1..Len(s) /\ c[i] = s[i])
        \/ (i > Len(s) /\ i - Len(s) \in 1..Len(t) /\ c[i] = t[i - Len(s)])
  <2> HIDE DEF c
  <2> QED
    BY <1>1
<1>3. c = s \o t
  BY DEF c
<1> HIDE DEF c
<1>4. ASSUME NEW k \in 1..Len(c), NEW l \in 1..Len(c), k < l PROVE <<c[k], c[l]>> \in R
  <2>1. CASE k \in 1..Len(s) /\ l \in 1..Len(s) /\ c[k] = s[k] /\ c[l] = s[l]
    BY <2>1, <1>1, <1>4 DEF OrderedBy
  <2>2. CASE k \in 1..Len(s) /\ l - Len(s) \in 1..Len(t) /\ c[k] = s[k] /\ c[l] = t[l - Len(s)]
    <3>1. s[k] \in ToSet(s) /\ t[l - Len(s)] \in ToSet(t)
      BY <2>2, <1>1 DEF ToSet
    <3> QED
      BY <3>1, <2>2
  <2>3. CASE /\ k > Len(s) /\ k - Len(s) \in 1..Len(t) /\ c[k] = t[k - Len(s)]
             /\ l > Len(s) /\ l - Len(s) \in 1..Len(t) /\ c[l] = t[l - Len(s)]
    <3>1. k - Len(s) < l - Len(s)
      BY <1>1, <1>4
    <3> QED
      BY <3>1, <2>3, <1>1 DEF OrderedBy
  <2> QED
    BY <2>1, <2>2, <2>3, <1>1, <1>2, <1>4
<1> QED
  BY <1>1, <1>3, <1>4 DEF OrderedBy

\* What is laid end to end is what each of the sequences holds; and where each
\* is ordered and they follow each other, all of it is ordered.
LEMMA FlattenHolds ==
  ASSUME NEW T, NEW ss \in Seq(Seq(T))
  PROVE  /\ FlattenSeq(ss) \in Seq(T)
         /\ \A x : x \in ToSet(FlattenSeq(ss)) <=> \E i \in 1..Len(ss) : x \in ToSet(ss[i])
<1>1. Len(ss) \in Nat /\ \A i \in 1..Len(ss) : ss[i] \in Seq(T)
  OBVIOUS
<1>2. CASE Len(ss) = 0
  <2>1. ss = <<>> /\ FlattenSeq(ss) = <<>>
    BY <1>2 DEF FlattenSeq
  <2>2. <<>> \in Seq(T) /\ ToSet(<<>>) = {}
    BY DEF ToSet
  <2>3. 1..Len(ss) = {}
    BY <1>2
  <2> QED
    BY <2>1, <2>2, <2>3
<1>3. CASE Len(ss) > 0
  <2>1. PICK f \in [1..Len(ss) -> Seq(T)] :
           /\ f[1] = ss[1]
           /\ \A i \in 2..Len(ss) : f[i] = f[i - 1] \o ss[i]
           /\ FlattenSeq(ss) = f[Len(ss)]
    BY <1>3, Flattening
  <2> DEFINE Good(n) == \A x : x \in ToSet(f[n]) <=> \E i \in 1..n : x \in ToSet(ss[i])
             S == {n \in Nat : n \in 1..Len(ss) => Good(n)}
  <2>2. 0 \in S
    OBVIOUS
  <2>3. ASSUME NEW n \in Nat, n \in S PROVE n + 1 \in S
    <3> SUFFICES ASSUME n + 1 \in 1..Len(ss) PROVE Good(n + 1)
      OBVIOUS
    <3>1. CASE n = 0
      <4>1. 1..1 = {1}
        OBVIOUS
      <4> QED
        BY <3>1, <4>1, <2>1
    <3>2. CASE n # 0
      <4>1. n \in 1..Len(ss) /\ n + 1 \in 2..Len(ss) /\ (n + 1) - 1 = n
        BY <3>2
      <4>2. f[n + 1] = f[n] \o ss[n + 1] /\ f[n] \in Seq(T) /\ ss[n + 1] \in Seq(T)
        BY <4>1, <2>1, <1>1
      <4>3. \A x : x \in ToSet(f[n + 1]) <=> x \in ToSet(f[n]) \/ x \in ToSet(ss[n + 1])
        BY <4>2, RangeOfConcat
      <4>4. Good(n)
        BY <4>1, <2>3
      <4>5. \A i : i \in 1..n + 1 <=> i \in 1..n \/ i = n + 1
        OBVIOUS
      <4> QED
        BY <4>3, <4>4, <4>5, Zenon
    <3> QED
      BY <3>1, <3>2
  <2>4. Nat \subseteq S
    <3> HIDE DEF S
    <3> QED
      BY <2>2, <2>3, AllNumbers
  <2>5. Len(ss) \in S /\ Len(ss) \in 1..Len(ss)
    <3> HIDE DEF S
    <3> QED
      BY <2>4, <1>1, <1>3
  <2>6. Good(Len(ss))
    BY <2>5
  <2> QED
    BY <2>1, <2>5, <2>6
<1> QED
  BY <1>1, <1>2, <1>3

\* Ordered sequences that follow each other are ordered end to end.
LEMMA FlattenOrdered ==
  ASSUME NEW T, NEW R, NEW ss \in Seq(Seq(T)),
         \A i \in 1..Len(ss) : OrderedBy(ss[i], R),
         \A i, j \in 1..Len(ss) : i < j =>
           \A x \in ToSet(ss[i]), y \in ToSet(ss[j]) : <<x, y>> \in R
  PROVE  OrderedBy(FlattenSeq(ss), R)
<1>1. Len(ss) \in Nat /\ \A i \in 1..Len(ss) : ss[i] \in Seq(T)
  OBVIOUS
<1>2. CASE Len(ss) = 0
  BY <1>2 DEF FlattenSeq, OrderedBy
<1>3. CASE Len(ss) > 0
  <2>1. PICK f \in [1..Len(ss) -> Seq(T)] :
           /\ f[1] = ss[1]
           /\ \A i \in 2..Len(ss) : f[i] = f[i - 1] \o ss[i]
           /\ FlattenSeq(ss) = f[Len(ss)]
    BY <1>3, Flattening
  <2> DEFINE Good(n) == /\ OrderedBy(f[n], R)
                        /\ \A j \in 1..Len(ss) : n < j =>
                             \A x \in ToSet(f[n]), y \in ToSet(ss[j]) : <<x, y>> \in R
             S == {n \in Nat : n \in 1..Len(ss) => Good(n)}
  <2>2. 0 \in S
    OBVIOUS
  <2>3. ASSUME NEW n \in Nat, n \in S PROVE n + 1 \in S
    <3> SUFFICES ASSUME n + 1 \in 1..Len(ss) PROVE Good(n + 1)
      OBVIOUS
    <3>1. CASE n = 0
      <4>1. n + 1 = 1 /\ f[n + 1] = ss[n + 1] /\ n + 1 \in 1..Len(ss)
        BY <3>1, <2>1
      <4> QED
        BY <4>1
    <3>2. CASE n # 0
      <4>1. n \in 1..Len(ss) /\ n + 1 \in 2..Len(ss) /\ (n + 1) - 1 = n
        BY <3>2
      <4>2. f[n + 1] = f[n] \o ss[n + 1] /\ f[n] \in Seq(T) /\ ss[n + 1] \in Seq(T)
        BY <4>1, <2>1, <1>1
      <4>3. \A x : x \in ToSet(f[n + 1]) <=> x \in ToSet(f[n]) \/ x \in ToSet(ss[n + 1])
        BY <4>2, RangeOfConcat
      <4>4. Good(n)
        BY <4>1, <2>3
      <4>5. n < n + 1 /\ \A j \in 1..Len(ss) : n + 1 < j => n < j
        OBVIOUS
      <4>6. OrderedBy(ss[n + 1], R)
        OBVIOUS
      <4>7. \A x \in ToSet(f[n]), y \in ToSet(ss[n + 1]) : <<x, y>> \in R
        BY <4>4, <4>5
      <4>8. OrderedBy(f[n], R)
        BY <4>4
      <4>9. OrderedBy(f[n + 1], R)
        BY <4>2, <4>6, <4>7, <4>8, OrderOfConcat
      <4>10. \A j \in 1..Len(ss) : n + 1 < j =>
               \A x \in ToSet(f[n + 1]), y \in ToSet(ss[j]) : <<x, y>> \in R
        BY <4>3, <4>4, <4>5
      <4> QED
        BY <4>9, <4>10
    <3> QED
      BY <3>1, <3>2
  <2>4. Nat \subseteq S
    <3> HIDE DEF S
    <3> QED
      BY <2>2, <2>3, AllNumbers
  <2>5. Len(ss) \in S /\ Len(ss) \in 1..Len(ss)
    <3> HIDE DEF S
    <3> QED
      BY <2>4, <1>1, <1>3
  <2>6. Good(Len(ss))
    BY <2>5
  <2> QED
    BY <2>1, <2>6
<1> QED
  BY <1>1, <1>2, <1>3

\* Where pages start.
Place == [section : Nat, paragraph : Nat, offset : Nat]

\* The second place is not before the first.  (Pages may start at one place.)
Later == {pair \in Place \X Place : ~Precedes(pair[2], pair[1])}

\* The pages that start in a paragraph, and in a section.
ParagraphStarts(d, s, p) == [k \in DOMAIN d[s][p] |-> Address(s, p, d[s][p][k])]
SectionStarts(d, s)      == [p \in DOMAIN d[s] |-> ParagraphStarts(d, s, p)]
\* A place in the document.
Within(d, a) ==
  /\ a \in Place
  /\ a.section \in 1..Len(d) /\ a.paragraph \in 1..Len(d[a.section])

\* The parts of a document.
LEMMA DocumentTypes ==
  ASSUME NEW d, IsDocument(d)
  PROVE  /\ Len(d) \in Nat /\ DOMAIN d = 1..Len(d)
         /\ \A s \in 1..Len(d) :
              /\ Len(d[s]) \in Nat \ {0} /\ DOMAIN d[s] = 1..Len(d[s])
              /\ \A p \in 1..Len(d[s]) :
                   /\ d[s][p] \in Seq(Nat)
                   /\ \A k, l \in DOMAIN d[s][p] : k < l => d[s][p][k] < d[s][p][l]
<1>1. d \in Seq(Seq(Seq(Nat)))
  BY DEF IsDocument
<1>2. Len(d) \in Nat /\ DOMAIN d = 1..Len(d) /\ \A s \in 1..Len(d) : d[s] \in Seq(Seq(Nat))
  BY <1>1
<1>3. ASSUME NEW s \in 1..Len(d)
      PROVE  /\ Len(d[s]) \in Nat \ {0} /\ DOMAIN d[s] = 1..Len(d[s])
             /\ \A p \in 1..Len(d[s]) : d[s][p] \in Seq(Nat)
  <2>1. d[s] \in Seq(Seq(Nat)) /\ d[s] # <<>>
    BY <1>2 DEF IsDocument
  <2> QED
    BY <2>1
<1>4. \A s \in 1..Len(d) : \A p \in 1..Len(d[s]) :
        \A k, l \in DOMAIN d[s][p] : k < l => d[s][p][k] < d[s][p][l]
  BY <1>2, <1>3 DEF IsDocument
<1> QED
  BY <1>2, <1>3, <1>4

\* The pages of one paragraph, in the order of their offsets.
LEMMA ParagraphOrdered ==
  ASSUME NEW d, IsDocument(d), NEW s \in 1..Len(d), NEW p \in 1..Len(d[s])
  PROVE  /\ ParagraphStarts(d, s, p) \in Seq(Place)
         /\ OrderedBy(ParagraphStarts(d, s, p), Later)
         /\ \A a \in ToSet(ParagraphStarts(d, s, p)) :
              a \in Place /\ a.section = s /\ a.paragraph = p
<1> DEFINE o == d[s][p]
           f == ParagraphStarts(d, s, p)
<1>1. /\ o \in Seq(Nat) /\ s \in Nat /\ p \in Nat
      /\ \A k, l \in DOMAIN o : k < l => o[k] < o[l]
  BY DocumentTypes
<1>2. DOMAIN f = DOMAIN o /\ \A k \in DOMAIN o : f[k] = Address(s, p, o[k])
  BY DEF ParagraphStarts
<1> HIDE DEF o, f
<1>3. Len(o) \in Nat /\ DOMAIN o = 1..Len(o) /\ \A k \in 1..Len(o) : o[k] \in Nat
  BY <1>1
<1>4. \A k \in 1..Len(o) : f[k] \in Place
  BY <1>1, <1>2, <1>3 DEF Address, Place
<1>5. f = [k \in 1..Len(o) |-> f[k]]
  BY <1>3 DEF f, o, ParagraphStarts
<1>6. f \in Seq(Place)
  BY <1>3, <1>4, <1>5, SeqDef
<1>7. ASSUME NEW k \in DOMAIN o, NEW l \in DOMAIN o, k < l PROVE <<f[k], f[l]>> \in Later
  <2>1. o[k] < o[l] /\ o[k] \in Nat /\ o[l] \in Nat
    BY <1>1, <1>3, <1>7
  <2>2. ~Precedes(f[l], f[k])
    BY <2>1, <1>2, <1>1 DEF Precedes, Address
  <2> QED
    BY <2>2, <1>3, <1>4 DEF Later
<1>8. OrderedBy(f, Later)
  BY <1>2, <1>7 DEF OrderedBy
<1>9. \A a \in ToSet(f) : a \in Place /\ a.section = s /\ a.paragraph = p
  BY <1>2, <1>3, <1>4 DEF ToSet, Address
<1> QED
  BY <1>6, <1>8, <1>9 DEF f

\* Places of a later section are later.
LEMMA LaterBySection ==
  ASSUME NEW a \in Place, NEW b \in Place, a.section < b.section
  PROVE  <<a, b>> \in Later
BY DEF Later, Precedes, Place

\* So are places of a later paragraph.
LEMMA LaterByParagraph ==
  ASSUME NEW a \in Place, NEW b \in Place, a.section = b.section, a.paragraph < b.paragraph
  PROVE  <<a, b>> \in Later
BY DEF Later, Precedes, Place

\* The pages of one section.
LEMMA SectionOrdered ==
  ASSUME NEW d, IsDocument(d), NEW s \in 1..Len(d)
  PROVE  /\ FlattenSeq(SectionStarts(d, s)) \in Seq(Place)
         /\ OrderedBy(FlattenSeq(SectionStarts(d, s)), Later)
         /\ \A a \in ToSet(FlattenSeq(SectionStarts(d, s))) :
              a \in Place /\ a.section = s /\ a.paragraph \in 1..Len(d[s])
<1> DEFINE ss == SectionStarts(d, s)
           n  == Len(d[s])
<1>1. n \in Nat /\ DOMAIN d[s] = 1..n
  BY DocumentTypes
<1>2. ss = [p \in 1..n |-> ParagraphStarts(d, s, p)]
  BY <1>1 DEF SectionStarts
<1>3. \A p \in 1..n : ParagraphStarts(d, s, p) \in Seq(Place)
  BY ParagraphOrdered
<1> HIDE DEF ss, n
<1>4. ss \in Seq(Seq(Place)) /\ Len(ss) = n
  BY <1>1, <1>2, <1>3, SeqDef
<1>5. \A p \in 1..n : ss[p] = ParagraphStarts(d, s, p)
  BY <1>2
<1>6. \A p \in 1..Len(ss) : OrderedBy(ss[p], Later)
  BY <1>4, <1>5, ParagraphOrdered DEF n
<1>7. \A p \in 1..Len(ss) : \A a \in ToSet(ss[p]) : a \in Place /\ a.section = s /\ a.paragraph = p
  BY <1>4, <1>5, ParagraphOrdered DEF n
<1>8. \A i, j \in 1..Len(ss) : i < j =>
        \A x \in ToSet(ss[i]), y \in ToSet(ss[j]) : <<x, y>> \in Later
  BY <1>7, LaterByParagraph
<1>9. OrderedBy(FlattenSeq(ss), Later)
  BY <1>4, <1>6, <1>8, FlattenOrdered
<1>10. /\ FlattenSeq(ss) \in Seq(Place)
       /\ \A x : x \in ToSet(FlattenSeq(ss)) <=> \E i \in 1..Len(ss) : x \in ToSet(ss[i])
  BY <1>4, FlattenHolds
<1> QED
  BY <1>4, <1>7, <1>9, <1>10 DEF ss, n

\* page_starts lists the pages in document order.
LEMMA PageStartsOrdered ==
  ASSUME NEW d, IsDocument(d)
  PROVE  /\ PageStarts(d) \in Seq(Place)
         /\ OrderedBy(PageStarts(d), Later)
         /\ \A a \in ToSet(PageStarts(d)) : Within(d, a)
<1> DEFINE ss == [s \in DOMAIN d |-> FlattenSeq(SectionStarts(d, s))]
<1>1. Len(d) \in Nat /\ DOMAIN d = 1..Len(d)
  BY DocumentTypes
<1>2. PageStarts(d) = FlattenSeq(ss)
  BY DEF PageStarts, SectionStarts, ParagraphStarts
<1>3. ss = [s \in 1..Len(d) |-> FlattenSeq(SectionStarts(d, s))]
  BY <1>1
<1>4. \A s \in 1..Len(d) : FlattenSeq(SectionStarts(d, s)) \in Seq(Place)
  BY SectionOrdered
<1> HIDE DEF ss
<1>5. ss \in Seq(Seq(Place)) /\ Len(ss) = Len(d)
  BY <1>1, <1>3, <1>4, SeqDef
<1>6. \A s \in 1..Len(ss) : ss[s] = FlattenSeq(SectionStarts(d, s))
  BY <1>3, <1>5
<1>7. \A s \in 1..Len(ss) : OrderedBy(ss[s], Later)
  BY <1>5, <1>6, SectionOrdered
<1>8. \A s \in 1..Len(ss) : \A a \in ToSet(ss[s]) :
        a \in Place /\ a.section = s /\ a.paragraph \in 1..Len(d[s])
  BY <1>5, <1>6, SectionOrdered
<1>9. \A i, j \in 1..Len(ss) : i < j =>
        \A x \in ToSet(ss[i]), y \in ToSet(ss[j]) : <<x, y>> \in Later
  BY <1>8, LaterBySection
<1>10. OrderedBy(FlattenSeq(ss), Later)
  BY <1>5, <1>7, <1>9, FlattenOrdered
<1>11. /\ FlattenSeq(ss) \in Seq(Place)
       /\ \A x : x \in ToSet(FlattenSeq(ss)) <=> \E i \in 1..Len(ss) : x \in ToSet(ss[i])
  BY <1>5, FlattenHolds
<1>12. \A a \in ToSet(FlattenSeq(ss)) : Within(d, a)
  BY <1>5, <1>8, <1>11 DEF Within
<1> QED
  BY <1>2, <1>10, <1>11, <1>12

\* A set of numbers closed downwards holds m when it has m numbers.
LEMMA PrefixCount ==
  ASSUME NEW n \in Nat, NEW K, K \subseteq 1..n, \A k \in K : 1..k \subseteq K
  PROVE  \A m \in 1..n : m \in K <=> Cardinality(K) >= m
<1> DEFINE out == {m \in 1..n + 1 : m \notin K}
<1>1. out \subseteq Nat /\ n + 1 \in out
  OBVIOUS
<1>2. PICK c \in out : \A m \in out : c <= m
  <2> HIDE DEF out
  <2> QED
    BY <1>1, LeastNumber
<1>3. c \in 1..n + 1 /\ c \notin K
  BY <1>2
<1>4. ASSUME NEW k \in 1..n PROVE k \in K <=> k <= c - 1
  <2>1. CASE k \in K
    <3>1. c \notin 1..k
      BY <2>1, <1>3
    <3> QED
      BY <3>1, <1>3, <2>1
  <2>2. CASE k \notin K
    <3>1. k \in out
      BY <2>2
    <3>2. c <= k
      BY <3>1, <1>2
    <3> QED
      BY <3>2, <2>2, <1>3
  <2> QED
    BY <2>1, <2>2
<1>5. K = 1..c - 1
  <2>1. \A k : k \in K => k \in 1..c - 1
    BY <1>3, <1>4
  <2>2. \A k \in 1..c - 1 : k \in 1..n /\ k \in K
    BY <1>3, <1>4
  <2> HIDE DEF out
  <2> QED
    BY <2>1, <2>2
<1>6. Cardinality(1..c - 1) = c - 1
  <2>1. c - 1 \in Nat
    BY <1>3
  <2> QED
    BY <2>1, FS_Interval
<1> QED
  BY <1>3, <1>5, <1>6

\* What is after a later place is after the earlier one.
LEMMA PrecedesOn ==
  ASSUME NEW a \in Place, NEW b \in Place, NEW c \in Place, <<a, b>> \in Later, Precedes(b, c)
  PROVE  Precedes(a, c)
BY DEF Later, Precedes, Place

\* A paragraph begins on page m or later when page m starts at or before it.
LEMMA BeginsFrom ==
  ASSUME NEW d, IsDocument(d), NEW s \in Nat, NEW p \in Nat,
         NEW m \in 1..Len(PageStarts(d))
  PROVE  PageOf(d, s, p) >= m <=> Precedes(PageStarts(d)[m], Address(s, p, 0))
<1> DEFINE t == PageStarts(d)
           a == Address(s, p, 0)
           K == {k \in DOMAIN t : Precedes(t[k], a)}
<1>1. t \in Seq(Place) /\ OrderedBy(t, Later)
  BY PageStartsOrdered
<1>2. a \in Place
  BY DEF Address, Place
<1>3. PageOf(d, s, p) = Cardinality(K)
  BY DEF PageOf
<1>4. m \in 1..Len(t)
  OBVIOUS
<1> HIDE DEF t, a
<1>5. Len(t) \in Nat /\ DOMAIN t = 1..Len(t) /\ \A k \in 1..Len(t) : t[k] \in Place
  BY <1>1
<1>6. ASSUME NEW k \in K, NEW l \in 1..k PROVE l \in K
  <2>1. k \in 1..Len(t) /\ l \in 1..Len(t) /\ Precedes(t[k], a)
    BY <1>5
  <2>2. CASE l = k
    BY <2>2
  <2>3. CASE l < k
    <3>1. <<t[l], t[k]>> \in Later
      BY <2>1, <2>3, <1>1, <1>5 DEF OrderedBy
    <3>2. Precedes(t[l], a)
      BY <3>1, <2>1, <1>2, <1>5, PrecedesOn
    <3> QED
      BY <3>2, <2>1, <1>5
  <2> QED
    BY <2>1, <2>2, <2>3
<1>7. K \subseteq 1..Len(t) /\ \A k \in K : 1..k \subseteq K
  BY <1>5, <1>6
<1>8. m \in K <=> Precedes(t[m], a)
  BY <1>4, <1>5
<1> HIDE DEF K
<1>9. m \in K <=> Cardinality(K) >= m
  BY <1>4, <1>5, <1>7, PrefixCount
<1> QED
  BY <1>3, <1>8, <1>9 DEF t, a

\* There are never more pages than starts.
LEMMA PagesInAll ==
  ASSUME NEW d, IsDocument(d), NEW s \in Nat, NEW p \in Nat
  PROVE  PageOf(d, s, p) \in 0..Len(PageStarts(d))
<1> DEFINE t == PageStarts(d)
           K == {k \in DOMAIN t : Precedes(t[k], Address(s, p, 0))}
<1>1. t \in Seq(Place)
  BY PageStartsOrdered
<1>2. Len(t) \in Nat /\ K \subseteq 1..Len(t)
  BY <1>1
<1>3. PageOf(d, s, p) = Cardinality(K)
  BY DEF PageOf
<1> HIDE DEF t, K
<1>4. IsFiniteSet(1..Len(t)) /\ Cardinality(1..Len(t)) = Len(t)
  BY <1>2, FS_Interval
<1>5. IsFiniteSet(K) /\ Cardinality(K) <= Cardinality(1..Len(t))
  BY <1>2, <1>4, FS_Subset
<1>6. Cardinality(K) \in Nat
  BY <1>5, FS_CardinalityType
<1> QED
  BY <1>2, <1>3, <1>4, <1>5, <1>6 DEF t

\* A boundary is at or before paragraph p of section s.
Reaches(b, s, p) == b.section < s \/ (b.section = s /\ b.paragraph <= p)

\* Where a boundary may be: at a paragraph, or past the last of a section.
Boundary(d, b) ==
  /\ b.section \in 1..Len(d) /\ b.paragraph \in 1..Len(d[b.section]) + 1
  /\ b.paragraph <= Len(d[b.section]) \/ b.section = Len(d)

\* round_boundary moves a page's start to a paragraph, and the paragraphs that
\* begin at the start or later stay the same ones.
LEMMA Rounded ==
  ASSUME NEW d, IsDocument(d), NEW a, Within(d, a)
  PROVE  /\ Boundary(d, RoundBoundary(d, a))
         /\ \A s \in 1..Len(d) : \A p \in 1..Len(d[s]) :
              Precedes(a, Address(s, p, 0)) <=> Reaches(RoundBoundary(d, a), s, p)
<1>1. /\ Len(d) \in Nat /\ \A s \in 1..Len(d) : Len(d[s]) \in Nat \ {0}
  BY DocumentTypes
<1> DEFINE x == a.section
           y == a.paragraph
           o == a.offset
           b == RoundBoundary(d, a)
<1>2. x \in 1..Len(d) /\ y \in 1..Len(d[x]) /\ o \in Nat
  BY DEF Within, Place
<1>3. \A s, p \in Nat : Precedes(a, Address(s, p, 0)) <=>
        x < s \/ (x = s /\ y < p) \/ (x = s /\ y = p /\ o <= 0)
  BY DEF Precedes, Address
<1>4. CASE o = 0
  <2>1. b = a
    BY <1>4 DEF RoundBoundary
  <2> QED
    BY <2>1, <1>1, <1>2, <1>3, <1>4 DEF Boundary, Reaches
<1>5. CASE o # 0 /\ y < Len(d[x])
  <2>1. b = Address(x, y + 1, 0)
    BY <1>5 DEF RoundBoundary
  <2>2. b.section = x /\ b.paragraph = y + 1
    BY <2>1 DEF Address
  <2> HIDE DEF x, y, o, b
  <2> QED
    BY <2>2, <1>1, <1>2, <1>3, <1>5 DEF Boundary, Reaches, b
<1>6. CASE o # 0 /\ y = Len(d[x]) /\ x < Len(d)
  <2>1. b = Address(x + 1, 1, 0)
    BY <1>6 DEF RoundBoundary
  <2>2. b.section = x + 1 /\ b.paragraph = 1
    BY <2>1 DEF Address
  <2> HIDE DEF x, y, o, b
  <2> QED
    BY <2>2, <1>1, <1>2, <1>3, <1>6 DEF Boundary, Reaches, b
<1>7. CASE o # 0 /\ y = Len(d[x]) /\ x = Len(d)
  <2>1. b = Address(x, Len(d[x]) + 1, 0)
    <3>1. ~(x < Len(d)) /\ ~(y < Len(d[x]))
      BY <1>7, <1>1, <1>2
    <3> QED
      BY <1>7, <3>1 DEF RoundBoundary
  <2>2. b.section = x /\ b.paragraph = Len(d[x]) + 1
    BY <2>1 DEF Address
  <2> HIDE DEF x, y, o, b
  <2> QED
    BY <2>2, <1>1, <1>2, <1>3, <1>7 DEF Boundary, Reaches, b
<1> QED
  BY <1>1, <1>2, <1>4, <1>5, <1>6, <1>7

\* Starts in order are rounded to sections in order.
LEMMA RoundedInOrder ==
  ASSUME NEW d, IsDocument(d), NEW a, NEW b, Within(d, a), Within(d, b), <<a, b>> \in Later
  PROVE  RoundBoundary(d, a).section <= RoundBoundary(d, b).section
<1> DEFINE x == RoundBoundary(d, a)
           y == RoundBoundary(d, b)
           s == y.section
           p == Len(d[s])
<1>1. /\ Len(d) \in Nat /\ \A n \in 1..Len(d) : Len(d[n]) \in Nat \ {0}
  BY DocumentTypes
<1>2. Boundary(d, x) /\ Boundary(d, y)
  BY Rounded
<1>3. s \in 1..Len(d) /\ p \in 1..Len(d[s]) /\ p \in Nat /\ s \in Nat
  BY <1>1, <1>2 DEF Boundary
<1>4. CASE y.paragraph <= p
  <2>1. Reaches(y, s, p)
    BY <1>4 DEF Reaches
  <2>2. Precedes(b, Address(s, p, 0))
    BY <2>1, <1>3, Rounded
  <2>3. a \in Place /\ b \in Place /\ Address(s, p, 0) \in Place
    BY <1>3 DEF Within, Address, Place
  <2>4. Precedes(a, Address(s, p, 0))
    BY <2>2, <2>3, PrecedesOn
  <2>5. Reaches(x, s, p)
    BY <2>4, <1>3, Rounded
  <2> HIDE DEF x, y
  <2> QED
    BY <2>5, <1>2, <1>3 DEF Reaches, Boundary, x, y
<1>5. CASE ~(y.paragraph <= p)
  <2>1. s = Len(d)
    BY <1>2, <1>5 DEF Boundary
  <2> HIDE DEF x, y
  <2> QED
    BY <2>1, <1>1, <1>2 DEF Boundary, x, y
<1> QED
  BY <1>4, <1>5

\* A range of pages, from 1.
PageRange == [first : Nat, last : Nat]

\* A range that is not refused.
Accepted(d, r) ==
  /\ r \in PageRange /\ r.first \in 1..r.last /\ r.last \in 1..Len(PageStarts(d))

\* A paragraph begins at the range's start or later, and before its end.
InRange(d, r, s, p) == Reaches(StartOf(d, r), s, p) /\ ~Reaches(EndOf(d, r), s, p)

\* Every page starts in the document.
LEMMA StartWithin ==
  ASSUME NEW d, IsDocument(d), NEW m \in 1..Len(PageStarts(d))
  PROVE  Within(d, PageStarts(d)[m])
<1> DEFINE t == PageStarts(d)
<1>1. t \in Seq(Place) /\ \A a \in ToSet(t) : Within(d, a)
  BY PageStartsOrdered
<1>2. m \in 1..Len(t)
  OBVIOUS
<1> HIDE DEF t
<1>3. t[m] \in ToSet(t)
  BY <1>1, <1>2 DEF ToSet
<1> QED
  BY <1>1, <1>3 DEF t

\* The boundaries of a range that is not refused.
LEMMA RangeBounds ==
  ASSUME NEW d, IsDocument(d), NEW r, Accepted(d, r)
  PROVE  /\ Boundary(d, StartOf(d, r)) /\ Boundary(d, EndOf(d, r))
         /\ StartOf(d, r).section <= EndOf(d, r).section
<1> DEFINE t == PageStarts(d)
<1>1. t \in Seq(Place) /\ OrderedBy(t, Later)
  BY PageStartsOrdered
<1>2. r.first \in 1..Len(t) /\ r.last \in 1..Len(t) /\ r.first <= r.last
  <2>1. Len(t) \in Nat
    BY <1>1
  <2> HIDE DEF t
  <2>2. r.first \in 1..r.last /\ r.last \in 1..Len(t)
    BY DEF Accepted, t
  <2> QED
    BY <2>1, <2>2
<1>3. Within(d, t[r.first])
  BY <1>2, StartWithin
<1>4. Boundary(d, StartOf(d, r))
  BY <1>3, Rounded DEF StartOf
<1>5. /\ Len(d) \in Nat /\ \A n \in 1..Len(d) : Len(d[n]) \in Nat \ {0}
  BY DocumentTypes
<1>6. CASE r.last < Len(t)
  <2>1. EndOf(d, r) = RoundBoundary(d, t[r.last + 1])
    BY <1>6 DEF EndOf
  <2>2. r.last + 1 \in 1..Len(t) /\ r.first < r.last + 1
    BY <1>1, <1>2, <1>6
  <2>3. Within(d, t[r.last + 1])
    BY <2>2, StartWithin
  <2>4. <<t[r.first], t[r.last + 1]>> \in Later
    <3>1. DOMAIN t = 1..Len(t)
      BY <1>1
    <3> QED
      BY <3>1, <1>1, <1>2, <2>2 DEF OrderedBy
  <2>5. Boundary(d, EndOf(d, r))
    BY <2>1, <2>3, Rounded
  <2>6. StartOf(d, r).section <= EndOf(d, r).section
    BY <2>1, <2>3, <2>4, <1>3, RoundedInOrder DEF StartOf
  <2> QED
    BY <1>4, <2>5, <2>6
<1>7. CASE ~(r.last < Len(t))
  <2>1. EndOf(d, r) = Address(Len(d), Len(d[Len(d)]) + 1, 0)
    BY <1>7 DEF EndOf
  <2>2. EndOf(d, r).section = Len(d) /\ EndOf(d, r).paragraph = Len(d[Len(d)]) + 1
    BY <2>1 DEF Address
  <2>3. StartOf(d, r).section \in 1..Len(d)
    BY <1>4 DEF Boundary
  <2>4. Len(d) \in 1..Len(d)
    BY <1>5, <2>3
  <2>5. Len(d[Len(d)]) \in Nat \ {0}
    BY <1>5, <2>4
  <2>6. Boundary(d, EndOf(d, r))
    BY <2>2, <2>4, <2>5 DEF Boundary
  <2> QED
    BY <1>4, <1>5, <2>2, <2>3, <2>6
<1> QED
  BY <1>6, <1>7

\* The pages of a range are what lies between its boundaries.
LEMMA PagesAreRange ==
  ASSUME NEW d, IsDocument(d), NEW r, Accepted(d, r), NEW s \in 1..Len(d), NEW p \in 1..Len(d[s])
  PROVE  PageOf(d, s, p) \in r.first..r.last <=> InRange(d, r, s, p)
<1> DEFINE t == PageStarts(d)
           g == PageOf(d, s, p)
<1>1. t \in Seq(Place) /\ s \in Nat /\ p \in Nat
  <2>1. Len(d) \in Nat /\ Len(d[s]) \in Nat
    BY DocumentTypes
  <2> QED
    BY <2>1, PageStartsOrdered
<1>2. /\ r.first \in 1..Len(t) /\ r.last \in 1..Len(t) /\ Len(t) \in Nat
      /\ r.first \in Nat /\ r.last \in Nat
  <2>1. Len(t) \in Nat
    BY <1>1
  <2> HIDE DEF t
  <2>2. r.first \in 1..r.last /\ r.last \in 1..Len(t)
    BY DEF Accepted, t
  <2> QED
    BY <2>1, <2>2
<1>3. g \in 0..Len(t)
  BY <1>1, PagesInAll
<1>4. g >= r.first <=> Reaches(StartOf(d, r), s, p)
  <2>1. Within(d, t[r.first])
    BY <1>2, StartWithin
  <2>2. g >= r.first <=> Precedes(t[r.first], Address(s, p, 0))
    BY <1>1, <1>2, BeginsFrom
  <2>3. Precedes(t[r.first], Address(s, p, 0)) <=> Reaches(RoundBoundary(d, t[r.first]), s, p)
    BY <2>1, Rounded
  <2> QED
    BY <2>2, <2>3 DEF StartOf
<1>5. g <= r.last <=> ~Reaches(EndOf(d, r), s, p)
  <2>1. CASE r.last < Len(t)
    <3>1. EndOf(d, r) = RoundBoundary(d, t[r.last + 1])
      BY <2>1 DEF EndOf
    <3>2. r.last + 1 \in 1..Len(t)
      BY <1>2, <2>1
    <3>3. Within(d, t[r.last + 1])
      BY <3>2, StartWithin
    <3>4. g >= r.last + 1 <=> Precedes(t[r.last + 1], Address(s, p, 0))
      BY <1>1, <3>2, BeginsFrom
    <3>5. Precedes(t[r.last + 1], Address(s, p, 0)) <=> Reaches(RoundBoundary(d, t[r.last + 1]), s, p)
      BY <3>3, Rounded
    <3>6. g >= r.last + 1 <=> ~(g <= r.last)
      <4> HIDE DEF g, t
      <4> QED
        BY <1>2, <1>3
    <3> QED
      BY <3>1, <3>4, <3>5, <3>6, Zenon
  <2>2. CASE ~(r.last < Len(t))
    <3>1. EndOf(d, r) = Address(Len(d), Len(d[Len(d)]) + 1, 0)
      BY <2>2 DEF EndOf
    <3>2. Len(d) \in Nat /\ \A n \in 1..Len(d) : Len(d[n]) \in Nat
      BY DocumentTypes
    <3>3. ~Reaches(EndOf(d, r), s, p)
      BY <3>1, <3>2 DEF Reaches, Address
    <3>4. g <= r.last
      <4> HIDE DEF g, t
      <4> QED
        BY <1>2, <1>3, <2>2
    <3> QED
      BY <3>3, <3>4
  <2> QED
    BY <2>1, <2>2
<1>6. g \in r.first..r.last <=> g >= r.first /\ g <= r.last
  <2> HIDE DEF g, t
  <2> QED
    BY <1>2, <1>3
<1> QED
  BY <1>4, <1>5, <1>6 DEF InRange

\* The lesser of two numbers.
LEMMA LesserOfTwo ==
  ASSUME NEW a \in Nat, NEW b \in Nat
  PROVE  Min({a, b}) = IF a <= b THEN a ELSE b
<1> DEFINE m == IF a <= b THEN a ELSE b
<1>1. m \in {a, b} /\ \A y \in {a, b} : m <= y
  OBVIOUS
<1>2. \A x \in {a, b} : (\A y \in {a, b} : x <= y) => x = m
  OBVIOUS
<1> HIDE DEF m
<1>3. (CHOOSE x \in {a, b} : \A y \in {a, b} : x <= y) = m
  BY <1>1, <1>2
<1> QED
  BY <1>3 DEF Min, m

\* A section of a fragment.
Piece == [section : Nat, headed : BOOLEAN, body : Seq(Nat)]

\* What a piece is to be.
PieceHolds(d, r, s, piece) ==
  /\ piece \in Piece /\ piece.section = s
  /\ \A p : p \in ToSet(piece.body) <=> p \in 1..Len(d[s]) /\ InRange(d, r, s, p)
  /\ \A k, l \in DOMAIN piece.body : k < l => piece.body[k] < piece.body[l]
  /\ piece.headed \/ piece.body = <<>> \/ piece.body[1] = 1
  /\ ~piece.headed /\ piece.body = <<>> => s = EndOf(d, r).section /\ EndOf(d, r).paragraph = 1

\* The paragraphs from..to - 1 as a body.
LEMMA Numbered ==
  ASSUME NEW from \in Nat, NEW to \in Nat, from <= to
  PROVE  LET body == [k \in 1..(to - from) |-> from + k - 1]
         IN /\ body \in Seq(Nat) /\ DOMAIN body = 1..(to - from)
            /\ \A p : p \in ToSet(body) <=> p \in from..to - 1
            /\ \A k, l \in DOMAIN body : k < l => body[k] < body[l]
            /\ body = <<>> <=> from = to
            /\ body # <<>> => body[1] = from
<1> DEFINE n == to - from
           body == [k \in 1..n |-> from + k - 1]
<1>1. n \in Nat /\ to = from + n
  OBVIOUS
<1> HIDE DEF n
<1>2. \A k \in 1..n : from + k - 1 \in Nat
  BY <1>1
<1>3. body \in Seq(Nat) /\ DOMAIN body = 1..n /\ Len(body) = n
  BY <1>1, <1>2, SeqDef
<1>4. \A k \in 1..n : body[k] = from + k - 1
  OBVIOUS
<1> HIDE DEF body
<1>5. \A p : p \in ToSet(body) <=> p \in from..to - 1
  <2>1. ASSUME NEW p \in ToSet(body) PROVE p \in from..to - 1
    <3>1. PICK k \in 1..n : body[k] = p
      BY <2>1, <1>3 DEF ToSet
    <3> QED
      BY <3>1, <1>1, <1>4
  <2>2. ASSUME NEW p \in from..to - 1 PROVE p \in ToSet(body)
    <3>1. p - from + 1 \in 1..n /\ from + (p - from + 1) - 1 = p
      BY <1>1
    <3>2. body[p - from + 1] = p
      BY <3>1, <1>4
    <3> QED
      BY <3>1, <3>2, <1>3 DEF ToSet
  <2> QED
    BY <2>1, <2>2
<1>6. \A k, l \in DOMAIN body : k < l => body[k] < body[l]
  BY <1>1, <1>3, <1>4
<1>7. body = <<>> <=> from = to
  BY <1>1, <1>3
<1>8. body # <<>> => body[1] = from
  BY <1>1, <1>3, <1>4
<1> QED
  BY <1>3, <1>5, <1>6, <1>7, <1>8 DEF body, n

\* A piece has the paragraphs of its section that the range reaches.
LEMMA PieceIs ==
  ASSUME NEW d, IsDocument(d), NEW r, Accepted(d, r),
         NEW s \in StartOf(d, r).section..EndOf(d, r).section
  PROVE  PieceHolds(d, r, s, PieceOf(d, r, s))
<1> DEFINE a == StartOf(d, r)
           b == EndOf(d, r)
           n == Len(d[s])
           to   == IF s = b.section THEN b.paragraph ELSE n + 1
           low  == IF s = a.section THEN a.paragraph ELSE 1
           from == IF low <= to THEN low ELSE to
           body == [k \in 1..(to - from) |-> from + k - 1]
           piece == PieceOf(d, r, s)
<1>1. /\ Len(d) \in Nat /\ \A k \in 1..Len(d) : Len(d[k]) \in Nat \ {0}
  BY DocumentTypes
<1>2. Boundary(d, a) /\ Boundary(d, b) /\ a.section <= b.section
  BY RangeBounds
<1>3. s \in 1..Len(d) /\ s \in Nat
  BY <1>1, <1>2 DEF Boundary
<1>4. n \in Nat \ {0} /\ to \in 1..n + 1 /\ low \in 1..n + 1
  BY <1>1, <1>2, <1>3 DEF Boundary
<1>5. from \in 1..n + 1 /\ from <= to
  BY <1>4
<1>6. Min({low, to}) = from
  BY <1>4, LesserOfTwo
<1>7. piece = [section |-> s, headed |-> from # 1, body |-> body]
  <2>1. piece = [section |-> s, headed |-> Min({low, to}) # 1,
                 body |-> [k \in 1..(to - Min({low, to})) |-> Min({low, to}) + k - 1]]
    BY DEF PieceOf
  <2> HIDE DEF from, low, to, piece
  <2> QED
    BY <2>1, <1>6
<1>8. \A p \in 1..n : InRange(d, r, s, p) <=> low <= p /\ p < to
  <2>1. ASSUME NEW p \in 1..n PROVE Reaches(a, s, p) <=> low <= p
    <3>1. a.section <= s /\ a.section \in Nat /\ a.paragraph \in Nat
      BY <1>1, <1>2, <1>3 DEF Boundary
    <3> QED
      BY <3>1, <1>3, <1>4 DEF Reaches
  <2>2. ASSUME NEW p \in 1..n PROVE Reaches(b, s, p) <=> ~(p < to)
    <3>1. s <= b.section /\ b.section \in Nat /\ b.paragraph \in Nat
      BY <1>1, <1>2, <1>3 DEF Boundary
    <3> QED
      BY <3>1, <1>3, <1>4 DEF Reaches
  <2> QED
    BY <2>1, <2>2 DEF InRange
<1> HIDE DEF low, n
<1>9. \A p : p \in from..to - 1 <=> p \in 1..n /\ low <= p /\ p < to
  BY <1>4, <1>5
<1>10. to = 1 => s = b.section /\ b.paragraph = 1
  BY <1>4
<1> HIDE DEF from, to
<1>11. /\ body \in Seq(Nat) /\ DOMAIN body = 1..(to - from)
       /\ \A p : p \in ToSet(body) <=> p \in from..to - 1
       /\ \A k, l \in DOMAIN body : k < l => body[k] < body[l]
       /\ body = <<>> <=> from = to
       /\ body # <<>> => body[1] = from
  <2>1. from \in Nat /\ to \in Nat
    BY <1>4, <1>5
  <2> QED
    BY <2>1, <1>5, Numbered
<1> HIDE DEF body, piece, a, b
<1>12. piece.section = s /\ piece.headed = (from # 1) /\ piece.body = body
  BY <1>7
<1>13. piece \in Piece
  BY <1>3, <1>7, <1>11 DEF Piece
<1>14. \A p : p \in ToSet(piece.body) <=> p \in 1..n /\ InRange(d, r, s, p)
  BY <1>8, <1>9, <1>11, <1>12
<1>15. piece.headed \/ piece.body = <<>> \/ piece.body[1] = 1
  BY <1>11, <1>12
<1>16. ~piece.headed /\ piece.body = <<>> => s = b.section /\ b.paragraph = 1
  BY <1>10, <1>11, <1>12
<1> QED
  BY <1>11, <1>12, <1>13, <1>14, <1>15, <1>16 DEF PieceHolds, n, b, piece

\* Pieces of sections in order.
LaterPiece == {pair \in Piece \X Piece : pair[1].section < pair[2].section}

\* A section after the first, which is left out when it is empty.
RestOf(d, r, s) == IF PieceOf(d, r, s).body = <<>> THEN <<>> ELSE <<PieceOf(d, r, s)>>

\* The fragment of a range: its first section's piece, and of the later ones
\* those that are not empty, in order.
FragmentHolds(d, r, f) ==
  /\ f \in Seq(Piece) /\ OrderedBy(f, LaterPiece)
  /\ \A x \in ToSet(f) : \E s \in StartOf(d, r).section..EndOf(d, r).section :
       x = PieceOf(d, r, s) /\ (s = StartOf(d, r).section \/ x.body # <<>>)
  /\ \A s \in StartOf(d, r).section..EndOf(d, r).section :
       PieceOf(d, r, s).body # <<>> => PieceOf(d, r, s) \in ToSet(f)

\* A sequence of one entry.
LEMMA OneEntry ==
  ASSUME NEW T, NEW x \in T
  PROVE  <<x>> \in Seq(T) /\ ToSet(<<x>>) = {x}
BY DEF ToSet

\* The empty sequence.
LEMMA NoEntry ==
  ASSUME NEW T
  PROVE  <<>> \in Seq(T) /\ ToSet(<<>>) = {}
BY DEF ToSet

\* The fragment of pages_to_fragment is one.
LEMMA FragmentIs ==
  ASSUME NEW d, IsDocument(d), NEW r, Accepted(d, r)
  PROVE  FragmentHolds(d, r, PageFragment(d, r))
<1> DEFINE a == StartOf(d, r).section
           b == EndOf(d, r).section
           n == b - a
           P(s) == PieceOf(d, r, s)
           ss == [k \in 1..n |-> RestOf(d, r, a + k)]
           rest == FlattenSeq(ss)
<1>1. a \in Nat /\ b \in Nat /\ a <= b
  <2>1. Len(d) \in Nat
    BY DocumentTypes
  <2> QED
    BY <2>1, RangeBounds DEF Boundary
<1>2. \A s \in a..b : P(s) \in Piece /\ P(s).section = s
  BY PieceIs DEF PieceHolds
<1>3. PageFragment(d, r) = <<P(a)>> \o rest
  BY DEF PageFragment, RestOf
<1> HIDE DEF a, b, P
<1>4. n \in Nat /\ \A k \in 1..n : a + k \in a..b /\ a + k > a
  BY <1>1
<1>5. \A s : RestOf(d, r, s) = IF P(s).body = <<>> THEN <<>> ELSE <<P(s)>>
  BY DEF RestOf, P
<1>6. \A k \in 1..n : RestOf(d, r, a + k) \in Seq(Piece)
  <2>1. \A s \in a..b : RestOf(d, r, s) \in Seq(Piece)
    BY <1>2, <1>5, OneEntry, NoEntry
  <2> QED
    BY <2>1, <1>4
<1> HIDE DEF n
<1>7. ss \in Seq(Seq(Piece)) /\ Len(ss) = n
  BY <1>4, <1>6, SeqDef
<1>8. \A k \in 1..n : ss[k] = RestOf(d, r, a + k)
  OBVIOUS
<1> HIDE DEF ss
<1>9. \A k \in 1..n : \A x : x \in ToSet(ss[k]) <=> x = P(a + k) /\ P(a + k).body # <<>>
  <2> SUFFICES ASSUME NEW k \in 1..n
               PROVE  \A x : x \in ToSet(ss[k]) <=> x = P(a + k) /\ P(a + k).body # <<>>
    OBVIOUS
  <2>1. P(a + k) \in Piece
    BY <1>2, <1>4
  <2>2. CASE P(a + k).body = <<>>
    BY <2>2, <1>5, <1>8, NoEntry
  <2>3. CASE P(a + k).body # <<>>
    <3>1. ss[k] = <<P(a + k)>>
      BY <2>3, <1>5, <1>8
    <3>2. ToSet(ss[k]) = {P(a + k)}
      BY <3>1, <2>1, OneEntry
    <3> QED
      BY <3>2, <2>3
  <2> QED
    BY <2>2, <2>3
<1>10. \A k \in 1..n : OrderedBy(ss[k], LaterPiece)
  <2> SUFFICES ASSUME NEW k \in 1..n PROVE OrderedBy(ss[k], LaterPiece)
    OBVIOUS
  <2>1. CASE ss[k] = <<>>
    BY <2>1 DEF OrderedBy
  <2>2. CASE ss[k] = <<P(a + k)>>
    <3>1. DOMAIN ss[k] = {1}
      BY <2>2
    <3> QED
      BY <3>1 DEF OrderedBy
  <2> QED
    BY <2>1, <2>2, <1>5, <1>8
<1>11. \A i, j \in 1..n : i < j =>
         \A x \in ToSet(ss[i]), y \in ToSet(ss[j]) : <<x, y>> \in LaterPiece
  <2> SUFFICES ASSUME NEW i \in 1..n, NEW j \in 1..n, i < j,
                      NEW x \in ToSet(ss[i]), NEW y \in ToSet(ss[j])
               PROVE  <<x, y>> \in LaterPiece
    OBVIOUS
  <2>1. x = P(a + i) /\ y = P(a + j)
    BY <1>9
  <2>2. x \in Piece /\ y \in Piece /\ x.section = a + i /\ y.section = a + j
    BY <2>1, <1>2, <1>4
  <2>3. x.section < y.section
    BY <2>2, <1>1
  <2> QED
    BY <2>2, <2>3 DEF LaterPiece
<1>12. rest \in Seq(Piece) /\ \A x : x \in ToSet(rest) <=> \E k \in 1..n : x \in ToSet(ss[k])
  BY <1>7, FlattenHolds
<1>13. OrderedBy(rest, LaterPiece)
  BY <1>7, <1>10, <1>11, FlattenOrdered
<1> HIDE DEF rest
<1>14. P(a) \in Piece /\ P(a).section = a
  BY <1>1, <1>2
<1>15. <<P(a)>> \in Seq(Piece) /\ ToSet(<<P(a)>>) = {P(a)} /\ OrderedBy(<<P(a)>>, LaterPiece)
  <2>1. <<P(a)>> \in Seq(Piece) /\ ToSet(<<P(a)>>) = {P(a)}
    BY <1>14, OneEntry
  <2>2. OrderedBy(<<P(a)>>, LaterPiece)
    <3>1. DOMAIN <<P(a)>> = {1}
      OBVIOUS
    <3> QED
      BY <3>1 DEF OrderedBy
  <2> QED
    BY <2>1, <2>2
<1> DEFINE head == <<P(a)>>
           f == head \o rest
<1>16. \A x \in ToSet(head), y \in ToSet(rest) : <<x, y>> \in LaterPiece
  <2> SUFFICES ASSUME NEW x \in ToSet(head), NEW y \in ToSet(rest) PROVE <<x, y>> \in LaterPiece
    OBVIOUS
  <2>1. PICK k \in 1..n : y \in ToSet(ss[k])
    BY <1>12
  <2>2. x = P(a) /\ y = P(a + k)
    BY <2>1, <1>9, <1>15
  <2>3. y \in Piece /\ y.section = a + k /\ a < a + k
    BY <2>2, <1>2, <1>4, <1>1
  <2> QED
    BY <2>2, <2>3, <1>14 DEF LaterPiece
<1>17. head \in Seq(Piece) /\ ToSet(head) = {P(a)} /\ OrderedBy(head, LaterPiece)
  BY <1>15
<1> HIDE DEF head
<1>18. f \in Seq(Piece) /\ \A x : x \in ToSet(f) <=> x \in ToSet(head) \/ x \in ToSet(rest)
  BY <1>12, <1>17, RangeOfConcat
<1>19. OrderedBy(f, LaterPiece)
  BY <1>12, <1>13, <1>16, <1>17, OrderOfConcat
<1> HIDE DEF f
<1>20. ASSUME NEW x \in ToSet(f) PROVE \E s \in a..b : x = P(s) /\ (s = a \/ x.body # <<>>)
  <2>1. CASE x \in ToSet(head)
    BY <2>1, <1>1, <1>17
  <2>2. CASE x \in ToSet(rest)
    <3>1. PICK k \in 1..n : x \in ToSet(ss[k])
      BY <2>2, <1>12
    <3> QED
      BY <3>1, <1>4, <1>9
  <2> QED
    BY <1>20, <1>18, <2>1, <2>2
<1>21. ASSUME NEW s \in a..b, P(s).body # <<>> PROVE P(s) \in ToSet(f)
  <2>1. CASE s = a
    BY <2>1, <1>17, <1>18
  <2>2. CASE s # a
    <3>1. s - a \in 1..n /\ a + (s - a) = s
      BY <2>2, <1>1 DEF n
    <3>2. P(s) \in ToSet(ss[s - a])
      BY <3>1, <1>9, <1>21
    <3> QED
      BY <3>1, <3>2, <1>12, <1>18
  <2> QED
    BY <2>1, <2>2
<1>22. PageFragment(d, r) = f
  BY <1>3 DEF f, head
<1>23. /\ \A x \in ToSet(f) : \E s \in a..b : x = P(s) /\ (s = a \/ x.body # <<>>)
       /\ \A s \in a..b : P(s).body # <<>> => P(s) \in ToSet(f)
  BY <1>20, <1>21
<1> QED
  BY <1>18, <1>19, <1>22, <1>23 DEF FragmentHolds, a, b, P

\* A paragraph, by its section and its number there.
Paragraphs == Nat \X Nat

\* A paragraph that does not begin before the other.
LaterParagraph ==
  {pair \in Paragraphs \X Paragraphs :
     ~Precedes(Address(pair[2][1], pair[2][2], 0), Address(pair[1][1], pair[1][2], 0))}

\* The paragraphs of one piece.
Paired(piece) == [k \in DOMAIN piece.body |-> <<piece.section, piece.body[k]>>]

\* A later section's paragraphs are later, and so is a later number.
LEMMA LaterParagraphIs ==
  ASSUME NEW s \in Nat, NEW t \in Nat, NEW p \in Nat, NEW q \in Nat, s < t \/ (s = t /\ p < q)
  PROVE  <<<<s, p>>, <<t, q>>>> \in LaterParagraph
BY DEF LaterParagraph, Paragraphs, Precedes, Address

\* The paragraphs of a piece, in order.
LEMMA PairedIs ==
  ASSUME NEW x \in Piece, \A k, l \in DOMAIN x.body : k < l => x.body[k] < x.body[l]
  PROVE  /\ Paired(x) \in Seq(Paragraphs)
         /\ \A q : q \in ToSet(Paired(x)) <=> \E p \in ToSet(x.body) : q = <<x.section, p>>
         /\ OrderedBy(Paired(x), LaterParagraph)
<1> DEFINE o == x.body
           c == x.section
           f == [k \in DOMAIN o |-> <<c, o[k]>>]
<1>1. o \in Seq(Nat) /\ c \in Nat /\ \A k, l \in DOMAIN o : k < l => o[k] < o[l]
  BY DEF Piece
<1>2. Paired(x) = f
  BY DEF Paired
<1> HIDE DEF o, c
<1>3. Len(o) \in Nat /\ DOMAIN o = 1..Len(o) /\ \A k \in 1..Len(o) : o[k] \in Nat
  BY <1>1
<1>4. \A k \in 1..Len(o) : <<c, o[k]>> \in Paragraphs
  BY <1>1, <1>3 DEF Paragraphs
<1>5. f \in Seq(Paragraphs) /\ DOMAIN f = 1..Len(o) /\ \A k \in 1..Len(o) : f[k] = <<c, o[k]>>
  BY <1>3, <1>4, SeqDef
<1> HIDE DEF f
<1>6. \A q : q \in ToSet(f) <=> \E p \in ToSet(o) : q = <<c, p>>
  BY <1>3, <1>5 DEF ToSet
<1>7. ASSUME NEW k \in DOMAIN f, NEW l \in DOMAIN f, k < l PROVE <<f[k], f[l]>> \in LaterParagraph
  <2>1. o[k] < o[l] /\ o[k] \in Nat /\ o[l] \in Nat /\ f[k] = <<c, o[k]>> /\ f[l] = <<c, o[l]>>
    BY <1>1, <1>3, <1>5, <1>7
  <2> QED
    BY <2>1, <1>1, LaterParagraphIs
<1>8. OrderedBy(f, LaterParagraph)
  BY <1>7 DEF OrderedBy
<1> QED
  BY <1>2, <1>5, <1>6, <1>8 DEF o, c

\* A fragment's paragraphs are those that begin on its pages, in order.
LEMMA FragmentBody ==
  ASSUME NEW d, IsDocument(d), NEW r, Accepted(d, r)
  PROVE  LET body == Body(PageFragment(d, r))
         IN ToSet(body) = Beginning(d, r) /\ InOrder(body)
<1> DEFINE f == PageFragment(d, r)
           a == StartOf(d, r).section
           b == EndOf(d, r).section
           P(s) == PieceOf(d, r, s)
           ss == [i \in DOMAIN f |-> Paired(f[i])]
           body == FlattenSeq(ss)
<1>1. FragmentHolds(d, r, f)
  BY FragmentIs
<1>2. \A s \in a..b : PieceHolds(d, r, s, P(s))
  BY PieceIs
<1>3. Body(f) = body
  BY DEF Body, Paired
<1>4. f \in Seq(Piece) /\ OrderedBy(f, LaterPiece)
  BY <1>1 DEF FragmentHolds
<1>5. \A x \in ToSet(f) : \E s \in a..b : x = P(s)
  BY <1>1 DEF FragmentHolds
<1>6. \A s \in a..b : P(s).body # <<>> => P(s) \in ToSet(f)
  BY <1>1 DEF FragmentHolds
<1>7. a \in 1..Len(d) /\ b \in 1..Len(d) /\ Len(d) \in Nat /\ DOMAIN d = 1..Len(d)
  BY RangeBounds, DocumentTypes DEF Boundary
<1>8. \A s \in 1..Len(d) : Len(d[s]) \in Nat /\ DOMAIN d[s] = 1..Len(d[s])
  BY DocumentTypes
<1>9. \A s \in 1..Len(d) : \A p \in 1..Len(d[s]) :
        InRange(d, r, s, p) => s \in a..b
  <2> SUFFICES ASSUME NEW s \in 1..Len(d), NEW p \in 1..Len(d[s]), InRange(d, r, s, p)
               PROVE  s \in a..b
    OBVIOUS
  <2>1. a <= s /\ ~(b < s)
    BY <1>7 DEF InRange, Reaches
  <2> QED
    BY <2>1, <1>7
<1> HIDE DEF f, a, b, P
<1>10. Len(f) \in Nat /\ DOMAIN f = 1..Len(f) /\ \A i \in 1..Len(f) : f[i] \in Piece /\ f[i] \in ToSet(f)
  BY <1>4 DEF ToSet
<1>11. \A i \in 1..Len(f) : \A k, l \in DOMAIN f[i].body : k < l => f[i].body[k] < f[i].body[l]
  BY <1>10, <1>5, <1>2 DEF PieceHolds
<1>12. ss = [i \in 1..Len(f) |-> Paired(f[i])]
  BY <1>10
<1> HIDE DEF ss
<1>13. \A i \in 1..Len(f) : Paired(f[i]) \in Seq(Paragraphs)
  BY <1>10, <1>11, PairedIs
<1>14. ss \in Seq(Seq(Paragraphs)) /\ Len(ss) = Len(f)
  BY <1>10, <1>12, <1>13, SeqDef
<1>15. \A i \in 1..Len(f) : ss[i] = Paired(f[i])
  BY <1>12
<1>16. \A i \in 1..Len(f) : OrderedBy(ss[i], LaterParagraph)
  BY <1>10, <1>11, <1>15, PairedIs
<1>17. \A i \in 1..Len(f) : \A q :
         q \in ToSet(ss[i]) <=> \E p \in ToSet(f[i].body) : q = <<f[i].section, p>>
  BY <1>10, <1>11, <1>15, PairedIs
<1>18. \A i \in 1..Len(f) : \A p \in ToSet(f[i].body) : p \in Nat
  <2> SUFFICES ASSUME NEW i \in 1..Len(f) PROVE \A p \in ToSet(f[i].body) : p \in Nat
    OBVIOUS
  <2>1. f[i].body \in Seq(Nat)
    BY <1>10 DEF Piece
  <2> QED
    BY <2>1 DEF ToSet
<1>19. \A i, j \in 1..Len(f) : i < j =>
         \A x \in ToSet(ss[i]), y \in ToSet(ss[j]) : <<x, y>> \in LaterParagraph
  <2> SUFFICES ASSUME NEW i \in 1..Len(f), NEW j \in 1..Len(f), i < j,
                      NEW x \in ToSet(ss[i]), NEW y \in ToSet(ss[j])
               PROVE  <<x, y>> \in LaterParagraph
    OBVIOUS
  <2>1. PICK p \in ToSet(f[i].body), q \in ToSet(f[j].body) :
          x = <<f[i].section, p>> /\ y = <<f[j].section, q>>
    BY <1>17
  <2>2. p \in Nat /\ q \in Nat /\ f[i].section \in Nat /\ f[j].section \in Nat
    BY <1>10, <1>18 DEF Piece
  <2>3. <<f[i], f[j]>> \in LaterPiece
    BY <1>10, <1>4 DEF OrderedBy
  <2>4. f[i].section < f[j].section
    BY <2>3 DEF LaterPiece
  <2> QED
    BY <2>1, <2>2, <2>4, LaterParagraphIs
<1>20. body \in Seq(Paragraphs) /\ \A q : q \in ToSet(body) <=> \E i \in 1..Len(ss) : q \in ToSet(ss[i])
  BY <1>14, FlattenHolds
<1>21. OrderedBy(body, LaterParagraph)
  BY <1>14, <1>16, <1>19, FlattenOrdered
<1> HIDE DEF body
<1>22. InOrder(body)
  BY <1>21 DEF InOrder, OrderedBy, LaterParagraph
<1>23. ASSUME NEW q \in ToSet(body) PROVE q \in Beginning(d, r)
  <2>1. PICK i \in 1..Len(f) : \E p \in ToSet(f[i].body) : q = <<f[i].section, p>>
    BY <1>14, <1>17, <1>20
  <2>2. PICK p \in ToSet(f[i].body) : q = <<f[i].section, p>>
    BY <2>1
  <2>3. PICK s \in a..b : f[i] = P(s)
    BY <1>10, <1>5
  <2>4. f[i].section = s /\ p \in 1..Len(d[s]) /\ InRange(d, r, s, p)
    BY <2>2, <2>3, <1>2 DEF PieceHolds
  <2>5. s \in 1..Len(d)
    BY <1>7
  <2>6. PageOf(d, s, p) \in r.first..r.last
    BY <2>4, <2>5, PagesAreRange
  <2>7. q = <<s, p>> /\ q \in {s} \X DOMAIN d[s]
    BY <2>2, <2>4, <2>5, <1>8
  <2> QED
    BY <2>5, <2>6, <2>7, <1>7 DEF Beginning
<1>24. ASSUME NEW q \in Beginning(d, r) PROVE q \in ToSet(body)
  <2>1. PICK s \in 1..Len(d) : q \in {s} \X DOMAIN d[s]
    BY <1>24, <1>7 DEF Beginning
  <2>2. PICK p \in 1..Len(d[s]) : q = <<s, p>>
    BY <2>1, <1>8
  <2>3. PageOf(d, s, p) \in r.first..r.last
    BY <1>24, <2>2 DEF Beginning
  <2>4. InRange(d, r, s, p)
    BY <2>3, PagesAreRange
  <2>5. s \in a..b
    BY <2>4, <1>9
  <2>6. p \in ToSet(P(s).body) /\ P(s).section = s
    BY <2>4, <2>5, <1>2 DEF PieceHolds
  <2>7. P(s).body # <<>>
    BY <2>6, NoEntry
  <2>8. PICK i \in 1..Len(f) : f[i] = P(s)
    BY <2>5, <2>7, <1>6, <1>10 DEF ToSet
  <2>9. q \in ToSet(ss[i])
    BY <2>2, <2>6, <2>8, <1>17
  <2> QED
    BY <2>9, <1>14, <1>20
<1>25. ToSet(body) = Beginning(d, r)
  BY <1>23, <1>24
<1> QED
  BY <1>3, <1>22, <1>25 DEF f

\* Each of a fragment's sections begins with the one that carries its
\* definition, if any paragraph begins on the range.
LEMMA FragmentHeads ==
  ASSUME NEW d, IsDocument(d), NEW r, Accepted(d, r), Beginning(d, r) # {},
         NEW x \in ToSet(PageFragment(d, r))
  PROVE  x.headed \/ (x.body # <<>> /\ x.body[1] = 1)
<1> DEFINE a == StartOf(d, r)
           b == EndOf(d, r)
<1>1. PICK s \in a.section..b.section :
        x = PieceOf(d, r, s) /\ (s = a.section \/ x.body # <<>>)
  BY FragmentIs DEF FragmentHolds
<1>2. PieceHolds(d, r, s, x)
  BY <1>1, PieceIs
<1>3. x.headed \/ x.body = <<>> \/ x.body[1] = 1
  BY <1>2 DEF PieceHolds
<1>4. ASSUME ~x.headed, x.body = <<>> PROVE FALSE
  <2>1. s = a.section /\ s = b.section /\ b.paragraph = 1
    BY <1>1, <1>2, <1>4 DEF PieceHolds
  <2>2. PICK q \in Beginning(d, r) : TRUE
    OBVIOUS
  <2>3. PICK t \in DOMAIN d : q \in {t} \X DOMAIN d[t]
    BY <2>2 DEF Beginning
  <2>4. t \in 1..Len(d) /\ Len(d) \in Nat /\ Len(d[t]) \in Nat /\ DOMAIN d[t] = 1..Len(d[t])
    BY <2>3, DocumentTypes
  <2>5. PICK p \in 1..Len(d[t]) : q = <<t, p>>
    BY <2>3, <2>4
  <2>6. PageOf(d, t, p) \in r.first..r.last
    BY <2>5 DEF Beginning
  <2>7. InRange(d, r, t, p)
    BY <2>4, <2>6, PagesAreRange
  <2>8. a.section \in Nat
    BY <2>4, RangeBounds DEF Boundary
  <2> QED
    BY <2>1, <2>4, <2>7, <2>8 DEF InRange, Reaches
<1> QED
  BY <1>3, <1>4

\* What is to be published was cut from the document by the ranges.
CutInv ==
  ranges # <<>> /\ fragments # <<>> => ~Refused(doc, ranges) /\ fragments = Cut(doc, ranges)

\* The ranges of a run that is not refused.
LEMMA RangesAccepted ==
  ASSUME NEW d, NEW rs \in Ranges, rs # <<>>, ~Refused(d, rs), IsDocument(d), NEW i \in DOMAIN rs
  PROVE  Accepted(d, rs[i])
<1>1. rs \in Seq(PageRange)
  BY DEF Ranges, PageRange
<1>2. Len(rs) \in Nat /\ i \in 1..Len(rs) /\ rs[i] \in PageRange
  BY <1>1
<1>3. PageStarts(d) \in Seq(Place)
  BY PageStartsOrdered
<1>4. rs[i].first # 0 /\ ~(rs[i].first > rs[i].last) /\ ~(rs[i].last > Len(PageStarts(d)))
  BY <1>2 DEF Refused
<1>5. Len(PageStarts(d)) \in Nat /\ rs[i].first \in Nat /\ rs[i].last \in Nat
  BY <1>2, <1>3 DEF PageRange
<1>6. rs[i].first \in 1..rs[i].last /\ rs[i].last \in 1..Len(PageStarts(d))
  BY <1>4, <1>5
<1> QED
  BY <1>2, <1>6 DEF Accepted

\* What was cut by the ranges holds its pages.
LEMMA CutHolds ==
  ASSUME IsDocument(doc), ranges \in Ranges, CutInv
  PROVE  FragmentsHoldTheirPages
<1> SUFFICES ASSUME ranges # <<>>, NEW i \in DOMAIN fragments
             PROVE  /\ ToSet(Body(fragments[i])) = Beginning(doc, ranges[i])
                    /\ InOrder(Body(fragments[i]))
                    /\ Beginning(doc, ranges[i]) # {} =>
                         \A k \in DOMAIN fragments[i] :
                           LET piece == fragments[i][k]
                           IN piece.headed \/ (piece.body # <<>> /\ piece.body[1] = 1)
  BY DEF FragmentsHoldTheirPages
<1>1. fragments # <<>>
  OBVIOUS
<1>2. ~Refused(doc, ranges) /\ fragments = [k \in DOMAIN ranges |-> PageFragment(doc, ranges[k])]
  BY <1>1 DEF CutInv, Cut
<1>3. i \in DOMAIN ranges /\ fragments[i] = PageFragment(doc, ranges[i])
  BY <1>2
<1>4. Accepted(doc, ranges[i])
  BY <1>2, <1>3, RangesAccepted
<1>5. ToSet(Body(fragments[i])) = Beginning(doc, ranges[i]) /\ InOrder(Body(fragments[i]))
  BY <1>3, <1>4, FragmentBody
<1>6. ASSUME Beginning(doc, ranges[i]) # {}, NEW k \in DOMAIN fragments[i]
      PROVE  fragments[i][k].headed \/ (fragments[i][k].body # <<>> /\ fragments[i][k].body[1] = 1)
  <2>1. fragments[i][k] \in ToSet(PageFragment(doc, ranges[i]))
    BY <1>3, <1>6 DEF ToSet
  <2> QED
    BY <2>1, <1>4, <1>6, FragmentHeads
<1> QED
  BY <1>5, <1>6

\* A step cuts the document that is loaded, or keeps what was cut.
LEMMA CutStep ==
  ASSUME CutInv, [SplitNext]_splitVars
  PROVE  CutInv'
<1>1. CASE Load
  BY <1>1 DEF Load, CutInv
<1>2. CASE Split
  <2>1. doc' = doc /\ ranges' = ranges
    BY <1>2 DEF Split, input
  <2>2. fragments' = fragments \/ (~Refused(doc, ranges) /\ fragments' = Cut(doc, ranges))
    BY <1>2 DEF Split
  <2>3. Refused(doc, ranges)' = Refused(doc, ranges) /\ Cut(doc, ranges)' = Cut(doc, ranges)
    BY <2>1
  <2> QED
    BY <2>1, <2>2, <2>3 DEF CutInv
<1>3. CASE doc' = doc /\ ranges' = ranges /\ fragments' = fragments
  <2>1. Refused(doc, ranges)' = Refused(doc, ranges) /\ Cut(doc, ranges)' = Cut(doc, ranges)
    BY <1>3
  <2> QED
    BY <1>3, <2>1 DEF CutInv
<1>4. Load \/ Split \/ (doc' = doc /\ ranges' = ranges /\ fragments' = fragments)
  BY DEF SplitNext, Build, Publish, ListDirectory, RemoveStale, Report, Die, SplitDone, splitVars, input
<1> QED
  BY <1>1, <1>2, <1>3, <1>4

\* hwp split cuts a document by page ranges so that each fragment holds exactly
\* the paragraphs that begin on its pages, once and in order, and each of its
\* sections begins with what carries the section's definition, for every
\* document and all ranges (page_starts, round_boundary, pages_to_fragment).
THEOREM PagesHeld == SplitSpec => []FragmentsHoldTheirPages
<1> DEFINE PagesInv == SplitTypeOK /\ CutInv
<1>1. SplitInit => PagesInv
  BY SplitInitInv DEF SplitInv, SplitInit, CutInv
<1>2. PagesInv /\ [SplitNext]_splitVars => PagesInv'
  BY SplitTypeStep, CutStep
<1>3. PagesInv => FragmentsHoldTheirPages
  BY CutHolds DEF SplitTypeOK
<1> QED
  BY <1>1, <1>2, <1>3, PTL DEF SplitSpec
=============================================================================
