--------------------------- MODULE MCDocumentSplit ---------------------------
(***************************************************************************)
(* One run over every small document with each range of pages; and three   *)
(* runs in a row, with more and fewer fragments, in a directory that holds *)
(* other people's files.                                                   *)
(***************************************************************************)
EXTENDS DocumentSplit

\* Where pages may start in a paragraph: nowhere, at its start, inside it, or
\* more than once.
Paragraphs == {<<>>, <<0>>, <<1>>, <<0, 1>>, <<1, 2>>}

\* The numbers of paragraphs of the sections.
Shapes == {<<1>>, <<3>>, <<1, 2>>, <<2, 1>>, <<1, 1, 1>>, <<2, 2>>}

\* Every document of a shape is a function from its sections to paragraphs.
SectionsOf(n) == [1..n -> Paragraphs]
DocsOf(shape) ==
  CASE Len(shape) = 1 -> {<<a>> : a \in SectionsOf(shape[1])}
    [] Len(shape) = 2 -> {<<a, b>> : a \in SectionsOf(shape[1]), b \in SectionsOf(shape[2])}
    [] OTHER -> {<<a, b, c>> : a \in SectionsOf(shape[1]), b \in SectionsOf(shape[2]),
                               c \in SectionsOf(shape[3])}

Pages(first, last) == [first |-> first, last |-> last]

EveryCut ==
  [runs |-> <<[docs  |-> {<<>>} \cup UNION {DocsOf(shape) : shape \in Shapes},
               pages |-> {<<>>} \cup {<<Pages(a, b)>> : a, b \in 0..4}
                         \cup {<<Pages(a, a), Pages(b, 5)>> : a \in {1, 2}, b \in {1, 3}}]>>,
   dirs |-> {[n \in Numbers |-> Absent]}]

Sections(n) == [s \in 1..n |-> <<<<0>>>>]

EveryDirectory ==
  LET some == [docs |-> {Sections(n) : n \in 1..3}, pages |-> {<<>>}]
  IN [runs |-> <<some, some, some>>,
      dirs |-> [Numbers -> {Absent, Folder, Users}]]

MCJobs == {EveryCut, EveryDirectory}
==============================================================================
