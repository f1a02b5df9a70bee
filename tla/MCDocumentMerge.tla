--------------------------- MODULE MCDocumentMerge ---------------------------
(***************************************************************************)
(* Documents to merge, in threes.  Each has one section of two paragraphs, *)
(* the first with the first entry of every collection, the second with the *)
(* last.  The header collections are varied with one kind of picture, and  *)
(* the pictures and objects with one kind of header.                       *)
(***************************************************************************)
EXTENDS DocumentMerge

Stream(dir, stem, ext) == [pre |-> <<>>, dir |-> dir, stem |-> stem, ext |-> ext]

ById(n)      == [kind |-> "id", id |-> n]
ByItem(name) == [kind |-> "item", name |-> name]
NoPic        == [kind |-> "none"]

\* What the readers make of a document's pictures: the bin_data table, the
\* stream names and the reference.  HWP5 refers by number, HWPX by item id; a
\* document built in memory names the whole stream.
Pics(d) == {
  [bins |-> <<>>,         names |-> <<>>,                        ref |-> NoPic],
  [bins |-> <<1>>,        names |-> <<Canonical(1)>>,            ref |-> ById(1)],
  [bins |-> <<1, 2>>,     names |-> <<Canonical(1), Canonical(2)>>, ref |-> ById(1)],
  [bins |-> <<0, 2, 1>>,  names |-> <<Canonical(1), Canonical(2)>>, ref |-> ById(3)],
  [bins |-> <<MaxId, 1>>, names |-> <<Canonical(1), Canonical(MaxId)>>, ref |-> ById(2)],
  [bins |-> <<>>, names |-> <<Stream(TRUE, <<"image", d>>, TRUE)>>,
   ref |-> ByItem(Stream(FALSE, <<"image", d>>, FALSE))],
  [bins |-> <<>>, names |-> <<Stream(TRUE, <<"image", 1>>, TRUE)>>,
   ref |-> ByItem(Stream(FALSE, <<"image", 1>>, FALSE))],
  [bins |-> <<>>, names |-> <<Stream(TRUE, <<"BIN", 1>>, TRUE)>>,
   ref |-> ByItem(Stream(FALSE, <<"BIN", 1>>, FALSE))],
  [bins |-> <<>>, names |-> <<Stream(FALSE, <<"logo", 0>>, TRUE)>>,
   ref |-> ByItem(Stream(FALSE, <<"logo", 0>>, TRUE))],
  [bins |-> <<>>, names |-> <<Stream(TRUE, <<"logo", 0>>, TRUE)>>,
   ref |-> ByItem(Stream(FALSE, <<"logo", 0>>, FALSE))],
  [bins |-> <<>>, names |-> <<Stream(TRUE, <<"BIN", 2>>, TRUE)>>,
   ref |-> ByItem(Stream(FALSE, <<"BIN", 2>>, FALSE))]}

\* What the readers make of its tables and pictures: HWP5 a record for each, HWPX
\* placements of which the writer makes ids; a document built in memory has
\* neither for a table.
Thing(kind, data, placed, number) == [kind |-> kind, data |-> data, placed |-> placed, number |-> number]

Objects == {
  <<Thing("table", "full", FALSE, 1),    Thing("picture", "full", FALSE, 2)>>,
  <<Thing("table", "short", TRUE, 3),    Thing("drawing", "full", FALSE, 13)>>,
  <<Thing("table", "empty", TRUE, 0),    Thing("table", "empty", TRUE, 3)>>,
  <<Thing("picture", "empty", FALSE, 0), Thing("table", "empty", TRUE, 1)>>,
  <<Thing("table", "empty", FALSE, 0),   Thing("table", "empty", TRUE, 7)>>}

\* With raw records, as HWP5 has them, or without, as HWPX has not.
Headers ==
  {h \in [default : BOOLEAN, chars : {1, 3}, lists : {0, 1}, raw : BOOLEAN, head : {"number", "bullet"}] :
     h.lists = 0 => h.head = "number"}

Tagged(d, n) == [k \in 1..n |-> [of |-> <<d, k>>]]
Named(d, n, default) == [k \in 1..n |-> [of |-> <<d, k>>, name |-> IF default THEN "default" ELSE "own"]]

Sample(d, h, pics, objects) ==
  LET most == IF h.default THEN 1 ELSE 2
      Para(last, object, ref) ==
        [para  |-> IF last THEN h.lists ELSE 0,
         char  |-> IF last THEN h.chars - 1 ELSE 0,
         style |-> IF last THEN most - 1 ELSE 0,
         border |-> IF last THEN most ELSE 0,
         page  |-> [text |-> ~last /\ ~h.raw, id |-> IF last THEN most ELSE 0],
         pic   |-> ref, object |-> object]
  IN [chars   |-> [k \in 1..h.chars |-> [of |-> <<d, k>>, font |-> IF k = 1 THEN 0 ELSE most - 1,
                                        border |-> IF k = 1 THEN 0 ELSE most]],
      paras   |-> [k \in 1..(1 + h.lists) |->
                     [of |-> <<d, k>>, tab |-> IF k = 1 THEN 0 ELSE most - 1,
                      head |-> IF k = 1 THEN "none" ELSE h.head, list |-> 0,
                      border |-> IF k = 1 THEN 0 ELSE most]],
      styles  |-> Named(d, most, h.default), fonts |-> Named(d, most, h.default),
      borders |-> Tagged(d, most), tabs |-> Tagged(d, most),
      levels  |-> Tagged(d, h.lists), bullets |-> Tagged(d, h.lists),
      rawTabs    |-> Tagged(d, IF h.raw THEN most ELSE 0),
      rawLevels  |-> Tagged(d, IF h.raw THEN h.lists ELSE 0),
      rawBullets |-> Tagged(d, IF h.raw THEN h.lists ELSE 0),
      bins    |-> pics.bins,
      streams |-> [k \in DOMAIN pics.names |-> [name |-> pics.names[k], data |-> <<d, k>>]],
      sections |-> <<<<Para(FALSE, objects[1], NoPic), Para(TRUE, objects[2], pics.ref)>>>>]

SomePics(d) == CHOOSE p \in Pics(d) : p.bins = <<1, 2>>
SomeHeader(default) == [default |-> default, chars |-> 1, lists |-> 1, raw |-> default, head |-> "number"]
SomeObjects == CHOOSE o \in Objects : o[1].data = "full"

HeaderDocs(d) == {Sample(d, h, SomePics(d), SomeObjects) : h \in Headers}
PicDocs(d)    == {Sample(d, SomeHeader(f), p, SomeObjects) : f \in BOOLEAN, p \in Pics(d)}
ObjectDocs(d) == {Sample(d, SomeHeader(f), SomePics(d), o) : f \in BOOLEAN, o \in Objects}

MCDocuments == {[d \in 1..3 |-> HeaderDocs(d)], [d \in 1..3 |-> PicDocs(d)], [d \in 1..3 |-> ObjectDocs(d)]}
==============================================================================
