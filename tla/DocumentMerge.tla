---------------------------- MODULE DocumentMerge ----------------------------
(***************************************************************************)
(* merge_documents of crates/hwp-convert/src/document_merge.rs: documents  *)
(* are appended to the first one after the other.  What a paragraph refers *)
(* to by number is a place in a collection of its document's header; the   *)
(* collections of each input are appended to those of the target, and the  *)
(* references of its paragraphs are shifted by the lengths that were there.*)
(*                                                                         *)
(* One action is one round of the loop over the inputs.  A header entry    *)
(* carries the input it came from and its place there (of), so that what a *)
(* reference means can be compared before and after.  A paragraph has at   *)
(* most one reference of each kind; nested paragraphs (cells, lists,       *)
(* captions) are remapped like the others and are not told apart.  There   *)
(* is one language of fonts and one file extension.                        *)
(*                                                                         *)
(* Left out: the package fields and the metadata that only the first input *)
(* keeps, and the notes about them.                                        *)
(***************************************************************************)
EXTENDS Integers, Sequences, FiniteSets, SequencesExt, FiniteSetsExt

CONSTANTS
  Documents,   \* sets of triples of sets: what may be merged with what
  Palette,     \* PALETTE_LEN: char shapes every default-family header starts with
  BaseParas,   \* BASE_PARA_SHAPES: the same for para shapes
  MaxId,       \* bound: u16::MAX
  MaxObject,   \* bound: u32::MAX, of object ids
  MaxZ,        \* bound: i32::MAX, of z-orders
  Synthetic,   \* 0x5000_0000: where the ids the writer makes of z-orders start
  Wrap         \* 0x1_0000: how many of them there are

VARIABLES
  inputs,      \* the documents, in order
  done,        \* how many of them the target holds
  target,      \* the merged document
  nextObject,  \* next_object_id
  nextZ,       \* next_z_order
  losses,      \* losses[i]: binary data dropped, page borders left unshifted
  outcome      \* what merge_documents returned

vars == <<inputs, done, target, nextObject, nextZ, losses, outcome>>

(***************************************************************************)
(* Documents                                                               *)
(***************************************************************************)

\* A header entry is known by the input it came from and its place there.
Tag == Nat \X Nat

Tags(entries, k) == \A n \in DOMAIN entries : entries[n].of = <<k, n>>

Name == [pre : {<<>>} \cup STRING \X Nat, dir : BOOLEAN, stem : STRING \X Nat, ext : BOOLEAN]

\* A table, a picture or another drawing, whether it has its common record
\* (common_data), long enough for an id or not, and a placement.  The number is
\* the record's id, or else the z-order of the placement.
Object ==
  [kind : {"table", "picture", "drawing"}, data : {"full", "short", "empty"},
   placed : BOOLEAN, number : Int]

Reference ==
  [kind : {"none"}] \cup [kind : {"id"}, id : Nat] \cup [kind : {"item"}, name : Name]

Paragraph ==
  [para : Nat, char : Nat, style : Nat, border : Nat, page : [text : BOOLEAN, id : Nat],
   pic : Reference, object : Object]

Entry      == [of : Tag]
NamedEntry == [of : Tag, name : STRING]
CharShape  == [of : Tag, font : Nat, border : Nat]
ParaShape  == [of : Tag, tab : Nat, head : {"none", "number", "bullet"}, list : Nat, border : Nat]

Document ==
  [chars : Seq(CharShape), paras : Seq(ParaShape), \* tabs: tab_stops, rawTabs: tab_defs
   styles : Seq(NamedEntry), fonts : Seq(NamedEntry), borders : Seq(Entry), tabs : Seq(Entry),
   levels : Seq(Entry), bullets : Seq(Entry),
   rawTabs : Seq(Entry), rawLevels : Seq(Entry), rawBullets : Seq(Entry),
   bins : Seq(Nat), streams : Seq([name : Name, data : Tag]), sections : Seq(Seq(Paragraph))]

\* Every raw record is at the index of the entry it stands for.
RawAligned(raw, entries) ==
  \A n \in DOMAIN raw : n \in DOMAIN entries /\ raw[n].of = entries[n].of

\* What a reader makes, as input k: its entries and the bytes of its streams are
\* its own, and a raw record is read together with its entry or not at all.
IsInput(d, k) ==
  /\ d \in Document /\ Len(d.sections) = 1
  /\ Tags(d.chars, k)   /\ Tags(d.paras, k) /\ Tags(d.styles, k) /\ Tags(d.fonts, k)
  /\ Tags(d.borders, k) /\ Tags(d.tabs, k)  /\ Tags(d.levels, k) /\ Tags(d.bullets, k)
  /\ RawAligned(d.rawTabs, d.tabs)
  /\ RawAligned(d.rawLevels, d.levels) /\ RawAligned(d.rawBullets, d.bullets)
  /\ \A n \in DOMAIN d.streams : d.streams[n].data = <<k, n>>

ASSUME DocumentsAssumption ==
  \A some \in Documents : \A k \in 1..3 : \A d \in some[k] : IsInput(d, k)

ASSUME NumbersAssumption ==
  /\ {Palette, BaseParas, MaxId, MaxObject, MaxZ, Synthetic} \subseteq Nat
  /\ Wrap \in Nat \ {0}

\* What is at a place that counts from 0: the entry, if there is one.
At(entries, id) == {entries[n] : n \in DOMAIN entries \cap {id + 1}}

\* signature_matches, by sizes and names: only a default-family header has the
\* fonts and styles of the default one and no border fill or tab beside them.
DefaultFamily(doc) ==
  /\ Len(doc.chars) >= Palette
  /\ Len(doc.paras) >= BaseParas
  /\ Len(doc.borders) = 1 /\ Len(doc.tabs) = 1
  /\ Len(doc.styles) = 1 /\ doc.styles[1].name = "default"
  /\ Len(doc.fonts) = 1  /\ doc.fonts[1].name = "default"

PaletteCompatible(a, b) == DefaultFamily(a) /\ DefaultFamily(b)

\* A stream's name: what was put before it, a directory, a stem, an extension.
\* The part after the last slash is what resolve_bin looks at.
Trailing(name) == IF name.dir THEN [name EXCEPT !.pre = <<>>, !.dir = FALSE] ELSE name
Stem(name)     == [Trailing(name) EXCEPT !.ext = FALSE]
Canonical(id)  == [pre |-> <<>>, dir |-> FALSE, stem |-> <<"BIN", id>>, ext |-> TRUE]

\* What is in the first stream with a name of this set, if there is one.
First(streams, names) ==
  {streams[n].data : n \in {SelectInSeq(streams, LAMBDA s : s.name \in names)} \ {0}}

\* The stream that a package item's name means: by its whole name, its last part
\* or that part's stem.
Answers(name, item) == name = item \/ (name.dir /\ Trailing(name) = item) \/ Stem(name) = item

\* Document::resolve_bin: by a number that counts from 1, through the bin_data
\* table, whose entry gives the whole name of a stream; or by a package item.
ResolveBin(doc, ref) ==
  CASE ref.kind = "id" /\ ref.id \in DOMAIN doc.bins ->
         First(doc.streams, {Canonical(doc.bins[ref.id])})
    [] ref.kind = "item" ->
         First(doc.streams,
               {n \in {s.name : s \in ToSet(doc.streams)} : Answers(n, ref.name)})
    [] OTHER -> {}

(***************************************************************************)
(* The two methods                                                         *)
(***************************************************************************)

\* How an input is grafted onto a target: how many entries of each collection
\* they share, and by how much each kind of reference is shifted.
FastPath(t) ==
  [charBase |-> Palette, paraBase |-> BaseParas,
   char |-> Len(t.chars) - Palette, para |-> Len(t.paras) - BaseParas,
   style |-> 0, border |-> 0, tab |-> 0, font |-> 0,
   level |-> Len(t.levels), bullet |-> Len(t.bullets), bin |-> Len(t.bins),
   prefix |-> "merge", whole |-> FALSE]

\* Mutant: the general graft treats the first entries as a shared palette too.
GeneralShared(t) ==
  [charBase |-> Palette, paraBase |-> 0,
   char |-> Len(t.chars) - Palette, para |-> Len(t.paras),
   style |-> Len(t.styles), border |-> Len(t.borders), tab |-> Len(t.rawTabs),
   font |-> Len(t.fonts), level |-> Len(t.levels), bullet |-> Len(t.bullets),
   bin |-> Len(t.bins), prefix |-> "graft", whole |-> TRUE]

General(t) ==
  [charBase |-> 0, paraBase |-> 0,
   char |-> Len(t.chars), para |-> Len(t.paras),
   style |-> Len(t.styles), border |-> Len(t.borders), tab |-> Len(t.rawTabs),
   font |-> Len(t.fonts), level |-> Len(t.levels), bullet |-> Len(t.bullets),
   bin |-> Len(t.bins), prefix |-> "graft", whole |-> TRUE]

Method(t, in) == IF PaletteCompatible(t, in) THEN FastPath(t) ELSE General(t)

\* An id past the shared base is shifted; a border fill of 0 is left.
Past(base, id, offset) == IF id < base THEN id ELSE id + offset
PastNone(id, offset)   == IF id = 0 THEN 0 ELSE id + offset

\* A para shape's numbering id counts in a collection that its head type names.
ListOffset(how, head) ==
  CASE head = "number" -> how.level [] head = "bullet" -> how.bullet [] OTHER -> 0

GraftedChar(how, c) ==
  [c EXCEPT !.font = @ + how.font, !.border = PastNone(@, how.border)]

GraftedPara(how, p) ==
  [p EXCEPT !.tab = @ + how.tab, !.list = @ + ListOffset(how, p.head),
            !.border = PastNone(@, how.border)]

(***************************************************************************)
(* Binary data                                                             *)
(***************************************************************************)

\* bin_stream_name_taken.
NameTaken(t, id) == \E i \in DOMAIN t.streams : Trailing(t.streams[i].name) = Canonical(id)

\* The storage id an entry gets: its own while neither the table nor a stream
\* has it, or else the first one past all that are used; 0 when there is none.
FreshId(t, used, id) ==
  IF id \notin used /\ ~NameTaken(t, id) THEN id
  ELSE LET free == {n \in Max(used \cup {0}) + 1 .. MaxId :
                      n \notin used /\ ~NameTaken(t, n)}
       IN IF free = {} THEN 0 ELSE Min(free)

\* graft_bin_data: the entries of the input's table that are appended, with the
\* storage ids that changed.  A linked file has no storage (0).  When the id
\* space is used up this entry and all that follow are dropped.
GraftBins(t, in) ==
  LET Graft(acc, id) ==
        LET new == IF id \in DOMAIN acc.renamed THEN acc.renamed[id]
                   ELSE FreshId(t, acc.used, id)
        IN IF acc.full THEN acc
           ELSE IF id = 0 THEN [acc EXCEPT !.bins = Append(@, 0)]
           ELSE IF new = 0 THEN [acc EXCEPT !.full = TRUE]
           ELSE [acc EXCEPT
                   !.bins    = Append(@, new),
                   !.used    = @ \cup {new},
                   !.renamed = IF new = id THEN @
                               ELSE [n \in DOMAIN @ \cup {id} |->
                                       IF n = id THEN new ELSE @[n]]]
  IN FoldLeft(Graft,
              [bins |-> <<>>, used |-> ToSet(t.bins) \ {0}, renamed |-> <<>>, full |-> FALSE],
              in.bins)

\* The first name of this form that no stream has.
Minted(streams, prefix, name) ==
  LET Candidate(n) == [name EXCEPT !.pre = <<prefix, n>>]
      Used(n) == \E i \in DOMAIN streams : streams[i].name = Candidate(n)
  IN Candidate(Min({n \in Len(streams) + 1 .. 2 * Len(streams) + 1 : ~Used(n)}))

\* graft_bin_streams and reminted_canonical_name: the payload of a table entry
\* takes the name of the entry's new storage id, any other stream keeps its
\* name unless a stream has it.
NewName(streams, prefix, in, renamed, name) ==
  LET ids == {id \in ToSet(in.bins) \ {0} : Trailing(name) = Canonical(id)}
      id  == CHOOSE id \in ids : TRUE
  IN IF ids # {} THEN Canonical(IF id \in DOMAIN renamed THEN renamed[id] ELSE id)
     ELSE IF \E i \in DOMAIN streams : streams[i].name = name
       THEN Minted(streams, prefix, name)
     ELSE name

\* The streams after the graft, and what each old name has become.
GraftStreams(t, how, in, renamed) ==
  LET Graft(acc, s) ==
        LET new == NewName(acc.streams, how.prefix, in, renamed, s.name)
        IN [streams |-> Append(acc.streams, [s EXCEPT !.name = new]),
            names   |-> {p \in acc.names : p[1] # s.name} \cup {<<s.name, new>>}]
  IN FoldLeft(Graft, [streams |-> t.streams, names |-> {}], in.streams)

(***************************************************************************)
(* Paragraphs                                                              *)
(***************************************************************************)

\* A picture's reference: by name through the renamed streams, whose whole
\* names are the keys; by number by the length of the table.
GraftedPic(how, names, ref) ==
  CASE ref.kind = "id" -> [ref EXCEPT !.id = @ + how.bin]
    [] ref.kind = "item" /\ \E p \in names : p[1] = ref.name ->
         [ref EXCEPT !.name = (CHOOSE p \in names : p[1] = ref.name)[2]]
    [] OTHER -> ref

\* The page's border fill is the section definition's: only the general method
\* looks at it, and one that is not a number ("text") is left.
GraftedPage(how, page) ==
  IF how.whole /\ ~page.text THEN [page EXCEPT !.id = PastNone(@, how.border)] ELSE page

\* remap_paragraph and remap_paragraph_general.
GraftedParagraph(how, names, p) ==
  [p EXCEPT !.para   = Past(how.paraBase, @, how.para),
            !.char   = Past(how.charBase, @, how.char),
            !.style  = @ + how.style,
            !.border = PastNone(@, how.border),
            !.page   = GraftedPage(how, @),
            !.pic    = GraftedPic(how, names, @)]

ObjectsOf(doc) == {p.object : p \in UNION {ToSet(s) : s \in ToSet(doc.sections)}}

\* The id a table without one is given: of its z-order only the last 16 bits.
FromZ(o) == IF o.placed THEN Synthetic + (o.number % Wrap) ELSE 0

\* What the writer will give an object as its id: the one of its record, for a
\* table without one that of its z-order, and for a picture without one 0 (or,
\* if it can show the picture, the next of a count of its own: left out).  A
\* short record is written as it is, without one.
Identity(o) ==
  CASE o.data = "full" -> {o.number}
    [] o.data = "empty" /\ o.kind = "table" -> {FromZ(o)}
    [] o.data = "empty" /\ o.kind = "picture" -> {0}
    [] OTHER -> {}

\* doc_max_object_id and doc_max_table_z_order look at these.
CountedId(o) ==
  CASE o.data = "full" -> {o.number}
    [] o.data # "full" /\ o.kind = "table" -> {FromZ(o)}
    [] OTHER -> {}

ObjectIds(doc) == UNION {CountedId(o) : o \in ObjectsOf(doc)}

\* renumber_gso_objects: tables and pictures with a full record take the next
\* id, placed tables with none the next z-order; a short record has no id, and a
\* drawing keeps its own.
Numbering(o) ==
  CASE o.kind \in {"table", "picture"} /\ o.data = "full" -> "id"
    [] o.kind = "table" /\ o.data = "empty" /\ o.placed -> "z"
    [] OTHER -> "none"

ZOrders(doc) == {o.number : o \in {x \in ObjectsOf(doc) : Numbering(x) = "z"}}

\* The paragraphs up to place n whose objects are numbered this way.
NumberedSo(section, way, n) == {i \in 1..n : Numbering(section[i].object) = way}

\* Mutant: the z-orders handed out are handed out again to the next input.
RenumberedAgain(section, object, z) ==
  LET Count(way, n) == Cardinality(NumberedSo(section, way, n))
      Number(i) == CASE Numbering(section[i].object) = "id" -> object + Count("id", i - 1)
                     [] Numbering(section[i].object) = "z"  -> z + Count("z", i - 1)
                     [] OTHER -> section[i].object.number
  IN [section |-> [i \in DOMAIN section |-> [section[i] EXCEPT !.object.number = Number(i)]],
      object  |-> object + Count("id", Len(section)),
      z       |-> z]

\* The section with its objects numbered on from object and z, and the numbers
\* that come after.
Renumbered(section, object, z) ==
  LET Count(way, n) == Cardinality(NumberedSo(section, way, n))
      Number(i) == CASE Numbering(section[i].object) = "id" -> object + Count("id", i - 1)
                     [] Numbering(section[i].object) = "z"  -> z + Count("z", i - 1)
                     [] OTHER -> section[i].object.number
  IN [section |-> [i \in DOMAIN section |-> [section[i] EXCEPT !.object.number = Number(i)]],
      object  |-> object + Count("id", Len(section)),
      z       |-> z + Count("z", Len(section))]

(***************************************************************************)
(* The loop                                                                *)
(***************************************************************************)

\* Mutant: the input's raw records always follow.
AlignedRawAlways(raw, entries, inRaw, inEntries) == raw \o inRaw

\* A raw NUMBERING or BULLET record stands for the entry at its index, so the
\* input's are appended only while both sides have one for each entry.
AlignedRaw(raw, entries, inRaw, inEntries) ==
  IF Len(raw) = Len(entries) /\ Len(inRaw) = Len(inEntries) THEN raw \o inRaw ELSE raw

\* graft_palette_compatible and graft_header_general: the target with the
\* input's header entries, streams and section appended.
Merged(t, in, how, bins, streams, section) ==
  LET Rest(entries, base) == SubSeq(entries, base + 1, Len(entries))
      Whole(old, new) == IF how.whole THEN old \o new ELSE old
      Raw(raw, entries, inRaw, inEntries) ==
        IF how.whole THEN AlignedRaw(raw, entries, inRaw, inEntries) ELSE raw
  IN [chars  |-> t.chars \o [i \in 1..Len(Rest(in.chars, how.charBase)) |->
                               GraftedChar(how, Rest(in.chars, how.charBase)[i])],
      paras  |-> t.paras \o [i \in 1..Len(Rest(in.paras, how.paraBase)) |->
                               GraftedPara(how, Rest(in.paras, how.paraBase)[i])],
      styles |-> Whole(t.styles, in.styles), borders |-> Whole(t.borders, in.borders),
      tabs   |-> Whole(t.tabs, in.tabs),     fonts   |-> Whole(t.fonts, in.fonts),
      rawTabs |-> Whole(t.rawTabs, in.rawTabs),
      levels |-> t.levels \o in.levels,      bullets |-> t.bullets \o in.bullets,
      rawLevels  |-> Raw(t.rawLevels, t.levels, in.rawLevels, in.levels),
      rawBullets |-> Raw(t.rawBullets, t.bullets, in.rawBullets, in.bullets),
      bins |-> t.bins \o bins, streams |-> streams, sections |-> Append(t.sections, section)]

\* u16_len and shift_id: a collection that is too long for its ids, or an id
\* that would be, refuses the merge.  So does a number after the last one given
\* out (num: what Renumbered returns) that there is not.
Overflows(t, in, how, section, num) ==
  LET lengths == {Len(t.chars), Len(t.paras), Len(t.levels), Len(t.bullets), Len(t.bins)}
                 \cup IF how.whole THEN {Len(t.styles), Len(t.borders), Len(t.rawTabs), Len(t.fonts)}
                                   ELSE {}
      Big(id) == id > MaxId
      chars == {GraftedChar(how, in.chars[i]) : i \in DOMAIN in.chars \ 1..how.charBase}
      paras == {GraftedPara(how, in.paras[i]) : i \in DOMAIN in.paras \ 1..how.paraBase}
  IN \/ \E n \in lengths : Big(n)
     \/ \E c \in chars : Big(c.font) \/ Big(c.border)
     \/ \E p \in paras : Big(p.tab) \/ Big(p.list) \/ Big(p.border)
     \/ \E p \in ToSet(section) :
          Big(p.para) \/ Big(p.char) \/ Big(p.style) \/ Big(p.border) \/ Big(p.page.id)
          \/ (p.pic.kind = "id" /\ Big(p.pic.id))
     \/ num.object > MaxObject \/ num.z > MaxZ

Init ==
  /\ \E some \in Documents : \E a \in some[1], b \in some[2], c \in some[3] :
       inputs = <<a, b, c>>
  /\ done = 1
  /\ target = inputs[1]
  /\ nextObject = Max(ObjectIds(inputs[1]) \cup {0}) + 1
  /\ nextZ = Max(ZOrders(inputs[1]) \cup {0}) + 1
  /\ losses = [i \in DOMAIN inputs |-> [bins |-> 0, pages |-> 0]]
  /\ outcome = IF nextObject > MaxObject \/ nextZ > MaxZ THEN "refused" ELSE "none"

\* One input is appended, or the whole merge is refused.
MergeInput ==
  /\ outcome = "none"
  /\ done < Len(inputs)
  /\ LET in   == inputs[done + 1]
         how  == Method(target, in)
         bins == GraftBins(target, in)
         strs == GraftStreams(target, how, in, bins.renamed)
         sec  == [i \in DOMAIN in.sections[1] |->
                    GraftedParagraph(how, strs.names, in.sections[1][i])]
         num  == Renumbered(sec, nextObject, nextZ)
     IN IF Overflows(target, in, how, sec, num)
          THEN /\ outcome' = "refused"
               /\ UNCHANGED <<done, target, nextObject, nextZ, losses>>
          ELSE /\ done' = done + 1
               /\ target' = Merged(target, in, how, bins.bins, strs.streams, num.section)
               /\ nextObject' = num.object
               /\ nextZ' = num.z
               /\ losses' = [losses EXCEPT ![done + 1] =
                     [bins  |-> Len(in.bins) - Len(bins.bins),
                      pages |-> Cardinality({j \in DOMAIN sec : how.whole /\ sec[j].page.text})]]
               /\ UNCHANGED outcome
  /\ UNCHANGED inputs

Finish ==
  /\ outcome = "none"
  /\ done = Len(inputs)
  /\ outcome' = "merged"
  /\ UNCHANGED <<inputs, done, target, nextObject, nextZ, losses>>

Done == outcome # "none" /\ UNCHANGED vars

Next == MergeInput \/ Finish \/ Done

Spec == Init /\ [][Next]_vars

(***************************************************************************)
(* Properties                                                              *)
(***************************************************************************)

\* The headers of the default family begin with the same palette: an entry
\* within it means the same whichever of them has it.
Shared(of, base) == DefaultFamily(inputs[of[1]]) /\ of[2] <= base

Origin(of, base) == IF Shared(of, base) THEN <<0, of[2]>> ELSE of
Origins(entries, base) == {Origin(e.of, base) : e \in entries}

Border(doc, id) == IF id = 0 THEN {} ELSE Origins(At(doc.borders, id - 1), 1)

\* The list a para shape counts in; those of the palette's are the header's own.
ListOf(doc, e) ==
  CASE Shared(e.of, BaseParas) -> {}
    [] ~Shared(e.of, BaseParas) /\ e.head = "number" -> Origins(At(doc.levels, e.list), 0)
    [] ~Shared(e.of, BaseParas) /\ e.head = "bullet" -> Origins(At(doc.bullets, e.list), 0)
    [] OTHER -> {}

ParaMeaning(doc, e) ==
  <<Origin(e.of, BaseParas), ListOf(doc, e), Border(doc, e.border)>>

CharMeaning(doc, e) ==
  <<Origin(e.of, Palette), Origins(At(doc.fonts, e.font), 1), Border(doc, e.border)>>

\* What a paragraph refers to, in a document.
Meaning(doc, p) ==
  [para   |-> {ParaMeaning(doc, e) : e \in At(doc.paras, p.para)},
   char   |-> {CharMeaning(doc, e) : e \in At(doc.chars, p.char)},
   style  |-> Origins(At(doc.styles, p.style), 1),
   border |-> Border(doc, p.border),
   page   |-> IF p.page.text THEN {} ELSE Border(doc, p.page.id)]

\* What it refers to in a list of tabs: the stops or the raw records.
TabOf(doc, list, p) == UNION {Origins(At(list, e.tab), 1) : e \in At(doc.paras, p.para)}

\* Every reference of a document is to an entry it has, or to no border, and
\* there is a font.
CharResolves(d, c) == c.font < Len(d.fonts) /\ c.border <= Len(d.borders)

ParaResolves(d, p) ==
  /\ p.border <= Len(d.borders)
  /\ p.head = "number" => p.list < Len(d.levels)
  /\ p.head = "bullet" => p.list < Len(d.bullets)

HeaderResolves(d) ==
  /\ \A n \in DOMAIN d.chars : CharResolves(d, d.chars[n])
  /\ \A n \in DOMAIN d.paras : ParaResolves(d, d.paras[n])

ParagraphResolves(d, p) ==
  /\ p.para < Len(d.paras) /\ p.char < Len(d.chars) /\ p.style < Len(d.styles)
  /\ p.border <= Len(d.borders) /\ p.page.id <= Len(d.borders)

Resolves(d) ==
  /\ d.fonts # <<>> /\ HeaderResolves(d) /\ \A n \in DOMAIN d.paras : d.paras[n].tab < Len(d.tabs)
  /\ \A j \in DOMAIN d.sections[1] : ParagraphResolves(d, d.sections[1][j])

\* The palettes of default-family headers have their borders in the same slots.
SamePalette(a, b) ==
  /\ \A n \in 1..Palette : a.chars[n].border = b.chars[n].border
  /\ \A n \in 1..BaseParas : a.paras[n].border = b.paras[n].border

WellMade ==
  /\ \A i \in DOMAIN inputs : Resolves(inputs[i])
  /\ \A i, k \in DOMAIN inputs :
       PaletteCompatible(inputs[i], inputs[k]) => SamePalette(inputs[i], inputs[k])

\* The names of a document's streams are distinct and not another's last part or
\* stem.  With a table, what is called BIN and a number is the payload of an
\* entry, its own; without, it is in a directory.
StreamsMade(d) ==
  LET stored == ToSet(d.bins) \ {0}
      Named(n) == d.streams[n].name
  IN /\ \A m, n \in DOMAIN d.bins : d.bins[m] = d.bins[n] => m = n \/ d.bins[m] = 0
     /\ \A m, n \in DOMAIN d.streams : Answers(Named(m), Named(n)) => m = n
     /\ \A n \in DOMAIN d.streams :
          /\ ~Named(n).dir => Named(n).pre = <<>>
          /\ Named(n).stem[1] = "BIN" =>
               IF stored = {} THEN Named(n).dir
               ELSE \E id \in stored : Named(n) = Canonical(id)

NamesWhole(d, ref) == ref.name \in {s.name : s \in ToSet(d.streams)}

\* A picture's reference finds a stream, or is to a linked file; in a document
\* with a table it is by number or by a whole name.
PictureMade(d, ref) ==
  \/ ref.kind = "none"
  \/ ref.kind = "id" /\ ref.id \in DOMAIN d.bins
     /\ (ResolveBin(d, ref) # {} \/ d.bins[ref.id] = 0)
  \/ ref.kind = "item" /\ ResolveBin(d, ref) # {}
     /\ (NamesWhole(d, ref) \/ ToSet(d.bins) \subseteq {0})

PicturesMade ==
  \A i \in DOMAIN inputs :
    /\ StreamsMade(inputs[i])
    /\ \A j \in DOMAIN inputs[i].sections[1] : PictureMade(inputs[i], inputs[i].sections[1][j].pic)

\* A picture of input i that names a package item, where a stream of an earlier
\* input has this name; as its last part or stem, if it is a stream's whole name.
Ambiguous(i, was, is) ==
  /\ is.kind = "item"
  /\ \E s \in ToSet(target.streams) :
       /\ s.data[1] < i /\ Answers(s.name, is.name)
       /\ NamesWhole(inputs[i], was) => s.name # is.name

\* A reader of HWP5 makes a raw record for every tab, one of HWPX none, and a
\* reference is shifted by how many records there were.  So it finds its stops
\* only if every input before had a record for each, or nothing was shifted;
\* and its record if it has one, and the shared header has, if it is shared.
HasRecords(d) == Len(d.rawTabs) = Len(d.tabs)

StopsFollow(i) ==
  (\A k \in 1..(i - 1) : HasRecords(inputs[k])) \/ \A k \in 1..i : DefaultFamily(inputs[k])

RecordsFollow(i) ==
  HasRecords(inputs[i]) /\ (PaletteCompatible(inputs[1], inputs[i]) => HasRecords(inputs[1]))

\* The shapes, lists, styles and borders a paragraph referred to, and the tabs.
ReferencesKept ==
  \A i \in 1..done : \A j \in DOMAIN inputs[i].sections[1] :
    LET was == inputs[i].sections[1][j]
        is  == target.sections[i][j]
        SameTab(there, here) == TabOf(target, there, is) = TabOf(inputs[i], here, was)
    IN /\ Meaning(target, is) = Meaning(inputs[i], was)
       /\ StopsFollow(i)   => SameTab(target.tabs, inputs[i].tabs)
       /\ RecordsFollow(i) => SameTab(target.rawTabs, inputs[i].rawTabs)

\* The picture it showed.
PicturesKept ==
  \A i \in 1..done : \A j \in DOMAIN inputs[i].sections[1] :
    LET was == inputs[i].sections[1][j].pic
        is  == target.sections[i][j].pic
    IN \/ ResolveBin(target, is) = ResolveBin(inputs[i], was)
       \/ losses[i].bins > 0
       \/ Ambiguous(i, was, is)

\* Whatever was merged before and after it, every paragraph refers to the
\* shapes, lists, styles, borders and picture it referred to in its own
\* document, by either method; to its tabs, where the raw records that shift the
\* reference are as many as the tabs (after an HWPX input they are not); only a
\* picture may be lost or exchanged, and then the losses say that binary data
\* was dropped, or it names a package item whose name a stream of an earlier
\* input has (graft_header_general,
\* graft_palette_compatible, graft_bin_data, graft_bin_streams,
\* remap_paragraph).
MergeKeepsMeaning == ReferencesKept /\ PicturesKept

\* A raw NUMBERING or BULLET record is at the index of the entry it stands for,
\* after merging inputs that have one for each entry with inputs that have none
\* (the comment on #377 in graft_header_general).
RawRecordsStandForTheirEntries ==
  RawAligned(target.rawLevels, target.levels) /\ RawAligned(target.rawBullets, target.bullets)

\* No object that is numbered in one input has the identity of one that is
\* numbered in the same way in another, unless their z-orders are so far apart
\* that the writer's 16 bits of them may be the same (renumber_gso_objects).
\* Nothing is said of what is not numbered: a table without placement and a
\* picture without record, whose id is 0, a short record and a drawing; nor of
\* one numbered by id and one by z-order, since the counters do not know each
\* other.
Far(x, y) == Numbering(x) = "z" /\ (x.number - y.number >= Wrap \/ y.number - x.number >= Wrap)

ObjectsOfInputsDiffer ==
  \A i, k \in 1..done : \A a \in ToSet(target.sections[i]), b \in ToSet(target.sections[k]) :
    LET x == a.object
        y == b.object
    IN i # k /\ Numbering(x) = Numbering(y) /\ Numbering(x) # "none" /\ ~Far(x, y)
       => Identity(x) \cap Identity(y) = {}

\* The comment of graft_bin_streams: the returned map rewires item references,
\* so a picture of an input still shows that input's bytes.
PicturesKeepTheirBytes ==
  \A i \in 1..done : \A j \in DOMAIN inputs[i].sections[1] :
    losses[i].bins = 0 =>
      ResolveBin(target, target.sections[i][j].pic)
        = ResolveBin(inputs[i], inputs[i].sections[1][j].pic)
==============================================================================
