---------------------------- MODULE DocumentSplit ----------------------------
(***************************************************************************)
(* `hwp split`: crates/hwp-convert/src/document_split.rs cuts a document   *)
(* at its sections or at saved page starts, and                            *)
(* crates/hwp-cli/src/commands/split.rs writes the fragments to numbered   *)
(* files of a directory and removes those that an earlier run left there.  *)
(*                                                                         *)
(* A document is a sequence of sections, a section a sequence of           *)
(* paragraphs, a paragraph the offsets in it at which a page starts (its   *)
(* line segments with bit 0 set), 0 being its first character.  Places are *)
(* counted from 1.  A file is the number in its name: stem-NNN.ext for the *)
(* ones a run writes, and any other number that somebody chose.            *)
(*                                                                         *)
(* The publish is one step here: OutputSet has its calls.  The header that *)
(* every fragment keeps whole, the loss report and the rounding notes are  *)
(* left out.                                                               *)
(***************************************************************************)
EXTENDS Naturals, Sequences, FiniteSets, SequencesExt, FiniteSetsExt

CONSTANTS
  Jobs,        \* what the runs may be given: [docs, pages, dirs], see SplitInit
  Numbers,     \* the numbers of the files there may be
  MaxFaults    \* bound: calls that fail by themselves and process deaths

VARIABLES
  job,         \* the jobs of the runs to come
  doc,         \* the document that is split
  ranges,      \* --pages; empty: by sections
  fragments,   \* SplitOutcome.fragments
  dir,         \* the numbered entries of --out-dir
  run,         \* the number of the run
  at,          \* what the run does next, or how it ended
  stale,       \* the entries remove_stale_fragments still has to look at
  warned,      \* it has said that it could not remove all it should
  missed,      \* the entries it could not read, or learn the kind of
  faults

noticed == <<warned, missed>>
splitVars == <<job, doc, ranges, fragments, dir, run, at, stale, noticed, faults>>
input == <<job, doc, ranges>>

Absent == [kind |-> "absent"]
Folder == [kind |-> "folder"]   \* refused as a destination, passed over as stale
Users  == [kind |-> "user"]
Fragment(r, i) == [kind |-> "fragment", run |-> r, of |-> i]

\* A document is not empty inside, and its pages start one after the other.
IsDocument(d) ==
  /\ d \in Seq(Seq(Seq(Nat)))
  /\ \A s \in DOMAIN d : d[s] # <<>>
  /\ \A s \in DOMAIN d : \A p \in DOMAIN d[s] :
       \A k, l \in DOMAIN d[s][p] : k < l => d[s][p][k] < d[s][p][l]

Ranges == Seq([first : Nat, last : Nat])

ASSUME JobsAssumption ==
  \A j \in Jobs :
    /\ j.dirs \subseteq [Numbers -> {Absent, Folder, Users}]
    /\ j.runs \in Seq(ToSet(j.runs))
    /\ \A r \in ToSet(j.runs) : r.pages \subseteq Ranges /\ \A d \in r.docs : IsDocument(d)

ASSUME FilesAssumption == Numbers \subseteq Nat

(***************************************************************************)
(* Cutting                                                                 *)
(***************************************************************************)

Address(s, p, o) == [section |-> s, paragraph |-> p, offset |-> o]

\* page_start_addresses, in document order.
PageStarts(d) ==
  FlattenSeq([s \in DOMAIN d |->
    FlattenSeq([p \in DOMAIN d[s] |->
      [k \in DOMAIN d[s][p] |-> Address(s, p, d[s][p][k])]])])

\* A boundary inside a paragraph moves to the next one, in the next section
\* if need be, or past the last one.
RoundBoundary(d, a) ==
  CASE a.offset = 0 -> a
    [] a.offset # 0 /\ a.paragraph < Len(d[a.section]) ->
         Address(a.section, a.paragraph + 1, 0)
    [] a.offset # 0 /\ a.paragraph = Len(d[a.section]) /\ a.section < Len(d) ->
         Address(a.section + 1, 1, 0)
    [] OTHER -> Address(a.section, Len(d[a.section]) + 1, 0)

\* Where a range begins and ends; the last page runs to the end of the document.
StartOf(d, r) == RoundBoundary(d, PageStarts(d)[r.first])
EndOf(d, r) ==
  IF r.last < Len(PageStarts(d)) THEN RoundBoundary(d, PageStarts(d)[r.last + 1])
  ELSE Address(Len(d), Len(d[Len(d)]) + 1, 0)

\* What a range takes of section s: paragraphs from..to - 1, after a copy of
\* the section's first one when it begins later.
PieceOf(d, r, s) ==
  LET to   == IF s = EndOf(d, r).section THEN EndOf(d, r).paragraph ELSE Len(d[s]) + 1
      from == Min({IF s = StartOf(d, r).section THEN StartOf(d, r).paragraph ELSE 1, to})
  IN [section |-> s, headed |-> from # 1, body |-> [k \in 1..(to - from) |-> from + k - 1]]

\* Mutant: only the section the range begins in is cut.
PageFragmentOfOneSection(d, r) == <<PieceOf(d, r, StartOf(d, r).section)>>

\* split_page_ranges, for one range: the section it begins in whatever is left
\* of it, and of the later ones those with something in the range.
PageFragment(d, r) ==
  LET first == StartOf(d, r).section
      Rest(s) == IF PieceOf(d, r, s).body = <<>> THEN <<>> ELSE <<PieceOf(d, r, s)>>
  IN <<PieceOf(d, r, first)>>
     \o FlattenSeq([k \in 1..(EndOf(d, r).section - first) |-> Rest(first + k)])

\* split_sections.
SectionFragment(d, s) ==
  <<[section |-> s, headed |-> FALSE, body |-> [p \in DOMAIN d[s] |-> p]]>>

\* parse_page_range and the checks of split_sections and split_page_ranges.
Refused(d, rs) ==
  \/ d = <<>>
  \/ /\ rs # <<>>
     /\ \/ PageStarts(d) = <<>>
        \/ \E i \in DOMAIN rs : \/ rs[i].first = 0
                                \/ rs[i].first > rs[i].last
                                \/ rs[i].last > Len(PageStarts(d))

Cut(d, rs) ==
  IF rs = <<>> THEN [s \in DOMAIN d |-> SectionFragment(d, s)]
               ELSE [i \in DOMAIN rs |-> PageFragment(d, rs[i])]

(***************************************************************************)
(* Runs                                                                    *)
(***************************************************************************)

Fault == faults < MaxFaults /\ faults' = faults + 1

Ends == {"ok", "failed", "died"}

\* Several runs in one directory, which others may have put files in.
SplitInit ==
  /\ \E j \in Jobs : job = j.runs /\ dir \in j.dirs
  /\ doc = <<>> /\ ranges = <<>> /\ fragments = <<>>
  /\ run = 0 /\ at = "ok" /\ stale = {} /\ warned = FALSE /\ missed = {}
  /\ faults = 0

\* load_document_with_options, on a file of any content.
Load ==
  /\ at \in Ends /\ job # <<>>
  /\ job' = Tail(job)
  /\ doc' \in Head(job).docs
  /\ ranges' \in Head(job).pages
  /\ run' = run + 1
  /\ at' = "split" /\ fragments' = <<>> /\ warned' = FALSE /\ missed' = {}
  /\ UNCHANGED <<dir, stale, faults>>

\* The cut, the names of the fragments and the precheck of each of them.
Split ==
  /\ at = "split"
  /\ IF \/ Refused(doc, ranges)
        \/ \E n \in DOMAIN Cut(doc, ranges) : n \in Numbers /\ dir[n] = Folder
       THEN at' = "failed" /\ UNCHANGED fragments
       ELSE at' = "build" /\ fragments' = Cut(doc, ranges)
  /\ UNCHANGED <<input, dir, run, stale, noticed, faults>>

\* Every fragment is written to a temporary file and read back, and --strict
\* looks at what that lost.
Build ==
  /\ at = "build"
  /\ \/ at' = "publish" /\ UNCHANGED faults
     \/ at' = "failed" /\ Fault
  /\ UNCHANGED <<input, fragments, dir, run, stale, noticed>>

\* The whole set is put in place, over whatever file was there; or none of it;
\* or a recovery that failed too leaves the first files new and one missing.
Publish ==
  LET Published(k) == [n \in Numbers |-> IF n \in 1..k THEN Fragment(run, n) ELSE dir[n]]
  IN /\ at = "publish"
     /\ \/ at' = "list" /\ dir' = Published(Len(fragments)) /\ UNCHANGED faults
        \/ at' = "failed" /\ Fault /\ UNCHANGED dir
        \/ /\ at' = "failed" /\ Fault
           /\ \E k \in 0..(Len(fragments) - 1) :
                dir' = [Published(k) EXCEPT ![k + 1] = Absent]
     /\ UNCHANGED <<input, fragments, run, stale, noticed>>

\* Mutant: a fragment that an earlier run left right behind the new ones stays.
IsStaleButOne(n) == dir[n].kind \in {"fragment", "user"} /\ n > Len(fragments) + 1

\* A file whose name is the stem and a number, and not one just published:
\* nothing in it says that an earlier run wrote it.
IsStale(n) == dir[n].kind \in {"fragment", "user"} /\ n \notin DOMAIN fragments

\* read_dir of remove_stale_fragments.  An entry that cannot be read is left out
\* without a word, and with it those behind it (entries.flatten()).
ListDirectory ==
  /\ at = "list"
  /\ \/ \E lost \in SUBSET {n \in Numbers : IsStale(n)} :
          /\ at' = "clean" /\ stale' = {n \in Numbers : IsStale(n)} \ lost
          /\ missed' = lost
          /\ IF lost = {} THEN UNCHANGED faults ELSE Fault
          /\ UNCHANGED warned
     \/ at' = "ok" /\ Fault /\ warned' = TRUE /\ UNCHANGED <<stale, missed>>
  /\ UNCHANGED <<input, fragments, dir, run>>

\* is_file, which is false without a word when the entry cannot be looked at,
\* and remove_file, whose failure is only a warning; in whatever order the
\* directory lists the entries.
RemoveStale ==
  /\ at = "clean"
  /\ \E n \in stale :
       /\ stale' = stale \ {n}
       /\ \/ dir' = [dir EXCEPT ![n] = Absent] /\ UNCHANGED <<noticed, faults>>
          \/ Fault /\ warned' = TRUE /\ UNCHANGED <<dir, missed>>
          \/ Fault /\ missed' = missed \cup {n} /\ UNCHANGED <<dir, warned>>
  /\ UNCHANGED <<input, fragments, run, at>>

Report ==
  /\ at = "clean" /\ stale = {}
  /\ at' = "ok"
  /\ UNCHANGED <<input, fragments, dir, run, stale, noticed, faults>>

\* The process dies; inside the publish that leaves what a failed recovery does.
Die ==
  /\ at \notin Ends /\ Fault
  /\ at' = "died" /\ stale' = {}
  /\ UNCHANGED <<input, fragments, dir, run, noticed>>

SplitDone == at \in Ends /\ job = <<>> /\ UNCHANGED splitVars

SplitNext ==
  \/ Load \/ Split \/ Build \/ Publish
  \/ ListDirectory \/ RemoveStale \/ Report \/ Die \/ SplitDone

SplitSpec == SplitInit /\ [][SplitNext]_splitVars

(***************************************************************************)
(* Properties                                                              *)
(***************************************************************************)

\* The order of places in a document.
Precedes(a, b) ==
  \/ a.section < b.section
  \/ a.section = b.section /\ a.paragraph < b.paragraph
  \/ a.section = b.section /\ a.paragraph = b.paragraph /\ a.offset <= b.offset

\* The page a paragraph begins on, and the paragraphs that begin on the pages
\* of a range.
PageOf(d, s, p) ==
  Cardinality({k \in DOMAIN PageStarts(d) : Precedes(PageStarts(d)[k], Address(s, p, 0))})

Beginning(d, r) ==
  {q \in UNION {{s} \X DOMAIN d[s] : s \in DOMAIN d} :
     PageOf(d, q[1], q[2]) \in r.first..r.last}

\* The paragraphs of a fragment, one after the other.
Body(fragment) ==
  FlattenSeq([i \in DOMAIN fragment |->
    [k \in DOMAIN fragment[i].body |-> <<fragment[i].section, fragment[i].body[k]>>]])

InOrder(body) ==
  \A k, l \in DOMAIN body : k < l =>
    ~Precedes(Address(body[l][1], body[l][2], 0), Address(body[k][1], body[k][2], 0))

\* A fragment holds every paragraph that begins on one of its pages, whole,
\* once and in order, over all the sections it spans, and no other; so ranges
\* that follow each other drop and repeat nothing, the copies of a section's head
\* apart that are put before the rest of it (Body leaves them out).  Each of its sections begins
\* with the paragraph that carries the section's definition, unless no
\* paragraph begins on the range at all (split_page_ranges, D-08).
FragmentsHoldTheirPages ==
  ranges # <<>> =>
    \A i \in DOMAIN fragments :
      /\ ToSet(Body(fragments[i])) = Beginning(doc, ranges[i]) /\ InOrder(Body(fragments[i]))
      /\ Beginning(doc, ranges[i]) # {} =>
           \A k \in DOMAIN fragments[i] :
             LET piece == fragments[i][k]
             IN piece.headed \/ (piece.body # <<>> /\ piece.body[1] = 1)

\* A run that succeeds without a warning leaves exactly its own fragments under
\* the numbers of the stem, whatever earlier runs left there, broken off
\* ones included; but an entry it could not read or look at stays, and of those
\* it says nothing (execute, remove_stale_fragments, #177).
SuccessIsComplete ==
  run > 0 /\ at = "ok" /\ ~warned =>
    \A n \in Numbers :
      IF n \in DOMAIN fragments THEN dir[n] = Fragment(run, n)
                                ELSE dir[n] \in {Absent, Folder} \/ n \in missed
==============================================================================
