# A verification project for hwp-cli

hwp-cli is a family of Rust crates around one command, `hwp`, that reads,
edits, converts, renders, certifies and serves Hangul documents (HWP 5, HWPX),
and a Cloudflare Worker that offers the same tools to remote clients.  This
directory holds TLA+ models of the parts of it whose correctness depends on an
order of steps, on several actors or on what is left after a failure, TLC
configurations that check them on small instances, and TLAPS proofs of what
holds for every instance.

Contents

1. The system: components and interactions
2. The modules, and how they correspond to the code
3. What each run checks
4. Bounds
5. Fairness
6. Proofs
7. Where the program and its texts disagree
8. What is not modelled
9. The plan

To repeat a run: `tlc -workers 2 -config MCOutputSet.cfg MCOutputSet.tla`.
To repeat a proof: `tlapm OutputSetProofs.tla`.  `PROJECT.json` lists the runs,
the source lines of every definition, for each property a mutant of the model
that it must reject, the hazards and the theorems.

Paths below are relative to the repository; `cli/` stands for
`crates/hwp-cli/src/` and `convert/` for `crates/hwp-convert/src/`.

## 1. The system

### 1.1 How a command works

Almost every command has the same shape: read a document into memory, change
it, hand a writer to the output layer, which stages the result beside the
destination, verifies it by reading it back, looks at the destination once
more, and replaces it.  Nothing is shared inside one command; what runs
concurrently is other processes (another `hwp`, an editor, a sync client) on
the same files.  Four parts are concurrent by themselves: `hwp serve`, with a
thread per connection; `hwp update`, which several terminals may run against
one installed binary; `hwp certify`, whose oracle runs in a container behind a
daemon with a mind of its own; and the Worker with its session objects.

      hwp edit/merge/compose/render/split/convert ...
          | one document       | body and media      | several files
          v                    v                     v
      write_validated     write_validated_      write_validated_files
      (StagedOutput)      with_sidecar          (OutputSet)
          |               (OutputPair)               |
          |                    \_____ Publication ___/   what both promise
          \________ file system shared with other programs ________/

      merge_documents (DocumentMerge) and split (DocumentSplit) make the
      documents that go through that layer

      hwp certify: snapshots, checks, render --> verdict --> report directory
      (Certification)       |
                            v
      run_oracle (CertifyOracle) -> client processes -> daemon -> container

      hwp serve:   accept thread -> connection threads -> dispatch lock
      (HttpServe)       ^                                  |  tool calls,
      signals -> main thread (polls, then takes the lock)  |  file transfers
                                                           v
                                                     --files workspace

      Worker: handleMcp / file routes --calls--> HwpSession (one per session)
      (EdgeSession)                               | promise chain, deadline
                                                  v
                                            container running hwp serve

### 1.2 Components

| Component | State it keeps | Operations | What is hard | What makes it correct |
| --- | --- | --- | --- | --- |
| Output set publisher (`cli/commands/output.rs`) | per output: snapshot, private workspace, staged file, backup, preserve flag; lists of what was backed up and published | stage, write, recheck, inherit mode, back up, publish, remove, restore, clean up, drop | another program between any two calls, a failing call anywhere, a process death | no old file is lost, what is reported is so, nothing stale is overwritten, no workspace is left unaccounted for |
| Output pair (same file) | the same for a body and a media directory, and whether the media changed | overlap refusal, stage both, copy the tree, compare, publish the body alone or both, undo | a rename cannot replace a tree, removing one may stop half way, the shortcut for unchanged media | a body never stands beside media it does not refer to; or the old ones are back, or a backup is reported |
| Staged output (same file) | snapshot, workspace, copied input, staged file, backup | alias refusal, input snapshot, writer, verify, recheck, one of three publications, restore, drop | two processes editing one file; ReplaceFileW failing half way; torn reads | no lost update, old or new file always there, an edit replaces what it was computed from |
| Self update (`cli/commands/update.rs`) | installed file, per process download, staged file and backup | pick tag, download, verify, copy, two renames, undo, run | two updates at once, any call failing, death between the renames | a whole binary always exists, nothing damaged is installed, success means installed |
| HTTP server (`cli/commands/mcp/http.rs`) | slot counter, dispatch lock, SHUTDOWN count, workspace files | accept, cap, spawn, read, dispatch, store, fetch, respond, linger, signal, poll, exit | threads against the accept loop and the main thread, uploads that break off, calls that never return | no leaked slot, a graceful exit cuts nothing off, no truncated file, probes are answered |
| Certification pipeline (`cli/certification.rs`) | a private workspace, the checks' results, an oracle run, the verdict, the report directory | snapshot, check, render, probe, run, copy out, remove and inspect the container, judge, write, audit, rename | commands that hang, requests the daemon carries out late, a report's name that somebody takes, a death anywhere | "passed" rests on evidence, no container outlives a verdict that relied on it, the report is exactly what its manifest lists |
| Document merge (`convert/document_merge.rs`) | accumulated document, offsets, id counters | graft header tables, binary data, sections; renumber objects | order of inputs, two methods, 16-bit ids, ids by number and by name | every reference means what it meant in its input |
| Document split (`convert/document_split.rs`, `cli/commands/split.rs`) | fragments, the numbered files of a directory | cut by section or saved page, publish, remove stale fragments | pages that start inside a paragraph or never, ranges over several sections, several runs into one directory | a fragment holds its pages and no others; after success the directory holds this run |
| Table editing (`convert/edit.rs`) | one table: cells with spans, widths, paragraphs; row_cell_counts | add/delete row and column, merge, split, set cell | long sequences of legal edits; in-place edits that fail validation last; integer division | the grid stays tiled, counts and ids stay consistent, text and width are kept, a refused edit changes nothing |
| Edge session (`deploy/cloudflare/src`) | dead flag, creation time, promise chain, container | begin, isUsable, proxy, forward, terminate, onStop | two-call checks, deadlines, containers that stop by themselves | one workspace per live session, one request at a time, nothing half done survives, everyone is answered |
| Asset snapshots (`cli/asset_snapshot.rs`) | an open handle | open, check, copy | paths renamed or linked meanwhile | bytes come from the file that was checked |
| HWP5 records and container (`crates/hwp5`) | a flat record stream and its forest | scan, tree, write | extended sizes, levels, budgets | reading what was written gives the same forest |
| Skill export, corpus gate | directories and their backups | stage, publish, undo | as self update | as self update |
| Structured authoring (`cli/template_spec.rs` and others) | budgets | validate, expand | nested repetition | the budget bounds the result |
| Edge sign-in and accounts (`deploy/cloudflare/src`) | one-use state, users | callback, upsert | an eventually consistent store | one account per person |
| Document compare, part filling, the merge command, the certification checks, readers and writers, converters, layout, renderers, read-only commands, CLI texts, release scripts | the document, if anything | see `PROJECT.json` | | |

The rows down to "Edge session" are modelled completely in the sense that
every operation of theirs that changes state is an action or part of one;
section 8 says why the others are not.

### 1.3 Hard behaviours

`PROJECT.json` lists 40 hazards with their lines.  The recurring ones:

* *stale looks*: a destination is inspected when staging begins and used after
  everything was staged (output.rs:294, :607); a directory is copied and only
  then compared (output.rs:894); a dead flag is read before a wait
  (session.ts:92); a quota is read before a body arrives (http.rs:410); a
  report's name is looked at before the rename (certification.rs:3227);
* *half-done replacements*: every replacement that is not one atomic rename is
  two, and each can fail, and so can the undo (output.rs:366, :1018, :2288,
  update.rs:153);
* *process death* between any two of those (output.rs:355, :990, :2361,
  update.rs:150);
* *late effects*: a command that was killed at its deadline may still have been
  heard (certification.rs:4222);
* *limits*: connection slots, workspace quota, 16-bit ids and dimensions,
  integer shares of a width;
* *long legal sequences* on data whose invariants are kept by hand (edit.rs,
  document_merge.rs, split.rs).

Candidates seen and not in the list: a skill tree that can neither be moved in
nor back (skill.rs:812); the extended record size (record/header.rs:29); nested
template repetition (template_spec.rs:2117); counting and rendering pages in
two passes (certification.rs:2406); two first sign-ins of one account
(users.ts:17) and one-use state in an eventually consistent store
(google-handler.ts:78).

## 2. The modules

| Module | Models | Extends or instantiates |
| --- | --- | --- |
| `OutputFs` | directory entries as versions; inspect_destination, recheck_destination | |
| `Publication` | *abstract*: what publishing several outputs as one unit promises | |
| `OutputSet` | write_validated_files, publish_output_set, Drop | `OutputFs`; `Publication` by a mapping |
| `OutputSetProofs` | every property of `OutputSet`, and that it implements `Publication` | `OutputSet` |
| `OutputPair` | write_validated_with_sidecar, StagedDirectory, StagedOutputPair | `OutputFs`; `Publication` by a mapping |
| `OutputPairProofs` | every property of `OutputPair`, and that it implements `Publication` | `OutputPair` |
| `StagedOutput` | write_validated, validate_without_publish, write_with_private_input_snapshot, three publications | `OutputFs` |
| `StagedOutputProofs` | proofs about `StagedOutput` | `StagedOutput` |
| `SelfUpdate` | `hwp update` | |
| `HttpServe` | `hwp serve` | `Totals` |
| `CertifyOracle` | the oracle: its commands, the daemon, the container, the cleanup | |
| `Certification` | execute, its workspace, verdict, audit and publish | `CertifyOracle` |
| `CommandProofs` | proofs about the update and about a certification | `SelfUpdate`, `Certification` |
| `DocumentMerge` | merge_documents | |
| `DocumentSplit` | split_sections, split_page_ranges, execute, remove_stale_fragments | |
| `DocumentProofs` | proofs about merging and splitting | `DocumentMerge`, `DocumentSplit`, `FoldFacts` |
| `Totals` | the sum of a function over a finite set | |
| `TableGrid` | table editing | `Totals` |
| `TableGridProofs` | proofs about it | `TableGrid`, `FoldFacts` |
| `EdgeSession` | a session of the Worker and the handlers that call it | |
| `ServeProofs` | proofs about the server and the session | `HttpServe`, `EdgeSession`, `FoldFacts` |
| `FoldFacts` | lemmas about least numbers, finite sets, folds and totals | `Totals` |
| `MC...` | values for TLC | the module named |

Conventions.  A definition has the source's name where it translates one
function.  A program counter (`pc`, `at`, `mainPc`, `step`) names the *next*
call.  An action is one call that others can observe, or a run of calls that
touch only private state.  Error paths are disjuncts of the same action,
guarded by `Fault` (the call fails by itself, counted) or by the condition it
fails on.  Operators commented *Mutant* are not part of any specification; each
is a plausible bug in the definition that follows it.

### OutputFs

The code compares destinations by device, inode, link count, length, time,
hash and mode (`FileSnapshot`, `regular_file_snapshot`).  A directory entry is
therefore a *version*: two entries are the same version exactly when all of
those agree, and every write of another program makes a new one.  `Unsafe`
stands for whatever inspect_destination refuses (links, hard links,
directories, special files).

### OutputSet

`target[i]` is the destination output i names, `dest` the disk, `snapshot`,
`staged`, `backup`, `preserve` the fields of StagedOutput, `backedUp` and
`published` the two lists of publish_output_set, `recErr` whether
recovery_errors (or the warnings) hold an entry for i.  One action is one
file-system call: CheckPaths (the duplicate refusal), Stage, WriteStaged,
RecheckDestination, InheritPermissions, BackUp, Publish; after a failure
RemovePublished and RestoreBackup from the last output to the first; CleanUp;
Drop.  Crash ends the process between any two; OtherProgram writes, deletes or
makes unsafe any destination at any time.  `restored` and `disturbed` are
observers: the properties excuse what the code cannot know (a destination
another program wrote after its recheck) and nothing else.

### Publication

Where the old file of each output is (in place, aside, back, given up), which
new files were moved in, and what the caller was told: no file system, no
order, no other program.  An old file is moved aside before any new one is
moved in and given up only when all are in; only an incomplete publication is
undone; and a message may only be given when it is true (Truthful).  `OutputSet`
and `OutputPair` each define the mapping (OldPlace, Told, ...), check `P!Spec`
in their runs and prove it.  The single destination is not mapped to it: its promise is
about several processes and one file, which `StagedOutput` states directly.

### OutputPair

The two items are the body, a file, and the media, a tree.  A rename replaces a
file but not a tree, and RemoveMedia may stop half-way and leave a `Partial`
tree; both are why the code takes the old body out before the media go in.
StageMedia, CopyTree and RecheckCopy are StagedDirectory::new: the workspace
exists before anything owns it, so a failed copy leaves it behind (`owned`).
WriteStaged decides `changed`; when the media came out unchanged, RecheckAlone
and PublishAlone publish the body by the single-file path, and everything else
is BackUpMedia to SyncParents, RemoveMedia to RestoreBody, and Drop.

### StagedOutput

Several processes and one destination.  `platform` picks the publication: one
rename (unix), ReplaceFileW with a backup (windows), or the rename machine of
publish_with_recovery (other).  `source` says how the input relates to the
destination: the same file (an edit in place), another, a link to it, or none.
`api` and `mode` choose the entry point.  `handle` is what a process's open
input holds now: another program may replace the input by a rename (Overwrite
of the path leaves the handle as it is) or rewrite it in place (Rewrite changes
both), and reading takes two steps (`got` collects the versions whose bytes
were read), so a file rewritten in between is read torn; CompareInput is the
check of copy_input_snapshot that refuses it.  `checked`, `raced` and `moved`
are observers.

### SelfUpdate

Several processes, one installed path.  Downloads, archives and extraction are
abstracted to "the release, or damaged"; a version text is abstracted to a
relation `Contains`, because verify_installed looks for the version as a
substring.  PickTag and Decide are `run` up to the choice, Fetch and Verify the
download, Copy to Forget replace_binary call by call, VerifyInstalled the final
look.  A process may die between any two calls.

### HttpServe

The accept thread (Accept, CheckShutdown, CheckCap, Spawn), a thread per
connection (ReadHead to Linger), the main thread (SeeShutdown, WaitForDispatch,
Exit) and signals.  `live` is the slot counter, `lock` the dispatch lock,
`files` the workspace.  An upload is received unit by unit, so that it can end
anywhere; a tool call is one action that may write a file, fail, or (without
fairness) never happen.  The stages in `Dispatching` hold the lock until the
response is written.

### CertifyOracle and Certification

A command of the runtime client is a child in a process group: it ends by
itself or is killed at its deadline (Deadline), and in either case the request
it carried may still be with the daemon (`inflight`), which carries it out at
any later time or never.  A descendant that left the group may hold a pipe
(`holder`), and the reader is joined without a deadline.  `step` is the command
under way: the three probes, run, the two copies, rm and inspect, the last two
in at most MaxTries rounds (cleanup_container_verified).  `Certification`
composes this with execute: Stage is what is in the workspace, the private
copies, the render's temporary tree, the oracle's scratch and its PDF included;
Verdict is overall_status; Report writes the manifest; Tidy, Audit, Look,
Rename and SyncParent are the publish.  What a check looks at is data: it
passes or fails.

### DocumentMerge

One action is one round of the loop over the inputs.  A header entry carries
the input and place it came from (`of`), so that "the same meaning" can be
said.  FastPath and General are the two methods of grafting, `Method` the choice
between them.  Tabs are two collections, as in the code: `tabs` are the stops
(tab_stops), which every reader fills, `rawTabs` the raw records (tab_defs),
which only the HWP5 reader has; a reference is shifted by the length of the
second.  AlignedRaw appends the raw NUMBERING and BULLET records while both
sides have one for each entry; GraftBins, GraftStreams and Minted are binary
data, its 16-bit storage ids and its streams' names.  Renumbered gives tables
and pictures new ids and z-orders, by the raw record each has, lacks or has cut
short and, without one, by whether a table has a placement; Identity is the id
the writer will give each (FromZ keeps 16 bits of a z-order), CountedId what
the counters begin above.  Overflows is the refusal before anything is changed,
by an id, by a collection or by a counter; Init refuses when a counter cannot
begin.  A stream's name is what was put before
it, a directory, a stem and an extension, because the collision rules and
resolve_bin look at exactly those (Answers is the comparison of an item's name
with a stream's).  DocumentsAssumption says what a reader
makes; `Resolves` and `WellMade` say more, that the references of the inputs
resolve (a tab among the stops) and that headers of the default family begin with the same borders:
hypotheses of the theorems, which every input of the run satisfies.
`PicturesMade` says what the readers make of binary data: streams have distinct
names, none the last part or stem of another; the payload of a table entry is
called BIN and its id, and nothing else is, unless it is in the directory of a
package; a picture finds its stream, by number or whole name where there is a
table (HWP5), by item id where there is none (HWPX).

### DocumentSplit

A paragraph is the set of offsets at which a saved page starts in it.
PageStarts, RoundBoundary, StartOf, EndOf and PieceOf are the cut; Load to
Report are execute, with Publish as one step that has OutputSet's outcomes, and
remove_stale_fragments as ListDirectory and one RemoveStale per entry, in any
order.  A directory that cannot be listed and a file that cannot be removed are
warnings; an entry that cannot be read, or whose kind cannot be learnt, is
passed over in silence (entries.flatten(), is_file()) and goes to `missed`.  (The specification is SplitInit, SplitNext and SplitSpec, so that one
module can extend this one and `DocumentMerge`.)  Several runs of different
length follow each other in one directory that also holds a user's file and a
folder; a run may die at any step.

### TableGrid

A table is its rows, columns, `cells` (the anchors, with span, width and
paragraphs) and `counts` (row_cell_counts); `call` is the last call, the row and
column it named and what it answered.  The seven calls are translated
with the arithmetic of widths and of instance ids; which of them edit a clone
and which the table itself (InPlace, OnClone) is kept, since it decides what a
refused edit leaves behind.  The cells are a set because every edit restores
row-major order.  Heights, margins and borders are left out.

### EdgeSession

Each request moves through the places `new`, `checked` (between isUsable and
proxy, two calls to the object), `queued`, `forwarded`, `stopping` (awaiting
destroy), `answered`.  `chain` is the promise chain, `gen` numbers the
containers, each with a workspace of its own, and `late` observes that a
request was forwarded although the session was dead, or about to be told so.  (Its names begin with Edge where
`HttpServe` has the same, so that one module can extend both.)  The Container base class
is not in the repository; the model assumes what the code relies on:
containerFetch starts a container when none runs, and reaching the object may
do so too (mcp-api.ts:26-28, `Reach`); destroy stops it or fails, and terminate
swallows the failure (`spared`); a container that stops by itself (`Stop`) is
reported to the object some time later (`Told`: onStop or onError), so that
requests are checked, queued and forwarded in between (`untold`); and onError
may report another error at any time.  A call to the object is left out of
`untold` when the session is dead already, since it changes nothing then.

## 3. What each run checks

| Run | Configuration | Question |
| --- | --- | --- |
| `output_set` | `MCOutputSet.cfg` | a set of outputs under faults, another program and a death anywhere |
| `output_pair` | `MCOutputPair.cfg` | a body and its media directory under the same, changed or not |
| `staged` | `MCStagedOutput.cfg` | two processes and one destination, on three builds |
| `self_update` | `MCSelfUpdate.cfg` | two updates of one installation |
| `http_uploads` | `MCHttpServe.cfg` | lock, workspace and exit with calls, uploads and downloads |
| `http_ends` | `MCHttpServeEnds.cfg` | slots and liveness with more clients than slots |
| `certify` | `MCCertification.cfg` | one certification under each oracle mode |
| `merge` | `MCDocumentMerge.cfg` | three inputs in every order of the two methods |
| `merge_pictures` | `MCDocumentMergePictures.cfg` | *violation*: pictures of one name |
| `split` | `MCDocumentSplit.cfg` | every cut of small documents; three runs into one directory |
| `table_grid` | `MCTableGrid.cfg` | three edits in any order on three tables |
| `edge_session` | `MCEdgeSession.cfg` | an initialize, two calls and a DELETE |

*output_set.*  NothingTakenIsLost: an old file that was moved aside is in its
backup or back in place unless the whole new set was moved in.  OutcomeIsTrue:
"restored", "ok", "incomplete" and plain errors say what is on the disk.
WorkspacesAreAccountedFor: a leftover backup is mentioned in the message and
survives Drop, and with no failing call nothing is left beside the
destinations, on error returns too.  NoStaleOverwrite: no step of the command
moves or replaces content it neither recorded nor wrote, unless that content
arrived after the recheck.  ImplementsPublication: section 2.

*output_pair.*  PairIsNeverMixed: at no moment, a death included, is a new body
beside media other than its own, and an old body is beside new or half-removed
media only after a step of the recovery failed.  OutcomeIsTrue,
WorkspacesAreAccountedFor (which names the workspace that
StagedDirectory::new abandons) and ImplementsPublication as above.

*staged.*  EditsWhatItReplaces: on unix an edit in place was computed from the
very version it replaces, so two processes editing one file cannot lose an
update between them.  (On the other builds a recovery may put the old file back
after what stood in its place was read, and the recheck passes.)  NoLostUpdate:
only the recorded version is replaced.  InputIsWhole: a private copy of the
input is one version of it, though the file may be rewritten in place while it
is read.  OldSurvives: the old or the new file is in place or the old one is in
a backup that Drop leaves, whichever calls fail and wherever the process dies,
where the replacement takes two renames too.  OutcomeIsTrue: per process.

*self_update.*  BinarySurvives (in place or as somebody's backup);
OneFaultIsUndone; UpdatedMeansInstalled (a success is the release asked for and
runs as its version, unless another update was at its own renames).  Version
0.3.10 contains the text of 0.3.1, and 0.3.2 reports a wrong version, so that
the substring test matters.

*http_uploads, http_ends.*  GracefulExitIsClean: a clean exit cuts off no call
or transfer that has begun; a response that is still being written is not one
(`Dispatching` ends before it).  NoPartialUpload: a file shorter than declared is
being received, or could not be removed, or was cut off by the second signal.
UploadIsAcknowledgedWhole: a 200 means a whole file within the quota even when
one of the two looks at the workspace failed.  SlotsMatchThreads: no path leaks
a slot or returns it twice.  EverythingEnds, ProbeIsAnswered: section 5; "answered" there is that the
connection ends, with a response or because writing it failed.

*certify.*  PassIsEarned: a report that says "passed" rests on local checks
that passed and, where there is an oracle's PDF in it or the policy required
one, on a run that ended well and in time, results that came out whole, and a
container that was gone for good when it was judged, although a request killed
at its deadline may take effect later.  ReportIsWhole: what has the report's
name is exactly what its manifest lists, no private copy or scratch directory
whose removal failed, and the answer agrees with it (an error is always
possible after a call that failed by itself; without one it means that no
report is there).  NothingIsReplaced: the
rename never takes another's place.  CertificationEnds: section 5.

*merge.*  MergeKeepsMeaning: every paragraph of every input refers in the
result to the shapes, lists, styles, borders and picture it referred to, by
either method and whatever came before.  Its tab stops are the same where every
earlier input had a raw record for each tab, or all headers are of the default
family (StopsFollow), and its raw tab record where its document has them
(RecordsFollow): elsewhere the code gets them wrong (section 7).  A picture may only be lost when the
losses say so, and only one that names a package item may come to show another,
when a stream of an earlier input has that name (Ambiguous).  RawRecordsStandForTheirEntries: raw and parsed numberings and
bullets stay aligned when inputs with and without raw records follow each other.
ObjectsOfInputsDiffer: no two inputs' tables or pictures that are numbered in
the same way share an id, unless z-orders are so far apart that the writer's 16
bits of them are the same; nothing is said of those that are not numbered.

*split.*  FragmentsHoldTheirPages: a fragment holds exactly the paragraphs that
begin on its pages, once and in order, over all sections it spans, each section
with its definition (the copy of a section's head that carries it is not
counted among the paragraphs).  SuccessIsComplete: after a run that succeeds without a
warning the numbers of the stem are this run's fragments, whatever earlier
runs, broken off ones included, left there, save entries it could neither read
nor look at.

*table_grid.*  WellFormed: the cells tile the grid, the counts match and ids are
unique in the table after any edits in any order; RefusedChangesNothing
although some edits validate last, in place; TextSurvives: only deletion loses
text, and only that of the row or column the call named, and set_cell only that
of its cell; WidthKept: a column edit keeps the
table's width to the unit.

*edge_session.*  ReplacedOnlyUntilTold: a session that lives and has been called
about every container that stopped answers from its first workspace (in the
window between the stop and onStop it may answer from an empty one: section 7);
NothingPartialSurvives: after a deadline the container it ran in is gone before
the 504, unless its destroy failed; DeadAdmitsNobody: a dead session
takes no new request into its chain; EveryRequestIsAnswered.

## 4. Bounds

| Run | Instance | Why it is enough | States |
| --- | --- | --- | --- |
| `output_set` | 3 outputs, 3 destinations named in every way (also twice), each absent, regular or unsafe; 2 failing calls, 1 outside step, a death anywhere | three outputs are the least for which the recovery loop has a first, a middle and a last; one fault starts the recovery and one is inside it | 0.3 million |
| `output_pair` | two items by nature; 4 failing calls, 3 outside steps, a death | every step of the recovery can fail in one behaviour | 0.16 million |
| `staged` | 2 processes; unix: both entry points, 1 fault; windows (direct) and other (private snapshot): 3 faults; 1 outside step | two processes are enough for a lost update; ReplaceFileW, the rename back and the copy back can all fail, or one of them be a death; the entry points differ before the publication and the builds in it, so they are paired off instead of multiplied | 4.7 million |
| `self_update` | 2 updaters, 4 releases, all argument combinations, 2 faults | the second rename and its undo, or a death | 0.4 million |
| `http_uploads` | 2 connections and 2 file names (both symmetric), sizes 1 to 3 against a file cap, a body cap and a quota of 2; 2 signals, 2 faults | every cap is met and passed; with the other file in place and the first look at the workspace failing, the second look finds the quota passed; the second signal kills | 1.2 million |
| `http_ends` | 3 connections, 2 slots, 1 signal, 1 fault; no symmetry, because liveness is checked | one client more than slots | 0.2 million |
| `certify` | 3 tries of the cleanup (the code's number), 2 faults, 2 outside steps | a name that is taken and freed again; a removal and its retry | 1.0 million |
| `merge` | 3 inputs; headers, pictures and objects varied one at a time; palettes of one entry, ids up to 6, object ids up to 14, z-orders up to 7 of which the writer tells 4 apart | a third input meets what the second decided; raw records stop and start again; the id space and each counter run out, at the first input and later; z-orders come to be far apart | 96 thousand |
| `split` | up to 3 sections of up to 3 paragraphs, pages starting at, in and never in a paragraph, every range up to page 5; 3 runs, 2 faults | a range over three sections has a first, a middle and a last one; the second run is shorter, the third longer | 0.2 million |
| `table_grid` | tables of 2x2 and 3x2 with unequal widths and a 3x3 table with two merged regions, up to 4 rows and columns, 3 calls with every argument the code distinguishes | a merge, an edit through it and an edit of the result | 0.3 million |
| `edge_session` | 4 requests of one session, 2 failures (a start, a fetch, a destroy, a reported error, or a container started too early), any number of deadlines, stops and the age limit | one with the container, one behind it or between its two calls, and a DELETE; a container, its replacement and one more | 0.1 million |

In all modules `MaxFaults`, `MaxFailures`, `MaxExt`, `MaxSignals`, `MaxCalls` and `MaxCount`
bound the behaviours explored and stand for nothing in the code; `MaxTries`,
`MaxDim`, `IdSpace`, `MaxId`, `MaxObject`, `MaxZ`, `Synthetic`, `Wrap`, `Palette`, `BaseParas`,
`MaxConnections`, `MaxBody`, `MaxFile`, `Quota` and `BodyWidth` are constants of
the code, made small.  The theorems of section 6 remove the bounds from the
properties they state.

`HttpServe` stops when the process has ended and `TableGrid` after its last
call, so deadlock is not checked in their runs; that the server ends is part of
EverythingEnds.  In every other run a state without a successor is an error,
and the ends of a run are explicit actions (Done, AllStopped).

## 5. Fairness

Three specifications state fairness.

*HttpServe*, FairSpec: weak fairness of the accept thread, of the main thread
and of every connection thread outside a tool call.  The scheduler runs
threads; a socket read or write ends by its timeout (http.rs), so a thread that
reads from a silent client goes on; the lock is taken by whoever waits while it
stays free.  A tool call may run for ever: EverythingEnds (every connection
ends, and a signal ends the process) has the return of tool calls as a
hypothesis (CallsReturn); ProbeIsAnswered does not, which is its point.
TakeLock of one thread has weak fairness only: a thread may be overtaken, but
each of finitely many connections takes the lock once.

*EdgeSession*, EdgeFairSpec: a handler that can go on goes on (ServeRequest) and a deadline
fires (Overruns, a timer).  A container need not answer, a client need not send
anything, nobody needs to delete a session.

*Certification*, Spec: execute goes on while it can, and a deadline that is due
comes (Deadline; the code polls the child until then).  Nothing is assumed of
the children, of what they started or of the daemon, so CertificationEnds holds
however they hang, unless a descendant keeps a pipe open for ever: the code
joins its readers without a deadline, and the property says so.

The other modules have no liveness properties: their loops are bounded and each
ends in a return or a death.

## 6. Proofs

Each of the theorems below is for every value of the constants; the runs check
the same formulas on small instances.  TypeCorrect, NothingDamaged, Serialized
and GridStaysTiled are not in a run: the invariants that are contain them.
ReferencesStay is the half of MergeKeepsMeaning that assumes nothing of streams.

| Theorem | States | Assumes |
| --- | --- | --- |
| `OutputSetProofs!TypeCorrect` | TypeOK | N > 0, destinations are numbers, bounds are naturals |
| `OutputSetProofs!NothingLost` | NothingTakenIsLost | the same |
| `OutputSetProofs!Refines` | ImplementsPublication | the same |
| `OutputSetProofs!OutcomeTrue` | OutcomeIsTrue | the same |
| `OutputSetProofs!WorkspacesAccounted` | WorkspacesAreAccountedFor | the same |
| `OutputSetProofs!NothingStaleReplaced` | NoStaleOverwrite | the same |
| `OutputPairProofs!TypeCorrect` | TypeOK | bounds are naturals |
| `OutputPairProofs!OutcomeTrue` | OutcomeIsTrue | the same |
| `OutputPairProofs!PairBelongsTogether` | PairIsNeverMixed | the same |
| `OutputPairProofs!WorkspacesAccounted` | WorkspacesAreAccountedFor | the same |
| `OutputPairProofs!Refines` | ImplementsPublication | the same |
| `StagedOutputProofs!TypeCorrect` | TypeOK | processes are numbers, builds and entry points are the code's, bounds are naturals |
| `StagedOutputProofs!OldKept` | OldSurvives | the same |
| `StagedOutputProofs!ToldTrue` | OutcomeIsTrue | the same |
| `StagedOutputProofs!NothingOverwritten` | NoLostUpdate | the same |
| `StagedOutputProofs!EditIsOfWhatItReplaces` | EditsWhatItReplaces | the same |
| `StagedOutputProofs!CopyIsWhole` | InputIsWhole | the same, and that the build is unix |
| `CommandProofs!NothingDamaged` | InstalledIsWhole | the latest release is a release, the running version is a text of its own |
| `CommandProofs!BinaryKept` | BinarySurvives | the same |
| `CommandProofs!OneFaultUndone` | OneFaultIsUndone | the same |
| `CommandProofs!SuccessIsInstalled` | UpdatedMeansInstalled | the same |
| `ServeProofs!GracefulExit` | GracefulExitIsClean | the main thread and nobody are not connections |
| `ServeProofs!SlotsAreExact` | SlotsMatchThreads | the cap is a natural number |
| `ServeProofs!UploadsAreWhole` | NoPartialUpload | body lengths are positive; nobody, the main thread and a tool call are not connections |
| `ServeProofs!UploadAcknowledged` | UploadIsAcknowledgedWhole | the same, and that the workspace has finitely many file names |
| `CommandProofs!TypeCorrect` | TypeOK, with OracleTypeOK | at least one try of the cleanup, bounds are naturals |
| `CommandProofs!PassEarned` | PassIsEarned | the same |
| `CommandProofs!ReportWhole` | ReportIsWhole | the same |
| `CommandProofs!NothingReplaced` | NothingIsReplaced | the same |
| `ServeProofs!OneWorkspace` | ReplacedOnlyUntilTold | nothing |
| `ServeProofs!NoPartialWork` | NothingPartialSurvives | nothing |
| `ServeProofs!Serialized` | OneAtATime | nothing |
| `ServeProofs!NobodyJoinsTheDead` | DeadAdmitsNobody | nothing |
| `TableGridProofs!TypeCorrect` | TypeOK | the tables a run starts with are tiled, with counts and ids that agree; limits are naturals |
| `TableGridProofs!GridStaysTiled` | Tiled, the part of WellFormed about the grid and its counts | the same |
| `TableGridProofs!TableWellFormed` | WellFormed | the same, and that at every moment the ids in use leave room for the cells of one more edit (RoomForIds) |
| `TableGridProofs!RefusalIsClean` | RefusedChangesNothing | as GridStaysTiled |
| `TableGridProofs!NoTextIsLost` | TextSurvives | the same |
| `TableGridProofs!WidthStays` | WidthKept | the same |
| `DocumentProofs!RawRecordsAligned` | RawRecordsStandForTheirEntries | three inputs of one section, what a reader makes; ids are naturals |
| `DocumentProofs!ObjectsApart` | ObjectsOfInputsDiffer | the same |
| `DocumentProofs!ReferencesStay` | ReferencesKept | the same, and that the inputs are WellMade |
| `DocumentProofs!MeaningKept` | MergeKeepsMeaning | the same, and that they are PicturesMade |
| `DocumentProofs!SuccessComplete` | SuccessIsComplete | what is cut are documents, files and kinds of entry differ |
| `DocumentProofs!PagesHeld` | FragmentsHoldTheirPages | the same |

*NothingLost.*  NothingTakenIsLost is not inductive: that a backup can be put
back or dropped safely depends on how far the loops have come.  The invariant
IInv adds: past the duplicate check destinations are distinct (Distinct), so
one output's rename never touches another's file; an undisturbed destination
still is what was recorded, from its recheck to its backup (SnapshotFresh); a
backup taken and not put back holds that version (BackupHeld); what was put
back stays (RestoredStays); the loops have a definite extent (LoopsUp,
LoopDown), which is where "published = all outputs" comes from when clean-up
begins; and Drop spares exactly the workspaces that matter (DropIsSafe).  The
step lemma has one case per action and one step per conjunct it disturbs.  The
proof includes the other program and the process death.

*Refines.*  Each action of OutputSet is shown to be one abstract action or a
stutter.  RefInv relates the loops to what the abstract state can see: which
outputs had a file and were moved aside so far (AsideSoFar), that a kept backup
is reported (Reported), and that what clean-up and Drop pass over is settled
(Swept).  That a message is only given when it is true is the abstract Tell's
guard, so the refinement carries it.

*OutcomeTrue, WorkspacesAccounted, NothingStaleReplaced.*  OutcomeInv says what
stands at each undisturbed destination: before its recovery (Standing), after
it (Recovered), and how the message in the end is chosen (Answered).  Held does
the same for backups and workspaces.

*OutputPairProofs.*  The calls come in a fixed order, so the invariant is a
table of what is so at each of them: what was looked at (Looked), staged
(Staged) and owned (Owned), how far the renames have come (Progress), what each
backup holds (Kept), and what stands at a destination that nobody else has
written since its last recheck (Placed).  PairIsNeverMixed is not inductive
without the last two: that the recovery puts an old body back beside old media
rests on what the media backup holds.  There is one lemma for each part, with
one case for each call; the other program's step is a lemma of its own, and
changes nothing Placed speaks of without disturbing it.  The refinement
then takes one lemma for each kind of abstract step, and Kept shows that
nothing Drop removes is an old file.

*StagedOutputProofs.*  IInv says of each process how far it has come (Stage),
that its new file or its backup is where the next call needs it (Staged, Kept),
and what it may conclude about the destination while nobody has overtaken it
(Holds).  One process's step leaves what the others know alone, or overtakes
them (OthersUntouched), so the step lemma splits into the acting process and
everybody else.  The last two theorems rest on versions never coming back on
unix (Apart, NewIsNew): a file that once differs from the snapshot differs for
good, so that it passed the recheck means that it never changed (EditsInPlace),
and an open file that equals itself at the end of the copy never changed
either (CopiesOne).  Where a recovery copies a backup over the destination a
version does come back, and the argument, not only its proof, is for unix.

*NothingDamaged, BinaryKept.*  What is staged has passed the checksum (Checked),
so a rename into place installs a whole binary, and what is moved aside is the
whole binary that was there (UndoIsWhole).  BinarySurvives is not inductive: a
backup counts only while its owner will not remove it any more (Held), which is
from the first rename on, unless the second succeeded, and then the new binary
is in place or in the backup of whoever moved it aside since.

*OneFaultUndone, SuccessIsInstalled.*  The place is empty only while somebody is
between the renames, or died there, or two calls have failed (Owed).  What was
staged is what was asked for, and after its rename stays in place as long as
the others are before theirs (AsAsked).

*GracefulExit.*  Whoever is in a dispatching stage holds the lock, the main
thread keeps the lock from WaitForDispatch on (mem::forget of the guard), and
a clean exit lies behind that; two holders would be equal.

*SlotsAreExact.*  The stream in the accept thread's hands has no thread yet
(InHand), so a spawn adds exactly one thread to a counter that was raised
before, and the end of a thread, by whichever path, takes one of each.  The set
of threads is finite because each step adds at most one.

*UploadsAreWhole.*  The file that is being received holds what its thread has
received (Receiving), which is less than was declared; what a connection asks
fits the stage it has reached (Asked); and by the lock nobody else works on the
workspace meanwhile, so an upload is only ever replaced when it is over.

*UploadAcknowledged.*  Between the first look at the quota and the second nobody
else works on the workspace, so what is in use and what the upload still lacks
fit the quota together, unless the first look failed (Uploading): a unit of the
body adds as much to the one as it takes from the other (UsedChanges).  The
answer 200 comes only from the second look (NoUpload: an upload is never called
or fetched), when nothing is lacking any more; that look may fail too, and if
both do the quota may be passed, which is what the property allows.

*PassEarned, ReportWhole, NothingReplaced.*  A run is asked for once, and when it ended well its
container had been created, so no request that could create it again is with
the daemon (RunOnce); an inspection that finds none therefore finds none for
good (SeenGone), and only an acceptable result is kept (Judged).  Around it,
the verdict is given once and stands (VerdictStands), and nothing comes into
the workspace between the audit and the rename (TreeStands).

*OneWorkspace, NoPartialWork.*  A session that lives and knows of every stop has
had exactly its first container, and that one still runs: a stop is untold
until onStop has marked the session dead, and a destroy finds it dead already
(FirstContainer); hence what was forwarded while that was so ran there
(RanOnFirst).  After terminate has answered 504 the container it ran in is gone,
and a later one has a larger number, or its destroy failed.

*Serialized, NobodyJoinsTheDead.*  The chain has no repetitions, all but the
first of it wait, and everybody who waits for the container or is with it is in
the chain (ChainInv).  So whoever is forwarded is the first, and there is one
first.  The chain grows only in Proxy, which looks at the dead flag.

*TableGridProofs.*  The invariant is the type, the tiling and the counts.  Each
edit is shown to keep them by saying which cell has a position afterwards: the
rows above a new one are where they were, those below one further down, a
merged region belongs to its anchor, and a deleted line's cells are gone or one
shorter (one lemma for each of the seven edits, one step for each kind of
cell).  RefusedChangesNothing rests on it: the edits that work on the table
itself validate last, and what they made of a tiled table is tiled, so that
validation never refuses.  That ids stay unique rests on the next id being
above all in use, which the code gives up when it wraps (edit.rs:1740); the
hypothesis RoomForIds is that it does not.  NoTextIsLost says for each edit
where the paragraphs of each cell have gone, and of the cells that are gone that
they lay in the line the call named.

*WidthStays.*  The width of a row of a table whose cells are as wide as their
columns is the total of the columns' widths (RowSum): the columns of the row's
cells are disjoint and together all of them.  So it is enough to follow the
total.  Scaling gives the target to the unit because the last width takes what
rounding left (ScaledTotal); making room and filling it add what they took
(RoomTotal), and the columns that a deletion leaves are scaled up to the total
before.  A cell is given at least 1, which would add a unit, so no column may
come out with 0: an insertion that would do so is refused, and a deletion cannot
do so because scaling up makes no width smaller (ScaledUp).

*RawRecordsAligned, ObjectsApart.*  Raw records and entries are appended
together or the raw ones not at all, and once they differ in length they differ
for good (ListsOK).  The objects of what was merged have ids and z-orders below
the two counters (ObjectsInv), which begin above everything the first input
has; an input's objects get numbers from the counters, each its own, or none.
Two numbers less than 2^16 apart have different remainders (Remainders), so two
z-orders that are not far apart give different ids (NumbersApart).

*ReferencesStay.*  The target only grows: collections are extended at the end,
so what was merged keeps its meaning (Grows).  A round appends a section whose
references go to its own entries: in the general method because each collection
is appended whole and each reference shifted by the length it had, in the other
because what lies past the palette is, and what lies in it means the same in
both headers.  For that the target has to be of the default family only while
the first input is, and to begin with the first input's header (TargetOK).  The
hypotheses are about the inputs: a reference past the end of its collection
would come to mean an entry of the next document, and default headers that have
a border in different slots of the palette are not the same palette.

The tabs need more than the header in hand (TabsInv): that the target has a
record for each of its tabs while the inputs in it have, and is of the default
family while they all are (LikeInputs).  In the general method the shift is then
the place of the appended stops; the appended records are there in any case.  In
the other nothing is shifted, and the only tab of a default header, its stop or
its record, is the first in the target still (FamilyTabs).

*MeaningKept.*  Binary data is grafted by two folds, one over the table and one
over the streams; both are followed step by step (BinsKnown, StreamsKnown).
An entry gets a storage id that no entry of the table and no stream of the
target has, so while none is dropped the new ids are different (IdsMoved) and
the payloads, which take their names, are found by them and nothing else is
(IdResolved).  Any other stream keeps its name, or gets one that is nobody's
because there are more numbers to try than streams (MintedIs).  A new name is
answered only where the old one was (AnswersBack), and what answers to it in the
target is what the property calls ambiguous: so a name finds the same bytes, if
it is whole through the map of new names (WholeResolved), and otherwise because
the names before it have kept their last parts and stems (PartResolved).  The
streams of the target stay where they are, and the first that is found is found
first after every later round (ShowsOn); a reference that finds nothing could
find something then, which is why PicturesMade excludes it.  PicturesInv says
this of every section, with the streams known to be those of the inputs so far.

*SuccessComplete.*  Between its publish and its end a run only touches entries
that are not its own (InPlace); those that are stale are to be removed still,
or gone, or missed, or there is a warning (Remaining).

*PagesHeld.*  Only Split makes fragments, by Cut and from ranges that are not
refused (CutInv), so the theorem is about Cut.  Sequences laid end to end hold
what the parts hold, and are ordered where the parts are and follow each other
(FlattenHolds, FlattenOrdered); so the page starts are in document order, those
at or before a paragraph are the first ones (BeginsFrom), and the pages of a
range are what two of them bound.  Rounding a start to a paragraph moves it
past no paragraph's beginning (Rounded); a piece has the paragraphs of its
section between the two boundaries (PieceIs), and the pieces that are left out
are empty.

*Induction over data.*  Least numbers, greatest elements of finite sets, sums
that count, tilings by rows and what FlattenSeq computes are proved by a least
counterexample (a well-founded order on the numbers), which needs no operator
as a parameter: that the recursion has a function, and what each of its values
is, are sets of numbers that hold 0 and with each number the next.

These facts are in `FoldFacts`.  Three modules hold the theorems of two
components each: `ServeProofs` of the server and of the session in front of it,
`DocumentProofs` of merging and of splitting, `CommandProofs` of the update and
of a certification.

*Only model-checked.*  All liveness (the prover has no rule for fairness or
ENABLED here): EverythingEnds, ProbeIsAnswered, CertificationEnds,
EveryRequestIsAnswered.  Every other property of a passing run is stated by a
theorem.

## 7. Where the program and its texts disagree

One run is expected to be violated; it checks a sentence of the repository
against what the code does.

* `merge_pictures`, PicturesKeepTheirBytes: the comment at
  document_merge.rs:379 says that the map of renamed streams rewires the item
  references of pictures; the map is keyed by whole stream names (:404), while
  a picture read from HWPX names its item by the stem.  The second input's
  picture then finds the first one's stream, by resolve_bin's fallback on the
  stem.

Seen while modelling, without a run of their own:

* update.rs:155 says the original was restored, but the rename that restores it
  (:153) is not checked;
* between update.rs:150 and :152 no binary is installed, and nothing finds the
  backup again after a death there (BinarySurvives says it exists);
* edit.rs:755 says the anchor of a merge takes over the covered cells'
  paragraphs, and :659 that only empty ones are tidied away; a paragraph with a
  picture and no text is dropped too (:832);
* docs/design/19-hwp5-spec-supplement.md:145 wants instance ids unique per
  document; three of the table edits only look at their table (edit.rs:1686);
* after a split of unequal columns the next column edit widens the table
  (WidthKept says when it does not);
* session.ts:20-23 says that once the container stops every later request gets a
  404; the session is marked dead only when onStop is called (:145), and until
  then a request, even one that arrives after the stop, is answered from a new,
  empty container (ReplacedOnlyUntilTold names this window); and a request that
  was in the promise chain before is forwarded to one after that too (:92);
* session.ts:108 wants nothing partial to survive a blown deadline; terminate
  swallows a failure of destroy whatever its cause (:140), and a container that
  was not destroyed goes on serving what is in the chain (`spared`);
* session.ts:115-117 calls a failed fetch this request's problem and not the
  session's; when the base class reports it to onError too the session is dead
  (:151);
* the comment at output.rs:426 says that body and media are rechecked; when the
  media came out unchanged only the body is (:894), and a directory that
  another program changed meanwhile goes unnoticed;
* StagedDirectory::new abandons its workspace when the copy or the recheck that
  follows fails (WorkspacesAreAccountedFor names it);
* a death inside publish_output_set leaves a mixed set of old and new files;
  NothingTakenIsLost says that the old ones still exist in their workspaces;
* http.rs:49 says in-flight requests run to completion; those read completely
  and queued on the dispatch lock are dropped (:138);
* split.rs:140 speaks of the fragments of earlier runs, but any file of the
  stem and a number is removed (:173): splitting report.hwp removes a user's
  report-2024.hwp from the output directory;
* split.rs:142 promises a warning for a removal that fails; an entry of the
  directory that cannot be read (:158) or looked at (:171) is skipped without
  one, so a split can succeed silently and leave an earlier run's fragments
  (`missed` in SuccessIsComplete);
* a page range on which no paragraph begins gives a fragment with a section
  head only, or none; and an edit that clears a paragraph's line segments
  (edit.rs:289) moves the saved page starts behind it;
* document_merge.rs:17-21 says that tab ids are shifted by that collection's
  offset.  They are shifted by the number of raw records (:582, :657), while the
  stops are appended beside them (:606-609); an HWPX input has stops only
  (hwpx read/header.rs:433, :750), and the HWPX writer (write/header.rs:401-455,
  :544) and the renderer (hwp-render/src/tab.rs:22-44) look a reference up among
  the stops.  So the paragraphs of a second HWPX document merged by the general
  method get the first one's tabs, and the raw records of a later HWP5 document
  stand at the indices of an HWPX document's stops, which is what #377 repaired
  for numberings and bullets (:610-613).  StopsFollow and RecordsFollow say
  where tabs are right;
* document_merge.rs:45-47 says that no two objects of different inputs can share
  an identity.  Four ways they do, which ObjectsOfInputsDiffer excludes: ids of
  objects with a raw record and z-orders of tables without one are counted
  apart, and the writer makes ids of the latter (hwp5/src/write.rs:3557), so one
  of each may be alike; of a z-order it keeps 16 bits, so two that are 2^16
  apart are alike; a table without placement and a picture without record that
  cannot be shown are written with id 0 (:3579), whatever their document; and
  pictures that can be shown get ids counted from 0x3000_0000 (:1887, :2054),
  which a record of the first input may have;
* where the binary data table of an appended document has one storage id twice
  and the target does not have it, the first entry keeps the id, the second gets
  a new one, and the stream takes the name of the second (graft_bin_data,
  document_merge.rs:288-316): the first entry's picture has no payload left;
* a payload that gets a new storage id takes the name of that id
  (reminted_canonical_name, document_merge.rs:369), which a package item of a
  later document may have: a picture's item BIN0002 then finds it by its stem;
* a picture whose item id finds no stream in its own document may find one of
  another document after the merge, by the same fallback (document.rs:138-145);
* docs/design/22-remote-mcp-deployment.md:281 says an alarm ends a session
  after eight hours; the code looks at the age when a request arrives;
* a failed sync of the report's parent directory is reported as an error
  although the report is published (certification.rs:3231).

## 8. What is not modelled

`PROJECT.json` lists every component with its reason.  The map covers a small
part of the implementation's lines.  The greater part of this repository turns
bytes into a document, a document into bytes, text or geometry: the HWP5 and
HWPX readers and writers, the Markdown, HTML and JSON converters, layout and
the renderers, document_spec and its validation.  They are single passes over
data without an order of steps that could go wrong, without a second actor and
without state that outlives the call; a model of them would be a
transliteration, and the round-trip and golden tests the crates have say more.
What has control in it, several actors, or something left behind by a failure,
is modelled or planned.

Left out of the modelled parts: permissions and access control lists beyond
"the call may fail" and "the version differs"; durability of what was not
synced before a power loss; the byte content of files; a change of a file that
keeps every field of its snapshot; rate limits and the audit log of the Worker;
the inside of a tool call and of a certification check; metadata and package
passthrough in a merge, and documents a reader does not make (two storage
entries of one id, a stream nothing refers to that is named like a minted
one), inputs of several sections and the refusal of more than 65535
(document_merge.rs:229); the header every split fragment keeps and links among
the numbered files; heights and styles of table cells.

## 9. The plan

The order is by what a mistake would cost: users' files first, then the
installed binary, the server, the data model, the deployment.

Done: `OutputFs`, `OutputSet`, `StagedOutput`, `SelfUpdate`, `HttpServe`,
`TableGrid`, `EdgeSession`, `Publication` with its refinement, `OutputPair`,
`CertifyOracle` and `Certification`, `DocumentMerge`, `DocumentSplit`; and the
theorems of section 6.

Next

1. `AssetSnapshot`: one open, then checks and bytes of the same handle, against
   directories renamed and links planted meanwhile;
2. `RecordScan`: the level-based forest of an HWP5 stream, its extended sizes
   and its budgets, with reading as the inverse of writing;
3. the budgets of template expansion; skill export and the corpus gate as
   instances of one abstract replacement, with `SelfUpdate`; sign-in.

Runs are kept to one for each question; when a new module brings a deeper
property, the shallowest of the present ones make room for it.
