# DiskWise in TLA+

A TLA+ model of [DiskWise](../src/README.md): a Go program that measures a disk
with a pool of workers, keeps the result in an SQLite index, re-measures
subtrees, and reports what can be reclaimed, in documents it redacts, renders and
saves. The modules below are translated
from the Go source; TLC checks them on small instances, and TLAPS proves what they
say is safe, all but liveness, for every instance.

To check: `tlc -config MCWalk.cfg MCWalk` and so on for each row of
[Runs](#runs); `tlapm FiniteSums.tla`, `WalkProofs.tla`, `IndexProofs.tla`,
`CollapseProofs.tla`, `AttributionProofs.tla`, `QueriesProofs.tla`,
`ProgressProofs.tla`, `DocumentsProofs.tla` for the proofs.

## The system

| Component | Source | State | Operations | What makes it correct |
|---|---|---|---|---|
| Walk | `scan/` | priority queue and condition variable, WaitGroup, hard-link set, tree of nodes, counters | `Walk`, `expandDir`, `Push`/`Pop`/`Close`, `checkAndMark`, `rollup` | ends, never early; every directory accounted for; every inode counted once; totals, states and counters agree |
| Index | `index/db.go`, `schema.go`, `types.go` | tables `nodes`, `scan_runs`, `volumes` | `IngestScan`, `Rescan` | `parent_id` links a tree; totals are sums of children; a call stays in its subtree; runs date what they cover |
| Queries | `index/query.go`, `service/tree.go`, `largest.go`, `summary.go`, `freshness.go` | none | `NodeByPath`, `Children`, `Largest`, `DirsByNameSuffixes`, `FilesByExtensions`, `FileTotals`; `Tree`, `Summary`, `Largest`, `freshness` | what is shown is no older than its date says, whoever writes meanwhile; nothing large is hidden |
| Rollup | `rollup/` | the map of covered paths | `Collapse` | emits the highest directories whose linked leaves are covered, whatever the map order |
| Detectors | `detect/` | none | known locations, managed bundles, archives, families, large unexplained | each byte reported by one detector |
| Policy | `policy/` | none | `Evaluate` | never more aggressive than proposed |
| Service | `service/` | none of its own | `Scan`, `Rescan`, `Opportunities`, `Savings`, `Hotspots`, `Preflight` | combines the above, excludes bytes already explained |
| Archive pairs | `detect/archive_pair.go`, `archive_read.go`, `service/pairs.go` | none | `FindArchivePairs` | an extracted copy is recognised |
| Knowledge, entity | `knowledge/`, `entity/` | static registry | `Relevant`, `ExpandedDataPaths` | - |
| Redaction | `redact/` | the prefixes | `Path`, `Finding`, `Pairs`, `Document` | a redacted document holds no private name, and stays as it is |
| Documents, reports | `reportdoc/`, `report/`, `insights/` | none; saved files | `Build`, `Validate`, `Parse`, renderers | totals account for all that was found; renderings show all |
| Platform | `platform/` | none | `Stat`, volume and system probes | - |
| CLI, MCP | `cmd/` | progress goroutine; output files | one command per service call; `export`, `report`, `review`, `pairs` | files are whole or untouched but for one; the display ends, on the final counters |

How they interact. The CLI opens the index and calls the service. `Service.Scan`
calls `scan.Walk` with the registry's data paths as priority paths, then
`IngestScan`; `Service.Rescan` calls `index.Rescan`, which walks, looks the old
row up and replaces its subtree in one transaction. `Opportunities` runs the
detectors over the index, each with several queries, passes every finding to
`policy.Evaluate` and `rollup.Collapse`, and subtracts explained bytes from
unexplained directories. Every service call that reports is a sequence of queries
in no transaction. A document is built from such a report, or parsed from a file that
`export` or `report` saved, then redacted, rendered and written. Goroutines exist in
`Walk` (workers, closer) and in the progress display, which reads `Walk`'s counters.
Separate `diskwise` processes share the index file, and the files of their documents.

What is hard: the termination of `Walk` (a queue that grows while it is drained,
a counter that must not touch zero early, sleeping workers); the race of hard
links; failures and cancellation in the middle of a tree; sequences of rescans at
different levels of a changing disk; reads outside the transaction that uses
them; reports read query by query while others write; a loop over a map it changes;
several files that must go together; redaction applied to what is redacted already.

## Modules

| Module | Models | Extends |
|---|---|---|
| `Traversal` | what a traversal promises: directories are found, settled once, and the end is declared over a settled tree | - |
| `Walk` | `scan.Walk` with its queue, dedup set, rollup and counters | instantiates `Traversal` |
| `MCWalk` | two small trees for `Walk` | `Walk` |
| `WalkProofs` | theorems about `Walk` | `Walk`, `FiniteSums` |
| `Index` | `IngestScan` and `Rescan` as called by `Service.Scan` and `Service.Rescan`, by any number of processes | - |
| `MCIndex` | a disk of seven paths for `Index` | `Index` |
| `IndexProofs` | theorems about `Index` | `Index`, `FiniteSums` |
| `Collapse` | `rollup.Collapse` | - |
| `MCCollapse` | a tree of nine paths for `Collapse` | `Collapse` |
| `CollapseProofs` | theorems about `Collapse` | `Collapse`, `FiniteSums` |
| `Attribution` | `Opportunities` and `Hotspots`: the detectors, the policy, the exclusion of explained bytes, the report and the tiers | - |
| `MCAttribution` | a tree of nineteen paths for `Attribution` | `Attribution` |
| `AttributionProofs` | theorems about `Attribution` | `Attribution`, `FiniteSums` |
| `Queries` | a reader beside the writers of `Index`: tree, summary, largest, and the dates of results, one query at a time | `Index` |
| `MCQueries` | a disk of six paths for `Queries` | `Queries` |
| `QueriesProofs` | theorems about `Queries` | `Queries`, `IndexProofs` |
| `Progress` | the display of a scan's counters beside `Walk`, and the command that stops it | `Walk` |
| `MCProgress` | a tree of four paths for `Progress` | `Progress` |
| `ProgressProofs` | theorems about `Progress` | `Progress`, `WalkProofs` |
| `Sorting` | what a choice of elements in an order and a stable sort come to | - |
| `Redaction` | `--redact`, as operators on paths, texts as sequences, findings, pairs and documents | `Sorting` |
| `Pairs` | the comparison of archives with the directories beside them, as operators | `Redaction` |
| `Documents` | documents built or read back, redacted, rendered and written by a sequence of commands | `Pairs` |
| `MCDocuments` | findings, archives and requests for `Documents` | `Documents` |
| `DocumentsProofs` | theorems about `Documents`, `Pairs` and `Redaction` | `Documents`, `FiniteSums` |
| `FiniteSums` | lemmas: induction over finite sets, sums over them, places in an order | - |

Definitions whose comment begins with "Mutant of X" are broken variants of `X`;
nothing in the specifications uses them. Each shows, put in the place of `X`, that
a property can fail.

### Walk

A worker's `pc` says where in `Pop` and `expandDir` it is: `pop` (about to take
the queue's lock), `wait` (in `cond.Wait`), `check` (`ctx.Err` and the depth
cap), `readdir`, `expand` (entries still to be stat'ed in `todo`, subdirectories
still to be queued in `subdirs`), `push` (counted by `pending.Add`, not pushed),
`signal` (pushed, lock released, `cond.Signal` to come), `exit`. Between any two
of these other goroutines can act, so each is a step. `Done` is the action after
`expandDir` returns on every path, early returns included. The closer's three
steps are the return of `pending.Wait`, the locked assignment in `Close`, and
the `Broadcast`. After all workers have exited `RollUp(d)` visits the tree
bottom-up, and `Return` takes the capped sample of denied directories.

A directory's entries are taken in any order and one size stands for logical and
allocated size, which the code adds up side by side. `Unreliable` are the paths
whose `ReadDir` or `Stat` may, at each call, fail. `queued` is a history
variable: the directories ever counted.

### Index

The rows are a function from indexed paths to records. A row's id is the pair of
its run and path (ids are never reused, and a run inserts a path once), so that
`parent_id` is represented by the run of the parent's row: a dangling reference is
a parent whose row has another run by now, or none. A call is `Scan` or `Rescan`
(the walk: any reading of the disk, with some directories skipped and any link
of an inode the counted one), for a rescan `LookupNode` or `LookupNothing`, then
the transaction, `IngestScan` or `Replace`, or `Fail`. The transaction is one
action: its first statement is an INSERT, which takes SQLite's write lock, and a
failed one is rolled back. The lookup is an action of its own because the code
does it outside the transaction. `Change` is the disk, changed by others at any
time.

`Below[p]` are the paths under `p/`, `LikeAlso[p]` those that only
`LIKE 'p/%'` matches, because `p` holds a wildcard.

### Collapse

`covered` is the map, `todo` the entries the current pass has not reached.
`Replace` puts a directory in the place of its children; the directory may or
may not be produced in the same pass, as Go leaves open. `attached` are the rows
with a `parent_id`: a directory recorded by a scan or rescan of its own has none. The
properties speak of two coverings: along `parent_id`, which is what the code goes by,
and by path, which is what a deletion goes by.

### Attribution

`pc` is the detector that runs next. `KnownLocations` reports all its paths at
once; `ManagedBundle`, `Installer` and `Unexplained` are one turn each of the
loops of their detectors, over the rows `todo` that the query returned, the largest
first; `ArtifactFamilies` reports the families in one step, which range over a map
and do not depend on each other. `Hotspots` leaves the two archive detectors out
and chooses its own limit. `ExcludeExplained` is `excludeExplained`, `Report` the
cut with its account of what it removed; `Tiers` is what `SavingsFrom` adds up.
`Fail` is the error any query or listing may return.

`found` and `unknown` hold all findings; `Shown` are those that pass the filter.
`evidence` keeps what was found out about each archive: whether a newer app is
installed, and what its listing yields (nothing for a format that is not read, a
failure, or the number of files and bytes). What a name says of a file, such as
its version family or a word that suggests a backup, is a constant.

The index is at rest and no name holds a LIKE wildcard; `Index` is about what
happens otherwise. The assumption on it, that a directory's total is the sum of the
files below it that are no second links, is `RollupConsistent` there, which an
undisturbed sequence of scans and rescans keeps, as long as every row but a scan's
root is linked to its directory: a path that was rescanned before it was indexed is
in no total above it, and a report over such an index is not modelled. The registry's paths do not lie
in each other, nor in a bundle, as in `knowledge/default.go`.

`IsNext` takes the outer of two directories of one size first. For unexplained
directories the detector sorts so; for bundles the query orders by `subtree_allocated`
alone, which SQLite answers from the descending index on that column
(`index/schema.go:50`), and of equal entries in the order of row ids, which a
directory gets before what is in it (`index/db.go:249-251`).

### Queries

`Queries` adds one variable, `reader`, to those of `Index`: a call that is being
answered, with the queries it has still to make (`todo`), the rows it will show with
the run each is of, and the run that dates it. `Ask` is the first query of all four
calls; `Row_` and `Run_` are the two of `freshness`; `Known` looks a known location
up; `Top` is `Largest`; `Locate` and `List` are the two queries of `Children`, and
`List` also the loop of `expandChildren`, which drops small rows and puts the
directories it will open before what is left of `todo`. Between any two any action of
`Index` may happen. `Abandon` is an error of any query, such as a row that has gone.
`Plan` is the order of the queries: a summary keeps the row it reads first, a report
reads its row for the date last. `linked` is kept with a row for `DatedByOldest`: whether
it hung from the root by its `parent_id`s when it was read.

### Progress

`Progress` lets the display's goroutine take its steps between those of `Walk`: `Tick`
and `SeeDone` are the two cases of its `select`, `LoadScanned`, `LoadQueued` and
`LoadFiles` the three atomic loads of a redraw. `CloseDone` and `WaitDone` are the two
halves of the stop function. `display = "none"` is a stderr that is no terminal.

### Redaction, Pairs, Documents

A path as it is written is a form: plain, abbreviated to `~`, or a token. A form that is
no longer plain is under no prefix, and a token and a `~` are left as they are when a
document is redacted again.

A text is a sequence of pieces, cut so small that whatever a pass can find in it is some
of its pieces: `/`, a blank, `work`, `shop`, `.zip`. `Passes` are those of the code in
its order: one for each deny prefix, one for each fragment, the longest first, one for the
home directory; `text` lets each work on what the one before left. `Matched` is what a pass
finds, from left to right: the pattern anywhere, also in the middle of a name
(`/work` in `/workshop`), and for a prefix what continues it as a path up to a blank, a quote or
the like (`Stops`). What is found becomes a mark for each piece, so that a text keeps its
length and the places of what is left in it; a run of marks is one `<redacted>` of the
program's. Limits of this: no name occurs in the words `<redacted>` and `~`, no home
directory is empty, and the paths of a scenario, which go as those of the finding do,
are not kept apart. Fragments of one length go in some order, as `sort.Slice` leaves open.

A candidate of `Pairs` is an archive's row with the row beside it: its format, its
members by type, sidecars, a photo library and its originals, and the files the index
has in the directory.

In `Documents` a command is loaded (`LoadDocument`: `Build` or `Parse`, then redaction),
renders all it will write (`RenderAll`), and truncates and writes each file
(`Truncate`, `WriteFile`). It fails at any of these, and `End` is its return or an
interrupt at any point. What the detectors find (`Results`) may differ from command to
command. `Rows`, `Worklist` and `Page` are the renderers, `Mini` the hotspot tables.
`review` opens its file before it renders; a failure between the two leaves the same
file as one in the write, which is in the model.

## Runs

| Run | Module, cfg | Shows | States |
|---|---|---|---|
| `walk` | `MCWalk`, `MCWalk.cfg` | the walk never hangs, never ends early, and returns exact totals, states and counters, with three workers, failures and a cancellation at any time; it implements `Traversal` | 47 000 |
| `index_two` | `MCIndex`, `MCIndexTwo.cfg` | two processes: parents and runs survive every interleaving, also when a file turns into a directory and a name is misread by LIKE | 257 000 |
| `index_race` | `MCIndex`, `MCIndexRace.cfg` | violation: totals drift | |
| `index_like` | `MCIndex`, `MCIndexLike.cfg` | violation: rows elsewhere are deleted | |
| `collapse` | `MCCollapse`, `MCCollapse.cfg` | the loop ends, in every order, with the highest directories whose linked leaves are covered, and covers more than the finding only below an unparented row | 5 300 |
| `attribution` | `MCAttribution`, `MCAttribution.cfg` | for every query, filter and evidence: nothing is reported twice, an archive is in exactly one finding, a remainder is what no detector claims, the tiers add up, and no recommendation goes beyond the evidence | 126 000 |
| `attribution_links` | `MCAttribution`, `MCAttributionLinks.cfg` | violation: findings exceed the folder | |
| `queries` | `MCQueries`, `MCQueries.cfg` | one process writes: totals agree and calls stay in their subtrees after any three recorded scans and rescans of a changing disk; and of what another reads meanwhile a tree shows nothing older than its root, a summary nothing below its row older than its date, a result of a complete run nothing incomplete but what was measured later, and the least size of a tree hides nothing as large | 1 201 000 |
| `queries_date` | `MCQueries`, `MCQueriesDate.cfg` | violation: rows behind a result are older than its date | |
| `progress` | `MCProgress`, `MCProgress.cfg` | the display never shows more than all, ends on the final counters, and the command that waits for it ends | 95 000 |
| `documents` | `MCDocuments`, `MCDocuments.cfg` | documents add up, renderings are complete, redaction hides and is stable, files are whole or untouched but for one, and extracted archives are recognised | 513 000 |
| `documents_tail` | `MCDocuments`, `MCDocumentsTail.cfg` | violation: the tail of a denied name with a blank in it stays in a text | |

Bounds, and why they are enough.

* `walk`: three workers are the fewest with one asleep, one pushing and one
  popping at once. The tree has a directory with two subdirectories to queue, one on
  another volume, one priority path behind an ordinary one, one directory at the
  depth cap, and two links of one inode in directories that two workers read at
  the same time. The worker names are kept apart (no symmetry) because liveness is
  checked.
* `index_two`: `MaxRuns = 3` recorded runs, at three nested levels (`top`, `a_b`,
  `sub`): a scan above, a rescan inside and a rescan between. Two processes interleave,
  and one path changes its kind, beside a name with an underscore; one size, as it checks
  no totals.
* `collapse`: three levels, a directory that becomes collapsible only after its
  own subdirectory was collapsed, every subset of five files and of the
  unparented directories. A finding has several paths only if it is an artifact
  family, whose paths are files; the run allows any files.
* `queries`: one reader and one writer, so that a call of the reader has any number
  of scans and rescans between its queries, of any of three nested directories, up to
  three recorded runs: a scan above, a rescan inside and one between. The middle
  directory comes and goes with all in it, and so does a file at the lowest level, which
  also grows; two files at different levels are links of one inode; one known location,
  which may have gone. Trees end after the first level or show all; a limit of 1 and
  least sizes of 1 (which drops what is empty) and 2 bite.
* `progress`: two workers and three directories, one of which may fail: a redraw of
  three loads fits around any of their steps. A third worker or a deeper tree adds no
  new order of the two counters; the theorem has all of them.
* `documents`: two commands, the first of which may leave files for the second to
  read: an export or a report, then a report or a review of the saved document, with
  the same or other prefixes or none. Findings of every tier but one, two of them
  equal in size and in either order, two missing from the disk, a family whose texts name its
  members, a cut that drops some; names long enough to be cut out and too short, one with a
  blank in it, one that begins with another and one that begins like a denied
  directory that it is not in; texts with a denied path below the home directory, a
  name twice, a name after a slash, and the path of another finding. One prefix, none, and
  two of which one is a file. The
  archives take every subset of six kinds of members, as a zip and as a tar, beside a
  directory with one file more or less, or the same; one too large, one unreadable, one
  of no known format.
* `attribution`: one tree in which all detectors meet, drawn in `MCAttribution`: a
  bundle in a known location, a bundle that is all of another, an archive in a
  bundle, a family with a member named like a backup, an archive beside its
  directory, a disk image beside a known location, and bytes nothing explains.
  Every path is queried, also those inside bundles and known locations. The index
  may lack a family's second member and a file of the extracted directory, and
  three placements of second links are tried; an archive's listing may have fewer,
  as many or more files than the directory. Sizes are small and often equal, as
  ties are where the order matters. The cut for unexplained directories is 2 and
  the limit 1 or 2, which both bite.

Fairness. `Walk` has weak fairness on each worker, on the closer and on the
caller: Go's scheduler runs every runnable goroutine, and system calls return.
Cancellation is never forced. A worker that competes for the queue with others
need not win, so strong fairness is not assumed, nor needed. `Collapse` is a
sequential loop, weakly fair in its next step. `Progress` keeps `Walk`'s
fairness and adds weak fairness of the display's loads and of the command, and strong
fairness of `SeeDone`: a tick may be due whenever the goroutine is at its `select`, and
Go picks at random among the cases that are ready, so that a closed channel, which stays
ready, is picked in the end. With weak fairness the display could redraw for ever.
`Index`, `Queries`, `Attribution` and `Documents` state no
fairness: they have no liveness property, as a call may always fail.

Only `documents` disables the deadlock check: it stops after `Commands` commands.
`Walk`, `Collapse` and `Attribution` stutter explicitly once they have returned, the
display stutters with `Walk`, and the disk of `Index` always may change.

## What the violations say

1. **A stale lookup** (`index_race`). `Rescan` reads the old total before its
   transaction. If another process rescans the path in between, the change is
   added to the ancestors twice. With one process `RollupConsistent` holds.
2. **LIKE** (`index_like`). `deleteSubtree` matches `path/%` unescaped.
   Rescanning `a_b` deletes what lies below `aXb`. Theorem `RescanIsLocal` says
   this is the only way a call reaches beyond its subtree.
3. **Linked archives** (`attribution_links`). The second link of an inode is in no
   total, but `FilesByExtensions` lists it, so that an archive with two links is
   reported with its size twice. `TiersBounded` says that this is all: the findings
   hold no more than the folder and its claimed links.
4. **Dates** (`queries_date`). "Freshness says when the data behind a result was
   measured" (`service/freshness.go:14`). `IngestScan` of a directory above one that was
   scanned before leaves the rows of what has gone from the disk since; queries by path
   find them below the new root, and they are older than its date. So are rows that a
   report read before another process recorded the run that its date is then taken from.
   `DatedByOldest` is what holds: rows that hang from the row that dates a result are no
   older, unless something was recorded during a report.
5. **Tails** (`documents_tail`). In a text about a denied path the pass over the prefixes
   takes the path up to the first blank, quote, comma or the like in it
   (`redact/redact.go:58`), and the pass over the fragments, which comes next, finds neither the
   path nor its base name any more: of `open <dir>/Old Stuff.zip: ...`, the detail of a pair
   that could not be read, `Stuff.zip` stays, though such texts are to be "scrubbed whole,
   not just up to the prefix" (`redact/redact.go:33-35`). With the fragments first the whole
   name would go. `Redacted` says what holds: neither the path nor its name is there whole.

Seen while modelling and without a run:

* An entry that cannot be stat'ed is counted in `DeniedPaths` and dropped
  (`scan/walk.go:170`), and its directory becomes complete all the same, which
  `scan/node.go:23-24` says of subtrees "fully" measured. `StateExact` is what holds:
  complete means that every recorded directory was read.
* `IngestScan` only inserts, and `path` is unique: a second `scan` of a root walks
  everything and fails (`index/db.go:85`), though the staleness warning recommends it
  (`cmd/diskwise/util.go:212`). `rescan` works.
* A rescan of a path not yet indexed, below a directory that is, records it without a
  parent: neither the totals above know of it nor `Collapse`, which then emits its
  parent although it holds more than the finding (`rollup/rollup.go:49`, against
  `rollup/rollup.go:12-16` and `docs/guides/reclaiming.md:50-53`). `CoversExactly` is what the
  comment says, and false in the instance of `collapse`; `CoversTheFinding` is what holds: all
  that is covered beyond the finding lies below a directory without a `parent_id`.
* `withBundleRoots` looks at and below the query's path only
  (`detect/managed_bundle.go:109`): a query from inside a bundle reports the archives and
  large directories there, which one for a directory around it does not
  (`docs/guides/reclaiming.md:94`).
* A rescan that is denied a directory leaves the scan above it `complete`, as it changes
  no state or status above its path, where `docs/guides/scanning.md:38` says "**status** is
  `complete` only when every directory was measured". `StatusOfAll` says so of a summary
  and is false in the instance of `queries`; `StatusOfItsRun` is what holds: what such a result
  shows incomplete is of another run, and a later one if it hangs from the root.
* Totals that two processes have left too low (`index_race`) make a tree drop a
  directory, and with it what is as large as asked for (`service/tree.go:63`, against
  `docs/guides/scanning.md:54`): `NothingLargeHidden` is false with two processes on a disk where a
  file at the lowest level comes and goes. One process keeps it, and any number of them
  that do not write between each other's lookup and transaction (`NothingHidden`).
* The limit of `LargeUnexplainedDetector` counts directories that `excludeExplained` then
  drops, so that smaller unexplained ones are not shown
  (`detect/large_unexplained.go:79`).
* A path that was indexed as a file and is rescanned as a directory adds its whole size
  above, as the file's subtree total is zero (`RollupConsistent` fails in `queries` if
  `Retyped` holds `h`).
* Hard links are recognised within one walk only, so a rescan counts an inode again
  whose other link lies outside; a tree shows duplicates with their sizes.
* `DirsQueued` does not converge with `DirsScanned`, as `progress.go:18-20` has it, when
  directories are denied or deferred (`StatsReconcile` gives the difference).
* "Render everything before writing anything, so a failure cannot leave a half-updated
  set of files" (`cmd/diskwise/export.go:47-48`) is true of a failure to render. One to
  write the second file leaves the first one new, and the second truncated: the middle
  disjuncts of `FilesInOrder`. `review` truncates its file before it renders.
* The order of a report's rows is total (`report/report.go:80-82`) unless two families in
  one directory have the same tier and size, as both rows then have one path; the sort is
  stable, so that the order is then the index's.
* Redacting with `--redact` and then reading the saved document back with
  `--redact-prefix` for a directory below home redacts nothing there
  (`redact/redact.go:83`): its paths now begin with `~`, and prefixes start at the root. "One
  saved document can produce a shareable copy" (`docs/guides/sharing.md:37-42`) holds of
  documents saved without redaction. `SavedRedacted` says it of all, and is false in the
  instance of `documents`; `Redacted` promises a token for every denied path of documents built
  from the index only.
* The worklist says of the findings that no longer exist that they are "marked below"
  (`report/markdown.go:89`), and counts those with them that the cut has omitted: the last
  conjunct of `Accounted`.
* A deny prefix is found in a text also where a longer name begins like it (`work` in
  `workshop`), where `redact/redact.go:40` promises segment boundaries: more is cut out than
  need be.
* Links count as members of a zip and not of a tar, and the index has no links among a
  directory's files: a zip with links "has more" than its extraction. `IsExtraction`
  leaves these out. Sidecars indexed in the directory are counted, those in the archive
  are not. The photo-library comparison is chosen by the archive alone, where
  `archive_pair.go:79-82` has "either side".
* `--max-compressed 0b` gives the default cap and not none, as the text "0" is tested
  (`cmd/diskwise/pairs.go:37`).
* `Parse` reads the first JSON value of a file and ignores what follows.

## Proofs

For arbitrary constants under the modules' assumptions: any finite tree, any
number of workers or processes, any failures. Every invariant that a passing run
checks is a theorem, and so is every action property (`NoAddFromZero`,
`PriorityFirst`, `RescanLocal`, and the steps of `Traverses`). Four theorems say in their
hypotheses what the code itself does not see to: `RescanIsLocal` (`NoWildcards`),
`TotalsAddUp`, `EachArchiveOnce` and `NothingHidden`, below. The assumptions that only proofs need are
that directories are finite and none is below itself (`Walk`), that no directory's
entries add up to 2^63 bytes (`PriorityAssumption`), that paths, rows, archives and
members are finite, and that findings are what the detectors make (`IsFound`).

**Sums** (`FiniteSums`). Induction over a finite set is by a smallest counterexample
(`SmallestSet`), a set of sets in the place of a predicate, as the library's induction
theorems take an operator. From it, what the sums of the modules are: the sum of a
union, of a set less an element, of an image, of sums (`SumUnion`, `SumRemove`,
`SumImage`, `SumOfSums`), and that a total order gives the elements of a set the places
`0..n-1` (`Ranked`), which is what sorting rests on.

**Walk** (`WalkProofs`). The inductive invariant `IInv` adds to the types: what
each `pc` implies for a worker's locals (`Holding`); that a directory is in at
most one place, in the queue, with one worker, or about to be pushed by one
(`OnePlace`); that what is still to be found in a directory being read was
never found before (`Discovery`); that `pending` is the number of directories in
these places (`PendingCountsOutstanding`); and what the closer's progress implies
(`Closing`). None is inductive alone: the counter is exact only because no
directory is held twice, and that only because each is found once, which rests on
the tree. From it: `TypeCorrect` (the WaitGroup is never negative),
`PendingIsExact`, `DrainedWhenClosed`, `NeverAddsFromZero`, and `RefinesTraversal`, that each
step is a step of `Traversal` or leaves its variables alone.

* `NoneFallsBetween` (`EveryDirectoryAccounted`) needs `AInv`: a directory reached is
  read, marked with a reason, or still with somebody (`Tracked`); a worker settles what
  it holds before it lets go, and goes home only from a closed queue (`SettledFirst`).
* `WakeupsReachSleepers` (`NoLostWakeup`) is inductive with the queue's finiteness: a
  push adds a worker that signals, and a signal sends a sleeper in its place (`Coming`).
* `CountedOnce` (`LinksCountedOnce`) rests on `LinkInv`: nothing is recorded twice
  (`RecordedOnce`), and the inodes in `seen` are those of the linked files recorded, each
  with exactly one that is no duplicate (`Deduplicated`).
* `CompleteMeansAllRead` (`StateExact`), `RootTotalIsExact` (`TotalsExact`): a directory
  that was recorded is queued, on another volume or about to be queued (`Found`), one that
  was not read has a reason (`Marked`), and one that is rolled up has the totals and state of its children
  (`RolledUp`). Once the root is, the smallest set of directories for which the claim
  fails has a member whose children it holds of; that a directory's kept files are the
  disjoint union of its children's turns the sums of sums into one.
* `CountersAgree` (`StatsReconcile`): each counter is the size of a set of paths
  (`Counters`), and what was denied is what is marked so or was dropped (`Denials`).
* `PriorityPathsFirst` (`PriorityFirst`) is about the numbers in the queue (`QueueInv`):
  what a worker has added up with what it has still to look at is at most the
  directory's bytes (`Summed`), so that no ordinary directory reaches the rank of a
  priority path (`Ranking`); the root is there first and alone (`RootAlone`).

**Index** (`IndexProofs`). `IInv`: the disk is a tree (`DiskIsTree`); a
call in progress carries a tree below its path whose nodes lie in directories of
it, and a parent id that, if its row still is there, is a directory's (`Calls`);
every row lies at or below the root of its run (`WithinRun`). Each write is an
instance of `Writes`, a set of rows gone, a tree in, and totals corrected, so
that one set of lemmas serves `IngestScan` and `Replace`. The deletions take with
them everything below what they delete, whatever LIKE matches
(`DeletedIsClosed`); hence `ParentsAlwaysExist` and `RunsAlwaysNested` hold with wildcards
too, and only `RescanIsLocal` assumes there are none.

`RInv` adds what a walk's tree is in numbers (`Trees`: each total is that of the tree's
children, the recursions of `Tree` in closed form) and that a complete run's rows are
complete (`CompleteRuns`); `IndexTypeCorrect` is `[]TypeOK`. `TotalsAddUp` is
`[]RollupConsistent` under three hypotheses, each of which a run violates when it is
dropped: no wildcards (`index_like`), no path that was a file and becomes a directory
(`KindsKept`; under *Seen while modelling*), and no other call writing between a
rescan's lookup and its transaction (`Undisturbed`; `index_race`). The invariant is
`SInv`: what a rescan looked up is still in the index (`Fresh`), so that the delta it
adds to each directory above is what its replacement changes there. `OneProcessAddsUp`
shows that one process alone satisfies `Undisturbed`, which is what the run `queries` checks.

**Collapse** (`CollapseProofs`). A leaf linked to a child is linked to its
directory (`LinkedUp`), a leaf linked to a directory is linked to one of its
children (`LinkedDown`), so a replacement changes no leaf covered (`CoversLinked`, the
inductive part). `CoversByPath` goes over to paths: the files below a path of the map that
are no leaves linked to it lie below a directory without a `parent_id`. Hence
`CollapseCovers` (`[]CoversTheFinding`), and `CollapseTypeCorrect`. `CollapseHighest`
(`HighestDirectories`) needs that no two paths of the map lie in each other (`Apart`) and
that a pass that replaced nothing met every entry (`Settled`); that a directory all of
whose leaves are covered is then itself covered goes by induction over the paths below.

**Attribution** (`AttributionProofs`), for any tree, any index whose totals do not
grow downwards, any registry and any query. The property `NoOverlap` says nothing
of where a finding comes from, and is not inductive: that two findings are apart
follows from the conditions under which each detector reported its own. `IInv` keeps
these (`Origin`: each finding is one of the four kinds, with the claims its detector
checked; `UnknownShape`), and what the order of the loops gives: the rows a loop is
through with lie in none of those to come (`Descends`, which holds as totals are
monotone and ties go outermost first), so that no bundle reported lies in another
(`BundlesApart`) and no unexplained directory in another (`UnknownApart`).
`FoundApart` then goes through the pairs of detectors. `NoBytesTwice` is
`[]NoOverlap`, and `NeverBold` is `[]Conservative`, which rests on `EvaluateBounds`
(the policy never makes a proposal more aggressive, and its cap and threshold hold
of what it returns) and on `ArchiveBounds`, `FamilyBounds` for what is proposed.

The other half of `NoOverlap` is that nothing is left out. `CoverInv` keeps, of each
detector that is through, that what is its own is covered (`KnownCovered`,
`BundlesCovered`, `ArchivesCovered`); `EachArchiveOnce` is `[]ArchivesOnce` under `Closed`: no
directory is missing between two rows, as it can be after a rescan of a path that was
not indexed. `BytesInv` follows sizes: an unexplained directory is found with its whole total
(`SizeInv`) and reported with what is left of it (`RemaindersExact`, which is
`[]RemainderExact`: the findings in it are apart, so that subtracting them one by one
subtracts their union). `TotalsBounded` (`TiersBounded`) adds the tiers up, and all findings
to no more than the folder and the second links that are claimed by themselves.

**Queries** (`QueriesProofs`), over the invariants of `IndexProofs`. `TreeInv`: every
directory a tree has yet to list is, if it is indexed at all, of a run no earlier than
the root's, and so is the row that was just located. It is inductive because a writer
only ever replaces a row by one of a later run (`RowsOfLaterRuns`), and because a child
found by `parent_id` is of a run no earlier than the row with that id, which
`RunsNested` says of rows that are there and ids are never used twice. `TreesNotOlder`
is `[]TreeNotOlder`, for any index and any number of writers. `DateHolds`
(`DatedByOldest`) keeps what hangs from the row that dates the result, for the calls that
read it first, and for a report as long as nothing is recorded (`DatedInv`). `StatusHolds`
(`StatusOfItsRun`) adds of each row read what it was in its run (`SeenInv`): with a complete
run an incomplete row is not of it, and by `DatedInv` of a later one if it is linked.
`NothingHidden` (`NothingLargeHidden`) is about a tree made while nothing is recorded, under
the three hypotheses of `TotalsAddUp`: where totals add up, a row as large as asked for that is no
second link has only larger ones above it (`LargerAbove`), so that each is shown, listed
next, or below one that is (`HiddenInv`).

**Progress** (`ProgressProofs`), over the invariant of `WalkProofs`. `DirsScanned` is the
number of directories read, `DirsQueued` of those counted by the WaitGroup
(`Counters`), the first are among the second, and neither falls; hence what is loaded
first bounds what is loaded next (`Drawing`). `FractionIsAtMostOne` is
`[]FractionAtMostOne`. `LastShownIsTheResult` is `[]LastShownIsFinal`: the workers have
exited when the walk returns, so that the counters are final, and the last redraw starts
after that (`RInv`).

**Documents** (`DocumentsProofs`). `FInv` follows each file from the one before the
command to the one written, with the names of a command's outputs apart
(`OutputNames`); `FilesAlwaysInOrder` is `[]FilesInOrder`.

Filters and sorts choose indices, each once (`Lists`): `WhereLists` and
`StableSortLists` say which and in what order, `ListedSum` and `ListedOccurrences` what the
chosen add up to and how often an element is among them. `DInv` is about every document
there is, in memory or in a file: it is one (`IsDocument`), it stands for some
findings that neither redaction, a cut, saving nor reading back loses (`StandsFor`), and no
text names what is a token (`Unnamed`). For texts, `MatchedFacts` says of the recursion over
places what a pass finds: every occurrence begins at a place taken, and each place taken
lies in the match of one;
`ReplacedFacts` that a pass leaves nothing it looks for and makes the text only coarser
(`Coarser`: more marks, all else in place), so that what one pass has removed does not come
back in a later one (`CoarserShows`; `StagesFacts` for all passes in turn). The
abbreviation of the home directory is the exception, as it makes a new spelling appear:
`Abbreviated` shows that a text without a prefix and without `~` gets no abbreviated prefix
by it. That redacting again changes nothing is then that no pass finds anything
(`TextUnchanged`). `RedactionHolds` is about any document and any list of prefixes, and
`DocumentsRedacted` (`Redacted`) about those the commands render; `DocumentsAccount` is `[]Accounted`,
`DocumentsRendered` `[]RenderingsComplete`. `ExtractionsRecognised`
(`VerdictOfExtraction`) compares the listing of an archive with what is beside it.

Only model-checked: liveness (`WalkReturns`, `CollapseReturns`, `CommandEnds`, the fair part of
`Traverses`), which the prover cannot do. That two processes stay in their subtrees is
proved only (`RescanIsLocal`); `queries` checks it for one.

## Not modelled

* The `volumes` table, timestamps, modes and names of nodes: no property here
  depends on them. A run stands for the time its scan finished.
* `OnComplete`, which no caller in the repository sets, beyond the set of
  directories it would be called for (`rolled`).
* Errors of the queries in `Collapse`: the call is abandoned without effect.
* In `Attribution`: how names are parsed, the scenarios of a family, the limit
  of 1000 or more directories that the last detector fetches, and the marks for paths
  that are gone, which are `missing` in `Documents`. A report over an index that others
  change is in `Queries` with two of its queries for all of them.
* In `Documents`: two commands at a time on the same files, freshness and texts other
  than those that redaction changes, the syntax of JSON, HTML and spreadsheets, and the
  redacted shapes of other commands' results, which apply the same functions.
* `insights`, which renders a document that another program wrote; preflight, which
  compares one number of the system with one of the user; platform calls, flags,
  printing, the MCP skeleton and build tools: they have no state or decision worth a model.

## Plan

Done: all of the modules above. What would add most, in this order:

1. Hard links across runs in `Index`: totals over inodes, and what a rescan does to them.
2. `Collapse` and the detectors of `Attribution` over the changing index of `Queries`.
3. Two commands at once on the files of `Documents`.
4. Proofs: `TotalsAddUp` under less than `Undisturbed`, with other calls on paths that
   are neither at, above nor below the rescanned one.
