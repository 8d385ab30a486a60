# Atlas Reader: a TLA+ model of the library

Atlas Reader is a desktop PDF library (C++20, Qt, SQLite). Its program logic is
the library: it scans folders, keeps a durable index of the books it found,
and keeps a person's marks (favorites, recents) attached to the right book when
files are moved, renamed, copied or replaced. This directory holds TLA+ modules
that model that logic, TLC configurations that check them on small instances,
and proofs that hold for every instance. The repository also holds the programs
by which its authors qualified two PDF engines, and a shell that records metrics
of its own start: modules model those as programs whose reports have to be true.
Paths below are relative to the repository.

## 1. The system

| Component | State | Operations | Talks to |
|---|---|---|---|
| Identity policy `src/core/index/DocumentIdentityReconciler` | none | `reconcileDocumentIdentity` | called by the store |
| Library store `src/app/index/SqliteLibraryIndex` | five tables, durable; one mutex | roots, scans, observations, records, marks, proposals, queries, migrations on opening | SQLite |
| Scan service `LibraryScanService` | local to one `scan()` | begins a scan per root, inspects and observes each path, finishes or cancels | scanner, identity provider, store |
| Directory scanner `LibraryScanner` | local to one `scan()` | depth-first listing with limits, batches, cancellation | enumerator |
| Ingestion service `LibraryIngestionService` | local to one `ingest()` | turns discoveries into proposals and records | scan service, store, PDF inspector |
| Adapters `NativeFileIdentityProvider`, `NativeLibraryEnumerator`, `QtPdfDocumentInspector` | none | read the disk | operating system |
| Library controller `src/app/library/LibraryController` | the shown list, flags, `refreshRevision_`, `cancelled_` | scan, add root, review, mark, search, shut down | one worker thread (FIFO), one pool task (ingestion), the GUI thread |
| Start-up `main.cpp`, metrics `ShellMetrics` | stages of the start, timers of the resize exercise | record metrics, screenshot, quit | render thread (frames), event loop |
| PDF tools `tools/pdf` | handles of an engine; a queue and two condition variables (stress); a list of failures | open, extract, search, render, compare, report | PDFium or Qt PDF |
| Logging, metadata policy, QML | none that matters | text, layout | controller |

Three threads meet at the store: the GUI thread never calls it, the worker
thread runs reviews, marks and snapshots, and a thread-pool task runs an
ingestion. The store's mutex makes each call atomic and nothing makes two calls
atomic. The disk is changed by anyone at any time. The program may stop at any
point; only the store survives.

What is hard here, and what correctness means:

* **Store.** Scan generations order scans whose calls may arrive late; evidence
  is recorded when a move is proposed and rechecked when it is applied. A
  superseded scan must not overwrite a newer one; a book may change place only
  when that is proven at that moment; a refused operation changes nothing;
  search follows every change of a file name.
* **Identity policy.** Only a proven, identity-preserving move authorizes.
* **Scan and ingestion.** Files change between being listed, inspected and
  observed; a review runs between two store calls; a stop or a cancellation
  comes between any two. Every book must keep exactly one place, nobody is
  asked twice about one candidate, and a later undisturbed ingestion must heal
  whatever was left behind. Every ingestion must end.
* **Scanner.** A listing cut short must never count as complete.
* **Controller.** The last request must win; quitting must not hang, and must not
  leave undone what was asked for, whatever state an ingestion is in.
* **Opening a profile.** An upgrade interrupted anywhere, or run by two
  processes, must end in one consistent schema.
* **Evidence.** A tool that reports success must have had no refusal but those it
  is known to pass over, must have done all the work it counts, must not leave
  handles open on any early return, and must end; a metric must be of what was measured, although frames,
  timers, a closed window and a quit come in any order.

`PROJECT.json` lists each hazard with its line and the properties that cover it.

## 2. Modules

```
DocumentIdentity                      the pure policy       LibraryIndexProofs
   |
LibraryIndex -- refines --> BookShelf the store             LibraryIndexProofs
   |       \
   |        MCLibraryIndex
LibraryIngestion                      scan and ingestion    LibraryIngestionProofs
   |                                  over the store
MCLibraryIngestion

LibraryScanner -- MCLibraryScanner    the traversal         LibraryScannerProofs
LibraryController                     the three threads     LibraryControllerProofs

ProfileSchema                         the migrations
   |
SchemaMigration -- refines --> ProfileUpgrade                SchemaMigrationProofs,
                                      opening a profile      SchemaMigrationPromises

PdfEngineCalls   PdfiumStress   OutlineWalk   QtPolling   ShellLifecycle
       \              \             |            /             /
                      QualificationEvidence                  QualificationProofs,
                                                             PdfEngineProofs
```

* `DocumentIdentity`: `AnySimilarity`, `SamePathDecision`, `NewPathDecision`
  and `ReconcileDocumentIdentity` are `reconcileDocumentIdentity` and its
  helper. An `std::optional<bool>` is "yes", "no" or "unknown".
* `LibraryIndex`: the store. A table is kept by columns, each a VARIABLE; a row
  of `document_locations` is a place, `<<root, path>>`, with `owner`, `identity`
  and `lastSeen`. One action per operation, with the operation's refusals as
  guards: an operation that throws rolls back, so it is no step. That SQLite
  does roll back is taken for granted here; `SchemaMigration` models the
  transaction of a migration, statement by statement. The FTS
  triggers run inside the statement that fires them (`WriteText`). Callers are
  unconstrained: any caller may hold any scan generation, which covers callers
  that are late or superseded.
* `BookShelf`: the promise. A shelf of books changes only by shelving a book at
  a free place and by relinking through a diff that was recorded as relinkable
  and open; a diff is decided once; marks change only by marking.
* `LibraryIngestion`: an ingestion over `LibraryIndex`, one step per store call
  (with the disk reads just before it), with its locals as variables:
  `StartIngest`, per root `BeginRoot`, `List`/`Skip`, `PublishOne`,
  `FinishRoot`/`CancelRoot`, then `ReadPendingCandidates`, per discovery
  `SkipDiscovery` or `MatchDiscovery`, `Propose`, `Create` or `CreateFails`,
  `Identify`, then `EndIngest`. Around it: `Review` (the worker thread),
  `Cancel`, `Throw` (exceptions that leave `ingest()`), `Stop` (any end of the
  process) and the disk: `WriteFile`, `RemoveFile`, `RenameFile`, `LinkFile`.
  The directory traversal is abstracted to reaching the PDF paths of a root in
  any order, any of which may be unreadable.
* `LibraryScanner`: `scanRoots` and `scan`, one step per entry the enumerator
  reports. `BeginScan` starts a root, `OpenDirectory` pops the stack,
  `VisitDirectory`, `VisitPdf`, `VisitInaccessible`, `VisitIgnored` and
  `StopAtEntry` are the visitor's cases, `CloseDirectory` is what follows
  `forEachEntry`, and `EndScan`, `CancelScan` and two disjuncts of
  `CloseDirectory` are the returns. A path is a root and an entry, and
  `LibraryPathKey` is the entry with what normalization leaves of the root's
  spelling (`Spelling`): roots may be spelled alike or, by way of a link or a
  letter outside ASCII in another case, not. The tree is arbitrary and
  stays as it is during a call; reading it may fail at every directory and
  entry. The check of a popped directory's depth (line 65) is left out because
  it can never apply: `WithinLimits` says so and is proved.
* `LibraryController`: the interface thread's calls and events, the worker's
  tasks and the pool's ingestion, with both event queues as sequences. The
  store is a version that grows with every write and a set of roots; any call
  of it may throw. A snapshot is four calls, each at another version. The
  destructor is `Quit`, `WaitForScan` and `RunDeleteContext`, or, if the future
  holds the exception of an ingestion that threw, `Quit` and `Rethrow`:
  `waitForFinished` throws it again in a destructor, and the process is
  terminated (`Alive`: no thread takes a step after that). What Qt does is
  modelled as the code relies on it: queues are first in first out, a new
  future on a watcher discards what the old one had still to report, a future
  keeps its exception until another takes its place, and it is finished
  (`EndIngest`) a moment before its watcher is told (`ReportFinished`).

* `ProfileSchema`: the four migrations as data. A statement is the name it takes
  and the table it needs, which is all that decides whether it succeeds.
* `SchemaMigration`: the store's constructor, run by several processes on one
  file, since nothing in `main.cpp` keeps a second instance out. One step per
  statement: `ReadApplicationId`, `ReadVersion`, then per migration
  `BeginMigration` (waits for the write lock), `RunStatement`s or
  `MigrationFails`, `RecordVersion`, `Commit`, then `Identify` and
  `SetJournalMode`. `profile` is the committed database and `uncommitted` is
  what the writer sees of it; `version` and `storedApplicationId` are the locals
  the code decides by. `StatementFails` covers the disk and SQLITE_BUSY after
  the five seconds of `sqlite3_busy_timeout`, `Die` an end of the process, and
  `RemoveConflict` what the retry test does by hand.
* `ProfileUpgrade`: the promise. One whole migration with its version at a time,
  the application id once the schema is current, nothing at all to a profile of
  another application or a newer Atlas.

* `PdfEngineCalls`: the PDF tools over engine handles. Each function of a tool is a
  table from a label to what is done there (open a handle from another, use it,
  close it, loop, call, branch) and the labels that follow on success and on
  refusal; one action per kind of step runs the tables on a stack of frames. A
  refusal is reported by the routine that met it and, through `Return`, by its
  callers. A call is refused when it answers null, false, a negative number, an
  empty size or text, or fewer bytes than it has just announced; an answer that
  ends an enumeration is the end of its loop. Calls that cannot be refused or
  give no answer (`FPDFBitmap_Destroy`, closing) are left out. A refusal that the
  tool ignores is a `Quiet` step, one for several such calls in a row, and
  `Unreported` names them all; of two assertions in a row about one page or hit, one
  `Use` is kept.
* `PdfiumStress`: the three kinds of threads of `pdfium_stress`. A section under a
  mutex is one step; waiting on a condition variable is checking and falling
  asleep in one step; a notification wakes a sleeper and is lost otherwise.
* `OutlineWalk`: `collectBookmarks` of `pdfium_probe`, its recursion as the stack
  `enclosing`, over an arbitrary graph of references.
* `QtPolling`: the three loops in which Qt tools wait for hits, against an engine
  that finds them at any time, or pauses for any time, and a clock in ticks; a turn
  of a loop may take any time too. `foundAt` is history: when each hit was found.
* `ShellLifecycle`: `main()` in stages, and `ShellMetrics`: `OnFrameSwapped` is
  queued by the render thread, `StartResizeBenchmark`, `ResizeTick` and
  `FinishResizeBenchmark` fire from timers, and so do the screenshot and the quit.
  The delays themselves are left out: an armed timer fires at any later time.
* `QualificationEvidence`: a behaviour runs one tool, or one part of one, or the
  shell.

How they fit: `SchemaMigration` ends in the schema that `LibraryIndex` starts
from; `LibraryController` starts at most one ingestion, which is what
lets `LibraryIngestion` model one; `IngestionEnds` is what lets the controller
assume that its pool task ends; `LibraryIngestion` lists a root by reaching its
paths in any order, any of which may be unreadable, and `LibraryScanner` shows
that an outcome "complete" is given only to a listing that left nothing out.

A definition named `Operation_Defect` is the operation with a plausible defect.
No specification uses one; each shows that some property can fail.

### Data that is abstracted

Ids, paths, names and filesystem identities are model values. Title and author
are left out of the text columns, and so is `documents.availability`: no
operation here decides by them. Timestamps are left out except that a completed
scan has one and no other outcome has (`FinishRootScan`). `permission_denied`
exists as a root state because the schema has it, although no scan sets it. A
proposal's row keeps its content forever, as in the code. In the ingestion, paths
that libraryPathKey folds together are one path, and paths of other spellings are
different names of one object, like links. In the PDF tools a handle is its name, and text,
coordinates, pixels and timings are what a `Use` may refuse.

## 3. Properties and runs

| Run | Checks | Bounds |
|---|---|---|
| `moves` | `ScanEvidenceOrdered`, `RelinkAuthorityIsBacked`, `BooksMoveOnlyWhenProven`, `LinkedBooksStayLinked`, `NewerScanWins`, `SupersededMovesNeverApply` | 2 roots with 1 path each, 2 books, 1 proposal, 2 scans each |
| `documents` | `RowsRefer`, `SearchMatchesDocuments`, `ImplementsBookShelf` | all operations, 2 paths, 2 books, 1 scan |
| `stops` | `IngestionTypeOK`, `EveryBookHasItsPlace`, `OnePendingPerCandidate`, `StoredIdentityIsFixed` | 1 root, 2 paths, 2 objects, 3 books, 3 scans, 2 disk changes |
| `overlap` | `QuietIngestSettlesTheDisk`, `SurvivorsMoveOnlyToLinks`, `IngestionEnds` | a root nested in another, 2 paths, 1 object that may get several names, identities that may be unreadable, 3 books, 2 scans of each root, 1 disk change |
| `scanner` | `OutcomesAreTrue`, `EveryFindIsHandedOnOnce`, `WithinLimits`, `CancelIsPrompt`, `ScanEnds` | every tree of 3 directories, 2 PDFs and a link; 2 roots that may overlap, spelled alike or not; 3 sets of limits |
| `controller` | `TypeOK`, `AtMostOneIngestion`, `StatusSettles`, `QuitIsOrderly`, `OvertakenRefreshesAreDropped`, `ShownInTheEnd`, `QuitEnds` | 3 calls by a person, 1 root, 1 search text, ingestions that write to version 2 and may throw |
| `migration` | `VersionTellsSchema`, `OpenIsCurrent`, `OneOpenerPrevails`, `UpgradesAtOnce`, `OpeningEnds` | 2 processes, 2 starts each, every version, 2 names that may be taken, 2 disturbances |
| `evidence` | `HandlesNest`, `PassMeansComplete`, `StressAccounts`, `OutlineIsWhole`, `OnlyLateHitsAreMissed`, `MetricsTellTheRun`, `EvidenceEnds` | 17 tools on documents of 2 pages with 2 links or hits each; 2 producers with 2 requests, 2 iterations; every outline of 3 bookmarks; 2 hits, a timeout of 7 ticks and a clock of 8; 3 resizes and 3 frames |

`TypeCorrect` of the store, of the opening and `StressTypes` are proved, and so not
checked by a run as well.

Why the bounds suffice. A move needs two places, and a conflict over one needs a
second book. Every check in the store compares a generation with the current,
the completed or the last seen one: two scans of each root give a sighting, a
newer completed scan and a stale caller, and the proofs of section 4 cover every
bound. A proposal interacts with others only through places, and one proposal
meets every state of the other tables. In an ingestion two paths give copies,
moves, swaps and replacements, and with unreadable identities also matches that
are not unique; three books are as many as an ingestion has places, and where
later ones would need a fourth, creating it fails. Two
undisturbed scans after an interruption are enough to heal, and `stops` has
three. In the scanner each limit binds in one set of limits and not in another;
two PDFs leave a batch part full or empty at every kind of return; three
directories nest or stand side by side. In the controller three calls are what the
races need: a request, one that overtakes it, and one while both are under way.
In `migration` one name is taken at the first statement of a migration and one
within it, so that there is something to undo; two starts give a retry, and two
disturbances a failure during recovery from another. The proofs cover any number
of processes, starts and disturbances. In `evidence` a table's loops have a first
turn and a later one, and a refusal in either; a routine keeps nothing else from
one turn to the next. Two producers are enough for a request of one to come
between another's push and its count, and for the queue to run empty and fill
again. Three bookmarks give shared children, loops of siblings and a bookmark
below itself with something left to list around it. Two hits give a first and a
next one; a window fits twice before the timeout, so that there is one before and
one after a pause, and the clock goes on for a late turn beyond the timeout. The proofs
cover any number of threads, requests, bookmarks, hits and ticks.

CHECK_DEADLOCK is off: generations and disk changes are bounded, so a behaviour
may stop when the bound is reached, the program may rest when idle, and a call
of the scanner and the life of a controller end.

### Fairness

`overlap` assumes weak fairness of `ScanStep \/ IngestStep \/ Throw`, the
steps of the pool thread. Once `QtConcurrent::run` has started the task, the
operating system schedules it and each of its loops continues until it returns
or throws. No fairness is assumed of the disk, the person, cancellation or the
end of the program. `scanner` assumes that the thread that called `scanRoots`
keeps running it. `controller` assumes weak fairness of each thread by itself:
the interface thread's event loop and destructor, the worker's event loop, and the
pool task. That the pool task ends is `IngestionEnds`. `migration` assumes that
each process keeps running its constructor; a wait for the lock ends because the
holder commits, fails or dies. `evidence` assumes of each tool that it runs on,
of each thread of the stress tool that it is scheduled, and of a loop that sleeps that
time passes; of the shell, that its event loop handles each queued frame and each
timer. It does
not assume that an engine finds its next hit, that a waiter wakes for no reason,
that anyone closes the window, or that a frame is ever swapped.

### Where documents and code disagree

Four runs expect a violation. Each property states a sentence of the
repository's documents, and TLC shows a behaviour of the code against it.

| Run | Document | What happens |
|---|---|---|
| `survivors` | ADR-0005: a candidate is a distinct copy "when the original location still exists" | Two hard links are found by one first scan. The first is stored with `last_seen_scan_generation` 0, below the generation just completed, so for the second it counts as missing: a confident, applicable move away from a file that is there. `SurvivorsMoveOnlyToLinks` in `overlap` shows that this needs an object with two paths. |
| `duplicates` | CORE_WORKFLOWS: "overlapping/nested roots without duplicate logical rows" | Duplicates are suppressed only among paths new to their root, so a path known under the outer root is new under the nested one and can get a second book. |
| `partial` | N3 plan: "Treat permission-denied children independently from successful enumeration elsewhere" | Discoveries of a root that was read partially are dropped, on every scan, while anything in it is unreadable. |
| `offers` | N3 owner test, step 5: press F5, review, apply | A pending move becomes inapplicable at the next scan of its root; while pending it is neither refreshed nor proposed again, and still offered as applicable. |

### Observed, without a document against it

* After an ingestion that threw, quitting ends in `std::terminate`:
  `waitForFinished` (`LibraryController.cpp:68`) throws the exception that the future
  still holds, even when the finished handler has caught and reported it, and a
  destructor is `noexcept`. Marks and reviews still queued for the worker are never
  tried and its thread is not joined, although `main.cpp:218` has just logged
  "Atlas Reader Native shutdown cleanly". `QuitIsOrderly` and `QuitEnds` say so, and
  that nothing else keeps quitting from its end or leaves anything undone: a
  `catch` around line 68 would be enough.
* Between the end of an ingestion and its report, `scanning()` is false. If a
  person asks for another scan just then, the report of the old one sets the
  status to complete while the new scan is prepared, and the new scan runs under
  that status. `StatusSettles`, `ShownInTheEnd` and `AtMostOneIngestion` hold all
  the same.
* If the first call of `addRoot`'s task registers the root and the next one
  throws, no refresh is requested: the root is stored and not shown until another
  request. `ShownInTheEnd` therefore excludes behaviours in which the store failed.
* Of two processes that open an old profile at once, one can fail: it read the
  version before the other migrated, and its first statement finds the table
  there. The failure harms nothing and the next start succeeds (`UpgradesAtOnce`,
  `OneOpenerPrevails`).
* Migration 3 creates the search table without filling it. Documents written by a
  build of version 2 are not found until `rebuildSearchIndex`, which no caller in
  `src/src` calls.

* The PDF tools pass over some refusals; `Unreported` lists the 29 places, and
  `PassMeansComplete` says that there is no other. The weightier ones: both
  fidelity probes pass although a bitmap or an image was null, which is written into
  the evidence and left to the script that reads it (`begin`).
  `pdfium_content_probe` counts a search that could not start as no hits, and a page
  whose characters cannot be counted as one without (`search`, `chars`).
  `pdfium_probe` lists a link without the rectangle, address or destination it
  could not read, a page without its label (`read`, `label`), and takes text that
  cannot be read for empty text (`text`), as the Qt tools do (`page`); `pdfium_search_probe`
  leaves out a rectangle of a hit (`rect`). The security probes write down what a
  document says of its security without asking whether it could be read (`read`).
  Nobody looks at what `FPDFBitmap_FillRect` answers (`fill`, `draw`), nor the
  generator of a fixture at `QPainter::end()`.
* A search that settles need not be over. A pause longer than the window, over
  a slow page or many pages without hits, is taken for its end, and
  `OnlyLateHitsAreMissed` says exactly what is then lost: hits found after the last
  turn had begun. Only a number to expect, where the tool is given one, would tell.
* `searchOnce` of `qt_pdf_bench` stops waiting once the expected number is there,
  so a search that would go on to find more is accepted if that comes late.
* `collectBookmarks` reports a cycle for every bookmark that is referred to twice,
  also where the references form none.
* A frame that was queued before the resize exercise began may be handled after
  it, and then gives its first sample.

## 4. Proofs

`LibraryIndexProofs` proves `OnlyProvenMovesRelink` and `SimilarIsNeverNew` of the
identity policy for every evidence, by cases; no run is needed for 648 combinations that the
proof covers. About the store it assumes only
`IndexAssumption` (the largest generation is a natural number, `FileName` maps
paths to names, and the no-value constants are not values), and holds for any sets
of roots, paths, books, identities and proposals and any bound.

* `TypeCorrect`: one step per operation.
* `EvidenceOrder`: `ScanEvidenceOrdered` is inductive given types. Its three
  conjuncts need one another: a sighting that a move writes is the proposal's
  generation, which is below its root's completed one, which is below the
  begun one.
* `RowsAreReferred`: inductive given types. The conjunct that a place without a
  row keeps no evidence is what lets a place be freed and linked again with the
  defaults of a new row.
* `AuthorityIsBacked`: from a lemma on the policy (`AuthorityOfResolve`).
* `SearchIsCurrent`: needs `RowsRefer`, since a move writes a file name without
  inserting the document.
* `MovesAreProven`, `BooksStayLinked`, `NewerScansWin`, `SupersededIsFinal`:
  action properties from these invariants. `OwnerWriters` shows that only
  `UpsertRecord` and `ApplyReconciliation` write what a place holds.
* `StoreImplementsShelf`: the refinement, step by step. `UpsertRecord` is
  `Shelve` at a free place and `Learn` at the book's own, `ProposeReconciliation`
  is `Review`, `ApplyReconciliation` is `Relink`, `DismissReconciliation` is
  `Dismiss`, marks are `SetMark`, and all that concerns roots and scans is
  invisible.

`LibraryIngestionProofs` assumes `IndexAssumption` and `IngestionAssumption` and
holds for any roots, paths, books and disks and any number of ingestions,
interrupted anywhere. `StepsTheStore` shows that every step of an ingestion, of the
disk and of a review is a call of the store with proper arguments, or none. The
store's four invariants and its action properties are so inherited
(`IngestionKeepsStoreSound`, `IngestionMovesOnlyWhenProven`), and so is the shelf
(`IngestionImplementsShelf`). `IngestInv` adds to them what an ingestion knows:
a batch is published at its size (`BatchIsBounded`); what is being worked on is the
first discovery, and a book just created has only its own place, without an identity,
and is named by no proposal (`WorkIsCurrent` with `JustCreated`, without which
a review could move it before it is identified); and the candidates read at the
start, with those added since, are all that pending proposals have
(`CandidatesAreRemembered`).

* `BooksHaveTheirPlace`: a record shelves its book at a free place
  (`CreationPlaces`) and a move takes the book from its only one (`MovePlaces`).
* `NobodyIsAskedTwice`: a proposal is written only for a candidate that is not
  remembered (`ProposeEffect`).
* `StoredIdentitiesStay`: a scan observes only places that nobody holds
  (`ScanKeepsIdentity`); what is left is identifying the book just created, which
  had no identity.
* `QuietIngestionsSettle`, `SurvivorsStay`: from `ShelfInv`, which follows every path
  through an ingestion. Roots come in turn, each scanned in the generation it
  began, and what the store knows of a root is how its scan ended
  (`RootsInOrder`); a path is handed on at most once (`DiscoveredOnce`); books,
  candidates and what is handed on lie below their roots (`PathsLieBelowRoots`).
  While nobody disturbs the ingestion, `QuietInv` adds: the roots go as planned
  (`RunsAsPlanned`); listed and handed-on paths are on the disk, with the
  identity read (`DiskIsKnown`); the candidates remembered are those of pending
  proposals; a path that a complete scan has passed is settled, or handed on and not
  handled yet (`AllIsAccounted`); and a book whose file is at its place has been
  marked as seen by that scan, or shelved since by this ingestion
  (`PlacesAreSeen`). The last is what keeps survivors from looking moved: were a
  proposal confident for a book still there, its last sighting would be older than the
  newest completed scan of its root, and `PlacesAreSeen` says it is that scan's.
  An undisturbed ingestion may well begin on what interrupted ones left, which is why
  the other parts are kept by every step.

`IngestionAssumption` says that `RootOrder` names each root, and once:
`LibraryScanService::scan` refuses a list of roots with a repeated id
(`LibraryScanService.cpp:28-34`), and `LibraryController` passes all of the
store's roots (`LibraryController.cpp:190`).

`LibraryControllerProofs` assumes `ControllerAssumption` and holds for any
number of requests and any roots and searches. Its `ControlInv` says of each flag
what in the two event queues it stands for:

* `OnePreparation`: `scanPreparationPending_` is set exactly while one task that
  prepares a scan is queued, or its one answer is; with `OneIngestion` this gives
  `NeverTwoIngestions`. Neither the flag nor the future could do so alone.
* `StatusIsOwed`: behind a status of work under way there is a preparation, an
  ingestion, or a report on its way (`StatusNeverSticks`).
* `RevisionsNameViews`: a refresh that bears the last revision, at whichever of the
  three places it is, was requested for the present view (`OvertakenIsDropped`).
* `QuitsInOrder`, `WritesAreQueued`: the closing task is the worker's last, and
  each write not yet tried is one queued task (`QuittingIsOrderly`). A destructor
  gets as far as that task only if the future holds no exception; `Rethrow` is the
  other end, and needs a future that threw.

A new future discards the reports of the old one from the middle of the queue
(`WithoutFinished`); that what stays keeps its order is proved by
induction on the set of positions (`SetInduction`, from `LeastNumber`).

`LibraryScannerProofs` assumes `ScannerAssumption` (the roots are directories,
however they are spelled, limits are positive, the sets of entries are finite and apart). `ScanInv` is `WithinLimits` with the types of what the
limits are compared with and the fact that a directory is being listed only during
the scan of a root; without it a return could not take the next root.
`LimitsHold` and `CancelTakesHold` follow from it.

`OutcomesHold` and `FindsAreHandedOn` rest on `TallyInv`. The tree below a directory
is the least set that holds what its members hold (`Below`), so that facts about
trees come from choosing a set, and the proofs need no recursion. What is still to
be visited, the frontier, is the stack, the entries left of the open directory, and
all below them; its parts are apart from one another (`FrontierIsApart`), since in a
tree nothing has two holders. `Tally` keeps the account of a root: what has been
counted and what is left never make more than there is, they make exactly what there is
unless something was missed, and less once a limit has cut the listing short. An
outcome is decided when nothing is left, so that the account becomes a
statement about the tree (`Told`). `FindsAreKept` says where each find is: handed on
or in the batch, never in both, and each counted (`Reported`) or suppressed as a
duplicate.

`SchemaMigrationProofs` and `SchemaMigrationPromises` assume `OpenerAssumption`
(there is a process, `NoOpener` is none, the bounds are natural numbers).
`MigrationInv` says that an opener's count is never ahead of the database, that
exactly the lock's holder is in a transaction, and what a transaction holds: the
names its statements took, all free in the database. `VersionTellsSchema` alone is
not inductive, since a commit keeps it only if the migration is the database's
next. That follows from the rest: had the database been ahead of the count, the
first name of the migration would have been taken (`RecordedIsWhole`).

* `VersionsAreTrue` and `OpenMeansCurrent` follow from `MigrationInv`.
* `OpeningUpgradesAtOnce`: `Commit` is `Upgrade`, `Identify` is `Identify` or
  invisible, and so is everything else except `RemoveConflict`.
* `RacesHaveAWinner`: some opener is never behind the database (`SomeoneLeads`),
  and for one that is not, each next statement succeeds (`NextMigrationRuns`,
  from `StatementsInOrder`: each takes a new name and needs an earlier one).

`QualificationProofs` is about the same `Spec` that `evidence` checks. It assumes
`StressAssumption` (there is a producer, a request, an iteration),
`OutlineAssumption` (null is no bookmark), `PollingAssumption` (times and the
number of hits are positive, and the clock does not stop before the timeout; it says
nothing of the engine), `ShellAssumption` and
`CallsAssumption` (at least one iteration; pages, warm-ups and hits are numbers).

* `VerdictAccounts`, `RequestsHaveOnePlace`: every pushed request is in exactly one
  of three places (`OnePlace`), each counter is the size of a set (`Counters`, with
  `Counted` one request behind `Pushed` for a producer between push and count),
  and a thread is past a join only if those it joined have ended (`Phases`). With
  an ended worker two of the places are empty, so the third is everything.
* `HitsInTimeAreCounted`: what was shown when a turn compared the counts had been
  found by `lastChange` (`Stamped`), so when a window has passed since then all that
  is shown came before it; what is found and not shown was found after the turn had
  begun, since the turn's `processEvents` delivered the rest (`Fresh`).
* `OutlinesAreListedWhole`: every reference is followed, or suspended in an
  enclosing loop, or the one the cursor came by (`Following`). A step follows
  one more, to nothing, to a bookmark already listed, or to a new one, and each of
  the three keeps what the followed references account for.
* `MetricsAreTrue`: the stage of `main()` and the state of the resize exercise tell
  which metrics can have been recorded (`Reached`). The exercise ends by the one
  single shot that its timer arms after the last step, or by the exit
  (`Exercise`), so samples that are written are those of an exercise made to its
  end (`SamplesStand`).

* `HandlesAreNested`, `PassesAreComplete`: `PdfEngineProofs` annotates every label of
  the 50 routines with the handles that are open there (`Held`), as a table beside
  the table of the code. `Sound` says that the annotation fits a routine one step at
  a time: a handle is opened from one that is held, the labels after a step hold
  what the step leaves, a called routine finds what its caller holds and leaves it
  so (`Entry`), and every failure is reported unless it is `Unreported`. Where the
  code goes on after a refused handle and closes what is not null (`RenderOnce`,
  `RenderRequest`, `CoordinateProbe`), the handle may be missing (`Unsure`): then
  only `Least` is certain, nothing else is opened from what may be missing, and the
  frame has reported a failure if anything is. The annotation holds for quiet steps as
  for any other, and a refusal there is known to be in `Unreported`. `Sound` is proved of each
  routine; from it alone, `CallsInv` is kept by every step: the innermost frame has
  open what its label says, each caller waits at a call whose routine found what the
  caller holds, and a refusal is known to a frame that has not returned. The stack of
  frames and the loops have no bound.

Every invariant, action property and refinement that a passing run checks is proved.
Only model-checked, because out of the prover's reach, are `IngestionEnds`,
`ScanEnds`, `ShownInTheEnd`, `QuitEnds`, `OpeningEnds` and `EvidenceEnds` (liveness).
The library's theorems of induction take an operator and cannot be used here either;
where an induction is needed, the proofs take the least member of a set of numbers for
which the claim fails.

## 5. Not modelled

What tables hold while a database is upgraded is not modelled. A directory
that is moved while a scanner lists it may be listed twice or not at all; the
scanner's tree stays as it is, and what such a listing means for the store is
covered by `LibraryIngestion`, whose disk changes at any time. Displayed text and metadata
carry no state the library depends on. The operating system, SQLite, Qt and the
PDF engines are taken as what the code uses them for. A second process on the
same profile is modelled while it opens, not while it ingests.

Queries of the store that change nothing, and how it encodes its values, are
modelled only where a caller acts on what they return. Of the PDF tools, what they
write about text, links, coordinates, pixels, memory and time is left out, and so
is how they parse their arguments beyond accepting or refusing them; PDFium's and
Qt's own behaviour is a success or a refusal at each call. A bitmap without a buffer,
which `pdfium_fidelity_probe.cpp:32` would read through a null pointer, is a refusal
like another here; files and directories that the tools write are not calls of the
engine. `bench_common.h` and
the percentiles of the benchmarks are arithmetic over samples, the library
benchmark runs the store in one thread without concurrency, and the Python and
PowerShell scripts read files of other programs: none of them has state that an
order of events could disturb. `LibraryMetadataPolicy` chooses wordings,
`Logging` formats lines, `Main.qml` is layout, and the ports under `src/core` that
nothing implements have no behaviour.

## 6. Plan

1. Rows across an upgrade: documents of version 2 and the search table, composed
   with `SchemaMigration`. Of the hazards that no property covers it is the one that
   a model could reach: the rollback of a refused statement is SQLite's, and nothing
   in the code decides how long a search may pause.
2. A common abstraction of a listing, which `LibraryScanner` implements and
   `LibraryIngestion` uses, in place of the argument in section 2.
