--------------------------- MODULE LibraryScanner ---------------------------
(***************************************************************************)
(* app/index/LibraryScanner: scanRoots lists the PDF files below each of   *)
(* its roots, depth first, within limits, and hands every path on once, in *)
(* batches.  scan is the listing of one root.                              *)
(*                                                                         *)
(* The directory tree stays as it is during a call, but reading it may     *)
(* fail anywhere: a directory does not open, a listing breaks off, an      *)
(* entry tells no status.  Cancellation may come between any two entries.  *)
(***************************************************************************)
EXTENDS Integers, Sequences, FiniteSets

CONSTANTS
    Directory,    \* directories
    Top,          \* the one that holds, at some depth, every entry
    Pdf,          \* regular files with the extension .pdf in any case
    Ignored,      \* symbolic links, other files, anything else
    RootOrders,   \* what may be passed to scanRoots: directories in an order
    Spelling,     \* directory -> what libraryPathKey leaves of how it is spelled
    Limits,       \* the limits a scanner may be constructed with
    NoDirectory   \* no directory is being listed

LimitNames == {"batchSize", "maximumDepth", "maximumDirectories", "maximumFiles"}

ASSUME ScannerAssumption ==
    /\ Top \in Directory
    /\ IsFiniteSet(Directory) /\ IsFiniteSet(Pdf)
    /\ Directory \intersect Pdf = {}
    /\ Ignored \intersect (Directory \union Pdf) = {}
    /\ RootOrders \subseteq Seq(Directory)
    /\ Limits \subseteq [LimitNames -> Nat \ {0}]
    /\ NoDirectory \notin [path : Directory, depth : Nat]

VARIABLES
    tree,                \* entry -> the directory that holds it
    limits,              \* limits_
    cancelled,           \* the caller's flag
    roots,               \* roots without a result; the head is next
    scanning,            \* scan of the head root is running
    pendingDirectories,  \* a stack of directories, with their depth
    directory,           \* the directory being listed, or NoDirectory
    opened,              \* whether it could be opened
    entries,             \* what it still has to list
    stopped,             \* the visitor has returned false
    sawReadableDirectory,
    incomplete,
    hitLimit,
    batch,
    progress,
    duplicates,          \* duplicatePdfFilesSkipped of this root
    publishedPaths,      \* keys of the paths handed on
    handed,              \* what the caller's callback was given
    result               \* the summaries of the finished roots

listingVars == <<pendingDirectories, directory, opened, entries, stopped,
                 sawReadableDirectory, incomplete, hitLimit>>
batchVars == <<batch, progress, duplicates, publishedPaths, handed>>
vars == <<tree, limits, cancelled, roots, scanning, listingVars, batchVars,
          result>>

Entry == (Directory \ {Top}) \union Pdf \union Ignored
Pending == [path : Directory, depth : Nat]
Progress == [directoriesVisited : Nat, pdfFilesFound : Nat,
             inaccessibleEntries : Nat]

(* The entries at any depth below a directory: the smallest set that has   *)
(* what the directory holds and what directories of the set hold.          *)
IsWhole(t, r, S) == \A e \in Entry : t[e] \in S \union {r} => e \in S
Below(t, r) == {e \in Entry : \A S \in SUBSET Entry : IsWhole(t, r, S) => e \in S}

IsTree(t) == Below(t, Top) = Entry
Under(r) == Below(tree, r)

ZeroProgress ==
    [directoriesVisited |-> 0, pdfFilesFound |-> 0, inaccessibleEntries |-> 0]

(* No root is being scanned.                                               *)
AtRest ==
    /\ scanning = FALSE
    /\ pendingDirectories = <<>>
    /\ directory = NoDirectory
    /\ opened = FALSE
    /\ entries = {}
    /\ stopped = FALSE
    /\ sawReadableDirectory = FALSE
    /\ incomplete = FALSE
    /\ hitLimit = FALSE
    /\ batch = <<>>
    /\ progress = ZeroProgress
    /\ duplicates = 0

Init ==
    /\ tree \in {t \in [Entry -> Directory] : IsTree(t)}
    /\ limits \in Limits
    /\ cancelled = FALSE
    /\ roots \in RootOrders
    /\ AtRest
    /\ publishedPaths = {}
    /\ handed = <<>>
    /\ result = <<>>
-----------------------------------------------------------------------------
(* A path begins with the root it was found below, as the caller spelled   *)
(* it.  libraryPathKey makes it absolute and lexically normal, and folds   *)
(* ASCII letters on Windows: roots that are then spelled alike give an     *)
(* entry one key.  Other spellings (a link or a short name on the way to   *)
(* the root, other letters in another case) stay apart.                    *)
Path(e) == [root |-> Head(roots), entry |-> e]
LibraryPathKey(path) == [spelling |-> Spelling[path.root], entry |-> path.entry]

(* The batch callback that scanRoots passes to scan.  A directory lists an *)
(* entry once, so no batch holds two paths of one key.                     *)
Unique(b) ==
    LET New[n \in 0 .. Len(b)] ==
          IF n = 0 THEN <<>>
          ELSE IF LibraryPathKey(b[n]) \in publishedPaths THEN New[n - 1]
          ELSE Append(New[n - 1], b[n])
    IN  New[Len(b)]

Skipped(b) == duplicates + Len(b) - Len(Unique(b))

Publish(b) ==
    /\ batch' = <<>>
    /\ publishedPaths' =
          publishedPaths \union {LibraryPathKey(b[i]) : i \in 1 .. Len(b)}
    /\ handed' = handed \o Unique(b)
    /\ duplicates' = Skipped(b)

Add(name) == [progress EXCEPT ![name] = @ + 1]

(* The next root, with the locals of scan in their initial state.          *)
BeginScan ==
    /\ ~scanning
    /\ roots # <<>>
    /\ scanning' = TRUE
    /\ pendingDirectories' = <<[path |-> Head(roots), depth |-> 0]>>
    /\ directory' = NoDirectory
    /\ opened' = FALSE
    /\ entries' = {}
    /\ stopped' = FALSE
    /\ sawReadableDirectory' = FALSE
    /\ incomplete' = FALSE
    /\ hitLimit' = FALSE
    /\ batch' = <<>>
    /\ progress' = ZeroProgress
    /\ duplicates' = 0
    /\ UNCHANGED <<tree, limits, cancelled, roots, publishedPaths, handed, result>>

(* scanRoots goes on with the other roots unless it was cancelled.         *)
RootsAfter(outcome) == IF outcome = "cancelled" THEN <<>> ELSE Tail(roots)

(* Defect: a cancelled scan drops the batch it has not published.          *)
Flush_NotCancelled(outcome) ==
    IF outcome = "cancelled"
    THEN batch' = <<>> /\ UNCHANGED <<duplicates, publishedPaths, handed>>
    ELSE Publish(batch)
Flush(outcome) == Publish(batch)

(* scan publishes what is left and returns.  Its locals keep their last    *)
(* values until the next scan.                                             *)
Return(outcome) ==
    /\ Flush(outcome)
    /\ result' = Append(result,
          [root |-> Head(roots), outcome |-> outcome, progress |-> progress,
           duplicates |-> duplicates'])
    /\ scanning' = FALSE
    /\ roots' = RootsAfter(outcome)
    /\ UNCHANGED progress

Between == scanning /\ directory = NoDirectory

(* Defect: continue instead of return.                                     *)
CancelScan_Continues ==
    /\ Between
    /\ pendingDirectories # <<>>
    /\ cancelled
    /\ UNCHANGED vars

CancelScan ==
    /\ Between
    /\ pendingDirectories # <<>>
    /\ cancelled
    /\ Return("cancelled")
    /\ UNCHANGED <<tree, limits, cancelled, listingVars>>

(* A pending directory is never deeper than the maximum (WithinLimits), so *)
(* the code's check of its depth here never skips one.                     *)
OpenDirectory ==
    /\ Between
    /\ pendingDirectories # <<>>
    /\ ~cancelled
    /\ LET last == pendingDirectories[Len(pendingDirectories)] IN
          /\ directory' = last
          /\ opened' \in BOOLEAN
          /\ entries' = IF opened' THEN {e \in Entry : tree[e] = last.path} ELSE {}
    /\ pendingDirectories' =
          SubSeq(pendingDirectories, 1, Len(pendingDirectories) - 1)
    /\ stopped' = FALSE
    /\ progress' = Add("directoriesVisited")
    /\ UNCHANGED <<tree, limits, cancelled, roots, scanning, result,
                   sawReadableDirectory, incomplete, hitLimit, batch,
                   duplicates, publishedPaths, handed>>

(* The visitor is called with one entry.                                   *)
Visit(e) ==
    /\ directory # NoDirectory
    /\ ~stopped
    /\ e \in entries
    /\ entries' = entries \ {e}
    /\ UNCHANGED <<tree, limits, cancelled, roots, scanning, result,
                   directory, opened, sawReadableDirectory>>

StopAtEntry(e) ==
    /\ Visit(e)
    /\ cancelled
    /\ stopped' = TRUE
    /\ UNCHANGED <<pendingDirectories, incomplete, hitLimit, batchVars>>

VisitInaccessible(e) ==
    /\ Visit(e)
    /\ ~cancelled
    /\ progress' = Add("inaccessibleEntries")
    /\ incomplete' = TRUE
    /\ UNCHANGED <<pendingDirectories, stopped, hitLimit, batch, duplicates,
                   publishedPaths, handed>>

TooDeep == directory.depth >= limits.maximumDepth
(* Defect: directories that are pending are not counted.                   *)
DirectoriesFull_VisitedOnly ==
    progress.directoriesVisited >= limits.maximumDirectories

DirectoriesFull ==
    progress.directoriesVisited + Len(pendingDirectories)
        >= limits.maximumDirectories

VisitDirectory(e) ==
    /\ Visit(e)
    /\ ~cancelled
    /\ e \in Directory
    /\ \/ /\ TooDeep
          /\ incomplete' = TRUE
          /\ UNCHANGED <<pendingDirectories, stopped, hitLimit>>
       \/ /\ ~TooDeep
          /\ DirectoriesFull
          /\ stopped' = TRUE
          /\ hitLimit' = TRUE
          /\ UNCHANGED <<pendingDirectories, incomplete>>
       \/ /\ ~TooDeep
          /\ ~DirectoriesFull
          /\ pendingDirectories' = Append(pendingDirectories,
                [path |-> e, depth |-> directory.depth + 1])
          /\ UNCHANGED <<stopped, incomplete, hitLimit>>
    /\ UNCHANGED batchVars

FilesFull == progress.pdfFilesFound >= limits.maximumFiles

TakePdf(e) ==
    LET extended == Append(batch, Path(e)) IN
    /\ ~FilesFull
    /\ progress' = Add("pdfFilesFound")
    /\ IF Len(extended) >= limits.batchSize
       THEN Publish(extended)
       ELSE batch' = extended /\ UNCHANGED <<duplicates, publishedPaths, handed>>
    /\ UNCHANGED stopped

(* Defect: a file is taken without looking at the flag.                    *)
VisitPdf_IgnoresCancel(e) ==
    /\ Visit(e)
    /\ e \in Pdf
    /\ \/ FilesFull /\ stopped' = TRUE /\ UNCHANGED batchVars
       \/ TakePdf(e)
    /\ UNCHANGED <<pendingDirectories, incomplete, hitLimit>>

VisitPdf(e) ==
    /\ Visit(e)
    /\ ~cancelled
    /\ e \in Pdf
    /\ \/ FilesFull /\ stopped' = TRUE /\ UNCHANGED batchVars
       \/ TakePdf(e)
    /\ UNCHANGED <<pendingDirectories, incomplete, hitLimit>>

VisitIgnored(e) ==
    /\ Visit(e)
    /\ ~cancelled
    /\ e \in Ignored
    /\ UNCHANGED <<pendingDirectories, stopped, incomplete, hitLimit, batchVars>>

LimitReached == hitLimit \/ (stopped /\ FilesFull)
AnyReadable == sawReadableDirectory \/ opened

(* Defect: a folder that does not open leaves the listing complete.        *)
AnyMissed_Unopened(complete) == incomplete \/ (opened /\ ~complete)
AnyMissed(complete) == incomplete \/ ~opened \/ ~complete

(* forEachEntry returns: everything was listed, the visitor stopped it, or *)
(* reading broke off.  What follows decides whether the scan goes on.      *)
CloseDirectory(complete) ==
    /\ directory # NoDirectory
    /\ complete => opened /\ ~stopped /\ entries = {}
    /\ directory' = NoDirectory
    /\ entries' = {}
    /\ sawReadableDirectory' = AnyReadable
    /\ incomplete' = AnyMissed(complete)
    /\ \/ cancelled /\ Return("cancelled")
       \/ ~cancelled /\ LimitReached /\ Return("limitReached")
       \/ /\ ~cancelled
          /\ ~LimitReached
          /\ UNCHANGED <<roots, scanning, batchVars, result>>
    /\ UNCHANGED <<tree, limits, cancelled, pendingDirectories, opened, stopped,
                   hitLimit>>

(* Nothing is pending.  Cancellation is not looked at again.               *)
EndScan ==
    /\ Between
    /\ pendingDirectories = <<>>
    /\ Return(IF ~sawReadableDirectory THEN "unavailable"
              ELSE IF incomplete THEN "partial" ELSE "complete")
    /\ UNCHANGED <<tree, limits, cancelled, listingVars>>

Cancel ==
    /\ ~cancelled
    /\ cancelled' = TRUE
    /\ UNCHANGED <<tree, limits, roots, scanning, listingVars, batchVars, result>>

ScanStep ==
    \/ BeginScan
    \/ CancelScan
    \/ OpenDirectory
    \/ \E e \in Entry :
          \/ StopAtEntry(e)
          \/ VisitInaccessible(e)
          \/ VisitDirectory(e)
          \/ VisitPdf(e)
          \/ VisitIgnored(e)
    \/ \E complete \in BOOLEAN : CloseDirectory(complete)
    \/ EndScan

Next == ScanStep \/ Cancel

Spec == Init /\ [][Next]_vars

(* The thread that called scanRoots keeps running it.                      *)
FairSpec == Spec /\ WF_vars(ScanStep)
-----------------------------------------------------------------------------
Finished == {result[i] : i \in 1 .. Len(result)}
IsPublished(path) ==
    \E i \in 1 .. Len(handed) : LibraryPathKey(handed[i]) = LibraryPathKey(path)

(* What a root's outcome says is so.  Complete: the root was listed to its *)
(* last directory and the caller was handed every PDF below it, by this    *)
(* scan or by that of an overlapping root that is spelled alike, so that   *)
(* what it was not handed may be taken for missing.  Limit reached: the    *)
(* limit really cut the listing short.  Unavailable: the root could not be *)
(* opened itself, not just a folder below it or another root.              *)
OutcomesAreTrue ==
    \A s \in Finished :
        LET directories == Under(s.root) \intersect Directory
            pdfs == Under(s.root) \intersect Pdf
        IN
        /\ s.outcome = "complete" =>
              /\ \A p \in pdfs : IsPublished([root |-> s.root, entry |-> p])
              /\ s.progress.pdfFilesFound = Cardinality(pdfs)
              /\ s.progress.directoriesVisited = 1 + Cardinality(directories)
              /\ s.progress.inaccessibleEntries = 0
        /\ s.outcome = "limitReached" =>
              \/ s.progress.directoriesVisited < 1 + Cardinality(directories)
              \/ s.progress.pdfFilesFound < Cardinality(pdfs)
        /\ s.outcome = "unavailable" =>
              s.progress = [ZeroProgress EXCEPT !.directoriesVisited = 1]

(* What the summaries of the roots scanned so far say was new.             *)
Reported ==
    LET Sum[n \in 0 .. Len(result)] ==
          IF n = 0 THEN 0
          ELSE Sum[n - 1] + (result[n].progress.pdfFilesFound - result[n].duplicates)
    IN  Sum[Len(result)]

(* However a scan ends, no batch is left behind: every PDF counted as      *)
(* found was handed on once under its spelling or skipped because it had   *)
(* been handed on.                                                         *)
EveryFindIsHandedOnOnce ==
    /\ \A i, j \in 1 .. Len(handed) :
          LibraryPathKey(handed[i]) = LibraryPathKey(handed[j]) => i = j
    /\ ~scanning => Reported = Len(handed)

(* The limits bound what a scan holds and does at every moment: never more *)
(* directories visited and pending than allowed, none pending beyond the   *)
(* depth, never more files, and a full batch is not kept.                  *)
WithinLimits ==
    /\ progress.directoriesVisited + Len(pendingDirectories)
          <= limits.maximumDirectories
    /\ \A i \in 1 .. Len(pendingDirectories) :
          pendingDirectories[i].depth <= limits.maximumDepth
    /\ progress.pdfFilesFound <= limits.maximumFiles
    /\ Len(batch) < limits.batchSize

(* After cancellation nothing more is found or queued, and at most one     *)
(* root, whose listing was over, ends otherwise than cancelled.            *)
CancelIsPrompt ==
    [][cancelled =>
        /\ scanning /\ scanning' => progress' = progress
        /\ scanning => Len(pendingDirectories') <= Len(pendingDirectories)
        /\ result' # result =>
             \/ result'[Len(result')].outcome = "cancelled"
             \/ Between /\ pendingDirectories = <<>>]_vars

(* A call of scanRoots returns, whatever fails and whether or not it is    *)
(* cancelled.                                                              *)
ScanEnds == <>(roots = <<>> /\ ~scanning)
=============================================================================
