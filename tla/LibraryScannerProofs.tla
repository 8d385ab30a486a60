------------------------ MODULE LibraryScannerProofs ------------------------
(***************************************************************************)
(* Proofs about the directory scanner, for every tree of directories, all  *)
(* limits and any roots.                                                   *)
(***************************************************************************)
EXTENDS LibraryScanner, FiniteSetTheorems, SequenceTheorems, WellFoundedInduction,
        TLAPS

IsSequence(s) == \E S : s \in Seq(S)

(* What a step needs to know to keep a scan within its limits: the types   *)
(* of what the limits are compared with, and that a directory is listed    *)
(* only during the scan of some root.                                      *)
ScanInv ==
    /\ limits \in [LimitNames -> Nat \ {0}]
    /\ roots \in Seq(Directory)
    /\ scanning \in BOOLEAN
    /\ scanning => roots # <<>>
    /\ directory # NoDirectory => scanning
    /\ pendingDirectories \in Seq(Pending)
    /\ directory \in Pending \union {NoDirectory}
    /\ IsSequence(batch)
    /\ IsSequence(result)
    /\ progress \in Progress
    /\ WithinLimits

(* Appending keeps a sequence a sequence, one longer, with the new element *)
(* at its end.                                                             *)
LEMMA Appended ==
    ASSUME NEW s, NEW x, IsSequence(s)
    PROVE  /\ IsSequence(Append(s, x))
           /\ Len(Append(s, x)) = Len(s) + 1
           /\ Len(Append(s, x)) \in Nat
           /\ Append(s, x)[Len(Append(s, x))] = x
<1>1. PICK S : s \in Seq(S)
  BY DEF IsSequence
<1>2. s \in Seq(S \union {x})
  BY <1>1, SeqMonotonic, S \subseteq S \union {x}
<1>3. /\ Append(s, x) \in Seq(S \union {x})
      /\ Len(Append(s, x)) = Len(s) + 1
      /\ Append(s, x)[Len(s) + 1] = x
  BY <1>2
<1>4. Len(Append(s, x)) \in Nat
  BY <1>3
<1> QED
  BY <1>3, <1>4 DEF IsSequence

LEMMA LimitTypes ==
    ASSUME limits \in [LimitNames -> Nat \ {0}]
    PROVE  /\ limits.batchSize \in Nat \ {0}
           /\ limits.maximumDepth \in Nat \ {0}
           /\ limits.maximumDirectories \in Nat \ {0}
           /\ limits.maximumFiles \in Nat \ {0}
BY DEF LimitNames

LEMMA EmptyIsSequence == IsSequence(<<>>) /\ Len(<<>>) = 0
BY <<>> \in Seq({}) DEF IsSequence

(* The return of scan leaves an empty batch, one more result and fewer     *)
(* roots.                                                                  *)
LEMMA Returned ==
    ASSUME NEW o, ScanInv, scanning, Return(o)
    PROVE  /\ batch' = <<>>
           /\ IsSequence(result')
           /\ result'[Len(result')].outcome = o
           /\ scanning' = FALSE
           /\ roots' \in Seq(Directory)
           /\ progress' = progress
<1>1. batch' = <<>> /\ scanning' = FALSE /\ progress' = progress
  BY DEF Return, Flush, Publish
<1>2. IsSequence(result') /\ result'[Len(result')].outcome = o
  <2> DEFINE s == [root |-> Head(roots), outcome |-> o, progress |-> progress,
                   duplicates |-> duplicates']
  <2>1. result' = Append(result, s)
    BY DEF Return
  <2>2. s.outcome = o
    OBVIOUS
  <2> HIDE DEF s
  <2> QED
    BY <2>1, <2>2, Appended DEF ScanInv
<1>3. roots' \in Seq(Directory)
  <2>1. roots \in Seq(Directory) /\ roots # <<>>
    BY DEF ScanInv
  <2>2. Tail(roots) \in Seq(Directory) /\ <<>> \in Seq(Directory)
    BY <2>1, HeadTailProperties
  <2> QED
    BY <2>2 DEF Return, RootsAfter
<1> QED
  BY <1>1, <1>2, <1>3

LEMMA Added ==
    ASSUME progress \in Progress
    PROVE  /\ Add("directoriesVisited") \in Progress
           /\ Add("directoriesVisited").directoriesVisited
                = progress.directoriesVisited + 1
           /\ Add("directoriesVisited").pdfFilesFound = progress.pdfFilesFound
           /\ Add("pdfFilesFound") \in Progress
           /\ Add("pdfFilesFound").directoriesVisited
                = progress.directoriesVisited
           /\ Add("pdfFilesFound").pdfFilesFound = progress.pdfFilesFound + 1
BY DEF Add, Progress

LEMMA ScanInvInit == Init => ScanInv
<1> SUFFICES ASSUME Init PROVE ScanInv
  OBVIOUS
<1>1. limits \in [LimitNames -> Nat \ {0}]
  BY ScannerAssumption DEF Init
<1>2. WithinLimits
  BY <1>1, LimitTypes DEF Init, AtRest, WithinLimits, ZeroProgress
<1>3. roots \in Seq(Directory)
  BY ScannerAssumption DEF Init
<1>4. progress \in Progress
  BY DEF Init, AtRest, ZeroProgress, Progress
<1>5. pendingDirectories \in Seq(Pending)
  BY DEF Init, AtRest
<1> QED
  BY <1>1, <1>2, <1>3, <1>4, <1>5, EmptyIsSequence DEF Init, AtRest, ScanInv

LEMMA ScanInvStep == ScanInv /\ [Next]_vars => ScanInv'
<1> SUFFICES ASSUME ScanInv, [Next]_vars PROVE ScanInv'
  OBVIOUS
<1> USE DEF listingVars, batchVars
<1>0. /\ limits \in [LimitNames -> Nat \ {0}]
      /\ limits.batchSize \in Nat \ {0}
      /\ limits.maximumDepth \in Nat \ {0}
      /\ limits.maximumDirectories \in Nat \ {0}
      /\ limits.maximumFiles \in Nat \ {0}
      /\ progress.directoriesVisited \in Nat
      /\ progress.pdfFilesFound \in Nat
      /\ progress.inaccessibleEntries \in Nat
  BY LimitTypes DEF ScanInv, Progress
<1>1. CASE BeginScan
  <2>1. Head(roots) \in Directory
    BY <1>1, HeadTailProperties DEF ScanInv, BeginScan
  <2> DEFINE first == [path |-> Head(roots), depth |-> 0]
  <2>2. first \in Pending
    BY <2>1 DEF Pending
  <2>3. /\ pendingDirectories' \in Seq(Pending)
        /\ Len(pendingDirectories') = 1
        /\ pendingDirectories'[1].depth = 0
    BY <1>1, <2>2 DEF BeginScan
  <2>4. WithinLimits'
    BY <1>0, <1>1, <2>3, EmptyIsSequence DEF BeginScan, WithinLimits, ZeroProgress
  <2> QED
    BY <1>1, <2>3, <2>4, EmptyIsSequence
    DEF BeginScan, ScanInv, ZeroProgress, Progress
<1>2. ASSUME NEW o, Return(o), scanning,
             UNCHANGED <<tree, limits, pendingDirectories>>,
             directory' = NoDirectory
      PROVE  ScanInv'
  <2>1. /\ batch' = <<>>
        /\ IsSequence(result')
        /\ scanning' = FALSE
        /\ roots' \in Seq(Directory)
        /\ progress' = progress
    BY <1>2, Returned
  <2>2. WithinLimits'
    BY <1>0, <1>2, <2>1, EmptyIsSequence DEF ScanInv, WithinLimits
  <2> QED
    BY <1>2, <2>1, <2>2, EmptyIsSequence DEF ScanInv
<1>3. CASE CancelScan
  BY <1>2, <1>3 DEF CancelScan, Between
<1>4. CASE EndScan
  <2> DEFINE o == IF ~sawReadableDirectory THEN "unavailable"
                  ELSE IF incomplete THEN "partial" ELSE "complete"
  <2>1. Return(o)
    BY <1>4 DEF EndScan
  <2> HIDE DEF o
  <2> QED
    BY <1>2, <1>4, <2>1 DEF EndScan, Between
<1>5. CASE OpenDirectory
  <2> DEFINE n == Len(pendingDirectories)
  <2>1. /\ pendingDirectories \in Seq(Pending)
        /\ n \in Nat
        /\ n > 0
    BY <1>5, LenProperties, EmptySeq DEF ScanInv, OpenDirectory
  <2>2. pendingDirectories[n] \in Pending
    BY <2>1, ElementOfSeq
  <2>3. /\ pendingDirectories' \in Seq(Pending)
        /\ Len(pendingDirectories') = n - 1
        /\ \A i \in 1 .. n - 1 : pendingDirectories'[i] = pendingDirectories[i]
    <3>1. pendingDirectories' = SubSeq(pendingDirectories, 1, n - 1)
      BY <1>5 DEF OpenDirectory
    <3>2. \A i \in 1 .. n - 1 : pendingDirectories[i] \in Pending
      BY <2>1, ElementOfSeq
    <3> HIDE DEF n
    <3>3. /\ SubSeq(pendingDirectories, 1, n - 1) \in Seq(Pending)
          /\ Len(SubSeq(pendingDirectories, 1, n - 1))
               = IF 1 <= n - 1 THEN (n - 1) - 1 + 1 ELSE 0
          /\ \A i \in 1 .. (n - 1) - 1 + 1 :
                SubSeq(pendingDirectories, 1, n - 1)[i]
                  = pendingDirectories[1 + i - 1]
      BY <2>1, <3>2, SubSeqProperties
    <3> QED
      BY <2>1, <3>1, <3>3
  <2>4. /\ progress' \in Progress
        /\ progress'.directoriesVisited = progress.directoriesVisited + 1
        /\ progress'.pdfFilesFound = progress.pdfFilesFound
    BY <1>5, Added DEF OpenDirectory, ScanInv
  <2>5. WithinLimits'
    BY <1>0, <1>5, <2>1, <2>3, <2>4 DEF WithinLimits, ScanInv, OpenDirectory
  <2> QED
    BY <1>5, <2>2, <2>3, <2>4, <2>5 DEF ScanInv, OpenDirectory, Between
<1>6. ASSUME NEW e \in Entry, StopAtEntry(e)
      PROVE  ScanInv'
  BY <1>6 DEF StopAtEntry, Visit, ScanInv, WithinLimits
<1>7. ASSUME NEW e \in Entry, VisitInaccessible(e)
      PROVE  ScanInv'
  <2>1. /\ progress' \in Progress
        /\ progress'.directoriesVisited = progress.directoriesVisited
        /\ progress'.pdfFilesFound = progress.pdfFilesFound
    BY <1>7, <1>0 DEF VisitInaccessible, Add, ScanInv, Progress
  <2> QED
    BY <1>7, <2>1 DEF VisitInaccessible, Visit, ScanInv, WithinLimits
<1>8. ASSUME NEW e \in Entry, VisitDirectory(e)
      PROVE  ScanInv'
  <2> DEFINE p == [path |-> e, depth |-> directory.depth + 1]
             n == Len(pendingDirectories)
  <2>1. CASE UNCHANGED pendingDirectories
    BY <1>8, <2>1 DEF VisitDirectory, Visit, ScanInv, WithinLimits
  <2>2. CASE /\ ~TooDeep
             /\ ~DirectoriesFull
             /\ pendingDirectories' = Append(pendingDirectories, p)
    <3>1. directory \in Pending /\ e \in Directory
      BY <1>8 DEF VisitDirectory, Visit, ScanInv
    <3>2. p \in Pending /\ p.depth <= limits.maximumDepth
      BY <1>0, <2>2, <3>1 DEF Pending, TooDeep
    <3>3. pendingDirectories \in Seq(Pending) /\ n \in Nat
      BY LenProperties DEF ScanInv
    <3>4. /\ pendingDirectories' \in Seq(Pending)
          /\ Len(pendingDirectories') = n + 1
          /\ \A i \in 1 .. n : pendingDirectories'[i] = pendingDirectories[i]
          /\ pendingDirectories'[n + 1] = p
      BY <2>2, <3>2, <3>3, AppendProperties
    <3>5. n + progress.directoriesVisited < limits.maximumDirectories
      BY <1>0, <2>2, <3>3 DEF DirectoriesFull
    <3> HIDE DEF p, n
    <3>6. \A i \in 1 .. Len(pendingDirectories') :
             pendingDirectories'[i].depth <= limits.maximumDepth
      <4>1. \A i \in 1 .. n : pendingDirectories[i].depth <= limits.maximumDepth
        BY DEF ScanInv, WithinLimits, n
      <4>2. \A i \in 1 .. n + 1 : i \in 1 .. n \/ i = n + 1
        BY <3>3
      <4> QED
        BY <3>2, <3>4, <4>1, <4>2
    <3>7. WithinLimits'
      BY <1>0, <1>8, <3>3, <3>4, <3>5, <3>6
      DEF WithinLimits, ScanInv, VisitDirectory, Visit
    <3> QED
      BY <1>8, <3>4, <3>7 DEF VisitDirectory, Visit, ScanInv
  <2> QED
    BY <1>8, <2>1, <2>2 DEF VisitDirectory
<1>9. ASSUME NEW e \in Entry, VisitPdf(e)
      PROVE  ScanInv'
  <2>1. CASE UNCHANGED batchVars
    BY <1>9, <2>1 DEF VisitPdf, Visit, ScanInv, WithinLimits
  <2>2. CASE TakePdf(e)
    <3> DEFINE extended == Append(batch, Path(e))
    <3>1. /\ progress' \in Progress
          /\ progress'.directoriesVisited = progress.directoriesVisited
          /\ progress'.pdfFilesFound = progress.pdfFilesFound + 1
      BY <2>2, Added DEF TakePdf, ScanInv
    <3>2. progress'.pdfFilesFound <= limits.maximumFiles
      BY <1>0, <2>2, <3>1 DEF TakePdf, FilesFull
    <3>3. IsSequence(extended) /\ Len(extended) \in Nat
      BY Appended DEF ScanInv
    <3>4. IsSequence(batch') /\ Len(batch') < limits.batchSize
      <4>1. \/ batch' = <<>>
            \/ batch' = extended /\ ~(Len(extended) >= limits.batchSize)
        BY <2>2 DEF TakePdf, Publish
      <4> HIDE DEF extended
      <4> QED
        BY <1>0, <3>3, <4>1, EmptyIsSequence
    <3> QED
      BY <1>9, <3>1, <3>2, <3>4 DEF VisitPdf, Visit, ScanInv, WithinLimits
  <2> QED
    BY <1>9, <2>1, <2>2 DEF VisitPdf
<1>10. ASSUME NEW e \in Entry, VisitIgnored(e)
       PROVE  ScanInv'
  BY <1>10 DEF VisitIgnored, Visit, ScanInv, WithinLimits
<1>11. ASSUME NEW c \in BOOLEAN, CloseDirectory(c)
       PROVE  ScanInv'
  <2>1. scanning
    BY <1>11 DEF CloseDirectory, ScanInv
  <2>2. CASE UNCHANGED <<roots, scanning, batchVars, result>>
    BY <1>11, <2>2 DEF CloseDirectory, ScanInv, WithinLimits
  <2> QED
    BY <1>2, <1>11, <2>1, <2>2 DEF CloseDirectory
<1>12. CASE Cancel
  BY <1>12 DEF Cancel, ScanInv, WithinLimits
<1>13. CASE UNCHANGED vars
  BY <1>13 DEF vars, ScanInv, WithinLimits
<1> QED
  BY <1>1, <1>3, <1>4, <1>5, <1>6, <1>7, <1>8, <1>9, <1>10, <1>11, <1>12, <1>13
  DEF Next, ScanStep

LEMMA ScanInvariant == Spec => []ScanInv
BY ScanInvInit, ScanInvStep, PTL DEF Spec

(* Whatever the tree, the limits and the failures to read, no scan holds   *)
(* or does more than its limits allow at any moment (LibraryScanner.cpp,   *)
(* lines 77 to 105); in particular its check of a pending directory's      *)
(* depth (line 65) never skips one.                                        *)
THEOREM LimitsHold == Spec => []WithinLimits
BY ScanInvariant, PTL DEF ScanInv

(* Once the flag is set, nothing more is found or queued, and a root that  *)
(* had anything left to list ends cancelled (lines 53, 73 and 110).        *)
THEOREM CancelTakesHold == Spec => CancelIsPrompt
<1> DEFINE Prompt ==
      cancelled =>
        /\ scanning /\ scanning' => progress' = progress
        /\ scanning => Len(pendingDirectories') <= Len(pendingDirectories)
        /\ result' # result =>
             \/ result'[Len(result')].outcome = "cancelled"
             \/ Between /\ pendingDirectories = <<>>
<1>1. ScanInv /\ [Next]_vars => [Prompt]_vars
  <2> SUFFICES ASSUME ScanInv, Next, cancelled PROVE Prompt
    BY DEF vars
  <2>0. Len(pendingDirectories) \in Nat
    BY LenProperties DEF ScanInv
  <2> USE DEF listingVars, batchVars
  <2>1. CASE BeginScan
    BY <2>1 DEF BeginScan
  <2>2. CASE CancelScan
    <3>1. /\ scanning
          /\ Return("cancelled")
          /\ pendingDirectories' = pendingDirectories
      BY <2>2 DEF CancelScan, Between
    <3>2. progress' = progress /\ result'[Len(result')].outcome = "cancelled"
      BY <3>1, Returned
    <3> QED
      BY <2>0, <3>1, <3>2
  <2>3. CASE EndScan
    BY <2>0, <2>3 DEF EndScan, Between, Return
  <2>4. ASSUME NEW e \in Entry, StopAtEntry(e)
        PROVE  Prompt
    BY <2>0, <2>4 DEF StopAtEntry, Visit
  <2>5. ASSUME NEW c \in BOOLEAN, CloseDirectory(c)
        PROVE  Prompt
    <3>1. /\ scanning
          /\ Return("cancelled")
          /\ pendingDirectories' = pendingDirectories
      BY <2>5 DEF CloseDirectory, ScanInv
    <3>2. progress' = progress /\ result'[Len(result')].outcome = "cancelled"
      BY <3>1, Returned
    <3> QED
      BY <2>0, <3>1, <3>2
  <2>6. CASE Cancel
    BY <2>6 DEF Cancel
  <2> QED
    BY <2>1, <2>2, <2>3, <2>4, <2>5, <2>6
    DEF Next, ScanStep, OpenDirectory, VisitInaccessible, VisitDirectory,
        VisitPdf, VisitIgnored
<1> QED
  BY <1>1, ScanInvariant, PTL DEF Spec, CancelIsPrompt

-----------------------------------------------------------------------------
(* What a scan has still to do: whatever lies at or below a directory on   *)
(* the stack or an entry still to be visited.  No part of this frontier    *)
(* lies below another, so that each entry is counted once.                 *)
Found == [root : Directory, entry : Pdf]
Outcome == {"unavailable", "partial", "complete", "limitReached", "cancelled"}
Summary == [root : Directory, outcome : Outcome, progress : Progress, duplicates : Nat]

PathKeys == {LibraryPathKey(f) : f \in Found}
Keys(s) == {LibraryPathKey(s[i]) : i \in 1 .. Len(s)}
OncePerKey(s) ==
    \A i, j \in 1 .. Len(s) : LibraryPathKey(s[i]) = LibraryPathKey(s[j]) => i = j
Listed(s) == {s[i].entry : i \in 1 .. Len(s)}
PdfsUnder(r, K) == {p \in Pdf : LibraryPathKey([root |-> r, entry |-> p]) \in K}

Stacked == {pendingDirectories[i].path : i \in 1 .. Len(pendingDirectories)}
Frontier == Stacked \union entries
AtOrBelow(t, F) == F \union UNION {Below(t, x) : x \in F}
Apart(t, F) == \A x, y \in F : x \notin Below(t, y)
Rest == AtOrBelow(tree, Frontier)

FindTypes ==
    /\ tree \in [Entry -> Directory] /\ IsTree(tree)
    /\ entries \in SUBSET Entry
    /\ batch \in Seq(Found) /\ handed \in Seq(Found)
    /\ publishedPaths \in SUBSET PathKeys
    /\ duplicates \in Nat
    /\ result \in Seq(Summary)

FrontierIsApart ==
    /\ Apart(tree, Frontier)
    /\ \A i, j \in 1 .. Len(pendingDirectories) :
          pendingDirectories[i].path = pendingDirectories[j].path => i = j
    /\ Stacked \intersect entries = {}
    /\ directory = NoDirectory => entries = {}

(* Every find is in one place: handed on, or in the batch.                 *)
FindsAreKept ==
    /\ Keys(handed) = publishedPaths
    /\ OncePerKey(handed)
    /\ OncePerKey(batch)
    /\ scanning => Listed(batch) \intersect Rest = {}
    /\ Reported + (IF scanning THEN progress.pdfFilesFound ELSE 0) =
          Len(handed) + (IF scanning THEN duplicates + Len(batch) ELSE 0)

Count(S, kind) == Cardinality(S \intersect kind)

(* What has been counted of the tree below r and what is left, R, make no  *)
(* more than there is; unless something was missed they make it exactly,   *)
(* and the PDFs that were counted are kept; when a limit has cut the       *)
(* listing short, they make less.                                          *)
Tally(t, r, R, counted, missed, cut, kept) ==
    LET directories == 1 + Count(Below(t, r), Directory)
        pdfs == Count(Below(t, r), Pdf)
        directoriesTold ==
            counted.directoriesVisited + Count(R, Directory)
        pdfsTold == counted.pdfFilesFound + Count(R, Pdf)
    IN
    /\ R \subseteq {r} \union Below(t, r)
    /\ directoriesTold <= directories /\ pdfsTold <= pdfs
    /\ ~missed =>
          /\ directoriesTold = directories /\ pdfsTold = pdfs
          /\ counted.inaccessibleEntries = 0
          /\ Below(t, r) \intersect Pdf \subseteq R \union kept
    /\ cut => directoriesTold < directories \/ pdfsTold < pdfs

Missed == incomplete \/ (directory # NoDirectory /\ (~opened \/ stopped))
Cut == hitLimit \/ (stopped /\ FilesFull /\ ~cancelled)
Kept == PdfsUnder(Head(roots), publishedPaths \union Keys(batch))

(* A root of which nothing could be read has had nothing counted.          *)
NothingReadYet ==
    /\ ~sawReadableDirectory /\ ~opened =>
          /\ entries = {}
          /\ progress.pdfFilesFound = 0 /\ progress.inaccessibleEntries = 0
          /\ progress.directoriesVisited + Len(pendingDirectories) = 1
    /\ directory = NoDirectory /\ opened => sawReadableDirectory

(* What an outcome says of its root, once the paths of the keys P are      *)
(* handed on.                                                              *)
Told(s, t, P) ==
    /\ s.outcome = "complete" =>
          /\ Below(t, s.root) \intersect Pdf \subseteq PdfsUnder(s.root, P)
          /\ s.progress.pdfFilesFound = Count(Below(t, s.root), Pdf)
          /\ s.progress.directoriesVisited = 1 + Count(Below(t, s.root), Directory)
          /\ s.progress.inaccessibleEntries = 0
    /\ s.outcome = "limitReached" =>
          \/ s.progress.directoriesVisited < 1 + Count(Below(t, s.root), Directory)
          \/ s.progress.pdfFilesFound < Count(Below(t, s.root), Pdf)
    /\ s.outcome = "unavailable" =>
          s.progress = [ZeroProgress EXCEPT !.directoriesVisited = 1]

AllTold == \A i \in 1 .. Len(result) : Told(result[i], tree, publishedPaths)

RootTally ==
    scanning => Tally(tree, Head(roots), Rest, progress, Missed, Cut, Kept)

TallyInv ==
    /\ FindTypes
    /\ FrontierIsApart
    /\ FindsAreKept
    /\ RootTally
    /\ scanning => NothingReadYet
    /\ AllTold

-----------------------------------------------------------------------------
(* Trees.  Below(t, r) is the least set that is whole.                     *)

LEMMA BelowIsWhole ==
    ASSUME NEW t, NEW r
    PROVE  Below(t, r) \subseteq Entry /\ IsWhole(t, r, Below(t, r))
BY DEF Below, IsWhole

LEMMA BelowIsLeast ==
    ASSUME NEW t, NEW r, NEW S \in SUBSET Entry, IsWhole(t, r, S)
    PROVE  Below(t, r) \subseteq S
BY DEF Below

LEMMA HolderOfBelow ==
    ASSUME NEW t, NEW r, NEW e \in Below(t, r)
    PROVE  t[e] = r \/ t[e] \in Below(t, r)
<1> DEFINE S == {f \in Below(t, r) : t[f] = r \/ t[f] \in Below(t, r)}
<1>1. S \in SUBSET Entry /\ IsWhole(t, r, S)
  BY BelowIsWhole DEF IsWhole
<1> HIDE DEF S
<1>2. e \in S
  BY <1>1, BelowIsLeast
<1> QED
  BY <1>2 DEF S

LEMMA BelowIsTransitive ==
    ASSUME NEW t, NEW r, NEW x \in Below(t, r)
    PROVE  Below(t, x) \subseteq Below(t, r)
<1>1. Below(t, r) \subseteq Entry /\ IsWhole(t, x, Below(t, r))
  BY BelowIsWhole DEF IsWhole
<1> QED
  BY <1>1, BelowIsLeast

Holds(t, x) == {e \in Entry : t[e] = x}

(* Below a directory is what it holds and what lies below that.            *)
LEMMA BelowIsHeld ==
    ASSUME NEW t, NEW x
    PROVE  Below(t, x) = AtOrBelow(t, Holds(t, x))
<1> DEFINE S == AtOrBelow(t, Holds(t, x))
<1>1. Holds(t, x) \subseteq Below(t, x)
  BY BelowIsWhole DEF IsWhole, Holds
<1>2. S \subseteq Below(t, x)
  BY <1>1, BelowIsTransitive DEF AtOrBelow
<1>3. S \in SUBSET Entry /\ IsWhole(t, x, S)
  <2>1. S \subseteq Entry
    BY <1>2, BelowIsWhole
  <2>2. ASSUME NEW e \in Entry, t[e] \in S \union {x} PROVE e \in S
    <3>1. CASE t[e] = x
      BY <3>1 DEF AtOrBelow, Holds
    <3>2. CASE t[e] \in Holds(t, x)
      BY <3>2, BelowIsWhole DEF AtOrBelow, IsWhole
    <3>3. ASSUME NEW c \in Holds(t, x), t[e] \in Below(t, c) PROVE e \in S
      <4>1. e \in Below(t, c)
        BY <3>3, BelowIsWhole DEF IsWhole
      <4> QED
        BY <4>1 DEF AtOrBelow
    <3> QED
      BY <2>2, <3>1, <3>2, <3>3 DEF AtOrBelow
  <2> HIDE DEF S
  <2> QED
    BY <2>1, <2>2 DEF IsWhole
<1> HIDE DEF S
<1>4. Below(t, x) \subseteq S
  BY <1>3, BelowIsLeast
<1> QED
  BY <1>2, <1>4 DEF S

(* Only a directory has anything below it.                                 *)
LEMMA NothingBelowFiles ==
    ASSUME NEW t \in [Entry -> Directory], NEW x, x \notin Directory
    PROVE  Below(t, x) = {}
<1>1. IsWhole(t, x, {})
  BY DEF IsWhole
<1> QED
  BY <1>1, BelowIsLeast

(* A tree has no cycle.                                                    *)
LEMMA NotBelowItself ==
    ASSUME NEW t \in [Entry -> Directory], IsTree(t), NEW r \in Directory
    PROVE  r \notin Below(t, r)
<1> DEFINE S == {e \in Entry : e \notin Below(t, e)}
<1>1. Top \notin Entry
  BY ScannerAssumption DEF Entry
<1>2. ASSUME NEW e \in Entry, t[e] \in S \union {Top} PROVE e \in S
  <2> SUFFICES ASSUME e \in Below(t, e) PROVE FALSE
    OBVIOUS
  <2>1. t[e] = e \/ t[e] \in Below(t, e)
    BY HolderOfBelow
  <2>2. t[e] \in Entry
    BY <2>1, BelowIsWhole
  <2>3. t[e] \in S
    BY <1>1, <1>2, <2>2
  <2>4. e \in Below(t, t[e])
    BY BelowIsWhole DEF IsWhole
  <2> QED
    BY <2>1, <2>3, <2>4, BelowIsTransitive
<1>3. S \in SUBSET Entry /\ IsWhole(t, Top, S)
  BY <1>2 DEF IsWhole
<1> HIDE DEF S
<1>4. Entry \subseteq S
  BY <1>3, BelowIsLeast DEF IsTree
<1> QED
  BY <1>4, BelowIsWhole DEF S

-----------------------------------------------------------------------------
(* Opening a directory replaces it in the frontier by what it holds: one   *)
(* less is left to do, and the frontier stays apart.                       *)
LEMMA OpenedRest ==
    ASSUME NEW t, NEW F, Apart(t, F), NEW x \in F
    PROVE  /\ AtOrBelow(t, (F \ {x}) \union Holds(t, x)) = AtOrBelow(t, F) \ {x}
           /\ x \in AtOrBelow(t, F)
           /\ Apart(t, (F \ {x}) \union Holds(t, x))
           /\ Holds(t, x) \intersect F = {}
<1> DEFINE H == Holds(t, x)
<1>1. Below(t, x) = AtOrBelow(t, H) /\ H \subseteq Below(t, x)
  BY BelowIsHeld DEF AtOrBelow
<1>2. \A c \in H : t[c] = x
  BY DEF Holds
<1> HIDE DEF H
<1>3. AtOrBelow(t, (F \ {x}) \union H) = AtOrBelow(t, F) \ {x}
  <2>1. AtOrBelow(t, (F \ {x}) \union H) =
           (F \ {x}) \union (UNION {Below(t, y) : y \in F \ {x}}) \union Below(t, x)
    BY <1>1 DEF AtOrBelow
  <2>2. AtOrBelow(t, F) = F \union (UNION {Below(t, y) : y \in F \ {x}}) \union Below(t, x)
    BY DEF AtOrBelow
  <2>3. x \notin (UNION {Below(t, y) : y \in F \ {x}}) \union Below(t, x)
    BY DEF Apart
  <2> QED
    BY <2>1, <2>2, <2>3
<1>4. H \intersect F = {}
  BY <1>1 DEF Apart
<1>5. ASSUME NEW a \in (F \ {x}) \union H, NEW b \in (F \ {x}) \union H, a \in Below(t, b)
      PROVE  FALSE
  <2>1. CASE a \in F /\ b \in F
    BY <1>5, <2>1 DEF Apart
  <2>2. CASE a \in F /\ b \in H
    BY <1>1, <1>5, <2>2, BelowIsTransitive DEF Apart
  <2>3. CASE a \in H
    <3>1. x = b \/ x \in Below(t, b)
      BY <1>2, <1>5, <2>3, HolderOfBelow
    <3>2. b \in F \/ Below(t, b) \subseteq Below(t, x)
      BY <1>1, BelowIsTransitive
    <3>3. x \notin Below(t, x) /\ x \notin H
      BY <1>1 DEF Apart
    <3> QED
      BY <3>1, <3>2, <3>3 DEF Apart
  <2> QED
    BY <2>1, <2>2, <2>3
<1>6. Apart(t, (F \ {x}) \union H)
  BY <1>5 DEF Apart
<1> QED
  BY <1>3, <1>4, <1>6 DEF AtOrBelow, H

LEMMA DroppedRest ==
    ASSUME NEW t, NEW F, Apart(t, F), NEW x \in F
    PROVE  /\ AtOrBelow(t, F \ {x}) \subseteq AtOrBelow(t, F) \ {x}
           /\ Below(t, x) = {} => AtOrBelow(t, F \ {x}) = AtOrBelow(t, F) \ {x}
           /\ x \in AtOrBelow(t, F)
           /\ Apart(t, F \ {x})
BY DEF AtOrBelow, Apart

LEMMA LessRest ==
    ASSUME NEW t, NEW F, NEW G, G \subseteq F
    PROVE  /\ AtOrBelow(t, G) \subseteq AtOrBelow(t, F)
           /\ Apart(t, F) => Apart(t, G)
BY DEF AtOrBelow, Apart

-----------------------------------------------------------------------------
(* The loops over a batch and over the results.                            *)

LEMMA SetInduction ==
    ASSUME NEW S, 0 \in S, \A n \in Nat : n \in S => n + 1 \in S
    PROVE  Nat \subseteq S
<1> DEFINE R == OpToRel(<, Nat)
<1>1. IsWellFoundedOn(R, Nat)
  BY NatLessThanWellFounded, Zenon
<1>2. \A m, n \in Nat : <<m, n>> \in R <=> m < n
  BY DEF OpToRel
<1> HIDE DEF R
<1> SUFFICES ASSUME Nat \ S # {} PROVE FALSE
  OBVIOUS
<1>3. PICK n \in Nat \ S : \A m \in Nat \ S : <<m, n>> \notin R
  <2>1. Nat \ S \subseteq Nat
    OBVIOUS
  <2> QED
    BY <1>1, <2>1, WFMin
<1>4. n # 0 /\ n - 1 \in Nat /\ n - 1 < n
  BY <1>3
<1>5. n - 1 \in S
  BY <1>2, <1>3, <1>4
<1> QED
  BY <1>3, <1>4, <1>5

(* f is what a loop of N turns computes from first, a turn at a time.      *)
Iterates(f, V, first, N, G) ==
    /\ f = [n \in 0 .. N |-> f[n]]
    /\ f[0] = first
    /\ \A n \in 0 .. N : f[n] \in V
    /\ \A n \in 1 .. N : f[n] = G[<<n, f[n - 1]>>]

StaysIn(V, N, G) == \A n \in 1 .. N, v \in V : G[<<n, v>>] \in V

LEMMA Iteration ==
    ASSUME NEW V, NEW first \in V, NEW N \in Nat, NEW G, StaysIn(V, N, G)
    PROVE  \E f : Iterates(f, V, first, N, G)
<1> DEFINE Steps(m, f) == Iterates(f, V, first, m, G)
           S == {m \in Nat : m <= N => \E f : Steps(m, f)}
<1> USE DEF Iterates, StaysIn
<1>1. 0 \in S
  <2> DEFINE f == [n \in 0 .. 0 |-> first]
  <2>1. Steps(0, f)
    OBVIOUS
  <2> QED
    BY <2>1
<1>2. ASSUME NEW m \in Nat, m \in S, m + 1 <= N
      PROVE  \E f : Steps(m + 1, f)
  <2>1. PICK f : Steps(m, f)
    BY <1>2
  <2> DEFINE g == [n \in 0 .. m + 1 |-> IF n = m + 1 THEN G[<<m + 1, f[m]>>] ELSE f[n]]
  <2>2. G[<<m + 1, f[m]>>] \in V
    BY <1>2, <2>1
  <2>3. g[m + 1] = G[<<m + 1, f[m]>>] /\ \A n \in 0 .. m : g[n] = f[n]
    OBVIOUS
  <2>8. g = [n \in 0 .. m + 1 |-> g[n]]
    OBVIOUS
  <2> HIDE DEF g
  <2>4. ASSUME NEW n \in 1 .. m + 1 PROVE g[n] = G[<<n, g[n - 1]>>]
    <3>1. CASE n = m + 1
      BY <2>3, <3>1
    <3>2. CASE n # m + 1
      <4>1. n \in 1 .. m /\ n \in 0 .. m /\ n - 1 \in 0 .. m
        BY <3>2
      <4> QED
        BY <2>1, <2>3, <4>1
    <3> QED
      BY <3>1, <3>2
  <2>5. ASSUME NEW n \in 0 .. m + 1 PROVE g[n] \in V
    <3>1. n = m + 1 \/ n \in 0 .. m
      OBVIOUS
    <3> QED
      BY <2>1, <2>2, <2>3, <3>1
  <2>6. g[0] = first
    BY <2>1, <2>3
  <2>7. Steps(m + 1, g)
    BY <2>4, <2>5, <2>6, <2>8
  <2> QED
    BY <2>7
<1> HIDE DEF Steps, Iterates, StaysIn
<1>3. \A m \in Nat : m \in S => m + 1 \in S
  BY <1>2
<1> HIDE DEF S
<1>4. N \in S
  BY <1>1, <1>3, SetInduction
<1> QED
  BY <1>4 DEF S, Steps

LEMMA AppendFind ==
    ASSUME NEW s \in Seq(Found), NEW x \in Found
    PROVE  /\ Append(s, x) \in Seq(Found) /\ Len(Append(s, x)) = Len(s) + 1
           /\ Keys(Append(s, x)) = Keys(s) \union {LibraryPathKey(x)}
           /\ OncePerKey(s) /\ LibraryPathKey(x) \notin Keys(s) => OncePerKey(Append(s, x))
<1>1. /\ Append(s, x) \in Seq(Found) /\ Len(Append(s, x)) = Len(s) + 1
      /\ \A i \in 1 .. Len(s) : Append(s, x)[i] = s[i]
      /\ Append(s, x)[Len(s) + 1] = x
      /\ Len(s) \in Nat
  BY AppendProperties, LenProperties
<1>2. \A i \in 1 .. Len(s) + 1 : i \in 1 .. Len(s) \/ i = Len(s) + 1
  BY <1>1
<1> DEFINE a == Append(s, x)
<1> HIDE DEF a
<1>3. Keys(a) = Keys(s) \union {LibraryPathKey(x)}
  BY <1>1, <1>2 DEF Keys, a
<1>4. OncePerKey(s) /\ LibraryPathKey(x) \notin Keys(s) => OncePerKey(a)
  BY <1>1, <1>2 DEF Keys, OncePerKey, a
<1> QED
  BY <1>1, <1>3, <1>4 DEF a

(* A find whose entry a batch does not list has another key.               *)
LEMMA AppendListed ==
    ASSUME NEW s \in Seq(Found), NEW x \in Found
    PROVE  /\ Listed(Append(s, x)) = Listed(s) \union {x.entry}
           /\ x.entry \notin Listed(s) => LibraryPathKey(x) \notin Keys(s)
<1>1. /\ Len(Append(s, x)) = Len(s) + 1 /\ Len(s) \in Nat
      /\ \A i \in 1 .. Len(s) : Append(s, x)[i] = s[i]
      /\ Append(s, x)[Len(s) + 1] = x
  BY AppendProperties, LenProperties
<1>2. \A i \in 1 .. Len(s) + 1 : i \in 1 .. Len(s) \/ i = Len(s) + 1
  BY <1>1
<1> DEFINE a == Append(s, x)
<1> HIDE DEF a
<1>3. Listed(a) = Listed(s) \union {x.entry}
  BY <1>1, <1>2 DEF Listed, a
<1>4. \A i \in 1 .. Len(s) : LibraryPathKey(s[i]) = LibraryPathKey(x) => s[i].entry = x.entry
  BY DEF LibraryPathKey
<1> QED
  BY <1>3, <1>4 DEF a, Listed, Keys

LEMMA JoinFinds ==
    ASSUME NEW s \in Seq(Found), NEW u \in Seq(Found)
    PROVE  /\ s \o u \in Seq(Found) /\ Len(s \o u) = Len(s) + Len(u)
           /\ Keys(s \o u) = Keys(s) \union Keys(u)
           /\ OncePerKey(s) /\ OncePerKey(u) /\ Keys(s) \intersect Keys(u) = {}
                => OncePerKey(s \o u)
<1> DEFINE a == s \o u
<1>1. /\ a \in Seq(Found) /\ Len(a) = Len(s) + Len(u)
      /\ \A i \in 1 .. Len(s) + Len(u) :
            a[i] = IF i <= Len(s) THEN s[i] ELSE u[i - Len(s)]
      /\ Len(s) \in Nat /\ Len(u) \in Nat
  BY ConcatProperties, LenProperties
<1> HIDE DEF a
<1>2. /\ \A i \in 1 .. Len(s) : a[i] = s[i] /\ i \in 1 .. Len(a)
      /\ \A i \in 1 .. Len(u) : a[Len(s) + i] = u[i] /\ Len(s) + i \in 1 .. Len(a)
      /\ \A i \in 1 .. Len(a) :
            i \in 1 .. Len(s) \/ \E j \in 1 .. Len(u) : i = Len(s) + j
  <2>1. ASSUME NEW i \in 1 .. Len(a), i \notin 1 .. Len(s)
        PROVE  \E j \in 1 .. Len(u) : i = Len(s) + j
    <3>1. i - Len(s) \in 1 .. Len(u) /\ i = Len(s) + (i - Len(s))
      BY <1>1, <2>1
    <3> QED
      BY <3>1
  <2>2. ASSUME NEW i \in 1 .. Len(u)
        PROVE  a[Len(s) + i] = u[i] /\ Len(s) + i \in 1 .. Len(a)
    <3>1. Len(s) + i \in 1 .. Len(s) + Len(u) /\ ~(Len(s) + i <= Len(s))
          /\ (Len(s) + i) - Len(s) = i
      BY <1>1
    <3> QED
      BY <1>1, <3>1
  <2> QED
    BY <1>1, <2>1, <2>2
<1>3. Keys(a) = Keys(s) \union Keys(u)
  <2>1. ASSUME NEW i \in 1 .. Len(a) PROVE LibraryPathKey(a[i]) \in Keys(s) \union Keys(u)
    <3>1. CASE i \in 1 .. Len(s)
      BY <1>2, <3>1 DEF Keys
    <3>2. ASSUME NEW j \in 1 .. Len(u), i = Len(s) + j
          PROVE  LibraryPathKey(a[i]) \in Keys(s) \union Keys(u)
      BY <1>2, <3>2 DEF Keys
    <3> QED
      BY <1>2, <3>1, <3>2
  <2>2. Keys(s) \subseteq Keys(a)
    BY <1>2 DEF Keys
  <2>3. ASSUME NEW i \in 1 .. Len(u) PROVE LibraryPathKey(u[i]) \in Keys(a)
    <3>1. Len(s) + i \in 1 .. Len(a) /\ a[Len(s) + i] = u[i]
      BY <1>2
    <3> QED
      BY <3>1 DEF Keys
  <2>4. Keys(u) \subseteq Keys(a)
    BY <2>3 DEF Keys
  <2>5. Keys(a) \subseteq Keys(s) \union Keys(u)
    BY <2>1 DEF Keys
  <2> QED
    BY <2>2, <2>4, <2>5
<1>4. ASSUME OncePerKey(s), OncePerKey(u), Keys(s) \intersect Keys(u) = {},
             NEW i \in 1 .. Len(a), NEW j \in 1 .. Len(a),
             LibraryPathKey(a[i]) = LibraryPathKey(a[j])
      PROVE  i = j
  <2>1. /\ \A k \in 1 .. Len(s) : LibraryPathKey(s[k]) \in Keys(s)
        /\ \A k \in 1 .. Len(u) : LibraryPathKey(u[k]) \in Keys(u)
    BY DEF Keys
  <2>2. CASE i \in 1 .. Len(s) /\ j \in 1 .. Len(s)
    BY <1>2, <1>4, <2>2 DEF OncePerKey
  <2>3. CASE i \notin 1 .. Len(s) /\ j \notin 1 .. Len(s)
    <3>1. PICK k \in 1 .. Len(u) : i = Len(s) + k
      BY <1>2, <2>3
    <3>2. PICK l \in 1 .. Len(u) : j = Len(s) + l
      BY <1>2, <2>3
    <3>3. LibraryPathKey(u[k]) = LibraryPathKey(u[l])
      BY <1>2, <1>4, <3>1, <3>2
    <3>4. k = l
      BY <1>4, <3>3 DEF OncePerKey
    <3> QED
      BY <3>1, <3>2, <3>4
  <2>4. ASSUME NEW k \in 1 .. Len(a), NEW l \in 1 .. Len(a),
               LibraryPathKey(a[k]) = LibraryPathKey(a[l]),
               k \in 1 .. Len(s), l \notin 1 .. Len(s)
        PROVE  FALSE
    <3>1. PICK m \in 1 .. Len(u) : l = Len(s) + m
      BY <1>2, <2>4
    <3>2. LibraryPathKey(a[l]) \in Keys(u) /\ LibraryPathKey(a[k]) \in Keys(s)
      BY <1>2, <2>1, <2>4, <3>1
    <3> QED
      BY <1>4, <2>4, <3>2
  <2> QED
    <3>1. ~(i \in 1 .. Len(s) /\ j \notin 1 .. Len(s))
      BY <1>4, <2>4
    <3>2. ~(j \in 1 .. Len(s) /\ i \notin 1 .. Len(s))
      BY <1>4, <2>4
    <3> QED
      BY <2>2, <2>3, <3>1, <3>2, Zenon
<1>5. OncePerKey(s) /\ OncePerKey(u) /\ Keys(s) \intersect Keys(u) = {} => OncePerKey(a)
  BY <1>4 DEF OncePerKey
<1> QED
  BY <1>1, <1>3, <1>5 DEF a

NewUpTo(b, n, new) ==
    IF n = 0 THEN <<>>
    ELSE IF LibraryPathKey(b[n]) \in publishedPaths THEN new[n - 1]
    ELSE Append(new[n - 1], b[n])

LEMMA UniqueFinds ==
    ASSUME NEW b \in Seq(Found), OncePerKey(b)
    PROVE  /\ Unique(b) \in Seq(Found)
           /\ Keys(Unique(b)) = Keys(b) \ publishedPaths
           /\ OncePerKey(Unique(b))
           /\ Len(Unique(b)) <= Len(b)
<1> DEFINE new == CHOOSE new : new = [n \in 0 .. Len(b) |-> NewUpTo(b, n, new)]
           G == [nv \in (1 .. Len(b)) \X Seq(Found) |->
                    IF LibraryPathKey(b[nv[1]]) \in publishedPaths THEN nv[2]
                    ELSE Append(nv[2], b[nv[1]])]
<1>1. Len(b) \in Nat /\ \A i \in 1 .. Len(b) : b[i] \in Found
  BY LenProperties, ElementOfSeq
<1>2. \A n \in 1 .. Len(b), s \in Seq(Found) :
         /\ G[<<n, s>>] = IF LibraryPathKey(b[n]) \in publishedPaths THEN s ELSE Append(s, b[n])
         /\ G[<<n, s>>] \in Seq(Found)
  BY <1>1, AppendFind
<1>3. <<>> \in Seq(Found)
  BY EmptySeq
<1> HIDE DEF G
<1>4. PICK f : Iterates(f, Seq(Found), <<>>, Len(b), G)
  <2>1. StaysIn(Seq(Found), Len(b), G)
    BY <1>2 DEF StaysIn
  <2> QED
    BY <1>1, <1>3, <2>1, Iteration
<1>5. f = [n \in 0 .. Len(b) |-> NewUpTo(b, n, f)]
  <2>1. ASSUME NEW n \in 0 .. Len(b) PROVE f[n] = NewUpTo(b, n, f)
    <3>1. CASE n = 0
      BY <1>4, <3>1 DEF NewUpTo, Iterates
    <3>2. CASE n # 0
      <4>1. n \in 1 .. Len(b) /\ n - 1 \in 0 .. Len(b)
        BY <1>1, <3>2
      <4>2. f[n] = G[<<n, f[n - 1]>>] /\ f[n - 1] \in Seq(Found)
        BY <1>4, <4>1 DEF Iterates
      <4>3. G[<<n, f[n - 1]>>] =
               IF LibraryPathKey(b[n]) \in publishedPaths THEN f[n - 1] ELSE Append(f[n - 1], b[n])
        BY <1>2, <4>1, <4>2
      <4> QED
        BY <3>2, <4>2, <4>3 DEF NewUpTo
    <3> QED
      BY <3>1, <3>2
  <2> QED
    BY <1>4, <2>1 DEF Iterates
<1>6. new = [n \in 0 .. Len(b) |-> NewUpTo(b, n, new)]
  BY <1>5
<1>7. Unique(b) = new[Len(b)]
  BY DEF Unique, NewUpTo
<1> HIDE DEF new
<1> DEFINE Seen(n) == {LibraryPathKey(b[i]) : i \in 1 .. n}
           Good(n, s) ==
              /\ s \in Seq(Found) /\ OncePerKey(s)
              /\ Keys(s) = Seen(n) \ publishedPaths
              /\ Len(s) <= n
           T == {n \in Nat : n <= Len(b) => Good(n, new[n])}
<1>8. 0 \in T
  <2>1. new[0] = <<>>
    BY <1>1, <1>6 DEF NewUpTo
  <2>2. OncePerKey(<<>>) /\ Keys(<<>>) = {} /\ Len(<<>>) = 0 /\ Seen(0) = {}
    BY EmptySeq DEF OncePerKey, Keys
  <2>3. Good(0, new[0])
    BY <1>3, <2>1, <2>2
  <2> QED
    BY <2>3
<1>9. ASSUME NEW n \in Nat, n \in T, n + 1 <= Len(b) PROVE Good(n + 1, new[n + 1])
  <2>1. Good(n, new[n]) /\ n + 1 \in 1 .. Len(b) /\ b[n + 1] \in Found
    BY <1>1, <1>9
  <2>2. new[n + 1] = IF LibraryPathKey(b[n + 1]) \in publishedPaths THEN new[n]
                     ELSE Append(new[n], b[n + 1])
    <3>1. new[n + 1] = NewUpTo(b, n + 1, new)
      <4>1. n + 1 \in 0 .. Len(b)
        BY <2>1
      <4> QED
        BY <1>6, <4>1
    <3>2. n + 1 # 0 /\ (n + 1) - 1 = n
      OBVIOUS
    <3> QED
      BY <3>1, <3>2 DEF NewUpTo
  <2>3. Seen(n + 1) = Seen(n) \union {LibraryPathKey(b[n + 1])}
    <3>1. \A i \in 1 .. n + 1 : i \in 1 .. n \/ i = n + 1
      OBVIOUS
    <3> QED
      BY <3>1
  <2>4. LibraryPathKey(b[n + 1]) \notin Seen(n)
    BY <1>1, <2>1 DEF OncePerKey
  <2> HIDE DEF Seen
  <2>5. Len(new[n]) \in Nat
    BY <2>1, LenProperties
  <2>6. CASE LibraryPathKey(b[n + 1]) \in publishedPaths
    BY <2>1, <2>2, <2>3, <2>5, <2>6
  <2>7. CASE LibraryPathKey(b[n + 1]) \notin publishedPaths
    <3>1. new[n + 1] = Append(new[n], b[n + 1])
      BY <2>2, <2>7
    <3>2. LibraryPathKey(b[n + 1]) \notin Keys(new[n])
      BY <2>1, <2>4
    <3>3. /\ new[n + 1] \in Seq(Found) /\ Len(new[n + 1]) = Len(new[n]) + 1
          /\ Keys(new[n + 1]) = Keys(new[n]) \union {LibraryPathKey(b[n + 1])}
          /\ OncePerKey(new[n + 1])
      BY <2>1, <3>1, <3>2, AppendFind
    <3> QED
      BY <2>1, <2>3, <2>5, <2>7, <3>3
  <2> QED
    BY <2>6, <2>7
<1> HIDE DEF Good
<1>10. \A n \in Nat : n \in T => n + 1 \in T
  BY <1>9
<1> HIDE DEF T
<1>11. Len(b) \in T
  BY <1>1, <1>8, <1>10, SetInduction
<1>12. Good(Len(b), Unique(b))
  BY <1>1, <1>7, <1>11 DEF T
<1> QED
  BY <1>12 DEF Good, Keys

NewIn(s) == s.progress.pdfFilesFound - s.duplicates
SumUpTo(res, n, sum) == IF n = 0 THEN 0 ELSE sum[n - 1] + NewIn(res[n])
IsSum(sum, res) == sum = [n \in 0 .. Len(res) |-> SumUpTo(res, n, sum)]
Total(res) == (CHOOSE sum : IsSum(sum, res))[Len(res)]

LEMMA NewIsNumber == ASSUME NEW s \in Summary PROVE NewIn(s) \in Int
BY DEF NewIn, Summary, Progress

LEMMA SumExists ==
    ASSUME NEW res \in Seq(Summary)
    PROVE  IsSum(CHOOSE sum : IsSum(sum, res), res)
<1> DEFINE G == [nv \in (1 .. Len(res)) \X Int |-> nv[2] + NewIn(res[nv[1]])]
<1>1. Len(res) \in Nat /\ \A i \in 1 .. Len(res) : NewIn(res[i]) \in Int
  BY LenProperties, ElementOfSeq, NewIsNumber
<1>2. \A n \in 1 .. Len(res), v \in Int :
         G[<<n, v>>] = v + NewIn(res[n]) /\ G[<<n, v>>] \in Int
  BY <1>1
<1> HIDE DEF G
<1>3. PICK f : Iterates(f, Int, 0, Len(res), G)
  <2> DEFINE V == Int
  <2>1. StaysIn(V, Len(res), G) /\ 0 \in V
    BY <1>2 DEF StaysIn
  <2> HIDE DEF V
  <2>2. \E f : Iterates(f, V, 0, Len(res), G)
    BY <1>1, <2>1, Iteration
  <2> QED
    BY <2>2 DEF V
<1>4. ASSUME NEW n \in 0 .. Len(res) PROVE f[n] = SumUpTo(res, n, f)
  <2>1. CASE n = 0
    BY <1>3, <2>1 DEF SumUpTo, Iterates
  <2>2. CASE n # 0
    <3>1. n \in 1 .. Len(res) /\ n - 1 \in 0 .. Len(res)
      BY <1>1, <2>2
    <3>2. f[n] = G[<<n, f[n - 1]>>] /\ f[n - 1] \in Int
      BY <1>3, <3>1 DEF Iterates
    <3>3. f[n] = f[n - 1] + NewIn(res[n])
      BY <1>2, <3>1, <3>2
    <3> QED
      BY <2>2, <3>3 DEF SumUpTo
  <2> QED
    BY <2>1, <2>2
<1>5. IsSum(f, res)
  BY <1>3, <1>4 DEF Iterates, IsSum
<1> QED
  BY <1>5

LEMMA TotalOfNothing == Total(<<>>) = 0
<1>1. <<>> \in Seq(Summary) /\ Len(<<>>) = 0
  BY EmptySeq
<1> DEFINE sum == CHOOSE sum : IsSum(sum, <<>>)
<1>2. IsSum(sum, <<>>)
  BY <1>1, SumExists
<1> HIDE DEF sum
<1>3. sum[0] = 0
  BY <1>1, <1>2 DEF IsSum, SumUpTo
<1> QED
  BY <1>1, <1>3 DEF Total, sum

LEMMA TotalOfAppended ==
    ASSUME NEW res \in Seq(Summary), NEW s \in Summary
    PROVE  Total(Append(res, s)) = Total(res) + NewIn(s)
<1> DEFINE more == Append(res, s)
           old == CHOOSE sum : IsSum(sum, res)
           new == CHOOSE sum : IsSum(sum, more)
<1>1. /\ more \in Seq(Summary) /\ Len(more) = Len(res) + 1 /\ Len(res) \in Nat
      /\ \A i \in 1 .. Len(res) : more[i] = res[i]
      /\ more[Len(res) + 1] = s
  BY AppendProperties, LenProperties
<1> HIDE DEF more
<1>2. IsSum(old, res) /\ IsSum(new, more)
  BY <1>1, SumExists
<1>3. Total(more) = new[Len(res) + 1] /\ Total(res) = old[Len(res)]
  BY <1>1 DEF Total
<1> HIDE DEF old, new
<1> DEFINE T == {n \in Nat : n <= Len(res) => new[n] = old[n]}
<1>4. 0 \in T
  BY <1>1, <1>2 DEF IsSum, SumUpTo
<1>5. ASSUME NEW n \in Nat, n \in T, n + 1 <= Len(res) PROVE new[n + 1] = old[n + 1]
  <2>1. n + 1 \in 0 .. Len(res) /\ n + 1 \in 0 .. Len(more) /\ n + 1 \in 1 .. Len(res)
    BY <1>1, <1>5
  <2>2. new[n + 1] = SumUpTo(more, n + 1, new) /\ old[n + 1] = SumUpTo(res, n + 1, old)
    BY <1>2, <2>1 DEF IsSum
  <2>3. n + 1 # 0 /\ (n + 1) - 1 = n /\ new[n] = old[n] /\ more[n + 1] = res[n + 1]
    BY <1>1, <1>5, <2>1
  <2> QED
    BY <2>2, <2>3 DEF SumUpTo
<1>6. \A n \in Nat : n \in T => n + 1 \in T
  BY <1>5
<1> HIDE DEF T
<1>7. Len(res) \in T
  BY <1>1, <1>4, <1>6, SetInduction
<1>8. new[Len(res)] = old[Len(res)]
  BY <1>1, <1>7 DEF T
<1>9. new[Len(res) + 1] = new[Len(res)] + NewIn(s)
  <2>1. Len(res) + 1 \in 0 .. Len(more) /\ Len(res) + 1 # 0
        /\ (Len(res) + 1) - 1 = Len(res)
    BY <1>1
  <2>2. new[Len(res) + 1] = SumUpTo(more, Len(res) + 1, new)
    BY <1>2, <2>1 DEF IsSum
  <2> QED
    BY <1>1, <2>1, <2>2 DEF SumUpTo
<1> QED
  BY <1>3, <1>8, <1>9 DEF more

LEMMA ReportedIsTotal == Reported = Total(result)
BY DEF Reported, Total, IsSum, SumUpTo, NewIn

LEMMA TotalIsNumber == ASSUME NEW res \in Seq(Summary) PROVE Total(res) \in Int
<1> DEFINE sum == CHOOSE sum : IsSum(sum, res)
           T == {n \in Nat : n <= Len(res) => sum[n] \in Int}
<1>1. Len(res) \in Nat /\ \A i \in 1 .. Len(res) : NewIn(res[i]) \in Int
  BY LenProperties, ElementOfSeq, NewIsNumber
<1>2. IsSum(sum, res) /\ Total(res) = sum[Len(res)]
  BY SumExists DEF Total
<1> HIDE DEF sum
<1>3. 0 \in T
  BY <1>1, <1>2 DEF IsSum, SumUpTo
<1>4. ASSUME NEW n \in Nat, n \in T, n + 1 <= Len(res) PROVE sum[n + 1] \in Int
  <2>1. n + 1 \in 0 .. Len(res) /\ n + 1 \in 1 .. Len(res)
    BY <1>1, <1>4
  <2>2. sum[n + 1] = SumUpTo(res, n + 1, sum)
    BY <1>2, <2>1 DEF IsSum
  <2>3. n + 1 # 0 /\ (n + 1) - 1 = n /\ sum[n] \in Int /\ NewIn(res[n + 1]) \in Int
    BY <1>1, <1>4, <2>1
  <2> QED
    BY <2>2, <2>3 DEF SumUpTo
<1>5. \A n \in Nat : n \in T => n + 1 \in T
  BY <1>4
<1> HIDE DEF T
<1>6. Len(res) \in T
  BY <1>1, <1>3, <1>5, SetInduction
<1> QED
  BY <1>1, <1>2, <1>6 DEF T

-----------------------------------------------------------------------------
(* Counting what is left.                                                  *)

LEMMA CountWithout ==
    ASSUME NEW K, IsFiniteSet(K), NEW R, NEW S, NEW e \in R, S \subseteq R \ {e}
    PROVE  /\ Count(R, K) \in Nat /\ Count(S, K) \in Nat
           /\ Count(S, K) <= Count(R, K)
           /\ e \in K => Count(S, K) < Count(R, K)
           /\ S = R \ {e} =>
                 Count(R, K) =
                    Count(S, K) + IF e \in K THEN 1 ELSE 0
<1> DEFINE A == R \intersect K
           B == S \intersect K
<1>1. IsFiniteSet(A) /\ IsFiniteSet(B) /\ B \subseteq A \ {e}
  BY FS_Subset
<1>2. /\ Cardinality(A) \in Nat /\ Cardinality(B) \in Nat
      /\ IsFiniteSet(A \ {e})
      /\ Cardinality(A \ {e}) = IF e \in A THEN Cardinality(A) - 1 ELSE Cardinality(A)
  BY <1>1, FS_CardinalityType, FS_RemoveElement
<1>3. Cardinality(B) <= Cardinality(A \ {e}) /\ Cardinality(A \ {e}) \in Nat
  BY <1>1, <1>2, FS_Subset, FS_CardinalityType
<1>4. S = R \ {e} => Cardinality(B) = Cardinality(A \ {e})
  <2>1. S = R \ {e} => B = A \ {e}
    OBVIOUS
  <2> QED
    BY <2>1
<1>5. e \in A <=> e \in K
  OBVIOUS
<1> DEFINE a == Cardinality(A)
           b == Cardinality(B)
           c == Cardinality(A \ {e})
<1>6. /\ a \in Nat /\ b \in Nat /\ c \in Nat /\ b <= c
      /\ c = IF e \in K THEN a - 1 ELSE a
      /\ S = R \ {e} => b = c
  BY <1>2, <1>3, <1>4, <1>5
<1> HIDE DEF a, b, c
<1>7. /\ a \in Nat /\ b \in Nat /\ b <= a
      /\ e \in K => b < a
      /\ S = R \ {e} => a = b + IF e \in K THEN 1 ELSE 0
  BY <1>6
<1> QED
  BY <1>7 DEF a, b, A, B, Count

LEMMA CountPart ==
    ASSUME NEW K, IsFiniteSet(K), NEW R, NEW S, S \subseteq R
    PROVE  /\ Count(R, K) \in Nat /\ Count(S, K) \in Nat
           /\ Count(S, K) <= Count(R, K)
<1>1. /\ IsFiniteSet(R \intersect K)
      /\ S \intersect K \subseteq R \intersect K
  BY FS_Subset
<1> QED
  BY <1>1, FS_CardinalityType, FS_Subset DEF Count

(* How a tally is kept: by passing x, which is counted or, if something    *)
(* may be missed, is not; by giving up some of what is left.               *)
LEMMA TallyPasses ==
    ASSUME NEW t, NEW r, NEW R, NEW S, NEW x \in R, S \subseteq R \ {x},
           NEW p \in Progress, NEW q \in Progress,
           NEW m, NEW n, NEW c, NEW d, NEW h, NEW k,
           Tally(t, r, R, p, m, c, h),
           NEW dv \in {0, 1}, NEW df \in {0, 1},
           q.directoriesVisited = p.directoriesVisited + dv, dv = 1 => x \in Directory,
           q.pdfFilesFound = p.pdfFilesFound + df, df = 1 => x \in Pdf,
           ~n => /\ ~m /\ S = R \ {x}
                 /\ x \in Directory => dv = 1
                 /\ x \in Pdf => df = 1 /\ x \in k
                 /\ q.inaccessibleEntries = p.inaccessibleEntries
                 /\ h \subseteq k,
           d => \/ c
                \/ x \in Directory /\ dv = 0
                \/ x \in Pdf /\ df = 0
    PROVE  Tally(t, r, S, q, n, d, k)
<1> DEFINE a == Count(R, Directory)
           b == Count(S, Directory)
           e == Count(R, Pdf)
           f == Count(S, Pdf)
           A == 1 + Count(Below(t, r), Directory)
           E == Count(Below(t, r), Pdf)
<1>0. ASSUME NEW K, IsFiniteSet(K)
      PROVE  /\ Count(R, K) \in Nat /\ Count(S, K) \in Nat
             /\ Count(S, K) <= Count(R, K)
             /\ x \in K => Count(S, K) < Count(R, K)
             /\ S = R \ {x} => Count(R, K) = Count(S, K) + IF x \in K THEN 1 ELSE 0
  BY <1>0, CountWithout
<1>1. /\ a \in Nat /\ b \in Nat /\ b <= a
      /\ x \in Directory => b < a
      /\ S = R \ {x} => a = b + IF x \in Directory THEN 1 ELSE 0
  BY <1>0, ScannerAssumption
<1>2. /\ e \in Nat /\ f \in Nat /\ f <= e
      /\ x \in Pdf => f < e
      /\ S = R \ {x} => e = f + IF x \in Pdf THEN 1 ELSE 0
  BY <1>0, ScannerAssumption
<1>3. A \in Nat /\ E \in Nat
  <2>1. /\ Count(Below(t, r), Directory) \in Nat
        /\ Count(Below(t, r), Pdf) \in Nat
    BY ScannerAssumption, CountPart
  <2> QED
    BY <2>1
<1>4. /\ R \subseteq {r} \union Below(t, r)
      /\ p.directoriesVisited + a <= A /\ p.pdfFilesFound + e <= E
      /\ ~m => /\ p.directoriesVisited + a = A /\ p.pdfFilesFound + e = E
               /\ p.inaccessibleEntries = 0
               /\ Below(t, r) \intersect Pdf \subseteq R \union h
      /\ c => p.directoriesVisited + a < A \/ p.pdfFilesFound + e < E
  BY DEF Tally
<1>5. /\ p.directoriesVisited \in Nat /\ p.pdfFilesFound \in Nat
      /\ q.directoriesVisited \in Nat /\ q.pdfFilesFound \in Nat
  BY DEF Progress
<1> HIDE DEF a, b, e, f, A, E
<1>6. q.directoriesVisited + b <= A /\ q.pdfFilesFound + f <= E
  BY <1>1, <1>2, <1>3, <1>4, <1>5
<1>7. ASSUME ~n
      PROVE  /\ q.directoriesVisited + b = A /\ q.pdfFilesFound + f = E
             /\ q.inaccessibleEntries = 0
             /\ Below(t, r) \intersect Pdf \subseteq S \union k
  <2>1. q.directoriesVisited + b = A
    BY <1>1, <1>3, <1>4, <1>5, <1>7
  <2>2. q.pdfFilesFound + f = E
    <3>1. p.pdfFilesFound + e = E /\ S = R \ {x} /\ (x \in Pdf => df = 1)
      BY <1>4, <1>7
    <3>2. CASE x \in Pdf
      BY <1>2, <1>3, <1>5, <3>1, <3>2
    <3>3. CASE x \notin Pdf
      BY <1>2, <1>3, <1>5, <3>1, <3>3
    <3> QED
      BY <3>2, <3>3
  <2>3. Below(t, r) \intersect Pdf \subseteq S \union k
    BY <1>4, <1>7
  <2> QED
    BY <1>4, <1>7, <2>1, <2>2, <2>3
<1>8. ASSUME d PROVE q.directoriesVisited + b < A \/ q.pdfFilesFound + f < E
  <2>1. CASE c
    BY <1>1, <1>2, <1>3, <1>4, <1>5, <2>1
  <2>2. CASE x \in Directory /\ dv = 0
    BY <1>1, <1>3, <1>4, <1>5, <2>2
  <2>3. CASE x \in Pdf /\ df = 0
    BY <1>2, <1>3, <1>4, <1>5, <2>3
  <2> QED
    BY <1>8, <2>1, <2>2, <2>3
<1> QED
  BY <1>4, <1>6, <1>7, <1>8 DEF Tally, a, b, e, f, A, E

LEMMA TallyGivesUp ==
    ASSUME NEW t, NEW r, NEW R, NEW S, S \subseteq R, NEW p \in Progress,
           NEW m, NEW n, NEW c, NEW d, NEW h, NEW k,
           Tally(t, r, R, p, m, c, h),
           ~n => ~m /\ S = R /\ h \subseteq k,
           d => c
    PROVE  Tally(t, r, S, p, n, d, k)
<1>1. /\ Count(R, Directory) \in Nat
      /\ Count(S, Directory) \in Nat
      /\ Count(S, Directory) <= Count(R, Directory)
      /\ Count(R, Pdf) \in Nat /\ Count(S, Pdf) \in Nat
      /\ Count(S, Pdf) <= Count(R, Pdf)
  BY ScannerAssumption, CountPart
<1>2. /\ Count(Below(t, r), Directory) \in Nat
      /\ Count(Below(t, r), Pdf) \in Nat
  BY ScannerAssumption, CountPart
<1>3. p.directoriesVisited \in Nat /\ p.pdfFilesFound \in Nat
  BY DEF Progress
<1> DEFINE a == Count(R, Directory)
           b == Count(S, Directory)
           e == Count(R, Pdf)
           f == Count(S, Pdf)
           A == 1 + Count(Below(t, r), Directory)
           E == Count(Below(t, r), Pdf)
<1>4. /\ a \in Nat /\ b \in Nat /\ b <= a /\ e \in Nat /\ f \in Nat /\ f <= e
      /\ A \in Nat /\ E \in Nat
      /\ S = R => a = b /\ e = f
  BY <1>1, <1>2
<1>5. /\ R \subseteq {r} \union Below(t, r)
      /\ p.directoriesVisited + a <= A /\ p.pdfFilesFound + e <= E
      /\ ~m => /\ p.directoriesVisited + a = A /\ p.pdfFilesFound + e = E
               /\ p.inaccessibleEntries = 0
               /\ Below(t, r) \intersect Pdf \subseteq R \union h
      /\ c => p.directoriesVisited + a < A \/ p.pdfFilesFound + e < E
  BY DEF Tally
<1> HIDE DEF a, b, e, f, A, E
<1>6. /\ p.directoriesVisited + b <= A /\ p.pdfFilesFound + f <= E
      /\ ~n => p.directoriesVisited + b = A /\ p.pdfFilesFound + f = E
      /\ d => p.directoriesVisited + b < A \/ p.pdfFilesFound + f < E
  BY <1>3, <1>4, <1>5
<1>7. ~n => /\ p.inaccessibleEntries = 0
            /\ Below(t, r) \intersect Pdf \subseteq S \union k
  BY <1>5
<1> QED
  BY <1>5, <1>6, <1>7 DEF Tally, a, b, e, f, A, E

(* At first everything is left.                                            *)
LEMMA TallyBegins ==
    ASSUME NEW t \in [Entry -> Directory], IsTree(t), NEW r \in Directory,
           NEW m, NEW k
    PROVE  Tally(t, r, AtOrBelow(t, {r}), ZeroProgress, m, FALSE, k)
<1> DEFINE B == Below(t, r)
           R == AtOrBelow(t, {r})
<1>1. R = {r} \union B /\ r \notin B /\ r \notin Pdf
  BY NotBelowItself, ScannerAssumption DEF AtOrBelow
<1> HIDE DEF B, R
<1>2. /\ R \intersect Directory = (B \intersect Directory) \union {r}
      /\ r \notin B \intersect Directory
      /\ R \intersect Pdf = B \intersect Pdf
  BY <1>1
<1>3. IsFiniteSet(B \intersect Directory)
  BY ScannerAssumption, FS_Subset
<1>4. Count(R, Directory) = Count(B, Directory) + 1 /\ Count(R, Pdf) = Count(B, Pdf)
  BY <1>2, <1>3, FS_AddElement DEF Count
<1>5. Count(B, Directory) \in Nat /\ Count(B, Pdf) \in Nat
  BY ScannerAssumption, CountPart
<1> DEFINE a == Count(R, Directory)
           e == Count(R, Pdf)
           A == 1 + Count(B, Directory)
           E == Count(B, Pdf)
<1>6. a \in Nat /\ e \in Nat /\ 0 + a = A /\ 0 + e = E
  BY <1>2, <1>4, <1>5
<1> HIDE DEF a, e, A, E
<1>7. /\ ZeroProgress.directoriesVisited = 0 /\ ZeroProgress.pdfFilesFound = 0
      /\ ZeroProgress.inaccessibleEntries = 0
  BY DEF ZeroProgress
<1>8. 0 + a <= A /\ 0 + e <= E
  BY <1>6
<1> QED
  BY <1>1, <1>6, <1>7, <1>8 DEF Tally, B, R, a, e, A, E

-----------------------------------------------------------------------------
(* What each kind of step does to the frontier.                            *)

LEMMA StackParts ==
    ASSUME ScanInv
    PROVE  /\ pendingDirectories \in Seq(Pending) /\ Len(pendingDirectories) \in Nat
           /\ \A i \in 1 .. Len(pendingDirectories) :
                 /\ pendingDirectories[i] \in Pending
                 /\ pendingDirectories[i].path \in Directory
<1>1. pendingDirectories \in Seq(Pending) /\ Len(pendingDirectories) \in Nat
  BY LenProperties DEF ScanInv
<1>2. \A i \in 1 .. Len(pendingDirectories) : pendingDirectories[i] \in Pending
  BY <1>1, ElementOfSeq
<1> QED
  BY <1>1, <1>2 DEF Pending

LEMMA FrontierBegins ==
    ASSUME ScanInv, FindTypes, BeginScan
    PROVE  /\ Head(roots) \in Directory /\ Frontier' = {Head(roots)}
           /\ FrontierIsApart'
<1>1. Head(roots) \in Directory
  BY HeadTailProperties DEF ScanInv, BeginScan
<1>2. /\ Len(pendingDirectories') = 1 /\ pendingDirectories'[1].path = Head(roots)
      /\ entries' = {} /\ tree' = tree
  BY DEF BeginScan
<1>3. Stacked' = {Head(roots)}
  BY <1>2 DEF Stacked
<1>4. Frontier' = {Head(roots)}
  BY <1>2, <1>3 DEF Frontier
<1>5. Head(roots) \notin Below(tree, Head(roots))
  BY <1>1, NotBelowItself DEF FindTypes
<1>6. Apart(tree', Frontier')
  BY <1>2, <1>4, <1>5 DEF Apart
<1> QED
  BY <1>1, <1>2, <1>3, <1>4, <1>6 DEF FrontierIsApart

LEMMA FrontierOpens ==
    ASSUME ScanInv, FindTypes, FrontierIsApart, OpenDirectory
    PROVE  \E x \in Frontier :
              /\ x \in Directory
              /\ entries' = IF opened' THEN Holds(tree, x) ELSE {}
              /\ Frontier' = (Frontier \ {x}) \union entries'
              /\ FrontierIsApart'
              /\ Len(pendingDirectories') = Len(pendingDirectories) - 1
<1> DEFINE n == Len(pendingDirectories)
           x == pendingDirectories[n].path
<1>1. n \in Nat /\ n > 0 /\ x \in Directory /\ n \in 1 .. n
  <2>1. n # 0
    BY StackParts, EmptySeq DEF OpenDirectory
  <2>2. n \in Nat /\ n > 0 /\ n \in 1 .. n
    BY <2>1, StackParts
  <2> QED
    BY <2>2, StackParts
<1>2. pendingDirectories' = SubSeq(pendingDirectories, 1, n - 1)
  BY DEF OpenDirectory
<1>3. Len(pendingDirectories') = n - 1
      /\ \A i \in 1 .. n - 1 : pendingDirectories'[i] = pendingDirectories[i]
  <2>1. \A i \in 1 .. n - 1 : pendingDirectories[i] \in Pending
    BY <1>1, StackParts
  <2>2. pendingDirectories \in Seq(Pending)
    BY StackParts
  <2> HIDE DEF n
  <2>3. /\ Len(SubSeq(pendingDirectories, 1, n - 1)) = IF 1 <= n - 1 THEN (n - 1) - 1 + 1 ELSE 0
        /\ \A i \in 1 .. (n - 1) - 1 + 1 :
              SubSeq(pendingDirectories, 1, n - 1)[i] = pendingDirectories[1 + i - 1]
    BY <1>1, <2>1, <2>2, SubSeqProperties
  <2> QED
    BY <1>1, <1>2, <2>3
<1>4. /\ entries = {} /\ Stacked \intersect entries = {} /\ Apart(tree, Frontier)
      /\ \A i, j \in 1 .. n : pendingDirectories[i].path = pendingDirectories[j].path => i = j
  BY DEF FrontierIsApart, OpenDirectory, Between
<1>5. Stacked' = Stacked \ {x} /\ x \in Stacked
  <2>1. \A i \in 1 .. n : i \in 1 .. n - 1 \/ i = n
    BY <1>1
  <2>2. \A i \in 1 .. n - 1 : i \in 1 .. n /\ i # n
    BY <1>1
  <2> HIDE DEF n
  <2>3. Stacked' = {pendingDirectories[i].path : i \in 1 .. n - 1}
    BY <1>3 DEF Stacked
  <2>4. Stacked = {pendingDirectories[i].path : i \in 1 .. n}
    BY DEF Stacked, n
  <2> QED
    BY <1>1, <1>4, <2>1, <2>2, <2>3, <2>4
<1>6. entries' = IF opened' THEN Holds(tree, x) ELSE {}
  BY DEF OpenDirectory, Holds
<1>7. tree' = tree /\ Frontier = Stacked /\ directory' # NoDirectory
  <2>1. directory' \in Pending
    BY <1>1, StackParts DEF OpenDirectory
  <2> QED
    BY <1>4, <2>1, ScannerAssumption DEF OpenDirectory, Frontier, Pending
<1> HIDE DEF x
<1>8. Frontier' = (Frontier \ {x}) \union entries'
  BY <1>5, <1>7 DEF Frontier
<1>9. Apart(tree', Frontier') /\ Stacked' \intersect entries' = {}
  <2>1. CASE opened'
    <3>1. entries' = Holds(tree, x) /\ x \in Frontier /\ Apart(tree, Frontier)
      BY <1>4, <1>5, <1>6, <1>7, <2>1
    <3>2. Apart(tree, (Frontier \ {x}) \union Holds(tree, x))
          /\ Holds(tree, x) \intersect Frontier = {}
      BY <3>1, OpenedRest
    <3> QED
      BY <1>5, <1>7, <1>8, <3>1, <3>2
  <2>2. CASE ~opened'
    <3>1. entries' = {} /\ Apart(tree, Frontier)
      BY <1>4, <1>6, <2>2
    <3>2. Apart(tree, Frontier')
      BY <1>8, <3>1, LessRest
    <3> QED
      BY <1>7, <3>1, <3>2
  <2> QED
    BY <2>1, <2>2
<1>10. \A i, j \in 1 .. Len(pendingDirectories') :
          pendingDirectories'[i].path = pendingDirectories'[j].path => i = j
  <2>1. \A i \in 1 .. n - 1 : i \in 1 .. n
    BY <1>1
  <2> HIDE DEF n
  <2> QED
    BY <1>3, <1>4, <2>1
<1>11. FrontierIsApart'
  BY <1>7, <1>9, <1>10 DEF FrontierIsApart
<1> QED
  BY <1>1, <1>3, <1>5, <1>6, <1>7, <1>8, <1>11

LEMMA FrontierPasses ==
    ASSUME FrontierIsApart, NEW e \in Entry, Visit(e), UNCHANGED pendingDirectories
    PROVE  e \in Frontier /\ Frontier' = Frontier \ {e} /\ FrontierIsApart'
<1>1. /\ e \in entries /\ entries' = entries \ {e} /\ tree' = tree
      /\ directory' = directory /\ directory # NoDirectory
  BY DEF Visit
<1>2. Stacked' = Stacked
  BY DEF Stacked
<1>3. Stacked \intersect entries = {} /\ Apart(tree, Frontier)
  BY DEF FrontierIsApart
<1>4. e \in Frontier /\ Frontier' = Frontier \ {e}
  BY <1>1, <1>2, <1>3 DEF Frontier
<1>5. Apart(tree', Frontier')
  BY <1>1, <1>3, <1>4, LessRest
<1> QED
  BY <1>1, <1>2, <1>4, <1>5 DEF FrontierIsApart

LEMMA FrontierPushes ==
    ASSUME ScanInv, FindTypes, FrontierIsApart, NEW e \in Directory, Visit(e),
           pendingDirectories' =
              Append(pendingDirectories, [path |-> e, depth |-> directory.depth + 1])
    PROVE  Frontier' = Frontier /\ FrontierIsApart'
<1> DEFINE n == Len(pendingDirectories)
           p == [path |-> e, depth |-> directory.depth + 1]
<1>1. /\ e \in entries /\ entries' = entries \ {e} /\ tree' = tree
      /\ directory' = directory /\ directory # NoDirectory
  BY DEF Visit
<1>2. p \in Pending /\ p.path = e
  BY <1>1 DEF ScanInv, Pending
<1>3. pendingDirectories \in Seq(Pending) /\ n \in Nat
  BY StackParts
<1> HIDE DEF p
<1>4. /\ Len(pendingDirectories') = n + 1
      /\ \A i \in 1 .. n : pendingDirectories'[i] = pendingDirectories[i]
      /\ pendingDirectories'[n + 1] = p
  BY <1>2, <1>3, AppendProperties DEF p
<1>5. \A i \in 1 .. n + 1 : i \in 1 .. n \/ i = n + 1
  BY <1>3
<1>6. Stacked = {pendingDirectories[i].path : i \in 1 .. n}
  BY DEF Stacked
<1>7. e \notin Stacked
  BY <1>1 DEF FrontierIsApart
<1>8. \A i, j \in 1 .. n :
         pendingDirectories[i].path = pendingDirectories[j].path => i = j
  BY DEF FrontierIsApart
<1>13. n + 1 \in 1 .. n + 1 /\ 1 .. n \subseteq 1 .. n + 1
  BY <1>3
<1> HIDE DEF n
<1>9. Stacked' = Stacked \union {e}
  <2>1. Stacked' = {pendingDirectories'[i].path : i \in 1 .. n + 1}
    BY <1>4 DEF Stacked
  <2>2. /\ \A i \in 1 .. n : pendingDirectories'[i].path = pendingDirectories[i].path
        /\ pendingDirectories'[n + 1].path = e
    BY <1>2, <1>4
  <2> QED
    BY <1>5, <1>6, <1>13, <2>1, <2>2
<1>10. Frontier' = Frontier
  BY <1>1, <1>9 DEF Frontier
<1>11. Stacked' \intersect entries' = {}
  BY <1>1, <1>9 DEF FrontierIsApart
<1>12. \A i, j \in 1 .. n + 1 :
          pendingDirectories'[i].path = pendingDirectories'[j].path => i = j
  <2>1. \A i \in 1 .. n : pendingDirectories[i].path # e
    BY <1>6, <1>7
  <2> QED
    BY <1>2, <1>4, <1>5, <1>8, <2>1
<1>14. Apart(tree', Frontier')
  BY <1>1, <1>10 DEF FrontierIsApart
<1> QED
  BY <1>1, <1>4, <1>10, <1>11, <1>12, <1>14 DEF FrontierIsApart

LEMMA FrontierCloses ==
    ASSUME FrontierIsApart, UNCHANGED <<tree, pendingDirectories>>, entries' = {}
    PROVE  Frontier' \subseteq Frontier /\ FrontierIsApart'
           /\ (entries = {} => Frontier' = Frontier)
<1>1. Stacked' = Stacked
  BY DEF Stacked
<1>2. Frontier' \subseteq Frontier /\ (entries = {} => Frontier' = Frontier)
  BY <1>1 DEF Frontier
<1>3. Apart(tree', Frontier')
  BY <1>2, LessRest DEF FrontierIsApart
<1> QED
  BY <1>1, <1>2, <1>3 DEF FrontierIsApart

LEMMA FrontierStays ==
    ASSUME FrontierIsApart, UNCHANGED <<tree, pendingDirectories, entries, directory>>
    PROVE  Frontier' = Frontier /\ FrontierIsApart'
<1>1. Stacked' = Stacked
  BY DEF Stacked
<1>2. Frontier' = Frontier
  BY <1>1 DEF Frontier
<1> QED
  BY <1>1, <1>2 DEF FrontierIsApart

-----------------------------------------------------------------------------
(* Handing on a batch, and returning.                                      *)

LEMMA NothingInBatch ==
    /\ <<>> \in Seq(Found) /\ Len(<<>>) = 0
    /\ Keys(<<>>) = {} /\ Listed(<<>>) = {} /\ OncePerKey(<<>>)
BY EmptySeq DEF Keys, Listed, OncePerKey

LEMMA PublishKeeps ==
    ASSUME FindTypes, FindsAreKept, NEW b \in Seq(Found), OncePerKey(b), Publish(b)
    PROVE  /\ batch' = <<>> /\ handed' \in Seq(Found) /\ duplicates' \in Nat
           /\ publishedPaths' = publishedPaths \union Keys(b)
           /\ publishedPaths' \subseteq PathKeys
           /\ Keys(handed') = publishedPaths' /\ OncePerKey(handed')
           /\ Len(handed') \in Nat /\ Len(handed) \in Nat /\ Len(b) \in Nat
           /\ Len(handed') + duplicates' = Len(handed) + duplicates + Len(b)
<1> DEFINE u == Unique(b)
<1>1. /\ u \in Seq(Found) /\ Keys(u) = Keys(b) \ publishedPaths
      /\ OncePerKey(u) /\ Len(u) <= Len(b)
  BY UniqueFinds
<1>2. /\ batch' = <<>> /\ handed' = handed \o u
      /\ duplicates' = duplicates + Len(b) - Len(u)
      /\ publishedPaths' = publishedPaths \union Keys(b)
  BY DEF Publish, Skipped, Keys
<1> HIDE DEF u
<1>3. handed \in Seq(Found) /\ Keys(handed) = publishedPaths /\ OncePerKey(handed)
      /\ publishedPaths \subseteq PathKeys /\ duplicates \in Nat
  BY DEF FindTypes, FindsAreKept
<1>4. /\ handed' \in Seq(Found) /\ Len(handed') = Len(handed) + Len(u)
      /\ Keys(handed') = Keys(handed) \union Keys(u) /\ OncePerKey(handed')
  BY <1>1, <1>2, <1>3, JoinFinds
<1>5. Len(handed) \in Nat /\ Len(u) \in Nat /\ Len(b) \in Nat
  BY <1>1, <1>3, LenProperties
<1>6. Keys(b) \subseteq PathKeys
  <2>1. \A i \in 1 .. Len(b) : b[i] \in Found
    BY ElementOfSeq
  <2> QED
    BY <2>1 DEF Keys, PathKeys
<1>7. duplicates' \in Nat /\ Len(handed') \in Nat
      /\ Len(handed') + duplicates' = Len(handed) + duplicates + Len(b)
  BY <1>1, <1>2, <1>3, <1>4, <1>5
<1> QED
  BY <1>1, <1>2, <1>3, <1>4, <1>5, <1>6, <1>7

LEMMA ToldLater ==
    ASSUME NEW s, NEW t, NEW P, NEW Q, P \subseteq Q, Told(s, t, P)
    PROVE  Told(s, t, Q)
BY DEF Told, PdfsUnder

(* When a scan returns, nothing is left in the batch, and if the outcome   *)
(* is true of this root all outcomes are.                                  *)
LEMMA ReturnKeeps ==
    ASSUME ScanInv, FindTypes, FindsAreKept, AllTold, scanning,
           NEW o \in Outcome, Return(o), UNCHANGED tree, entries' \subseteq Entry,
           NEW r, r = Head(roots),
           \A d : Told([root |-> r, outcome |-> o, progress |-> progress,
                        duplicates |-> d], tree, publishedPaths \union Keys(batch))
    PROVE  FindTypes' /\ FindsAreKept' /\ AllTold' /\ ~scanning'
<1> DEFINE s == [root |-> Head(roots), outcome |-> o, progress |-> progress,
                 duplicates |-> duplicates']
<1>1. batch \in Seq(Found) /\ OncePerKey(batch)
  BY DEF FindTypes, FindsAreKept
<1>2. Publish(batch) /\ result' = Append(result, s) /\ ~scanning' /\ progress' = progress
  BY DEF Return, Flush
<1>3. /\ batch' = <<>> /\ handed' \in Seq(Found) /\ duplicates' \in Nat
      /\ publishedPaths' = publishedPaths \union Keys(batch)
      /\ publishedPaths' \subseteq PathKeys
      /\ Keys(handed') = publishedPaths' /\ OncePerKey(handed')
      /\ Len(handed') \in Nat /\ Len(handed) \in Nat /\ Len(batch) \in Nat
      /\ Len(handed') + duplicates' = Len(handed) + duplicates + Len(batch)
  BY <1>1, <1>2, PublishKeeps
<1>4. s \in Summary
  <2>1. Head(roots) \in Directory /\ progress \in Progress
    BY HeadTailProperties DEF ScanInv
  <2> QED
    BY <1>3, <2>1 DEF Summary
<1>5. s.progress = progress /\ s.duplicates = duplicates'
  OBVIOUS
<1>6. Told(s, tree, publishedPaths')
  BY <1>3
<1> HIDE DEF s
<1>7. result \in Seq(Summary)
  BY DEF FindTypes
<1>8. /\ result' \in Seq(Summary) /\ Len(result') = Len(result) + 1 /\ Len(result) \in Nat
      /\ \A i \in 1 .. Len(result) : result'[i] = result[i]
      /\ result'[Len(result) + 1] = s
  BY <1>2, <1>4, <1>7, AppendProperties, LenProperties
<1>9. AllTold'
  <2>1. ASSUME NEW i \in 1 .. Len(result) + 1 PROVE Told(result'[i], tree, publishedPaths')
    <3>1. CASE i \in 1 .. Len(result)
      <4>1. Told(result[i], tree, publishedPaths) /\ result'[i] = result[i]
        BY <1>8, <3>1 DEF AllTold
      <4> QED
        BY <1>3, <4>1, ToldLater
    <3>2. CASE i = Len(result) + 1
      BY <1>6, <1>8, <3>2
    <3> QED
      BY <1>8, <3>1, <3>2
  <2> QED
    BY <1>8, <2>1 DEF AllTold
<1>10. Reported' = Reported + (progress.pdfFilesFound - duplicates')
  <2>1. Total(Append(result, s)) = Total(result) + NewIn(s)
    BY <1>4, <1>7, TotalOfAppended
  <2>2. Reported' = Total(result')
    BY DEF Reported, Total, IsSum, SumUpTo, NewIn
  <2> QED
    BY <1>2, <1>5, <2>1, <2>2, ReportedIsTotal DEF NewIn
<1>11. Reported \in Int /\ progress.pdfFilesFound \in Nat
       /\ Reported + progress.pdfFilesFound = Len(handed) + (duplicates + Len(batch))
  BY <1>7, ReportedIsTotal, TotalIsNumber DEF FindsAreKept, ScanInv, Progress
<1>12. duplicates \in Nat
  BY DEF FindTypes
<1>13. Reported' = Len(handed')
  BY <1>3, <1>10, <1>11, <1>12
<1>14. FindsAreKept'
  <2>1. Reported' + 0 = Len(handed') + 0
    BY <1>3, <1>13
  <2> QED
    BY <1>2, <1>3, <2>1, NothingInBatch DEF FindsAreKept
<1>15. FindTypes'
  BY <1>3, <1>8, NothingInBatch DEF FindTypes
<1> QED
  BY <1>2, <1>9, <1>14, <1>15

(* Steps that hand on nothing and leave nothing more to do.                *)
LEMMA NothingFound ==
    ASSUME FindTypes, FindsAreKept, AllTold,
           UNCHANGED <<tree, scanning, batch, duplicates, publishedPaths, handed, result>>,
           progress'.pdfFilesFound = progress.pdfFilesFound,
           entries' \subseteq Entry,
           scanning => Rest' \subseteq Rest
    PROVE  FindTypes' /\ FindsAreKept' /\ AllTold'
<1>1. FindTypes'
  BY DEF FindTypes
<1>2. Reported' = Reported
  BY DEF Reported
<1>3. FindsAreKept'
  BY <1>2 DEF FindsAreKept
<1>4. AllTold'
  BY DEF AllTold
<1> QED
  BY <1>1, <1>3, <1>4

LEMMA RestPasses ==
    ASSUME FindTypes, FrontierIsApart, NEW e \in Entry, Visit(e),
           UNCHANGED pendingDirectories
    PROVE  /\ e \in Rest /\ Rest' \subseteq Rest \ {e}
           /\ e \notin Directory => Rest' = Rest \ {e}
           /\ FrontierIsApart'
<1>1. e \in Frontier /\ Frontier' = Frontier \ {e} /\ FrontierIsApart' /\ tree' = tree
  BY FrontierPasses DEF Visit
<1>2. Rest' = AtOrBelow(tree, Frontier \ {e}) /\ Rest = AtOrBelow(tree, Frontier)
  BY <1>1 DEF Rest
<1>3. Apart(tree, Frontier) /\ tree \in [Entry -> Directory]
  BY DEF FrontierIsApart, FindTypes
<1>4. /\ AtOrBelow(tree, Frontier \ {e}) \subseteq AtOrBelow(tree, Frontier) \ {e}
      /\ Below(tree, e) = {} =>
            AtOrBelow(tree, Frontier \ {e}) = AtOrBelow(tree, Frontier) \ {e}
      /\ e \in AtOrBelow(tree, Frontier)
  BY <1>1, <1>3, DroppedRest
<1>5. e \notin Directory => Below(tree, e) = {}
  BY <1>3, NothingBelowFiles
<1> QED
  BY <1>1, <1>2, <1>4, <1>5

(* A visit that counts nothing new but may drop the entry.                 *)
LEMMA VisitKeeps ==
    ASSUME ScanInv, TallyInv, NEW e \in Entry, Visit(e), UNCHANGED pendingDirectories,
           NEW df \in {0, 1}, df = 1 => e \in Pdf,
           progress' \in Progress,
           progress'.directoriesVisited = progress.directoriesVisited,
           progress'.pdfFilesFound = progress.pdfFilesFound + df,
           ~Missed' => /\ ~Missed /\ e \notin Directory
                       /\ e \in Pdf => df = 1 /\ e \in Kept'
                       /\ progress'.inaccessibleEntries = progress.inaccessibleEntries
                       /\ Kept \subseteq Kept',
           Cut' => Cut \/ e \in Directory \/ (e \in Pdf /\ df = 0)
    PROVE  RootTally'
<1> SUFFICES ASSUME scanning'
             PROVE  Tally(tree, Head(roots), Rest, progress, Missed, Cut, Kept)'
  BY DEF RootTally
<1>1. scanning /\ tree' = tree /\ roots' = roots
  BY DEF Visit
<1>2. /\ e \in Rest /\ Rest' \subseteq Rest \ {e}
      /\ e \notin Directory => Rest' = Rest \ {e}
  BY RestPasses DEF TallyInv
<1>3. Tally(tree, Head(roots), Rest, progress, Missed, Cut, Kept)
  BY <1>1 DEF TallyInv, RootTally
<1>4. progress \in Progress
  BY DEF ScanInv
<1>5. progress'.directoriesVisited = progress.directoriesVisited + 0
  BY DEF Progress
<1>6. Tally(tree, Head(roots), Rest', progress', Missed', Cut', Kept')
  <2> DEFINE m == Missed
             n == Missed'
             c == Cut
             d == Cut'
             h == Kept
             k == Kept'
             r == Head(roots)
  <2>1. ~n => /\ ~m /\ Rest' = Rest \ {e}
              /\ e \in Directory => 0 = 1
              /\ e \in Pdf => df = 1 /\ e \in k
              /\ progress'.inaccessibleEntries = progress.inaccessibleEntries
              /\ h \subseteq k
    BY <1>2
  <2>2. d => \/ c
             \/ e \in Directory /\ 0 = 0
             \/ e \in Pdf /\ df = 0
    OBVIOUS
  <2>3. Tally(tree, r, Rest, progress, m, c, h)
    BY <1>3
  <2> HIDE DEF m, n, c, d, h, k, r
  <2>4. Tally(tree, r, Rest', progress', n, d, k)
    BY <1>2, <1>4, <1>5, <2>1, <2>2, <2>3, 0 \in {0, 1}, 0 = 1 => e \in Directory,
       TallyPasses
  <2> QED
    BY <2>4 DEF n, d, k, r
<1> QED
  BY <1>1, <1>6

LEMMA TallyInvInit == Init => TallyInv
<1> SUFFICES ASSUME Init PROVE TallyInv
  OBVIOUS
<1> USE DEF Init, AtRest
<1>1. FindTypes
  BY NothingInBatch, EmptySeq DEF FindTypes
<1>2. Stacked = {} /\ Frontier = {}
  BY EmptySeq DEF Stacked, Frontier
<1>3. FrontierIsApart
  BY <1>2, EmptySeq DEF FrontierIsApart, Apart
<1>4. Reported = 0
  BY ReportedIsTotal, TotalOfNothing
<1>5. FindsAreKept
  BY <1>4, NothingInBatch DEF FindsAreKept
<1>6. AllTold
  BY EmptySeq DEF AllTold
<1> QED
  BY <1>1, <1>3, <1>5, <1>6 DEF TallyInv, RootTally

LEMMA BeginKeeps ==
    ASSUME ScanInv, TallyInv, BeginScan
    PROVE  TallyInv'
<1>1. /\ Head(roots) \in Directory /\ Frontier' = {Head(roots)} /\ FrontierIsApart'
      /\ tree' = tree /\ roots' = roots /\ ~scanning
  BY FrontierBegins DEF TallyInv, BeginScan
<1>2. FindTypes'
  BY NothingInBatch DEF TallyInv, FindTypes, BeginScan
<1>3. Reported' = Reported
  BY DEF Reported, BeginScan
<1>4. FindsAreKept'
  <2>1. Reported = Len(handed) /\ Reported \in Int
    <3>1. Reported + 0 = Len(handed) + 0
      BY <1>1 DEF TallyInv, FindsAreKept
    <3>2. Reported \in Int /\ Len(handed) \in Nat
      BY ReportedIsTotal, TotalIsNumber, LenProperties DEF TallyInv, FindTypes
    <3> QED
      BY <3>1, <3>2
  <2>2. progress'.pdfFilesFound = 0 /\ duplicates' = 0 /\ batch' = <<>>
    BY DEF BeginScan, ZeroProgress
  <2>3. /\ Keys(handed') = publishedPaths' /\ OncePerKey(handed') /\ OncePerKey(batch')
        /\ Listed(batch') = {}
    BY <2>2, NothingInBatch DEF TallyInv, FindsAreKept, BeginScan
  <2>4. Reported' + 0 = Len(handed') + (0 + 0)
    BY <1>3, <2>1 DEF BeginScan
  <2> QED
    BY <2>2, <2>3, <2>4, NothingInBatch DEF FindsAreKept, BeginScan
<1>5. Tally(tree, Head(roots), Rest, progress, Missed, Cut, Kept)'
  <2>1. Rest' = AtOrBelow(tree, {Head(roots)}) /\ progress' = ZeroProgress /\ ~Cut'
    BY <1>1 DEF Rest, BeginScan, Cut
  <2>2. Cut' = FALSE
    BY <2>1 DEF Cut
  <2> DEFINE m == Missed'
             k == Kept'
  <2> HIDE DEF m, k
  <2>3. Tally(tree, Head(roots), AtOrBelow(tree, {Head(roots)}), ZeroProgress, m, FALSE, k)
    BY <1>1, TallyBegins DEF TallyInv, FindTypes
  <2> QED
    BY <1>1, <2>1, <2>2, <2>3 DEF m, k
<1>6. NothingReadYet'
  <2>1. Len(pendingDirectories') = 1
    BY DEF BeginScan
  <2> QED
    BY <2>1 DEF NothingReadYet, BeginScan, ZeroProgress
<1>7. AllTold'
  BY DEF TallyInv, AllTold, BeginScan
<1> QED
  BY <1>1, <1>2, <1>4, <1>5, <1>6, <1>7 DEF TallyInv, RootTally

LEMMA OpenKeeps ==
    ASSUME ScanInv, TallyInv, OpenDirectory
    PROVE  TallyInv'
<1>1. PICK x \in Frontier :
         /\ x \in Directory
         /\ entries' = IF opened' THEN Holds(tree, x) ELSE {}
         /\ Frontier' = (Frontier \ {x}) \union entries'
         /\ FrontierIsApart'
         /\ Len(pendingDirectories') = Len(pendingDirectories) - 1
  BY FrontierOpens DEF TallyInv
<1>2. /\ tree' = tree /\ roots' = roots /\ scanning /\ scanning' /\ directory = NoDirectory
      /\ opened' \in BOOLEAN /\ incomplete' = incomplete /\ hitLimit' = hitLimit
      /\ stopped' = FALSE /\ cancelled' = cancelled /\ limits' = limits
      /\ batch' = batch /\ duplicates' = duplicates /\ publishedPaths' = publishedPaths
      /\ handed' = handed /\ result' = result
      /\ sawReadableDirectory' = sawReadableDirectory
  BY DEF OpenDirectory, Between
<1>3. Apart(tree, Frontier) /\ tree \in [Entry -> Directory]
  BY DEF TallyInv, FrontierIsApart, FindTypes
<1>4. /\ x \in Rest /\ Rest' \subseteq Rest \ {x}
      /\ opened' => Rest' = Rest \ {x}
  <2>1. Rest = AtOrBelow(tree, Frontier)
        /\ Rest' = AtOrBelow(tree, (Frontier \ {x}) \union entries')
    BY <1>1, <1>2 DEF Rest
  <2>2. CASE opened'
    <3>1. Rest' = AtOrBelow(tree, (Frontier \ {x}) \union Holds(tree, x))
      BY <1>1, <2>1, <2>2
    <3> QED
      BY <1>3, <2>1, <3>1, OpenedRest
  <2>3. CASE ~opened'
    <3>1. Rest' = AtOrBelow(tree, Frontier \ {x})
      BY <1>1, <2>1, <2>3
    <3> QED
      BY <1>3, <2>1, <2>3, <3>1, DroppedRest
  <2> QED
    BY <2>2, <2>3
<1>5. /\ progress \in Progress /\ progress' \in Progress
      /\ progress'.directoriesVisited = progress.directoriesVisited + 1
      /\ progress'.pdfFilesFound = progress.pdfFilesFound + 0
      /\ progress'.pdfFilesFound = progress.pdfFilesFound
      /\ progress'.inaccessibleEntries = progress.inaccessibleEntries
  <2>1. /\ progress \in Progress
        /\ progress' = [progress EXCEPT !["directoriesVisited"] = @ + 1]
    BY DEF OpenDirectory, Add, ScanInv
  <2> QED
    BY <2>1 DEF Progress
<1>6. entries' \subseteq Entry
  BY <1>1 DEF Holds
<1>7. FindTypes' /\ FindsAreKept' /\ AllTold'
  BY <1>2, <1>4, <1>5, <1>6, NothingFound DEF TallyInv
<1>10. directory' # NoDirectory
  <2>1. Len(pendingDirectories) # 0
    BY StackParts, EmptySeq DEF OpenDirectory
  <2>2. Len(pendingDirectories) \in 1 .. Len(pendingDirectories)
    BY <2>1, StackParts
  <2>3. directory' \in Pending
    BY <2>2, StackParts DEF OpenDirectory
  <2> QED
    BY <2>3, ScannerAssumption DEF Pending
<1>8. Tally(tree, Head(roots), Rest, progress, Missed, Cut, Kept)'
  <2> DEFINE m == Missed
             n == Missed'
             c == Cut
             d == Cut'
             h == Kept
             r == Head(roots)
  <2>1. ~n => ~m /\ opened'
    BY <1>2, <1>10 DEF Missed
  <2>2. d => c
    BY <1>2 DEF Cut
  <2>3. Kept' = h
    BY <1>2 DEF Kept
  <2>4. Tally(tree, r, Rest, progress, m, c, h)
    BY <1>2 DEF TallyInv, RootTally
  <2>5. x \notin Pdf
    BY <1>1, ScannerAssumption
  <2> HIDE DEF m, n, c, d, h, r
  <2>6. Tally(tree, r, Rest', progress', n, d, h)
    BY <1>1, <1>4, <1>5, <2>1, <2>2, <2>4, <2>5, 0 \in {0, 1}, 1 \in {0, 1}, 0 # 1,
       TallyPasses
  <2> QED
    BY <1>2, <2>3, <2>6 DEF n, d, r
<1>9. NothingReadYet'
  <2>1. ASSUME ~sawReadableDirectory', ~opened'
        PROVE  /\ entries' = {} /\ progress'.pdfFilesFound = 0
               /\ progress'.inaccessibleEntries = 0
               /\ progress'.directoriesVisited + Len(pendingDirectories') = 1
    <3>1. NothingReadYet /\ ~sawReadableDirectory /\ ~opened
      BY <1>2, <2>1 DEF TallyInv, NothingReadYet
    <3>2. /\ progress.pdfFilesFound = 0 /\ progress.inaccessibleEntries = 0
          /\ progress.directoriesVisited + Len(pendingDirectories) = 1
      BY <3>1 DEF NothingReadYet
    <3>3. progress.directoriesVisited \in Nat /\ Len(pendingDirectories) \in Nat
      BY <1>5, StackParts DEF Progress
    <3> QED
      BY <1>1, <1>5, <2>1, <3>2, <3>3
  <2> QED
    BY <1>10, <2>1 DEF NothingReadYet
<1> QED
  BY <1>1, <1>7, <1>8, <1>9 DEF TallyInv, RootTally

(* What all visits that do not find a PDF leave alone.                     *)
LEMMA VisitLeaves ==
    ASSUME ScanInv, TallyInv, NEW e \in Entry, Visit(e),
           UNCHANGED <<batch, duplicates, publishedPaths, handed>>,
           progress'.pdfFilesFound = progress.pdfFilesFound,
           FrontierIsApart', Rest' \subseteq Rest
    PROVE  FindTypes' /\ FindsAreKept' /\ AllTold' /\ NothingReadYet'
<1>1. FindTypes' /\ FindsAreKept' /\ AllTold'
  <2>1. entries' \subseteq Entry
    BY DEF Visit, TallyInv, FindTypes
  <2> QED
    BY <2>1, NothingFound DEF Visit, TallyInv
<1>2. scanning /\ directory # NoDirectory /\ directory' = directory
      /\ e \in entries /\ opened' = opened /\ sawReadableDirectory' = sawReadableDirectory
  BY DEF Visit, ScanInv
<1>3. NothingReadYet'
  BY <1>2 DEF TallyInv, NothingReadYet
<1> QED
  BY <1>1, <1>3

LEMMA DroppingVisitKeeps ==
    ASSUME ScanInv, TallyInv, NEW e \in Entry, Visit(e),
           UNCHANGED <<pendingDirectories, batch, duplicates, publishedPaths, handed>>,
           progress' \in Progress,
           progress'.directoriesVisited = progress.directoriesVisited,
           progress'.pdfFilesFound = progress.pdfFilesFound,
           ~Missed' => /\ ~Missed /\ e \notin Directory /\ e \notin Pdf
                       /\ progress'.inaccessibleEntries = progress.inaccessibleEntries,
           Cut' => Cut \/ e \in Directory \/ e \in Pdf
    PROVE  TallyInv'
<1>1. Rest' \subseteq Rest /\ FrontierIsApart'
  BY RestPasses DEF TallyInv
<1>2. FindTypes' /\ FindsAreKept' /\ AllTold' /\ NothingReadYet'
  BY <1>1, VisitLeaves
<1>3. progress'.pdfFilesFound = progress.pdfFilesFound + 0
  BY DEF Progress
<1>4. Kept' = Kept
  BY DEF Kept, Visit
<1>5. RootTally'
  <2>1. ~Missed' => /\ ~Missed /\ e \notin Directory
                    /\ e \in Pdf => 0 = 1 /\ e \in Kept'
                    /\ progress'.inaccessibleEntries = progress.inaccessibleEntries
                    /\ Kept \subseteq Kept'
    BY <1>4
  <2>2. Cut' => Cut \/ e \in Directory \/ (e \in Pdf /\ 0 = 0)
    OBVIOUS
  <2> QED
    BY <1>3, <2>1, <2>2, 0 \in {0, 1}, 0 # 1, VisitKeeps
<1> QED
  BY <1>1, <1>2, <1>5 DEF TallyInv, RootTally

LEMMA StopKeeps ==
    ASSUME ScanInv, TallyInv, NEW e \in Entry, StopAtEntry(e)
    PROVE  TallyInv'
<1>1. /\ Visit(e) /\ progress' = progress /\ stopped' = TRUE /\ cancelled' = cancelled
      /\ UNCHANGED <<pendingDirectories, batch, duplicates, publishedPaths, handed>>
      /\ cancelled /\ hitLimit' = hitLimit /\ directory' # NoDirectory
  BY DEF StopAtEntry, Visit, batchVars
<1>2. Missed' /\ (Cut' => Cut) /\ progress' \in Progress
  BY <1>1 DEF Missed, Cut, ScanInv
<1> QED
  BY <1>1, <1>2, DroppingVisitKeeps

LEMMA InaccessibleKeeps ==
    ASSUME ScanInv, TallyInv, NEW e \in Entry, VisitInaccessible(e)
    PROVE  TallyInv'
<1>1. /\ Visit(e) /\ incomplete' = TRUE /\ stopped' = FALSE /\ hitLimit' = hitLimit
      /\ UNCHANGED <<pendingDirectories, batch, duplicates, publishedPaths, handed>>
      /\ progress' = [progress EXCEPT !["inaccessibleEntries"] = @ + 1]
  BY DEF VisitInaccessible, Visit, Add
<1>2. /\ progress' \in Progress
      /\ progress'.directoriesVisited = progress.directoriesVisited
      /\ progress'.pdfFilesFound = progress.pdfFilesFound
  BY <1>1 DEF ScanInv, Progress
<1>3. Missed' /\ (Cut' => Cut)
  BY <1>1 DEF Missed, Cut
<1> QED
  BY <1>1, <1>2, <1>3, DroppingVisitKeeps

LEMMA DirectoryKeeps ==
    ASSUME ScanInv, TallyInv, NEW e \in Entry, VisitDirectory(e)
    PROVE  TallyInv'
<1>1. /\ Visit(e) /\ e \in Directory /\ progress' = progress /\ progress \in Progress
      /\ UNCHANGED <<batch, duplicates, publishedPaths, handed>>
      /\ directory' # NoDirectory
  BY DEF VisitDirectory, Visit, batchVars, ScanInv
<1>2. CASE UNCHANGED pendingDirectories /\ Missed'
  BY <1>1, <1>2, DroppingVisitKeeps
<1>3. CASE /\ pendingDirectories' =
                 Append(pendingDirectories, [path |-> e, depth |-> directory.depth + 1])
           /\ UNCHANGED <<stopped, incomplete, hitLimit>>
  <2>1. Frontier' = Frontier /\ FrontierIsApart' /\ tree' = tree
    BY <1>1, <1>3, FrontierPushes DEF TallyInv, Visit
  <2>2. Rest' = Rest
    BY <2>1 DEF Rest
  <2>3. FindTypes' /\ FindsAreKept' /\ AllTold' /\ NothingReadYet'
    BY <1>1, <2>1, <2>2, VisitLeaves
  <2>4. Missed' = Missed /\ Cut' = Cut /\ Kept' = Kept /\ roots' = roots
        /\ scanning' = scanning
    BY <1>1, <1>3 DEF Missed, Cut, Kept, Visit, FilesFull
  <2>5. RootTally'
    BY <1>1, <2>1, <2>2, <2>4 DEF RootTally, TallyInv
  <2> QED
    BY <2>1, <2>3, <2>5 DEF TallyInv, RootTally
<1>4. ASSUME UNCHANGED pendingDirectories, incomplete' \/ stopped'
      PROVE  TallyInv'
  <2>1. Missed'
    BY <1>1, <1>4 DEF Missed
  <2> QED
    BY <1>2, <1>4, <2>1
<1> QED
  BY <1>3, <1>4 DEF VisitDirectory

LEMMA IgnoredKeeps ==
    ASSUME ScanInv, TallyInv, NEW e \in Entry, VisitIgnored(e)
    PROVE  TallyInv'
<1>1. /\ Visit(e) /\ progress' = progress /\ progress' \in Progress
      /\ UNCHANGED <<pendingDirectories, batch, duplicates, publishedPaths, handed>>
      /\ e \notin Directory /\ e \notin Pdf
  BY ScannerAssumption DEF VisitIgnored, Visit, batchVars, ScanInv
<1>2. (Missed' <=> Missed) /\ (Cut' <=> Cut)
  BY <1>1 DEF Missed, Cut, VisitIgnored, Visit, FilesFull
<1> QED
  BY <1>1, <1>2, DroppingVisitKeeps

LEMMA PdfKeeps ==
    ASSUME ScanInv, TallyInv, NEW e \in Entry, VisitPdf(e)
    PROVE  TallyInv'
<1>1. /\ Visit(e) /\ e \in Pdf /\ e \notin Directory
      /\ UNCHANGED <<pendingDirectories, incomplete, hitLimit>>
      /\ directory' # NoDirectory /\ directory' = directory
  BY ScannerAssumption DEF VisitPdf, Visit
<1>2. CASE stopped' = TRUE /\ UNCHANGED batchVars
  <2>1. Missed' /\ progress' = progress /\ progress' \in Progress
        /\ UNCHANGED <<batch, duplicates, publishedPaths, handed>>
    BY <1>1, <1>2 DEF Missed, batchVars, ScanInv
  <2> QED
    BY <1>1, <2>1, DroppingVisitKeeps
<1>3. CASE TakePdf(e)
  <2> DEFINE x == Path(e)
             extended == Append(batch, x)
  <2>1. /\ progress' \in Progress /\ stopped' = stopped
        /\ progress'.directoriesVisited = progress.directoriesVisited
        /\ progress'.pdfFilesFound = progress.pdfFilesFound + 1
        /\ progress'.inaccessibleEntries = progress.inaccessibleEntries
    <3>1. progress' = [progress EXCEPT !["pdfFilesFound"] = @ + 1] /\ progress \in Progress
      BY <1>3 DEF TakePdf, Add, ScanInv
    <3> QED
      BY <1>3, <3>1 DEF Progress, TakePdf
  <2>2. x \in Found /\ x.entry = e /\ x = [root |-> Head(roots), entry |-> e]
    <3>1. Head(roots) \in Directory
      BY <1>1, HeadTailProperties DEF ScanInv, Visit
    <3> QED
      BY <1>1, <3>1 DEF Path, Found
  <2>3. /\ scanning /\ batch \in Seq(Found) /\ OncePerKey(batch)
        /\ Listed(batch) \intersect Rest = {}
        /\ FindTypes /\ FindsAreKept
    BY <1>1 DEF TallyInv, FindsAreKept, FindTypes, Visit, ScanInv
  <2>4. e \in Rest /\ Rest' = Rest \ {e} /\ FrontierIsApart'
    BY <1>1, RestPasses DEF TallyInv
  <2> HIDE DEF x
  <2>5. /\ extended \in Seq(Found) /\ Len(extended) = Len(batch) + 1
        /\ Keys(extended) = Keys(batch) \union {LibraryPathKey(x)}
        /\ Listed(extended) = Listed(batch) \union {e} /\ OncePerKey(extended)
    BY <2>2, <2>3, <2>4, AppendFind, AppendListed
  <2>15. \A K : PdfsUnder(Head(roots), K \union {LibraryPathKey(x)})
                   = PdfsUnder(Head(roots), K) \union {e}
    <3>1. \A q : LibraryPathKey([root |-> Head(roots), entry |-> q]) = LibraryPathKey(x)
                    <=> q = e
      BY <2>2 DEF LibraryPathKey
    <3>2. e \in Pdf
      BY <1>1
    <3> QED
      BY <3>1, <3>2 DEF PdfsUnder
  <2>6. \/ Publish(extended)
        \/ batch' = extended /\ UNCHANGED <<duplicates, publishedPaths, handed>>
    BY <1>3 DEF TakePdf, x
  <2> HIDE DEF extended
  <2>7. Len(handed) \in Nat /\ Len(batch) \in Nat /\ duplicates \in Nat
        /\ Keys(handed) = publishedPaths /\ OncePerKey(handed) /\ handed \in Seq(Found)
        /\ publishedPaths \subseteq PathKeys
    BY <2>3, LenProperties DEF FindTypes, FindsAreKept
  <2>8. /\ batch' \in Seq(Found) /\ handed' \in Seq(Found) /\ duplicates' \in Nat
        /\ publishedPaths' \subseteq PathKeys /\ publishedPaths \subseteq publishedPaths'
        /\ Keys(handed') = publishedPaths' /\ OncePerKey(handed') /\ OncePerKey(batch')
        /\ Listed(batch') \subseteq Listed(batch) \union {e}
        /\ Kept' = Kept \union {e}
        /\ Len(handed') + (duplicates' + Len(batch'))
              = Len(handed) + (duplicates + Len(batch)) + 1
    <3>1. CASE Publish(extended)
      <4>1. /\ batch' = <<>> /\ handed' \in Seq(Found) /\ duplicates' \in Nat
            /\ publishedPaths' = publishedPaths \union Keys(extended)
            /\ publishedPaths' \subseteq PathKeys
            /\ Keys(handed') = publishedPaths' /\ OncePerKey(handed')
            /\ Len(handed') \in Nat
            /\ Len(handed') + duplicates' = Len(handed) + duplicates + Len(extended)
        BY <2>3, <2>5, <3>1, PublishKeeps
      <4>2. Kept' = Kept \union {e}
        <5>1. publishedPaths' \union Keys(batch')
                 = (publishedPaths \union Keys(batch)) \union {LibraryPathKey(x)}
          BY <2>5, <4>1, NothingInBatch
        <5> QED
          BY <1>1, <2>15, <5>1 DEF Kept, Visit
      <4>3. Len(handed') + (duplicates' + Len(batch'))
               = Len(handed) + (duplicates + Len(batch)) + 1
        BY <2>5, <2>7, <4>1, NothingInBatch
      <4> QED
        BY <4>1, <4>2, <4>3, NothingInBatch
    <3>2. CASE batch' = extended /\ UNCHANGED <<duplicates, publishedPaths, handed>>
      <4>1. Kept' = Kept \union {e}
        <5>1. publishedPaths' \union Keys(batch')
                 = (publishedPaths \union Keys(batch)) \union {LibraryPathKey(x)}
          BY <2>5, <3>2
        <5> QED
          BY <1>1, <2>15, <5>1 DEF Kept, Visit
      <4>2. Len(handed') + (duplicates' + Len(batch'))
               = Len(handed) + (duplicates + Len(batch)) + 1
        BY <2>5, <2>7, <3>2
      <4> QED
        BY <2>5, <2>7, <3>2, <4>1, <4>2
    <3> QED
      BY <2>6, <3>1, <3>2
  <2>9. /\ tree' = tree /\ entries' \subseteq Entry /\ result' = result
        /\ scanning' /\ opened' = opened /\ sawReadableDirectory' = sawReadableDirectory
        /\ e \in entries
    BY <1>1, <2>3 DEF Visit, FindTypes
  <2>10. FindTypes'
    BY <2>3, <2>8, <2>9 DEF FindTypes
  <2>11. FindsAreKept'
    <3>1. Reported' = Reported /\ Reported \in Int
      BY <2>3, <2>9, ReportedIsTotal, TotalIsNumber DEF Reported, FindTypes
    <3>2. Reported + progress.pdfFilesFound = Len(handed) + (duplicates + Len(batch))
      BY <2>3 DEF FindsAreKept
    <3>3. progress.pdfFilesFound \in Nat
      BY DEF ScanInv, Progress
    <3>4. Reported' + progress'.pdfFilesFound = Len(handed') + (duplicates' + Len(batch'))
      BY <2>1, <2>7, <2>8, <3>1, <3>2, <3>3
    <3>5. Listed(batch') \intersect Rest' = {}
      BY <2>3, <2>4, <2>8
    <3> QED
      BY <2>8, <2>9, <3>4, <3>5 DEF FindsAreKept
  <2>12. AllTold'
    BY <2>8, <2>9, ToldLater DEF AllTold, TallyInv
  <2>13. NothingReadYet'
    BY <1>1, <2>3, <2>9 DEF NothingReadYet, TallyInv
  <2>14. RootTally'
    <3>1. (Missed' <=> Missed) /\ (Cut' => Cut)
      BY <1>1, <2>1, <2>9 DEF Missed, Cut, Visit
    <3>2. ~Missed' => /\ ~Missed /\ e \notin Directory
                      /\ e \in Pdf => 1 = 1 /\ e \in Kept'
                      /\ progress'.inaccessibleEntries = progress.inaccessibleEntries
                      /\ Kept \subseteq Kept'
      BY <1>1, <2>1, <2>8, <3>1
    <3> QED
      BY <1>1, <2>1, <3>1, <3>2, 1 \in {0, 1}, VisitKeeps
  <2> QED
    BY <2>4, <2>10, <2>11, <2>12, <2>13, <2>14 DEF TallyInv, RootTally
<1> QED
  BY <1>2, <1>3 DEF VisitPdf

(* What follows a listing.                                                 *)
LEMMA CloseKeeps ==
    ASSUME ScanInv, TallyInv, NEW complete \in BOOLEAN, CloseDirectory(complete)
    PROVE  TallyInv'
<1>1. /\ scanning /\ directory # NoDirectory /\ directory' = NoDirectory /\ entries' = {}
      /\ complete => opened /\ ~stopped /\ entries = {}
      /\ sawReadableDirectory' = (sawReadableDirectory \/ opened)
      /\ incomplete' = (incomplete \/ ~opened \/ ~complete)
      /\ tree' = tree /\ limits' = limits /\ cancelled' = cancelled
      /\ pendingDirectories' = pendingDirectories /\ opened' = opened
      /\ stopped' = stopped /\ hitLimit' = hitLimit
  BY DEF CloseDirectory, AnyReadable, AnyMissed, ScanInv
<1>2. Frontier' \subseteq Frontier /\ FrontierIsApart'
      /\ (entries = {} => Frontier' = Frontier)
  BY <1>1, FrontierCloses DEF TallyInv
<1>3. Rest' \subseteq Rest /\ (entries = {} => Rest' = Rest)
  BY <1>1, <1>2, LessRest DEF Rest
<1>4. progress \in Progress
  BY DEF ScanInv
<1>5. Tally(tree, Head(roots), Rest, progress, Missed, Cut, Kept)
  BY <1>1 DEF TallyInv, RootTally
<1>6. ASSUME NEW o \in {"cancelled", "limitReached"}, Return(o),
             o = "limitReached" => Cut
      PROVE  TallyInv'
  <2> DEFINE r == Head(roots)
  <2>1. \A d : Told([root |-> r, outcome |-> o, progress |-> progress, duplicates |-> d],
                    tree, publishedPaths \union Keys(batch))
    <3>1. CASE o = "cancelled"
      BY <3>1 DEF Told
    <3>2. CASE o = "limitReached"
      <4>1. \/ progress.directoriesVisited + Count(Rest, Directory)
                  < 1 + Count(Below(tree, r), Directory)
            \/ progress.pdfFilesFound + Count(Rest, Pdf) < Count(Below(tree, r), Pdf)
        BY <1>5, <1>6, <3>2 DEF Tally
      <4>2. /\ Count(Rest, Directory) \in Nat /\ Count(Rest, Pdf) \in Nat
            /\ Count(Below(tree, r), Directory) \in Nat /\ Count(Below(tree, r), Pdf) \in Nat
        BY ScannerAssumption, CountPart
      <4>3. progress.directoriesVisited \in Nat /\ progress.pdfFilesFound \in Nat
        BY <1>4 DEF Progress
      <4>4. \/ progress.directoriesVisited < 1 + Count(Below(tree, r), Directory)
            \/ progress.pdfFilesFound < Count(Below(tree, r), Pdf)
        BY <4>1, <4>2, <4>3
      <4> QED
        BY <3>2, <4>4 DEF Told
    <3> QED
      BY <3>1, <3>2
  <2>2. o \in Outcome /\ r = Head(roots)
    BY DEF Outcome
  <2> HIDE DEF r
  <2>3. FindTypes' /\ FindsAreKept' /\ AllTold' /\ ~scanning'
    BY <1>1, <1>6, <2>1, <2>2, ReturnKeeps DEF TallyInv
  <2> QED
    BY <1>2, <2>3 DEF TallyInv, RootTally
<1>7. CASE UNCHANGED <<roots, scanning, batchVars, result>>
  <2>1. UNCHANGED <<roots, scanning, batch, progress, duplicates, publishedPaths, handed, result>>
    BY <1>7 DEF batchVars
  <2>2. FindTypes' /\ FindsAreKept' /\ AllTold'
    BY <1>1, <1>3, <2>1, NothingFound DEF TallyInv
  <2>3. NothingReadYet'
    BY <1>1, <2>1 DEF NothingReadYet, TallyInv
  <2>4. Tally(tree, Head(roots), Rest', progress, Missed', Cut', Kept')
    <3>1. ~Missed' => ~Missed /\ Rest' = Rest
      BY <1>1, <1>3 DEF Missed
    <3>2. Cut' = Cut /\ Kept' = Kept
      BY <1>1, <2>1 DEF Cut, Kept, FilesFull
    <3> DEFINE m == Missed
               n == Missed'
               c == Cut
               h == Kept
               r == Head(roots)
    <3>3. Tally(tree, r, Rest, progress, m, c, h) /\ (~n => ~m /\ Rest' = Rest)
      BY <1>5, <3>1
    <3> HIDE DEF m, n, c, h, r
    <3>4. Tally(tree, r, Rest', progress, n, c, h)
      BY <1>3, <1>4, <3>3, TallyGivesUp
    <3> QED
      BY <3>2, <3>4 DEF n, c, h, r
  <2> QED
    BY <1>1, <1>2, <2>1, <2>2, <2>3, <2>4 DEF TallyInv, RootTally
<1> QED
  BY <1>1, <1>6, <1>7 DEF CloseDirectory, Cut, LimitReached

(* The end of a scan: nothing is left to list.                             *)
LEMMA EndKeeps ==
    ASSUME ScanInv, TallyInv, EndScan
    PROVE  TallyInv'
<1> DEFINE o == IF ~sawReadableDirectory THEN "unavailable"
                ELSE IF incomplete THEN "partial" ELSE "complete"
           r == Head(roots)
           B == Below(tree, r)
<1>1. /\ scanning /\ directory = NoDirectory /\ pendingDirectories = <<>> /\ Return(o)
      /\ UNCHANGED <<tree, pendingDirectories, entries, directory>>
      /\ entries = {}
  BY DEF EndScan, Between, listingVars, TallyInv, FrontierIsApart
<1>2. Rest = {}
  <2>1. Frontier = {}
    BY <1>1, EmptySeq DEF Frontier, Stacked
  <2> QED
    BY <2>1 DEF Rest, AtOrBelow
<1>3. FrontierIsApart'
  BY <1>1, FrontierStays DEF TallyInv
<1>4. Tally(tree, r, Rest, progress, Missed, Cut, Kept) /\ progress \in Progress
      /\ NothingReadYet
  BY <1>1 DEF TallyInv, ScanInv, RootTally
<1>5. Count({}, Directory) = 0 /\ Count({}, Pdf) = 0
  <2>1. {} \intersect Directory = {} /\ {} \intersect Pdf = {}
    OBVIOUS
  <2> QED
    BY <2>1, FS_EmptySet DEF Count
<1>6. ASSUME o = "complete"
      PROVE  /\ B \intersect Pdf \subseteq Kept
             /\ progress.pdfFilesFound = Count(B, Pdf)
             /\ progress.directoriesVisited = 1 + Count(B, Directory)
             /\ progress.inaccessibleEntries = 0
  <2>1. ~Missed
    BY <1>1, <1>6 DEF Missed
  <2>2. /\ B \intersect Pdf \subseteq Rest \union Kept
        /\ progress.pdfFilesFound + Count(Rest, Pdf) = Count(B, Pdf)
        /\ progress.directoriesVisited + Count(Rest, Directory) = 1 + Count(B, Directory)
        /\ progress.inaccessibleEntries = 0
    BY <1>4, <2>1 DEF Tally
  <2>3. progress.directoriesVisited \in Nat /\ progress.pdfFilesFound \in Nat
    BY <1>4 DEF Progress
  <2> QED
    BY <1>2, <1>5, <2>2, <2>3
<1>7. ASSUME o = "unavailable"
      PROVE  progress = [ZeroProgress EXCEPT !.directoriesVisited = 1]
  <2>1. ~sawReadableDirectory /\ ~opened
    BY <1>1, <1>4, <1>7 DEF NothingReadYet
  <2>2. /\ progress.pdfFilesFound = 0 /\ progress.inaccessibleEntries = 0
        /\ progress.directoriesVisited = 1
    <3>1. /\ progress.pdfFilesFound = 0 /\ progress.inaccessibleEntries = 0
          /\ progress.directoriesVisited + Len(pendingDirectories) = 1
      BY <1>4, <2>1 DEF NothingReadYet
    <3>2. Len(pendingDirectories) = 0 /\ progress.directoriesVisited \in Nat
      BY <1>1, <1>4, EmptySeq DEF Progress
    <3> QED
      BY <3>1, <3>2
  <2> QED
    BY <1>4, <2>2 DEF Progress, ZeroProgress
<1>8. o \in Outcome /\ o # "limitReached"
  BY DEF Outcome
<1> HIDE DEF o
<1>9. \A d : Told([root |-> r, outcome |-> o, progress |-> progress, duplicates |-> d],
                  tree, publishedPaths \union Keys(batch))
  BY <1>6, <1>7, <1>8 DEF Told, Kept
<1> HIDE DEF r, B
<1>10. FindTypes' /\ FindsAreKept' /\ AllTold' /\ ~scanning'
  <2>1. entries' \subseteq Entry /\ r = Head(roots)
    BY <1>1 DEF r
  <2> QED
    BY <1>1, <1>8, <1>9, <2>1, ReturnKeeps DEF TallyInv
<1> QED
  BY <1>3, <1>10 DEF TallyInv, RootTally

LEMMA CancelledKeeps ==
    ASSUME ScanInv, TallyInv, CancelScan
    PROVE  TallyInv'
<1>1. /\ scanning /\ Return("cancelled")
      /\ UNCHANGED <<tree, pendingDirectories, entries, directory>>
  BY DEF CancelScan, Between, listingVars
<1>2. FrontierIsApart'
  BY <1>1, FrontierStays DEF TallyInv
<1>3. PICK r : r = Head(roots)
  OBVIOUS
<1>4. \A d : Told([root |-> r, outcome |-> "cancelled", progress |-> progress,
                   duplicates |-> d], tree, publishedPaths \union Keys(batch))
  BY DEF Told
<1>5. entries' \subseteq Entry /\ "cancelled" \in Outcome
  BY <1>1 DEF Outcome, TallyInv, FindTypes
<1>6. FindTypes' /\ FindsAreKept' /\ AllTold' /\ ~scanning'
  BY <1>1, <1>3, <1>4, <1>5, ReturnKeeps DEF TallyInv
<1> QED
  BY <1>2, <1>6 DEF TallyInv, RootTally

LEMMA QuietKeeps ==
    ASSUME ScanInv, TallyInv, Cancel \/ UNCHANGED vars
    PROVE  TallyInv'
<1>1. /\ UNCHANGED <<tree, limits, roots, scanning, pendingDirectories, directory, opened,
                     entries, stopped, sawReadableDirectory, incomplete, hitLimit, batch,
                     progress, duplicates, publishedPaths, handed, result>>
      /\ cancelled => cancelled'
  BY DEF Cancel, vars, listingVars, batchVars
<1>2. Frontier' = Frontier /\ FrontierIsApart'
  BY <1>1, FrontierStays DEF TallyInv
<1>3. Rest' = Rest
  BY <1>1, <1>2 DEF Rest
<1>4. FindTypes' /\ FindsAreKept' /\ AllTold'
  <2>1. entries' \subseteq Entry
    BY <1>1 DEF TallyInv, FindTypes
  <2> QED
    BY <1>1, <1>3, <2>1, NothingFound DEF TallyInv
<1>5. NothingReadYet' = NothingReadYet
  BY <1>1 DEF NothingReadYet
<1>6. ASSUME scanning
      PROVE  Tally(tree, Head(roots), Rest', progress, Missed', Cut', Kept')
  <2>1. Missed' = Missed /\ Kept' = Kept /\ (Cut' => Cut)
    BY <1>1 DEF Missed, Kept, Cut, FilesFull
  <2> DEFINE m == Missed
             c == Cut
             d == Cut'
             h == Kept
             r == Head(roots)
  <2>2. Tally(tree, r, Rest, progress, m, c, h) /\ (d => c) /\ progress \in Progress
    BY <1>6, <2>1 DEF TallyInv, ScanInv, RootTally
  <2> HIDE DEF m, c, d, h, r
  <2>3. Tally(tree, r, Rest, progress, m, d, h)
    BY <2>2, TallyGivesUp
  <2> QED
    BY <1>3, <2>1, <2>3 DEF m, d, h, r
<1> QED
  BY <1>1, <1>2, <1>4, <1>5, <1>6 DEF TallyInv, RootTally

LEMMA TallyInvStep == ScanInv /\ TallyInv /\ [Next]_vars => TallyInv'
BY BeginKeeps, CancelledKeeps, OpenKeeps, StopKeeps, InaccessibleKeeps, DirectoryKeeps,
   PdfKeeps, IgnoredKeeps, CloseKeeps, EndKeeps, QuietKeeps
DEF Next, ScanStep

LEMMA OutcomesByKeys == TallyInv => OutcomesAreTrue
<1> SUFFICES ASSUME TallyInv, NEW i \in 1 .. Len(result)
             PROVE  LET s == result[i]
                        directories == Under(s.root) \intersect Directory
                        pdfs == Under(s.root) \intersect Pdf
                    IN
                    /\ s.outcome = "complete" =>
                          /\ \A p \in pdfs : IsPublished([root |-> s.root, entry |-> p])
                          /\ s.progress.pdfFilesFound = Cardinality(pdfs)
                          /\ s.progress.directoriesVisited = 1 + Cardinality(directories)
                          /\ s.progress.inaccessibleEntries = 0
                    /\ s.outcome = "limitReached" =>
                          \/ s.progress.directoriesVisited < 1 + Cardinality(directories)
                          \/ s.progress.pdfFilesFound < Cardinality(pdfs)
                    /\ s.outcome = "unavailable" =>
                          s.progress = [ZeroProgress EXCEPT !.directoriesVisited = 1]
  BY DEF OutcomesAreTrue, Finished
<1>1. Told(result[i], tree, publishedPaths)
  BY DEF TallyInv, AllTold
<1>2. \A r, p : p \in PdfsUnder(r, publishedPaths) => IsPublished([root |-> r, entry |-> p])
  BY DEF TallyInv, FindsAreKept, IsPublished, Keys, PdfsUnder
<1>3. \A r : Under(r) = Below(tree, r)
  BY DEF Under
<1> QED
  BY <1>1, <1>2, <1>3 DEF Told, Count

LEMMA TallyInvariant == Spec => []TallyInv
BY ScanInvariant, TallyInvInit, TallyInvStep, PTL DEF Spec

(* For every tree, all limits and whatever cannot be read, what the        *)
(* outcome of a root says is so (LibraryScanner.cpp, lines 108 to 125): a  *)
(* complete root was listed to its last directory and every PDF below it   *)
(* handed on, a limit that was reached cut the listing short, and of an    *)
(* unavailable root nothing at all was read.                               *)
THEOREM OutcomesHold == Spec => []OutcomesAreTrue
BY TallyInvariant, OutcomesByKeys, PTL

(* However a scan ends, nothing that was counted as found stays behind in  *)
(* a batch, and no path is handed on twice in spellings that fold into one *)
(* key (LibraryScanner.cpp, lines 45 to 50 and 153 to 166).                *)
THEOREM FindsAreHandedOn == Spec => []EveryFindIsHandedOnOnce
<1>1. TallyInv => EveryFindIsHandedOnOnce
  <2> SUFFICES ASSUME TallyInv PROVE EveryFindIsHandedOnOnce
    OBVIOUS
  <2>1. ASSUME ~scanning PROVE Reported = Len(handed)
    <3>1. Reported + 0 = Len(handed) + 0
      BY <2>1 DEF TallyInv, FindsAreKept
    <3>2. Reported \in Int /\ Len(handed) \in Nat
      BY ReportedIsTotal, TotalIsNumber, LenProperties DEF TallyInv, FindTypes
    <3> QED
      BY <3>1, <3>2
  <2>2. OncePerKey(handed)
    BY DEF TallyInv, FindsAreKept
  <2> QED
    BY <2>1, <2>2 DEF EveryFindIsHandedOnOnce, OncePerKey
<1> QED
  BY <1>1, TallyInvariant, PTL
=============================================================================
