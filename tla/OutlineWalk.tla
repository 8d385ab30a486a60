---------------------------- MODULE OutlineWalk ----------------------------
(***************************************************************************)
(* collectBookmarks of atlas_pdfium_probe: a depth-first walk over the     *)
(* first-child and next-sibling references of an outline, which a file may *)
(* set up as it likes: shared bookmarks, loops of siblings, a bookmark     *)
(* below itself.                                                           *)
(***************************************************************************)
EXTENDS Naturals, Sequences

CONSTANTS
    Bookmark,      \* the bookmarks of the document
    NoBookmark     \* the null reference

ASSUME OutlineAssumption == NoBookmark \notin Bookmark

Reference == Bookmark \union {NoBookmark}

VARIABLES
    firstOfOutline, firstChild, nextSibling,   \* what the file says
    cursor,          \* the bookmark the innermost loop looks at
    enclosing,       \* the bookmarks of the loops around it, outermost first
    visited,
    outline,         \* what was listed, in order, with its depth
    cycleReported

outlineVars ==
    <<firstOfOutline, firstChild, nextSibling, cursor, enclosing, visited, outline,
      cycleReported>>
file == <<firstOfOutline, firstChild, nextSibling>>

OutlineBegins ==
    /\ cursor = firstOfOutline
    /\ enclosing = <<>> /\ visited = {} /\ outline = <<>> /\ cycleReported = FALSE

OutlineInit ==
    /\ firstOfOutline \in Reference
    /\ firstChild \in [Bookmark -> Reference]
    /\ nextSibling \in [Bookmark -> Reference]
    /\ OutlineBegins

OutlineIdle ==
    /\ firstOfOutline = NoBookmark
    /\ firstChild = [b \in Bookmark |-> NoBookmark]
    /\ nextSibling = [b \in Bookmark |-> NoBookmark]
    /\ OutlineBegins

ListBookmark ==
    /\ cursor \in Bookmark \ visited
    /\ visited' = visited \union {cursor}
    /\ outline' = Append(outline, [bookmark |-> cursor, depth |-> Len(enclosing)])
    /\ enclosing' = Append(enclosing, cursor)
    /\ cursor' = firstChild[cursor]
    /\ UNCHANGED <<file, cycleReported>>

(* The loop is over: the loop around it goes on with the next sibling.     *)
LeaveLevel ==
    /\ enclosing # <<>>
    /\ LET around == enclosing[Len(enclosing)] IN
       /\ cursor' = nextSibling[around]
       /\ enclosing' = SubSeq(enclosing, 1, Len(enclosing) - 1)

EndOfSiblings ==
    /\ cursor = NoBookmark
    /\ LeaveLevel
    /\ UNCHANGED <<file, visited, outline, cycleReported>>

(* Defect: a second visit ends the whole walk.                             *)
ReportCycle_ReturnsFromAll ==
    /\ cursor \in visited
    /\ cursor' = NoBookmark /\ enclosing' = <<>>
    /\ cycleReported' = TRUE
    /\ UNCHANGED <<file, visited, outline>>

(* A second visit: only this loop returns.                                 *)
ReportCycle ==
    /\ cursor \in visited
    /\ \/ LeaveLevel
       \/ enclosing = <<>> /\ cursor' = NoBookmark /\ UNCHANGED enclosing
    /\ cycleReported' = TRUE
    /\ UNCHANGED <<file, visited, outline>>

OutlineNext == ListBookmark \/ EndOfSiblings \/ ReportCycle

OutlineFairness == WF_outlineVars(OutlineNext)

OutlineSpec == OutlineInit /\ [][OutlineNext]_outlineVars /\ OutlineFairness

-----------------------------------------------------------------------------

Walked == cursor = NoBookmark /\ enclosing = <<>>

(* The references the walk follows: <<kind, from, to>>.                    *)
References ==
    {<<"first", NoBookmark, firstOfOutline>>}
        \union {<<"child", b, firstChild[b]>> : b \in visited}
        \union {<<"next", b, nextSibling[b]>> : b \in visited}

(* Whatever the references of a file, the walk lists each bookmark it can  *)
(* reach, by children and by siblings, exactly once: a second visit in an  *)
(* inner loop costs nothing that an outer loop still had to list.  It      *)
(* reports a cycle exactly when some bookmark is referred to twice.        *)
OutlineIsWhole ==
    /\ \A i, j \in DOMAIN outline :
          outline[i].bookmark = outline[j].bookmark => i = j
    /\ visited = {outline[i].bookmark : i \in DOMAIN outline}
    /\ Walked =>
          /\ \A r \in References : r[3] \in visited \union {NoBookmark}
          /\ cycleReported <=>
                \E r, s \in References : r # s /\ r[3] = s[3] /\ r[3] # NoBookmark
=============================================================================
