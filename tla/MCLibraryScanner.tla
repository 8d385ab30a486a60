-------------------------- MODULE MCLibraryScanner --------------------------
(***************************************************************************)
(* LibraryScanner for TLC: every tree of three directories and two PDF     *)
(* files, two roots that may overlap, spelled alike or not, and limits that*)
(* bind and that do not.                                                   *)
(***************************************************************************)
EXTENDS LibraryScanner

CONSTANTS top, inner, deep

LimitsOf(b, d, n, f) ==
    [batchSize |-> b, maximumDepth |-> d, maximumDirectories |-> n,
     maximumFiles |-> f]

MCRootOrders == {<<top, inner>>, <<deep, inner>>}
MCSpelling ==
    [d \in {top, inner, deep} |-> IF d = deep THEN "other" ELSE "plain"]
MCLimits == {LimitsOf(2, 2, 3, 2), LimitsOf(2, 1, 3, 1), LimitsOf(1, 2, 2, 2)}
=============================================================================
