------------------------- MODULE MCLibraryIngestion -------------------------
(***************************************************************************)
(* LibraryIngestion for TLC: one root, or two roots of which the second    *)
(* lies inside the first.                                                  *)
(***************************************************************************)
EXTENDS LibraryIngestion

CONSTANTS r1, r2, p1

(* r1 contains every path; r2, where there is one, contains p1 only.       *)
MCPathsOf == [r \in RootId |-> IF r = r1 THEN Path ELSE {p1}]
MCRootOrder == IF RootId = {r1} THEN <<r1>> ELSE <<r1, r2>>
MCFileName == [p \in Path |-> p]
=============================================================================
