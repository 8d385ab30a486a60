--------------------------- MODULE MCLibraryIndex ---------------------------
(***************************************************************************)
(* LibraryIndex for TLC.                                                   *)
(*                                                                         *)
(* The runs about scans and moves leave out the document-only operations   *)
(* (favorites, recents, rootless records, search rebuild), which neither   *)
(* read nor write what scans and moves do except the text columns; the     *)
(* document run has them all, with fewer generations.                      *)
(***************************************************************************)
EXTENDS LibraryIndex, TLC

CONSTANTS p1, p2, n1, n2

MCFileName == [p \in Path |-> IF p = p1 THEN n1 ELSE n2]

MovesNext == RootNext \/ LocationNext \/ ProposalNext

MovesSpec == IndexInit /\ [][MovesNext]_indexVars

IndexSymmetry ==
    UNION {Permutations(S) : S \in {DocId, RootId, Source, FsId}}
=============================================================================
