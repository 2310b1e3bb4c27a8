---------------------------- MODULE MCVendorFetch ----------------------------
(***************************************************************************)
(* VendorFetch for two instruments and two shards, every kind of           *)
(* descriptor.                                                             *)
(***************************************************************************)
EXTENDS VendorFetch

CONSTANTS k1, k2, other

TwoKeys == <<k1, k2>>
OtherFirst == <<other, k1, k2>>
TwoShards == <<{1, 2, 3, 4}, {5, 6}>>

\* A vendor that adds at the end serves its oldest row first, one at the front its newest.
InOrder ==
  [grows \in {"end", "front"} |-> [path \in Paths |->
     FoldLeft(LAMBDA rows, t : IF grows = "end" THEN rows \o RowsAt(path, t)
                               ELSE RowsAt(path, t) \o rows,
              <<>>, SetToSortSeq(Shards[path[1]], <))]]
=============================================================================
