---------------------------- MODULE MCPlacement ----------------------------
(* Sizes of posted files for the run of Placement. *)
EXTENDS Placement

\* For a U of 4: smaller than K, not a multiple of K, smaller than, equal to and twice U.
AllSizes  == {1, 2, 3, 4, 8}
=============================================================================
