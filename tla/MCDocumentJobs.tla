--------------------------- MODULE MCDocumentJobs ---------------------------
(***************************************************************************)
(* Instances of DocumentJobs for TLC.                                      *)
(***************************************************************************)
EXTENDS DocumentJobs, TLC

Symmetry == Permutations(Workers) \union Permutations(Items) \union Permutations(Editions)
=============================================================================
