--------------------------- MODULE MCDatasetFiles ---------------------------
(* Instances of DatasetFiles for TLC: interchangeable requests.            *)
EXTENDS DatasetFiles, TLC

CONSTANTS r1, r2, r3

RequestSymmetry == Permutations(Requests)
=============================================================================
