------------------------------ MODULE MCGraphWal ------------------------------
(* Instances of GraphWal for TLC.                                          *)
EXTENDS GraphWal, TLC

CONSTANTS b1, b2, old, new

Ask(resume, compact, communities) ==
  [resume |-> resume, compact |-> compact, communities |-> communities]

\* A fresh build, one that resumes, and a compaction, with communities or not.
AnyOption == {Ask(FALSE, FALSE, FALSE), Ask(TRUE, FALSE, TRUE), Ask(TRUE, TRUE, FALSE)}

Symmetry == Permutations(Jobs) \cup Permutations(Schemas)
===============================================================================
