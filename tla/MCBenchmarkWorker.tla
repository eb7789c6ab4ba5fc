--------------------------- MODULE MCBenchmarkWorker ---------------------------
(* Instances of BenchmarkWorker for TLC.                                   *)
EXTENDS BenchmarkWorker

\* Fresh or resumed, with a failure budget of one or none.
AnyOption == [resume : BOOLEAN, budget : 0 .. 1]
================================================================================
