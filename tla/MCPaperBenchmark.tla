--------------------------- MODULE MCPaperBenchmark ---------------------------
(* Instances of PaperBenchmark for TLC.                                    *)
EXTENDS PaperBenchmark

Options(shards, resume, retry) == [shards |-> shards, resume |-> resume, retry |-> retry]

\* One worker, without retries; or two shards with retries, and without
\* --resume, which the runner passes to its workers all the same.  Runs switch
\* from one to the other and back.
AnyOption == {Options(1, TRUE, FALSE), Options(2, FALSE, TRUE)}
===============================================================================
