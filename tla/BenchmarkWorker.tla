---------------------------- MODULE BenchmarkWorker ----------------------------
(***************************************************************************)
(* Benchmark jobs over one output path: the job, the Python worker it      *)
(* starts (scripts/benchmark_worker.py), the threads the worker answers    *)
(* questions with, and the checkpoint and result files that one job leaves *)
(* to the next.                                                            *)
(*                                                                         *)
(* Abstractions.  Of the checkpoint is kept what load_checkpoint makes of  *)
(* it: the last outcome of each question and whether a row is torn.  An    *)
(* answer, right or wrong, is "ok".  The calls one question makes are one  *)
(* step, and so is the wait for the rate limiter before them.  The         *)
(* progress file, which is only displayed, is left out.  Offset and limit  *)
(* are those of the first job.                                             *)
(***************************************************************************)
EXTENDS Naturals, FiniteSets

CONSTANTS
  NumQuestions,  \* questions selected from the QA file
  Concurrency,   \* --concurrency
  Requested      \* the options jobs may have

Questions == 0 .. NumQuestions - 1      \* index

\* budget is max_failures, 0 for none.
Option == [resume : BOOLEAN, budget : Nat]

ASSUME BenchmarkAssumption ==
  /\ NumQuestions \in Nat \ {0}
  /\ Concurrency \in Nat \ {0}
  /\ Requested # {} /\ Requested \subseteq Option

VARIABLES
  ckpt,     \* the checkpoint file
  output,   \* the result file
  opt,      \* what the job asked for
  told,     \* what the job was reported as
  worker    \* the worker

vars == <<ckpt, output, opt, told, worker>>

files == <<ckpt, output>>
job   == <<opt, told>>

None   == [ok |-> {}, failed |-> {}]
All(o) == o.ok \cup o.failed

\* queue, busy: not started and being answered; ready: answered by a thread
\* and not yet seen by the main thread; done: items_by_index.
Gone(pc) == [pc |-> pc, stop |-> FALSE, signal |-> FALSE, queue |-> {}, busy |-> {},
             ready |-> None, done |-> None]

Init ==
  /\ ckpt = [last |-> None, torn |-> FALSE]
  /\ output = [state |-> "none", items |-> None]
  /\ opt \in Requested
  /\ told = "none"
  /\ worker = Gone("off")

Ended == {"off", "exit 0", "exit 3", "dead"}
Alive == worker.pc \notin Ended

-----------------------------------------------------------------------------
(* The job.                                                                *)

\* submitBenchmarkJob, benchmark.Run, when no job or worker is left that uses
\* the same files.
Start ==
  /\ ~Alive
  /\ worker.pc = "off" \/ told # "running"
  /\ opt' \in Requested
  /\ told' = "running"
  /\ worker' = Gone("load")
  /\ UNCHANGED files

\* SIGKILL, when the job is canceled or otherwise.  A row or the result may
\* be half written.
Kill ==
  /\ Alive
  /\ worker' = Gone("dead")
  /\ ckpt' \in {ckpt} \cup
       IF worker.pc = "work" /\ All(worker.ready) # {}
       THEN {[ckpt EXCEPT !.torn = TRUE]} ELSE {}
  /\ told' = "canceled"
  /\ UNCHANGED <<output, opt>>

\* SIGTERM or SIGINT: handle_stop.
Signal ==
  /\ Alive
  /\ worker' = [worker EXCEPT !.stop = TRUE, !.signal = TRUE]
  /\ UNCHANGED <<files, job>>

\* benchmark.Run after the worker has exited, with validateOutput.
Report ==
  /\ told = "running"
  /\ worker.pc \in {"exit 0", "exit 3", "dead"}
  /\ told' = IF worker.pc = "exit 0" /\ output.state = "whole"
             THEN "succeeded" ELSE "failed"
  /\ UNCHANGED <<files, opt, worker>>

-----------------------------------------------------------------------------
(* The worker.                                                             *)

\* Mutant: only answers are taken over, and failures asked again.
Resumed_Answers(last) == [None EXCEPT !.ok = last.ok]

\* The rows a resumed run takes over: all, failures too.
Resumed(last) == last

\* load_checkpoint; a row that does not parse ends the worker.
Load ==
  /\ worker.pc = "load"
  /\ LET done == IF opt.resume THEN Resumed(ckpt.last) ELSE None
     IN worker' = IF opt.resume /\ ckpt.torn THEN Gone("dead")
                  ELSE [worker EXCEPT !.pc = "work", !.done = done,
                                      !.queue = Questions \ All(done)]
  /\ UNCHANGED <<files, job>>

\* A thread of the pool takes the next question.
Take ==
  /\ worker.pc \in {"work", "drain"}
  /\ worker.queue # {} /\ Cardinality(worker.busy) < Concurrency
  /\ \E k \in worker.queue :
       /\ \A x \in worker.queue : k <= x
       /\ worker' = [worker EXCEPT !.queue = @ \ {k}, !.busy = @ \cup {k}]
  /\ UNCHANGED <<files, job>>

\* run_one_item returns an answer, or the error it caught.
Return ==
  /\ \E k \in worker.busy :
       \/ worker' = [worker EXCEPT !.busy = @ \ {k}, !.ready.ok = @ \cup {k}]
       \/ worker' = [worker EXCEPT !.busy = @ \ {k}, !.ready.failed = @ \cup {k}]
  /\ UNCHANGED <<files, job>>

\* The last outcome counts.
Plus(o, k, ok) == IF ok THEN [ok |-> o.ok \cup {k}, failed |-> o.failed \ {k}]
                        ELSE [ok |-> o.ok \ {k}, failed |-> o.failed \cup {k}]

Minus(o, k) == [ok |-> o.ok \ {k}, failed |-> o.failed \ {k}]

OverBudget(done) == opt.budget > 0 /\ Cardinality(done.failed) > opt.budget

\* record_done: items, counters, a row of the checkpoint, and the stop when
\* there are too many failures.
Record ==
  /\ worker.pc = "work" /\ ~worker.stop
  /\ \E k \in All(worker.ready) :
       LET ok   == k \in worker.ready.ok
           done == Plus(worker.done, k, ok)
       IN /\ worker' = [worker EXCEPT !.ready = Minus(@, k), !.done = done,
                                      !.stop = OverBudget(done)]
          /\ ckpt' = IF ckpt.torn THEN ckpt
                     ELSE [ckpt EXCEPT !.last = Plus(@, k, ok)]
  /\ UNCHANGED <<output, job>>

\* The loop is left at the first answer after a stop, which is lost; leaving
\* the executor waits for all questions, those not yet begun too.
Break ==
  /\ worker.pc = "work" /\ worker.stop /\ All(worker.ready) # {}
  /\ worker' = [worker EXCEPT !.pc = "drain"]
  /\ UNCHANGED <<files, job>>

\* Mutant: any stop is success.
Judged_Zero == "write"

\* Exit 3 when the budget is exceeded; otherwise a result is written, also
\* after a signal.
Judged == IF worker.stop /\ OverBudget(worker.done) THEN "exit 3" ELSE "write"

\* The threads have ended.
Joined ==
  /\ worker.pc \in {"work", "drain"}
  /\ worker.queue = {} /\ worker.busy = {}
  /\ worker.pc = "drain" \/ All(worker.ready) = {}
  /\ worker' = IF Judged = "write"
               THEN [worker EXCEPT !.pc = "write", !.ready = None]
               ELSE [Gone(Judged) EXCEPT !.signal = worker.signal]
  /\ UNCHANGED <<files, job>>

\* The result is opened for writing, which empties it.
Open ==
  /\ worker.pc = "write"
  /\ output' = [state |-> "torn", items |-> None]
  /\ worker' = [worker EXCEPT !.pc = "fill"]
  /\ UNCHANGED <<ckpt, job>>

Fill ==
  /\ worker.pc = "fill"
  /\ output' = [state |-> "whole", items |-> worker.done]
  /\ worker' = [Gone("exit 0") EXCEPT !.signal = worker.signal]
  /\ UNCHANGED <<ckpt, job>>

-----------------------------------------------------------------------------

Next ==
  \/ Start \/ Kill \/ Signal \/ Report
  \/ Load \/ Take \/ Return \/ Record \/ Break \/ Joined \/ Open \/ Fill

Spec == Init /\ [][Next]_vars

-----------------------------------------------------------------------------
(* Properties.                                                             *)

\* "read checkpoint ids and skip completed items with matching ids": a job
\* that resumes calls for no question the checkpoint has a row of, its own
\* rows included, in whatever order the threads come back.
ResumeSkips ==
  [][opt.resume => \A k \in worker'.busy \ worker.busy : k \notin All(ckpt.last)]_vars

\* A job that is reported as succeeded has written a result: of all
\* questions, unless its worker was signaled; and within its failure budget,
\* unless it resumed one that was over it.
SuccessIsWhole ==
  told = "succeeded" =>
    /\ output.state = "whole"
    /\ ~worker.signal => All(output.items) = Questions
    /\ opt.budget > 0 /\ ~opt.resume =>
         Cardinality(output.items.failed) <= opt.budget

================================================================================
