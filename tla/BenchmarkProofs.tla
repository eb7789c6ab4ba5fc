--------------------------- MODULE BenchmarkProofs ---------------------------
(***************************************************************************)
(* Proofs about BenchmarkWorker and about PaperBenchmark, for any number   *)
(* of questions, threads, jobs, shards and runs and any options.  The two  *)
(* have nothing in common but this module.                                 *)
(*                                                                         *)
(* BenchmarkWorker.  That a resumed job asks nothing twice depends on      *)
(* every question being in one place only: in the queue, with a thread,    *)
(* answered, or on record; that a success is whole, on none being lost     *)
(* between these places while the loop runs, and on what a stop without a  *)
(* signal can mean.                                                        *)
(*                                                                         *)
(* PaperBenchmark.  shard_ranges gives every question to one shard.  With  *)
(* that, a worker that knows the answers of its own checkpoint knows all   *)
(* it must not ask, if rows of a shard are in its checkpoint only and the  *)
(* main checkpoint is never ahead of the shards, which is so as long as    *)
(* runs keep to one number of shards.  Where they do not, a shard that is  *)
(* seeded still has a row wherever the main checkpoint has one, so the     *)
(* merge can only replace an answer, never drop it.  The sums of           *)
(* shard_ranges are shown equal to a closed form by the least shard where  *)
(* they differ: that a set of numbers has a least one is the induction     *)
(* used.                                                                   *)
(***************************************************************************)
EXTENDS BenchmarkWorker, PaperBenchmark, FiniteSetTheorems, TLAPS

Outcomes == [ok : SUBSET Questions, failed : SUBSET Questions]

WorkerType ==
  [pc : {"load", "work", "drain", "write", "fill"} \cup Ended,
   stop : BOOLEAN, signal : BOOLEAN,
   queue : SUBSET Questions, busy : SUBSET Questions,
   ready : Outcomes, done : Outcomes]

BenchmarkTypeOK ==
  /\ ckpt \in [last : Outcomes, torn : BOOLEAN]
  /\ output \in [state : {"none", "torn", "whole"}, items : Outcomes]
  /\ opt \in Option
  /\ told \in {"none", "running", "succeeded", "failed", "canceled"}
  /\ worker \in WorkerType

\* A question not begun is nowhere else, in a resumed job not on record either.
QueueIsNew ==
  /\ worker.queue \cap (worker.busy \cup All(worker.ready)) = {}
  /\ opt.resume => worker.queue \cap All(ckpt.last) = {}
  /\ worker.queue \cup worker.busy # {} => worker.pc \in {"work", "drain"}

\* Before the loop there is nothing but what a signal may do.
FreshWhenLoading ==
  worker.pc = "load" =>
    All(worker.ready) = {} /\ (worker.stop => worker.signal)

\* While the loop runs no question is lost.
NoneLost ==
  worker.pc = "work" =>
    worker.queue \cup worker.busy \cup All(worker.ready) \cup All(worker.done)
      = Questions

\* Without a signal the loop stops for its budget only, and is left only when
\* it has stopped.
StopIsOverBudget ==
  worker.pc \in {"work", "drain"} =>
    /\ worker.stop => worker.signal \/ OverBudget(worker.done)
    /\ worker.pc = "drain" => worker.stop
    /\ OverBudget(worker.done) => worker.stop \/ opt.resume

WholeResult(items) ==
  /\ ~worker.signal => All(items) = Questions
  /\ opt.budget > 0 /\ ~opt.resume => Cardinality(items.failed) <= opt.budget

\* What is written is whole, and stays until the next job.
WrittenIsWhole ==
  /\ worker.pc \in {"write", "fill"} => WholeResult(worker.done)
  /\ worker.pc = "exit 0" => output.state = "whole" /\ WholeResult(output.items)
  /\ told = "succeeded" => worker.pc = "exit 0"

Inv ==
  /\ BenchmarkTypeOK
  /\ QueueIsNew
  /\ FreshWhenLoading
  /\ NoneLost
  /\ StopIsOverBudget
  /\ WrittenIsWhole

-----------------------------------------------------------------------------

\* Outcomes are counted in numbers.
LEMMA OutcomesAreCounted ==
  ASSUME NEW S \in SUBSET Questions
  PROVE  Cardinality(S) \in Nat
<1>1. IsFiniteSet(Questions)
  BY BenchmarkAssumption, FS_Interval DEF Questions
<1> QED
  BY <1>1, FS_Subset, FS_CardinalityType

\* Without failures no budget is exceeded.
LEMMA NoneWithinBudget == BenchmarkTypeOK => ~OverBudget(None)
<1>1. Cardinality({}) = 0
  BY FS_EmptySet
<1> QED
  BY <1>1 DEF BenchmarkTypeOK, OverBudget, None, Option

LEMMA GoneType ==
  ASSUME NEW pc \in {"load", "work", "drain", "write", "fill"} \cup Ended
  PROVE  /\ Gone(pc) \in WorkerType
         /\ [Gone(pc) EXCEPT !.signal = TRUE] \in WorkerType
         /\ [Gone(pc) EXCEPT !.signal = FALSE] \in WorkerType
BY DEF Gone, WorkerType, Outcomes, None

\* One more outcome of one question.
LEMMA PlusEffect ==
  ASSUME NEW o \in Outcomes, NEW k \in Questions, NEW ok \in BOOLEAN
  PROVE  Plus(o, k, ok) \in Outcomes /\ All(Plus(o, k, ok)) = All(o) \cup {k}
BY DEF Plus, Outcomes, All

LEMMA MinusEffect ==
  ASSUME NEW o \in Outcomes, NEW k
  PROVE  Minus(o, k) \in Outcomes /\ All(Minus(o, k)) = All(o) \ {k}
BY DEF Minus, Outcomes, All

-----------------------------------------------------------------------------
(* Steps.                                                                  *)

LEMMA InitInv == Init => Inv
<1> SUFFICES ASSUME Init PROVE Inv
  OBVIOUS
<1>1. BenchmarkTypeOK
  BY BenchmarkAssumption, GoneType DEF Init, BenchmarkTypeOK, Outcomes, None, Ended
<1>2. worker.pc = "off" /\ worker.queue = {} /\ worker.busy = {} /\ All(worker.ready) = {}
  BY DEF Init, Gone, None, All
<1> QED
  BY <1>1, <1>2 DEF Init, Inv, QueueIsNew, FreshWhenLoading, NoneLost, StopIsOverBudget, WrittenIsWhole

\* A worker that is gone, or has only begun, owes nothing.
LEMMA JobInv ==
  ASSUME Inv, Start \/ Kill \/ Report
  PROVE  Inv'
<1>1. CASE Start
  <2>1. BenchmarkTypeOK'
    BY <1>1, BenchmarkAssumption, GoneType DEF Inv, BenchmarkTypeOK, Start, files
  <2> QED
    BY <1>1, <2>1 DEF Inv, QueueIsNew, FreshWhenLoading, NoneLost, StopIsOverBudget, WrittenIsWhole, Start,
       Gone, All, None
<1>2. CASE Kill
  <2>1. BenchmarkTypeOK'
    BY <1>2, GoneType DEF Inv, BenchmarkTypeOK, Kill, Ended
  <2> QED
    BY <1>2, <2>1 DEF Inv, QueueIsNew, FreshWhenLoading, NoneLost, StopIsOverBudget, WrittenIsWhole, Kill,
       Gone, All, None
<1>3. CASE Report
  <2>1. told' = "succeeded" => worker.pc = "exit 0"
    BY <1>3 DEF Report
  <2>2. UNCHANGED <<ckpt, output, opt, worker>> /\ told' \in {"succeeded", "failed"}
    BY <1>3 DEF Report, files
  <2> QED
    BY ZenonT(60), <2>1, <2>2 DEF Inv, BenchmarkTypeOK, QueueIsNew, FreshWhenLoading, NoneLost, StopIsOverBudget,
       WrittenIsWhole, WholeResult, OverBudget
<1> QED
  BY <1>1, <1>2, <1>3

\* A signal loosens what is owed.
LEMMA SignalInv ==
  ASSUME Inv, Signal
  PROVE  Inv'
BY ZenonT(60) DEF Inv, BenchmarkTypeOK, WorkerType, QueueIsNew, FreshWhenLoading, NoneLost, StopIsOverBudget,
   WrittenIsWhole, WholeResult, OverBudget, Signal, files, job, Alive, Ended

LEMMA LoadInv ==
  ASSUME Inv, Load
  PROVE  Inv'
<1> DEFINE done == IF opt.resume THEN Resumed(ckpt.last) ELSE None
           loaded == [worker EXCEPT !.pc = "work", !.done = done,
                                    !.queue = Questions \ All(done)]
<1>1. /\ UNCHANGED <<ckpt, output, opt, told>> /\ worker' \in {Gone("dead"), loaded}
      /\ worker.pc = "load"
  BY DEF Load, files, job
<1>2. done \in Outcomes /\ All(done) \in SUBSET Questions
  BY DEF Inv, BenchmarkTypeOK, Outcomes, None, Resumed, All
<1>3. CASE worker' = Gone("dead")
  <2>1. BenchmarkTypeOK'
    BY <1>1, <1>3, GoneType DEF Inv, BenchmarkTypeOK, Ended
  <2> QED
    BY <1>1, <1>3, <2>1 DEF Inv, QueueIsNew, FreshWhenLoading, NoneLost,
       StopIsOverBudget, WrittenIsWhole, Gone, All, None
<1>4. CASE worker' = loaded
  <2>1. BenchmarkTypeOK'
    BY <1>1, <1>2, <1>4 DEF Inv, BenchmarkTypeOK, WorkerType
  <2>2. /\ worker'.pc = "work" /\ worker'.done = done /\ worker'.queue = Questions \ All(done)
        /\ worker'.busy = worker.busy /\ worker'.ready = worker.ready
        /\ worker'.stop = worker.stop /\ worker'.signal = worker.signal
    BY <1>4 DEF Inv, BenchmarkTypeOK, WorkerType
  <2> HIDE DEF done, loaded
  <2>3. opt.resume => All(done) = All(ckpt.last)
    BY DEF done, Resumed
  <2>4. ~opt.resume => ~OverBudget(done)
    BY NoneWithinBudget DEF Inv, done
  <2>5. OverBudget(worker.done)' <=> OverBudget(done)
    BY <1>1, <2>2 DEF OverBudget
  <2>6. worker.busy = {} /\ All(worker.ready) = {} /\ (worker.stop => worker.signal)
    BY <1>1 DEF Inv, QueueIsNew, FreshWhenLoading
  <2>7. QueueIsNew' /\ FreshWhenLoading'
    BY <1>1, <2>2, <2>3, <2>6 DEF QueueIsNew, FreshWhenLoading
  <2>8. NoneLost'
    BY <1>2, <2>2, <2>6 DEF NoneLost
  <2>9. StopIsOverBudget'
    BY <1>1, <2>2, <2>4, <2>5, <2>6 DEF StopIsOverBudget
  <2>10. WrittenIsWhole'
    BY <1>1, <2>2 DEF Inv, WrittenIsWhole
  <2> QED
    BY <2>1, <2>7, <2>8, <2>9, <2>10 DEF Inv
<1> QED
  BY <1>1, <1>3, <1>4

\* A question moves from the queue to a thread.
LEMMA TakeInv ==
  ASSUME Inv, Take
  PROVE  Inv'
<1>1. PICK k \in worker.queue : worker' = [worker EXCEPT !.queue = @ \ {k},
                                                         !.busy = @ \cup {k}]
  BY DEF Inv, BenchmarkTypeOK, WorkerType, Take
<1>2. UNCHANGED <<ckpt, output, opt, told>> /\ worker.pc \in {"work", "drain"}
  BY DEF Take, files, job
<1>3. BenchmarkTypeOK'
  BY <1>1, <1>2 DEF Inv, BenchmarkTypeOK, WorkerType
<1>4. /\ worker'.queue = worker.queue \ {k} /\ worker'.busy = worker.busy \cup {k}
      /\ worker'.pc = worker.pc /\ worker'.ready = worker.ready
      /\ worker'.done = worker.done /\ worker'.stop = worker.stop
      /\ worker'.signal = worker.signal
  BY <1>1 DEF Inv, BenchmarkTypeOK, WorkerType
<1>5. QueueIsNew' /\ FreshWhenLoading' /\ NoneLost'
  BY <1>2, <1>4 DEF Inv, QueueIsNew, FreshWhenLoading, NoneLost
<1>6. StopIsOverBudget' /\ WrittenIsWhole'
  BY <1>2, <1>4 DEF Inv, StopIsOverBudget, WrittenIsWhole, WholeResult, OverBudget
<1> QED
  BY <1>3, <1>5, <1>6 DEF Inv

\* ... and from the thread to its outcome.
LEMMA ReturnInv ==
  ASSUME Inv, Return
  PROVE  Inv'
<1>1. PICK k \in worker.busy :
        \/ worker' = [worker EXCEPT !.busy = @ \ {k}, !.ready.ok = @ \cup {k}]
        \/ worker' = [worker EXCEPT !.busy = @ \ {k}, !.ready.failed = @ \cup {k}]
  BY DEF Return
<1>2. PICK r \in Outcomes : /\ worker' = [worker EXCEPT !.busy = @ \ {k}, !.ready = r]
                            /\ All(r) = All(worker.ready) \cup {k}
  <2>1. k \in Questions /\ worker.ready \in Outcomes
    BY DEF Inv, BenchmarkTypeOK, WorkerType
  <2> DEFINE ok     == [worker.ready EXCEPT !.ok = @ \cup {k}]
             failed == [worker.ready EXCEPT !.failed = @ \cup {k}]
  <2>2. /\ ok \in Outcomes /\ All(ok) = All(worker.ready) \cup {k}
        /\ failed \in Outcomes /\ All(failed) = All(worker.ready) \cup {k}
    BY <2>1 DEF Outcomes, All
  <2>3. \/ worker' = [worker EXCEPT !.busy = @ \ {k}, !.ready = ok]
        \/ worker' = [worker EXCEPT !.busy = @ \ {k}, !.ready = failed]
    BY <1>1 DEF Inv, BenchmarkTypeOK, WorkerType
  <2> QED
    BY <2>2, <2>3
<1>3. UNCHANGED <<ckpt, output, opt, told>> /\ worker.pc \in {"work", "drain"}
  BY DEF Inv, QueueIsNew, Return, files, job
<1>4. BenchmarkTypeOK'
  BY <1>2, <1>3 DEF Inv, BenchmarkTypeOK, WorkerType
<1>5. /\ worker'.queue = worker.queue /\ worker'.busy = worker.busy \ {k}
      /\ All(worker'.ready) = All(worker.ready) \cup {k}
      /\ worker'.pc = worker.pc /\ worker'.done = worker.done
      /\ worker'.stop = worker.stop /\ worker'.signal = worker.signal
  BY <1>2 DEF Inv, BenchmarkTypeOK, WorkerType
<1>6. QueueIsNew' /\ FreshWhenLoading' /\ NoneLost'
  BY <1>3, <1>5 DEF Inv, QueueIsNew, FreshWhenLoading, NoneLost
<1>7. StopIsOverBudget' /\ WrittenIsWhole'
  BY <1>3, <1>5 DEF Inv, StopIsOverBudget, WrittenIsWhole, WholeResult, OverBudget
<1> QED
  BY <1>4, <1>6, <1>7 DEF Inv

\* ... and onto the record, from where a resumed job does not take it again.
LEMMA RecordInv ==
  ASSUME Inv, Record
  PROVE  Inv'
<1>1. PICK k \in All(worker.ready) :
        LET ok   == k \in worker.ready.ok
            done == Plus(worker.done, k, ok)
        IN /\ worker' = [worker EXCEPT !.ready = Minus(@, k), !.done = done,
                                       !.stop = OverBudget(done)]
           /\ ckpt' = IF ckpt.torn THEN ckpt
                      ELSE [ckpt EXCEPT !.last = Plus(@, k, ok)]
  BY DEF Record
<1> DEFINE ok == k \in worker.ready.ok
           done == Plus(worker.done, k, ok)
<1>2. UNCHANGED <<output, opt, told>> /\ worker.pc = "work" /\ ~worker.stop
  BY DEF Record, job
<1>3. /\ k \in Questions /\ ok \in BOOLEAN
      /\ worker.ready \in Outcomes /\ worker.done \in Outcomes /\ ckpt.last \in Outcomes
  BY DEF Inv, BenchmarkTypeOK, WorkerType, Outcomes, All
<1> HIDE DEF ok
<1>4. /\ done \in Outcomes /\ All(done) = All(worker.done) \cup {k}
      /\ Plus(ckpt.last, k, ok) \in Outcomes
      /\ All(Plus(ckpt.last, k, ok)) = All(ckpt.last) \cup {k}
      /\ Minus(worker.ready, k) \in Outcomes
      /\ All(Minus(worker.ready, k)) = All(worker.ready) \ {k}
  BY <1>3, PlusEffect, MinusEffect
<1>5. /\ worker' = [worker EXCEPT !.ready = Minus(@, k), !.done = done,
                                  !.stop = OverBudget(done)]
      /\ ckpt' = IF ckpt.torn THEN ckpt ELSE [ckpt EXCEPT !.last = Plus(@, k, ok)]
  BY <1>1 DEF ok
<1> HIDE DEF done
<1>6. OverBudget(done) \in BOOLEAN
  BY DEF OverBudget
<1>7. BenchmarkTypeOK'
  BY <1>2, <1>4, <1>5, <1>6 DEF Inv, BenchmarkTypeOK, WorkerType
<1>8. /\ worker'.queue = worker.queue /\ worker'.busy = worker.busy
      /\ All(worker'.ready) = All(worker.ready) \ {k}
      /\ worker'.pc = "work" /\ worker'.done = done
      /\ worker'.stop = OverBudget(done) /\ worker'.signal = worker.signal
      /\ All(ckpt'.last) \subseteq All(ckpt.last) \cup {k}
  BY <1>2, <1>4, <1>5 DEF Inv, BenchmarkTypeOK, WorkerType
<1>9. QueueIsNew' /\ FreshWhenLoading' /\ NoneLost'
  BY <1>2, <1>4, <1>8 DEF Inv, QueueIsNew, FreshWhenLoading, NoneLost
<1>10. OverBudget(worker.done)' <=> OverBudget(done)
  BY <1>2, <1>8 DEF OverBudget
<1>11. StopIsOverBudget' /\ WrittenIsWhole'
  BY <1>2, <1>8, <1>10 DEF Inv, StopIsOverBudget, WrittenIsWhole
<1> QED
  BY <1>7, <1>9, <1>11 DEF Inv

LEMMA BreakInv ==
  ASSUME Inv, Break
  PROVE  Inv'
BY DEF Inv, BenchmarkTypeOK, WorkerType, QueueIsNew, FreshWhenLoading, NoneLost,
   StopIsOverBudget, WrittenIsWhole, WholeResult, OverBudget, Break, files, job

\* The end of the loop: a loop that has not stopped has an outcome of every
\* question, one that has was signaled or over its budget.
LEMMA JoinedInv ==
  ASSUME Inv, Joined
  PROVE  Inv'
<1>1. /\ UNCHANGED <<ckpt, output, opt, told>>
      /\ worker.pc \in {"work", "drain"} /\ worker.queue = {} /\ worker.busy = {}
      /\ worker.pc = "drain" \/ All(worker.ready) = {}
  BY DEF Joined, files, job
<1>2. CASE Judged = "write"
  <2>1. worker' = [worker EXCEPT !.pc = "write", !.ready = None]
    BY <1>2 DEF Joined
  <2>2. None \in Outcomes
    BY DEF None, Outcomes
  <2>3. BenchmarkTypeOK'
    BY <1>1, <2>1, <2>2 DEF Inv, BenchmarkTypeOK, WorkerType
  <2>4. /\ worker'.pc = "write" /\ worker'.queue = {} /\ worker'.busy = {}
        /\ worker'.done = worker.done /\ worker'.signal = worker.signal
    BY <1>1, <2>1 DEF Inv, BenchmarkTypeOK, WorkerType
  <2>5. ~(worker.stop /\ OverBudget(worker.done))
    BY <1>2 DEF Judged
  <2>6. ~worker.signal => All(worker.done) = Questions
    BY <1>1, <2>5 DEF Inv, NoneLost, StopIsOverBudget
  <2>7. opt.budget > 0 /\ ~opt.resume => Cardinality(worker.done.failed) <= opt.budget
    <3>1. Cardinality(worker.done.failed) \in Nat /\ opt.budget \in Nat
      BY OutcomesAreCounted DEF Inv, BenchmarkTypeOK, WorkerType, Outcomes, Option
    <3> QED
      BY <1>1, <2>5, <3>1 DEF Inv, StopIsOverBudget, OverBudget
  <2>8. WrittenIsWhole'
    BY <1>1, <2>4, <2>6, <2>7 DEF Inv, WrittenIsWhole, WholeResult
  <2> QED
    BY <1>1, <2>3, <2>4, <2>8 DEF Inv, QueueIsNew, FreshWhenLoading, NoneLost,
       StopIsOverBudget
<1>3. CASE Judged = "exit 3"
  <2>1. worker' = [Gone("exit 3") EXCEPT !.signal = worker.signal]
    BY <1>3 DEF Joined
  <2>2. worker.signal \in BOOLEAN
    BY DEF Inv, BenchmarkTypeOK, WorkerType
  <2>3. BenchmarkTypeOK'
    BY <1>1, <2>1, <2>2, GoneType DEF Inv, BenchmarkTypeOK, Ended
  <2> QED
    BY <1>1, <2>1, <2>3 DEF Inv, QueueIsNew, FreshWhenLoading, NoneLost,
       StopIsOverBudget, WrittenIsWhole, Gone, All, None
<1> QED
  BY <1>2, <1>3 DEF Judged

LEMMA WriteInv ==
  ASSUME Inv, Open \/ Fill
  PROVE  Inv'
<1>1. CASE Open
  <2>1. None \in Outcomes
    BY DEF None, Outcomes
  <2> QED
    BY <1>1, <2>1 DEF Inv, BenchmarkTypeOK, WorkerType, QueueIsNew, FreshWhenLoading,
       NoneLost, StopIsOverBudget, WrittenIsWhole, WholeResult, Open, job
<1>2. CASE Fill
  <2>1. /\ worker' = [Gone("exit 0") EXCEPT !.signal = worker.signal]
        /\ output' = [state |-> "whole", items |-> worker.done]
        /\ UNCHANGED <<ckpt, opt, told>> /\ worker.pc = "fill"
    BY <1>2 DEF Fill, job
  <2>2. worker.signal \in BOOLEAN /\ worker.done \in Outcomes
    BY DEF Inv, BenchmarkTypeOK, WorkerType
  <2>3. BenchmarkTypeOK'
    BY <2>1, <2>2, GoneType DEF Inv, BenchmarkTypeOK, Ended
  <2>4. worker'.pc = "exit 0" /\ worker'.signal = worker.signal
        /\ worker'.queue = {} /\ worker'.busy = {} /\ All(worker'.ready) = {}
    BY <2>1 DEF Gone, All, None
  <2>5. WrittenIsWhole'
    BY <2>1, <2>4 DEF Inv, WrittenIsWhole, WholeResult
  <2> QED
    BY <2>1, <2>3, <2>4, <2>5 DEF Inv, QueueIsNew, FreshWhenLoading, NoneLost,
       StopIsOverBudget
<1> QED
  BY <1>1, <1>2

\* Every step keeps the invariant.
LEMMA NextInv == Inv /\ [Next]_vars => Inv'
<1> SUFFICES ASSUME Inv, [Next]_vars PROVE Inv'
  OBVIOUS
<1>1. CASE UNCHANGED vars
  <2>1. UNCHANGED <<ckpt, output, opt, told, worker>>
    BY <1>1 DEF vars, files, job
  <2>2. BenchmarkTypeOK' /\ QueueIsNew' /\ FreshWhenLoading' /\ NoneLost'
    BY <2>1 DEF Inv, BenchmarkTypeOK, QueueIsNew, FreshWhenLoading, NoneLost
  <2>3. StopIsOverBudget' /\ WrittenIsWhole'
    BY <2>1 DEF Inv, StopIsOverBudget, WrittenIsWhole, WholeResult, OverBudget
  <2> QED
    BY <2>2, <2>3 DEF Inv
<1> QED
  BY <1>1, JobInv, SignalInv, LoadInv, TakeInv, ReturnInv, RecordInv, BreakInv,
     JoinedInv, WriteInv DEF Next

\* Everything Inv says holds in every state of every run.
THEOREM InvHolds == Spec => []Inv
BY InitInv, NextInv, PTL DEF Spec

-----------------------------------------------------------------------------

\* What validateOutput lets pass as a success is an outcome of every question,
\* within the budget, for any number of questions and threads.
THEOREM SuccessesAreWhole == Spec => []SuccessIsWhole
<1>1. Inv => SuccessIsWhole
  BY DEF Inv, WrittenIsWhole, WholeResult, SuccessIsWhole
<1> QED
  BY <1>1, InvHolds, PTL

\* Only Take gives a question to a thread.
LEMMA OthersBeginNothing ==
  ASSUME Inv, Next, ~Take, NEW k \in worker'.busy
  PROVE  k \in worker.busy
<1>1. worker \in WorkerType
  BY DEF Inv, BenchmarkTypeOK
<1>2. CASE Start \/ Kill
  <2>1. worker'.busy = {}
    BY <1>2 DEF Start, Kill, Gone
  <2> QED
    BY <2>1
<1>3. CASE Report \/ Signal \/ Break \/ Open
  <2>1. worker'.busy = worker.busy
    BY <1>1, <1>3 DEF Report, Signal, Break, Open, WorkerType
  <2> QED
    BY <2>1
<1>4. CASE Load \/ Joined \/ Fill
  <2>1. CASE \E pc, signal : worker' = [Gone(pc) EXCEPT !.signal = signal]
    <3>1. worker'.busy = {}
      BY <2>1 DEF Gone
    <3> QED
      BY <3>1
  <2>2. CASE worker' = Gone("dead")
    <3>1. worker'.busy = {}
      BY <2>2 DEF Gone
    <3> QED
      BY <3>1
  <2>3. CASE Load
    <3> DEFINE done == IF opt.resume THEN Resumed(ckpt.last) ELSE None
    <3>1. \/ worker' = Gone("dead")
          \/ worker' = [worker EXCEPT !.pc = "work", !.done = done,
                                      !.queue = Questions \ All(done)]
      BY <2>3 DEF Load
    <3> HIDE DEF done
    <3>2. ASSUME worker' = [worker EXCEPT !.pc = "work", !.done = done,
                                          !.queue = Questions \ All(done)]
          PROVE  worker'.busy = worker.busy
      BY <1>1, <3>2 DEF WorkerType
    <3> QED
      BY <2>2, <3>1, <3>2
  <2>4. CASE Joined
    <3>1. ASSUME worker' = [worker EXCEPT !.pc = "write", !.ready = None]
          PROVE  worker'.busy = worker.busy
      BY <1>1, <3>1 DEF WorkerType
    <3> QED
      BY <2>1, <2>4, <3>1 DEF Joined
  <2>5. CASE Fill
    BY <2>1, <2>5 DEF Fill
  <2> QED
    BY <1>4, <2>3, <2>4, <2>5
<1>5. CASE Return
  <2>1. PICK q \in worker.busy :
          \E s : worker' = [worker EXCEPT !.busy = @ \ {q}, !.ready = s]
    BY <1>1, <1>5 DEF Return, WorkerType
  <2>2. worker'.busy = worker.busy \ {q}
    BY <1>1, <2>1 DEF WorkerType
  <2> QED
    BY <2>2
<1>6. CASE Record
  BY <1>1, <1>6 DEF Record, WorkerType
<1> QED
  BY <1>2, <1>3, <1>4, <1>5, <1>6 DEF Next

\* A resumed job asks no question of the checkpoint again, whatever its
\* threads and the jobs before it have done.
THEOREM NothingAskedTwice == Spec => ResumeSkips
<1> DEFINE Skips == opt.resume =>
                      \A k \in worker'.busy \ worker.busy : k \notin All(ckpt.last)
<1>1. Inv /\ [Next]_vars => [Skips]_vars
  <2> SUFFICES ASSUME Inv, Next, opt.resume,
                      NEW k \in worker'.busy \ worker.busy
               PROVE  k \notin All(ckpt.last)
    OBVIOUS
  <2>1. CASE Take
    <3>1. PICK q \in worker.queue : worker'.busy = worker.busy \cup {q}
      BY <2>1 DEF Inv, BenchmarkTypeOK, WorkerType, Take
    <3> QED
      BY <3>1 DEF Inv, QueueIsNew
  <2>2. CASE ~Take
    BY <2>2, OthersBeginNothing
  <2> QED
    BY <2>1, <2>2
<1> QED
  BY <1>1, InvHolds, PTL DEF Spec, ResumeSkips
-----------------------------------------------------------------------------
(* The paper benchmark: what its steps keep.                               *)

ParentPcs == {"off", "seed", "poll", "stopping", "merge", "write", "ok", "partial", "dead"}

ProcType ==
  [pc : {"load", "loop", "ask", "write"} \cup Over, stop : BOOLEAN,
   ok : SUBSET Ordinals, failed : SUBSET Ordinals]

Checkpoint == [last : [Ordinals -> {"none", "succeeded", "failed"}], torn : BOOLEAN]

PaperTypeOK ==
  /\ ckpts \in [Files -> Checkpoint]
  /\ result \in [state : {"none", "torn", "whole"}, ok : SUBSET Ordinals,
                 failed : SUBSET Ordinals]
  /\ run \in RunOptions
  /\ parent \in [pc : ParentPcs, stop : BOOLEAN, next : Nat]
  /\ proc \in [Workers -> ProcType]

\* Whose workers run: those of the shards begun, none without the runner's
\* leave, and none when it merges.
Staffed ==
  /\ \A i \in Workers : Running(i) =>
       /\ i < run.shards
       /\ ~Single => parent.pc \in {"seed", "poll", "stopping", "dead"}
       /\ parent.pc = "seed" => i < parent.next
  /\ Single => parent.pc = "off"
  /\ parent.pc = "seed" => parent.next < run.shards

\* A worker knows the answers of its checkpoint, which it has read whole, and
\* leaves its loop early only when it is stopped.
Counted(i) ==
  /\ proc[i].pc \in {"loop", "ask", "write"} =>
       /\ ~ckpts[File(i)].torn
       /\ proc[i].ok = With(ckpts[File(i)].last, "succeeded") \cap Share(i)
       /\ proc[i].failed \subseteq Share(i)
  /\ proc[i].pc = "ask" => Todo(i) # {}
  /\ proc[i].pc = "write" /\ ~proc[i].stop => Todo(i) = {}

PaperInv ==
  PaperTypeOK /\ Staffed /\ (\A i \in Workers : Counted(i)) /\ ExitZeroIsComplete

\* The rows of a shard's checkpoint are of its own questions.
RowsInShard ==
  \A n \in Counts : \A i \in 0 .. n - 1 : \A q \in Ordinals :
    ckpts[<<n, i>>].last[q] # "none" => q \in Shard(n, i)

\* How many shards the runner has seeded.
SeededCount == IF parent.pc = "seed" THEN parent.next ELSE run.shards

\* A shard that is seeded has a row wherever the main checkpoint has one, until
\* the merge.
MainSeeded ==
  parent.pc \in {"seed", "poll", "stopping", "merge"} =>
    \A i \in 0 .. run.shards - 1 : \A q \in Share(i) :
      i < SeededCount /\ ckpts[Main].last[q] # "none" => ckpts[File(i)].last[q] # "none"

\* No run with another number of shards has left a row.
NoOthers ==
  \A f \in Files : f[1] \notin {1, run.shards} =>
    \A q \in Ordinals : ckpts[f].last[q] = "none"

\* Every answer of the main checkpoint is in that of its shard.
MainBehind ==
  ~Single => \A q \in With(ckpts[Main].last, "succeeded") :
    \E i \in 0 .. run.shards - 1 : ckpts[File(i)].last[q] = "succeeded"

History == RowsInShard /\ MainSeeded /\ (steady => NoOthers /\ MainBehind)
-----------------------------------------------------------------------------
(* Shards.                                                                 *)

\* A set of numbers that is not empty has a least one.
LEMMA LeastNumber ==
  ASSUME NEW S \in SUBSET Nat, S # {}
  PROVE  \E x \in S : \A y \in S : x <= y
<1> DEFINE R == {p \in Nat \X Nat : p[1] < p[2]}
<1>1. IsWellFoundedOn(R, Nat)
  BY NatLessThanWellFounded DEF OpToRel
<1> HIDE DEF R
<1>2. PICK x \in S : \A y \in S : <<y, x>> \notin R
  BY <1>1, WFMin
<1>3. \A y \in S : y \in Nat /\ x \in Nat /\ ~(y < x)
  BY <1>2 DEF R
<1> QED
  BY <1>3

\* Every question is counted once: in base shares of each shard, and one more
\* of each of the first shards.
LEMMA Division ==
  ASSUME NEW n \in Nat \ {0}
  PROVE  /\ QuestionCount \div n \in Nat
         /\ QuestionCount % n \in 0 .. n - 1
         /\ QuestionCount = n * (QuestionCount \div n) + (QuestionCount % n)
BY PaperAssumption

\* What shard_ranges computes step by step, in one.
Closed(n) ==
  [k \in 0 .. n |-> k * (QuestionCount \div n)
                      + (IF k <= QuestionCount % n THEN k ELSE QuestionCount % n)]

LEMMA ClosedSteps ==
  ASSUME NEW n \in Nat \ {0}
  PROVE  /\ Closed(n) \in [0 .. n -> Nat]
         /\ Closed(n)[0] = 0 /\ Closed(n)[n] = QuestionCount
         /\ \A k \in 1 .. n : Closed(n)[k] = Closed(n)[k - 1] + ShardSize(n, k - 1)
<1> DEFINE b == QuestionCount \div n
           r == QuestionCount % n
<1>1. b \in Nat /\ r \in 0 .. n - 1 /\ QuestionCount = n * b + r
  BY Division
<1>2. \A k \in 0 .. n : k * b \in Nat
  <2> HIDE DEF b
  <2> QED
    BY <1>1
<1>3. ASSUME NEW k \in 1 .. n
      PROVE  k * b = (k - 1) * b + b
  <2> HIDE DEF b
  <2> QED
    BY <1>1
<1>4. ASSUME NEW k \in 1 .. n
      PROVE  Closed(n)[k] = Closed(n)[k - 1] + ShardSize(n, k - 1)
  <2> DEFINE kb == k * b
             lb == (k - 1) * b
  <2>1. kb = lb + b /\ kb \in Nat /\ lb \in Nat
    BY <1>2, <1>3
  <2>2. /\ Closed(n)[k] = kb + (IF k <= r THEN k ELSE r)
        /\ Closed(n)[k - 1] = lb + (IF k - 1 <= r THEN k - 1 ELSE r)
        /\ ShardSize(n, k - 1) = b + (IF k - 1 < r THEN 1 ELSE 0)
    BY DEF Closed, ShardSize
  <2> HIDE DEF kb, lb, b, r
  <2> QED
    BY <1>1, <2>1, <2>2
<1>5. Closed(n)[0] = 0 /\ Closed(n)[n] = QuestionCount
  <2>1. 0 * b = 0
    BY <1>1
  <2>2. Closed(n)[0] = 0 * b + 0 /\ Closed(n)[n] = n * b + r
    BY <1>1 DEF Closed
  <2> HIDE DEF b, r
  <2> QED
    BY <1>1, <2>1, <2>2
<1>6. Closed(n) \in [0 .. n -> Nat]
  <2>1. \A k \in 0 .. n : k * b + (IF k <= r THEN k ELSE r) \in Nat
    <3> HIDE DEF b, r
    <3> QED
      BY <1>1, <1>2
  <2> QED
    BY <2>1 DEF Closed
<1> QED
  BY <1>4, <1>5, <1>6

\* The recursion of ShardStart has that solution, and no other.
LEMMA ShardStartIs ==
  ASSUME NEW n \in Nat \ {0}
  PROVE  ShardStart(n) = Closed(n)
<1> DEFINE F(g) == [k \in 0 .. n |->
                      IF k = 0 THEN 0 ELSE g[k - 1] + ShardSize(n, k - 1)]
<1>1. Closed(n) = F(Closed(n))
  <2>1. \A k \in 0 .. n : Closed(n)[k] = F(Closed(n))[k]
    BY ClosedSteps
  <2>2. Closed(n) = [k \in 0 .. n |-> Closed(n)[k]]
    BY DEF Closed
  <2> QED
    BY <2>1, <2>2
<1>2. ShardStart(n) = F(ShardStart(n))
  <2>1. ShardStart(n) = CHOOSE g : g = F(g)
    BY DEF ShardStart
  <2> QED
    BY <1>1, <2>1
<1>3. ASSUME ShardStart(n) # Closed(n)
      PROVE  FALSE
  <2> DEFINE Bad == {k \in 0 .. n : ShardStart(n)[k] # Closed(n)[k]}
  <2>1. Bad # {}
    BY <1>2, <1>3 DEF Closed
  <2>2. PICK x \in Bad : \A y \in Bad : x <= y
    <3>1. Bad \in SUBSET Nat
      OBVIOUS
    <3> HIDE DEF Bad
    <3> QED
      BY <2>1, <3>1, LeastNumber
  <2>3. CASE x = 0
    BY <1>1, <1>2, <2>3
  <2>4. CASE x # 0
    <3>1. x - 1 \in 0 .. n /\ x - 1 \notin Bad
      BY <2>2, <2>4
    <3> QED
      BY <1>1, <1>2, <2>4, <3>1
  <2> QED
    BY <2>3, <2>4
<1> QED
  BY <1>3

LEMMA ShardBounds ==
  ASSUME NEW n \in Nat \ {0}
  PROVE  /\ ShardStart(n) \in [0 .. n -> Nat]
         /\ ShardStart(n)[0] = 0 /\ ShardStart(n)[n] = QuestionCount
         /\ \A i \in 0 .. n - 1 :
              Shard(n, i) = {q \in Ordinals : ShardStart(n)[i] <= q
                                              /\ q < ShardStart(n)[i + 1]}
<1>1. \A i \in 0 .. n - 1 : i + 1 \in 1 .. n /\ (i + 1) - 1 = i
  OBVIOUS
<1> QED
  BY <1>1, ShardStartIs, ClosedSteps DEF Shard

\* A shard starts no earlier than one before it ends.
LEMMA ShardsAscend ==
  ASSUME NEW n \in Nat \ {0}, NEW i \in 0 .. n, NEW k \in i .. n
  PROVE  ShardStart(n)[i] <= ShardStart(n)[k]
<1> DEFINE b == QuestionCount \div n
           r == QuestionCount % n
<1>1. b \in Nat /\ r \in 0 .. n - 1
  BY Division
<1>2. i * b \in Nat /\ k * b \in Nat /\ i * b <= k * b
  <2> DEFINE d == k - i
  <2>1. d \in Nat /\ k = i + d
    OBVIOUS
  <2> HIDE DEF b, d
  <2>2. d * b \in Nat /\ i * b \in Nat
    BY <1>1, <2>1
  <2>3. (i + d) * b = i * b + d * b
    BY <1>1, <2>1
  <2> QED
    BY <2>1, <2>2, <2>3
<1> DEFINE ib == i * b
           kb == k * b
<1>3. /\ ShardStart(n)[i] = ib + (IF i <= r THEN i ELSE r)
      /\ ShardStart(n)[k] = kb + (IF k <= r THEN k ELSE r)
  BY ShardStartIs DEF Closed
<1>4. ib \in Nat /\ kb \in Nat /\ ib <= kb
  BY <1>2
<1> HIDE DEF ib, kb, b, r
<1> QED
  BY <1>1, <1>3, <1>4

\* shard_ranges: whatever the number of questions and shards, each question is
\* in exactly one shard, and no shard is without one unless there are more
\* shards than questions.
THEOREM ShardsPartition ==
  ASSUME NEW n \in Nat \ {0}
  PROVE  /\ \A q \in Ordinals : \E i \in 0 .. n - 1 : q \in Shard(n, i)
         /\ \A i, k \in 0 .. n - 1 : i # k => Shard(n, i) \cap Shard(n, k) = {}
         /\ n <= QuestionCount => \A i \in 0 .. n - 1 : Shard(n, i) # {}
<1> USE PaperAssumption
<1>1. ASSUME NEW q \in Ordinals
      PROVE  \E i \in 0 .. n - 1 : q \in Shard(n, i)
  <2> DEFINE Ends == {k \in 0 .. n : q < ShardStart(n)[k]}
  <2>1. n \in Ends /\ 0 \notin Ends /\ Ends \in SUBSET Nat
    BY ShardBounds DEF Ordinals
  <2>2. PICK k \in Ends : \A y \in Ends : k <= y
    <3> HIDE DEF Ends
    <3> QED
      BY <2>1, LeastNumber
  <2>3. k - 1 \in 0 .. n - 1 /\ k - 1 \notin Ends /\ (k - 1) + 1 = k
    BY <2>1, <2>2
  <2>4. ShardStart(n)[k - 1] <= q
    BY <2>3, ShardBounds DEF Ordinals
  <2> QED
    BY <2>2, <2>3, <2>4, ShardBounds
<1>2. ASSUME NEW i \in 0 .. n - 1, NEW k \in 0 .. n - 1, i < k
      PROVE  Shard(n, i) \cap Shard(n, k) = {}
  <2>1. ShardStart(n)[i + 1] <= ShardStart(n)[k]
    BY <1>2, ShardsAscend
  <2>2. ShardStart(n)[i + 1] \in Nat /\ ShardStart(n)[k] \in Nat
    BY <1>2, ShardBounds
  <2>3. \A q \in Shard(n, i) : q \in Nat /\ q < ShardStart(n)[i + 1]
    BY <1>2, ShardBounds DEF Ordinals
  <2>4. \A q \in Shard(n, k) : q \in Nat /\ ShardStart(n)[k] <= q
    BY <1>2, ShardBounds DEF Ordinals
  <2> QED
    BY <2>1, <2>2, <2>3, <2>4
<1>3. \A i, k \in 0 .. n - 1 : i # k => Shard(n, i) \cap Shard(n, k) = {}
  <2> TAKE i, k \in 0 .. n - 1
  <2> HAVE i # k
  <2>1. i < k \/ k < i
    OBVIOUS
  <2> QED
    BY <1>2, <2>1
<1>4. ASSUME n <= QuestionCount, NEW i \in 0 .. n - 1
      PROVE  Shard(n, i) # {}
  <2>1. QuestionCount \div n >= 1
    BY <1>4
  <2>2. /\ i \in 0 .. n /\ i + 1 \in 1 .. n /\ (i + 1) - 1 = i
        /\ ShardSize(n, i) \in Nat \ {0}
    BY <2>1, Division DEF ShardSize
  <2>3. ShardStart(n)[i] \in Nat /\ ShardStart(n)[i] < ShardStart(n)[i + 1]
    <3>1. ShardStart(n)[i] \in Nat /\ ShardStart(n)[i + 1] \in Nat
      BY <2>2, ShardBounds
    <3>2. ShardStart(n)[i + 1] = ShardStart(n)[i] + ShardSize(n, i)
      <4>1. Closed(n)[i + 1] = Closed(n)[(i + 1) - 1] + ShardSize(n, (i + 1) - 1)
        BY <2>2, ClosedSteps
      <4> QED
        BY <2>2, <4>1, ShardStartIs
    <3> QED
      BY <2>2, <3>1, <3>2
  <2>4. ShardStart(n)[i + 1] <= QuestionCount
    <3>1. i + 1 \in 0 .. n /\ n \in (i + 1) .. n
      BY <2>2
    <3>2. ShardStart(n)[i + 1] <= ShardStart(n)[n]
      BY <3>1, ShardsAscend
    <3> QED
      BY <3>2, ShardBounds
  <2>5. ShardStart(n)[i] \in Ordinals
    <3>1. ShardStart(n)[i + 1] \in Nat
      BY <2>2, ShardBounds
    <3> QED
      BY <2>3, <2>4, <3>1 DEF Ordinals
  <2> QED
    BY <2>3, <2>5, ShardBounds DEF Ordinals
<1> QED
  BY <1>1, <1>3, <1>4
-----------------------------------------------------------------------------
(* Workers and their files.                                                *)

\* A single worker is not started without --resume.  One that is appends to a
\* checkpoint it has not read: it asks again what has an answer there, and its
\* first row is lost if the last one is torn.
AlwaysResumes == \A o \in RunOptions : o.shards = 1 => o.resume

LEMMA FilesShape ==
  ASSUME PaperTypeOK
  PROVE  /\ run.shards \in Nat \ {0} /\ run.shards <= QuestionCount
         /\ run.shards \in Counts
         /\ Workers \subseteq Nat /\ 0 \in Workers /\ Main \in Files
         /\ \A i \in Nat : i < run.shards => i \in Workers /\ File(i) \in Files
         /\ \A i, k \in Nat : i # k => File(i) # File(k)
         /\ Single => File(0) = Main
         /\ ~Single => \A i : File(i) # Main
<1> USE PaperAssumption
<1>1. run \in RunOptions /\ run.shards \in Nat \ {0} /\ run.shards <= QuestionCount
  BY DEF PaperTypeOK, RunOption
<1>2. run.shards \in Counts /\ Counts \subseteq Nat \ {0}
  BY <1>1 DEF Counts, RunOption
<1>3. Workers \subseteq Nat
  BY <1>2 DEF Workers
<1>4. \A i \in Nat : i < run.shards => i \in Workers
  <2> TAKE i \in Nat
  <2> HAVE i < run.shards
  <2>1. i \in 0 .. run.shards - 1
    BY <1>1
  <2> QED
    BY <1>2, <2>1 DEF Workers
<1>5. \A n \in Counts \cup {1} : \A i \in 0 .. n - 1 : <<n, i>> \in Files
  BY DEF Files
<1>6. Main \in Files
  BY <1>5 DEF Main
<1>7. \A i \in Nat : i < run.shards => File(i) \in Files
  BY <1>1, <1>2, <1>5 DEF File
<1>8. /\ \A i, k \in Nat : i # k => File(i) # File(k)
      /\ Single => File(0) = Main
      /\ ~Single => \A i : File(i) # Main
  BY DEF File, Single, Main
<1> QED
  BY <1>1, <1>2, <1>3, <1>4, <1>6, <1>7, <1>8

LEMMA SharesAreOrdinals == \A n, i : Shard(n, i) \subseteq Ordinals
BY DEF Shard

\* A single worker asks all questions.
LEMMA SingleShare ==
  ASSUME Single
  PROVE  Share(0) = Ordinals
<1>1. \A q \in Ordinals : \E i \in 0 .. 0 : q \in Shard(1, i)
  BY ShardsPartition
<1> QED
  BY <1>1, SharesAreOrdinals DEF Share, Single

\* While a worker runs, no run has exited 0.
LEMMA WhileRunning ==
  ASSUME PaperTypeOK, Staffed, NEW i \in Workers, Running(i)
  PROVE  /\ i \in Nat /\ i < run.shards /\ File(i) \in Files
         /\ Single => i = 0
         /\ parent.pc # "ok"
<1>1. i \in Nat /\ i < run.shards
  BY FilesShape DEF Staffed
<1> QED
  BY <1>1, FilesShape DEF Staffed, Single

\* Of a worker that has ended, or not begun to ask, nothing is to be shown.
LEMMA NotCounting ==
  ASSUME NEW i, proc'[i].pc \notin {"loop", "ask", "write"}
  PROVE  Counted(i)'
BY DEF Counted

\* A worker whose checkpoint is left alone still agrees with it.
LEMMA StillCounted ==
  ASSUME NEW i, Counted(i), run' = run, proc'[i] = proc[i],
         ckpts'[File(i)] = ckpts[File(i)]
  PROVE  Counted(i)'
<1>1. File(i)' = File(i) /\ Share(i)' = Share(i) /\ Todo(i)' = Todo(i)
  BY DEF File, Share, Todo
<1> QED
  BY <1>1 DEF Counted, With

\* A step of one worker on its own checkpoint.
LEMMA WorkerInv ==
  ASSUME PaperInv, NEW i \in Workers, Running(i),
         NEW file \in Checkpoint, NEW p \in ProcType,
         ckpts' = [ckpts EXCEPT ![File(i)] = file],
         proc' = [proc EXCEPT ![i] = p],
         UNCHANGED <<run, parent>>,
         PaperTypeOK => result' \in [state : {"none", "torn", "whole"},
                                     ok : SUBSET Ordinals, failed : SUBSET Ordinals],
         Counted(i)',
         Single /\ p.pc = "ok" /\ ~p.stop => ExitZeroIsComplete'
  PROVE  PaperInv'
<1>1. /\ i \in Nat /\ i < run.shards /\ File(i) \in Files
      /\ Single => i = 0
      /\ parent.pc # "ok"
  BY WhileRunning DEF PaperInv
<1>2. proc' \in [Workers -> ProcType] /\ proc'[i] = p
  BY DEF PaperInv, PaperTypeOK
<1>3. PaperTypeOK'
  BY <1>1, <1>2 DEF PaperInv, PaperTypeOK
<1>4. \A k \in Workers \ {i} : proc'[k] = proc[k]
  BY DEF PaperInv, PaperTypeOK
<1>5. Staffed'
  BY <1>1, <1>4 DEF PaperInv, Staffed, Running, Single
<1>6. ASSUME NEW k \in Workers \ {i}
      PROVE  Counted(k)'
  <2>1. File(k) # File(i)
    BY <1>1, FilesShape DEF PaperInv
  <2>2. ckpts'[File(k)] = ckpts[File(k)]
    <3>1. CASE File(k) \in Files
      BY <2>1, <3>1 DEF PaperInv, PaperTypeOK
    <3>2. CASE File(k) \notin Files
      BY <2>1, <3>2 DEF PaperInv, PaperTypeOK
    <3> QED
      BY <3>1, <3>2
  <2> QED
    BY <1>4, <2>2, StillCounted DEF PaperInv
<1>7. ExitZeroIsComplete'
  BY <1>1, <1>2 DEF ExitZeroIsComplete, Single
<1> QED
  BY <1>3, <1>5, <1>6, <1>7 DEF PaperInv
-----------------------------------------------------------------------------
(* A worker's steps.                                                       *)

LEMMA RunningPcs ==
  ASSUME NEW i, proc[i].pc \in {"load", "loop", "ask", "write"}
  PROVE  Running(i)
BY DEF Running, Over

LEMMA LeastQuestion ==
  ASSUME NEW S \in SUBSET Ordinals, S # {}
  PROVE  Min(S) \in S
<1>1. S \in SUBSET Nat
  BY PaperAssumption DEF Ordinals
<1>2. \E q \in S : \A x \in S : q <= x
  BY <1>1, LeastNumber
<1> QED
  BY <1>2 DEF Min

LEMMA SignalWorkerInv ==
  ASSUME PaperInv, NEW i \in Workers, SignalWorker(i)
  PROVE  PaperInv'
<1> DEFINE p == [proc[i] EXCEPT !.stop = TRUE]
<1>1. /\ Running(i) /\ UNCHANGED <<ckpts, result, run, parent>>
      /\ proc' = [proc EXCEPT ![i] = p]
  BY DEF SignalWorker
<1>2. File(i) \in Files /\ proc[i] \in ProcType /\ ckpts[File(i)] \in Checkpoint
      /\ proc'[i] = p
  BY <1>1, WhileRunning DEF PaperInv, PaperTypeOK
<1>3. p \in ProcType /\ p.pc = proc[i].pc /\ p.stop
      /\ p.ok = proc[i].ok /\ p.failed = proc[i].failed
  BY <1>2 DEF ProcType
<1>4. ckpts' = [ckpts EXCEPT ![File(i)] = ckpts[File(i)]]
  BY <1>1 DEF PaperInv, PaperTypeOK
<1>5. Counted(i)'
  <2>1. File(i)' = File(i) /\ Share(i)' = Share(i) /\ Todo(i)' = Todo(i)
    BY <1>1, <1>2, <1>3 DEF File, Share, Todo
  <2> QED
    BY <1>1, <1>2, <1>3, <2>1 DEF PaperInv, Counted, With
<1> QED
  BY <1>1, <1>2, <1>3, <1>4, <1>5, WorkerInv DEF PaperTypeOK

LEMMA TornType ==
  ASSUME PaperTypeOK, NEW i, NEW f \in Files, NEW file \in Torn(i, ckpts[f])
  PROVE  file \in Checkpoint /\ file.last = ckpts[f].last
<1>1. ckpts[f] \in Checkpoint
  BY DEF PaperTypeOK
<1>2. file = ckpts[f] \/ file = [ckpts[f] EXCEPT !.torn = TRUE]
  BY DEF Torn
<1> QED
  BY <1>1, <1>2 DEF Checkpoint

LEMMA DeadType == Dead \in ProcType /\ Dead.pc = "dead" /\ Idle \in ProcType
BY DEF Dead, Idle, ProcType, Over

LEMMA KillWorkerInv ==
  ASSUME PaperInv, NEW i \in Workers, KillWorker(i)
  PROVE  PaperInv'
<1>1. PICK file \in Torn(i, ckpts[File(i)]) : ckpts' = [ckpts EXCEPT ![File(i)] = file]
  BY DEF KillWorker
<1>2. /\ Running(i) /\ UNCHANGED <<run, parent>>
      /\ proc' = [proc EXCEPT ![i] = Dead]
      /\ result' \in TornResult(Single /\ proc[i].pc = "write")
  BY DEF KillWorker
<1>3. File(i) \in Files /\ file \in Checkpoint
  BY <1>1, <1>2, WhileRunning, TornType DEF PaperInv
<1>4. proc'[i] = Dead
  BY <1>2 DEF PaperInv, PaperTypeOK
<1>5. Counted(i)'
  BY <1>4, DeadType, NotCounting
<1>6. result' = result \/ result' = [NoResult EXCEPT !.state = "torn"]
  BY <1>2 DEF TornResult
<1>7. PaperTypeOK => result' \in [state : {"none", "torn", "whole"},
                                 ok : SUBSET Ordinals, failed : SUBSET Ordinals]
  BY <1>6 DEF PaperTypeOK, NoResult
<1> QED
  BY <1>1, <1>2, <1>3, <1>5, <1>7, DeadType, WorkerInv

\* What a worker takes over are the answers of its checkpoint, and failures.
LEMMA LoadCheckpointInv ==
  ASSUME AlwaysResumes, PaperInv, NEW i \in Workers, LoadCheckpoint(i)
  PROVE  PaperInv'
<1> DEFINE file == ckpts[File(i)]
           had  == TakenOver(file.last, run.retry)
           p    == [proc[i] EXCEPT !.pc = "loop", !.ok = had.ok \cap Share(i),
                                   !.failed = had.failed \cap Share(i)]
<1>1. /\ proc[i].pc = "load" /\ Running(i)
      /\ UNCHANGED <<ckpts, result, run, parent>>
  BY RunningPcs DEF LoadCheckpoint
<1>2. File(i) \in Files /\ proc[i] \in ProcType /\ file \in Checkpoint
  BY <1>1, WhileRunning DEF PaperInv, PaperTypeOK
<1>3. Resumes
  BY DEF AlwaysResumes, Resumes, Single, PaperInv, PaperTypeOK
<1>4. ckpts' = [ckpts EXCEPT ![File(i)] = file]
  BY <1>1 DEF PaperInv, PaperTypeOK
<1>5. Share(i) \subseteq Ordinals
  BY SharesAreOrdinals DEF Share
<1>6. CASE file.torn
  <2>1. proc' = [proc EXCEPT ![i] = Dead]
    BY <1>3, <1>6 DEF LoadCheckpoint
  <2>2. proc'[i] = Dead
    BY <2>1 DEF PaperInv, PaperTypeOK
  <2>3. Counted(i)'
    BY <2>2, DeadType, NotCounting
  <2> QED
    BY <1>1, <1>2, <1>4, <2>1, <2>3, DeadType, WorkerInv DEF PaperTypeOK
<1>7. CASE ~file.torn
  <2>1. proc' = [proc EXCEPT ![i] = p]
    BY <1>3, <1>7 DEF LoadCheckpoint
  <2>2. proc'[i] = p
    BY <2>1 DEF PaperInv, PaperTypeOK
  <2>3. /\ p \in ProcType /\ p.pc = "loop"
        /\ p.ok = With(file.last, "succeeded") \cap Share(i)
        /\ p.failed \subseteq Share(i)
    BY <1>2, <1>5 DEF ProcType, TakenOver
  <2>4. Counted(i)'
    <3>1. File(i)' = File(i) /\ Share(i)' = Share(i)
      BY <1>1 DEF File, Share
    <3> QED
      BY <1>1, <1>7, <2>2, <2>3, <3>1 DEF Counted, With
  <2> QED
    BY <1>1, <1>2, <1>4, <2>1, <2>3, <2>4, WorkerInv DEF PaperTypeOK
<1> QED
  BY <1>6, <1>7

\* Next question, or none.
LEMMA LoopInv ==
  ASSUME PaperInv, NEW i \in Workers, Ask(i) \/ Finish(i)
  PROVE  PaperInv'
<1>1. PICK pc \in {"ask", "write"} :
        /\ proc' = [proc EXCEPT ![i].pc = pc]
        /\ pc = "ask" => Todo(i) # {}
        /\ pc = "write" => Todo(i) = {} \/ proc[i].stop
  BY DEF Ask, Finish
<1> DEFINE p == [proc[i] EXCEPT !.pc = pc]
<1>2. /\ proc[i].pc = "loop" /\ Running(i)
      /\ UNCHANGED <<ckpts, result, run, parent>>
      /\ proc' = [proc EXCEPT ![i] = p]
  BY <1>1, RunningPcs DEF Ask, Finish
<1>3. File(i) \in Files /\ proc[i] \in ProcType /\ ckpts[File(i)] \in Checkpoint
      /\ proc'[i] = p
  BY <1>2, WhileRunning DEF PaperInv, PaperTypeOK
<1>4. p \in ProcType /\ p.pc = pc /\ p.stop = proc[i].stop
      /\ p.ok = proc[i].ok /\ p.failed = proc[i].failed
  BY <1>3 DEF ProcType
<1>5. ckpts' = [ckpts EXCEPT ![File(i)] = ckpts[File(i)]]
  BY <1>2 DEF PaperInv, PaperTypeOK
<1>6. Counted(i)'
  <2>1. File(i)' = File(i) /\ Share(i)' = Share(i) /\ Todo(i)' = Todo(i)
    BY <1>2, <1>3, <1>4 DEF File, Share, Todo
  <2> QED
    BY <1>1, <1>2, <1>3, <1>4, <2>1 DEF PaperInv, Counted, With
<1> QED
  BY <1>2, <1>3, <1>4, <1>5, <1>6, WorkerInv DEF PaperTypeOK

\* What an answer does to the checkpoint: the row of a question that had no
\* answer in it.
LEMMA AnswerStep ==
  ASSUME PaperInv, NEW i \in Workers, Answer(i)
  PROVE  \E q \in Todo(i), status \in Replies :
           /\ q \in Share(i) /\ ckpts[File(i)].last[q] # "succeeded"
           /\ ckpts' = [ckpts EXCEPT ![File(i)] = [@ EXCEPT !.last[q] = status]]
           /\ proc' = [proc EXCEPT
                ![i].pc     = "loop",
                ![i].ok     = @ \cup (IF status = "succeeded" THEN {q} ELSE {}),
                ![i].failed = @ \cup (IF status = "failed" THEN {q} ELSE {})]
<1> DEFINE q == Min(Todo(i))
<1>1. proc[i].pc = "ask" /\ Running(i)
  BY RunningPcs DEF Answer
<1>2. Counted(i) /\ Todo(i) # {} /\ ~ckpts[File(i)].torn
  BY <1>1 DEF PaperInv, Counted
<1>3. q \in Todo(i) /\ q \in Share(i) /\ q \in Ordinals /\ q \notin proc[i].ok
  BY <1>2, LeastQuestion, SharesAreOrdinals DEF Todo, Share
<1>4. ckpts[File(i)].last[q] # "succeeded"
  BY <1>1, <1>2, <1>3 DEF Counted, With
<1>5. File(i) \in Files
  BY <1>1, WhileRunning DEF PaperInv
<1>6. PICK status \in Replies :
        /\ proc' = [proc EXCEPT
             ![i].pc     = "loop",
             ![i].ok     = @ \cup (IF status = "succeeded" THEN {q} ELSE {}),
             ![i].failed = @ \cup (IF status = "failed" THEN {q} ELSE {})]
        /\ ckpts' = [ckpts EXCEPT ![File(i)] = Append(@, q, status)]
  BY DEF Answer
<1>7. ckpts' = [ckpts EXCEPT ![File(i)] = [@ EXCEPT !.last[q] = status]]
  BY <1>2, <1>6 DEF Append
<1> QED
  BY <1>3, <1>4, <1>6, <1>7

LEMMA AnswerInv ==
  ASSUME PaperInv, NEW i \in Workers, Answer(i)
  PROVE  PaperInv'
<1>1. PICK q \in Todo(i), status \in Replies :
        /\ q \in Share(i) /\ ckpts[File(i)].last[q] # "succeeded"
        /\ ckpts' = [ckpts EXCEPT ![File(i)] = [@ EXCEPT !.last[q] = status]]
        /\ proc' = [proc EXCEPT
             ![i].pc     = "loop",
             ![i].ok     = @ \cup (IF status = "succeeded" THEN {q} ELSE {}),
             ![i].failed = @ \cup (IF status = "failed" THEN {q} ELSE {})]
  BY AnswerStep
<1> DEFINE file == [ckpts[File(i)] EXCEPT !.last[q] = status]
           p    == [proc[i] EXCEPT !.pc = "loop",
                      !.ok = @ \cup (IF status = "succeeded" THEN {q} ELSE {}),
                      !.failed = @ \cup (IF status = "failed" THEN {q} ELSE {})]
<1>2. proc[i].pc = "ask" /\ Running(i) /\ UNCHANGED <<result, run, parent>>
  BY RunningPcs DEF Answer
<1>3. /\ File(i) \in Files /\ proc[i] \in ProcType /\ ckpts[File(i)] \in Checkpoint
      /\ q \in Ordinals
  BY <1>1, <1>2, WhileRunning, SharesAreOrdinals DEF PaperInv, PaperTypeOK, Share
<1>4. ckpts' = [ckpts EXCEPT ![File(i)] = file] /\ ckpts'[File(i)] = file
  BY <1>1, <1>3 DEF PaperInv, PaperTypeOK
<1>5. proc' = [proc EXCEPT ![i] = p] /\ proc'[i] = p
  BY <1>1 DEF PaperInv, PaperTypeOK
<1>6. file \in Checkpoint /\ file.torn = ckpts[File(i)].torn
      /\ file.last = [ckpts[File(i)].last EXCEPT ![q] = status]
  BY <1>3 DEF Checkpoint, Replies
<1>7. p \in ProcType /\ p.pc = "loop"
      /\ p.ok = proc[i].ok \cup (IF status = "succeeded" THEN {q} ELSE {})
      /\ p.failed = proc[i].failed \cup (IF status = "failed" THEN {q} ELSE {})
  BY <1>3 DEF ProcType
<1>8. Counted(i)'
  <2>1. File(i)' = File(i) /\ Share(i)' = Share(i)
    BY <1>2 DEF File, Share
  <2>2. With(file.last, "succeeded")
          = With(ckpts[File(i)].last, "succeeded")
              \cup (IF status = "succeeded" THEN {q} ELSE {})
    BY <1>1, <1>3, <1>6 DEF With, Checkpoint
  <2>3. /\ ~ckpts[File(i)].torn
        /\ proc[i].ok = With(ckpts[File(i)].last, "succeeded") \cap Share(i)
        /\ proc[i].failed \subseteq Share(i)
    BY <1>2 DEF PaperInv, Counted
  <2>4. p.ok = With(file.last, "succeeded") \cap Share(i) /\ p.failed \subseteq Share(i)
    BY <1>1, <1>7, <2>2, <2>3
  <2> HIDE DEF p, file
  <2>5. ckpts'[File(i)'] = file
    BY <1>4, <2>1
  <2> QED
    BY <1>5, <1>6, <1>7, <2>1, <2>3, <2>4, <2>5 DEF Counted, With
<1> QED
  BY <1>2, <1>3, <1>4, <1>5, <1>6, <1>7, <1>8, WorkerInv DEF PaperTypeOK

\* A single worker that exits 0, and was not stopped, has answered everything.
LEMMA PaperWriteInv ==
  ASSUME PaperInv, NEW i \in Workers, Write(i)
  PROVE  PaperInv'
<1> DEFINE p == [Idle EXCEPT !.pc = IF proc[i].failed = {} THEN "ok" ELSE "partial",
                             !.stop = proc[i].stop]
<1>1. /\ proc[i].pc = "write" /\ Running(i) /\ UNCHANGED <<ckpts, run, parent>>
      /\ proc' = [proc EXCEPT ![i] = p]
      /\ result' = IF Single
                   THEN [state |-> "whole", ok |-> proc[i].ok, failed |-> proc[i].failed]
                   ELSE result
  BY RunningPcs DEF Write
<1>2. /\ File(i) \in Files /\ proc[i] \in ProcType /\ ckpts[File(i)] \in Checkpoint
      /\ proc'[i] = p
      /\ Single => i = 0
  BY <1>1, WhileRunning DEF PaperInv, PaperTypeOK
<1>3. /\ p \in ProcType /\ p.pc \in {"ok", "partial"} /\ p.stop = proc[i].stop
      /\ p.pc = "ok" => proc[i].failed = {}
  BY <1>2 DEF ProcType, Idle, Over
<1>4. ckpts' = [ckpts EXCEPT ![File(i)] = ckpts[File(i)]]
  BY <1>1 DEF PaperInv, PaperTypeOK
<1>5. Counted(i)'
  BY <1>2, <1>3, NotCounting
<1>6. PaperTypeOK => result' \in [state : {"none", "torn", "whole"},
                                 ok : SUBSET Ordinals, failed : SUBSET Ordinals]
  BY <1>1, <1>2 DEF PaperTypeOK, ProcType
<1>7. ASSUME Single, p.pc = "ok", ~p.stop
      PROVE  ExitZeroIsComplete'
  <2>1. i = 0 /\ File(i) = Main /\ Share(i) = Ordinals
    BY <1>2, <1>7, FilesShape, SingleShare DEF PaperInv
  <2>2. Counted(i)
    BY DEF PaperInv
  <2>3. proc[i].ok = With(ckpts[Main].last, "succeeded") \cap Ordinals /\ Todo(i) = {}
    BY <1>1, <1>3, <1>7, <2>1, <2>2 DEF Counted
  <2>4. proc[i].ok = Ordinals /\ proc[i].failed = {}
    BY <1>3, <1>7, <2>1, <2>3 DEF Todo
  <2>5. With(ckpts[Main].last, "succeeded") = Ordinals
    BY <2>3, <2>4 DEF With
  <2>6. result' = [state |-> "whole", ok |-> Ordinals, failed |-> {}]
    BY <1>1, <1>7, <2>4
  <2>7. With(ckpts'[Main].last, "succeeded") = Ordinals
    BY <1>1, <2>5
  <2> QED
    BY <2>6, <2>7 DEF ExitZeroIsComplete, With
<1> QED
  BY <1>1, <1>2, <1>3, <1>4, <1>5, <1>6, <1>7, WorkerInv
-----------------------------------------------------------------------------
(* The runner's steps.                                                     *)

LEMMA PaperInitInv == PaperInit => PaperInv
<1> SUFFICES ASSUME PaperInit PROVE PaperInv
  OBVIOUS
<1> USE PaperAssumption
<1>1. Empty \in Checkpoint
  BY DEF Empty, Checkpoint
<1>2. PaperTypeOK
  BY <1>1, DeadType DEF PaperInit, PaperTypeOK, NoResult, ParentPcs
<1>3. \A i \in Workers : proc[i].pc = "off"
  BY DEF PaperInit, Idle
<1>4. Staffed
  BY <1>3 DEF PaperInit, Staffed, Running, Over
<1>5. \A i \in Workers : Counted(i)
  BY <1>3 DEF Counted
<1>6. ExitZeroIsComplete
  BY <1>2, <1>3, FilesShape DEF PaperInit, ExitZeroIsComplete
<1> QED
  BY <1>2, <1>4, <1>5, <1>6 DEF PaperInv

LEMMA StartRunInv ==
  ASSUME PaperInv, StartRun
  PROVE  PaperInv'
<1>1. PICK o \in RunOptions :
        /\ run' = o
        /\ parent' = [pc |-> IF o.shards = 1 THEN "off" ELSE "seed",
                      stop |-> FALSE, next |-> 0]
        /\ proc' = [i \in Workers |->
                      IF o.shards = 1 /\ i = 0 THEN [Idle EXCEPT !.pc = "load"]
                                               ELSE Idle]
  BY DEF StartRun
<1>2. ckpts' = ckpts /\ result' = result /\ o.shards \in Nat \ {0}
  BY PaperAssumption DEF StartRun, RunOption
<1>3. [Idle EXCEPT !.pc = "load"] \in ProcType
      /\ [Idle EXCEPT !.pc = "load"].pc = "load" /\ Idle.pc = "off"
  BY DEF ProcType, Idle
<1>4. PaperTypeOK'
  BY <1>1, <1>2, <1>3, DeadType DEF PaperInv, PaperTypeOK, ParentPcs
<1>5. \A i \in Workers : /\ proc'[i].pc \in {"load", "off"}
                         /\ proc'[i].pc = "load" => o.shards = 1 /\ i = 0
  BY <1>1, <1>3
<1>6. Staffed'
  BY <1>1, <1>2, <1>5 DEF Staffed, Running, Single, Over
<1>7. \A i \in Workers : Counted(i)'
  BY <1>5, NotCounting
<1>8. ExitZeroIsComplete'
  BY <1>1, <1>4, <1>5, FilesShape DEF ExitZeroIsComplete, PaperInv
<1> QED
  BY <1>4, <1>6, <1>7, <1>8 DEF PaperInv

LEMMA NotToParentInv ==
  ASSUME PaperInv, SignalParent \/ KillParent
  PROVE  PaperInv'
<1>1. /\ UNCHANGED <<ckpts, run, proc>>
      /\ parent.pc \in {"seed", "poll", "stopping", "merge", "write"}
      /\ \/ parent' = [parent EXCEPT !.stop = TRUE] /\ result' = result
         \/ parent' = [parent EXCEPT !.pc = "dead"]
      /\ result' = result \/ result' = [NoResult EXCEPT !.state = "torn"]
  BY DEF SignalParent, KillParent, TornResult
<1>2. PaperTypeOK'
  BY <1>1 DEF PaperInv, PaperTypeOK, NoResult, ParentPcs
<1>3. ~Single /\ parent'.next = parent.next /\ parent'.pc \in {parent.pc, "dead"}
  BY <1>1 DEF PaperInv, Staffed, PaperTypeOK
<1>4. Staffed'
  BY <1>1, <1>3 DEF PaperInv, Staffed, Running, Single
<1>5. \A i \in Workers : Counted(i)'
  BY <1>1, StillCounted DEF PaperInv
<1>6. ExitZeroIsComplete'
  BY <1>1, <1>3 DEF ExitZeroIsComplete, Single
<1> QED
  BY <1>2, <1>4, <1>5, <1>6 DEF PaperInv

\* What seeding a shard does to its checkpoint.
LEMMA SeedStep ==
  ASSUME PaperInv, Seed, parent'.pc # "dead"
  PROVE  LET i == parent.next
         IN /\ i \in Nat /\ i < run.shards /\ i \in Workers /\ File(i) \in Files
            /\ ~Running(i)
            /\ ckpts' = [ckpts EXCEPT ![File(i)] =
                           Written(Seeded(ckpts[File(i)], ckpts[Main], Share(i)))]
            /\ proc' = [proc EXCEPT ![i].pc = "load"]
            /\ parent' = [parent EXCEPT
                 !.pc = IF i + 1 = run.shards THEN "poll" ELSE "seed", !.next = i + 1]
<1> DEFINE i == parent.next
<1>1. i \in Nat /\ i < run.shards /\ parent.pc = "seed" /\ parent.pc # "dead"
  BY DEF PaperInv, PaperTypeOK, Staffed, Seed
<1>2. i \in Workers /\ File(i) \in Files
  BY <1>1, FilesShape DEF PaperInv
<1>3. ~Running(i)
  BY <1>1, <1>2 DEF PaperInv, Staffed
<1>4. ~(ckpts[File(i)].torn \/ ckpts[Main].torn)
  <2>1. ASSUME parent' = [parent EXCEPT !.pc = "dead"] PROVE FALSE
    BY <2>1 DEF PaperInv, PaperTypeOK
  <2> QED
    BY <2>1 DEF Seed
<1> QED
  BY <1>1, <1>2, <1>3, <1>4 DEF Seed

LEMMA SeededType ==
  ASSUME NEW f \in Checkpoint, NEW m \in Checkpoint, NEW S
  PROVE  /\ Written(Seeded(f, m, S)) \in Checkpoint
         /\ Written(Seeded(f, m, S)).last = Seeded(f, m, S)
         /\ \A q \in Ordinals : Seeded(f, m, S)[q] =
              IF q \notin S THEN "none"
              ELSE IF f.last[q] # "none" THEN f.last[q] ELSE m.last[q]
BY DEF Checkpoint, Written, Seeded

LEMMA SeedInv ==
  ASSUME PaperInv, Seed
  PROVE  PaperInv'
<1> DEFINE i == parent.next
           file == Written(Seeded(ckpts[File(i)], ckpts[Main], Share(i)))
<1>1. parent.pc = "seed" /\ UNCHANGED <<result, run>> /\ ~Single
  BY DEF Seed, PaperInv, Staffed
<1>2. CASE parent'.pc = "dead"
  <2>1. UNCHANGED <<ckpts, proc>> /\ parent' = [parent EXCEPT !.pc = "dead"]
    <3>1. ASSUME parent' = [parent EXCEPT
                   !.pc = IF i + 1 = run.shards THEN "poll" ELSE "seed", !.next = i + 1]
          PROVE  FALSE
      BY <1>2, <3>1 DEF PaperInv, PaperTypeOK
    <3> QED
      BY <3>1 DEF Seed
  <2>2. PaperTypeOK'
    BY <1>1, <2>1 DEF PaperInv, PaperTypeOK, ParentPcs
  <2>3. Staffed'
    BY <1>1, <1>2, <2>1 DEF PaperInv, Staffed, Running, Single
  <2>4. \A k \in Workers : Counted(k)'
    BY <1>1, <2>1, StillCounted DEF PaperInv
  <2>5. ExitZeroIsComplete'
    BY <1>1, <1>2 DEF ExitZeroIsComplete, Single
  <2> QED
    BY <2>2, <2>3, <2>4, <2>5 DEF PaperInv
<1>3. CASE parent'.pc # "dead"
  <2>1. /\ i \in Nat /\ i < run.shards /\ i \in Workers /\ File(i) \in Files
        /\ ~Running(i)
        /\ ckpts' = [ckpts EXCEPT ![File(i)] = file]
        /\ proc' = [proc EXCEPT ![i].pc = "load"]
        /\ parent' = [parent EXCEPT
             !.pc = IF i + 1 = run.shards THEN "poll" ELSE "seed", !.next = i + 1]
    BY <1>3, SeedStep
  <2>2. file \in Checkpoint
    <3>1. ckpts[File(i)] \in Checkpoint /\ ckpts[Main] \in Checkpoint
      BY <2>1, FilesShape DEF PaperInv, PaperTypeOK
    <3> QED
      BY <3>1, SeededType
  <2>3. PaperTypeOK'
    <3>1. ckpts' \in [Files -> Checkpoint]
      BY <2>1, <2>2 DEF PaperInv, PaperTypeOK
    <3>2. proc' \in [Workers -> ProcType]
      BY <2>1 DEF PaperInv, PaperTypeOK, ProcType
    <3>3. parent' \in [pc : ParentPcs, stop : BOOLEAN, next : Nat]
      <4> DEFINE pc == IF i + 1 = run.shards THEN "poll" ELSE "seed"
      <4>1. pc \in ParentPcs /\ i + 1 \in Nat
        BY <2>1 DEF ParentPcs
      <4>2. parent' = [parent EXCEPT !.pc = pc, !.next = i + 1]
        BY <2>1
      <4>3. parent \in [pc : ParentPcs, stop : BOOLEAN, next : Nat]
        BY DEF PaperInv, PaperTypeOK
      <4> HIDE DEF pc, i
      <4> QED
        BY <4>1, <4>2, <4>3
    <3> QED
      BY <1>1, <3>1, <3>2, <3>3 DEF PaperInv, PaperTypeOK
  <2>4. /\ parent'.pc = IF i + 1 = run.shards THEN "poll" ELSE "seed"
        /\ parent'.next = i + 1
        /\ proc'[i].pc = "load"
        /\ \A k \in Workers \ {i} : proc'[k] = proc[k]
    BY <2>1 DEF PaperInv, PaperTypeOK, ProcType
  <2>5. Staffed'
    <3>1. run.shards \in Nat
      BY FilesShape DEF PaperInv
    <3>2. ASSUME NEW k \in Workers, Running(k)'
          PROVE  k \in Nat /\ k < run.shards /\ k <= i
      <4>1. CASE k = i
        BY <2>1, <4>1
      <4>2. CASE k # i
        <5>1. Running(k)
          BY <2>4, <3>2, <4>2 DEF Running
        <5>2. k \in Nat
          BY FilesShape DEF PaperInv
        <5> QED
          BY <1>1, <2>1, <5>1, <5>2 DEF PaperInv, Staffed
      <4> QED
        BY <4>1, <4>2
    <3> QED
      BY <1>1, <2>1, <2>4, <3>1, <3>2 DEF Staffed, Single
  <2>6. ASSUME NEW k \in Workers
        PROVE  Counted(k)'
    <3>1. CASE k = i
      BY <2>4, <3>1, NotCounting
    <3>2. CASE k # i
      <4>1. File(k) # File(i)
        BY <2>1, <3>2, FilesShape DEF PaperInv
      <4>2. ckpts'[File(k)] = ckpts[File(k)]
        <5>1. CASE File(k) \in Files
          BY <2>1, <4>1, <5>1 DEF PaperInv, PaperTypeOK
        <5>2. CASE File(k) \notin Files
          BY <2>1, <4>1, <5>2 DEF PaperInv, PaperTypeOK
        <5> QED
          BY <5>1, <5>2
      <4> QED
        BY <1>1, <2>4, <3>2, <4>2, StillCounted DEF PaperInv
    <3> QED
      BY <3>1, <3>2
  <2>7. ExitZeroIsComplete'
    BY <1>1, <2>4 DEF ExitZeroIsComplete, Single
  <2> QED
    BY <2>3, <2>5, <2>6, <2>7 DEF PaperInv
<1> QED
  BY <1>2, <1>3
LEMMA PollInv ==
  ASSUME PaperInv, Poll
  PROVE  PaperInv'
<1>1. parent.pc = "poll" /\ UNCHANGED <<ckpts, result, run>> /\ ~Single
  BY DEF Poll, PaperInv, Staffed
<1>2. CASE AllOver /\ parent' = [parent EXCEPT !.pc = "merge"] /\ UNCHANGED proc
  <2>1. PaperTypeOK'
    BY <1>1, <1>2 DEF PaperInv, PaperTypeOK, ParentPcs
  <2>2. \A i \in Workers : ~Running(i)
    BY <1>2 DEF AllOver, Children, PaperInv, Staffed
  <2>3. Staffed'
    BY <1>1, <1>2, <2>2 DEF PaperInv, PaperTypeOK, Staffed, Running, Single
  <2>4. \A i \in Workers : Counted(i)'
    BY <1>1, <1>2, StillCounted DEF PaperInv
  <2>5. ExitZeroIsComplete'
    BY <1>1, <1>2 DEF PaperInv, PaperTypeOK, ExitZeroIsComplete, Single
  <2> QED
    BY <2>1, <2>3, <2>4, <2>5 DEF PaperInv
<1>3. CASE /\ parent' = [parent EXCEPT !.pc = "stopping"]
           /\ proc' = [i \in Workers |->
                IF Running(i) THEN [proc[i] EXCEPT !.stop = TRUE] ELSE proc[i]]
  <2>1. \A i \in Workers : proc[i] \in ProcType
    BY DEF PaperInv, PaperTypeOK
  <2>2. \A i \in Workers : /\ proc'[i] \in ProcType /\ proc'[i].pc = proc[i].pc
                           /\ proc'[i].ok = proc[i].ok /\ proc'[i].failed = proc[i].failed
                           /\ proc[i].stop => proc'[i].stop
    BY <1>3, <2>1 DEF ProcType
  <2>3. PaperTypeOK'
    BY <1>1, <1>3, <2>2 DEF PaperInv, PaperTypeOK, ParentPcs
  <2>4. Staffed'
    BY <1>1, <1>3, <2>2 DEF PaperInv, PaperTypeOK, Staffed, Running, Single
  <2>5. ASSUME NEW i \in Workers
        PROVE  Counted(i)'
    <3>1. File(i)' = File(i) /\ Share(i)' = Share(i) /\ Todo(i)' = Todo(i)
      BY <1>1, <2>2 DEF File, Share, Todo
    <3>2. Counted(i)
      BY DEF PaperInv
    <3> QED
      BY <1>1, <2>2, <3>1, <3>2 DEF Counted, With
  <2>6. ExitZeroIsComplete'
    BY <1>1, <1>3 DEF PaperInv, PaperTypeOK, ExitZeroIsComplete, Single
  <2> QED
    BY <2>3, <2>4, <2>5, <2>6 DEF PaperInv
<1> QED
  BY <1>2, <1>3 DEF Poll

\* The workers still alive are killed, and what they were writing may be torn.
LEMMA TerminateStep ==
  ASSUME PaperInv, Terminate
  PROVE  /\ ckpts' \in [Files -> Checkpoint]
         /\ \A f \in Files : ckpts'[f].last = ckpts[f].last
<1>1. /\ DOMAIN ckpts' = Files /\ ckpts' = [f \in Files |-> ckpts'[f]]
      /\ \A f \in Files : ckpts'[f] = ckpts[f] \/ \E i : ckpts'[f] \in Torn(i, ckpts[f])
  BY DEF Terminate
<1>2. \A f \in Files : ckpts'[f] \in Checkpoint /\ ckpts'[f].last = ckpts[f].last
  BY <1>1, TornType DEF PaperInv, PaperTypeOK
<1> QED
  BY <1>1, <1>2

LEMMA TerminateInv ==
  ASSUME PaperInv, Terminate
  PROVE  PaperInv'
<1>1. /\ parent.pc = "stopping" /\ UNCHANGED <<result, run>> /\ ~Single
      /\ parent' = [parent EXCEPT !.pc = "merge"]
      /\ proc' = [i \in Workers |-> IF Running(i) THEN Dead ELSE proc[i]]
  BY DEF Terminate, PaperInv, Staffed
<1>2. \A i \in Workers : proc'[i] \in ProcType /\ proc'[i].pc \in Over
  BY <1>1, DeadType DEF PaperInv, PaperTypeOK, Running, Over
<1>3. PaperTypeOK'
  BY <1>1, <1>2, TerminateStep DEF PaperInv, PaperTypeOK, ParentPcs
<1>4. Staffed'
  BY <1>1, <1>2 DEF PaperInv, PaperTypeOK, Staffed, Running, Single
<1>5. \A i \in Workers : Counted(i)'
  BY <1>2, NotCounting DEF Over
<1>6. ExitZeroIsComplete'
  BY <1>1 DEF PaperInv, PaperTypeOK, ExitZeroIsComplete, Single
<1> QED
  BY <1>3, <1>4, <1>5, <1>6 DEF PaperInv

\* The greatest of some shards, which are finitely many.
LEMMA GreatestShard ==
  ASSUME NEW n \in Nat, NEW S \in SUBSET (0 .. n), S # {}
  PROVE  Max(S) \in S
<1> DEFINE Above == {k \in 0 .. n : \A x \in S : x <= k}
<1>1. n \in Above /\ Above \in SUBSET Nat
  OBVIOUS
<1>2. PICK k \in Above : \A y \in Above : k <= y
  <2> HIDE DEF Above
  <2> QED
    BY <1>1, LeastNumber
<1>3. k \in S
  <2> SUFFICES ASSUME k \notin S PROVE FALSE
    OBVIOUS
  <2>1. \A x \in S : x \in Nat /\ x <= k /\ x # k
    BY <1>2
  <2>2. k # 0
    <3>1. PICK x \in S : TRUE
      OBVIOUS
    <3> QED
      BY <1>2, <2>1, <3>1
  <2>3. k - 1 \in Above
    BY <1>2, <2>1, <2>2
  <2> QED
    BY <1>2, <2>3
<1>4. \A x \in S : x <= k
  BY <1>2
<1> QED
  BY <1>3, <1>4 DEF Max

\* A merged row is the row of some shard.
LEMMA MergedRows ==
  ASSUME PaperTypeOK, NEW q \in Ordinals
  PROVE  \/ /\ Merged(run.shards)[q] = "none"
            /\ \A i \in 0 .. run.shards - 1 : ckpts[File(i)].last[q] = "none"
         \/ \E i \in 0 .. run.shards - 1 :
              /\ ckpts[File(i)].last[q] # "none"
              /\ Merged(run.shards)[q] = ckpts[File(i)].last[q]
<1> DEFINE having == {i \in 0 .. run.shards - 1 : ckpts[<<run.shards, i>>].last[q] # "none"}
<1>1. Merged(run.shards)[q] = IF having = {} THEN "none"
                              ELSE ckpts[<<run.shards, Max(having)>>].last[q]
  BY DEF Merged
<1>2. having # {} => Max(having) \in having
  <2>1. having \in SUBSET (0 .. (run.shards - 1)) /\ run.shards - 1 \in Nat
    BY FilesShape
  <2> HIDE DEF having
  <2> QED
    BY <2>1, GreatestShard
<1> QED
  BY <1>1, <1>2 DEF File

LEMMA MergedType ==
  ASSUME PaperTypeOK
  PROVE  Written(Merged(run.shards)) \in Checkpoint
<1>1. \A q \in Ordinals : Merged(run.shards)[q] \in {"none", "succeeded", "failed"}
  <2> TAKE q \in Ordinals
  <2>1. \A i \in 0 .. run.shards - 1 :
          ckpts[File(i)].last[q] \in {"none", "succeeded", "failed"}
    BY FilesShape DEF PaperTypeOK, Checkpoint
  <2> QED
    BY <2>1, MergedRows
<1>2. Merged(run.shards) = [q \in Ordinals |-> Merged(run.shards)[q]]
  BY DEF Merged
<1> QED
  BY <1>1, <1>2 DEF Written, Checkpoint

LEMMA MergeInv ==
  ASSUME PaperInv, Merge
  PROVE  PaperInv'
<1>1. parent.pc = "merge" /\ UNCHANGED <<result, run, proc>> /\ ~Single
  BY DEF Merge, PaperInv, Staffed
<1>2. /\ parent' = [parent EXCEPT !.pc = "dead"] \/ parent' = [parent EXCEPT !.pc = "write"]
      /\ ckpts' = ckpts \/ ckpts' = [ckpts EXCEPT ![Main] = Written(Merged(run.shards))]
  BY DEF Merge
<1>3. PaperTypeOK'
  BY <1>1, <1>2, MergedType DEF PaperInv, PaperTypeOK, ParentPcs
<1>4. \A i \in Workers : ~Running(i)
  BY <1>1 DEF PaperInv, Staffed
<1>5. Staffed'
  BY <1>1, <1>2, <1>4 DEF PaperInv, PaperTypeOK, Staffed, Running, Single
<1>6. \A i \in Workers : Counted(i)'
  BY <1>1, <1>4, NotCounting DEF Running, Over
<1>7. ExitZeroIsComplete'
  BY <1>1, <1>2 DEF PaperInv, PaperTypeOK, ExitZeroIsComplete, Single
<1> QED
  BY <1>3, <1>5, <1>6, <1>7 DEF PaperInv

\* Exit code 0 of the runner: the main checkpoint has an answer of everything.
LEMMA WriteMergedInv ==
  ASSUME PaperInv, WriteMerged
  PROVE  PaperInv'
<1> DEFINE done == ckpts[Main].last
<1>1. /\ parent.pc = "write" /\ UNCHANGED <<ckpts, run, proc>> /\ ~Single
      /\ result' = [state |-> "whole", ok |-> With(done, "succeeded"),
                    failed |-> With(done, "failed")]
      /\ parent' = [parent EXCEPT !.pc = ExitCode(done)]
  BY DEF WriteMerged, PaperInv, Staffed
<1>2. ExitCode(done) \in {"dead", "partial", "ok"}
  BY DEF ExitCode
<1>3. ExitCode(done) = "ok" => With(done, "succeeded") = Ordinals
  BY DEF ExitCode
<1>4. parent'.pc = ExitCode(done)
  BY <1>1 DEF PaperInv, PaperTypeOK
<1>5. PaperTypeOK'
  BY <1>1, <1>2 DEF PaperInv, PaperTypeOK, ParentPcs, With
<1>6. \A i \in Workers : ~Running(i)
  BY <1>1 DEF PaperInv, Staffed
<1>7. Staffed'
  BY <1>1, <1>2, <1>4, <1>6 DEF PaperInv, Staffed, Running, Single
<1>8. \A i \in Workers : Counted(i)'
  BY <1>1, <1>6, NotCounting DEF Running, Over
<1>9. ExitZeroIsComplete'
  <2> SUFFICES ASSUME ExitCode(done) = "ok"
               PROVE  ExitZeroIsComplete'
    BY <1>1, <1>4 DEF ExitZeroIsComplete, Single
  <2>1. With(done, "succeeded") = Ordinals
    BY <1>3
  <2>2. With(done, "failed") = {}
    BY <2>1 DEF With
  <2> QED
    BY <1>1, <2>1, <2>2 DEF ExitZeroIsComplete, With
<1> QED
  BY <1>5, <1>7, <1>8, <1>9 DEF PaperInv

\* Every step of every process keeps the invariant.
LEMMA PaperNextInv ==
  ASSUME AlwaysResumes
  PROVE  PaperInv /\ [PaperNext]_paperVars => PaperInv'
<1> SUFFICES ASSUME PaperInv, [PaperNext]_paperVars PROVE PaperInv'
  OBVIOUS
<1>1. CASE StartRun \/ SignalParent \/ KillParent
  BY <1>1, StartRunInv, NotToParentInv
<1>2. CASE Seed \/ Poll \/ Terminate \/ Merge \/ WriteMerged
  BY <1>2, SeedInv, PollInv, TerminateInv, MergeInv, WriteMergedInv
<1>3. ASSUME NEW i \in Workers,
             SignalWorker(i) \/ KillWorker(i) \/ LoadCheckpoint(i)
               \/ Ask(i) \/ Answer(i) \/ Finish(i) \/ Write(i)
      PROVE  PaperInv'
  BY <1>3, SignalWorkerInv, KillWorkerInv, LoadCheckpointInv, LoopInv, AnswerInv, PaperWriteInv
<1>4. CASE UNCHANGED paperVars
  <2>1. UNCHANGED <<ckpts, result, run, parent, proc>>
    BY <1>4 DEF paperVars
  <2>2. \A i \in Workers : Counted(i)'
    BY <2>1, StillCounted DEF PaperInv
  <2> QED
    BY <2>1, <2>2 DEF PaperInv, PaperTypeOK, Staffed, Running, Single, ExitZeroIsComplete, With
<1> QED
  BY <1>1, <1>2, <1>3, <1>4 DEF PaperNext

\* Everything PaperInv says holds in every state of every run of the paper
\* benchmark, for any number of questions, shards and runs.
THEOREM PaperInvHolds ==
  ASSUME AlwaysResumes
  PROVE  PaperSpec => []PaperInv
<1>1. PaperInv /\ [PaperNext]_paperVars => PaperInv'
  BY PaperNextInv
<1> QED
  BY <1>1, PaperInitInv, PTL DEF PaperSpec

\* main of paper_benchmark_worker.py and of paper_benchmark_shard_runner.py: a
\* run exits 0 only with a result and a main checkpoint that have an answer of
\* every question, whichever processes were stopped or killed in it or before,
\* and however many shards each run had.
THEOREM ExitZeroIsCompleteHolds ==
  ASSUME AlwaysResumes
  PROVE  PaperSpec => []ExitZeroIsComplete
<1>1. PaperInv => ExitZeroIsComplete
  BY DEF PaperInv
<1>2. PaperSpec => []PaperInv
  BY PaperInvHolds
<1> QED
  BY <1>1, <1>2, PTL
-----------------------------------------------------------------------------
(* What runs leave to those after them.                                    *)

\* What a step may do to the rows of the checkpoints.
LEMMA RowsStep ==
  ASSUME PaperInv, [PaperNext]_paperVars
  PROVE  \/ \A f \in Files : ckpts'[f].last = ckpts[f].last
         \/ \E i \in 0 .. run.shards - 1 : \E q \in Share(i), status \in Replies :
              /\ ckpts[File(i)].last[q] # "succeeded"
              /\ ckpts' = [ckpts EXCEPT ![File(i)] = [@ EXCEPT !.last[q] = status]]
              /\ UNCHANGED run
         \/ \E i \in 0 .. run.shards - 1 :
              /\ ~Single /\ UNCHANGED run
              /\ ckpts' = [ckpts EXCEPT ![File(i)] =
                             Written(Seeded(ckpts[File(i)], ckpts[Main], Share(i)))]
         \/ /\ Merge /\ ~Single /\ UNCHANGED run
            /\ ckpts' = [ckpts EXCEPT ![Main] = Written(Merged(run.shards))]
<1> DEFINE Same == \A f \in Files : ckpts'[f].last = ckpts[f].last
<1>1. CASE StartRun \/ SignalParent \/ KillParent \/ Poll \/ WriteMerged \/ UNCHANGED paperVars
  <2>1. ckpts' = ckpts
    BY <1>1 DEF StartRun, SignalParent, KillParent, Poll, WriteMerged, paperVars
  <2> QED
    BY <2>1
<1>2. CASE Seed
  <2>1. UNCHANGED ckpts \/ parent'.pc # "dead"
    <3>1. CASE ckpts[File(parent.next)].torn \/ ckpts[Main].torn
      BY <1>2, <3>1 DEF Seed
    <3>2. CASE ~(ckpts[File(parent.next)].torn \/ ckpts[Main].torn)
      BY <1>2, <3>2 DEF Seed, PaperInv, PaperTypeOK
    <3> QED
      BY <3>1, <3>2
  <2>2. CASE parent'.pc # "dead"
    <3> DEFINE i == parent.next
    <3>1. /\ i \in Nat /\ i < run.shards
          /\ ckpts' = [ckpts EXCEPT ![File(i)] =
                         Written(Seeded(ckpts[File(i)], ckpts[Main], Share(i)))]
      BY <1>2, <2>2, SeedStep
    <3>2. ~Single /\ UNCHANGED run
      BY <1>2 DEF Seed, PaperInv, Staffed
    <3>3. i \in 0 .. run.shards - 1
      BY <3>1, FilesShape DEF PaperInv
    <3> QED
      BY <3>1, <3>2, <3>3
  <2> QED
    BY <2>1, <2>2
<1>3. CASE Terminate
  BY <1>3, TerminateStep
<1>4. CASE Merge
  <2>1. ~Single /\ UNCHANGED run
    BY <1>4 DEF Merge, PaperInv, Staffed
  <2> QED
    BY <1>4, <2>1 DEF Merge
<1>5. ASSUME NEW i \in Workers,
             SignalWorker(i) \/ LoadCheckpoint(i) \/ Ask(i) \/ Finish(i) \/ Write(i)
      PROVE  Same
  BY <1>5 DEF SignalWorker, LoadCheckpoint, Ask, Finish, Write
<1>6. ASSUME NEW i \in Workers, KillWorker(i)
      PROVE  Same
  <2>1. PICK file \in Torn(i, ckpts[File(i)]) : ckpts' = [ckpts EXCEPT ![File(i)] = file]
    BY <1>6 DEF KillWorker
  <2>2. File(i) \in Files
    BY <1>6, WhileRunning DEF KillWorker, PaperInv
  <2>3. file.last = ckpts[File(i)].last
    BY <2>2, TornType DEF PaperInv
  <2> QED
    BY <2>1, <2>3 DEF PaperInv, PaperTypeOK
<1>7. ASSUME NEW i \in Workers, Answer(i)
      PROVE  /\ i \in 0 .. run.shards - 1 /\ UNCHANGED run
             /\ \E q \in Share(i), status \in Replies :
                  /\ ckpts[File(i)].last[q] # "succeeded"
                  /\ ckpts' = [ckpts EXCEPT ![File(i)] = [@ EXCEPT !.last[q] = status]]
  <2>1. Running(i) /\ UNCHANGED run
    BY <1>7, RunningPcs DEF Answer
  <2>2. i \in 0 .. run.shards - 1
    BY <2>1, WhileRunning, FilesShape DEF PaperInv
  <2>3. PICK q \in Todo(i), status \in Replies :
          /\ q \in Share(i) /\ ckpts[File(i)].last[q] # "succeeded"
          /\ ckpts' = [ckpts EXCEPT ![File(i)] = [@ EXCEPT !.last[q] = status]]
          /\ proc' = [proc EXCEPT
               ![i].pc     = "loop",
               ![i].ok     = @ \cup (IF status = "succeeded" THEN {q} ELSE {}),
               ![i].failed = @ \cup (IF status = "failed" THEN {q} ELSE {})]
    BY <1>7, AnswerStep
  <2>4. q \in Share(i)
    BY <2>3
  <2> QED
    BY <2>1, <2>2, <2>3, <2>4
<1> QED
  BY <1>1, <1>2, <1>3, <1>4, <1>5, <1>6, <1>7 DEF PaperNext

\* Only the start of a run changes its options and whether all are alike.
LEMMA OnlyStarts ==
  ASSUME [PaperNext]_paperVars
  PROVE  StartRun \/ UNCHANGED <<run, steady>>
<1>1. CASE SignalParent \/ KillParent \/ Merge \/ WriteMerged \/ UNCHANGED paperVars
  BY <1>1 DEF SignalParent, KillParent, Merge, WriteMerged, paperVars
<1>2. CASE Seed \/ Poll
  BY <1>2 DEF Seed, Poll
<1>3. CASE Terminate
  BY <1>3 DEF Terminate
<1>4. ASSUME NEW i \in Workers,
             \/ SignalWorker(i) \/ KillWorker(i)
             \/ LoadCheckpoint(i) \/ Ask(i) \/ Answer(i) \/ Finish(i) \/ Write(i)
      PROVE  UNCHANGED <<run, steady>>
  BY <1>4 DEF SignalWorker, KillWorker, LoadCheckpoint, Ask, Answer, Finish, Write
<1> QED
  BY <1>1, <1>2, <1>3, <1>4 DEF PaperNext

\* A step that leaves all runs steady keeps the number of shards.
LEMMA SteadyShards ==
  ASSUME [PaperNext]_paperVars, steady'
  PROVE  steady /\ run'.shards = run.shards
<1>1. CASE StartRun
  BY <1>1 DEF StartRun
<1>2. CASE UNCHANGED <<run, steady>>
  BY <1>2, Zenon
<1> QED
  BY <1>1, <1>2, OnlyStarts

\* The runner goes on to the next shard by seeding it, and is otherwise where it
\* was or at the start of a run.
LEMMA SeedingStep ==
  ASSUME PaperInv, [PaperNext]_paperVars,
         parent'.pc \in {"seed", "poll", "stopping", "merge"}
  PROVE  \/ parent'.pc = "seed" /\ parent'.next = 0
         \/ Seed /\ parent'.pc # "dead"
         \/ /\ parent.pc \in {"seed", "poll", "stopping", "merge"}
            /\ UNCHANGED run /\ SeededCount' = SeededCount
<1>1. parent \in [pc : ParentPcs, stop : BOOLEAN, next : Nat]
  BY DEF PaperInv, PaperTypeOK
<1>2. CASE StartRun
  BY <1>2 DEF StartRun
<1>3. CASE SignalParent \/ KillParent
  BY <1>1, <1>3 DEF SignalParent, KillParent, SeededCount
<1>4. CASE Seed
  BY <1>4
<1>5. CASE Poll \/ Terminate
  BY <1>1, <1>5 DEF Poll, Terminate, SeededCount
<1>6. CASE Merge \/ WriteMerged
  BY <1>1, <1>6 DEF Merge, WriteMerged, ExitCode
<1>7. ASSUME NEW i \in Workers,
             \/ SignalWorker(i) \/ KillWorker(i)
             \/ LoadCheckpoint(i) \/ Ask(i) \/ Answer(i) \/ Finish(i) \/ Write(i)
      PROVE  UNCHANGED <<run, parent>>
  BY <1>7 DEF SignalWorker, KillWorker, LoadCheckpoint, Ask, Answer, Finish, Write
<1> QED
  BY <1>2, <1>3, <1>4, <1>5, <1>6, <1>7 DEF PaperNext, paperVars, SeededCount

\* A row in the checkpoint of a shard of the run is of its share.
LEMMA RowOfShare ==
  ASSUME PaperTypeOK, RowsInShard, NEW i \in 0 .. run.shards - 1, NEW q \in Ordinals,
         ckpts[File(i)].last[q] # "none"
  PROVE  q \in Share(i)
<1>1. run.shards \in Counts
  BY FilesShape
<1> QED
  BY <1>1 DEF RowsInShard, File, Share

LEMMA RowsInShardKept ==
  ASSUME PaperInv, RowsInShard, [PaperNext]_paperVars
  PROVE  RowsInShard'
<1>1. /\ ckpts \in [Files -> Checkpoint] /\ run.shards \in Nat \ {0} /\ Main \in Files
      /\ \A f \in Files : ckpts[f] \in Checkpoint
  BY FilesShape DEF PaperInv, PaperTypeOK
<1> SUFFICES ASSUME NEW n \in Counts, NEW i \in 0 .. n - 1, NEW q \in Ordinals,
                    ckpts'[<<n, i>>].last[q] # "none"
             PROVE  q \in Shard(n, i)
  BY DEF RowsInShard
<1> DEFINE f == <<n, i>>
<1>2. f \in Files /\ n \in Nat \ {0} /\ i \in Nat
  BY PaperAssumption DEF Files, Counts, RunOption
<1>3. CASE ckpts'[f].last[q] = ckpts[f].last[q]
  BY <1>3 DEF RowsInShard
<1>4. ASSUME NEW k \in 0 .. run.shards - 1, NEW r \in Share(k), NEW status \in Replies,
             ckpts' = [ckpts EXCEPT ![File(k)] = [@ EXCEPT !.last[r] = status]],
             ckpts'[f].last[q] # ckpts[f].last[q]
      PROVE  q \in Shard(n, i)
  <2>1. File(k) = f
    BY <1>1, <1>2, <1>4
  <2>2. n = run.shards /\ i = k
    BY <2>1 DEF File
  <2>3. ckpts'[f] = [ckpts[f] EXCEPT !.last[r] = status] /\ ckpts[f] \in Checkpoint
    BY <1>1, <1>2, <1>4, <2>1
  <2>4. r = q
    BY <1>4, <2>3 DEF Checkpoint
  <2> QED
    BY <2>2, <2>4 DEF Share
<1>5. ASSUME NEW k \in 0 .. run.shards - 1,
             ckpts' = [ckpts EXCEPT ![File(k)] =
                         Written(Seeded(ckpts[File(k)], ckpts[Main], Share(k)))],
             ckpts'[f].last[q] # ckpts[f].last[q]
      PROVE  q \in Shard(n, i)
  <2>1. File(k) = f
    BY <1>1, <1>2, <1>5
  <2>2. n = run.shards /\ i = k
    BY <2>1 DEF File
  <2>3. ckpts'[f] = Written(Seeded(ckpts[f], ckpts[Main], Share(k)))
    BY <1>1, <1>2, <1>5, <2>1
  <2>4. ckpts[f] \in Checkpoint /\ ckpts[Main] \in Checkpoint
    BY <1>1, <1>2
  <2>5. q \in Share(k)
    BY <2>3, <2>4, SeededType
  <2> QED
    BY <2>2, <2>5 DEF Share
<1>6. CASE ckpts' = [ckpts EXCEPT ![Main] = Written(Merged(run.shards))]
  <2>1. CASE f = Main
    <3>1. n = 1 /\ i = 0
      BY <2>1 DEF Main
    <3>2. \E k \in 0 .. 1 - 1 : q \in Shard(1, k)
      BY ShardsPartition
    <3> QED
      BY <3>1, <3>2
  <2>2. CASE f # Main
    BY <1>1, <1>2, <1>3, <1>6, <2>2
  <2> QED
    BY <2>1, <2>2
<1> QED
  BY <1>2, <1>3, <1>4, <1>5, <1>6, RowsStep

\* No step but the merge takes a row away.
LEMMA RowStays ==
  ASSUME PaperInv, RowsInShard, [PaperNext]_paperVars,
         NEW i \in 0 .. run.shards - 1, NEW q \in Ordinals, ~Single,
         ckpts[File(i)].last[q] # "none"
  PROVE  ckpts'[File(i)].last[q] # "none"
<1>1. /\ ckpts \in [Files -> Checkpoint] /\ Main \in Files
      /\ \A f \in Files : ckpts[f] \in Checkpoint
      /\ File(i) \in Files /\ File(i) # Main
  BY FilesShape DEF PaperInv, PaperTypeOK
<1>2. ASSUME NEW k \in 0 .. run.shards - 1, NEW r \in Share(k), NEW status \in Replies,
             ckpts' = [ckpts EXCEPT ![File(k)] = [@ EXCEPT !.last[r] = status]]
      PROVE  ckpts'[File(i)].last[q] # "none"
  <2>1. CASE File(k) = File(i)
    <3>1. ckpts'[File(i)] = [ckpts[File(i)] EXCEPT !.last[r] = status]
      BY <1>1, <1>2, <2>1
    <3>2. ckpts'[File(i)].last[q] \in {status, ckpts[File(i)].last[q]}
      BY <1>1, <3>1 DEF Checkpoint
    <3> QED
      BY <3>2 DEF Replies
  <2>2. CASE File(k) # File(i)
    BY <1>1, <1>2, <2>2
  <2> QED
    BY <2>1, <2>2
<1>3. ASSUME NEW k \in 0 .. run.shards - 1,
             ckpts' = [ckpts EXCEPT ![File(k)] =
                         Written(Seeded(ckpts[File(k)], ckpts[Main], Share(k)))]
      PROVE  ckpts'[File(i)].last[q] # "none"
  <2>1. CASE File(k) = File(i)
    <3>1. q \in Share(i) /\ k = i
      BY <2>1, RowOfShare DEF File, PaperInv
    <3>2. ckpts'[File(i)] = Written(Seeded(ckpts[File(i)], ckpts[Main], Share(i)))
      BY <1>1, <1>3, <3>1
    <3> QED
      BY <1>1, <3>1, <3>2, SeededType
  <2>2. CASE File(k) # File(i)
    BY <1>1, <1>3, <2>2
  <2> QED
    BY <2>1, <2>2
<1>4. CASE ckpts' = [ckpts EXCEPT ![Main] = Written(Merged(run.shards))]
  BY <1>1, <1>4
<1> QED
  BY <1>1, <1>2, <1>3, <1>4, RowsStep

\* Nothing but the merge writes the main checkpoint of a sharded run.
LEMMA MainStays ==
  ASSUME PaperInv, [PaperNext]_paperVars, ~Single,
         parent'.pc \in {"seed", "poll", "stopping", "merge"}
  PROVE  ckpts'[Main].last = ckpts[Main].last
<1>1. /\ ckpts \in [Files -> Checkpoint] /\ Main \in Files
      /\ \A i : File(i) # Main
  BY FilesShape DEF PaperInv, PaperTypeOK
<1>2. ~Merge
  BY DEF Merge, PaperInv, PaperTypeOK
<1> QED
  BY <1>1, <1>2, RowsStep

LEMMA MainSeededKept ==
  ASSUME PaperInv, RowsInShard, MainSeeded, [PaperNext]_paperVars
  PROVE  MainSeeded'
<1> SUFFICES ASSUME parent'.pc \in {"seed", "poll", "stopping", "merge"},
                    NEW i \in 0 .. run'.shards - 1, NEW q \in Share(i)',
                    i < SeededCount', ckpts'[Main].last[q] # "none"
             PROVE  ckpts'[File(i)'].last[q] # "none"
  BY DEF MainSeeded
<1>1. /\ ckpts \in [Files -> Checkpoint] /\ Main \in Files
      /\ \A f \in Files : ckpts[f] \in Checkpoint
  BY FilesShape DEF PaperInv, PaperTypeOK
<1>2. q \in Ordinals
  BY SharesAreOrdinals DEF Share
<1>3. ~(parent'.pc = "seed" /\ parent'.next = 0)
  BY DEF SeededCount
<1>4. CASE Seed /\ parent'.pc # "dead"
  <2> DEFINE k == parent.next
  <2>1. /\ k \in Nat /\ k < run.shards /\ File(k) \in Files
        /\ ckpts' = [ckpts EXCEPT ![File(k)] =
                       Written(Seeded(ckpts[File(k)], ckpts[Main], Share(k)))]
        /\ parent' = [parent EXCEPT
             !.pc = IF k + 1 = run.shards THEN "poll" ELSE "seed", !.next = k + 1]
    BY <1>4, SeedStep
  <2>2. parent.pc = "seed" /\ UNCHANGED run /\ ~Single
    BY <1>4 DEF Seed, PaperInv, Staffed
  <2>3. /\ File(i)' = File(i) /\ Share(i)' = Share(i) /\ i \in 0 .. run.shards - 1
        /\ q \in Share(i)
    BY <2>2 DEF File, Share
  <2>4. SeededCount' = k + 1 /\ SeededCount = k
    <3>1. parent'.next = k + 1 /\ parent'.pc = IF k + 1 = run.shards THEN "poll" ELSE "seed"
      BY <2>1 DEF PaperInv, PaperTypeOK
    <3> QED
      BY <2>2, <3>1 DEF SeededCount
  <2>5. File(i) \in Files /\ \A x : File(x) # Main
    BY <2>2, <2>3, FilesShape DEF PaperInv
  <2>6. ckpts'[Main] = ckpts[Main]
    BY <1>1, <2>1, <2>5
  <2>7. CASE i = k
    <3>1. ckpts'[File(i)] = Written(Seeded(ckpts[File(i)], ckpts[Main], Share(i)))
      BY <1>1, <2>1, <2>7
    <3> QED
      BY <1>1, <1>2, <2>3, <2>5, <2>6, <3>1, SeededType
  <2>8. CASE i # k
    <3>1. i < SeededCount
      BY <2>1, <2>3, <2>4, <2>8
    <3>2. ckpts[File(i)].last[q] # "none"
      BY <2>2, <2>3, <2>6, <3>1 DEF MainSeeded
    <3> QED
      BY <1>2, <2>2, <2>3, <3>2, RowStays
  <2> QED
    BY <2>7, <2>8
<1>5. CASE /\ parent.pc \in {"seed", "poll", "stopping", "merge"}
           /\ UNCHANGED run /\ SeededCount' = SeededCount
           /\ ~(Seed /\ parent'.pc # "dead")
  <2>1. /\ File(i)' = File(i) /\ Share(i)' = Share(i) /\ i \in 0 .. run.shards - 1
        /\ q \in Share(i) /\ ~Single
    BY <1>5 DEF File, Share, PaperInv, Staffed
  <2>2. ckpts'[Main].last = ckpts[Main].last
    BY <1>5, <2>1, MainStays
  <2>3. ckpts[File(i)].last[q] # "none"
    BY <1>5, <2>1, <2>2 DEF MainSeeded
  <2> QED
    BY <1>2, <2>1, <2>3, RowStays
<1> QED
  BY <1>3, <1>4, <1>5, SeedingStep

\* An answer stays in its file, if that is not a main checkpoint being merged;
\* a row of a shard is of its questions.
LEMMA AnswerStays ==
  ASSUME PaperInv, RowsInShard, [PaperNext]_paperVars,
         NEW f \in Files, NEW q \in Ordinals, ckpts[f].last[q] = "succeeded"
  PROVE  \/ ckpts'[f].last[q] = "succeeded"
         \/ /\ f = Main /\ ~Single /\ Merge
            /\ ckpts' = [ckpts EXCEPT ![Main] = Written(Merged(run.shards))]
<1>1. ckpts \in [Files -> Checkpoint] /\ ckpts[f].last \in [Ordinals -> {"none", "succeeded", "failed"}]
  BY DEF PaperInv, PaperTypeOK, Checkpoint
<1>2. ASSUME NEW i \in 0 .. run.shards - 1, NEW k \in Share(i), NEW status \in Replies,
             ckpts[File(i)].last[k] # "succeeded",
             ckpts' = [ckpts EXCEPT ![File(i)] = [@ EXCEPT !.last[k] = status]]
      PROVE  ckpts'[f].last[q] = "succeeded"
  <2>1. CASE f = File(i)
    <3>1. k # q
      BY <1>2, <2>1
    <3>2. ckpts'[f] = [ckpts[f] EXCEPT !.last[k] = status] /\ ckpts[f] \in Checkpoint
      BY <1>1, <1>2, <2>1
    <3> QED
      BY <1>1, <3>1, <3>2 DEF Checkpoint
  <2>2. CASE f # File(i)
    BY <1>1, <1>2, <2>2
  <2> QED
    BY <2>1, <2>2
<1>3. ASSUME NEW i \in 0 .. run.shards - 1, ~Single,
             ckpts' = [ckpts EXCEPT ![File(i)] =
                         Written(Seeded(ckpts[File(i)], ckpts[Main], Share(i)))]
      PROVE  ckpts'[f].last[q] = "succeeded"
  <2>1. CASE f = File(i)
    <3>1. q \in Share(i)
      BY <1>3, <2>1, RowOfShare DEF PaperInv
    <3>2. ckpts'[f] = Written(Seeded(ckpts[f], ckpts[Main], Share(i)))
      BY <1>1, <1>3, <2>1
    <3>3. ckpts[f] \in Checkpoint /\ ckpts[Main] \in Checkpoint
      BY <1>1, FilesShape DEF PaperInv
    <3> QED
      BY <3>1, <3>2, <3>3, SeededType
  <2>2. CASE f # File(i)
    BY <1>1, <1>3, <2>2
  <2> QED
    BY <2>1, <2>2
<1>4. CASE ~Single /\ Merge /\ ckpts' = [ckpts EXCEPT ![Main] = Written(Merged(run.shards))]
  BY <1>1, <1>4
<1> QED
  BY <1>2, <1>3, <1>4, RowsStep

LEMMA HistoryKept ==
  ASSUME PaperInv, History, [PaperNext]_paperVars
  PROVE  History'
<1>1. RowsInShard' /\ MainSeeded'
  BY RowsInShardKept, MainSeededKept DEF History
<1>2. ASSUME steady'
      PROVE  steady /\ (Single' <=> Single) /\ run'.shards = run.shards
             /\ \A i : File(i)' = File(i)
  BY <1>2, SteadyShards DEF Single, File
<1>3. ckpts \in [Files -> Checkpoint] /\ run.shards \in Nat \ {0} /\ Main \in Files
  BY FilesShape DEF PaperInv, PaperTypeOK
<1>4. \A i \in 0 .. run.shards - 1 : i \in Nat /\ File(i) \in Files /\ (~Single => File(i) # Main)
  BY FilesShape DEF PaperInv
<1>5. steady' => NoOthers'
  <2> SUFFICES ASSUME steady', NEW f \in Files, f[1] \notin {1, run.shards}
               PROVE  ckpts'[f].last = ckpts[f].last
    BY <1>2 DEF History, NoOthers
  <2>1. f # Main /\ \A i : f # File(i)
    BY DEF Main, File
  <2> QED
    BY <1>3, <2>1, RowsStep
<1>6. steady' => MainBehind'
  <2> SUFFICES ASSUME steady', ~Single, NEW q \in Ordinals, ckpts'[Main].last[q] = "succeeded"
               PROVE  \E i \in 0 .. run.shards - 1 : ckpts'[File(i)].last[q] = "succeeded"
    BY <1>2 DEF MainBehind, With
  <2>1. CASE ckpts' = [ckpts EXCEPT ![Main] = Written(Merged(run.shards))]
    <3>1. ckpts'[Main].last[q] = Merged(run.shards)[q]
      BY <1>3, <2>1 DEF Written
    <3>2. PICK i \in 0 .. run.shards - 1 : ckpts[File(i)].last[q] = "succeeded"
      BY <3>1, MergedRows DEF PaperInv
    <3> QED
      BY <1>3, <1>4, <2>1, <3>2
  <2>2. CASE ckpts' # [ckpts EXCEPT ![Main] = Written(Merged(run.shards))]
    <3>1. ckpts'[Main].last = ckpts[Main].last
      BY <1>3, <1>4, <2>2, RowsStep
    <3>2. PICK i \in 0 .. run.shards - 1 : ckpts[File(i)].last[q] = "succeeded"
      BY <1>2, <3>1 DEF History, MainBehind, With
    <3>3. ckpts'[File(i)].last[q] = "succeeded"
      BY <1>4, <2>2, <3>2, AnswerStays DEF History
    <3> QED
      BY <3>3
  <2> QED
    BY <2>1, <2>2
<1> QED
  BY <1>1, <1>5, <1>6 DEF History

LEMMA PaperInitHistory ==
  PaperInit => History
<1> SUFFICES ASSUME PaperInit
             PROVE  History
  OBVIOUS
<1>1. PaperTypeOK
  BY PaperInitInv DEF PaperInv
<1>2. \A f \in Files : \A q \in Ordinals : ckpts[f].last[q] = "none"
  BY DEF PaperInit, Empty
<1>3. /\ Main \in Files /\ \A i \in 0 .. run.shards - 1 : File(i) \in Files
      /\ \A n \in Counts : \A i \in 0 .. n - 1 : <<n, i>> \in Files
  BY <1>1, FilesShape DEF Files
<1>4. RowsInShard
  BY <1>2, <1>3 DEF RowsInShard
<1>5. MainSeeded
  BY DEF PaperInit, MainSeeded
<1>6. NoOthers /\ MainBehind
  BY <1>2, <1>3 DEF NoOthers, MainBehind, With
<1> QED
  BY <1>4, <1>5, <1>6 DEF History

\* A shard's checkpoint holds rows of its own questions, and from its seeding to
\* the merge one of each that the main checkpoint has a row of.  As long as runs
\* keep to one number of shards, no other run has left a row, and what the main
\* checkpoint has an answer of the shards have too.
THEOREM HistoryHolds ==
  ASSUME AlwaysResumes
  PROVE  PaperSpec => []History
<1>1. PaperInv /\ History /\ [PaperNext]_paperVars => History'
  BY HistoryKept
<1> QED
  BY PaperInvHolds, PaperInitHistory, <1>1, PTL DEF PaperSpec

\* A step loses the last answer of a question only by merging a failure in its
\* place, after a change of the number of shards.
LEMMA AnswersKeptStep ==
  ASSUME PaperInv, History, [PaperNext]_paperVars, NEW q \in Answered \ Answered'
  PROVE  ~steady /\ parent.pc = "merge" /\ Merged(run.shards)[q] = "failed"
<1>1. PICK f \in Files : q \in Ordinals /\ ckpts[f].last[q] = "succeeded"
  BY DEF Answered, With
<1>2. \A g \in Files : ckpts'[g].last[q] # "succeeded"
  BY <1>1 DEF Answered, With
<1>3. /\ f = Main /\ ~Single /\ Merge
      /\ ckpts' = [ckpts EXCEPT ![Main] = Written(Merged(run.shards))]
  BY <1>1, <1>2, AnswerStays DEF History
<1>4. \A i \in 0 .. run.shards - 1 : ckpts[File(i)].last[q] # "succeeded"
  <2> TAKE i \in 0 .. run.shards - 1
  <2>1. File(i) \in Files /\ File(i) # Main
    BY <1>3, FilesShape DEF PaperInv
  <2>2. ckpts'[File(i)] = ckpts[File(i)]
    BY <1>3, <2>1 DEF PaperInv, PaperTypeOK
  <2> QED
    BY <1>2, <2>1, <2>2
<1>5. ~steady
  BY <1>1, <1>3, <1>4 DEF History, MainBehind, With
<1>6. parent.pc = "merge"
  BY <1>3 DEF Merge
<1>7. \E i \in 0 .. run.shards - 1 : ckpts[File(i)].last[q] # "none"
  <2>1. PICK i \in 0 .. run.shards - 1 : q \in Share(i)
    BY <1>1, FilesShape, ShardsPartition DEF PaperInv, Share
  <2>2. i < SeededCount
    BY <1>6, <2>1, FilesShape DEF SeededCount, PaperInv
  <2> QED
    BY <1>1, <1>3, <1>6, <2>1, <2>2 DEF History, MainSeeded
<1>8. Merged(run.shards)[q] = "failed"
  <2>1. PICK i \in 0 .. run.shards - 1 :
          ckpts[File(i)].last[q] # "none" /\ Merged(run.shards)[q] = ckpts[File(i)].last[q]
    BY <1>1, <1>7, MergedRows DEF PaperInv
  <2>2. ckpts[File(i)].last[q] \in {"none", "succeeded", "failed"}
    BY <1>1, FilesShape DEF PaperInv, PaperTypeOK, Checkpoint
  <2> QED
    BY <1>4, <2>1, <2>2
<1> QED
  BY <1>5, <1>6, <1>8

\* No kill, retry, seeding or merge loses the last answer of a question, but the
\* merge of an older failure after the number of shards was changed.
THEOREM AnswersKeptHolds ==
  ASSUME AlwaysResumes
  PROVE  PaperSpec => AnswersKept
<1> DEFINE Kept ==
      \A q \in Answered \ Answered' :
        ~steady /\ parent.pc = "merge" /\ Merged(run.shards)[q] = "failed"
<1>1. PaperInv /\ History /\ [PaperNext]_paperVars => Kept
  BY AnswersKeptStep
<1>2. PaperInv /\ History /\ [PaperNext]_paperVars => [Kept]_paperVars
  BY <1>1
<1> QED
  BY PaperInvHolds, HistoryHolds, <1>2, PTL DEF PaperSpec, AnswersKept
-----------------------------------------------------------------------------
(* No question is asked twice.                                             *)

LEMMA OnlyAsk ==
  ASSUME PaperInv, [PaperNext]_paperVars, NEW i \in Workers,
         proc[i].pc # "ask", proc'[i].pc = "ask"
  PROVE  Ask(i)
<1>1. proc \in [Workers -> ProcType]
  BY DEF PaperInv, PaperTypeOK
<1>2. CASE StartRun
  BY <1>2 DEF StartRun, Idle
<1>3. CASE SignalParent \/ KillParent \/ Merge \/ WriteMerged \/ UNCHANGED paperVars
  BY <1>3 DEF SignalParent, KillParent, Merge, WriteMerged, paperVars
<1>4. CASE Seed
  BY <1>1, <1>4 DEF Seed, ProcType
<1>5. CASE Poll
  BY <1>1, <1>5 DEF Poll, ProcType
<1>6. CASE Terminate
  BY <1>1, <1>6, DeadType DEF Terminate
<1>7. ASSUME NEW k \in Workers, SignalWorker(k)
      PROVE  FALSE
  BY <1>1, <1>7 DEF SignalWorker, ProcType
<1>8. ASSUME NEW k \in Workers, KillWorker(k)
      PROVE  FALSE
  BY <1>1, <1>8, DeadType DEF KillWorker
<1>9. ASSUME NEW k \in Workers, LoadCheckpoint(k)
      PROVE  FALSE
  <2>1. proc[k] \in ProcType
    BY <1>1
  <2> QED
    BY <1>1, <1>9, <2>1, DeadType DEF LoadCheckpoint, ProcType
<1>10. ASSUME NEW k \in Workers, Finish(k) \/ Write(k)
      PROVE  FALSE
  BY <1>1, <1>10 DEF Finish, Write, ProcType, Idle
<1>11. ASSUME NEW k \in Workers, Answer(k)
      PROVE  FALSE
  <2>1. PICK q \in Todo(k), status \in Replies :
          /\ q \in Share(k) /\ ckpts[File(k)].last[q] # "succeeded"
          /\ ckpts' = [ckpts EXCEPT ![File(k)] = [@ EXCEPT !.last[q] = status]]
          /\ proc' = [proc EXCEPT
               ![k].pc     = "loop",
               ![k].ok     = @ \cup (IF status = "succeeded" THEN {q} ELSE {}),
               ![k].failed = @ \cup (IF status = "failed" THEN {q} ELSE {})]
    BY <1>11, AnswerStep
  <2> QED
    BY <1>1, <2>1 DEF ProcType
<1>12. ASSUME NEW k \in Workers, Ask(k)
      PROVE  k = i
  BY <1>1, <1>12 DEF Ask
<1> QED
  BY <1>2, <1>3, <1>4, <1>5, <1>6, <1>7, <1>8, <1>9, <1>10, <1>11, <1>12 DEF PaperNext

\* A question that a worker has before it is answered in no checkpoint.
LEMMA TodoUnanswered ==
  ASSUME PaperInv, History, steady, NEW i \in Workers, proc[i].pc = "loop",
         NEW q \in Todo(i)
  PROVE  q \notin Answered
<1>1. /\ Running(i) /\ i \in Nat /\ i < run.shards /\ i \in 0 .. run.shards - 1
      /\ run.shards \in Nat \ {0}
      /\ Single => i = 0
  BY RunningPcs, WhileRunning, FilesShape DEF PaperInv
<1>2. q \in Share(i) /\ q \in Ordinals /\ q \notin proc[i].ok
  BY SharesAreOrdinals DEF Todo, Share
<1>3. ckpts[File(i)].last[q] # "succeeded"
  BY <1>2 DEF PaperInv, Counted, With
<1>4. ASSUME NEW k \in 0 .. run.shards - 1
      PROVE  ckpts[File(k)].last[q] # "succeeded"
  <2>1. CASE k = i
    BY <1>3, <2>1
  <2>2. CASE k # i
    <3>1. q \notin Share(k)
      BY <1>1, <1>2, <2>2, ShardsPartition DEF Share
    <3> QED
      BY <1>2, <3>1, RowOfShare DEF History, PaperInv
  <2> QED
    BY <2>1, <2>2
<1>5. ckpts[Main].last[q] # "succeeded"
  <2>1. CASE Single
    BY <1>1, <1>4, <2>1, FilesShape DEF PaperInv
  <2>2. CASE ~Single
    BY <1>2, <1>4, <2>2 DEF History, MainBehind, With
  <2> QED
    BY <2>1, <2>2
<1>6. ASSUME NEW f \in Files
      PROVE  ckpts[f].last[q] # "succeeded"
  <2>a. PICK n \in Counts \cup {1} : f \in {n} \X (0 .. n - 1)
    BY DEF Files
  <2>1. PICK k \in 0 .. n - 1 : f = <<n, k>>
    BY <2>a
  <2>2. CASE n = run.shards
    BY <1>4, <2>1, <2>2 DEF File
  <2>3. CASE n = 1
    <3>1. k = 0
      BY <2>1, <2>3
    <3> QED
      BY <1>5, <2>1, <2>3, <3>1 DEF Main
  <2>4. CASE n \notin {1, run.shards}
    BY <1>2, <2>1, <2>4 DEF History, NoOthers
  <2> QED
    BY <2>2, <2>3, <2>4
<1> QED
  BY <1>6 DEF Answered, With

LEMMA AskedOnceStep ==
  ASSUME PaperInv, History, steady, [PaperNext]_paperVars, NEW i \in Workers,
         proc[i].pc # "ask", proc'[i].pc = "ask"
  PROVE  /\ Min(Todo(i)) \notin Answered
         /\ \A k \in Workers \ {i} : proc[k].pc = "ask" => Min(Todo(k)) # Min(Todo(i))
<1>1. Ask(i)
  BY OnlyAsk
<1>2. proc[i].pc = "loop" /\ Todo(i) # {}
  BY <1>1 DEF Ask
<1>3. \A k : Todo(k) \in SUBSET Ordinals /\ Todo(k) \subseteq Share(k)
  BY SharesAreOrdinals DEF Todo, Share
<1>4. Min(Todo(i)) \in Todo(i)
  BY <1>2, <1>3, LeastQuestion
<1>5. Min(Todo(i)) \notin Answered
  BY <1>2, <1>4, TodoUnanswered
<1>6. ASSUME NEW k \in Workers \ {i}, proc[k].pc = "ask"
      PROVE  Min(Todo(k)) # Min(Todo(i))
  <2>1. Todo(k) # {}
    BY <1>6 DEF PaperInv, Counted
  <2>2. Min(Todo(k)) \in Share(k) /\ Min(Todo(i)) \in Share(i)
    BY <1>3, <1>4, <2>1, LeastQuestion
  <2>3. /\ run.shards \in Nat \ {0}
        /\ i \in 0 .. run.shards - 1 /\ k \in 0 .. run.shards - 1
    BY <1>2, <1>6, RunningPcs, WhileRunning, FilesShape DEF PaperInv
  <2>4. Share(i) \cap Share(k) = {}
    BY <1>6, <2>3, ShardsPartition DEF Share
  <2> QED
    BY <2>2, <2>4
<1> QED
  BY <1>5, <1>6

\* As long as runs keep to one number of shards, no question is asked that a
\* checkpoint has an answer of, nor by two workers at once, whoever was killed
\* before the shards were merged.
THEOREM AskedOnceHolds ==
  ASSUME AlwaysResumes
  PROVE  PaperSpec => AskedOnce
<1> DEFINE Once ==
      \A i \in Workers :
        steady /\ proc[i].pc # "ask" /\ proc'[i].pc = "ask" =>
          /\ Min(Todo(i)) \notin Answered
          /\ \A k \in Workers \ {i} : proc[k].pc = "ask" => Min(Todo(k)) # Min(Todo(i))
<1>1. PaperInv /\ History /\ [PaperNext]_paperVars => Once
  BY AskedOnceStep
<1>2. PaperInv /\ History /\ [PaperNext]_paperVars => [Once]_paperVars
  BY <1>1
<1> QED
  BY PaperInvHolds, HistoryHolds, <1>2, PTL DEF PaperSpec, AskedOnce
==============================================================================
