---------------------------- MODULE PaperBenchmark ----------------------------
(***************************************************************************)
(* The paper-aligned benchmark: scripts/paper_benchmark_worker.py answers  *)
(* the questions of a range one by one and appends each outcome to its     *)
(* checkpoint; scripts/paper_benchmark_shard_runner.py gives every shard   *)
(* of the questions to a worker with a checkpoint of its own, seeds that   *)
(* from the main checkpoint and merges all of them back in the end.  Runs  *)
(* follow each other over the same files, with whatever options.           *)
(*                                                                         *)
(* Abstractions.  Of a checkpoint is kept what its readers make of it: the *)
(* last outcome of each question and whether a row is torn.  An answer,    *)
(* right or wrong, is "succeeded".  Retries of an LLM call are inside the  *)
(* call.  Progress files and the result files of the shards are left out:  *)
(* nothing reads them but for display.  Offset and limit are those of the  *)
(* first run.                                                              *)
(***************************************************************************)
EXTENDS Naturals, FiniteSets

CONSTANTS
  QuestionCount,  \* questions selected from the QA file
  RunOptions      \* the options runs may have

Ordinals == 0 .. QuestionCount - 1      \* ordinal

RunOption == [shards : Nat \ {0}, resume : BOOLEAN, retry : BOOLEAN]

ASSUME PaperAssumption ==
  /\ QuestionCount \in Nat \ {0}
  /\ RunOptions # {} /\ RunOptions \subseteq RunOption
  /\ \A o \in RunOptions : o.shards <= QuestionCount

Counts == {o.shards : o \in RunOptions}

\* Checkpoint i of n; the main checkpoint is that of a single worker.
Files == UNION {{n} \X (0 .. n - 1) : n \in Counts \cup {1}}
Main  == <<1, 0>>

Workers == UNION {0 .. n - 1 : n \in Counts}

VARIABLES
  ckpts,    \* the checkpoint files
  result,   \* the result file of the run
  run,      \* the options of the run
  steady,   \* history: every run so far had as many shards as this one
  parent,   \* the shard runner
  proc      \* the workers of the run

paperVars == <<ckpts, result, run, steady, parent, proc>>

Empty == [last |-> [q \in Ordinals |-> "none"], torn |-> FALSE]

NoResult == [state |-> "none", ok |-> {}, failed |-> {}]

Idle == [pc |-> "off", stop |-> FALSE, ok |-> {}, failed |-> {}]

PaperInit ==
  /\ ckpts = [f \in Files |-> Empty]
  /\ result = NoResult
  /\ run \in RunOptions
  /\ steady = TRUE
  /\ parent = [pc |-> "off", stop |-> FALSE, next |-> 0]
  /\ proc = [i \in Workers |-> Idle]

\* Exit 0, exit 2, any other end.
Over == {"off", "ok", "partial", "dead"}
Running(i) == proc[i].pc \notin Over
Children == {i \in Workers : i < run.shards}

Single  == run.shards = 1
File(i) == <<run.shards, i>>

Min(S) == CHOOSE q \in S : \A x \in S : q <= x
Max(S) == CHOOSE q \in S : \A x \in S : x <= q

-----------------------------------------------------------------------------
(* Checkpoints and shards.                                                 *)

ShardSize(n, i) ==
  QuestionCount \div n + (IF i < QuestionCount % n THEN 1 ELSE 0)

\* Mutant: shards are laid out as if all had the size of the smallest.
Shard_ByBase(n, i) ==
  LET start == i * (QuestionCount \div n)
  IN {q \in Ordinals : start <= q /\ q < start + ShardSize(n, i)}

\* shard_ranges: contiguous, the first of them one longer when the number of
\* shards does not divide the questions.
ShardStart(n) ==
  LET start[k \in 0 .. n] ==
        IF k = 0 THEN 0 ELSE start[k - 1] + ShardSize(n, k - 1)
  IN start

Shard(n, i) ==
  LET start == ShardStart(n)[i]
  IN {q \in Ordinals : start <= q /\ q < start + ShardSize(n, i)}

\* append_checkpoint.  A row behind a torn one cannot be told from it.
Append(file, q, status) ==
  IF file.torn THEN file
  ELSE [file EXCEPT !.last[q] = status]

\* write_checkpoint_records: one row for each question.
Written(last) == [last |-> last, torn |-> FALSE]

\* Mutant: the main checkpoint has the last word.
Seeded_MainWins(shard, main, range) ==
  [q \in Ordinals |->
     IF q \notin range THEN "none"
     ELSE IF main.last[q] # "none" THEN main.last[q] ELSE shard.last[q]]

\* seed_shard_checkpoint: the row of the shard, or else of the main
\* checkpoint, for each question of the shard.
Seeded(shard, main, range) ==
  [q \in Ordinals |->
     IF q \notin range THEN "none"
     ELSE IF shard.last[q] # "none" THEN shard.last[q] ELSE main.last[q]]

\* merge_results: the rows of all shards, and none of the main checkpoint.
Merged(n) ==
  [q \in Ordinals |->
     LET having == {i \in 0 .. n - 1 : ckpts[<<n, i>>].last[q] # "none"}
     IN IF having = {} THEN "none" ELSE ckpts[<<n, Max(having)>>].last[q]]

With(last, status) == {q \in Ordinals : last[q] = status}

-----------------------------------------------------------------------------
(* Runs.                                                                   *)

\* The operator starts the next run when no process of the last is left.
StartRun ==
  /\ parent.pc \notin {"seed", "poll", "stopping", "merge", "write"}
  /\ \A i \in Workers : ~Running(i)
  /\ \E o \in RunOptions :
       /\ run' = o
       /\ steady' = (steady /\ o.shards = run.shards)
       /\ parent' = [pc |-> IF o.shards = 1 THEN "off" ELSE "seed",
                     stop |-> FALSE, next |-> 0]
       /\ proc' = [i \in Workers |->
                       IF o.shards = 1 /\ i = 0 THEN [Idle EXCEPT !.pc = "load"]
                                                ELSE Idle]
  /\ UNCHANGED <<ckpts, result>>

\* SIGTERM or SIGINT, to one process.
SignalWorker(i) ==
  /\ Running(i)
  /\ proc' = [proc EXCEPT ![i].stop = TRUE]
  /\ UNCHANGED <<ckpts, result, run, steady, parent>>

SignalParent ==
  /\ parent.pc \in {"seed", "poll", "stopping", "merge", "write"}
  /\ parent' = [parent EXCEPT !.stop = TRUE]
  /\ UNCHANGED <<ckpts, result, run, steady, proc>>

Dead == [Idle EXCEPT !.pc = "dead"]

\* What a killed worker may leave: half a row, half a result file.
Torn(i, file) ==
  {file} \cup IF proc[i].pc = "ask" THEN {[file EXCEPT !.torn = TRUE]} ELSE {}

TornResult(writing) ==
  {result} \cup IF writing THEN {[NoResult EXCEPT !.state = "torn"]} ELSE {}

\* SIGKILL, or an exception before the first question.
KillWorker(i) ==
  /\ Running(i)
  /\ proc' = [proc EXCEPT ![i] = Dead]
  /\ \E file \in Torn(i, ckpts[File(i)]) : ckpts' = [ckpts EXCEPT ![File(i)] = file]
  /\ result' \in TornResult(Single /\ proc[i].pc = "write")
  /\ UNCHANGED <<run, steady, parent>>

\* The workers of a killed parent go on.
KillParent ==
  /\ parent.pc \in {"seed", "poll", "stopping", "merge", "write"}
  /\ parent' = [parent EXCEPT !.pc = "dead"]
  /\ result' \in TornResult(parent.pc = "write")
  /\ UNCHANGED <<ckpts, run, steady, proc>>

-----------------------------------------------------------------------------
(* A worker.                                                               *)

\* The outcomes a worker takes over from its checkpoint.
TakenOver(last, retry) ==
  [ok |-> With(last, "succeeded"), failed |-> IF retry THEN {} ELSE With(last, "failed")]

Share(i) == Shard(run.shards, i)

Todo(i) == Share(i) \ (proc[i].ok \cup proc[i].failed)

\* The shard runner always passes --resume.
Resumes == run.resume \/ ~Single

\* Read the checkpoint; a row that cannot be parsed ends the worker.  With
\* nothing left to ask the result is written at once.
LoadCheckpoint(i) ==
  /\ proc[i].pc = "load"
  /\ LET file == ckpts[File(i)]
         had  == TakenOver(file.last, run.retry)
         here == IF Resumes THEN had ELSE [had EXCEPT !.ok = {}, !.failed = {}]
     IN proc' = [proc EXCEPT ![i] =
          IF Resumes /\ file.torn THEN Dead
          ELSE [@ EXCEPT !.pc = "loop", !.ok = here.ok \cap Share(i),
                         !.failed = here.failed \cap Share(i)]]
  /\ UNCHANGED <<ckpts, result, run, steady, parent>>

\* The next question, unless asked to stop.
Ask(i) ==
  /\ proc[i].pc = "loop"
  /\ Todo(i) # {} /\ ~proc[i].stop
  /\ proc' = [proc EXCEPT ![i].pc = "ask"]
  /\ UNCHANGED <<ckpts, result, run, steady, parent>>

\* run_agent_question: an answer, right or wrong, or an exception, whichever
\* of its calls has run out of attempts.
Replies == {"succeeded", "failed"}

\* The outcome is counted and appended to the checkpoint.
Answer(i) ==
  /\ proc[i].pc = "ask"
  /\ \E status \in Replies :
       LET q == Min(Todo(i))
       IN /\ proc' = [proc EXCEPT
                ![i].pc     = "loop",
                ![i].ok     = @ \cup (IF status = "succeeded" THEN {q} ELSE {}),
                ![i].failed = @ \cup (IF status = "failed" THEN {q} ELSE {})]
          /\ ckpts' = [ckpts EXCEPT ![File(i)] = Append(@, q, status)]
  /\ UNCHANGED <<result, run, steady, parent>>

\* The end of the loop.
Finish(i) ==
  /\ proc[i].pc = "loop"
  /\ Todo(i) = {} \/ proc[i].stop
  /\ proc' = [proc EXCEPT ![i].pc = "write"]
  /\ UNCHANGED <<ckpts, result, run, steady, parent>>

\* write_result; exit 2 if an outcome is a failure.  The result of a shard
\* is not read.
Write(i) ==
  /\ proc[i].pc = "write"
  /\ proc' = [proc EXCEPT ![i] =
       [Idle EXCEPT !.pc = IF proc[i].failed = {} THEN "ok" ELSE "partial",
                    !.stop = proc[i].stop]]
  /\ result' = IF Single
               THEN [state |-> "whole", ok |-> proc[i].ok, failed |-> proc[i].failed]
               ELSE result
  /\ UNCHANGED <<ckpts, run, steady, parent>>

-----------------------------------------------------------------------------
(* The shard runner.                                                       *)

\* Seed the checkpoint of the next shard and start its worker.  A checkpoint
\* that cannot be parsed ends the runner, not the workers it has started.
Seed ==
  /\ parent.pc = "seed"
  /\ LET i == parent.next
         file == ckpts[File(i)]
     IN IF file.torn \/ ckpts[Main].torn
        THEN /\ parent' = [parent EXCEPT !.pc = "dead"]
             /\ UNCHANGED <<ckpts, proc>>
        ELSE /\ ckpts' = [ckpts EXCEPT ![File(i)] =
                           Written(Seeded(file, ckpts[Main], Share(i)))]
             /\ proc' = [proc EXCEPT ![i].pc = "load"]
             /\ parent' = [parent EXCEPT
                  !.pc = IF i + 1 = run.shards THEN "poll" ELSE "seed", !.next = i + 1]
  /\ UNCHANGED <<result, run, steady>>

AllOver == \A i \in Children : ~Running(i)

\* The poll loop ends with the workers; asked to stop, the runner passes
\* that on.
Poll ==
  /\ parent.pc = "poll"
  /\ \/ /\ AllOver
        /\ parent' = [parent EXCEPT !.pc = "merge"]
        /\ UNCHANGED proc
     \/ /\ parent.stop /\ ~AllOver
        /\ parent' = [parent EXCEPT !.pc = "stopping"]
        /\ proc' = [i \in Workers |->
             IF Running(i) THEN [proc[i] EXCEPT !.stop = TRUE] ELSE proc[i]]
  /\ UNCHANGED <<ckpts, result, run, steady>>

\* terminate_children: after ten seconds those left are killed.
Terminate ==
  /\ parent.pc = "stopping"
  /\ parent' = [parent EXCEPT !.pc = "merge"]
  /\ proc' = [i \in Workers |-> IF Running(i) THEN Dead ELSE proc[i]]
  /\ ckpts' \in {c \in [Files -> UNION {Torn(i, ckpts[f]) : f \in Files, i \in Workers}] :
                  \A f \in Files :
                    IF \E i \in Children : f = File(i) /\ Running(i)
                    THEN \E i \in Children : f = File(i) /\ c[f] \in Torn(i, ckpts[f])
                    ELSE c[f] = ckpts[f]}
  /\ UNCHANGED <<result, run, steady>>

\* merge_results, the main checkpoint.
Merge ==
  /\ parent.pc = "merge"
  /\ IF \E i \in Children : ckpts[File(i)].torn
     THEN /\ parent' = [parent EXCEPT !.pc = "dead"]
          /\ UNCHANGED ckpts
     ELSE /\ parent' = [parent EXCEPT !.pc = "write"]
          /\ ckpts' = [ckpts EXCEPT ![Main] = Written(Merged(run.shards))]
  /\ UNCHANGED <<result, run, steady, proc>>

\* Mutant: completeness is not looked at, as a worker does not.
ExitCode_Incomplete(done) ==
  IF parent.stop \/ \E i \in Children : proc[i].pc = "dead" THEN "dead"
  ELSE IF With(done, "failed") # {} THEN "partial" ELSE "ok"

\* Exit 1 after a stop or when a worker ended otherwise than with 0 or 2,
\* exit 2 when an outcome is missing or a failure.
ExitCode(done) ==
  IF parent.stop \/ \E i \in Children : proc[i].pc = "dead" THEN "dead"
  ELSE IF With(done, "succeeded") # Ordinals THEN "partial" ELSE "ok"

\* merge_results, the result file, and the end of the runner.
WriteMerged ==
  /\ parent.pc = "write"
  /\ LET done == ckpts[Main].last
     IN /\ result' = [state |-> "whole", ok |-> With(done, "succeeded"),
                      failed |-> With(done, "failed")]
        /\ parent' = [parent EXCEPT !.pc = ExitCode(done)]
  /\ UNCHANGED <<ckpts, run, steady, proc>>

-----------------------------------------------------------------------------

PaperNext ==
  \/ StartRun \/ SignalParent \/ KillParent
  \/ Seed \/ Poll \/ Terminate \/ Merge \/ WriteMerged
  \/ \E i \in Workers :
       \/ SignalWorker(i) \/ KillWorker(i)
       \/ LoadCheckpoint(i) \/ Ask(i) \/ Answer(i) \/ Finish(i) \/ Write(i)

PaperSpec == PaperInit /\ [][PaperNext]_paperVars

-----------------------------------------------------------------------------
(* Properties.                                                             *)

\* The questions a checkpoint has an answer of.
Answered == UNION {With(ckpts[f].last, "succeeded") : f \in Files}

\* "completed checkpoint rows must not be re-answered or re-judged": as long
\* as runs keep to one number of shards, no question is asked that any
\* checkpoint, main or shard, has an answer of, nor one another worker is
\* asking, whoever was killed before the shards were merged.
AskedOnce ==
  [][\A i \in Workers :
       steady /\ proc[i].pc # "ask" /\ proc'[i].pc = "ask" =>
         /\ Min(Todo(i)) \notin Answered
         /\ \A k \in Workers \ {i} :
              proc[k].pc = "ask" => Min(Todo(k)) # Min(Todo(i))]_paperVars

\* "They should not erase previous successful rows": no kill, retry, seeding
\* or merge loses the last answer on record, but for one case, that of a
\* number of shards that runs have switched from and back to: a failure in a
\* checkpoint of those shards that is older than the answer in the main one
\* takes precedence when the shard is seeded, and is merged.
AnswersKept ==
  [][\A q \in Answered \ Answered' :
       ~steady /\ parent.pc = "merge" /\ Merged(run.shards)[q] = "failed"]_paperVars

\* A run that exits 0 has answered all questions, in the result and in the
\* main checkpoint, even if workers were stopped or killed behind the
\* runner's back.  A single worker exits 0 too when it was stopped before
\* the first failure, so this is about one that was not.
ExitZeroIsComplete ==
  parent.pc = "ok" \/ (Single /\ proc[0].pc = "ok" /\ ~proc[0].stop) =>
    /\ result = [state |-> "whole", ok |-> Ordinals, failed |-> {}]
    /\ With(ckpts[Main].last, "succeeded") = Ordinals

================================================================================
