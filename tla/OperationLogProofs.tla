-------------------------- MODULE OperationLogProofs --------------------------
(***************************************************************************)
(* Proofs about OperationLog, for any number of requests and either kind   *)
(* of fault.                                                               *)
(*                                                                         *)
(* A step of the history is a step of the manager of the runs, or leaves   *)
(* the runs alone, so that the invariant of JobManagerProofs holds of them *)
(* (its theorems are used here under the name of Runs).  On top of it Inv  *)
(* says how far a request's handler is and what its record and its file    *)
(* hold by then.                                                           *)
(***************************************************************************)
EXTENDS OperationLog, TLAPS

Runs == INSTANCE JobManagerProofs WITH
  Jobs <- Requests, Watched <- {}, ArtifactStatuses <- {"planned"},
  MaxEvents <- 0, MaxCancels <- 1, SaveMayFail <- FALSE,
  DamageMayHappen <- FALSE,
  entry <- runEntry, disk <- runDisk, pc <- runPc, outcome <- runOutcome,
  canceling <- runCanceling, ctxCanceled <- runCtx

Answers == {"planned", "succeeded", "failed"}

OperationTypeOK ==
  /\ step \in [Requests -> {"idle", "worked", "cleaned", "submitted", "answered",
                            "over", "lost"}]
  /\ reply \in [Requests -> {"none", "accepted", "cleanup_failed"} \cup Answers]
  /\ records \in [Requests -> Operation]
  /\ opDisk \in [Requests -> Operation]

Unreadable == [Absent EXCEPT !.status = "damaged"]

\* The operation op of request r says what the client was told.
Tells(op, r) ==
  IF reply[r] = "accepted"
  THEN op.ref /\ (op.status = "running" \/ op.error = "interrupted")
  ELSE op.status = reply[r]

\* What a handler has decided, and that it has written nothing before it
\* answers.
Handled(r) ==
  /\ step[r] \in {"worked", "cleaned", "submitted", "answered"} => up
  /\ step[r] = "worked" => reply[r] \in Answers
  /\ step[r] = "submitted" => runPc[r] # "none"
  /\ step[r] \in {"answered", "over"} =>
       reply[r] \in Answers \cup {"accepted", "cleanup_failed"}
  /\ step[r] \notin {"answered", "over"} => opDisk[r] = Absent /\ records[r] = Absent

\* The file of an operation is missing, unreadable, or says what was told.
Written(r) ==
  \/ opDisk[r] \in {Absent, Unreadable}
  \/ /\ reply[r] # "cleanup_failed"
     /\ opDisk[r].status \notin {"none", "damaged"}
     /\ opDisk[r].status = "running" => opDisk[r].ref
     /\ opDisk[r].error # "interrupted"
     /\ Tells(opDisk[r], r)

\* So does its record, ...
Shown(r) ==
  up /\ reply[r] # "cleanup_failed" =>
    /\ step[r] = "answered" => AsAnswered(r)
    /\ step[r] = "over" => \/ AsAnswered(r)
                           \/ /\ records[r] = Absent
                              /\ opDisk[r].status \in {"none", "damaged"}

\* ... and the run they refer to is stored, and has no goroutine if the
\* operation was interrupted.
Linked(r) ==
  /\ records[r].ref \/ opDisk[r].ref => runDisk[r].status # "none"
  /\ records[r].status = "running" => step[r] = "answered"
  /\ records[r].error = "interrupted" =>
       records[r].ref /\ up /\ step[r] = "over" /\ runPc[r] = "none"

RequestInv(r) == Handled(r) /\ Written(r) /\ Shown(r) /\ Linked(r)

Inv == Runs!Inv /\ OperationTypeOK /\ \A r \in Requests : RequestInv(r)

-----------------------------------------------------------------------------
(* The runs.                                                               *)

\* A step of a run is one of the manager's.
LEMMA RunStepIsNext ==
  ASSUME NEW r \in Requests, RunStep(r)
  PROVE  Runs!Next
<1>1. R!RunBegin(r) => Runs!RunBegin(r)
  BY DEF R!RunBegin, Runs!RunBegin, R!UpdateEntry, Runs!UpdateEntry, R!Persist,
     Runs!Persist, R!LogEvent, Runs!LogEvent
<1>2. R!RunnerReturn(r) => Runs!RunnerReturn(r)
  BY DEF R!RunnerReturn, Runs!RunnerReturn
<1>3. R!RunEnd(r) => Runs!RunEnd(r)
  BY DEF R!RunEnd, Runs!RunEnd, R!UpdateEntry, Runs!UpdateEntry, R!Persist,
     Runs!Persist, R!LogEvent, Runs!LogEvent, R!Finished, Runs!Finished
<1>4. R!CancelRecord(r) => Runs!CancelRecord(r)
  <2>1. \A rec, type : R!CountEvents(rec, type) = Runs!CountEvents(rec, type)
    BY DEF R!CountEvents, Runs!CountEvents, R!Cardinality, Runs!Cardinality
  <2> QED
    BY <2>1 DEF R!CancelRecord, Runs!CancelRecord, R!UpdateEntry, Runs!UpdateEntry,
       R!Persist, Runs!Persist, R!LogEvent, Runs!LogEvent, R!Unfinished, Runs!Unfinished
<1>5. R!CancelFire(r) => Runs!CancelFire(r)
  BY DEF R!CancelFire, Runs!CancelFire
<1> QED
  BY <1>1, <1>2, <1>3, <1>4, <1>5 DEF RunStep, Runs!Next

LEMMA SubmitIsNext ==
  ASSUME NEW r \in Requests, R!SubmitSpec(r)
  PROVE  Runs!Next
<1>1. Runs!SubmitSpec(r)
  BY DEF R!SubmitSpec, Runs!SubmitSpec, R!UpdateEntry, Runs!UpdateEntry, R!Persist,
     Runs!Persist, R!LogEvent, Runs!LogEvent, R!Blank, Runs!Blank
<1> QED
  BY <1>1 DEF Runs!Next

LEMMA CrashIsNext == R!Crash => Runs!Next
BY DEF R!Crash, Runs!Crash, R!Blank, Runs!Blank, Runs!Next, R!goroutine, Runs!goroutine

LEMMA RestartIsNext == R!Restart => Runs!Next
<1>1. \A rec : R!Reloaded(rec) = Runs!Reloaded(rec)
  BY DEF R!Reloaded, Runs!Reloaded, R!LogEvent, Runs!LogEvent, R!Unfinished,
     Runs!Unfinished
<1>2. R!Restart => Runs!Restart
  BY <1>1 DEF R!Restart, Runs!Restart, R!Blank, Runs!Blank, R!Loadable, Runs!Loadable,
     R!goroutine, Runs!goroutine
<1> QED
  BY <1>2 DEF Runs!Next

\* What the manager's invariant says of the files of the runs.
LEMMA RunFacts ==
  ASSUME Runs!Inv
  PROVE  /\ up \in BOOLEAN
         /\ runPc = [r \in Requests |-> runPc[r]]
         /\ runEntry = [r \in Requests |-> runEntry[r]]
         /\ runDisk = [r \in Requests |-> runDisk[r]]
         /\ \A r \in Requests : runPc[r] # "none" => runEntry[r].status # "none"
         /\ \A r \in Requests : runDisk[r].status # "damaged"
         /\ up => \A r \in Requests : runDisk[r] = runEntry[r]
<1>1. /\ up \in BOOLEAN
      /\ runPc \in [Requests -> {"none", "spawned", "running", "returned", "done"}]
      /\ runEntry \in [Requests -> Runs!Record] /\ runDisk \in [Requests -> Runs!Record]
  BY DEF Runs!Inv, Runs!TypeOK
<1>2. \A r \in Requests : runPc[r] # "none" => runEntry[r].status # "none"
  BY <1>1 DEF Runs!Inv, Runs!GoroutineInv, Runs!Terminal
<1>3. ~Runs!SomeDamage
  BY DEF Runs!Inv, Runs!FileInv
<1>4. up => \A r \in Requests : runDisk[r] = runEntry[r]
  BY <1>3 DEF Runs!Inv, Runs!FileInv
<1> QED
  BY <1>1, <1>2, <1>3, <1>4 DEF Runs!SomeDamage

\* A run that is stored stays stored, goes on while the process lives, and is
\* not taken up again for a request that an earlier process has answered.
RunsKept ==
  /\ \A r \in Requests : runDisk[r].status # "none" => runDisk'[r].status # "none"
  /\ up' = up
  /\ \A r \in Requests : runPc[r] # "none" => runPc'[r] # "none"
  /\ \A r \in Requests : step[r] = "over" /\ runPc[r] = "none" => runPc'[r] = "none"

LEMMA RunStepKeepsRuns ==
  ASSUME Runs!Inv, Runs!Inv', up, NEW r \in Requests,
         RunStep(r) \/ (R!SubmitSpec(r) /\ step[r] # "over")
  PROVE  RunsKept
<1>1. /\ runPc = [q \in Requests |-> runPc[q]] /\ up' = up
      /\ runEntry = [q \in Requests |-> runEntry[q]]
  BY RunFacts DEF RunStep, R!RunBegin, R!RunnerReturn, R!RunEnd, R!CancelRecord,
     R!CancelFire, R!SubmitSpec
<1>2. \A q \in Requests : runPc[q] # "none" => runPc'[q] # "none"
  BY <1>1 DEF RunStep, R!RunBegin, R!RunnerReturn, R!RunEnd, R!CancelRecord, R!CancelFire,
     R!SubmitSpec
<1>3. \A q \in Requests \ {r} : runEntry'[q] = runEntry[q]
  BY <1>1 DEF RunStep, R!RunBegin, R!RunnerReturn, R!RunEnd, R!CancelRecord, R!CancelFire,
     R!SubmitSpec, R!UpdateEntry
<1>4. runEntry'[r] = runEntry[r] \/ runEntry'[r].status # "none"
  <2>1. CASE R!RunBegin(r) \/ R!RunEnd(r) \/ R!SubmitSpec(r)
    <3>1. runPc'[r] # "none"
      BY <1>1, <2>1 DEF R!RunBegin, R!RunEnd, R!SubmitSpec
    <3>2. runEntry'[r].status # "none"
      BY <3>1 DEF Runs!Inv, Runs!GoroutineInv, Runs!TypeOK, Runs!Terminal
    <3> QED
      BY <3>2
  <2>2. CASE R!CancelRecord(r)
    <3>1. runCanceling \in [Requests -> Nat]
      BY DEF Runs!Inv, Runs!TypeOK
    <3>2. runCanceling'[r] > 0
      BY <2>2, <3>1 DEF R!CancelRecord
    <3> QED
      BY <3>2 DEF Runs!Inv, Runs!CancelInv
  <2>3. CASE R!RunnerReturn(r) \/ R!CancelFire(r)
    BY <2>3 DEF R!RunnerReturn, R!CancelFire
  <2> QED
    BY <2>1, <2>2, <2>3 DEF RunStep
<1>5. \A q \in Requests : step[q] = "over" /\ runPc[q] = "none" => runPc'[q] = "none"
  BY <1>1 DEF RunStep, R!RunBegin, R!RunnerReturn, R!RunEnd, R!CancelRecord, R!CancelFire,
     R!SubmitSpec
<1>6. /\ \A q \in Requests : runDisk[q] = runEntry[q]
      /\ \A q \in Requests : runDisk'[q] = runEntry'[q]
  <2>1. up' => \A q \in Requests : runDisk'[q] = runEntry'[q]
    BY DEF Runs!Inv, Runs!FileInv, Runs!SomeDamage
  <2> QED
    BY <1>1, <2>1, RunFacts
<1> QED
  BY <1>1, <1>2, <1>3, <1>4, <1>5, <1>6 DEF RunsKept

-----------------------------------------------------------------------------
(* The requests.                                                           *)

\* A request nobody works on stays in order.
LEMMA RequestKept ==
  ASSUME NEW r \in Requests, RequestInv(r), RunsKept,
         step'[r] = step[r], reply'[r] = reply[r], records'[r] = records[r],
         opDisk'[r] = opDisk[r]
  PROVE  RequestInv(r)'
<1>1. Handled(r)' /\ Linked(r)'
  BY DEF RequestInv, Handled, Linked, RunsKept
<1>2. Written(r)' /\ Shown(r)'
  BY DEF RequestInv, Written, Shown, Tells, AsAnswered, RunsKept
<1> QED
  BY <1>1, <1>2 DEF RequestInv

\* A handler appends its operation as it answers.
LEMMA Recorded ==
  ASSUME NEW r \in Requests, Inv, up, RunsKept, NEW op \in Operation, AppendOp(r, op),
         step' = [step EXCEPT ![r] = "answered"], step[r] \notin {"answered", "over"},
         reply'[r] \in Answers \cup {"accepted"},
         reply' = [reply EXCEPT ![r] = reply'[r]],
         op.status \notin {"none", "damaged"},
         IF reply'[r] = "accepted" THEN op.ref /\ op.status = "running"
                                   ELSE op.status = reply'[r],
         op.ref => runDisk[r].status # "none",
         op.status = "running" => op.ref, op.error # "interrupted"
  PROVE  OperationTypeOK' /\ \A q \in Requests : RequestInv(q)'
<1>1. /\ records' = [records EXCEPT ![r] = op]
      /\ opDisk' = [opDisk EXCEPT ![r] = op] \/ opDisk' = opDisk
      /\ OperationTypeOK /\ opDisk[r] = Absent
  BY DEF AppendOp, Inv, RequestInv, Handled
<1>2. OperationTypeOK'
  BY <1>1 DEF OperationTypeOK
<1>3. /\ step'[r] = "answered" /\ records'[r] = op /\ opDisk'[r] \in {op, Absent}
      /\ \A q \in Requests \ {r} : /\ step'[q] = step[q] /\ reply'[q] = reply[q]
                                   /\ records'[q] = records[q] /\ opDisk'[q] = opDisk[q]
  BY <1>1 DEF OperationTypeOK
<1>4. Handled(r)' /\ Linked(r)'
  BY <1>1, <1>3 DEF Handled, Linked, RunsKept, Absent
<1>5. Written(r)'
  BY <1>3 DEF Written, Tells, Absent, Answers
<1>6. Shown(r)'
  BY <1>3 DEF Shown, AsAnswered
<1>7. \A q \in Requests \ {r} : RequestInv(q)'
  BY <1>3, RequestKept DEF Inv
<1> QED
  BY <1>2, <1>4, <1>5, <1>6, <1>7 DEF RequestInv

\* Only the runs, or the step and the reply of one handler, change.
LEMMA OnlyHandler ==
  ASSUME Inv, RunsKept, NEW r \in Requests, OperationTypeOK',
         UNCHANGED <<records, opDisk>>,
         \A q \in Requests \ {r} : step'[q] = step[q] /\ reply'[q] = reply[q],
         RequestInv(r)'
  PROVE  \A q \in Requests : RequestInv(q)'
<1>1. ASSUME NEW q \in Requests, q # r
      PROVE  RequestInv(q)'
  BY <1>1, RequestKept DEF Inv
<1> QED
  BY <1>1

\* A handler has written nothing before it answers.
LEMMA HandlerMoves ==
  ASSUME Inv, up, RunsKept, NEW r \in Requests, step[r] \notin {"answered", "over"},
         OperationTypeOK', UNCHANGED <<records, opDisk>>,
         step'[r] = "worked" => reply'[r] \in Answers,
         step'[r] = "submitted" => runPc'[r] # "none",
         step'[r] = "answered" => reply'[r] = "cleanup_failed",
         step'[r] # "over",
         \A q \in Requests \ {r} : step'[q] = step[q] /\ reply'[q] = reply[q]
  PROVE  \A q \in Requests : RequestInv(q)'
<1>1. opDisk'[r] = Absent /\ records'[r] = Absent
  BY DEF Inv, RequestInv, Handled
<1>2. Handled(r)' /\ Written(r)' /\ Shown(r)' /\ Linked(r)'
  BY <1>1 DEF Handled, Written, Shown, Linked, Absent, RunsKept
<1> QED
  BY <1>2, OnlyHandler DEF RequestInv

LEMMA HandlerInv ==
  ASSUME Inv, NEW r \in Requests,
         Work(r) \/ RecordWork(r) \/ CleanUp(r) \/ CleanUpFails(r) \/ RecordRun(r)
  PROVE  Inv'
<1>1. /\ up /\ UNCHANGED <<up, runVars>> /\ OperationTypeOK /\ RequestInv(r)
      /\ runDisk[r].status # "none" \/ runPc[r] = "none"
  BY RunFacts DEF Inv, Work, RecordWork, CleanUp, CleanUpFails, RecordRun, Advance
<1>2. RunsKept
  BY <1>1 DEF RunsKept, runVars
<1>3. Runs!Inv'
  <2>1. UNCHANGED Runs!vars
    BY <1>1 DEF Runs!vars, runVars
  <2>2. Runs!Inv /\ [Runs!Next]_(Runs!vars)
    BY <2>1 DEF Inv
  <2> QED
    BY <2>2, Runs!NextInv
<1>4. CASE Work(r)
  <2>1. PICK s \in Answers : reply' = [reply EXCEPT ![r] = s]
    BY <1>4 DEF Work, Answers
  <2>2. /\ step' = [step EXCEPT ![r] = "worked"] /\ step[r] = "idle"
        /\ UNCHANGED <<records, opDisk>>
    BY <1>4 DEF Work, Advance
  <2>3. OperationTypeOK'
    BY <1>1, <2>1, <2>2 DEF OperationTypeOK
  <2>4. \A q \in Requests : RequestInv(q)'
    BY <1>1, <1>2, <2>1, <2>2, <2>3, HandlerMoves DEF OperationTypeOK
  <2> QED
    BY <1>3, <2>3, <2>4 DEF Inv
<1>5. CASE CleanUp(r)
  <2>1. /\ step' = [step EXCEPT ![r] = "cleaned"] /\ step[r] = "idle"
        /\ UNCHANGED <<reply, records, opDisk>>
    BY <1>5 DEF CleanUp, Advance
  <2>2. OperationTypeOK'
    BY <1>1, <2>1 DEF OperationTypeOK
  <2>3. \A q \in Requests : RequestInv(q)'
    BY <1>1, <1>2, <2>1, <2>2, HandlerMoves DEF OperationTypeOK
  <2> QED
    BY <1>3, <2>2, <2>3 DEF Inv
<1>6. CASE CleanUpFails(r)
  <2>1. /\ step' = [step EXCEPT ![r] = "answered"] /\ step[r] = "idle"
        /\ reply' = [reply EXCEPT ![r] = "cleanup_failed"]
        /\ UNCHANGED <<records, opDisk>>
    BY <1>6 DEF CleanUpFails, Advance
  <2>2. OperationTypeOK'
    BY <1>1, <2>1 DEF OperationTypeOK
  <2>3. \A q \in Requests : RequestInv(q)'
    BY <1>1, <1>2, <2>1, <2>2, HandlerMoves DEF OperationTypeOK
  <2> QED
    BY <1>3, <2>2, <2>3 DEF Inv
<1>7. CASE RecordWork(r)
  <2> DEFINE op == [status |-> reply[r], ref |-> FALSE,
                    error |-> IF reply[r] = "failed" THEN "request" ELSE "none"]
  <2>1. /\ step' = [step EXCEPT ![r] = "answered"] /\ step[r] = "worked"
        /\ AppendOp(r, op) /\ reply' = reply
    BY <1>7 DEF RecordWork, Advance
  <2>2. reply[r] \in Answers
    BY <1>1, <2>1 DEF RequestInv, Handled
  <2>3. op \in Operation /\ op.status = reply[r] /\ op.ref = FALSE
        /\ op.error # "interrupted" /\ op.status # "running"
    BY <2>2 DEF Operation, Terminal, Answers
  <2>4. reply' = [reply EXCEPT ![r] = reply'[r]]
    BY <1>1, <2>1 DEF OperationTypeOK
  <2> HIDE DEF op
  <2>5. OperationTypeOK' /\ \A q \in Requests : RequestInv(q)'
    BY <1>1, <1>2, <2>1, <2>2, <2>3, <2>4, Recorded DEF Answers
  <2> QED
    BY <1>3, <2>5 DEF Inv
<1>8. CASE RecordRun(r)
  <2> DEFINE op == [status |-> "running", ref |-> TRUE, error |-> "none"]
  <2>1. /\ step' = [step EXCEPT ![r] = "answered"] /\ step[r] = "submitted"
        /\ AppendOp(r, op) /\ reply' = [reply EXCEPT ![r] = "accepted"]
    BY <1>8 DEF RecordRun, Advance
  <2>2. runPc[r] # "none"
    BY <1>1, <2>1 DEF RequestInv, Handled
  <2>3. op \in Operation /\ op.status = "running" /\ op.ref = TRUE
        /\ op.error # "interrupted"
    BY DEF Operation
  <2>4. reply'[r] = "accepted"
    BY <1>1, <2>1 DEF OperationTypeOK
  <2> HIDE DEF op
  <2>5. OperationTypeOK' /\ \A q \in Requests : RequestInv(q)'
    BY <1>1, <1>2, <2>1, <2>2, <2>3, <2>4, Recorded
  <2> QED
    BY <1>3, <2>5 DEF Inv
<1> QED
  BY <1>4, <1>5, <1>6, <1>7, <1>8

LEMMA RunsInv ==
  ASSUME Inv, NEW r \in Requests, SubmitRun(r) \/ RunStep(r)
  PROVE  Inv'
<1>1. OperationTypeOK /\ RequestInv(r)
  BY DEF Inv
<1>2. Runs!Next
  BY RunStepIsNext, SubmitIsNext DEF SubmitRun
<1>3. Runs!Inv'
  BY <1>2, Runs!NextInv DEF Inv
<1>4. ASSUME up
      PROVE  RunsKept
  BY <1>3, <1>4, RunStepKeepsRuns DEF SubmitRun, Inv
<1>5. CASE SubmitRun(r)
  <2>1. /\ up /\ step' = [step EXCEPT ![r] = "submitted"] /\ step[r] \in {"idle", "cleaned"}
        /\ UNCHANGED <<reply, records, opDisk>>
    BY <1>5 DEF SubmitRun, Advance
  <2>2. runPc'[r] # "none"
    <3>1. runPc = [q \in Requests |-> runPc[q]]
      BY RunFacts DEF Inv
    <3> QED
      BY <1>5, <3>1 DEF SubmitRun, R!SubmitSpec
  <2>3. OperationTypeOK'
    BY <1>1, <2>1 DEF OperationTypeOK
  <2>4. \A q \in Requests : RequestInv(q)'
    BY <1>1, <1>4, <2>1, <2>2, <2>3, HandlerMoves DEF OperationTypeOK
  <2> QED
    BY <1>3, <2>3, <2>4 DEF Inv
<1>6. CASE RunStep(r)
  <2>1. UNCHANGED <<step, reply, records, opDisk>>
    BY <1>6 DEF RunStep
  <2>2. up
    <3>1. ~up => runPc[r] = "none" /\ runCanceling[r] = 0
      <4>1. ~up => runEntry[r].status = "none" /\ runPc[r] = "none"
        BY DEF Inv, Runs!Inv, Runs!DownInv, Runs!Blank
      <4>2. runCanceling[r] \in Nat
        BY DEF Inv, Runs!Inv, Runs!TypeOK
      <4> QED
        BY <4>1, <4>2 DEF Inv, Runs!Inv, Runs!CancelInv
    <3> QED
      BY <1>6, <3>1 DEF RunStep, R!RunBegin, R!RunnerReturn, R!RunEnd, R!CancelRecord,
         R!CancelFire
  <2>3. \A q \in Requests : RequestInv(q)'
    BY <1>4, <2>1, <2>2, RequestKept DEF Inv
  <2>4. OperationTypeOK'
    BY <1>1, <2>1 DEF OperationTypeOK
  <2> QED
    BY <1>3, <2>3, <2>4 DEF Inv
<1> QED
  BY <1>5, <1>6

-----------------------------------------------------------------------------
(* The process.                                                            *)

LEMMA CrashInv ==
  ASSUME Inv, Crash
  PROVE  Inv'
<1>1. Runs!Inv' /\ OperationTypeOK
  BY CrashIsNext, Runs!NextInv DEF Inv, Crash
<1>2. /\ ~up' /\ UNCHANGED <<runDisk, reply, opDisk>>
      /\ \A r \in Requests :
           /\ records'[r] = Absent
           /\ step'[r] = CASE step[r] = "idle" -> "idle"
                           [] step[r] \in {"answered", "over"} -> "over"
                           [] OTHER -> "lost"
  BY DEF Crash, R!Crash
<1>3. OperationTypeOK'
  <2>1. Absent \in Operation
    BY DEF Absent, Operation
  <2> QED
    BY <1>1, <2>1 DEF OperationTypeOK, Crash
<1>4. ASSUME NEW r \in Requests
      PROVE  RequestInv(r)'
  <2>1. RequestInv(r)
    BY DEF Inv
  <2>2. Handled(r)'
    BY <1>2, <2>1 DEF RequestInv, Handled
  <2>3. Written(r)' /\ Shown(r)'
    BY <1>2, <2>1 DEF RequestInv, Written, Shown, Tells
  <2>4. Linked(r)'
    BY <1>2, <2>1 DEF RequestInv, Linked, Absent
  <2> QED
    BY <2>2, <2>3, <2>4 DEF RequestInv
<1> QED
  BY <1>1, <1>3, <1>4 DEF Inv

LEMMA DamageInv ==
  ASSUME Inv, NEW r \in Requests, Damage(r)
  PROVE  Inv'
<1>1. /\ UNCHANGED <<up, runVars, step, reply, records>> /\ OperationTypeOK /\ ~up
      /\ opDisk[r].status # "none" /\ opDisk' = [opDisk EXCEPT ![r] = Unreadable]
  BY DEF Damage, Inv, Unreadable
<1>2. Runs!Inv'
  <2>1. UNCHANGED Runs!vars
    BY <1>1 DEF Runs!vars, runVars
  <2>2. Runs!Inv /\ [Runs!Next]_(Runs!vars)
    BY <2>1 DEF Inv
  <2> QED
    BY <2>2, Runs!NextInv
<1>3. Unreadable \in Operation /\ Unreadable.ref = FALSE
  BY DEF Unreadable, Absent, Operation
<1>4. OperationTypeOK'
  BY <1>1, <1>3 DEF OperationTypeOK
<1>5. RunsKept
  BY <1>1 DEF RunsKept, runVars
<1>6. ASSUME NEW q \in Requests, q # r
      PROVE  RequestInv(q)'
  <2>1. opDisk'[q] = opDisk[q]
    BY <1>1, <1>6 DEF OperationTypeOK
  <2> QED
    BY <1>1, <1>5, <2>1, RequestKept DEF Inv
<1>7. RequestInv(r)'
  <2>1. opDisk'[r] = Unreadable /\ step[r] \in {"answered", "over"} /\ RequestInv(r)
    BY <1>1 DEF OperationTypeOK, Inv, RequestInv, Handled, Absent
  <2>2. Handled(r)' /\ Written(r)' /\ Shown(r)'
    BY <1>1, <2>1 DEF RequestInv, Handled, Written, Shown
  <2>3. Linked(r)'
    BY <1>1, <1>3, <2>1 DEF RequestInv, Linked, runVars
  <2> QED
    BY <2>2, <2>3 DEF RequestInv
<1> QED
  BY <1>2, <1>4, <1>6, <1>7 DEF Inv

\* What a restart makes of an operation.
LEMMA LoadedShape ==
  ASSUME NEW op \in Operation
  PROVE  /\ Loaded(op) \in Operation /\ Loaded(op).status # "running"
         /\ Loaded(op).ref => op.ref
         /\ op \in {Absent, Unreadable} => Loaded(op) = Absent
         /\ op.status \notin {"running", "damaged"} => Loaded(op) = op
         /\ op.status = "running" => /\ Loaded(op).ref = op.ref
                                     /\ Loaded(op).status = "failed"
                                     /\ Loaded(op).error = "interrupted"
<1>1. Absent \in Operation /\ Absent.status = "none" /\ Absent.ref = FALSE
      /\ Unreadable.status = "damaged"
  BY DEF Absent, Operation, Unreadable
<1>2. CASE op.status = "damaged"
  BY <1>1, <1>2 DEF Loaded
<1>3. CASE op.status = "running"
  BY <1>1, <1>3 DEF Loaded, Operation, Terminal
<1>4. CASE op.status \notin {"running", "damaged"}
  BY <1>1, <1>4 DEF Loaded
<1> QED
  BY <1>2, <1>3, <1>4

LEMMA RestartInv ==
  ASSUME Inv, Restart
  PROVE  Inv'
<1>1. Runs!Inv' /\ OperationTypeOK
  BY RestartIsNext, Runs!NextInv DEF Inv, Restart
<1>2. /\ up' /\ ~up /\ UNCHANGED <<step, reply, opDisk, runPc>>
      /\ \A r \in Requests : records'[r] = Loaded(opDisk[r])
  BY DEF Restart, R!Restart, R!goroutine
<1>3. OperationTypeOK'
  BY <1>1, LoadedShape DEF OperationTypeOK, Restart
<1>4. ASSUME NEW r \in Requests
      PROVE  RequestInv(r)'
  <2>1. RequestInv(r) /\ opDisk[r] \in Operation
    BY <1>1 DEF Inv, OperationTypeOK
  <2>2. step[r] # "answered"
    BY <1>2, <2>1 DEF RequestInv, Handled
  <2>3. Handled(r)' /\ Written(r)'
    BY <1>2, <2>1, LoadedShape DEF RequestInv, Handled, Written, Tells
  <2>4. reply[r] # "cleanup_failed" =>
          \/ AsAnswered(r)'
          \/ records'[r] = Absent /\ opDisk[r].status \in {"none", "damaged"}
    <3>1. CASE opDisk[r] \in {Absent, Unreadable}
      <4>1. Absent.status = "none" /\ Unreadable.status = "damaged"
        BY DEF Absent, Unreadable
      <4> QED
        BY <1>2, <2>1, <3>1, <4>1, LoadedShape
    <3>2. CASE opDisk[r] \notin {Absent, Unreadable} /\ reply[r] = "accepted"
      BY <1>2, <2>1, <3>2, LoadedShape DEF RequestInv, Written, Tells, AsAnswered
    <3>3. CASE opDisk[r] \notin {Absent, Unreadable} /\ reply[r] # "accepted"
      <4>1. opDisk[r].status = reply[r] /\ opDisk[r].status \notin {"none", "damaged"}
        BY <2>1, <3>3 DEF RequestInv, Written, Tells
      <4>2. opDisk[r].status # "running"
        BY <1>1, <4>1 DEF OperationTypeOK, Answers
      <4> QED
        BY <1>2, <2>1, <3>3, <4>1, <4>2, LoadedShape DEF AsAnswered
    <3> QED
      BY <3>1, <3>2, <3>3
  <2>5. Shown(r)'
    BY <1>2, <2>2, <2>4 DEF Shown
  <2>6. records'[r].error = "interrupted" => records'[r].ref /\ step[r] = "over"
    <3>1. opDisk[r] \in {Absent, Unreadable} => records'[r].error # "interrupted"
      BY <1>2, <2>1, LoadedShape DEF Absent
    <3>2. CASE opDisk[r] \notin {Absent, Unreadable}
      <4>1. step[r] \in {"answered", "over"}
        BY <2>1, <3>2 DEF RequestInv, Handled
      <4>2. CASE opDisk[r].status = "running"
        BY <1>2, <2>1, <2>2, <3>2, <4>1, <4>2, LoadedShape DEF RequestInv, Written
      <4>3. CASE opDisk[r].status # "running"
        BY <1>2, <2>1, <3>2, <4>3, LoadedShape DEF RequestInv, Written
      <4> QED
        BY <4>2, <4>3
    <3> QED
      BY <3>1, <3>2
  <2>7. runPc[r] = "none"
    BY <1>2, RunFacts DEF Inv, Runs!Inv, Runs!DownInv
  <2>8. Linked(r)'
    <3>1. runDisk[r].status # "none" => runDisk'[r].status # "none"
      <4>1. runDisk[r] \in Runs!Record /\ Runs!Sound(runDisk[r])
        BY DEF Inv, Runs!Inv, Runs!TypeOK, Runs!RecordsSound
      <4>2. Runs!Reloaded(runDisk[r]).status = runDisk[r].status
            \/ Runs!Reloaded(runDisk[r]).status = "failed"
        BY <4>1, Runs!ReloadedRecord
      <4>3. R!Reloaded(runDisk[r]) = Runs!Reloaded(runDisk[r])
        BY DEF R!Reloaded, Runs!Reloaded, R!LogEvent, Runs!LogEvent, R!Unfinished,
           Runs!Unfinished
      <4>4. \/ runDisk'[r] = runDisk[r]
            \/ runDisk'[r] = R!Reloaded(runDisk[r])
        BY DEF Restart, R!Restart
      <4> QED
        BY <4>2, <4>3, <4>4
    <3> QED
      BY <1>2, <2>1, <2>6, <2>7, <3>1, LoadedShape DEF RequestInv, Linked
  <2> QED
    BY <2>3, <2>5, <2>8 DEF RequestInv
<1> QED
  BY <1>1, <1>3, <1>4 DEF Inv

-----------------------------------------------------------------------------
(* The invariant, and what follows from it.                                *)

LEMMA InitInv == Init => Inv
<1> SUFFICES ASSUME Init PROVE Inv
  OBVIOUS
<1>1. Runs!Inv
  <2>1. Runs!Init
    BY DEF Init, R!Init, Runs!Init, R!Blank, Runs!Blank
  <2> QED
    BY <2>1, Runs!InitInv
<1>2. Absent \in Operation /\ Absent.ref = FALSE /\ Absent.status = "none"
      /\ Absent.error = "none"
  BY DEF Absent, Operation
<1>3. OperationTypeOK
  BY <1>2 DEF Init, OperationTypeOK
<1>4. ASSUME NEW r \in Requests
      PROVE  RequestInv(r)
  BY <1>2 DEF Init, RequestInv, Handled, Written, Shown, Linked
<1> QED
  BY <1>1, <1>3, <1>4 DEF Inv

LEMMA NextInv == Inv /\ [Next]_vars => Inv'
<1> SUFFICES ASSUME Inv, [Next]_vars PROVE Inv'
  OBVIOUS
<1>1. CASE \E r \in Requests :
             Work(r) \/ RecordWork(r) \/ CleanUp(r) \/ CleanUpFails(r) \/ RecordRun(r)
  BY <1>1, HandlerInv
<1>2. CASE \E r \in Requests : SubmitRun(r) \/ RunStep(r)
  BY <1>2, RunsInv
<1>3. CASE (\E r \in Requests : Damage(r)) \/ Crash \/ Restart
  BY <1>3, DamageInv, CrashInv, RestartInv
<1>4. CASE UNCHANGED vars
  <2>1. Runs!Inv'
    <3>1. UNCHANGED Runs!vars
      BY <1>4 DEF Runs!vars, vars, runVars
    <3>2. Runs!Inv /\ [Runs!Next]_(Runs!vars)
      BY <3>1 DEF Inv
    <3> QED
      BY <3>2, Runs!NextInv
  <2>2. RunsKept /\ UNCHANGED <<step, reply, records, opDisk>>
    BY <1>4 DEF RunsKept, vars, runVars
  <2>3. OperationTypeOK'
    BY <2>2 DEF Inv, OperationTypeOK
  <2>4. \A r \in Requests : RequestInv(r)'
    BY <2>2, RequestKept DEF Inv
  <2> QED
    BY <2>1, <2>3, <2>4 DEF Inv
<1> QED
  BY <1>1, <1>2, <1>3, <1>4 DEF Next

\* Every reachable state of the history is in order.
THEOREM InvHolds == Spec => []Inv
BY InitInv, NextInv, PTL DEF Spec

\* What refers to a run refers to one that is stored (RefsAreKnown): the
\* handlers append an operation after the submission has stored its run.
THEOREM RefsAreKnownHolds == Spec => []RefsAreKnown
<1>1. Inv => RefsAreKnown
  <2>1. ASSUME Inv, NEW r \in Requests, records[r].ref \/ opDisk[r].ref
        PROVE  R!Trusted(r).status # "none"
    <3>1. runDisk[r].status # "none"
      BY <2>1 DEF Inv, RequestInv, Linked
    <3>2. CASE up
      BY <2>1, <3>1, <3>2, RunFacts DEF Inv, R!Trusted
    <3>3. CASE ~up
      <4>1. runDisk[r] \in Runs!Record /\ Runs!Sound(runDisk[r])
        BY <2>1 DEF Inv, Runs!Inv, Runs!TypeOK, Runs!RecordsSound
      <4>2. Runs!Reloaded(runDisk[r]).status # "none"
        BY <3>1, <4>1, Runs!ReloadedRecord
      <4>3. R!Reloaded(runDisk[r]) = Runs!Reloaded(runDisk[r])
        BY DEF R!Reloaded, Runs!Reloaded, R!LogEvent, Runs!LogEvent, R!Unfinished,
           Runs!Unfinished
      <4> QED
        BY <3>3, <4>2, <4>3 DEF R!Trusted
    <3> QED
      BY <3>2, <3>3
  <2> QED
    BY <2>1 DEF RefsAreKnown
<1> QED
  BY <1>1, InvHolds, PTL

\* What a restart leaves is settled in both stores (RestartSettles): nothing
\* that load makes of a file is running, and of the runs only those go on whose
\* goroutine this process has started.
THEOREM RestartSettlesHolds == Spec => []RestartSettles
<1>1. ASSUME Inv, NEW r \in Requests
      PROVE  /\ records[r].status = "running" => step[r] = "answered"
             /\ records[r].error = "interrupted" => runEntry[r].status \in R!Terminal
  <2>1. Linked(r)
    BY <1>1 DEF Inv, RequestInv
  <2>2. CASE records[r].error = "interrupted"
    <3>1. runPc[r] = "none" /\ runEntry[r].status # "none"
      BY <1>1, <2>1, <2>2, RunFacts DEF Inv, Linked
    <3>2. runEntry[r].status \notin {"queued", "running", "damaged"}
      BY <1>1, <3>1 DEF Inv, Runs!Inv, Runs!GoroutineInv, Runs!FileInv
    <3>3. runEntry[r].status \in {"none", "damaged"} \cup Runs!Unfinished \cup Runs!Terminal
      BY <1>1 DEF Inv, Runs!Inv, Runs!TypeOK, Runs!Record
    <3> QED
      BY <2>1, <2>2, <3>1, <3>2, <3>3 DEF Linked, Runs!Unfinished, Runs!Terminal, R!Terminal
  <2> QED
    BY <2>1, <2>2 DEF Linked
<1>2. Inv => RestartSettles
  BY <1>1 DEF RestartSettles
<1> QED
  BY <1>2, InvHolds, PTL

\* What a client was told is on record, over crashes, unwritten files and
\* damaged ones (AnsweredIsRecorded): a file is lost alone.
THEOREM AnsweredIsRecordedHolds == Spec => []AnsweredIsRecorded
<1>1. Inv => AnsweredIsRecorded
  BY DEF Inv, RequestInv, Shown, AnsweredIsRecorded
<1> QED
  BY <1>1, InvHolds, PTL
===============================================================================
