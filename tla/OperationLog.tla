----------------------------- MODULE OperationLog -----------------------------
(***************************************************************************)
(* The history of dataset operations: internal/datasetops/ops.go and the   *)
(* handlers of internal/svc/svc.go that write to it.                       *)
(*                                                                         *)
(* A handler does its work first and appends one record of it afterwards.  *)
(* Import, schema update, delete and dry-run rebuild are over by then, so  *)
(* their record is terminal.  A rebuild submits a build_graph job and      *)
(* create_dataset a workflow: their record says "running", refers to the   *)
(* run, and is never written again.  The runs belong to the managers of    *)
(* internal/jobs and internal/workflows, which live and restart in the     *)
(* same process; here they are one instance of JobManager, R.              *)
(*                                                                         *)
(* Abstractions.  A request stands for its operation and, if it submits    *)
(* one, for its run.  What the work does to files is module DatasetFiles;  *)
(* here it is an outcome.  Requests rejected before their work (malformed  *)
(* JSON, no dataset name) are left out: they are no operations.  Record    *)
(* files are written with Save of JobManager's kind: a temporary file      *)
(* renamed into place, its errors ignored.                                 *)
(***************************************************************************)
EXTENDS Naturals, Sequences, FiniteSets

CONSTANTS
  Requests,        \* the requests, each handled once
  SaveMayFail,     \* persistLocked may fail to write a record
  DamageMayHappen  \* a record file may become unreadable

ASSUME OperationLogAssumption ==
  SaveMayFail \in BOOLEAN /\ DamageMayHappen \in BOOLEAN

VARIABLES
  up,                                                     \* the process
  runEntry, runDisk, runPc, runOutcome, runCanceling, runCtx,  \* the runs, R
  step,      \* where its handler is; "over": answered by an earlier process
  reply,     \* what it decided to answer
  records,   \* Store.records, volatile
  opDisk     \* the operation files, durable

runVars == <<runEntry, runDisk, runPc, runOutcome, runCanceling, runCtx>>
vars    == <<up, runVars, step, reply, records, opDisk>>

R == INSTANCE JobManager WITH
  Jobs <- Requests, Watched <- {}, ArtifactStatuses <- {"planned"},
  MaxEvents <- 0, MaxCancels <- 1, SaveMayFail <- FALSE,
  DamageMayHappen <- FALSE,
  entry <- runEntry, disk <- runDisk, pc <- runPc, outcome <- runOutcome,
  canceling <- runCanceling, ctxCanceled <- runCtx

\* isTerminal of ops.go.
Terminal == {"planned", "succeeded", "failed", "canceled"}

Operation == [status : {"none", "damaged", "running"} \cup Terminal,
              ref    : BOOLEAN,     \* refers to the run of its request
              error  : {"none", "request", "interrupted"}]

Absent == [status |-> "none", ref |-> FALSE, error |-> "none"]

Init ==
  /\ R!Init
  /\ step = [r \in Requests |-> "idle"]
  /\ reply = [r \in Requests |-> "none"]
  /\ records = [r \in Requests |-> Absent]
  /\ opDisk = [r \in Requests |-> Absent]

-----------------------------------------------------------------------------
(* Store.                                                                  *)

\* Store.Append: into the map and, if the disk takes it, into a file.
AppendOp(r, op) ==
  /\ records' = [records EXCEPT ![r] = op]
  /\ \/ opDisk' = [opDisk EXCEPT ![r] = op]
     \/ SaveMayFail /\ UNCHANGED opDisk

\* Mutant: load leaves running operations alone.
Loaded_AsStored(op) == IF op.status = "damaged" THEN Absent ELSE op

\* What load makes of one file: an unreadable one is skipped, an operation
\* that was running has failed.  The file is not rewritten.
Loaded(op) ==
  CASE op.status = "damaged" -> Absent
    [] op.status = "running" -> [op EXCEPT !.status = "failed",
                                           !.error = "interrupted"]
    [] OTHER -> op

-----------------------------------------------------------------------------
(* Handlers.                                                               *)

Advance(r, from, to) ==
  /\ up
  /\ step[r] = from
  /\ step' = [step EXCEPT ![r] = to]

\* handleImportDataset, handlePutDatasetSchema, handleDeleteDataset, and
\* handleRebuildDataset when it plans only or PlanRebuild refuses: the work
\* is done, or has failed.
Work(r) ==
  /\ Advance(r, "idle", "worked")
  /\ \E s \in {"planned", "succeeded", "failed"} :
       reply' = [reply EXCEPT ![r] = s]
  /\ UNCHANGED <<up, runVars, records, opDisk>>

\* ... and its operation is appended, whatever the outcome.
RecordWork(r) ==
  /\ Advance(r, "worked", "answered")
  /\ AppendOp(r, [status |-> reply[r], ref |-> FALSE,
                error |-> IF reply[r] = "failed" THEN "request" ELSE "none"])
  /\ UNCHANGED <<up, runVars, reply>>

\* handleRebuildDataset after a plan that may go ahead, overwriting outputs:
\* cleanupRebuildOutputs.
CleanUp(r) ==
  /\ Advance(r, "idle", "cleaned")
  /\ UNCHANGED <<up, runVars, reply, records, opDisk>>

\* It fails: the handler answers 500 and returns.
CleanUpFails(r) ==
  /\ Advance(r, "idle", "answered")
  /\ reply' = [reply EXCEPT ![r] = "cleanup_failed"]
  /\ UNCHANGED <<up, runVars, records, opDisk>>

\* Mutant: the operation is appended where the run should be submitted.
SubmitRun_RecordedFirst(r) ==
  /\ step[r] \in {"idle", "cleaned"}
  /\ Advance(r, step[r], "submitted")
  /\ AppendOp(r, [status |-> "running", ref |-> TRUE, error |-> "none"])
  /\ UNCHANGED <<up, runVars, reply>>

\* The build_graph job of a rebuild (at once when outputs are not to be
\* overwritten) or the create_dataset workflow is submitted, ...
SubmitRun(r) ==
  /\ step[r] \in {"idle", "cleaned"}
  /\ Advance(r, step[r], "submitted")
  /\ R!SubmitSpec(r)
  /\ UNCHANGED <<reply, records, opDisk>>

\* ... and its operation appended, while the run may be going on already.
RecordRun(r) ==
  /\ Advance(r, "submitted", "answered")
  /\ reply' = [reply EXCEPT ![r] = "accepted"]
  /\ AppendOp(r, [status |-> "running", ref |-> TRUE, error |-> "none"])
  /\ UNCHANGED <<up, runVars>>

-----------------------------------------------------------------------------
(* The runs, and the process.                                              *)

RunStep(r) ==
  /\ \/ R!RunBegin(r) \/ R!RunnerReturn(r) \/ R!RunEnd(r)
     \/ R!CancelRecord(r) \/ R!CancelFire(r)
  /\ UNCHANGED <<step, reply, records, opDisk>>

Crash ==
  /\ R!Crash
  /\ step' = [r \in Requests |->
                CASE step[r] = "idle" -> "idle"
                  [] step[r] \in {"answered", "over"} -> "over"
                  [] OTHER -> "lost"]
  /\ records' = [r \in Requests |-> Absent]
  /\ UNCHANGED <<reply, opDisk>>

\* External: an operation file becomes unreadable.
Damage(r) ==
  /\ DamageMayHappen
  /\ ~up
  /\ opDisk[r].status # "none"
  /\ opDisk' = [opDisk EXCEPT ![r] = [Absent EXCEPT !.status = "damaged"]]
  /\ UNCHANGED <<up, runVars, step, reply, records>>

\* Mutant: one unreadable file makes load give up.
Restart_AllOrNothing ==
  /\ R!Restart
  /\ records' = [r \in Requests |->
                   IF \E q \in Requests : opDisk[q].status = "damaged"
                   THEN Absent ELSE Loaded(opDisk[r])]
  /\ UNCHANGED <<step, reply, opDisk>>

\* NewService: the run managers load, and NewStore does.
Restart ==
  /\ R!Restart
  /\ records' = [r \in Requests |-> Loaded(opDisk[r])]
  /\ UNCHANGED <<step, reply, opDisk>>

Next ==
  \/ \E r \in Requests :
       \/ Work(r) \/ RecordWork(r) \/ CleanUp(r) \/ CleanUpFails(r)
       \/ SubmitRun(r) \/ RecordRun(r) \/ RunStep(r) \/ Damage(r)
  \/ Crash
  \/ Restart

Spec == Init /\ [][Next]_vars

-----------------------------------------------------------------------------
(* Properties.                                                             *)

\* An operation that refers to a run refers to one its manager knows, in
\* this process and, its file being readable, in every later one: the record
\* is written after the run was stored.
RefsAreKnown ==
  \A r \in Requests :
    records[r].ref \/ opDisk[r].ref => R!Trusted(r).status # "none"

\* Operations and runs are two stores that a restart settles one by one, and
\* they must agree: an operation shown as running was accepted by this very
\* process, and one that was declared interrupted has a run that is over.
\* Within a process it is only the run that is kept up to date: its operation
\* stays "running" when it ends.
RestartSettles ==
  \A r \in Requests :
    /\ records[r].status = "running" => step[r] = "answered"
    /\ records[r].error = "interrupted" => runEntry[r].status \in R!Terminal

\* What a client was told about a request is on record, in this process and
\* after restarts: an accepted run as running or interrupted, any other work
\* with the outcome that was answered.  After a restart a record whose file
\* was never written or got damaged is gone, and of a rebuild whose cleanup
\* failed there never was one.
AsAnswered(r) ==
  IF reply[r] = "accepted"
  THEN /\ records[r].ref
       /\ records[r].status = "running" \/ records[r].error = "interrupted"
  ELSE records[r].status = reply[r]

AnsweredIsRecorded ==
  up => \A r \in Requests : reply[r] # "cleanup_failed" =>
    /\ step[r] = "answered" => AsAnswered(r)
    /\ step[r] = "over" => \/ AsAnswered(r)
                           \/ records[r] = Absent
                                /\ opDisk[r].status \in {"none", "damaged"}
=============================================================================
