----------------------------- MODULE WorkflowRun -----------------------------
(***************************************************************************)
(* One workflow and the jobs it runs: internal/workflows/workflows.go and  *)
(* the three runners of internal/svc/svc.go (build_and_answer, benchmark,  *)
(* create_dataset), with waitForJob, the loop in which a runner watches    *)
(* its child job and its own context.                                      *)
(*                                                                         *)
(* Two instances of JobManager run side by side in one process: J manages  *)
(* the child jobs, W the workflow (workflows.go is the code of jobs.go     *)
(* over another record).  They share nothing but the process: each has its *)
(* own mutex and its own files, and the runner calls J between two         *)
(* critical sections of W.  Saves succeed and files stay readable here;    *)
(* what failing storage does to one manager is JobManager's subject.       *)
(*                                                                         *)
(* Abstractions.  A workflow starts at most one child per step name, so    *)
(* the name stands for the job id.  The events a child's own runner logs   *)
(* and the artifacts it updates are left out: no workflow step reads them. *)
(* The artifact updates of a step and the artifact_handoff event,          *)
(* consecutive calls of the recorder, are one action.  Steps and artifacts *)
(* are stored with the workflow's record and survive a crash as it does.   *)
(***************************************************************************)
EXTENDS Naturals, Sequences, FiniteSets

CONSTANTS
  Plan,      \* the step names of the workflow, one of those below
  MaxPolls,  \* polls of waitForJob after it canceled its child (200)
  ClientCancels  \* bound: cancel requests a client sends to one child job

ImportStep == "dataset_import"     \* the only step that is not a job

\* The steps of the workflow types, as their runners submit them.
BuildAndAnswer    == <<"build_graph", "answer">>
CreateDataset     == <<"parse_documents", ImportStep, "build_graph">>
Benchmark         == <<"benchmark">>
BuildAndBenchmark == <<"build_graph", "benchmark">>    \* spec.BuildFirst

ASSUME WorkflowRunAssumption ==
  /\ Plan \in {BuildAndAnswer, CreateDataset, Benchmark, BuildAndBenchmark}
  /\ MaxPolls \in Nat \ {0}
  /\ ClientCancels \in Nat

Steps    == {Plan[i] : i \in DOMAIN Plan}
Children == Steps \ {ImportStep}
wf       == "workflow"

VARIABLES
  up,                                            \* the service process
  jobEntry, jobDisk, jobPc, jobOutcome, jobCanceling, jobCtx,    \* manager J
  wfEntry, wfDisk, wfPc, wfOutcome, wfCanceling, wfCtx,          \* manager W
  at,        \* where the runner is: step index, label, polls done
  seen,      \* the job snapshot the runner holds: status last read
  waitErr,   \* waitForJob returned ctx.Err()
  steps,     \* workflow.Steps: status recorded for each step
  written    \* workflow artifacts: steps whose outputs are marked written

jobVars == <<jobEntry, jobDisk, jobPc, jobOutcome, jobCanceling, jobCtx>>
wfVars  == <<wfEntry, wfDisk, wfPc, wfOutcome, wfCanceling, wfCtx>>
runner  == <<at, seen, waitErr>>
stored  == <<steps, written>>
vars    == <<up, jobVars, wfVars, runner, stored>>

J == INSTANCE JobManager WITH
  Jobs <- Children, Watched <- {}, ArtifactStatuses <- {"planned"}, MaxEvents <- 0,
  MaxCancels <- ClientCancels + 1, SaveMayFail <- FALSE,
  DamageMayHappen <- FALSE,
  entry <- jobEntry, disk <- jobDisk, pc <- jobPc, outcome <- jobOutcome,
  canceling <- jobCanceling, ctxCanceled <- jobCtx

W == INSTANCE JobManager WITH
  Jobs <- {wf}, Watched <- {}, ArtifactStatuses <- {"planned"}, MaxEvents <- 0,
  MaxCancels <- 1, SaveMayFail <- FALSE, DamageMayHappen <- FALSE,
  entry <- wfEntry, disk <- wfDisk, pc <- wfPc, outcome <- wfOutcome,
  canceling <- wfCanceling, ctxCanceled <- wfCtx

Terminal == J!Terminal

Idle == [step |-> 1, label |-> "submit", polls |-> 0]

Init ==
  /\ J!Init
  /\ W!Init
  /\ at = Idle
  /\ seen = "none"
  /\ waitErr = FALSE
  /\ steps = [s \in Steps |-> "none"]
  /\ written = {}

-----------------------------------------------------------------------------
(* The workflow manager.                                                   *)

\* handleCreateWorkflow and Manager.SubmitSpec.
SubmitWorkflow ==
  /\ W!SubmitSpec(wf)
  /\ UNCHANGED <<jobVars, runner, stored>>

\* Manager.run, up to the call of the runner.
BeginWorkflow ==
  /\ W!RunBegin(wf)
  /\ UNCHANGED <<jobVars, runner, stored>>

\* Manager.run, after the runner returned.
EndWorkflow ==
  /\ W!RunEnd(wf)
  /\ UNCHANGED <<jobVars, runner, stored>>

\* handleCancelWorkflow: the acknowledged half, then cancel().
CancelWorkflow ==
  /\ W!CancelRecord(wf)
  /\ UNCHANGED <<jobVars, runner, stored>>

CancelWorkflowContext ==
  /\ W!CancelFire(wf)
  /\ UNCHANGED <<jobVars, runner, stored>>

-----------------------------------------------------------------------------
(* The runner.  It lives while W has the workflow's goroutine "running".   *)

Step == Plan[at.step]

At(label) ==
  /\ wfPc[wf] = "running"
  /\ at.label = label

Goto(label) == at' = [at EXCEPT !.label = label]

\* upsertStep: the step's new status, and an event, in one critical section.
UpsertStep(s, status) ==
  /\ steps' = [steps EXCEPT ![s] = status]
  /\ W!AddEvent(wf)
  /\ UNCHANGED <<up, wfPc, wfOutcome, wfCanceling, wfCtx, written>>

\* submit...Job: the child is queued whatever became of the context.
SubmitChild ==
  /\ At("submit")
  /\ Step # ImportStep
  /\ J!SubmitSpec(Step)
  /\ Goto("snapshot")
  /\ UNCHANGED <<wfVars, seen, waitErr, stored>>

\* The Get with which SubmitSpec ends: the child may be running by now.
SnapshotChild ==
  /\ At("snapshot")
  /\ seen' = jobEntry[Step].status
  /\ Goto("started")
  /\ UNCHANGED <<up, jobVars, wfVars, waitErr, stored>>

StepStarted ==
  /\ At("started")
  /\ UpsertStep(Step, seen)
  /\ Goto("get")
  /\ UNCHANGED <<jobVars, seen, waitErr>>

\* waitForJob: read the child; a terminal child ends the wait without an
\* error, even if the context has been canceled meanwhile.
GetChild ==
  /\ At("get")
  /\ IF jobEntry[Step].status \in Terminal
     THEN seen' = jobEntry[Step].status /\ Goto("finish")
     ELSE UNCHANGED seen /\ Goto("select")
  /\ UNCHANGED <<up, jobVars, wfVars, waitErr, stored>>

\* select: the ticker is ready every 10ms, ctx.Done() once canceled; with
\* both ready Go picks either.
SelectTick ==
  /\ At("select")
  /\ Goto("get")
  /\ UNCHANGED <<up, jobVars, wfVars, seen, waitErr, stored>>

\* Mutant: the wait ends with ctx.Err() and the child is left alone.
SelectDone_NoCancel ==
  /\ At("select")
  /\ wfCtx[wf]
  /\ seen' = jobEntry[Step].status
  /\ waitErr' = TRUE
  /\ Goto("finish")
  /\ UNCHANGED <<up, jobVars, wfVars, stored>>

SelectDone ==
  /\ At("select")
  /\ wfCtx[wf]
  /\ Goto("cancel_child")
  /\ UNCHANGED <<up, jobVars, wfVars, seen, waitErr, stored>>

\* jobs.Cancel, first half; it does nothing to a job that just ended.
CancelChild ==
  /\ At("cancel_child")
  /\ \/ J!CancelRecord(Step) /\ Goto("fire")
     \/ /\ jobEntry[Step].status \in Terminal
        /\ Goto("poll")
        /\ UNCHANGED <<up, jobVars>>
  /\ UNCHANGED <<wfVars, seen, waitErr, stored>>

\* jobs.Cancel, second half.
FireChild ==
  /\ At("fire")
  /\ J!CancelFire(Step)
  /\ Goto("poll")
  /\ UNCHANGED <<wfVars, seen, waitErr, stored>>

\* Mutant: there is no limit to the polls.
Poll_UntilEnded ==
  /\ At("poll")
  /\ jobEntry[Step].status \in Terminal
  /\ seen' = jobEntry[Step].status
  /\ waitErr' = TRUE
  /\ Goto("finish")
  /\ UNCHANGED <<up, jobVars, wfVars, stored>>

\* The polls after the cancel: until the child is terminal, MaxPolls times
\* at most, and a last look at it as it then is.
Poll ==
  /\ At("poll")
  /\ IF jobEntry[Step].status \in Terminal \/ at.polls = MaxPolls
     THEN /\ seen' = jobEntry[Step].status
          /\ waitErr' = TRUE
          /\ Goto("finish")
     ELSE /\ at' = [at EXCEPT !.polls = @ + 1]
          /\ UNCHANGED <<seen, waitErr>>
  /\ UNCHANGED <<up, jobVars, wfVars, stored>>

\* Mutants: only an error of the wait stops the runner, not a failed child;
\* the step is recorded as succeeded whatever the snapshot says.
StepFinished_IgnoresStatus ==
  /\ At("finish")
  /\ UpsertStep(Step, seen)
  /\ Goto(IF ~waitErr THEN "handoff" ELSE "error")
  /\ UNCHANGED <<jobVars, seen, waitErr>>

StepFinished_AlwaysSucceeded ==
  /\ At("finish")
  /\ UpsertStep(Step, "succeeded")
  /\ Goto(IF ~waitErr /\ seen = "succeeded" THEN "handoff" ELSE "error")
  /\ UNCHANGED <<jobVars, seen, waitErr>>

\* StepFinished copies the status of the snapshot, terminal or not.  The
\* runner goes on only without an error and with a succeeded child.
StepFinished ==
  /\ At("finish")
  /\ UpsertStep(Step, seen)
  /\ Goto(IF ~waitErr /\ seen = "succeeded" THEN "handoff" ELSE "error")
  /\ UNCHANGED <<jobVars, seen, waitErr>>

\* dataset_import is synchronous: its step is recorded as running, the files
\* are imported, corpus, schema and metadata marked written, and the step
\* recorded with its result.  Nothing here looks at the context.
StartImport ==
  /\ At("submit")
  /\ Step = ImportStep
  /\ UpsertStep(Step, "running")
  /\ Goto("import")
  /\ UNCHANGED <<jobVars, seen, waitErr>>

Import ==
  /\ At("import")
  /\ \/ seen' = "succeeded" /\ written' = written \cup {ImportStep}
     \/ seen' = "failed" /\ UNCHANGED written
  /\ Goto("finish")
  /\ UNCHANGED <<up, jobVars, wfVars, waitErr, steps>>

\* After a successful step: its artifacts are written (those of the import
\* already are), artifact_handoff is logged, and the next step begins; after
\* the last one the runner returns its result.
HandOff ==
  /\ At("handoff")
  /\ written' = written \cup {Step}
  /\ IF at.step < Len(Plan)
     THEN /\ W!AddEvent(wf)
          /\ at' = [Idle EXCEPT !.step = at.step + 1]
     ELSE /\ Goto("result")
          /\ UNCHANGED <<wfEntry, wfDisk>>
  /\ UNCHANGED <<up, jobVars, wfPc, wfOutcome, wfCanceling, wfCtx, seen,
                 waitErr, steps>>

Return ==
  /\ at.label \in {"result", "error"}
  /\ W!RunnerReturn(wf)
  /\ wfOutcome'[wf] = IF at.label = "result" THEN "ok" ELSE "error"
  /\ UNCHANGED <<jobVars, runner, stored>>

-----------------------------------------------------------------------------
(* The child jobs, their clients, and the process.                         *)

ChildBegin(c)  == J!RunBegin(c)     /\ UNCHANGED <<wfVars, runner, stored>>
ChildReturn(c) == J!RunnerReturn(c) /\ UNCHANGED <<wfVars, runner, stored>>
ChildEnd(c)    == J!RunEnd(c)       /\ UNCHANGED <<wfVars, runner, stored>>

\* handleCancelJob: anybody may cancel a child directly.
CancelJob(c) ==
  /\ J!CountEvents(jobEntry[c], "cancel_requested") < ClientCancels
  /\ J!CancelRecord(c)
  /\ UNCHANGED <<wfVars, runner, stored>>

\* cancel() of such a client; the runner calls its own in FireChild.
OwedByRunner(c) == IF At("fire") /\ Step = c THEN 1 ELSE 0

CancelJobContext(c) ==
  /\ jobCanceling[c] > OwedByRunner(c)
  /\ J!CancelFire(c)
  /\ UNCHANGED <<wfVars, runner, stored>>

Crash ==
  /\ J!Crash
  /\ W!Crash
  /\ at' = Idle
  /\ seen' = "none"
  /\ waitErr' = FALSE
  /\ UNCHANGED stored

\* NewService loads the jobs, then the workflows, then serves.
Restart ==
  /\ J!Restart
  /\ W!Restart
  /\ UNCHANGED <<runner, stored>>

RunnerStep ==
  \/ SubmitChild \/ SnapshotChild \/ StepStarted \/ GetChild \/ SelectTick
  \/ SelectDone \/ CancelChild \/ FireChild \/ Poll \/ StepFinished
  \/ StartImport \/ Import \/ HandOff \/ Return

ManagerStep ==
  \/ SubmitWorkflow \/ BeginWorkflow \/ EndWorkflow \/ CancelWorkflow
  \/ CancelWorkflowContext

ChildStep(c) ==
  \/ ChildBegin(c) \/ ChildReturn(c) \/ ChildEnd(c) \/ CancelJob(c)
  \/ CancelJobContext(c)

Next ==
  \/ RunnerStep
  \/ ManagerStep
  \/ \E c \in Children : ChildStep(c)
  \/ Crash
  \/ Restart

Spec == Init /\ [][Next]_vars

(***************************************************************************)
(* Fairness.  Goroutines that can run are scheduled.  The select of        *)
(* waitForJob picks uniformly among its ready cases, so ctx.Done() is not  *)
(* passed over forever: that is strong fairness, for weak fairness lets    *)
(* the ticker win every time.  About the workers nothing is assumed: they  *)
(* may hang, even when canceled.  WorkerFairness, the premise of one       *)
(* property, is that a canceled worker ends (exec.CommandContext kills     *)
(* it).                                                                    *)
(***************************************************************************)
Fairness ==
  /\ WF_vars(RunnerStep)
  /\ SF_vars(SelectDone)
  /\ WF_vars(BeginWorkflow)
  /\ WF_vars(EndWorkflow)
  /\ WF_vars(CancelWorkflowContext)

WorkerFairness ==
  \A c \in Children :
    /\ WF_vars(ChildBegin(c))
    /\ WF_vars(jobCtx[c] /\ ChildReturn(c))
    /\ WF_vars(ChildEnd(c))
    /\ WF_vars(CancelJobContext(c))

FairSpec == Spec /\ Fairness

-----------------------------------------------------------------------------
(* Properties.                                                             *)

\* A step whose work is done and succeeded, as its own record tells.
Succeeded(s) ==
  IF s = ImportStep THEN steps[s] = "succeeded"
                    ELSE J!Trusted(s).status = "succeeded"

\* No child job exists unless every step before it succeeded: a failed,
\* canceled or interrupted step is the last one, across crashes too.
StepsInOrder ==
  \A i \in DOMAIN Plan :
    Plan[i] \in Children /\ J!Trusted(Plan[i]).status # "none" =>
      \A k \in 1 .. (i - 1) : Succeeded(Plan[k])

\* A succeeded workflow has done and recorded all of its plan.  What the
\* workflow's record says of a child that ended is what the child's record
\* says, in this process and in every later one, and the artifacts of a step
\* are marked written only if the step succeeded, or was an import that did
\* not live to record it.
SuccessIsEarned ==
  /\ W!Trusted(wf).status = "succeeded" =>
       \A s \in Steps : Succeeded(s) /\ steps[s] = "succeeded" /\ s \in written
  /\ \A c \in Children :
       /\ steps[c] \in Terminal => J!Trusted(c).status = steps[c]
       /\ c \in written => Succeeded(c)
  /\ ImportStep \in written => steps[ImportStep] \in {"running", "succeeded"}

\* When a workflow has ended, no child of it is still at work, but one that
\* waitForJob canceled and gave up on after MaxPolls polls; such a child has
\* its cancellation pending and the workflow was itself canceled.
NoChildOutlivesWorkflow ==
  (up /\ wfEntry[wf].status \in Terminal) =>
    \A c \in Children :
      jobEntry[c].status \in J!Unfinished =>
        /\ wfEntry[wf].status = "canceled"
        /\ jobCtx[c]

\* The workflow manager keeps the promises of Lifecycle, whatever its runner
\* does with jobs in between.
WorkflowLifecycle == W!ImplementsLifecycle

\* An acknowledged cancel ends the workflow while the process lives, even if
\* its worker hangs: no wait of the runner is unbounded once canceled.
CancelEndsWorkflow ==
  J!CancelRequested(wfEntry[wf]) ~> (wfEntry[wf].status \in Terminal \/ ~up)

\* The cancellation of a workflow reaches the child it is waiting for, and
\* the child ends, if canceled workers do.
CancelReachesChild ==
  WorkerFairness =>
    \A c \in Children :
      (wfCtx[wf] /\ jobEntry[c].status \in J!Unfinished)
        ~> (jobEntry[c].status \in Terminal \/ ~up)

\* "If cancellation happens between steps, do not submit the next step", and
\* of the import, "if it has not started, skip it".
NoStepAfterCancel ==
  [][wfCtx[wf] /\ At("submit") /\ at.step > 1
       => at'.label \notin {"snapshot", "import"}]_vars
=============================================================================
