--------------------------- MODULE WorkflowRunProofs ---------------------------
(***************************************************************************)
(* Proofs about WorkflowRun, for each of its plans, any limit of polls and *)
(* any number of clients that cancel a child.                              *)
(*                                                                         *)
(* The steps of the children and of the workflow are steps of their two    *)
(* managers, so that the theorems of JobManagerProofs hold of both; they   *)
(* are used here under the names Child and Flow.  Inv adds how the plan    *)
(* stands: which steps are done, which are untouched, and what the runner  *)
(* knows of the one between.                                               *)
(***************************************************************************)
EXTENDS WorkflowRun, TLAPS

Child == INSTANCE JobManagerProofs WITH
  Jobs <- Children, Watched <- {}, ArtifactStatuses <- {"planned"}, MaxEvents <- 0,
  MaxCancels <- ClientCancels + 1, SaveMayFail <- FALSE,
  DamageMayHappen <- FALSE,
  entry <- jobEntry, disk <- jobDisk, pc <- jobPc, outcome <- jobOutcome,
  canceling <- jobCanceling, ctxCanceled <- jobCtx

Flow == INSTANCE JobManagerProofs WITH
  Jobs <- {wf}, Watched <- {}, ArtifactStatuses <- {"planned"}, MaxEvents <- 0,
  MaxCancels <- 1, SaveMayFail <- FALSE, DamageMayHappen <- FALSE,
  entry <- wfEntry, disk <- wfDisk, pc <- wfPc, outcome <- wfOutcome,
  canceling <- wfCanceling, ctxCanceled <- wfCtx

Unfinished == {"queued", "running"}
Ended      == {"succeeded", "failed", "canceled"}
Statuses   == {"none", "queued", "running", "succeeded", "failed", "canceled"}

Labels == {"submit", "snapshot", "started", "get", "select", "cancel_child", "fire",
           "poll", "finish", "import", "handoff", "result", "error"}

WorkflowTypeOK ==
  /\ at \in [step : DOMAIN Plan, label : Labels, polls : Nat]
  /\ seen \in Statuses
  /\ waitErr \in BOOLEAN
  /\ steps \in [Steps -> Statuses]
  /\ written \in SUBSET Steps

\* The status a client may rely on, of a child and of the workflow.
Now(c) == Child!Trusted(c).status
FlowNow == Flow!Trusted(wf).status

Done(s) ==
  /\ s \in Children => Now(s) = "succeeded"
  /\ steps[s] = "succeeded"
  /\ s \in written

Untouched(s) ==
  /\ s \in Children => Now(s) = "none"
  /\ steps[s] = "none"
  /\ s \notin written

\* The records of workflow and child do not contradict each other.
Agrees(s) ==
  /\ s = ImportStep => (s \in written => steps[s] \in {"running", "succeeded"})
  /\ s \in Children => /\ steps[s] \in Ended => Now(s) = steps[s]
                       /\ s \in written => Now(s) = "succeeded"

\* The plan is done up to its p-th step, and untouched behind it.
Stands(p) ==
  \A i \in DOMAIN Plan :
    /\ i < p => Done(Plan[i])
    /\ i = p => Agrees(Plan[i])
    /\ i > p => Untouched(Plan[i])

\* What the runner knows of the step it is at.
Waits(s) ==
  /\ at.label = "submit" => Untouched(s) /\ ~waitErr
  /\ at.label = "snapshot" => s \in Children /\ ~waitErr /\ s \notin written
  /\ at.label = "started" =>
       /\ s \in Children /\ ~waitErr /\ s \notin written
       /\ seen \in Ended => Now(s) = seen
  /\ at.label \in {"get", "select"} => s \in Children /\ ~waitErr /\ s \notin written
  /\ at.label \in {"cancel_child", "fire"} =>
       s \in Children /\ ~waitErr /\ s \notin written /\ wfCtx[wf]
  /\ at.label = "poll" =>
       /\ s \in Children /\ ~waitErr /\ s \notin written /\ wfCtx[wf]
       /\ Now(s) \in Unfinished => jobCtx[s]
  /\ at.label = "import" =>
       s = ImportStep /\ ~waitErr /\ steps[s] = "running" /\ s \notin written
  /\ at.label = "finish" =>
       /\ s = ImportStep => ~waitErr /\ (s \in written <=> seen = "succeeded")
       /\ s \in Children =>
            /\ s \notin written
            /\ seen \in Ended => Now(s) = seen
            /\ Now(s) \in Unfinished => wfCtx[wf] /\ jobCtx[s]
  /\ at.label = "handoff" =>
       /\ ~waitErr /\ steps[s] = "succeeded"
       /\ s \in Children => Now(s) = "succeeded"
  /\ at.label = "result" => at.step = Len(Plan) /\ Done(s)
  /\ at.label = "error" =>
       (s \in Children /\ Now(s) \in Unfinished => wfCtx[wf] /\ jobCtx[s])

\* Before the runner has begun, and after its process died.
Resting ==
  /\ wfPc[wf] \in {"none", "spawned"} => at = Idle /\ ~waitErr
  /\ FlowNow = "none" \/ wfPc[wf] = "spawned" => Stands(1) /\ Untouched(Plan[1])
  /\ wfPc[wf] = "none" =>
       /\ \E p \in DOMAIN Plan : Stands(p)
       /\ up => \A c \in Children : Now(c) \notin Unfinished

\* From the beginning of the runner to the end of its process.
Working ==
  /\ wfPc[wf] \in {"running", "returned", "done"} => Stands(at.step) /\ Waits(Step)
  /\ wfPc[wf] \in {"returned", "done"} => at.label \in {"result", "error"}
  /\ wfPc[wf] = "returned" /\ wfOutcome[wf] # "error" => at.label = "result"
  /\ wfPc[wf] = "done" =>
       \A c \in Children : Now(c) \in Unfinished => wfEntry[wf].status = "canceled"

Earned == FlowNow = "succeeded" => \A i \in DOMAIN Plan : Done(Plan[i])

Inv == Child!Inv /\ Flow!Inv /\ WorkflowTypeOK /\ Resting /\ Working /\ Earned

-----------------------------------------------------------------------------
(* The plan and the two managers.                                          *)

LEMMA PlanFacts ==
  /\ Len(Plan) \in Nat \ {0} /\ DOMAIN Plan = 1 .. Len(Plan)
  /\ \A i, k \in DOMAIN Plan : Plan[i] = Plan[k] => i = k
  /\ \A i \in DOMAIN Plan : Plan[i] \in Steps
  /\ \A s \in Steps : \E i \in DOMAIN Plan : s = Plan[i]
  /\ \A s \in Steps : s \in Children <=> s # ImportStep
<1>1. CASE Plan = BuildAndAnswer
  BY <1>1 DEF BuildAndAnswer, Steps, Children
<1>2. CASE Plan = CreateDataset
  BY <1>2 DEF CreateDataset, Steps, Children, ImportStep
<1>3. CASE Plan = Benchmark
  BY <1>3 DEF Benchmark, Steps, Children
<1>4. CASE Plan = BuildAndBenchmark
  BY <1>4 DEF BuildAndBenchmark, Steps, Children
<1> QED
  BY <1>1, <1>2, <1>3, <1>4, WorkflowRunAssumption

\* The two names of each manager mean the same.
LEMMA ChildActions ==
  ASSUME NEW c \in Children
  PROVE  /\ J!SubmitSpec(c) => Child!SubmitSpec(c)
         /\ J!RunBegin(c) => Child!RunBegin(c)
         /\ J!RunnerReturn(c) => Child!RunnerReturn(c)
         /\ J!RunEnd(c) => Child!RunEnd(c)
         /\ J!CancelRecord(c) => Child!CancelRecord(c)
         /\ J!CancelFire(c) => Child!CancelFire(c)
<1> USE DEF J!UpdateEntry, Child!UpdateEntry, J!Persist, Child!Persist, J!LogEvent,
            Child!LogEvent
<1>1. J!SubmitSpec(c) => Child!SubmitSpec(c)
  BY DEF J!SubmitSpec, Child!SubmitSpec, J!Blank, Child!Blank
<1>2. J!RunBegin(c) => Child!RunBegin(c)
  BY DEF J!RunBegin, Child!RunBegin
<1>3. J!RunnerReturn(c) => Child!RunnerReturn(c)
  BY DEF J!RunnerReturn, Child!RunnerReturn
<1>4. J!RunEnd(c) => Child!RunEnd(c)
  BY DEF J!RunEnd, Child!RunEnd, J!Finished, Child!Finished
<1>5. J!CancelRecord(c) => Child!CancelRecord(c)
  <2>1. \A rec, type : J!CountEvents(rec, type) = Child!CountEvents(rec, type)
    BY DEF J!CountEvents, Child!CountEvents, J!Cardinality, Child!Cardinality
  <2> QED
    BY <2>1 DEF J!CancelRecord, Child!CancelRecord, J!Unfinished, Child!Unfinished
<1>6. J!CancelFire(c) => Child!CancelFire(c)
  BY DEF J!CancelFire, Child!CancelFire
<1> QED
  BY <1>1, <1>2, <1>3, <1>4, <1>5, <1>6

LEMMA FlowActions ==
  /\ W!SubmitSpec(wf) => Flow!SubmitSpec(wf)
  /\ W!RunBegin(wf) => Flow!RunBegin(wf)
  /\ W!RunnerReturn(wf) => Flow!RunnerReturn(wf)
  /\ W!RunEnd(wf) => Flow!RunEnd(wf)
  /\ W!CancelRecord(wf) => Flow!CancelRecord(wf)
  /\ W!CancelFire(wf) => Flow!CancelFire(wf)
  /\ W!AddEvent(wf) => Flow!AddEvent(wf)
<1> USE DEF W!UpdateEntry, Flow!UpdateEntry, W!Persist, Flow!Persist, W!LogEvent,
            Flow!LogEvent
<1>1. W!SubmitSpec(wf) => Flow!SubmitSpec(wf)
  BY DEF W!SubmitSpec, Flow!SubmitSpec, W!Blank, Flow!Blank
<1>2. W!RunBegin(wf) => Flow!RunBegin(wf)
  BY DEF W!RunBegin, Flow!RunBegin
<1>3. W!RunnerReturn(wf) => Flow!RunnerReturn(wf)
  BY DEF W!RunnerReturn, Flow!RunnerReturn
<1>4. W!RunEnd(wf) => Flow!RunEnd(wf)
  BY DEF W!RunEnd, Flow!RunEnd, W!Finished, Flow!Finished
<1>5. W!CancelRecord(wf) => Flow!CancelRecord(wf)
  <2>1. \A rec, type : W!CountEvents(rec, type) = Flow!CountEvents(rec, type)
    BY DEF W!CountEvents, Flow!CountEvents, W!Cardinality, Flow!Cardinality
  <2> QED
    BY <2>1 DEF W!CancelRecord, Flow!CancelRecord, W!Unfinished, Flow!Unfinished
<1>6. W!CancelFire(wf) => Flow!CancelFire(wf)
  BY DEF W!CancelFire, Flow!CancelFire
<1>7. W!AddEvent(wf) => Flow!AddEvent(wf)
  BY DEF W!AddEvent, Flow!AddEvent
<1> QED
  BY <1>1, <1>2, <1>3, <1>4, <1>5, <1>6, <1>7

LEMMA ProcessActions ==
  /\ J!Crash => Child!Crash
  /\ J!Restart => Child!Restart
  /\ W!Crash => Flow!Crash
  /\ W!Restart => Flow!Restart
<1>1. J!Crash => Child!Crash
  BY DEF J!Crash, Child!Crash, J!Blank, Child!Blank
<1>2. W!Crash => Flow!Crash
  BY DEF W!Crash, Flow!Crash, W!Blank, Flow!Blank
<1>3. J!Restart => Child!Restart
  <2>1. \A rec : J!Reloaded(rec) = Child!Reloaded(rec)
    BY DEF J!Reloaded, Child!Reloaded, J!LogEvent, Child!LogEvent, J!Unfinished,
       Child!Unfinished
  <2> QED
    BY <2>1 DEF J!Restart, Child!Restart, J!Blank, Child!Blank, J!Loadable,
       Child!Loadable, J!goroutine, Child!goroutine
<1>4. W!Restart => Flow!Restart
  <2>1. \A rec : W!Reloaded(rec) = Flow!Reloaded(rec)
    BY DEF W!Reloaded, Flow!Reloaded, W!LogEvent, Flow!LogEvent, W!Unfinished,
       Flow!Unfinished
  <2> QED
    BY <2>1 DEF W!Restart, Flow!Restart, W!Blank, Flow!Blank, W!Loadable,
       Flow!Loadable, W!goroutine, Flow!goroutine
<1> QED
  BY <1>1, <1>2, <1>3, <1>4

\* What the managers' invariants say of the statuses.
ChildSense ==
  /\ up \in BOOLEAN
  /\ jobEntry = [c \in Children |-> jobEntry[c]]
  /\ jobPc = [c \in Children |-> jobPc[c]]
  /\ jobCtx \in [Children -> BOOLEAN]
  /\ \A c \in Children :
       /\ Now(c) \in Statuses
       /\ up => Now(c) = jobEntry[c].status
       /\ ~up => Now(c) \notin Unfinished
       /\ jobPc[c] # "none" \/ jobCanceling[c] > 0 => up
       /\ jobPc[c] = "spawned" <=> jobEntry[c].status = "queued"
       /\ jobPc[c] \in {"running", "returned"} <=> jobEntry[c].status = "running"
       /\ jobPc[c] \in {"none", "spawned", "running", "returned", "done"}

LEMMA ChildFacts == Child!Inv => ChildSense
BY WorkflowRunAssumption, Child!StatusFacts
   DEF ChildSense, Now, Statuses, Child!Statuses, Unfinished, Child!Unfinished,
       Child!Terminal

LEMMA ChildFactsNext == Child!Inv' => ChildSense'
BY ChildFacts, PTL

FlowSense ==
  /\ wfEntry = [f \in {wf} |-> wfEntry[f]]
  /\ wfPc = [f \in {wf} |-> wfPc[f]]
  /\ wfPc[wf] \in {"none", "spawned", "running", "returned", "done"}
  /\ wfCtx \in [{wf} -> BOOLEAN]
  /\ FlowNow \in Statuses
  /\ up => FlowNow = wfEntry[wf].status
  /\ ~up => FlowNow \notin Unfinished
  /\ wfPc[wf] # "none" \/ wfCanceling[wf] > 0 \/ wfCtx[wf] => up
  /\ wfPc[wf] = "spawned" <=> wfEntry[wf].status = "queued"
  /\ wfPc[wf] \in {"running", "returned"} <=> wfEntry[wf].status = "running"
  /\ wfPc[wf] = "done" => wfEntry[wf].status \in Ended

LEMMA FlowFacts == Flow!Inv => FlowSense
BY Flow!StatusFacts
   DEF FlowSense, FlowNow, Statuses, Flow!Statuses, Unfinished, Flow!Unfinished,
       Flow!Terminal, Ended

LEMMA FlowFactsNext == Flow!Inv' => FlowSense'
BY FlowFacts, PTL

-----------------------------------------------------------------------------
(* What the steps of the children may change.                              *)

\* Children end and stay ended, and a canceled context stays canceled.
ChildrenMove ==
  /\ up' = up
  /\ \A c \in Children :
       /\ Now(c) \in Ended \cup {"none"} => Now(c)' = Now(c)
       /\ Now(c) \in Unfinished => Now(c)' \in Unfinished \cup Ended
       /\ jobCtx[c] => jobCtx'[c]

LEMMA ChildrenStay ==
  ASSUME UNCHANGED <<up, jobVars>>, Child!Inv
  PROVE  ChildrenMove /\ Child!Inv' /\ \A c \in Children : Now(c)' = Now(c)
<1>1. UNCHANGED Child!vars
  BY DEF Child!vars, jobVars
<1>2. Child!Inv'
  <2>1. [Child!Next]_(Child!vars)
    BY <1>1
  <2> QED
    BY <2>1, WorkflowRunAssumption, Child!NextInv
<1>3. \A c \in Children : Now(c)' = Now(c)
  BY DEF jobVars, Now, Child!Trusted, Child!Reloaded, Child!LogEvent
<1>4. up' = up /\ jobCtx' = jobCtx /\ \A c \in Children : Now(c) \in Statuses
  BY ChildFacts DEF ChildSense, jobVars
<1> QED
  BY <1>2, <1>3, <1>4 DEF ChildrenMove, Statuses, Ended, Unfinished

\* Any step of a child but its submission.
LEMMA ChildrenStep ==
  ASSUME Child!Inv, NEW c \in Children,
         \/ J!RunBegin(c) \/ J!RunnerReturn(c) \/ J!RunEnd(c) \/ J!CancelRecord(c)
         \/ J!CancelFire(c)
  PROVE  ChildrenMove /\ Child!Inv' /\ up
<1>1. Child!Next
  BY ChildActions DEF Child!Next
<1>2. Child!Inv'
  BY <1>1, WorkflowRunAssumption, Child!NextInv
<1>3. up /\ up' = up
  BY ChildFacts DEF ChildSense, J!RunBegin, J!RunnerReturn, J!RunEnd, J!CancelRecord, J!CancelFire
<1>4. \A d \in Children : jobPc'[d] = "spawned" => jobPc[d] = "spawned"
  BY ChildFacts DEF ChildSense, J!RunBegin, J!RunnerReturn, J!RunEnd, J!CancelRecord, J!CancelFire
<1>5. \A d \in Children : jobCtx[d] => jobCtx'[d]
  BY ChildFacts DEF ChildSense, J!RunBegin, J!RunnerReturn, J!RunEnd, J!CancelRecord, J!CancelFire
<1>6. ASSUME NEW d \in Children
      PROVE  /\ Now(d) \in Ended => Now(d)' = Now(d)
             /\ Now(d) = "none" => Now(d)' \in {"none", "queued"}
             /\ Now(d) \in Unfinished => Now(d)' \in Unfinished \cup Ended
  BY <1>1, WorkflowRunAssumption, Child!StatusMoves
     DEF Now, Ended, Unfinished, Child!Terminal, Child!Unfinished
<1>7. ASSUME NEW d \in Children, Now(d) = "none"
      PROVE  Now(d)' = "none"
  <2>1. jobEntry[d].status = "none" /\ jobPc[d] # "spawned"
    BY <1>3, <1>7, ChildFacts DEF ChildSense
  <2>2. jobEntry'[d].status # "queued" /\ Now(d)' = jobEntry'[d].status
    <3>1. /\ jobPc'[d] = "spawned" <=> jobEntry'[d].status = "queued"
          /\ up' => Now(d)' = jobEntry'[d].status
      BY <1>2, ChildFactsNext DEF ChildSense
    <3> QED
      BY <1>3, <1>4, <2>1, <3>1
  <2> QED
    BY <1>6, <1>7, <2>2
<1> QED
  BY <1>2, <1>3, <1>5, <1>6, <1>7 DEF ChildrenMove

\* The submission of a child that is not there.
LEMMA ChildSubmitted ==
  ASSUME Child!Inv, NEW c \in Children, J!SubmitSpec(c)
  PROVE  /\ Child!Inv' /\ up' = up /\ Now(c) = "none" /\ Now(c)' \in Unfinished
         /\ \A d \in Children \ {c} : Now(d)' = Now(d) /\ jobCtx'[d] = jobCtx[d]
<1>1. Child!Next
  BY ChildActions DEF Child!Next
<1>2. Child!Inv'
  BY <1>1, WorkflowRunAssumption, Child!NextInv
<1>3. up /\ up' = up /\ jobCtx' = jobCtx /\ jobEntry[c].status = "none"
  BY DEF J!SubmitSpec
<1>4. jobPc'[c] = "spawned"
  BY ChildFacts DEF ChildSense, J!SubmitSpec
<1>5. Now(c)' = "queued"
  <2>1. /\ jobPc'[c] = "spawned" <=> jobEntry'[c].status = "queued"
        /\ up' => Now(c)' = jobEntry'[c].status
    BY <1>2, ChildFactsNext DEF ChildSense
  <2> QED
    BY <1>3, <1>4, <2>1
<1>6. ASSUME NEW d \in Children \ {c}
      PROVE  Now(d)' = Now(d)
  <2>1. jobEntry'[d] = jobEntry[d]
    BY ChildFacts DEF ChildSense, J!SubmitSpec, J!UpdateEntry
  <2>2. Now(d) = jobEntry[d].status
    BY <1>3, ChildFacts DEF ChildSense
  <2>3. up' => Now(d)' = jobEntry'[d].status
    BY <1>2, ChildFactsNext DEF ChildSense
  <2> QED
    BY <1>3, <2>1, <2>2, <2>3
<1>7. Now(c) = "none"
  BY <1>3, ChildFacts DEF ChildSense
<1> QED
  BY <1>2, <1>3, <1>5, <1>6, <1>7 DEF Unfinished

\* What is done, untouched or agreed on stays so.
LEMMA StandsStill ==
  ASSUME \A c \in Children : Now(c) \in Ended \cup {"none"} => Now(c)' = Now(c),
         UNCHANGED stored
  PROVE  /\ \A p \in DOMAIN Plan : Stands(p) => Stands(p)'
         /\ \A s \in Steps : /\ Done(s) => Done(s)'
                             /\ Untouched(s) => Untouched(s)'
<1>1. ASSUME NEW s \in Steps
      PROVE  /\ Done(s) => Done(s)'
             /\ Untouched(s) => Untouched(s)'
             /\ Agrees(s) => Agrees(s)'
  BY DEF stored, Done, Untouched, Agrees, Ended
<1> QED
  BY <1>1, PlanFacts DEF Stands

-----------------------------------------------------------------------------
(* The runner.                                                             *)

\* Nothing of the workflow's manager changes, or an event is logged.
LEMMA FlowStays ==
  ASSUME Flow!Inv, UNCHANGED <<up, wfVars>>
  PROVE  Flow!Inv' /\ FlowNow' = FlowNow
<1>1. UNCHANGED Flow!vars
  BY DEF Flow!vars, wfVars
<1>2. Flow!Inv'
  <2>1. [Flow!Next]_(Flow!vars)
    BY <1>1
  <2> QED
    BY <2>1, Flow!NextInv
<1>3. FlowNow' = FlowNow
  BY DEF wfVars, FlowNow, Flow!Trusted, Flow!Reloaded, Flow!LogEvent
<1> QED
  BY <1>2, <1>3

LEMMA FlowLogs ==
  ASSUME Flow!Inv, wfPc[wf] = "running", W!AddEvent(wf),
         UNCHANGED <<up, wfPc, wfOutcome, wfCanceling, wfCtx>>
  PROVE  Flow!Inv'
<1>1. Flow!AddEvent(wf) /\ UNCHANGED <<up, Flow!goroutine>>
  BY FlowActions DEF Flow!goroutine
<1> QED
  BY <1>1, Flow!CustomEventInv

\* What is known when the runner takes a step.
LEMMA RunnerKnows ==
  ASSUME Inv, wfPc[wf] = "running"
  PROVE  /\ up /\ at.step \in DOMAIN Plan /\ Plan[at.step] = Step /\ Step \in Steps
         /\ Stands(at.step) /\ Waits(Step)
         /\ Child!Inv /\ Flow!Inv /\ WorkflowTypeOK
BY FlowFacts, PlanFacts DEF FlowSense, Inv, Working, Step, Stands, WorkflowTypeOK

\* What is left to show of a step after which the runner still runs.
LEMMA RunnerGoesOn ==
  ASSUME wfPc'[wf] = "running", Child!Inv', Flow!Inv', WorkflowTypeOK',
         Stands(at.step)', Waits(Step)'
  PROVE  Inv'
<1>1. FlowNow' = "running"
  BY FlowFactsNext DEF FlowSense
<1>2. Resting' /\ Earned'
  BY <1>1 DEF Resting, Earned
<1>3. Working'
  BY DEF Working
<1> QED
  BY <1>2, <1>3 DEF Inv

\* The runner touches its own step only.
LEMMA OwnStepOnly ==
  ASSUME NEW p \in DOMAIN Plan, Stands(p), Agrees(Plan[p])',
         \A i \in DOMAIN Plan :
           i # p => /\ steps'[Plan[i]] = steps[Plan[i]]
                    /\ Plan[i] \in written' <=> Plan[i] \in written
                    /\ Plan[i] \in Children /\ Now(Plan[i]) \in Ended \cup {"none"}
                         => Now(Plan[i])' = Now(Plan[i])
  PROVE  Stands(p)'
<1>1. ASSUME NEW i \in DOMAIN Plan, i < p
      PROVE  Done(Plan[i])'
  <2>1. i # p /\ Done(Plan[i])
    BY <1>1, PlanFacts DEF Stands
  <2> QED
    BY <2>1 DEF Done, Ended
<1>2. ASSUME NEW i \in DOMAIN Plan, i > p
      PROVE  Untouched(Plan[i])'
  <2>1. i # p /\ Untouched(Plan[i])
    BY <1>2, PlanFacts DEF Stands
  <2> QED
    BY <2>1 DEF Untouched
<1> QED
  BY <1>1, <1>2 DEF Stands

LEMMA SubmitChildInv ==
  ASSUME Inv, SubmitChild
  PROVE  Inv'
<1>1. /\ wfPc[wf] = "running" /\ at.label = "submit" /\ Step # ImportStep
      /\ J!SubmitSpec(Step) /\ at' = [at EXCEPT !.label = "snapshot"]
      /\ UNCHANGED <<up, wfVars, seen, waitErr, steps, written>>
  BY DEF SubmitChild, At, Goto, stored, J!SubmitSpec
<1>2. /\ at.step \in DOMAIN Plan /\ Plan[at.step] = Step /\ Step \in Children
      /\ Stands(at.step) /\ Untouched(Step) /\ ~waitErr
      /\ Child!Inv /\ Flow!Inv /\ WorkflowTypeOK
  BY <1>1, RunnerKnows, PlanFacts DEF Waits
<1>3. at'.step = at.step /\ at'.label = "snapshot" /\ WorkflowTypeOK'
  BY <1>1, <1>2 DEF WorkflowTypeOK, Labels
<1>4. /\ Child!Inv'
      /\ \A d \in Children \ {Step} : Now(d)' = Now(d)
  BY <1>1, <1>2, ChildSubmitted
<1>5. Stands(at.step)'
  <2>1. Agrees(Plan[at.step])'
    BY <1>1, <1>2, PlanFacts DEF Agrees, Untouched, Ended
  <2>2. \A i \in DOMAIN Plan : i # at.step => Plan[i] # Step
    BY <1>2, PlanFacts
  <2>3. Stands(at.step) /\ at.step \in DOMAIN Plan
    BY <1>2
  <2> DEFINE p == at.step
  <2>4. Stands(p)'
    BY <1>1, <1>2, <1>3, <1>4, <2>1, <2>2, OwnStepOnly
  <2> QED
    BY <1>3, <2>4
<1>6. Step' = Step /\ Waits(Step)'
  BY <1>1, <1>2, <1>3 DEF Step, Waits, Untouched
<1> QED
  BY <1>1, <1>2, <1>3, <1>4, <1>5, <1>6, FlowStays, RunnerGoesOn DEF wfVars

\* A step of the runner that records nothing.
LEMMA RunnerMoves ==
  ASSUME Inv, wfPc[wf] = "running", ChildrenMove, Child!Inv',
         UNCHANGED <<wfVars, stored>>, WorkflowTypeOK', at'.step = at.step,
         Waits(Step)'
  PROVE  Inv'
<1>1. /\ at.step \in DOMAIN Plan /\ Stands(at.step) /\ Flow!Inv /\ up' = up
  BY RunnerKnows DEF ChildrenMove
<1>2. Flow!Inv' /\ wfPc'[wf] = "running"
  BY <1>1, FlowStays DEF wfVars
<1>3. Stands(at.step)'
  <2> DEFINE p == at.step
  <2>1. \A q \in DOMAIN Plan : Stands(q) => Stands(q)'
    BY StandsStill DEF ChildrenMove
  <2> QED
    BY <1>1, <2>1
<1> QED
  BY <1>2, <1>3, RunnerGoesOn

LEMMA WatchingInv ==
  ASSUME Inv, SnapshotChild \/ GetChild \/ SelectTick \/ SelectDone \/ Poll
  PROVE  Inv'
<1>1. /\ wfPc[wf] = "running" /\ UNCHANGED <<up, jobVars, wfVars, stored>>
      /\ at.label \in {"snapshot", "get", "select", "poll"}
  BY DEF SnapshotChild, GetChild, SelectTick, SelectDone, Poll, At
<1>2. /\ up /\ at.step \in DOMAIN Plan /\ Plan[at.step] = Step /\ Waits(Step)
      /\ Step \in Children /\ Step # ImportStep /\ Step \notin written /\ ~waitErr
      /\ Child!Inv /\ WorkflowTypeOK
  BY <1>1, RunnerKnows, PlanFacts DEF Waits
<1>3. /\ ChildrenMove /\ Child!Inv' /\ \A c \in Children : Now(c)' = Now(c)
      /\ Now(Step) = jobEntry[Step].status /\ Now(Step) \in Statuses
      /\ jobCtx' = jobCtx /\ wfCtx' = wfCtx /\ written' = written
  BY <1>1, <1>2, ChildrenStay, ChildFacts DEF ChildSense, jobVars, wfVars, stored
<1>4. \/ /\ at.label = "snapshot" /\ seen' = Now(Step) /\ waitErr' = waitErr
         /\ at' = [at EXCEPT !.label = "started"]
      \/ /\ at.label = "get" /\ Now(Step) \in Ended /\ seen' = Now(Step)
         /\ waitErr' = waitErr /\ at' = [at EXCEPT !.label = "finish"]
      \/ /\ at.label \in {"get", "select"} /\ UNCHANGED <<seen, waitErr>>
         /\ \/ at' = [at EXCEPT !.label = "select"]
            \/ at' = [at EXCEPT !.label = "get"]
            \/ wfCtx[wf] /\ at' = [at EXCEPT !.label = "cancel_child"]
      \/ /\ at.label = "poll" /\ seen' = Now(Step) /\ waitErr' = TRUE
         /\ at' = [at EXCEPT !.label = "finish"]
      \/ /\ at.label = "poll" /\ UNCHANGED <<seen, waitErr>>
         /\ at' = [at EXCEPT !.polls = @ + 1]
  BY <1>3 DEF SnapshotChild, GetChild, SelectTick, SelectDone, Poll, At, Goto, Ended,
     Terminal, J!Terminal
<1>5. at'.step = at.step /\ WorkflowTypeOK'
  <2>1. /\ at' \in [step : DOMAIN Plan, label : Labels, polls : Nat]
        /\ at'.step = at.step
    BY <1>2, <1>4 DEF WorkflowTypeOK, Labels
  <2>2. seen' \in Statuses /\ waitErr' \in BOOLEAN
    BY <1>2, <1>3, <1>4 DEF WorkflowTypeOK
  <2> QED
    BY <1>1, <1>2, <2>1, <2>2 DEF WorkflowTypeOK, stored
<1>6. Step' = Step
  BY <1>5 DEF Step
<1>7. Waits(Step)'
  BY <1>1, <1>2, <1>3, <1>4, <1>6 DEF Waits, WorkflowTypeOK, Ended, Unfinished
<1> QED
  BY <1>1, <1>3, <1>5, <1>7, RunnerMoves

LEMMA CancelingInv ==
  ASSUME Inv, CancelChild \/ FireChild
  PROVE  Inv'
<1>1. /\ wfPc[wf] = "running" /\ UNCHANGED <<wfVars, seen, waitErr, stored>>
      /\ at.label \in {"cancel_child", "fire"}
  BY DEF CancelChild, FireChild, At
<1>2. /\ up /\ at.step \in DOMAIN Plan /\ Plan[at.step] = Step /\ Waits(Step)
      /\ Step \in Children /\ Step # ImportStep /\ Step \notin written /\ ~waitErr
      /\ wfCtx[wf] /\ Child!Inv /\ WorkflowTypeOK
  BY <1>1, RunnerKnows, PlanFacts DEF Waits
<1>3. /\ ChildrenMove /\ Child!Inv' /\ wfCtx' = wfCtx /\ written' = written
      /\ \/ at' = [at EXCEPT !.label = "fire"]
         \/ /\ at' = [at EXCEPT !.label = "poll"]
            /\ Now(Step)' \in Unfinished => jobCtx'[Step]
  <2>1. CASE FireChild
    <3>1. ChildrenMove /\ Child!Inv'
      BY <1>2, <2>1, ChildrenStep DEF FireChild
    <3>2. jobCtx'[Step]
      BY <1>2, <2>1, ChildFacts DEF FireChild, J!CancelFire, ChildSense
    <3> QED
      BY <1>1, <2>1, <3>1, <3>2 DEF FireChild, Goto, wfVars, stored
  <2>2. CASE CancelChild /\ J!CancelRecord(Step) /\ Goto("fire")
    BY <1>1, <1>2, <2>2, ChildrenStep DEF Goto, wfVars, stored
  <2>3. CASE /\ CancelChild /\ jobEntry[Step].status \in Terminal /\ Goto("poll")
             /\ UNCHANGED <<up, jobVars>>
    <3>1. ChildrenMove /\ Child!Inv' /\ Now(Step)' = Now(Step)
      <4>1. at'.step = at.step
        BY <1>2, <2>3 DEF Goto, WorkflowTypeOK
      <4>2. Step' = Step
        BY <4>1 DEF Step
      <4> QED
        BY <1>2, <2>3, <4>2, ChildrenStay
    <3>2. Now(Step) \notin Unfinished
      BY <1>2, <2>3, ChildFacts DEF ChildSense, Terminal, J!Terminal, Unfinished
    <3> QED
      BY <1>1, <2>3, <3>1, <3>2 DEF Goto, wfVars, stored
  <2> QED
    BY <2>1, <2>2, <2>3 DEF CancelChild
<1>4. at'.step = at.step /\ WorkflowTypeOK'
  BY <1>1, <1>2, <1>3 DEF WorkflowTypeOK, Labels, stored
<1>5. Step' = Step
  BY <1>4 DEF Step
<1>6. Waits(Step)'
  BY <1>1, <1>2, <1>3, <1>5 DEF Waits, WorkflowTypeOK
<1> QED
  BY <1>1, <1>3, <1>4, <1>6, RunnerMoves

\* A step of the runner that records the status of its step.
LEMMA RunnerRecords ==
  ASSUME Inv, NEW v \in Statuses, wfPc[wf] = "running", UpsertStep(Step, v),
         UNCHANGED jobVars, WorkflowTypeOK', at'.step = at.step,
         Agrees(Step)', Waits(Step)'
  PROVE  Inv'
<1>1. /\ UNCHANGED <<up, wfPc, wfOutcome, wfCanceling, wfCtx, written>>
      /\ steps' = [steps EXCEPT ![Step] = v] /\ W!AddEvent(wf)
  BY DEF UpsertStep
<1>2. /\ at.step \in DOMAIN Plan /\ Plan[at.step] = Step /\ Stands(at.step)
      /\ Child!Inv /\ Flow!Inv /\ WorkflowTypeOK
  BY RunnerKnows
<1>3. Flow!Inv' /\ wfPc'[wf] = "running"
  BY <1>1, <1>2, FlowLogs
<1>4. Child!Inv' /\ \A c \in Children : Now(c)' = Now(c)
  BY <1>1, <1>2, ChildrenStay
<1>5. Stands(at.step)'
  <2> DEFINE p == at.step
  <2>1. Step' = Step
    BY DEF Step
  <2>2. \A i \in DOMAIN Plan : i # p => steps'[Plan[i]] = steps[Plan[i]]
    BY <1>1, <1>2, PlanFacts DEF WorkflowTypeOK
  <2>3. Agrees(Plan[at.step])'
    BY <1>2, <2>1
  <2> QED
    BY <1>1, <1>2, <1>4, <2>2, <2>3, OwnStepOnly
<1> QED
  BY <1>3, <1>4, <1>5, RunnerGoesOn

LEMMA StepStartedInv ==
  ASSUME Inv, StepStarted
  PROVE  Inv'
<1>1. /\ wfPc[wf] = "running" /\ at.label = "started" /\ UpsertStep(Step, seen)
      /\ at' = [at EXCEPT !.label = "get"] /\ UNCHANGED <<jobVars, seen, waitErr>>
      /\ steps' = [steps EXCEPT ![Step] = seen] /\ UNCHANGED <<up, wfCtx, written>>
  BY DEF StepStarted, At, Goto, UpsertStep
<1>2. /\ Step \in Steps /\ Step \in Children /\ Step # ImportStep /\ Step \notin written
      /\ ~waitErr /\ Child!Inv /\ WorkflowTypeOK
      /\ seen \in Ended => Now(Step) = seen
  BY <1>1, RunnerKnows, PlanFacts DEF Waits
<1>3. at'.step = at.step /\ at'.label = "get" /\ WorkflowTypeOK'
  BY <1>1, <1>2 DEF WorkflowTypeOK, Labels
<1>4. Step' = Step /\ Now(Step)' = Now(Step) /\ steps'[Step] = seen
  BY <1>1, <1>2, <1>3, ChildrenStay DEF Step, WorkflowTypeOK
<1>5. Agrees(Step)' /\ Waits(Step)'
  BY <1>1, <1>2, <1>3, <1>4 DEF Agrees, Waits
<1> QED
  BY <1>1, <1>2, <1>3, <1>5, RunnerRecords DEF WorkflowTypeOK

LEMMA StepFinishedInv ==
  ASSUME Inv, StepFinished
  PROVE  Inv'
<1> DEFINE next == IF ~waitErr /\ seen = "succeeded" THEN "handoff" ELSE "error"
<1>1. /\ wfPc[wf] = "running" /\ at.label = "finish" /\ UpsertStep(Step, seen)
      /\ at' = [at EXCEPT !.label = next] /\ UNCHANGED <<jobVars, seen, waitErr>>
      /\ steps' = [steps EXCEPT ![Step] = seen] /\ UNCHANGED <<up, wfCtx, written>>
  BY DEF StepFinished, At, Goto, UpsertStep
<1>2. /\ Step \in Steps /\ Child!Inv /\ WorkflowTypeOK /\ Waits(Step)
  BY <1>1, RunnerKnows
<1>3. at'.step = at.step /\ at'.label = next /\ WorkflowTypeOK'
  BY <1>1, <1>2 DEF WorkflowTypeOK, Labels
<1>4. Step' = Step /\ steps'[Step] = seen
  BY <1>1, <1>2, <1>3 DEF Step, WorkflowTypeOK
<1>5. jobCtx' = jobCtx /\ (Step \in Children => Now(Step)' = Now(Step))
  BY <1>1, <1>2, <1>4, ChildrenStay DEF jobVars
<1>6. Agrees(Step)'
  BY <1>1, <1>2, <1>4, <1>5 DEF Agrees, Waits
<1>7. Waits(Step)'
  BY <1>1, <1>2, <1>3, <1>4, <1>5 DEF Waits, Ended
<1> QED
  BY <1>1, <1>2, <1>3, <1>6, <1>7, RunnerRecords DEF WorkflowTypeOK

LEMMA StartImportInv ==
  ASSUME Inv, StartImport
  PROVE  Inv'
<1>1. /\ wfPc[wf] = "running" /\ at.label = "submit" /\ Step = ImportStep
      /\ UpsertStep(Step, "running")
      /\ at' = [at EXCEPT !.label = "import"] /\ UNCHANGED <<jobVars, seen, waitErr>>
      /\ steps' = [steps EXCEPT ![Step] = "running"] /\ UNCHANGED <<up, wfCtx, written>>
  BY DEF StartImport, At, Goto, UpsertStep
<1>2. /\ Step \in Steps /\ Step \notin Children /\ ~waitErr /\ Step \notin written
      /\ WorkflowTypeOK
  BY <1>1, RunnerKnows, PlanFacts DEF Waits, Untouched
<1>3. at'.step = at.step /\ at'.label = "import" /\ WorkflowTypeOK'
  BY <1>1, <1>2 DEF WorkflowTypeOK, Labels, Statuses
<1>4. Step' = Step /\ steps'[Step] = "running"
  BY <1>1, <1>2, <1>3 DEF Step, WorkflowTypeOK
<1>5. Agrees(Step)' /\ Waits(Step)'
  BY <1>1, <1>2, <1>3, <1>4 DEF Agrees, Waits
<1> QED
  BY <1>1, <1>3, <1>5, RunnerRecords DEF Statuses

LEMMA ImportInv ==
  ASSUME Inv, Import
  PROVE  Inv'
<1>1. /\ wfPc[wf] = "running" /\ at.label = "import"
      /\ at' = [at EXCEPT !.label = "finish"]
      /\ UNCHANGED <<up, jobVars, wfVars, waitErr, steps>>
      /\ \/ seen' = "succeeded" /\ written' = written \cup {ImportStep}
         \/ seen' = "failed" /\ written' = written
  BY DEF Import, At, Goto
<1>2. /\ at.step \in DOMAIN Plan /\ Plan[at.step] = Step /\ Stands(at.step)
      /\ Step \in Steps /\ Step = ImportStep /\ Step \notin Children /\ ~waitErr
      /\ steps[Step] = "running" /\ Step \notin written
      /\ Child!Inv /\ Flow!Inv /\ WorkflowTypeOK
  BY <1>1, RunnerKnows, PlanFacts DEF Waits
<1>3. at'.step = at.step /\ at'.label = "finish" /\ WorkflowTypeOK'
  <2>1. /\ at' \in [step : DOMAIN Plan, label : Labels, polls : Nat]
        /\ at'.step = at.step /\ at'.label = "finish"
    BY <1>1, <1>2 DEF WorkflowTypeOK, Labels
  <2>2. seen' \in Statuses /\ written' \in SUBSET Steps
    BY <1>1, <1>2 DEF WorkflowTypeOK, Statuses
  <2> QED
    BY <1>1, <1>2, <2>1, <2>2 DEF WorkflowTypeOK
<1>4. Step' = Step
  BY <1>3 DEF Step
<1>5. Child!Inv' /\ Flow!Inv' /\ \A c \in Children : Now(c)' = Now(c)
  BY <1>1, <1>2, ChildrenStay, FlowStays
<1>6. Agrees(Step)' /\ Waits(Step)'
  BY <1>1, <1>2, <1>3, <1>4 DEF Agrees, Waits
<1>7. Stands(at.step)'
  <2> DEFINE p == at.step
  <2>1. \A i \in DOMAIN Plan : i # p => Plan[i] # Step
    BY <1>2, PlanFacts
  <2>2. Agrees(Plan[at.step])'
    BY <1>2, <1>3, <1>4, <1>6
  <2> QED
    BY <1>1, <1>2, <1>3, <1>5, <2>1, <2>2, OwnStepOnly
<1> QED
  BY <1>1, <1>3, <1>5, <1>6, <1>7, RunnerGoesOn DEF wfVars

LEMMA HandOffInv ==
  ASSUME Inv, HandOff
  PROVE  Inv'
<1>1. /\ wfPc[wf] = "running" /\ at.label = "handoff"
      /\ UNCHANGED <<up, jobVars, wfPc, wfOutcome, wfCanceling, wfCtx, seen, waitErr,
                     steps>>
      /\ written' = written \cup {Step}
  BY DEF HandOff, At
<1>2. /\ at.step \in DOMAIN Plan /\ Plan[at.step] = Step /\ Stands(at.step)
      /\ Step \in Steps /\ ~waitErr /\ steps[Step] = "succeeded"
      /\ Step \in Children => Now(Step) = "succeeded"
      /\ Child!Inv /\ Flow!Inv /\ WorkflowTypeOK
  BY <1>1, RunnerKnows, PlanFacts DEF Waits
<1>3. Child!Inv' /\ \A c \in Children : Now(c)' = Now(c)
  BY <1>1, <1>2, ChildrenStay
<1>4. Flow!Inv'
  <2>1. CASE W!AddEvent(wf)
    BY <1>1, <1>2, <2>1, FlowLogs
  <2>2. CASE UNCHANGED <<wfEntry, wfDisk>>
    BY <1>1, <1>2, <2>2, FlowStays DEF wfVars
  <2> QED
    BY <2>1, <2>2 DEF HandOff
<1>5. ASSUME NEW i \in DOMAIN Plan
      PROVE  /\ i <= at.step => Done(Plan[i])'
             /\ i > at.step => Untouched(Plan[i])'
  <2>1. /\ Plan[i] = Step <=> i = at.step
        /\ at.step \in Nat /\ i \in Nat
    BY <1>2, PlanFacts
  <2>2. Plan[i] \in Children => Now(Plan[i])' = Now(Plan[i])
    BY <1>3
  <2>3. CASE i < at.step
    <3>1. Done(Plan[i])
      BY <1>2, <2>3 DEF Stands
    <3>2. Done(Plan[i])'
      BY <1>1, <2>2, <3>1 DEF Done
    <3> QED
      BY <2>1, <2>3, <3>2
  <2>4. CASE i = at.step
    <3>1. Done(Plan[i])'
      BY <1>1, <1>2, <2>1, <2>2, <2>4 DEF Done
    <3> QED
      BY <2>1, <2>4, <3>1
  <2>5. CASE i > at.step
    <3>1. Plan[i] # Step /\ Untouched(Plan[i])
      BY <1>2, <2>1, <2>5 DEF Stands
    <3>2. Untouched(Plan[i])'
      BY <1>1, <2>2, <3>1 DEF Untouched
    <3> QED
      BY <2>1, <2>5, <3>2
  <2> QED
    BY <2>1, <2>3, <2>4, <2>5
<1>6. CASE at.step < Len(Plan)
  <2>1. at' = [step |-> at.step + 1, label |-> "submit", polls |-> 0]
    BY <1>6 DEF HandOff, Idle
  <2>2. /\ at.step + 1 \in DOMAIN Plan /\ at.step \in Nat
        /\ at'.step = at.step + 1 /\ at'.label = "submit"
        /\ \A i \in DOMAIN Plan : i \in Nat
    BY <1>2, <1>6, <2>1, PlanFacts
  <2>3. WorkflowTypeOK'
    BY <1>1, <1>2, <2>1, <2>2 DEF WorkflowTypeOK, Labels
  <2>4. /\ \A i \in DOMAIN Plan : i < at'.step => Done(Plan[i])'
        /\ \A i \in DOMAIN Plan : i >= at'.step => Untouched(Plan[i])'
    BY <1>5, <2>2
  <2>5. \A i \in DOMAIN Plan : Untouched(Plan[i])' => Agrees(Plan[i])'
    BY PlanFacts DEF Untouched, Agrees, Ended
  <2>6. Stands(at.step)'
    BY <2>2, <2>4, <2>5 DEF Stands
  <2>7. Untouched(Step)'
    BY <2>2, <2>4 DEF Step
  <2>8. Waits(Step)'
    BY <1>1, <1>2, <2>2, <2>7 DEF Waits
  <2> QED
    BY <1>1, <1>3, <1>4, <2>3, <2>6, <2>8, RunnerGoesOn
<1>7. CASE at.step = Len(Plan)
  <2>1. at' = [at EXCEPT !.label = "result"]
    BY <1>2, <1>7, PlanFacts DEF HandOff, Goto
  <2>2. at'.step = at.step /\ at'.label = "result" /\ WorkflowTypeOK'
    BY <1>1, <1>2, <2>1 DEF WorkflowTypeOK, Labels
  <2>3. Step' = Step
    BY <2>2 DEF Step
  <2>4. Done(Step)' /\ Agrees(Step)'
    <3>1. Done(Step)'
      BY <1>1, <1>2, <1>3, <2>3 DEF Done
    <3> QED
      BY <1>2, <3>1, <2>3, PlanFacts DEF Done, Agrees, Ended
  <2>5. Waits(Step)'
    BY <1>7, <2>2, <2>4 DEF Waits
  <2>6. Stands(at.step)'
    <3>1. \A i \in DOMAIN Plan : i \in Nat
      BY PlanFacts
    <3>2. \A i \in DOMAIN Plan : /\ i < at'.step => Done(Plan[i])'
                                 /\ i > at'.step => Untouched(Plan[i])'
      BY <1>2, <1>5, <2>2, <3>1
    <3>3. \A i \in DOMAIN Plan : i = at'.step => Agrees(Plan[i])'
      BY <2>4 DEF Step
    <3> QED
      BY <3>2, <3>3 DEF Stands
  <2> QED
    BY <1>1, <1>3, <1>4, <2>2, <2>5, <2>6, RunnerGoesOn
<1> QED
  BY <1>2, <1>6, <1>7, PlanFacts

-----------------------------------------------------------------------------
(* The steps that leave the runner alone.                                  *)

\* The statuses of the children may move on, nothing else.
LEMMA ChildStepInv ==
  ASSUME Inv, NEW c \in Children, ChildStep(c)
  PROVE  Inv'
<1>1. /\ \/ J!RunBegin(c) \/ J!RunnerReturn(c) \/ J!RunEnd(c) \/ J!CancelRecord(c)
         \/ J!CancelFire(c)
      /\ UNCHANGED <<wfVars, runner, stored>>
  BY DEF ChildStep, ChildBegin, ChildReturn, ChildEnd, CancelJob, CancelJobContext
<1>2. ChildrenMove /\ Child!Inv' /\ up /\ up' = up
  BY <1>1, ChildrenStep DEF Inv, ChildrenMove
<1>3. Flow!Inv' /\ FlowNow' = FlowNow
  BY <1>1, <1>2, FlowStays DEF Inv
<1>4. /\ \A p \in DOMAIN Plan : Stands(p) => Stands(p)'
      /\ \A s \in Steps : /\ Done(s) => Done(s)'
                          /\ Untouched(s) => Untouched(s)'
  BY <1>1, <1>2, StandsStill DEF ChildrenMove
<1>5. WorkflowTypeOK' /\ Earned'
  BY <1>1, <1>3, <1>4, PlanFacts DEF Inv, WorkflowTypeOK, Earned, runner, stored
<1>6. /\ wfPc' = wfPc /\ wfOutcome' = wfOutcome /\ wfEntry' = wfEntry /\ wfCtx' = wfCtx
      /\ at' = at /\ seen' = seen /\ waitErr' = waitErr /\ steps' = steps
      /\ written' = written /\ Step' = Step
  BY <1>1 DEF wfVars, runner, stored, Step
<1>7. \A d \in Children : Now(d)' \in Unfinished => Now(d) \in Unfinished
  BY <1>2, ChildFacts DEF ChildrenMove, ChildSense, Inv, Statuses, Ended, Unfinished
<1>8. Resting'
  BY <1>2, <1>3, <1>4, <1>6, <1>7, PlanFacts DEF Inv, Resting
<1>9. Waits(Step) => Waits(Step)'
  <2>1. Step \in Children => /\ Now(Step) \in Ended => Now(Step)' = Now(Step)
                             /\ Now(Step)' \in Unfinished => Now(Step) \in Unfinished
                             /\ jobCtx[Step] => jobCtx'[Step]
    BY <1>2, <1>6, <1>7 DEF ChildrenMove
  <2>2. Step \in Steps /\ (Untouched(Step) => Untouched(Step)')
        /\ (Done(Step) => Done(Step)')
    BY <1>4, <1>6, PlanFacts DEF Inv, WorkflowTypeOK, Step
  <2> QED
    BY <1>6, <2>1, <2>2 DEF Waits, Ended
<1>10. Working'
  BY <1>4, <1>6, <1>7, <1>9 DEF Inv, WorkflowTypeOK, Working
<1> QED
  BY <1>2, <1>3, <1>5, <1>8, <1>10 DEF Inv

\* What holds after any step of the workflow's manager.
LEMMA FlowSteps ==
  ASSUME Inv, UNCHANGED <<jobVars, runner, stored>>,
         \/ W!SubmitSpec(wf) \/ W!RunBegin(wf) \/ W!RunnerReturn(wf) \/ W!RunEnd(wf)
         \/ W!CancelRecord(wf) \/ W!CancelFire(wf)
  PROVE  /\ up /\ up' = up /\ Child!Inv' /\ Flow!Inv' /\ WorkflowTypeOK'
         /\ \A c \in Children : Now(c)' = Now(c)
         /\ \A p \in DOMAIN Plan : Stands(p) => Stands(p)'
         /\ \A s \in Steps : /\ Done(s) => Done(s)'
                             /\ Untouched(s) => Untouched(s)'
         /\ Waits(Step) /\ Step \in Steps => Waits(Step)'
         /\ FlowNow = wfEntry[wf].status /\ FlowNow' = wfEntry'[wf].status
<1>1. Flow!Next
  BY FlowActions DEF Flow!Next
<1>2. Flow!Inv'
  BY <1>1, Flow!NextInv DEF Inv
<1>3. up /\ up' = up /\ (wfCtx[wf] => wfCtx'[wf])
  BY FlowFacts
     DEF Inv, FlowSense, W!SubmitSpec, W!RunBegin, W!RunnerReturn, W!RunEnd,
         W!CancelRecord, W!CancelFire
<1>4. ChildrenMove /\ Child!Inv' /\ \A c \in Children : Now(c)' = Now(c)
  BY <1>3, ChildrenStay DEF Inv
<1>5. /\ \A p \in DOMAIN Plan : Stands(p) => Stands(p)'
      /\ \A s \in Steps : /\ Done(s) => Done(s)'
                          /\ Untouched(s) => Untouched(s)'
  BY <1>4, StandsStill
<1>6. /\ at' = at /\ seen' = seen /\ waitErr' = waitErr /\ steps' = steps
      /\ written' = written /\ Step' = Step /\ jobCtx' = jobCtx
  BY DEF runner, stored, Step, jobVars
<1>7. WorkflowTypeOK'
  BY <1>6 DEF Inv, WorkflowTypeOK
<1>8. Waits(Step) /\ Step \in Steps => Waits(Step)'
  <2>1. Step \in Children => Now(Step)' = Now(Step)
    BY <1>4, <1>6
  <2>2. Step \in Steps => (Untouched(Step) => Untouched(Step)')
                          /\ (Done(Step) => Done(Step)')
    BY <1>5, <1>6
  <2> QED
    BY <1>3, <1>6, <2>1, <2>2 DEF Waits
<1>9. FlowNow = wfEntry[wf].status /\ FlowNow' = wfEntry'[wf].status
  BY <1>2, <1>3, FlowFacts, FlowFactsNext DEF FlowSense, Inv
<1> QED
  BY <1>2, <1>3, <1>4, <1>5, <1>7, <1>8, <1>9

LEMMA SubmitWorkflowInv ==
  ASSUME Inv, SubmitWorkflow
  PROVE  Inv'
<1>1. W!SubmitSpec(wf) /\ UNCHANGED <<jobVars, runner, stored>>
  BY DEF SubmitWorkflow
<1>2. /\ wfEntry[wf].status = "none" /\ wfPc'[wf] = "spawned" /\ wfPc[wf] = "none"
      /\ UNCHANGED <<at, waitErr>>
  BY <1>1, FlowFacts DEF W!SubmitSpec, Inv, FlowSense, Ended, runner
<1>3. FlowNow = "none" /\ FlowNow' # "succeeded" /\ Child!Inv' /\ Flow!Inv'
      /\ WorkflowTypeOK'
  BY <1>1, <1>2, FlowSteps, FlowFactsNext DEF FlowSense
<1>4. Stands(1)' /\ Untouched(Plan[1])'
  BY <1>1, <1>3, FlowSteps, PlanFacts DEF Inv, Resting
<1>5. Resting' /\ Working' /\ Earned'
  BY <1>2, <1>3, <1>4 DEF Inv, Resting, Working, Earned
<1> QED
  BY <1>3, <1>5 DEF Inv

LEMMA BeginWorkflowInv ==
  ASSUME Inv, BeginWorkflow
  PROVE  Inv'
<1>1. W!RunBegin(wf) /\ UNCHANGED <<jobVars, runner, stored>>
  BY DEF BeginWorkflow
<1>2. /\ wfPc[wf] = "spawned" /\ wfPc'[wf] = "running" /\ UNCHANGED <<at, waitErr>>
  BY <1>1, FlowFacts DEF W!RunBegin, Inv, FlowSense, runner
<1>3. Child!Inv' /\ Flow!Inv' /\ WorkflowTypeOK'
  BY <1>1, FlowSteps
<1>4. at' = Idle /\ ~waitErr' /\ Stands(1)' /\ Untouched(Plan[1])'
  BY <1>1, <1>2, FlowSteps, PlanFacts DEF Inv, Resting
<1>5. at'.step = 1 /\ at'.label = "submit"
  BY <1>4 DEF Idle
<1>6. Stands(at.step)' /\ Untouched(Step)'
  BY <1>4, <1>5 DEF Step
<1>7. Waits(Step)'
  BY <1>4, <1>5, <1>6 DEF Waits
<1> QED
  BY <1>2, <1>3, <1>6, <1>7, RunnerGoesOn

LEMMA ReturnInv ==
  ASSUME Inv, Return
  PROVE  Inv'
<1>1. W!RunnerReturn(wf) /\ UNCHANGED <<jobVars, runner, stored>>
  BY DEF Return
<1>2. /\ wfPc[wf] = "running" /\ wfPc'[wf] = "returned" /\ at' = at
      /\ at.label \in {"result", "error"}
      /\ wfOutcome'[wf] = IF at.label = "result" THEN "ok" ELSE "error"
  BY <1>1, FlowFacts DEF W!RunnerReturn, Return, Inv, FlowSense, runner
<1>3. Stands(at.step) /\ Waits(Step) /\ at.step \in DOMAIN Plan /\ Step \in Steps
  BY <1>2, RunnerKnows
<1>4. Child!Inv' /\ Flow!Inv' /\ WorkflowTypeOK' /\ Waits(Step)'
  BY <1>1, <1>3, FlowSteps
<1>5. Stands(at.step)'
  <2>1. \A p \in DOMAIN Plan : Stands(p) => Stands(p)'
    BY <1>1, FlowSteps
  <2> QED
    BY <1>2, <1>3, <2>1
<1>6. FlowNow' = "running"
  BY <1>1, <1>2, <1>4, FlowSteps, FlowFactsNext DEF FlowSense
<1>7. Resting' /\ Working' /\ Earned'
  BY <1>2, <1>4, <1>5, <1>6 DEF Resting, Working, Earned
<1> QED
  BY <1>4, <1>7 DEF Inv

LEMMA EndWorkflowInv ==
  ASSUME Inv, EndWorkflow
  PROVE  Inv'
<1>1. W!RunEnd(wf) /\ UNCHANGED <<jobVars, runner, stored>>
  BY DEF EndWorkflow
<1>2. /\ wfPc[wf] = "returned" /\ wfPc'[wf] = "done" /\ at' = at
      /\ wfEntry'[wf] = W!Finished(wfEntry[wf], wfOutcome[wf], wfCtx[wf])
  BY <1>1, FlowFacts DEF W!RunEnd, W!UpdateEntry, Inv, FlowSense, runner
<1>3. /\ Stands(at.step) /\ Waits(Step) /\ at.step \in DOMAIN Plan /\ Step \in Steps
      /\ at.label \in {"result", "error"} /\ Plan[at.step] = Step
      /\ wfOutcome[wf] # "error" => at.label = "result"
  BY <1>2, PlanFacts DEF Inv, Working, WorkflowTypeOK, Step
<1>4. Child!Inv' /\ Flow!Inv' /\ WorkflowTypeOK' /\ Waits(Step)'
      /\ \A c \in Children : Now(c)' = Now(c)
  BY <1>1, <1>3, FlowSteps
<1>5. Stands(at.step)'
  <2>1. \A p \in DOMAIN Plan : Stands(p) => Stands(p)'
    BY <1>1, FlowSteps
  <2> QED
    BY <1>2, <1>3, <2>1
<1>6. /\ FlowNow' = wfEntry'[wf].status
      /\ wfCtx[wf] => FlowNow' = "canceled"
      /\ FlowNow' = "succeeded" => ~wfCtx[wf] /\ wfOutcome[wf] # "error"
      /\ FlowNow' \in Ended
  <2>1. wfEntry[wf] \in Flow!Record /\ wfCtx[wf] \in BOOLEAN
    BY DEF Inv, Flow!Inv, Flow!TypeOK
  <2>2. /\ wfCtx[wf] => wfEntry'[wf].status = "canceled"
        /\ ~wfCtx[wf] /\ wfOutcome[wf] = "error" => wfEntry'[wf].status = "failed"
        /\ ~wfCtx[wf] /\ wfOutcome[wf] # "error" => wfEntry'[wf].status = "succeeded"
    BY <1>2, <2>1 DEF W!Finished, W!LogEvent, Flow!Record
  <2>3. FlowNow' = wfEntry'[wf].status
    BY <1>1, FlowSteps
  <2> QED
    BY <2>1, <2>2, <2>3 DEF Ended
<1>7. ASSUME NEW c \in Children, Now(c) \in Unfinished
      PROVE  wfCtx[wf]
  <2>1. PICK i \in DOMAIN Plan : c = Plan[i]
    BY PlanFacts DEF Children
  <2>2. i = at.step
    <3>1. ~Done(Plan[i]) /\ ~Untouched(Plan[i])
      BY <1>7, <2>1 DEF Done, Untouched, Unfinished
    <3> QED
      BY <1>3, <3>1, PlanFacts DEF Stands
  <2>3. c = Step /\ ~Done(Step)
    BY <1>3, <1>7, <2>1, <2>2 DEF Done, Unfinished
  <2> QED
    BY <1>3, <1>7, <2>3 DEF Waits
<1>8. Resting' /\ Working'
  <2>1. Resting'
    BY <1>2, <1>6 DEF Resting, Ended
  <2>2. \A c \in Children : Now(c)' \in Unfinished => wfEntry'[wf].status = "canceled"
    BY <1>4, <1>6, <1>7
  <2>3. at'.label \in {"result", "error"}
    BY <1>2, <1>3
  <2> QED
    BY <1>2, <1>4, <1>5, <2>1, <2>2, <2>3 DEF Working
<1>9. Earned'
  <2> SUFFICES ASSUME FlowNow' = "succeeded", NEW i \in DOMAIN Plan
               PROVE  Done(Plan[i])'
    BY DEF Earned
  <2>1. at.label = "result"
    BY <1>3, <1>6
  <2>2. at.step = Len(Plan) /\ Done(Step)
    BY <1>3, <2>1 DEF Waits
  <2>3. Done(Plan[i])
    BY <1>3, <2>2, PlanFacts DEF Stands
  <2> QED
    BY <1>1, <2>3, FlowSteps, PlanFacts
<1> QED
  BY <1>4, <1>8, <1>9 DEF Inv

LEMMA CancelWorkflowInv ==
  ASSUME Inv, CancelWorkflow \/ CancelWorkflowContext
  PROVE  Inv'
<1>1. W!CancelRecord(wf) \/ W!CancelFire(wf)
  BY DEF CancelWorkflow, CancelWorkflowContext
<1>2. UNCHANGED <<jobVars, runner, stored>> /\ wfPc' = wfPc /\ wfOutcome' = wfOutcome
      /\ at' = at /\ waitErr' = waitErr /\ Step' = Step
  BY DEF CancelWorkflow, CancelWorkflowContext, W!CancelRecord, W!CancelFire, runner, Step
<1>3. /\ up /\ up' = up /\ Child!Inv' /\ Flow!Inv' /\ WorkflowTypeOK'
      /\ \A c \in Children : Now(c)' = Now(c)
      /\ \A p \in DOMAIN Plan : Stands(p) => Stands(p)'
      /\ \A s \in Steps : /\ Done(s) => Done(s)'
                          /\ Untouched(s) => Untouched(s)'
      /\ Waits(Step) /\ Step \in Steps => Waits(Step)'
      /\ FlowNow = wfEntry[wf].status /\ FlowNow' = wfEntry'[wf].status
  BY <1>1, <1>2, FlowSteps
<1>4. FlowNow' = FlowNow
  <2>1. CASE W!CancelFire(wf)
    BY <1>3, <2>1 DEF W!CancelFire
  <2>2. CASE W!CancelRecord(wf)
    <3>1. FlowNow \in Unfinished
      BY <1>3, <2>2 DEF W!CancelRecord, W!Unfinished, Unfinished
    <3>2. /\ FlowSense /\ FlowSense' /\ wfPc'[wf] = wfPc[wf]
      BY <1>2, <1>3, FlowFacts, FlowFactsNext DEF Inv
    <3> QED
      BY <1>3, <3>1, <3>2 DEF FlowSense, Unfinished
  <2> QED
    BY <1>1, <2>1, <2>2
<1>5. Resting'
  BY <1>2, <1>3, <1>4, PlanFacts DEF Inv, Resting
<1>6. Working'
  <2>1. \A p \in DOMAIN Plan : Stands(p) => Stands(p)'
    BY <1>3
  <2>2. at.step \in DOMAIN Plan /\ Step \in Steps
    BY PlanFacts DEF Inv, WorkflowTypeOK, Step
  <2>3. wfPc[wf] \in {"running", "returned", "done"} => Stands(at.step)'
    BY <1>2, <2>1, <2>2 DEF Inv, Working
  <2> QED
    BY <1>2, <1>3, <1>4, <2>2, <2>3 DEF Inv, Working
<1>7. Earned'
  BY <1>3, <1>4, PlanFacts DEF Inv, Earned
<1> QED
  BY <1>3, <1>5, <1>6, <1>7 DEF Inv

-----------------------------------------------------------------------------
(* The process.                                                            *)

LEMMA CrashInv ==
  ASSUME Inv, Crash
  PROVE  Inv'
<1>1. /\ Child!Crash /\ Flow!Crash /\ at' = Idle /\ seen' = "none" /\ waitErr' = FALSE
      /\ UNCHANGED stored
  BY ProcessActions DEF Crash
<1>2. Child!Inv' /\ Flow!Inv'
  <2>1. Child!Inv'
    BY <1>1, WorkflowRunAssumption, Child!CrashInv DEF Inv
  <2>2. Flow!Inv'
    BY <1>1, Flow!CrashInv DEF Inv
  <2> QED
    BY <2>1, <2>2
<1>3. ASSUME NEW c \in Children
      PROVE  Now(c)' = IF Now(c) \in Unfinished THEN "failed" ELSE Now(c)
  <2>1. Child!Status' = [d \in Children |-> IF Child!Status[d] \in Child!Unfinished
                                            THEN "failed" ELSE Child!Status[d]]
    BY <1>1, WorkflowRunAssumption, Child!CrashMaps DEF Inv
  <2>2. Child!Status[c] = Now(c) /\ Child!Status'[c] = Now(c)'
    BY DEF Child!Status, Now
  <2> QED
    BY <2>1, <2>2 DEF Child!Unfinished, Unfinished
<1>4. FlowNow' = IF FlowNow \in Unfinished THEN "failed" ELSE FlowNow
  <2>1. Flow!Status' = [d \in {wf} |-> IF Flow!Status[d] \in Flow!Unfinished
                                       THEN "failed" ELSE Flow!Status[d]]
    BY <1>1, Flow!CrashMaps DEF Inv
  <2>2. Flow!Status[wf] = FlowNow /\ Flow!Status'[wf] = FlowNow'
    BY DEF Flow!Status, FlowNow
  <2> QED
    BY <2>1, <2>2 DEF Flow!Unfinished, Unfinished
<1>5. /\ \A p \in DOMAIN Plan : Stands(p) => Stands(p)'
      /\ \A s \in Steps : /\ Done(s) => Done(s)'
                          /\ Untouched(s) => Untouched(s)'
  BY <1>1, <1>3, StandsStill DEF Ended, Unfinished
<1>6. \E p \in DOMAIN Plan : Stands(p)
  <2>1. wfPc[wf] \in {"none", "spawned", "running", "returned", "done"}
    BY FlowFacts DEF Inv, FlowSense
  <2> QED
    BY <2>1, PlanFacts DEF Inv, Resting, Working, WorkflowTypeOK
<1>7. ~up' /\ wfPc'[wf] = "none"
  BY <1>1 DEF Flow!Crash
<1>8. WorkflowTypeOK'
  <2>1. Idle \in [step : DOMAIN Plan, label : Labels, polls : Nat]
    BY PlanFacts DEF Idle, Labels
  <2> QED
    BY <1>1, <2>1 DEF Inv, WorkflowTypeOK, Statuses, stored
<1>9. Resting'
  <2>1. FlowNow' = "none" => FlowNow = "none"
    BY <1>4
  <2> QED
    BY <1>1, <1>5, <1>6, <1>7, <2>1, PlanFacts DEF Inv, Resting
<1>10. Working' /\ Earned'
  BY <1>4, <1>5, <1>7, PlanFacts DEF Inv, Working, Earned
<1> QED
  BY <1>2, <1>8, <1>9, <1>10 DEF Inv

LEMMA RestartInv ==
  ASSUME Inv, Restart
  PROVE  Inv'
<1>1. Child!Restart /\ Flow!Restart /\ UNCHANGED <<runner, stored>>
  BY ProcessActions DEF Restart
<1>2. Child!Inv' /\ Flow!Inv'
  <2>1. Child!Inv'
    BY <1>1, WorkflowRunAssumption, Child!RestartInv DEF Inv
  <2>2. Flow!Inv'
    BY <1>1, Flow!RestartInv DEF Inv
  <2> QED
    BY <2>1, <2>2
<1>3. \A c \in Children : Now(c)' = Now(c)
  <2>1. Child!Status' = Child!Status
    BY <1>1, WorkflowRunAssumption, Child!RestartMaps DEF Inv
  <2>2. ASSUME NEW c \in Children
        PROVE  Child!Status[c] = Now(c) /\ Child!Status'[c] = Now(c)'
    BY DEF Child!Status, Now
  <2> QED
    BY <2>1, <2>2
<1>4. FlowNow' = FlowNow
  <2>1. Flow!Status' = Flow!Status
    BY <1>1, Flow!RestartMaps DEF Inv
  <2>2. Flow!Status[wf] = FlowNow /\ Flow!Status'[wf] = FlowNow'
    BY DEF Flow!Status, FlowNow
  <2> QED
    BY <2>1, <2>2
<1>5. /\ \A p \in DOMAIN Plan : Stands(p) => Stands(p)'
      /\ \A s \in Steps : /\ Done(s) => Done(s)'
                          /\ Untouched(s) => Untouched(s)'
  BY <1>1, <1>3, StandsStill
<1>6. ~up /\ wfPc' = wfPc /\ at' = at /\ waitErr' = waitErr
  BY <1>1 DEF Flow!Restart, Flow!goroutine, runner
<1>7. wfPc[wf] = "none" /\ \A c \in Children : Now(c) \notin Unfinished
  BY <1>6, FlowFacts, ChildFacts DEF Inv, FlowSense, ChildSense
<1>8. WorkflowTypeOK'
  BY <1>1 DEF Inv, WorkflowTypeOK, runner, stored
<1>9. Resting'
  BY <1>3, <1>4, <1>5, <1>6, <1>7, PlanFacts DEF Inv, Resting
<1>10. Working' /\ Earned'
  BY <1>4, <1>5, <1>6, <1>7, PlanFacts DEF Inv, Working, Earned
<1> QED
  BY <1>2, <1>8, <1>9, <1>10 DEF Inv

-----------------------------------------------------------------------------
(* The invariant, and what follows from it.                                *)

LEMMA InitInv == Init => Inv
<1> SUFFICES ASSUME Init PROVE Inv
  OBVIOUS
<1>1. Child!Init /\ Flow!Init
  BY DEF Init, J!Init, Child!Init, J!Blank, Child!Blank, W!Init, Flow!Init, W!Blank,
     Flow!Blank
<1>2. Child!Inv /\ Flow!Inv
  BY <1>1, WorkflowRunAssumption, Child!InitInv, Flow!InitInv
<1>3. /\ up /\ wfPc[wf] = "none" /\ FlowNow = "none"
      /\ \A c \in Children : Now(c) = "none"
  BY <1>1 DEF Child!Init, Flow!Init, Now, FlowNow, Child!Trusted, Flow!Trusted,
     Child!Blank, Flow!Blank
<1>4. WorkflowTypeOK /\ \A s \in Steps : Untouched(s)
  <2>1. Idle \in [step : DOMAIN Plan, label : Labels, polls : Nat]
    BY PlanFacts DEF Idle, Labels
  <2> QED
    BY <1>3, <2>1 DEF Init, WorkflowTypeOK, Statuses, Untouched
<1>5. Stands(1) /\ Untouched(Plan[1]) /\ 1 \in DOMAIN Plan
  <2>1. 1 \in DOMAIN Plan /\ \A i \in DOMAIN Plan : ~(i < 1)
    BY PlanFacts
  <2>2. \A i \in DOMAIN Plan : Untouched(Plan[i])
    BY <1>4, PlanFacts
  <2>3. \A i \in DOMAIN Plan : Untouched(Plan[i]) => Agrees(Plan[i])
    BY DEF Untouched, Agrees, Ended
  <2> QED
    BY <2>1, <2>2, <2>3 DEF Stands
<1>6. Resting
  BY <1>3, <1>5 DEF Init, Resting, Unfinished
<1>7. Working /\ Earned
  BY <1>3 DEF Working, Earned
<1> QED
  BY <1>2, <1>4, <1>6, <1>7 DEF Inv

LEMMA StutterInv ==
  ASSUME Inv, UNCHANGED vars
  PROVE  Inv'
<1>1. UNCHANGED <<up, jobVars, wfVars, runner, stored>>
  BY DEF vars
<1>2. Child!Inv' /\ Flow!Inv' /\ FlowNow' = FlowNow
      /\ \A c \in Children : Now(c)' = Now(c)
  BY <1>1, ChildrenStay, FlowStays DEF Inv
<1>3. /\ at' = at /\ waitErr' = waitErr /\ seen' = seen /\ steps' = steps
      /\ written' = written /\ wfPc' = wfPc /\ wfCtx' = wfCtx /\ jobCtx' = jobCtx
      /\ wfEntry' = wfEntry /\ wfOutcome' = wfOutcome /\ up' = up /\ Step' = Step
  BY <1>1 DEF jobVars, wfVars, runner, stored, Step
<1>4. /\ \A p \in DOMAIN Plan : Stands(p) => Stands(p)'
      /\ \A s \in Steps : /\ Done(s) => Done(s)'
                          /\ Untouched(s) => Untouched(s)'
  BY <1>1, <1>2, StandsStill
<1>5. WorkflowTypeOK' /\ Resting' /\ Earned'
  BY <1>2, <1>3, <1>4, PlanFacts DEF Inv, WorkflowTypeOK, Resting, Earned
<1>6. Step \in Steps /\ Waits(Step) => Waits(Step)'
  <2>1. Step \in Children => Now(Step)' = Now(Step)
    BY <1>2, <1>3
  <2>2. Step \in Steps => (Untouched(Step) => Untouched(Step)')
                          /\ (Done(Step) => Done(Step)')
    BY <1>3, <1>4
  <2> QED
    BY <1>3, <2>1, <2>2 DEF Waits
<1>7. Working'
  <2>1. at.step \in DOMAIN Plan /\ Step \in Steps
    BY PlanFacts DEF Inv, WorkflowTypeOK, Step
  <2> QED
    BY <1>2, <1>3, <1>4, <1>6, <2>1 DEF Inv, Working
<1> QED
  BY <1>2, <1>5, <1>7 DEF Inv

LEMMA NextInv == Inv /\ [Next]_vars => Inv'
<1> SUFFICES ASSUME Inv, [Next]_vars PROVE Inv'
  OBVIOUS
<1>1. CASE RunnerStep
  BY <1>1, SubmitChildInv, WatchingInv, CancelingInv, StepStartedInv, StepFinishedInv,
     StartImportInv, ImportInv, HandOffInv, ReturnInv DEF RunnerStep
<1>2. CASE ManagerStep
  BY <1>2, SubmitWorkflowInv, BeginWorkflowInv, EndWorkflowInv, CancelWorkflowInv
     DEF ManagerStep
<1>3. CASE \E c \in Children : ChildStep(c)
  BY <1>3, ChildStepInv
<1>4. CASE Crash \/ Restart \/ UNCHANGED vars
  BY <1>4, CrashInv, RestartInv, StutterInv
<1> QED
  BY <1>1, <1>2, <1>3, <1>4 DEF Next

\* Every reachable state is in order: the plan is done up to one step, and
\* the runner knows where that step is.
THEOREM InvHolds == Spec => []Inv
BY InitInv, NextInv, PTL DEF Spec

\* Both names of what is trusted mean the same.
LEMMA TrustedNames ==
  /\ \A c \in Children : J!Trusted(c).status = Now(c)
  /\ W!Trusted(wf).status = FlowNow
<1>1. \A rec : J!Reloaded(rec) = Child!Reloaded(rec) /\ W!Reloaded(rec) = Flow!Reloaded(rec)
  BY DEF J!Reloaded, Child!Reloaded, J!LogEvent, Child!LogEvent, J!Unfinished,
     Child!Unfinished, W!Reloaded, Flow!Reloaded, W!LogEvent, Flow!LogEvent, W!Unfinished,
     Flow!Unfinished
<1> QED
  BY <1>1 DEF Now, FlowNow, J!Trusted, Child!Trusted, W!Trusted, Flow!Trusted

LEMMA SomeStand == Inv => \E p \in DOMAIN Plan : Stands(p)
<1> SUFFICES ASSUME Inv PROVE \E p \in DOMAIN Plan : Stands(p)
  OBVIOUS
<1>1. wfPc[wf] \in {"none", "spawned", "running", "returned", "done"}
  BY FlowFacts DEF Inv, FlowSense
<1> QED
  BY <1>1, PlanFacts DEF Inv, Resting, Working, WorkflowTypeOK

\* A child exists only behind steps that have all succeeded (StepsInOrder),
\* whatever was canceled, failed or died: the plan stands at one step.
THEOREM StepsInOrderHolds == Spec => []StepsInOrder
<1>1. Inv => StepsInOrder
  <2> SUFFICES ASSUME Inv, NEW i \in DOMAIN Plan, Plan[i] \in Children,
                      Now(Plan[i]) # "none", NEW k \in 1 .. (i - 1)
               PROVE  Succeeded(Plan[k])
    BY TrustedNames DEF StepsInOrder
  <2>1. PICK p \in DOMAIN Plan : Stands(p)
    BY SomeStand
  <2>2. i <= p
    <3>1. ~Untouched(Plan[i])
      BY DEF Untouched
    <3> QED
      BY <2>1, <3>1, PlanFacts DEF Stands
  <2>3. k \in DOMAIN Plan /\ k < p
    BY <2>1, <2>2, PlanFacts
  <2>4. Done(Plan[k])
    BY <2>1, <2>3 DEF Stands
  <2> QED
    BY <2>3, <2>4, TrustedNames, PlanFacts DEF Done, Succeeded
<1> QED
  BY <1>1, InvHolds, PTL

\* A succeeded workflow has earned it, and the records of workflow and
\* children never contradict each other (SuccessIsEarned).
THEOREM SuccessIsEarnedHolds == Spec => []SuccessIsEarned
<1>1. Inv => SuccessIsEarned
  <2> SUFFICES ASSUME Inv PROVE SuccessIsEarned
    OBVIOUS
  <2>1. PICK p \in DOMAIN Plan : Stands(p)
    BY SomeStand
  <2>2. ASSUME NEW s \in Steps
        PROVE  Done(s) \/ Agrees(s) \/ Untouched(s)
    BY <2>1, PlanFacts DEF Stands
  <2>3. ASSUME FlowNow = "succeeded", NEW s \in Steps
        PROVE  Succeeded(s) /\ steps[s] = "succeeded" /\ s \in written
    <3>1. Done(s)
      BY <2>3, PlanFacts DEF Inv, Earned
    <3> QED
      BY <3>1, TrustedNames, PlanFacts DEF Done, Succeeded
  <2>4. ASSUME NEW c \in Children
        PROVE  /\ steps[c] \in Ended => Now(c) = steps[c]
               /\ c \in written => Succeeded(c)
    <3>1. c \in Steps /\ c # ImportStep
      BY PlanFacts DEF Children
    <3>2. c \in written => Now(c) = "succeeded"
      BY <2>2, <3>1 DEF Done, Agrees, Untouched
    <3>3. steps[c] \in Ended => Now(c) = steps[c]
      BY <2>2, <3>1 DEF Done, Agrees, Untouched, Ended
    <3> QED
      BY <3>1, <3>2, <3>3, TrustedNames DEF Succeeded
  <2>5. ImportStep \in written => steps[ImportStep] \in {"running", "succeeded"}
    BY <2>2 DEF Inv, WorkflowTypeOK, Done, Agrees, Untouched
  <2> QED
    BY <2>3, <2>4, <2>5, TrustedNames
       DEF SuccessIsEarned, Terminal, J!Terminal, Ended
<1> QED
  BY <1>1, InvHolds, PTL

\* A workflow that has ended leaves no child at work but one that it canceled
\* and gave up on, and then it was canceled itself (NoChildOutlivesWorkflow).
THEOREM NoChildOutlivesHolds == Spec => []NoChildOutlivesWorkflow
<1>1. Inv => NoChildOutlivesWorkflow
  <2> SUFFICES ASSUME Inv, up, wfEntry[wf].status \in Ended, NEW c \in Children,
                      Now(c) \in Unfinished
               PROVE  wfEntry[wf].status = "canceled" /\ jobCtx[c]
    BY ChildFacts DEF NoChildOutlivesWorkflow, Inv, ChildSense, Terminal, J!Terminal, Ended,
       J!Unfinished, Unfinished
  <2>1. wfPc[wf] \in {"none", "done"}
    BY FlowFacts DEF Inv, FlowSense, Ended
  <2>2. wfPc[wf] = "done"
    BY <2>1 DEF Inv, Resting
  <2>3. /\ Stands(at.step) /\ Waits(Step) /\ at.label \in {"result", "error"}
        /\ wfEntry[wf].status = "canceled" /\ Plan[at.step] = Step
    BY <2>2 DEF Inv, Working, Step
  <2>4. PICK i \in DOMAIN Plan : c = Plan[i]
    BY PlanFacts DEF Children
  <2>5. c = Step
    <3>1. ~Done(Plan[i]) /\ ~Untouched(Plan[i])
      BY <2>4 DEF Done, Untouched, Unfinished
    <3>2. i = at.step
      BY <2>3, <3>1, PlanFacts DEF Stands, Inv, WorkflowTypeOK
    <3> QED
      BY <2>3, <2>4, <3>2
  <2>6. jobCtx[c]
    BY <2>3, <2>5 DEF Waits, Done, Unfinished
  <2> QED
    BY <2>3, <2>6
<1> QED
  BY <1>1, InvHolds, PTL

-----------------------------------------------------------------------------
(* The workflow's manager keeps its promises whatever its runner does.     *)

\* Every step is a step of the workflow's manager, logs an event in its name,
\* or leaves it alone.
RunnerLogs ==
  /\ wfPc[wf] = "running" /\ Flow!AddEvent(wf)
  /\ UNCHANGED <<up, Flow!goroutine>>

LEMMA FlowOrStutter ==
  ASSUME Inv, [Next]_vars
  PROVE  [Flow!Next]_(Flow!vars) \/ RunnerLogs
<1>1. ASSUME W!AddEvent(wf), UNCHANGED <<up, wfPc, wfOutcome, wfCanceling, wfCtx>>,
             wfPc[wf] = "running"
      PROVE  RunnerLogs
  BY <1>1, FlowActions DEF RunnerLogs, Flow!goroutine
<1>2. ASSUME UNCHANGED <<up, wfVars>>
      PROVE  UNCHANGED Flow!vars
  BY <1>2 DEF Flow!vars, wfVars
<1>3. ASSUME W!SubmitSpec(wf) \/ W!RunBegin(wf) \/ W!RunnerReturn(wf) \/ W!RunEnd(wf)
             \/ W!CancelRecord(wf) \/ W!CancelFire(wf) \/ W!Crash \/ W!Restart
      PROVE  Flow!Next
  BY <1>3, FlowActions, ProcessActions DEF Flow!Next
<1>4. CASE RunnerStep
  <2>1. CASE StepStarted \/ StepFinished \/ StartImport \/ HandOff
    BY <1>1, <1>2, <2>1 DEF StepStarted, StepFinished, StartImport, HandOff, UpsertStep, At,
       Goto, wfVars
  <2>2. CASE SubmitChild \/ SnapshotChild \/ GetChild \/ SelectTick \/ SelectDone
             \/ CancelChild \/ FireChild \/ Poll \/ Import
    <3>1. UNCHANGED <<up, wfVars>>
      BY <2>2 DEF SubmitChild, SnapshotChild, GetChild, SelectTick, SelectDone,
         CancelChild, FireChild, Poll, Import, J!SubmitSpec, J!CancelRecord, J!CancelFire
    <3> QED
      BY <1>2, <3>1
  <2>3. CASE Return
    BY <1>3, <2>3 DEF Return
  <2> QED
    BY <1>4, <2>1, <2>2, <2>3 DEF RunnerStep
<1>5. CASE ManagerStep
  BY <1>3, <1>5 DEF ManagerStep, SubmitWorkflow, BeginWorkflow, EndWorkflow,
     CancelWorkflow, CancelWorkflowContext
<1>6. ASSUME NEW c \in Children, ChildStep(c)
      PROVE  UNCHANGED Flow!vars
  BY <1>2, <1>6 DEF ChildStep, ChildBegin, ChildReturn, ChildEnd, CancelJob,
     CancelJobContext, J!RunBegin, J!RunnerReturn, J!RunEnd, J!CancelRecord, J!CancelFire
<1>7. CASE Crash \/ Restart
  BY <1>3, <1>7 DEF Crash, Restart
<1>8. CASE UNCHANGED vars
  BY <1>2, <1>8 DEF vars
<1> QED
  BY <1>4, <1>5, <1>6, <1>7, <1>8 DEF Next

\* Both names of the manager's promises mean the same.
LEMMA PromiseNames ==
  /\ [f \in {wf} |-> W!Trusted(f).status] = Flow!Status
  /\ {f \in {wf} : W!CancelRequested(W!Trusted(f))} = Flow!Asked
<1>1. \A rec : W!Reloaded(rec) = Flow!Reloaded(rec)
  BY DEF W!Reloaded, Flow!Reloaded, W!LogEvent, Flow!LogEvent, W!Unfinished,
     Flow!Unfinished
<1>2. \A f \in {wf} : W!Trusted(f) = Flow!Trusted(f)
  BY <1>1 DEF W!Trusted, Flow!Trusted
<1>3. \A rec : W!CancelRequested(rec) <=> Flow!CancelRequested(rec)
  BY DEF W!CancelRequested, Flow!CancelRequested
<1> QED
  BY <1>2, <1>3 DEF Flow!Status, Flow!Asked

LEMMA PromiseNamesNext ==
  /\ [f \in {wf} |-> W!Trusted(f).status]' = Flow!Status'
  /\ {f \in {wf} : W!CancelRequested(W!Trusted(f))}' = Flow!Asked'
<1>1. \A rec : W!Reloaded(rec) = Flow!Reloaded(rec)
  BY DEF W!Reloaded, Flow!Reloaded, W!LogEvent, Flow!LogEvent, W!Unfinished,
     Flow!Unfinished
<1>2. \A f \in {wf} : W!Trusted(f)' = Flow!Trusted(f)'
  BY <1>1 DEF W!Trusted, Flow!Trusted
<1>3. \A rec : W!CancelRequested(rec) <=> Flow!CancelRequested(rec)
  BY DEF W!CancelRequested, Flow!CancelRequested
<1> QED
  BY <1>2, <1>3 DEF Flow!Status, Flow!Asked

\* The workflow's manager implements Lifecycle (WorkflowLifecycle) although
\* its runner logs events and works on the jobs of another manager between
\* two of its steps.
THEOREM WorkflowLifecycleHolds == Spec => WorkflowLifecycle
<1>1. Init => W!Abstract!LifecycleInit
  <2> SUFFICES ASSUME Init PROVE W!Abstract!LifecycleInit
    OBVIOUS
  <2>1. Flow!Init
    BY DEF Init, W!Init, Flow!Init, W!Blank, Flow!Blank
  <2>2. Flow!Abstract!LifecycleInit
    BY <2>1, Flow!InitMaps
  <2> QED
    BY <2>2, PromiseNames
       DEF Flow!Abstract!LifecycleInit, W!Abstract!LifecycleInit, Flow!Status, Flow!Asked
<1>2. Inv /\ [Next]_vars => [W!Abstract!LifecycleNext]_(W!Abstract!lvars)
  <2> SUFFICES ASSUME Inv, [Next]_vars
               PROVE  W!Abstract!LifecycleNext \/ UNCHANGED W!Abstract!lvars
    OBVIOUS
  <2>1. CASE Flow!Status' = Flow!Status /\ Flow!Asked' = Flow!Asked
    BY <2>1, PromiseNames, PromiseNamesNext DEF W!Abstract!lvars
  <2>2. CASE Flow!Abstract!LifecycleNext
    BY <2>2, PromiseNames, PromiseNamesNext
       DEF Flow!Abstract!LifecycleNext, Flow!Abstract!Accept, Flow!Abstract!Begin,
           Flow!Abstract!Request, Flow!Abstract!End, Flow!Abstract!Interrupt,
           Flow!Abstract!Unfinished, Flow!Abstract!Terminal,
           W!Abstract!LifecycleNext, W!Abstract!Accept, W!Abstract!Begin,
           W!Abstract!Request, W!Abstract!End, W!Abstract!Interrupt,
           W!Abstract!Unfinished, W!Abstract!Terminal, Flow!Status, Flow!Asked
  <2>3. [Flow!Next]_(Flow!vars) => Flow!Abstract!LifecycleNext
          \/ (Flow!Status' = Flow!Status /\ Flow!Asked' = Flow!Asked)
    BY Flow!StepMaps DEF Inv
  <2>4. RunnerLogs => Flow!Status' = Flow!Status /\ Flow!Asked' = Flow!Asked
    BY Flow!CustomEventMaps DEF Inv, RunnerLogs
  <2> QED
    BY <2>1, <2>2, <2>3, <2>4, FlowOrStutter
<1> QED
  BY <1>1, <1>2, InvHolds, PTL
     DEF Spec, WorkflowLifecycle, W!ImplementsLifecycle, W!Abstract!LifecycleSpec


-----------------------------------------------------------------------------
(* What becomes of cancel requests, on both levels.                        *)

\* Every step is one of the job manager's, or leaves it alone.
LEMMA ChildOrStutter ==
  ASSUME Inv, [Next]_vars
  PROVE  [Child!Next]_(Child!vars)
<1>1. ASSUME UNCHANGED <<up, jobVars>>
      PROVE  UNCHANGED Child!vars
  BY <1>1 DEF Child!vars, jobVars
<1>2. ASSUME NEW c \in Children,
             \/ J!SubmitSpec(c) \/ J!RunBegin(c) \/ J!RunnerReturn(c) \/ J!RunEnd(c)
             \/ J!CancelRecord(c) \/ J!CancelFire(c)
      PROVE  Child!Next
  BY <1>2, ChildActions DEF Child!Next
<1>3. CASE RunnerStep
  <2>1. CASE SubmitChild \/ CancelChild \/ FireChild
    <3>1. Step \in Children
      BY <2>1, RunnerKnows, PlanFacts DEF SubmitChild, CancelChild, FireChild, At, Waits
    <3> QED
      BY <1>1, <1>2, <2>1, <3>1 DEF SubmitChild, CancelChild, FireChild
  <2>2. CASE Return
    BY <1>1, <2>2 DEF Return, W!RunnerReturn
  <2>3. CASE SnapshotChild \/ GetChild \/ SelectTick \/ SelectDone \/ Poll \/ Import
             \/ StepStarted \/ StepFinished \/ StartImport \/ HandOff
    BY <1>1, <2>3 DEF SnapshotChild, GetChild, SelectTick, SelectDone, Poll, Import,
       StepStarted, StepFinished, StartImport, HandOff, UpsertStep
  <2> QED
    BY <1>3, <2>1, <2>2, <2>3 DEF RunnerStep
<1>4. CASE ManagerStep
  BY <1>1, <1>4 DEF ManagerStep, SubmitWorkflow, BeginWorkflow, EndWorkflow,
     CancelWorkflow, CancelWorkflowContext, W!SubmitSpec, W!RunBegin, W!RunEnd,
     W!CancelRecord, W!CancelFire
<1>5. ASSUME NEW c \in Children, ChildStep(c)
      PROVE  Child!Next
  BY <1>2, <1>5 DEF ChildStep, ChildBegin, ChildReturn, ChildEnd, CancelJob,
     CancelJobContext
<1>6. CASE Crash \/ Restart
  BY <1>6, ProcessActions DEF Crash, Restart, Child!Next
<1>7. CASE UNCHANGED vars
  BY <1>1, <1>7 DEF vars
<1> QED
  BY <1>3, <1>4, <1>5, <1>6, <1>7 DEF Next

\* The jobs of a workflow are run by a job manager as JobManager specifies it:
\* what is proved of every job, whoever submits and cancels it, holds of them.
THEOREM ChildrenAreJobs == Spec => Child!Spec
<1>1. Init => Child!Init
  BY DEF Init, J!Init, Child!Init, J!Blank, Child!Blank
<1>2. Inv /\ [Next]_vars => [Child!Next]_(Child!vars)
  BY ChildOrStutter
<1> QED
  BY <1>1, <1>2, InvHolds, PTL DEF Spec, Child!Spec

\* No accepted cancel is lost on its way to a context, neither that of a child,
\* be it the client's or the runner's, nor that of the workflow, although its
\* runner writes into the same record.
CancelsNotLost == Child!CancelNotLost /\ Flow!CancelNotLost

THEOREM CancelsNotLostHolds == Spec => []CancelsNotLost
<1>1. Init => CancelsNotLost
  <2> SUFFICES ASSUME Init PROVE CancelsNotLost
    OBVIOUS
  <2>1. Child!Init /\ Flow!Init
    BY DEF Init, J!Init, Child!Init, J!Blank, Child!Blank, W!Init, Flow!Init, W!Blank,
       Flow!Blank
  <2>2. Child!CancelNotLost
    BY <2>1, Child!BlankProperties, WorkflowRunAssumption DEF Child!Init, Child!CancelNotLost
  <2>3. Flow!CancelNotLost
    BY <2>1, Flow!BlankProperties DEF Flow!Init, Flow!CancelNotLost
  <2> QED
    BY <2>2, <2>3 DEF CancelsNotLost
<1>2. Inv /\ CancelsNotLost /\ [Next]_vars => CancelsNotLost'
  <2> SUFFICES ASSUME Inv, CancelsNotLost, [Next]_vars PROVE CancelsNotLost'
    OBVIOUS
  <2>1. Child!CancelNotLost'
    BY ChildOrStutter, Child!CancelNotLostStep, WorkflowRunAssumption DEF Inv, CancelsNotLost
  <2>2. Flow!CancelNotLost'
    BY FlowOrStutter, Flow!CancelNotLostStep, Flow!CustomEventKeepsCancel
       DEF Inv, RunnerLogs, CancelsNotLost
  <2> QED
    BY <2>1, <2>2 DEF CancelsNotLost
<1> QED
  BY <1>1, <1>2, InvHolds, PTL DEF Spec
===============================================================================
