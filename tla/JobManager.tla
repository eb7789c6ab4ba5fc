----------------------------- MODULE JobManager -----------------------------
(***************************************************************************)
(* The job manager of internal/jobs/jobs.go: an in-memory table of jobs    *)
(* under one mutex, one goroutine per job, cancellation through a          *)
(* context.Context, and one JSON record per job on disk that the next      *)
(* process loads.  internal/workflows/workflows.go is the same manager     *)
(* over another record; module WorkflowRun instantiates this one for it.   *)
(*                                                                         *)
(* A critical section under Manager.mu is one action: no other goroutine   *)
(* of the process sees its middle, and the record is renamed into place    *)
(* inside it.  What happens outside the mutex is a step of its own: the    *)
(* call of cancel() after Cancel unlocked, the return of the runner, the   *)
(* start of the goroutine.                                                 *)
(*                                                                         *)
(* Abstractions.  Times and messages are dropped; StartedAt and FinishedAt *)
(* are booleans (set or not).  A job has one artifact.  A record on disk   *)
(* is whole or "damaged" (not readable as JSON): Save writes a temporary   *)
(* file and renames it, so a crash never leaves half a record.             *)
(***************************************************************************)
EXTENDS Naturals, Sequences, FiniteSets

CONSTANTS
  Jobs,              \* job ids, never reused (nextID: clock and counter)
  Watched,           \* the jobs with a progress watcher (benchmark jobs)
  ArtifactStatuses,  \* what a runner may write into its artifact's status
  MaxCancels,        \* bound: accepted cancel requests per job
  MaxEvents,         \* bound: event logs up to this length get custom events
  SaveMayFail,       \* fileStore.Save may return an error (which is ignored)
  DamageMayHappen    \* a stored record may become unreadable

ASSUME JobManagerAssumption ==
  /\ Watched \subseteq Jobs
  /\ "planned" \in ArtifactStatuses
  /\ MaxCancels \in Nat
  /\ MaxEvents \in Nat
  /\ SaveMayFail \in BOOLEAN
  /\ DamageMayHappen \in BOOLEAN

VARIABLES
  up,          \* the service process is running and has loaded its records
  entry,       \* Manager.entries: job and events, volatile
  disk,        \* the record files, durable
  pc,          \* the goroutine of each job
  outcome,     \* what the runner returned, until run() records it
  canceling,   \* Cancel calls that have unlocked and not yet called cancel()
  ctxCanceled  \* the job's context is canceled

vars == <<up, entry, disk, pc, outcome, canceling, ctxCanceled>>

goroutine == <<pc, outcome, canceling, ctxCanceled>>

-----------------------------------------------------------------------------
(* Records.                                                                *)

Unfinished == {"queued", "running"}
Terminal   == {"succeeded", "failed", "canceled"}

EventTypes == Unfinished \cup Terminal \cup
              {"cancel_requested", "interrupted", "custom"}

Event == [type : EventTypes, status : Unfinished \cup Terminal]

\* "none" stands for no entry in the table, or no record file.
Record ==
  [status   : {"none", "damaged"} \cup Unfinished \cup Terminal,
   error    : {"none", "runner", "interrupted"},
   result   : BOOLEAN,
   started  : BOOLEAN,
   finished : BOOLEAN,
   artifact : ArtifactStatuses,
   events   : Seq(Event)]

Blank == [status |-> "none", error |-> "none", result |-> FALSE,
          started |-> FALSE, finished |-> FALSE, artifact |-> "planned",
          events |-> <<>>]

Damaged == [Blank EXCEPT !.status = "damaged"]

LogEvent(rec, type, status) ==
  [rec EXCEPT !.events = Append(@, [type |-> type, status |-> status])]

CountEvents(rec, type) ==
  Cardinality({i \in DOMAIN rec.events : rec.events[i].type = type})

CancelRequested(rec) ==
  \E i \in DOMAIN rec.events : rec.events[i].type = "cancel_requested"

-----------------------------------------------------------------------------
(* Persistence: persistLocked stores the entry as it now is and ignores    *)
(* the error of Save, which leaves the former record in place.             *)

Persist(j) ==
  \/ disk' = [disk EXCEPT ![j] = entry'[j]]
  \/ SaveMayFail /\ UNCHANGED disk

UpdateEntry(j, rec) ==
  /\ entry' = [entry EXCEPT ![j] = rec]
  /\ Persist(j)

-----------------------------------------------------------------------------
Init ==
  /\ up = TRUE
  /\ entry = [j \in Jobs |-> Blank]
  /\ disk = [j \in Jobs |-> Blank]
  /\ pc = [j \in Jobs |-> "none"]
  /\ outcome = [j \in Jobs |-> "none"]
  /\ canceling = [j \in Jobs |-> 0]
  /\ ctxCanceled = [j \in Jobs |-> FALSE]

\* SubmitSpec: insert the entry and store it, then start the goroutine.  An id
\* is free again only when a failed Save and a crash left no trace of it, and
\* then stands for the next fresh one.
SubmitSpec(j) ==
  /\ up
  /\ entry[j].status = "none"
  /\ disk[j].status = "none"
  /\ UpdateEntry(j, LogEvent([Blank EXCEPT !.status = "queued"],
                             "queued", "queued"))
  /\ pc' = [pc EXCEPT ![j] = "spawned"]
  /\ UNCHANGED <<up, outcome, canceling, ctxCanceled>>

\* run, first critical section.  It looks at neither the context nor the
\* status: a job canceled while queued runs too.
RunBegin(j) ==
  /\ pc[j] = "spawned"
  /\ UpdateEntry(j, LogEvent([entry[j] EXCEPT !.status = "running",
                                              !.started = TRUE],
                             "running", "running"))
  /\ pc' = [pc EXCEPT ![j] = "running"]
  /\ UNCHANGED <<up, outcome, canceling, ctxCanceled>>

\* Recorder.Event and Recorder.Progress: addEvent with an empty status takes
\* the job's current one.
AddEvent(j) ==
  UpdateEntry(j, LogEvent(entry[j], "custom", entry[j].status))

RunnerEvent(j) ==
  /\ pc[j] = "running"
  /\ Len(entry[j].events) < MaxEvents
  /\ AddEvent(j)
  /\ UNCHANGED <<up, goroutine>>

\* watchBenchmarkProgress, the goroutine beside a benchmark's runner, logs the
\* progress file through the same recorder.  Nobody waits for it: it may read
\* the file, or win the select against ctx.Done(), after the job has ended.
WatcherEvent(j) ==
  /\ j \in Watched
  /\ pc[j] \in {"running", "returned", "done"}
  /\ Len(entry[j].events) < MaxEvents
  /\ AddEvent(j)
  /\ UNCHANGED <<up, goroutine>>

\* Mutant: the new artifact status is not persisted.
UpdateArtifact_Unsaved(j, s) ==
  /\ entry' = [entry EXCEPT ![j].artifact = s]
  /\ UNCHANGED disk

\* Recorder.Artifact: updateArtifact stores the new status, logs no event.
UpdateArtifact(j, s) ==
  UpdateEntry(j, [entry[j] EXCEPT !.artifact = s])

RunnerArtifact(j) ==
  /\ pc[j] = "running"
  /\ \E s \in ArtifactStatuses : UpdateArtifact(j, s)
  /\ UNCHANGED <<up, goroutine>>

\* The runner returns a result or an error, the context canceled or not: a
\* runner that no longer looks at its context succeeds in spite of it.
RunnerReturn(j) ==
  /\ pc[j] = "running"
  /\ \E o \in {"ok", "error"} : outcome' = [outcome EXCEPT ![j] = o]
  /\ pc' = [pc EXCEPT ![j] = "returned"]
  /\ UNCHANGED <<up, entry, disk, canceling, ctxCanceled>>

\* Mutant: any error of the runner is taken for a cancellation.
Finished_ErrorIsCancel(rec, o, canceled) ==
  LET status == IF canceled \/ o = "error" THEN "canceled" ELSE "succeeded"
  IN LogEvent([rec EXCEPT !.status = status, !.finished = TRUE], status, status)

\* Mutant: a runner that returned a result succeeds, canceled or not.
Finished_ResultWins(rec, o, canceled) ==
  LET status == IF o = "ok" THEN "succeeded"
                ELSE IF canceled THEN "canceled" ELSE "failed"
  IN LogEvent([rec EXCEPT !.status = status, !.finished = TRUE], status, status)

\* The record run() leaves: a canceled context wins over the outcome, and
\* drops both the error and the result of the runner.
Finished(rec, o, canceled) ==
  CASE canceled ->
         LogEvent([rec EXCEPT !.status = "canceled", !.finished = TRUE],
                  "canceled", "canceled")
    [] ~canceled /\ o = "error" ->
         LogEvent([rec EXCEPT !.status = "failed", !.finished = TRUE,
                              !.error = "runner"], "failed", "failed")
    [] ~canceled /\ o # "error" ->
         LogEvent([rec EXCEPT !.status = "succeeded", !.finished = TRUE,
                              !.result = TRUE], "succeeded", "succeeded")

\* run, last critical section.
RunEnd(j) ==
  /\ pc[j] = "returned"
  /\ UpdateEntry(j, Finished(entry[j], outcome[j], ctxCanceled[j]))
  /\ pc' = [pc EXCEPT ![j] = "done"]
  /\ outcome' = [outcome EXCEPT ![j] = "none"]
  /\ UNCHANGED <<up, canceling, ctxCanceled>>

\* Mutant: Cancel does not check for a terminal status.
CancelRecord_AnyStatus(j) ==
  /\ up
  /\ entry[j].status # "none"
  /\ CountEvents(entry[j], "cancel_requested") < MaxCancels
  /\ UpdateEntry(j, LogEvent(entry[j], "cancel_requested", entry[j].status))
  /\ canceling' = [canceling EXCEPT ![j] = @ + 1]
  /\ UNCHANGED <<up, pc, outcome, ctxCanceled>>

\* Cancel under the mutex: an unfinished job gets the event and the caller
\* is told "canceled".  (For a missing or terminal job Cancel changes
\* nothing.)  The status stays what it was.
CancelRecord(j) ==
  /\ up
  /\ entry[j].status \in Unfinished
  /\ CountEvents(entry[j], "cancel_requested") < MaxCancels
  /\ UpdateEntry(j, LogEvent(entry[j], "cancel_requested", entry[j].status))
  /\ canceling' = [canceling EXCEPT ![j] = @ + 1]
  /\ UNCHANGED <<up, pc, outcome, ctxCanceled>>

\* Mutant: the request is logged, but cancel() is never called.
CancelFire_Dropped(j) ==
  /\ canceling[j] > 0
  /\ canceling' = [canceling EXCEPT ![j] = @ - 1]
  /\ UNCHANGED <<up, entry, disk, pc, outcome, ctxCanceled>>

\* Cancel after the unlock: cancel().
CancelFire(j) ==
  /\ canceling[j] > 0
  /\ canceling' = [canceling EXCEPT ![j] = @ - 1]
  /\ ctxCanceled' = [ctxCanceled EXCEPT ![j] = TRUE]
  /\ UNCHANGED <<up, entry, disk, pc, outcome>>

\* The process dies: goroutines and the table are gone, the files stay.
Crash ==
  /\ up
  /\ up' = FALSE
  /\ entry' = [j \in Jobs |-> Blank]
  /\ pc' = [j \in Jobs |-> "none"]
  /\ outcome' = [j \in Jobs |-> "none"]
  /\ canceling' = [j \in Jobs |-> 0]
  /\ ctxCanceled' = [j \in Jobs |-> FALSE]
  /\ UNCHANGED disk

\* External: a record file becomes unreadable while nobody holds it.
Damage(j) ==
  /\ DamageMayHappen
  /\ ~up
  /\ disk[j].status # "none"
  /\ disk' = [disk EXCEPT ![j] = Damaged]
  /\ UNCHANGED <<up, entry, goroutine>>

\* Mutants: the reload leaves unfinished jobs alone; queues them again; logs
\* no event; writes a status clients do not know; fails whatever did not
\* succeed.
Reloaded_AsStored(rec) == rec

Reloaded_Requeued(rec) ==
  IF rec.status \in Unfinished
  THEN LogEvent([rec EXCEPT !.status = "queued"], "queued", "queued")
  ELSE rec

Reloaded_Unlogged(rec) ==
  IF rec.status \in Unfinished
  THEN [rec EXCEPT !.status = "failed", !.error = "interrupted",
                   !.finished = TRUE]
  ELSE rec

Reloaded_OwnStatus(rec) ==
  IF rec.status \in Unfinished
  THEN LogEvent([rec EXCEPT !.status = "interrupted"],
                "interrupted", "interrupted")
  ELSE rec

Reloaded_Unsuccessful(rec) ==
  IF rec.status # "succeeded"
  THEN LogEvent([rec EXCEPT !.status = "failed", !.finished = TRUE],
                "interrupted", "failed")
  ELSE rec

\* What loadStoredJobs makes of one stored record.
Reloaded(rec) ==
  IF rec.status \in Unfinished
  THEN LogEvent([rec EXCEPT !.status = "failed", !.error = "interrupted",
                            !.finished = TRUE], "interrupted", "failed")
  ELSE rec

\* Mutant: only the finished jobs are loaded.
Loadable_FinishedOnly(j) ==
  /\ disk[j].status \in Terminal
  /\ \A k \in Jobs : disk[k].status # "damaged"

\* fileStore.Load returns an error as soon as one record is unreadable, and
\* loadStoredJobs then loads none of them.
Loadable(j) ==
  /\ disk[j].status # "none"
  /\ \A k \in Jobs : disk[k].status # "damaged"

\* loadStoredJobs: unfinished jobs become failed, and every loaded entry is
\* stored again.  Fails are the jobs whose record cannot be rewritten.
Restart ==
  /\ ~up
  /\ up' = TRUE
  /\ entry' = [j \in Jobs |-> IF Loadable(j) THEN Reloaded(disk[j]) ELSE Blank]
  /\ \E fails \in SUBSET Jobs :
       /\ fails # {} => SaveMayFail
       /\ disk' = [j \in Jobs |-> IF Loadable(j) /\ j \notin fails
                                  THEN entry'[j] ELSE disk[j]]
  /\ UNCHANGED goroutine

Next ==
  \/ \E j \in Jobs :
       \/ SubmitSpec(j) \/ RunBegin(j) \/ RunnerEvent(j) \/ RunnerArtifact(j)
       \/ WatcherEvent(j) \/ RunnerReturn(j) \/ RunEnd(j) \/ CancelRecord(j)
       \/ CancelFire(j) \/ Damage(j)
  \/ Crash
  \/ Restart

Spec == Init /\ [][Next]_vars

(***************************************************************************)
(* Fairness.  A goroutine that can run is scheduled: it starts, records    *)
(* the outcome of its runner, and a Cancel that has unlocked calls         *)
(* cancel().  A runner is only assumed to return once its context is       *)
(* canceled (the workers are started with exec.CommandContext and the      *)
(* retrieve runner passes its context down); without a cancel it may take  *)
(* forever.                                                                *)
(***************************************************************************)
Fairness ==
  \A j \in Jobs :
    /\ WF_vars(RunBegin(j))
    /\ WF_vars(RunEnd(j))
    /\ WF_vars(CancelFire(j))
    /\ WF_vars(ctxCanceled[j] /\ RunnerReturn(j))

FairSpec == Spec /\ Fairness
-----------------------------------------------------------------------------
(* Properties.                                                             *)

TypeOK ==
  /\ up \in BOOLEAN
  /\ entry \in [Jobs -> Record]
  /\ disk \in [Jobs -> Record]
  /\ pc \in [Jobs -> {"none", "spawned", "running", "returned", "done"}]
  /\ outcome \in [Jobs -> {"none", "ok", "error"}]
  /\ canceling \in [Jobs -> Nat]
  /\ ctxCanceled \in [Jobs -> BOOLEAN]

\* A job the manager reports as unfinished has a goroutine that will finish
\* it: no cancel, crash or restart strands a job in queued or running
\* (loadStoredJobs fails the jobs whose goroutine died with the process).
UnfinishedHasGoroutine ==
  \A j \in Jobs :
    /\ entry[j].status = "queued"  => pc[j] = "spawned"
    /\ entry[j].status = "running" => pc[j] \in {"running", "returned"}

\* The status says what the event log says: the last lifecycle event of a
\* job is the one that gave it its status, and a finished job has exactly
\* one terminal event, which nothing later contradicts.
Lifecycle == Unfinished \cup Terminal \cup {"interrupted"}

LifecycleEvents(rec) ==
  {i \in DOMAIN rec.events : rec.events[i].type \in Lifecycle}

LogMatchesStatus(rec) ==
  rec.status \in Unfinished \cup Terminal =>
    \E i \in LifecycleEvents(rec) :
      /\ \A k \in LifecycleEvents(rec) : k <= i
      /\ rec.events[i].status = rec.status
      /\ \A k \in LifecycleEvents(rec) :
           rec.events[k].status \in Terminal => k = i

EventLogExplainsStatus ==
  \A j \in Jobs : LogMatchesStatus(entry[j]) /\ LogMatchesStatus(disk[j])

\* A job is canceled only if the log of that same job holds an accepted
\* cancel request, in memory and in the stored record: cancel() runs after
\* the request was logged, whatever the interleaving.
CanceledOnRequest ==
  \A j \in Jobs :
    /\ entry[j].status = "canceled" => CancelRequested(entry[j])
    /\ disk[j].status = "canceled" => CancelRequested(disk[j])

\* While the service is up and no Save failed, the files hold exactly what
\* the API reports, so that a crash loses nothing a client has seen.
DiskMirrorsTable ==
  (up /\ ~SaveMayFail) =>
    \A j \in Jobs :
      \/ disk[j] = entry[j]
      \/ \E k \in Jobs : disk[k].status = "damaged"

\* Only a damaged record makes the service forget stored jobs.
ForgottenOnlyByDamage ==
  up => \A j \in Jobs :
          entry[j].status = "none" =>
            \/ disk[j].status = "none"
            \/ \E k \in Jobs : disk[k].status = "damaged"

\* new is old with progress events at the end of its log.
ProgressAdded(old, new) ==
  /\ old = [new EXCEPT !.events = old.events]
  /\ Len(old.events) <= Len(new.events)
  /\ \A i \in DOMAIN new.events :
       IF i <= Len(old.events) THEN new.events[i] = old.events[i]
                               ELSE new.events[i].type = "custom"

Kept(j, old, new) == new = old \/ (j \in Watched /\ ProgressAdded(old, new))

\* Once terminal, a job's record (status, error, result, artifact, events)
\* never changes again while the process lives: not by a late cancel, not
\* by its own goroutine.  Only a benchmark's watcher may add to its log.
TerminalFrozen ==
  [][\A j \in Jobs :
       entry[j].status \in Terminal /\ up' => Kept(j, entry[j], entry'[j])]_vars

\* A stored terminal record survives crashes, restarts and failing saves: it
\* is never rewritten with another outcome or without an event it had.
StoredTerminalFrozen ==
  [][\A j \in Jobs :
       disk[j].status \in Terminal =>
         Kept(j, disk[j], disk'[j]) \/ disk'[j].status = "damaged"]_vars

\* An accepted cancel ends the job, as long as the process lives.
CancelTerminates ==
  \A j \in Jobs :
    CancelRequested(entry[j]) ~> (entry[j].status \in Terminal \/ ~up)

\* A cancel that reached the context of an unfinished job cannot be lost, not
\* even while the job is still queued or its runner has already returned a
\* result: the job ends canceled, as long as the process lives.
CanceledContextWins ==
  \A j \in Jobs :
    (ctxCanceled[j] /\ entry[j].status \in Unfinished)
      ~> (entry[j].status = "canceled" \/ ~up)

-----------------------------------------------------------------------------
(***************************************************************************)
(* The manager implements Lifecycle when saves succeed and records stay    *)
(* readable.  The status a client may rely on is the table's while the     *)
(* process lives, and what the next process will make of the file while it *)
(* is down: an unfinished job has failed at the moment of the crash.       *)
(***************************************************************************)
Trusted(j) == IF up THEN entry[j] ELSE Reloaded(disk[j])

Abstract == INSTANCE Lifecycle WITH
  Ids       <- Jobs,
  state     <- [j \in Jobs |-> Trusted(j).status],
  requested <- {j \in Jobs : CancelRequested(Trusted(j))}

ImplementsLifecycle == Abstract!LifecycleSpec
=============================================================================
