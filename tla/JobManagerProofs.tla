-------------------------- MODULE JobManagerProofs --------------------------
(***************************************************************************)
(* Proofs about JobManager, for every set of jobs, every bound and every   *)
(* combination of the two kinds of fault.                                  *)
(*                                                                         *)
(* The argument has two layers.  The first lemmas are about one record:    *)
(* what appending an event does to it.  The second layer is the inductive  *)
(* invariant Inv, which ties the goroutine of a job to the status its      *)
(* entry shows, the cancellation machinery to the request in the log, and  *)
(* the files to the table.                                                 *)
(***************************************************************************)
EXTENDS JobManager, SequenceTheorems, TLAPS

Statuses == Unfinished \cup Terminal

-----------------------------------------------------------------------------
(* One record.                                                             *)

\* Appending an event keeps a record a record, keeps the events it had and
\* puts the new one at the end.
LEMMA LogEventProperties ==
  ASSUME NEW rec \in Record, NEW t \in EventTypes, NEW s \in Statuses
  PROVE  LET new == LogEvent(rec, t, s)
             n   == Len(rec.events)
         IN /\ new \in Record
            /\ new = [rec EXCEPT !.events = new.events]
            /\ n \in Nat
            /\ DOMAIN rec.events = 1 .. n
            /\ DOMAIN new.events = 1 .. (n + 1)
            /\ \A i \in 1 .. n : new.events[i] = rec.events[i]
            /\ new.events[n + 1].type = t
            /\ new.events[n + 1].status = s
<1> DEFINE e == [type |-> t, status |-> s]
           new == LogEvent(rec, t, s)
<1>1. rec.events \in Seq(Event) /\ e \in Event
  BY DEF Record, Event, Statuses
<1>2. Append(rec.events, e) \in Seq(Event)
  BY <1>1
<1>3. new = [rec EXCEPT !.events = Append(rec.events, e)]
  BY DEF LogEvent
<1>4. new.events = Append(rec.events, e)
  BY <1>3 DEF Record
<1>5. new \in Record
  BY <1>2, <1>3 DEF Record
<1>6. /\ Len(rec.events) \in Nat
      /\ DOMAIN rec.events = 1 .. Len(rec.events)
  BY <1>1, LenProperties
<1>7. /\ Len(new.events) = Len(rec.events) + 1
      /\ DOMAIN new.events = 1 .. Len(new.events)
  BY <1>1, <1>2, <1>4, LenProperties
<1>8. /\ \A i \in 1 .. Len(rec.events) : new.events[i] = rec.events[i]
      /\ new.events[Len(rec.events) + 1] = e
  BY <1>1, <1>4, <1>6
<1> QED
  BY <1>3, <1>4, <1>5, <1>6, <1>7, <1>8

\* Whether a cancel request is in the log depends on the log alone, and only
\* a cancel_requested event puts one there.
LEMMA CancelRequestedAfterEvent ==
  ASSUME NEW rec \in Record, NEW t \in EventTypes, NEW s \in Statuses
  PROVE  CancelRequested(LogEvent(rec, t, s)) <=>
           CancelRequested(rec) \/ t = "cancel_requested"
<1> DEFINE new == LogEvent(rec, t, s)
           n   == Len(rec.events)
<1>1. /\ n \in Nat
      /\ DOMAIN rec.events = 1 .. n
      /\ DOMAIN new.events = 1 .. (n + 1)
      /\ \A i \in 1 .. n : new.events[i] = rec.events[i]
      /\ new.events[n + 1].type = t
  BY LogEventProperties
<1> HIDE DEF new
<1>2. CancelRequested(new) => CancelRequested(rec) \/ t = "cancel_requested"
  <2> SUFFICES ASSUME NEW i \in 1 .. (n + 1),
                      new.events[i].type = "cancel_requested"
               PROVE  CancelRequested(rec) \/ t = "cancel_requested"
    BY <1>1 DEF CancelRequested
  <2>1. CASE i = n + 1
    BY <1>1, <2>1
  <2>2. CASE i \in 1 .. n
    BY <1>1, <2>2 DEF CancelRequested
  <2> QED
    BY <1>1, <2>1, <2>2
<1>3. CancelRequested(rec) => CancelRequested(new)
  <2> SUFFICES ASSUME NEW i \in 1 .. n, rec.events[i].type = "cancel_requested"
               PROVE  CancelRequested(new)
    BY <1>1 DEF CancelRequested
  <2> QED
    BY <1>1 DEF CancelRequested
<1>4. t = "cancel_requested" => CancelRequested(new)
  BY <1>1 DEF CancelRequested
<1> QED
  BY <1>2, <1>3, <1>4 DEF new

\* What every record is, in the table and on disk: its log explains its
\* status, a canceled job was asked to stop, and no status means no record.
Sound(rec) ==
  /\ LogMatchesStatus(rec)
  /\ rec.status = "canceled" => CancelRequested(rec)
  /\ rec.status = "none" => rec = Blank

\* None of the lifecycle events logged so far is terminal.
Pending(rec) ==
  \A k \in LifecycleEvents(rec) : rec.events[k].status \notin Terminal

LEMMA UnfinishedPending ==
  ASSUME NEW rec \in Record, rec.status \in Unfinished, LogMatchesStatus(rec)
  PROVE  Pending(rec)
BY DEF Pending, LogMatchesStatus, Unfinished, Terminal

\* A lifecycle event that takes a pending job to the event's status leaves a
\* sound record.
LEMMA LifecycleEventSound ==
  ASSUME NEW rec \in Record, Pending(rec),
         NEW t \in Lifecycle, NEW s \in Statuses, rec.status = s,
         s = "canceled" => CancelRequested(rec)
  PROVE  Sound(LogEvent(rec, t, s))
<1> DEFINE new == LogEvent(rec, t, s)
           n   == Len(rec.events)
<1>0. t \in EventTypes
  BY DEF Lifecycle, EventTypes
<1>1. /\ n \in Nat
      /\ DOMAIN rec.events = 1 .. n
      /\ DOMAIN new.events = 1 .. (n + 1)
      /\ \A i \in 1 .. n : new.events[i] = rec.events[i]
      /\ new.events[n + 1].type = t
      /\ new.events[n + 1].status = s
  BY <1>0, LogEventProperties
<1>2. new.status = s
  BY <1>0, LogEventProperties DEF Record
<1>3. CancelRequested(rec) => CancelRequested(new)
  BY <1>0, CancelRequestedAfterEvent
<1> HIDE DEF new
<1>4. n + 1 \in LifecycleEvents(new)
  BY <1>1 DEF LifecycleEvents
<1>5. ASSUME NEW k \in LifecycleEvents(new)
      PROVE  k <= n + 1 /\ (new.events[k].status \in Terminal => k = n + 1)
  <2>1. k \in 1 .. (n + 1)
    BY <1>1, <1>5 DEF LifecycleEvents
  <2>2. CASE k \in 1 .. n
    <3>1. k \in LifecycleEvents(rec)
      BY <1>1, <1>5, <2>2 DEF LifecycleEvents
    <3> QED
      BY <1>1, <2>2, <3>1 DEF Pending
  <2> QED
    BY <1>1, <2>1, <2>2
<1>6. LogMatchesStatus(new)
  BY <1>1, <1>2, <1>4, <1>5 DEF LogMatchesStatus
<1> QED
  BY <1>2, <1>3, <1>6 DEF Sound, new, Statuses, Unfinished, Terminal

\* An event that is no lifecycle event leaves a sound record sound.
LEMMA OtherEventSound ==
  ASSUME NEW rec \in Record, Sound(rec),
         NEW t \in EventTypes \ Lifecycle, rec.status \in Statuses
  PROVE  Sound(LogEvent(rec, t, rec.status))
<1> DEFINE new == LogEvent(rec, t, rec.status)
           n   == Len(rec.events)
<1>1. /\ n \in Nat
      /\ DOMAIN rec.events = 1 .. n
      /\ DOMAIN new.events = 1 .. (n + 1)
      /\ \A i \in 1 .. n : new.events[i] = rec.events[i]
      /\ new.events[n + 1].type = t
  BY LogEventProperties
<1>2. new.status = rec.status
  BY LogEventProperties DEF Record
<1>3. CancelRequested(rec) => CancelRequested(new)
  BY CancelRequestedAfterEvent
<1> HIDE DEF new
<1>4. /\ LifecycleEvents(new) = LifecycleEvents(rec)
      /\ \A i \in LifecycleEvents(rec) : new.events[i] = rec.events[i]
  BY <1>1 DEF LifecycleEvents
<1>5. LogMatchesStatus(new)
  BY <1>2, <1>4 DEF LogMatchesStatus, Sound
<1> QED
  BY <1>2, <1>3, <1>5 DEF Sound, new, Statuses, Unfinished, Terminal
-----------------------------------------------------------------------------
(* The inductive invariant.                                                *)

RecordsSound == \A j \in Jobs : Sound(entry[j]) /\ Sound(disk[j])

\* The status of an entry tells where its goroutine is, and conversely.
GoroutineInv ==
  \A j \in Jobs :
    /\ entry[j].status = "queued"  <=> pc[j] = "spawned"
    /\ entry[j].status = "running" <=> pc[j] \in {"running", "returned"}
    /\ pc[j] = "done" => entry[j].status \in Terminal

\* Whoever calls cancel() logged the request before.
CancelInv ==
  \A j \in Jobs :
    canceling[j] > 0 \/ ctxCanceled[j] =>
      entry[j].status # "none" /\ CancelRequested(entry[j])

\* A process that is down has neither a table nor goroutines.
DownInv ==
  ~up => \A j \in Jobs : entry[j] = Blank /\ pc[j] = "none"

SomeDamage == \E k \in Jobs : disk[k].status = "damaged"

\* How the files stand to the table.
FileInv ==
  /\ \A j \in Jobs : entry[j].status # "damaged"
  /\ ~DamageMayHappen => ~SomeDamage
  /\ up => \A j \in Jobs :
       /\ disk[j].status = "damaged" => entry[j].status = "none"
       /\ entry[j].status = "none" => disk[j].status = "none" \/ SomeDamage
       /\ disk[j].status \in Terminal /\ entry[j].status # "none"
            => Kept(j, disk[j], entry[j])
       /\ ~SaveMayFail => disk[j] = entry[j] \/ SomeDamage

Inv ==
  TypeOK /\ RecordsSound /\ GoroutineInv /\ CancelInv /\ DownInv /\ FileInv

\* What a watcher adds to a finished job's log adds up.
LEMMA KeptTransitive ==
  ASSUME NEW j, NEW a \in Record, NEW b \in Record, NEW c \in Record,
         Kept(j, a, b), Kept(j, b, c)
  PROVE  Kept(j, a, c)
<1>1. CASE a = b \/ b = c
  BY <1>1
<1>2. CASE a # b /\ b # c
  <2>1. j \in Watched /\ ProgressAdded(a, b) /\ ProgressAdded(b, c)
    BY <1>2 DEF Kept
  <2>2. /\ a.events \in Seq(Event) /\ b.events \in Seq(Event)
        /\ c.events \in Seq(Event)
    BY DEF Record
  <2>3. /\ Len(a.events) \in Nat /\ Len(b.events) \in Nat
        /\ Len(c.events) \in Nat
        /\ DOMAIN b.events = 1 .. Len(b.events)
        /\ DOMAIN c.events = 1 .. Len(c.events)
    BY <2>2, LenProperties
  <2>4. Len(a.events) <= Len(c.events)
    BY <2>1, <2>3 DEF ProgressAdded
  <2>5. ASSUME NEW i \in DOMAIN c.events
        PROVE  IF i <= Len(a.events) THEN c.events[i] = a.events[i]
                                     ELSE c.events[i].type = "custom"
    BY <2>1, <2>3 DEF ProgressAdded
  <2>6. a = [c EXCEPT !.events = a.events]
    <3>1. a = [b EXCEPT !.events = a.events] /\ b = [c EXCEPT !.events = b.events]
      BY <2>1 DEF ProgressAdded
    <3> QED
      BY <3>1 DEF Record
  <2> QED
    BY <2>1, <2>4, <2>5, <2>6 DEF ProgressAdded, Kept
<1> QED
  BY <1>1, <1>2

\* A kept record keeps its status.
LEMMA KeptStatus ==
  ASSUME NEW j, NEW a \in Record, NEW b \in Record, Kept(j, a, b)
  PROVE  a.status = b.status
BY DEF Kept, ProgressAdded, Record

\* One custom event is progress added.
LEMMA KeptByEvent ==
  ASSUME NEW j \in Watched, NEW rec \in Record, NEW s \in Statuses
  PROVE  Kept(j, rec, LogEvent(rec, "custom", s))
<1> DEFINE new == LogEvent(rec, "custom", s)
           n   == Len(rec.events)
<1>1. "custom" \in EventTypes
  BY DEF EventTypes
<1>2. /\ new \in Record
      /\ new = [rec EXCEPT !.events = new.events]
      /\ n \in Nat
      /\ DOMAIN new.events = 1 .. (n + 1)
      /\ \A i \in 1 .. n : new.events[i] = rec.events[i]
      /\ new.events[n + 1].type = "custom"
  BY <1>1, LogEventProperties
<1>3. Len(new.events) = n + 1
  <2>1. new.events \in Seq(Event)
    BY <1>2 DEF Record
  <2> QED
    BY <1>2, <2>1, LenProperties
<1> HIDE DEF new
<1>4. rec = [new EXCEPT !.events = rec.events]
  BY <1>2 DEF Record
<1> QED
  BY <1>2, <1>3, <1>4 DEF new, ProgressAdded, Kept

LEMMA BlankProperties ==
  /\ Blank \in Record /\ Sound(Blank) /\ Pending(Blank)
  /\ Damaged \in Record /\ Sound(Damaged)
  /\ Blank.status = "none" /\ ~CancelRequested(Blank)
  /\ Damaged.status = "damaged"
<1>1. Blank \in Record /\ Damaged \in Record
  <2>1. <<>> \in Seq(Event)
    OBVIOUS
  <2>2. Blank \in Record
    BY <2>1, JobManagerAssumption DEF Blank, Record
  <2> QED
    BY <2>2 DEF Damaged, Record
<1>2. Blank.events = <<>> /\ DOMAIN Blank.events = {}
  BY DEF Blank
<1>3. Blank.status = "none" /\ Damaged.status = "damaged"
  BY DEF Blank, Damaged
<1>4. Pending(Blank) /\ ~CancelRequested(Blank)
  BY <1>2 DEF Pending, LifecycleEvents, CancelRequested
<1>5. Sound(Blank) /\ Sound(Damaged)
  BY <1>3 DEF Sound, LogMatchesStatus, Unfinished, Terminal
<1> QED
  BY <1>1, <1>3, <1>4, <1>5

\* What UpdateEntry does, whoever calls it: for an unfinished or a new job, or
\* for a finished one whose record is kept.
LEMMA UpdateEntryPreserves ==
  ASSUME TypeOK, RecordsSound, FileInv,
         NEW j \in Jobs, NEW rec \in Record, Sound(rec), rec.status \in Statuses,
         up, up', UpdateEntry(j, rec),
         \/ entry[j].status \in Unfinished
         \/ entry[j].status \in Terminal /\ Kept(j, entry[j], rec)
         \/ entry[j].status = "none" /\ disk[j].status = "none"
  PROVE  /\ entry' \in [Jobs -> Record]
         /\ disk' \in [Jobs -> Record]
         /\ entry'[j] = rec
         /\ \A k \in Jobs : k # j => entry'[k] = entry[k]
         /\ RecordsSound'
         /\ FileInv'
<1>1. /\ entry' = [entry EXCEPT ![j] = rec]
      /\ entry' \in [Jobs -> Record]
      /\ entry'[j] = rec
      /\ \A k \in Jobs : k # j => entry'[k] = entry[k]
  BY DEF UpdateEntry, TypeOK
<1>2. /\ disk' \in [Jobs -> Record]
      /\ \A k \in Jobs : k # j => disk'[k] = disk[k]
      /\ disk'[j] = rec \/ (SaveMayFail /\ disk'[j] = disk[j])
  BY <1>1 DEF UpdateEntry, Persist, TypeOK
<1>3. RecordsSound'
  BY <1>1, <1>2 DEF RecordsSound
<1>4. /\ disk[j].status # "damaged"
      /\ disk[j].status \in Terminal => Kept(j, disk[j], rec)
  <2>1. CASE entry[j].status \in Unfinished
    BY <2>1, KeptStatus DEF FileInv, Unfinished, Terminal, TypeOK
  <2>2. CASE entry[j].status \in Terminal /\ Kept(j, entry[j], rec)
    <3>1. disk[j].status # "damaged"
      BY <2>2 DEF FileInv, Terminal
    <3>2. disk[j].status \in Terminal => Kept(j, disk[j], entry[j])
      BY <2>2 DEF FileInv, Terminal
    <3> QED
      BY <2>2, <3>1, <3>2, KeptTransitive DEF TypeOK
  <2>3. CASE entry[j].status = "none" /\ disk[j].status = "none"
    BY <2>3 DEF Terminal
  <2> QED
    BY <2>1, <2>2, <2>3
<1>5. rec.status # "damaged" /\ rec.status # "none"
  BY DEF Statuses, Unfinished, Terminal
<1>6. SomeDamage' <=> SomeDamage
  BY <1>2, <1>4, <1>5 DEF SomeDamage
<1>7. ASSUME NEW k \in Jobs
      PROVE  /\ entry'[k].status # "damaged"
             /\ disk'[k].status = "damaged" => entry'[k].status = "none"
             /\ entry'[k].status = "none" => disk'[k].status = "none" \/ SomeDamage'
             /\ disk'[k].status \in Terminal /\ entry'[k].status # "none"
                  => Kept(k, disk'[k], entry'[k])
             /\ ~SaveMayFail => disk'[k] = entry'[k] \/ SomeDamage'
  <2>1. CASE k = j
    BY <1>1, <1>2, <1>4, <1>5, <2>1 DEF Kept
  <2>2. CASE k # j
    BY <1>1, <1>2, <1>6, <2>2 DEF FileInv
  <2> QED
    BY <2>1, <2>2
<1>8. FileInv'
  BY <1>6, <1>7 DEF FileInv
<1> QED
  BY <1>1, <1>2, <1>3, <1>8

-----------------------------------------------------------------------------
LEMMA InitInv == Init => Inv
<1> SUFFICES ASSUME Init PROVE Inv
  OBVIOUS
<1> USE BlankProperties DEF Init
<1>1. TypeOK
  BY DEF TypeOK
<1>2. RecordsSound
  BY DEF RecordsSound
<1>3. GoroutineInv
  BY DEF GoroutineInv
<1>4. CancelInv
  BY DEF CancelInv
<1>5. DownInv
  BY DEF DownInv
<1>6. FileInv
  BY DEF FileInv, SomeDamage, Terminal
<1> QED
  BY <1>1, <1>2, <1>3, <1>4, <1>5, <1>6 DEF Inv

\* The record an action stores is a sound record of a known status.
LEMMA SubmittedRecord ==
  LET rec == LogEvent([Blank EXCEPT !.status = "queued"], "queued", "queued")
  IN rec \in Record /\ Sound(rec) /\ rec.status = "queued"
<1> DEFINE mid == [Blank EXCEPT !.status = "queued"]
           rec == LogEvent(mid, "queued", "queued")
<1>1. mid \in Record /\ mid.status = "queued" /\ mid.events = Blank.events
  BY BlankProperties DEF Record, Unfinished
<1>2. "queued" \in Lifecycle /\ "queued" \in Statuses /\ "queued" \in EventTypes
  BY DEF Lifecycle, Statuses, EventTypes, Unfinished
<1>3. Pending(mid)
  BY <1>1, BlankProperties DEF Pending, LifecycleEvents
<1> HIDE DEF mid
<1>4. Sound(rec)
  BY <1>1, <1>2, <1>3, LifecycleEventSound
<1>5. rec \in Record /\ rec.status = "queued"
  BY <1>1, <1>2, LogEventProperties DEF Record
<1> QED
  BY <1>4, <1>5 DEF mid

\* A lifecycle event on the record of an unfinished job, its status and
\* whatever else but the log having been set first.
LEMMA AdvancedRecord ==
  ASSUME NEW rec \in Record, Sound(rec), rec.status \in Unfinished,
         NEW mid \in Record, mid.events = rec.events,
         NEW t \in Lifecycle, NEW s \in Statuses, mid.status = s,
         s = "canceled" => CancelRequested(rec)
  PROVE  /\ LogEvent(mid, t, s) \in Record
         /\ Sound(LogEvent(mid, t, s))
         /\ LogEvent(mid, t, s).status = s
         /\ CancelRequested(LogEvent(mid, t, s)) <=> CancelRequested(rec)
<1>1. Pending(rec)
  BY UnfinishedPending DEF Sound
<1>2. Pending(mid) /\ (CancelRequested(mid) <=> CancelRequested(rec))
  BY <1>1 DEF Pending, LifecycleEvents, CancelRequested
<1>3. t \in EventTypes /\ t # "cancel_requested"
  BY DEF Lifecycle, EventTypes, Unfinished, Terminal
<1>4. Sound(LogEvent(mid, t, s))
  BY <1>2, LifecycleEventSound
<1>5. LogEvent(mid, t, s) \in Record /\ LogEvent(mid, t, s).status = s
  BY <1>3, LogEventProperties DEF Record
<1> QED
  BY <1>2, <1>3, <1>4, <1>5, CancelRequestedAfterEvent

\* What run() stores at the end of a running job.
LEMMA FinishedRecord ==
  ASSUME NEW rec \in Record, Sound(rec), rec.status = "running",
         NEW o, NEW canceled \in BOOLEAN, canceled => CancelRequested(rec)
  PROVE  /\ Finished(rec, o, canceled) \in Record
         /\ Sound(Finished(rec, o, canceled))
         /\ Finished(rec, o, canceled).status \in Terminal
         /\ Finished(rec, o, canceled).status = "canceled"
              => CancelRequested(rec)
         /\ CancelRequested(Finished(rec, o, canceled)) <=> CancelRequested(rec)
<1> USE DEF Lifecycle, Statuses, Terminal, Unfinished
<1>1. CASE canceled
  <2> DEFINE mid == [rec EXCEPT !.status = "canceled", !.finished = TRUE]
  <2>1. mid \in Record /\ mid.events = rec.events /\ mid.status = "canceled"
    BY DEF Record
  <2>2. Finished(rec, o, canceled) = LogEvent(mid, "canceled", "canceled")
    BY <1>1 DEF Finished
  <2> HIDE DEF mid
  <2>3. "canceled" \in Lifecycle /\ "canceled" \in Statuses
    OBVIOUS
  <2>4. /\ LogEvent(mid, "canceled", "canceled") \in Record
        /\ Sound(LogEvent(mid, "canceled", "canceled"))
        /\ LogEvent(mid, "canceled", "canceled").status = "canceled"
        /\ CancelRequested(LogEvent(mid, "canceled", "canceled"))
             <=> CancelRequested(rec)
    BY <1>1, <2>1, <2>3, AdvancedRecord
  <2> QED
    BY <1>1, <2>2, <2>4
<1>2. CASE ~canceled /\ o = "error"
  <2> DEFINE mid == [rec EXCEPT !.status = "failed", !.finished = TRUE,
                                !.error = "runner"]
  <2>1. mid \in Record /\ mid.events = rec.events /\ mid.status = "failed"
    BY DEF Record
  <2>2. Finished(rec, o, canceled) = LogEvent(mid, "failed", "failed")
    BY <1>2 DEF Finished
  <2> HIDE DEF mid
  <2>3. "failed" \in Lifecycle /\ "failed" \in Statuses /\ "failed" # "canceled"
    OBVIOUS
  <2>4. /\ LogEvent(mid, "failed", "failed") \in Record
        /\ Sound(LogEvent(mid, "failed", "failed"))
        /\ LogEvent(mid, "failed", "failed").status = "failed"
        /\ CancelRequested(LogEvent(mid, "failed", "failed"))
             <=> CancelRequested(rec)
    BY <2>1, <2>3, AdvancedRecord
  <2> QED
    BY <2>2, <2>4
<1>3. CASE ~canceled /\ o # "error"
  <2> DEFINE mid == [rec EXCEPT !.status = "succeeded", !.finished = TRUE,
                                !.result = TRUE]
  <2>1. mid \in Record /\ mid.events = rec.events /\ mid.status = "succeeded"
    BY DEF Record
  <2>2. Finished(rec, o, canceled) = LogEvent(mid, "succeeded", "succeeded")
    BY <1>3 DEF Finished
  <2> HIDE DEF mid
  <2>3. "succeeded" \in Lifecycle /\ "succeeded" \in Statuses /\ "succeeded" # "canceled"
    OBVIOUS
  <2>4. /\ LogEvent(mid, "succeeded", "succeeded") \in Record
        /\ Sound(LogEvent(mid, "succeeded", "succeeded"))
        /\ LogEvent(mid, "succeeded", "succeeded").status = "succeeded"
        /\ CancelRequested(LogEvent(mid, "succeeded", "succeeded"))
             <=> CancelRequested(rec)
    BY <2>1, <2>3, AdvancedRecord
  <2> QED
    BY <2>2, <2>4
<1> QED
  BY <1>1, <1>2, <1>3

\* What loadStoredJobs makes of a stored record.
LEMMA ReloadedRecord ==
  ASSUME NEW rec \in Record, Sound(rec)
  PROVE  /\ Reloaded(rec) \in Record
         /\ Sound(Reloaded(rec))
         /\ Reloaded(rec).status \notin Unfinished
         /\ rec.status \in Unfinished => Reloaded(rec).status = "failed"
         /\ rec.status \notin Unfinished => Reloaded(rec) = rec
         /\ CancelRequested(Reloaded(rec)) <=> CancelRequested(rec)
<1>1. CASE rec.status \in Unfinished
  <2> DEFINE mid == [rec EXCEPT !.status = "failed", !.error = "interrupted",
                                !.finished = TRUE]
  <2>1. mid \in Record /\ mid.events = rec.events /\ mid.status = "failed"
    BY DEF Record, Terminal
  <2>2. Reloaded(rec) = LogEvent(mid, "interrupted", "failed")
    BY <1>1 DEF Reloaded
  <2>3. "interrupted" \in Lifecycle /\ "failed" \in Statuses
    BY DEF Lifecycle, Statuses, Terminal
  <2> HIDE DEF mid
  <2>4. /\ Reloaded(rec) \in Record /\ Sound(Reloaded(rec))
        /\ Reloaded(rec).status = "failed"
        /\ CancelRequested(Reloaded(rec)) <=> CancelRequested(rec)
    BY <1>1, <2>1, <2>2, <2>3, AdvancedRecord
  <2> QED
    BY <1>1, <2>4 DEF Unfinished
<1>2. CASE rec.status \notin Unfinished
  BY <1>2 DEF Reloaded
<1> QED
  BY <1>1, <1>2

-----------------------------------------------------------------------------
(* Every step preserves the invariant.  For the actions that store a       *)
(* record, UpdateEntryPreserves leaves the goroutine and the cancellation  *)
(* machinery to look at.                                                   *)

LEMMA SubmitSpecInv ==
  ASSUME Inv, NEW j \in Jobs, SubmitSpec(j)
  PROVE  Inv'
<1> DEFINE rec == LogEvent([Blank EXCEPT !.status = "queued"], "queued", "queued")
<1>1. rec \in Record /\ Sound(rec) /\ rec.status = "queued"
  BY SubmittedRecord
<1>2. /\ UpdateEntry(j, rec) /\ up /\ up'
      /\ entry[j].status = "none" /\ disk[j].status = "none"
      /\ pc' = [pc EXCEPT ![j] = "spawned"]
      /\ UNCHANGED <<outcome, canceling, ctxCanceled>>
  BY DEF SubmitSpec, Inv, TypeOK
<1> HIDE DEF rec
<1>3. /\ entry' \in [Jobs -> Record]
      /\ disk' \in [Jobs -> Record]
      /\ entry'[j] = rec
      /\ \A k \in Jobs : k # j => entry'[k] = entry[k]
      /\ RecordsSound' /\ FileInv'
  BY <1>1, <1>2, UpdateEntryPreserves DEF Inv, Statuses, Unfinished
<1>4. TypeOK'
  BY <1>2, <1>3 DEF Inv, TypeOK
<1>5. GoroutineInv'
  BY <1>1, <1>2, <1>3 DEF Inv, TypeOK, GoroutineInv
<1>7. CancelInv'
  BY <1>2, <1>3 DEF Inv, CancelInv
<1>8. DownInv'
  BY <1>2 DEF DownInv
<1> QED
  BY <1>3, <1>4, <1>5, <1>7, <1>8 DEF Inv

LEMMA RunBeginInv ==
  ASSUME Inv, NEW j \in Jobs, RunBegin(j)
  PROVE  Inv'
<1> DEFINE mid == [entry[j] EXCEPT !.status = "running", !.started = TRUE]
           rec == LogEvent(mid, "running", "running")
<1>1. /\ UpdateEntry(j, rec) /\ pc[j] = "spawned"
      /\ pc' = [pc EXCEPT ![j] = "running"]
      /\ UNCHANGED <<up, outcome, canceling, ctxCanceled>>
  BY DEF RunBegin
<1>2. entry[j] \in Record /\ Sound(entry[j]) /\ entry[j].status = "queued" /\ up
  BY <1>1 DEF Inv, TypeOK, RecordsSound, GoroutineInv, DownInv
<1>3. mid \in Record /\ mid.events = entry[j].events /\ mid.status = "running"
  BY <1>2 DEF Record, Unfinished
<1> HIDE DEF mid
<1>4. "running" \in Lifecycle /\ "running" \in Statuses
  BY DEF Lifecycle, Statuses, Unfinished
<1>5. /\ rec \in Record /\ Sound(rec) /\ rec.status = "running"
      /\ CancelRequested(rec) <=> CancelRequested(entry[j])
  BY <1>2, <1>3, <1>4, AdvancedRecord DEF Unfinished
<1> HIDE DEF rec
<1>6. /\ entry' \in [Jobs -> Record]
      /\ disk' \in [Jobs -> Record]
      /\ entry'[j] = rec
      /\ \A k \in Jobs : k # j => entry'[k] = entry[k]
      /\ RecordsSound' /\ FileInv'
  BY <1>1, <1>2, <1>4, <1>5, UpdateEntryPreserves DEF Inv, Unfinished
<1>7. TypeOK'
  BY <1>1, <1>6 DEF Inv, TypeOK
<1>8. GoroutineInv'
  BY <1>1, <1>5, <1>6 DEF Inv, TypeOK, GoroutineInv
<1>9. CancelInv'
  BY <1>1, <1>5, <1>6 DEF Inv, CancelInv
<1>10. DownInv'
  BY <1>1, <1>2 DEF DownInv
<1> QED
  BY <1>6, <1>7, <1>8, <1>9, <1>10 DEF Inv

\* A custom event, logged by the runner of a running job or by a watcher.
LEMMA CustomEventInv ==
  ASSUME Inv, NEW j \in Jobs, AddEvent(j), UNCHANGED <<up, goroutine>>,
         pc[j] \in {"running", "returned", "done"},
         pc[j] = "done" => j \in Watched
  PROVE  Inv'
<1> DEFINE rec == LogEvent(entry[j], "custom", entry[j].status)
<1>1. /\ UpdateEntry(j, rec)
      /\ UNCHANGED <<up, pc, outcome, canceling, ctxCanceled>>
  BY DEF AddEvent, goroutine
<1>2. /\ entry[j] \in Record /\ Sound(entry[j]) /\ up
      /\ \/ entry[j].status \in Unfinished
         \/ entry[j].status \in Terminal /\ j \in Watched
  BY DEF Inv, TypeOK, RecordsSound, GoroutineInv, DownInv, Unfinished
<1>3. "custom" \in EventTypes \ Lifecycle /\ entry[j].status \in Statuses
  BY <1>2 DEF Lifecycle, EventTypes, Statuses, Unfinished, Terminal
<1>4. /\ rec \in Record /\ rec.status = entry[j].status
      /\ CancelRequested(entry[j]) => CancelRequested(rec)
  BY <1>2, <1>3, LogEventProperties, CancelRequestedAfterEvent DEF Record
<1>5. Sound(rec)
  BY <1>2, <1>3, OtherEventSound
<1>6. j \in Watched => Kept(j, entry[j], rec)
  BY <1>2, <1>3, KeptByEvent
<1> HIDE DEF rec
<1>7. /\ entry' \in [Jobs -> Record]
      /\ disk' \in [Jobs -> Record]
      /\ entry'[j] = rec
      /\ \A k \in Jobs : k # j => entry'[k] = entry[k]
      /\ RecordsSound' /\ FileInv'
  BY <1>1, <1>2, <1>3, <1>4, <1>5, <1>6, UpdateEntryPreserves DEF Inv
<1>8. TypeOK'
  BY <1>1, <1>7 DEF Inv, TypeOK
<1>9. GoroutineInv'
  BY <1>1, <1>2, <1>4, <1>7 DEF Inv, TypeOK, GoroutineInv
<1>10. CancelInv'
  BY <1>1, <1>4, <1>7 DEF Inv, CancelInv
<1>11. DownInv'
  BY <1>1, <1>2 DEF DownInv
<1> QED
  BY <1>7, <1>8, <1>9, <1>10, <1>11 DEF Inv

LEMMA RunnerEventInv ==
  ASSUME Inv, NEW j \in Jobs, RunnerEvent(j)
  PROVE  Inv'
BY CustomEventInv DEF RunnerEvent

LEMMA WatcherEventInv ==
  ASSUME Inv, NEW j \in Jobs, WatcherEvent(j)
  PROVE  Inv'
BY CustomEventInv DEF WatcherEvent

LEMMA RunnerArtifactInv ==
  ASSUME Inv, NEW j \in Jobs, RunnerArtifact(j)
  PROVE  Inv'
<1>1. PICK s \in ArtifactStatuses : UpdateArtifact(j, s)
  BY DEF RunnerArtifact
<1> DEFINE rec == [entry[j] EXCEPT !.artifact = s]
<1>2. /\ UpdateEntry(j, rec) /\ pc[j] = "running"
      /\ UNCHANGED <<up, pc, outcome, canceling, ctxCanceled>>
  BY <1>1 DEF RunnerArtifact, UpdateArtifact, goroutine
<1>3. entry[j] \in Record /\ Sound(entry[j]) /\ entry[j].status = "running" /\ up
  BY <1>2 DEF Inv, TypeOK, RecordsSound, GoroutineInv, DownInv
<1>4. /\ rec \in Record /\ rec.status = "running"
      /\ rec.events = entry[j].events
  BY <1>3 DEF Record
<1> HIDE DEF rec
<1>5. Sound(rec) /\ (CancelRequested(rec) <=> CancelRequested(entry[j]))
  BY <1>3, <1>4 DEF Sound, LogMatchesStatus, LifecycleEvents, CancelRequested
<1>6. /\ entry' \in [Jobs -> Record]
      /\ disk' \in [Jobs -> Record]
      /\ entry'[j] = rec
      /\ \A k \in Jobs : k # j => entry'[k] = entry[k]
      /\ RecordsSound' /\ FileInv'
  BY <1>2, <1>3, <1>4, <1>5, UpdateEntryPreserves DEF Inv, Statuses, Unfinished
<1>7. TypeOK'
  BY <1>2, <1>6 DEF Inv, TypeOK
<1>8. GoroutineInv'
  BY <1>2, <1>3, <1>4, <1>6 DEF Inv, TypeOK, GoroutineInv
<1>9. CancelInv'
  BY <1>2, <1>4, <1>5, <1>6 DEF Inv, CancelInv
<1>10. DownInv'
  BY <1>2, <1>3 DEF DownInv
<1> QED
  BY <1>6, <1>7, <1>8, <1>9, <1>10 DEF Inv

\* No record changes: the return of the runner, and the call of cancel().
LEMMA UntouchedRecords ==
  ASSUME Inv, UNCHANGED <<up, entry, disk>>
  PROVE  RecordsSound' /\ FileInv'
BY DEF Inv, RecordsSound, FileInv, SomeDamage

LEMMA RunnerReturnInv ==
  ASSUME Inv, NEW j \in Jobs, RunnerReturn(j)
  PROVE  Inv'
<1>1. /\ pc[j] = "running" /\ pc' = [pc EXCEPT ![j] = "returned"]
      /\ UNCHANGED <<up, entry, disk, canceling, ctxCanceled>>
  BY DEF RunnerReturn
<1>2. TypeOK'
  BY <1>1 DEF RunnerReturn, Inv, TypeOK
<1>3. GoroutineInv'
  BY <1>1 DEF Inv, TypeOK, GoroutineInv
<1>4. CancelInv' /\ DownInv'
  BY <1>1 DEF Inv, TypeOK, CancelInv, DownInv
<1> QED
  BY <1>1, <1>2, <1>3, <1>4, UntouchedRecords DEF Inv

LEMMA CancelFireInv ==
  ASSUME Inv, NEW j \in Jobs, CancelFire(j)
  PROVE  Inv'
<1>1. /\ canceling[j] > 0
      /\ canceling' = [canceling EXCEPT ![j] = @ - 1]
      /\ ctxCanceled' = [ctxCanceled EXCEPT ![j] = TRUE]
      /\ UNCHANGED <<up, entry, disk, pc, outcome>>
  BY DEF CancelFire
<1>2. TypeOK'
  BY <1>1 DEF Inv, TypeOK
<1>3. GoroutineInv' /\ DownInv'
  BY <1>1 DEF Inv, GoroutineInv, DownInv
<1>4. CancelInv'
  BY <1>1 DEF Inv, TypeOK, CancelInv
<1> QED
  BY <1>1, <1>2, <1>3, <1>4, UntouchedRecords DEF Inv

LEMMA RunEndInv ==
  ASSUME Inv, NEW j \in Jobs, RunEnd(j)
  PROVE  Inv'
<1> DEFINE rec == Finished(entry[j], outcome[j], ctxCanceled[j])
<1>1. /\ UpdateEntry(j, rec) /\ pc[j] = "returned"
      /\ pc' = [pc EXCEPT ![j] = "done"]
      /\ outcome' = [outcome EXCEPT ![j] = "none"]
      /\ UNCHANGED <<up, canceling, ctxCanceled>>
  BY DEF RunEnd
<1>2. entry[j] \in Record /\ Sound(entry[j]) /\ entry[j].status = "running" /\ up
  BY <1>1 DEF Inv, TypeOK, RecordsSound, GoroutineInv, DownInv
<1>3. /\ ctxCanceled[j] \in BOOLEAN
      /\ ctxCanceled[j] => CancelRequested(entry[j])
  BY DEF Inv, TypeOK, CancelInv
<1>4. /\ rec \in Record /\ Sound(rec) /\ rec.status \in Terminal
      /\ CancelRequested(rec) <=> CancelRequested(entry[j])
  BY <1>2, <1>3, FinishedRecord
<1> HIDE DEF rec
<1>5. /\ entry' \in [Jobs -> Record]
      /\ disk' \in [Jobs -> Record]
      /\ entry'[j] = rec
      /\ \A k \in Jobs : k # j => entry'[k] = entry[k]
      /\ RecordsSound' /\ FileInv'
  BY <1>1, <1>2, <1>4, UpdateEntryPreserves DEF Inv, Statuses, Unfinished
<1>6. TypeOK'
  BY <1>1, <1>5 DEF Inv, TypeOK
<1>7. GoroutineInv'
  BY <1>1, <1>4, <1>5 DEF Inv, TypeOK, GoroutineInv, Terminal
<1>8. CancelInv'
  BY <1>1, <1>4, <1>5 DEF Inv, CancelInv, Terminal
<1>9. DownInv'
  BY <1>1, <1>2 DEF DownInv
<1> QED
  BY <1>5, <1>6, <1>7, <1>8, <1>9 DEF Inv

LEMMA CancelRecordInv ==
  ASSUME Inv, NEW j \in Jobs, CancelRecord(j)
  PROVE  Inv'
<1> DEFINE rec == LogEvent(entry[j], "cancel_requested", entry[j].status)
<1>1. /\ UpdateEntry(j, rec) /\ up /\ entry[j].status \in Unfinished
      /\ canceling' = [canceling EXCEPT ![j] = @ + 1]
      /\ UNCHANGED <<up, pc, outcome, ctxCanceled>>
  BY DEF CancelRecord
<1>2. entry[j] \in Record /\ Sound(entry[j]) /\ entry[j].status \in Statuses
  BY <1>1 DEF Inv, TypeOK, RecordsSound, Statuses
<1>3. "cancel_requested" \in EventTypes \ Lifecycle
  BY DEF Lifecycle, EventTypes, Unfinished, Terminal
<1>4. /\ rec \in Record /\ rec.status = entry[j].status
      /\ CancelRequested(rec)
  BY <1>2, <1>3, LogEventProperties, CancelRequestedAfterEvent DEF Record
<1>5. Sound(rec)
  BY <1>2, <1>3, OtherEventSound
<1> HIDE DEF rec
<1>6. /\ entry' \in [Jobs -> Record]
      /\ disk' \in [Jobs -> Record]
      /\ entry'[j] = rec
      /\ \A k \in Jobs : k # j => entry'[k] = entry[k]
      /\ RecordsSound' /\ FileInv'
  BY <1>1, <1>2, <1>4, <1>5, UpdateEntryPreserves DEF Inv
<1>7. TypeOK'
  <2>1. canceling' \in [Jobs -> Nat]
    BY <1>1 DEF Inv, TypeOK
  <2> QED
    BY <1>1, <1>6, <2>1 DEF Inv, TypeOK
<1>8. GoroutineInv'
  BY <1>1, <1>4, <1>6 DEF Inv, TypeOK, GoroutineInv
<1>9. CancelInv'
  BY <1>1, <1>4, <1>6 DEF Inv, TypeOK, CancelInv, Unfinished
<1>10. DownInv'
  BY <1>1 DEF DownInv
<1> QED
  BY <1>6, <1>7, <1>8, <1>9, <1>10 DEF Inv

LEMMA CrashInv ==
  ASSUME Inv, Crash
  PROVE  Inv'
<1>1. /\ ~up' /\ UNCHANGED disk
      /\ \A j \in Jobs : /\ entry'[j] = Blank /\ pc'[j] = "none"
                         /\ canceling'[j] = 0 /\ ctxCanceled'[j] = FALSE
  BY DEF Crash
<1>2. TypeOK'
  <2>1. disk' \in [Jobs -> Record]
    BY <1>1 DEF Inv, TypeOK
  <2>2. entry' \in [Jobs -> Record]
    BY BlankProperties DEF Crash
  <2>3. /\ pc' \in [Jobs -> {"none", "spawned", "running", "returned", "done"}]
        /\ outcome' \in [Jobs -> {"none", "ok", "error"}]
        /\ canceling' \in [Jobs -> Nat]
        /\ ctxCanceled' \in [Jobs -> BOOLEAN]
        /\ up' \in BOOLEAN
    BY DEF Crash
  <2> QED
    BY <2>1, <2>2, <2>3 DEF TypeOK
<1>3. RecordsSound'
  BY <1>1, BlankProperties DEF Inv, RecordsSound
<1>4. GoroutineInv' /\ CancelInv' /\ DownInv'
  BY <1>1, BlankProperties DEF GoroutineInv, CancelInv, DownInv
<1>5. FileInv'
  BY <1>1, BlankProperties DEF Inv, FileInv, SomeDamage
<1> QED
  BY <1>2, <1>3, <1>4, <1>5 DEF Inv

LEMMA DamageInv ==
  ASSUME Inv, NEW j \in Jobs, Damage(j)
  PROVE  Inv'
<1>1. /\ DamageMayHappen /\ ~up
      /\ disk' = [disk EXCEPT ![j] = Damaged]
      /\ UNCHANGED <<up, entry, pc, outcome, canceling, ctxCanceled>>
  BY DEF Damage, goroutine
<1>2. TypeOK'
  BY <1>1, BlankProperties DEF Inv, TypeOK
<1>3. RecordsSound'
  BY <1>1, BlankProperties DEF Inv, TypeOK, RecordsSound
<1>4. GoroutineInv' /\ CancelInv' /\ DownInv'
  BY <1>1 DEF Inv, GoroutineInv, CancelInv, DownInv
<1>5. FileInv'
  BY <1>1 DEF Inv, FileInv
<1> QED
  BY <1>2, <1>3, <1>4, <1>5 DEF Inv

LEMMA RestartInv ==
  ASSUME Inv, Restart
  PROVE  Inv'
<1>1. PICK fails \in SUBSET Jobs :
        /\ fails # {} => SaveMayFail
        /\ disk' = [j \in Jobs |-> IF Loadable(j) /\ j \notin fails
                                   THEN entry'[j] ELSE disk[j]]
  BY DEF Restart
<1>2. /\ ~up /\ up'
      /\ entry' = [j \in Jobs |-> IF Loadable(j) THEN Reloaded(disk[j])
                                                 ELSE Blank]
      /\ UNCHANGED <<pc, outcome, canceling, ctxCanceled>>
  BY DEF Restart, goroutine
<1>3. ASSUME NEW j \in Jobs
      PROVE  /\ disk[j] \in Record /\ Sound(disk[j])
             /\ Reloaded(disk[j]) \in Record /\ Sound(Reloaded(disk[j]))
             /\ Reloaded(disk[j]).status \notin Unfinished
             /\ disk[j].status \in Unfinished => Reloaded(disk[j]).status = "failed"
             /\ disk[j].status \notin Unfinished => Reloaded(disk[j]) = disk[j]
  BY ReloadedRecord DEF Inv, TypeOK, RecordsSound
<1>4. TypeOK'
  <2>1. entry' \in [Jobs -> Record]
    BY <1>2, <1>3, BlankProperties
  <2>2. disk' \in [Jobs -> Record]
    BY <1>1, <1>3, <2>1
  <2> QED
    BY <1>2, <2>1, <2>2 DEF Inv, TypeOK
<1>5. RecordsSound'
  BY <1>1, <1>2, <1>3, BlankProperties DEF RecordsSound
<1>6. \A j \in Jobs : pc[j] = "none" /\ entry[j] = Blank
  BY <1>2 DEF Inv, DownInv
<1>7. GoroutineInv'
  BY <1>2, <1>3, <1>6, BlankProperties DEF GoroutineInv, Unfinished
<1>8. CancelInv'
  BY <1>2, <1>6, BlankProperties DEF Inv, CancelInv
<1>9. DownInv'
  BY <1>2 DEF DownInv
<1>10. FileInv'
  <2>1. CASE SomeDamage
    <3>1. \A j \in Jobs : ~Loadable(j)
      BY <2>1 DEF SomeDamage, Loadable
    <3>2. \A j \in Jobs : entry'[j] = Blank /\ disk'[j] = disk[j]
      BY <1>1, <1>2, <3>1
    <3>3. SomeDamage'
      BY <2>1, <3>2 DEF SomeDamage
    <3> QED
      BY <2>1, <3>2, <3>3, BlankProperties DEF Inv, FileInv
  <2>2. CASE ~SomeDamage
    <3>1. \A j \in Jobs : Loadable(j) <=> disk[j].status # "none"
      BY <2>2 DEF SomeDamage, Loadable
    <3>2. ASSUME NEW j \in Jobs, disk[j].status # "none"
          PROVE  /\ entry'[j] = Reloaded(disk[j])
                 /\ entry'[j].status \notin {"none", "damaged"}
                 /\ disk'[j] = entry'[j] \/ (SaveMayFail /\ disk'[j] = disk[j])
                 /\ disk'[j].status \in Terminal => disk'[j] = entry'[j]
                 /\ disk'[j].status # "damaged"
      <4>1. Loadable(j) /\ disk[j].status # "damaged"
        BY <2>2, <3>1, <3>2 DEF SomeDamage
      <4>2. entry'[j] = Reloaded(disk[j])
        BY <1>2, <4>1
      <4>3. entry'[j].status \notin {"none", "damaged"}
        BY <1>3, <3>2, <4>1, <4>2
      <4>4. disk'[j] = entry'[j] \/ (SaveMayFail /\ disk'[j] = disk[j])
        BY <1>1, <4>1
      <4> QED
        BY <1>3, <4>1, <4>2, <4>3, <4>4 DEF Unfinished, Terminal
    <3>3. ASSUME NEW j \in Jobs, disk[j].status = "none"
          PROVE  entry'[j] = Blank /\ disk'[j] = disk[j]
                 /\ (~SaveMayFail => disk'[j] = Blank)
      <4>1. entry'[j] = Blank /\ disk'[j] = disk[j]
        BY <1>1, <1>2, <3>1, <3>3
      <4>2. disk[j] = Blank
        BY <1>3, <3>3 DEF Sound
      <4> QED
        BY <4>1, <4>2
    <3>4. ~SomeDamage'
      BY <2>2, <3>2, <3>3 DEF SomeDamage
    <3> QED
      BY <3>2, <3>3, <3>4, BlankProperties DEF FileInv, Terminal, Kept
  <2> QED
    BY <2>1, <2>2
<1> QED
  BY <1>4, <1>5, <1>7, <1>8, <1>9, <1>10 DEF Inv

LEMMA NextInv == Inv /\ [Next]_vars => Inv'
<1> SUFFICES ASSUME Inv, [Next]_vars PROVE Inv'
  OBVIOUS
<1>1. ASSUME NEW j \in Jobs, SubmitSpec(j) PROVE Inv'
  BY <1>1, SubmitSpecInv
<1>2. ASSUME NEW j \in Jobs, RunBegin(j) PROVE Inv'
  BY <1>2, RunBeginInv
<1>3. ASSUME NEW j \in Jobs, RunnerEvent(j) PROVE Inv'
  BY <1>3, RunnerEventInv
<1>4. ASSUME NEW j \in Jobs, RunnerArtifact(j) PROVE Inv'
  BY <1>4, RunnerArtifactInv
<1>5. ASSUME NEW j \in Jobs, RunnerReturn(j) PROVE Inv'
  BY <1>5, RunnerReturnInv
<1>6. ASSUME NEW j \in Jobs, RunEnd(j) PROVE Inv'
  BY <1>6, RunEndInv
<1>7. ASSUME NEW j \in Jobs, CancelRecord(j) PROVE Inv'
  BY <1>7, CancelRecordInv
<1>8. ASSUME NEW j \in Jobs, CancelFire(j) PROVE Inv'
  BY <1>8, CancelFireInv
<1>9. ASSUME NEW j \in Jobs, Damage(j) PROVE Inv'
  BY <1>9, DamageInv
<1>10. CASE Crash
  BY <1>10, CrashInv
<1>11. CASE Restart
  BY <1>11, RestartInv
<1>12. ASSUME NEW j \in Jobs, WatcherEvent(j) PROVE Inv'
  BY <1>12, WatcherEventInv
<1>13. CASE UNCHANGED vars
  <2> USE <1>13 DEF vars
  <2>1. TypeOK' /\ GoroutineInv' /\ CancelInv' /\ DownInv'
    BY DEF Inv, TypeOK, GoroutineInv, CancelInv, DownInv
  <2> QED
    BY <2>1, UntouchedRecords DEF Inv
<1> QED
  BY <1>1, <1>2, <1>3, <1>4, <1>5, <1>6, <1>7, <1>8, <1>9, <1>10, <1>11, <1>12,
     <1>13 DEF Next

\* The inductive invariant holds of every reachable state.
THEOREM Invariance == Spec => []Inv
BY InitInv, NextInv, PTL DEF Spec

-----------------------------------------------------------------------------
(* The safety properties the runs check.                                   *)

\* Every variable keeps its type (internal/jobs/jobs.go as a whole).
THEOREM TypeCorrect == Spec => []TypeOK
<1>1. Inv => TypeOK
  BY DEF Inv
<1> QED
  BY <1>1, Invariance, PTL

\* No interleaving, crash or restart leaves a job queued or running without
\* a goroutine that will finish it.
THEOREM NoStrandedJob == Spec => []UnfinishedHasGoroutine
<1>1. Inv => UnfinishedHasGoroutine
  BY DEF Inv, GoroutineInv, UnfinishedHasGoroutine
<1> QED
  BY <1>1, Invariance, PTL

\* In the table and in the files, the event log of a job explains its status
\* and contradicts it nowhere, even when saves fail and files get damaged.
THEOREM LogExplainsStatus == Spec => []EventLogExplainsStatus
<1>1. Inv => EventLogExplainsStatus
  BY DEF Inv, RecordsSound, Sound, EventLogExplainsStatus
<1> QED
  BY <1>1, Invariance, PTL

\* Nothing is ever canceled that nobody asked to cancel.
THEOREM OnlyRequestedCancels == Spec => []CanceledOnRequest
<1>1. Inv => CanceledOnRequest
  BY DEF Inv, RecordsSound, Sound, CanceledOnRequest
<1> QED
  BY <1>1, Invariance, PTL

\* What the API reports is what the files hold, unless a Save failed.
THEOREM TableIsStored == Spec => []DiskMirrorsTable
<1>1. Inv => DiskMirrorsTable
  BY DEF Inv, FileInv, SomeDamage, DiskMirrorsTable
<1> QED
  BY <1>1, Invariance, PTL

\* A running service forgets stored jobs only if some record is unreadable.
THEOREM OnlyDamageForgets == Spec => []ForgottenOnlyByDamage
<1>1. Inv => ForgottenOnlyByDamage
  BY DEF Inv, FileInv, SomeDamage, ForgottenOnlyByDamage
<1> QED
  BY <1>1, Invariance, PTL

-----------------------------------------------------------------------------
(* What a step may never do.                                               *)

\* The actions of the manager that store a record, and the others.
Storing(j) ==
  \/ SubmitSpec(j) \/ RunBegin(j) \/ RunnerEvent(j) \/ WatcherEvent(j)
  \/ RunnerArtifact(j) \/ RunEnd(j) \/ CancelRecord(j)

\* What a storing step does to a record that is terminal: nothing, unless it
\* is a watcher's.
LEMMA StoringStep ==
  ASSUME Inv, NEW k \in Jobs, Storing(k)
  PROVE  /\ up
         /\ \E rec \in Record :
              /\ UpdateEntry(k, rec)
              /\ \/ entry[k].status \in Unfinished
                 \/ entry[k].status = "none" /\ disk[k].status = "none"
                 \/ /\ entry[k].status \in Terminal
                    /\ Kept(k, entry[k], rec)
<1> DEFINE Goal(rec) ==
      /\ UpdateEntry(k, rec)
      /\ \/ entry[k].status \in Unfinished
         \/ entry[k].status = "none" /\ disk[k].status = "none"
         \/ entry[k].status \in Terminal /\ Kept(k, entry[k], rec)
<1>0. entry[k] \in Record
  BY DEF Inv, TypeOK
<1>1. CASE SubmitSpec(k)
  <2> DEFINE rec == LogEvent([Blank EXCEPT !.status = "queued"],
                             "queued", "queued")
  <2>1. rec \in Record /\ UpdateEntry(k, rec)
    BY <1>1, SubmittedRecord DEF SubmitSpec
  <2> HIDE DEF rec
  <2> QED
    BY <1>1, <2>1 DEF SubmitSpec
<1>2. CASE RunBegin(k) \/ RunnerArtifact(k) \/ RunEnd(k) \/ CancelRecord(k)
  <2>1. entry[k].status \in Unfinished /\ up
    BY <1>2 DEF RunBegin, RunnerArtifact, RunEnd, CancelRecord, Inv,
                GoroutineInv, DownInv, Unfinished
  <2>2. \E rec : UpdateEntry(k, rec)
    BY <1>2 DEF RunBegin, RunnerArtifact, UpdateArtifact, RunEnd, CancelRecord
  <2>3. PICK rec : UpdateEntry(k, rec)
    BY <2>2
  <2>4. rec = entry'[k]
    BY <2>3 DEF UpdateEntry, Inv, TypeOK
  <2>5. entry'[k] \in Record
    <3>1. Inv'
      BY <1>2, RunBeginInv, RunnerArtifactInv, RunEndInv, CancelRecordInv
    <3> QED
      BY <3>1 DEF Inv, TypeOK
  <2> QED
    BY <2>1, <2>3, <2>4, <2>5
<1>3. CASE RunnerEvent(k) \/ WatcherEvent(k)
  <2> DEFINE rec == LogEvent(entry[k], "custom", entry[k].status)
  <2>1. /\ UpdateEntry(k, rec)
        /\ pc[k] \in {"running", "returned", "done"}
        /\ pc[k] = "done" => k \in Watched
    BY <1>3 DEF RunnerEvent, WatcherEvent, AddEvent
  <2>2. /\ up
        /\ \/ entry[k].status \in Unfinished
           \/ entry[k].status \in Terminal /\ k \in Watched
    BY <2>1 DEF Inv, GoroutineInv, DownInv, Unfinished
  <2>3. "custom" \in EventTypes /\ entry[k].status \in Statuses
    BY <2>2 DEF EventTypes, Statuses
  <2>4. rec \in Record
    BY <1>0, <2>3, LogEventProperties
  <2>5. k \in Watched => Kept(k, entry[k], rec)
    BY <1>0, <2>3, KeptByEvent
  <2> HIDE DEF rec
  <2> QED
    BY <2>1, <2>2, <2>4, <2>5
<1> QED
  BY <1>1, <1>2, <1>3 DEF Storing

\* A finished job's record is final for the life of the process: a late
\* Cancel, an event of its runner or the end of its goroutine leaves it alone,
\* and the watcher of a benchmark only adds progress to its log.
THEOREM FinishedIsFinal == Spec => TerminalFrozen
<1>1. Inv /\ [Next]_vars =>
        [\A j \in Jobs : entry[j].status \in Terminal /\ up'
                           => Kept(j, entry[j], entry'[j])]_vars
  <2> SUFFICES ASSUME Inv, [Next]_vars, NEW j \in Jobs,
                      entry[j].status \in Terminal, up'
               PROVE  Kept(j, entry[j], entry'[j])
    OBVIOUS
  <2>1. up
    BY BlankProperties DEF Inv, DownInv, Terminal
  <2>2. ASSUME NEW k \in Jobs, Storing(k)
        PROVE  Kept(j, entry[j], entry'[j])
    <3>1. PICK rec \in Record :
            /\ UpdateEntry(k, rec)
            /\ \/ entry[k].status \in Unfinished
               \/ entry[k].status = "none"
               \/ Kept(k, entry[k], rec)
      BY <2>2, StoringStep
    <3>2. CASE k = j
      BY <3>1, <3>2 DEF UpdateEntry, Inv, TypeOK, Unfinished, Terminal
    <3>3. CASE k # j
      BY <3>1, <3>3 DEF UpdateEntry, Inv, TypeOK, Kept
    <3> QED
      BY <3>2, <3>3
  <2>3. ASSUME UNCHANGED entry PROVE Kept(j, entry[j], entry'[j])
    BY <2>3 DEF Kept
  <2>4. ASSUME NEW k \in Jobs, RunnerReturn(k) \/ CancelFire(k) \/ Damage(k)
        PROVE  UNCHANGED entry
    BY <2>4 DEF RunnerReturn, CancelFire, Damage
  <2>5. ~Crash /\ ~Restart
    BY <2>1 DEF Crash, Restart
  <2>6. CASE UNCHANGED vars
    BY <2>3, <2>6 DEF vars
  <2> QED
    BY <2>2, <2>3, <2>4, <2>5, <2>6 DEF Next, Storing
<1> QED
  BY <1>1, Invariance, PTL DEF Spec, TerminalFrozen

\* A terminal record on disk is never replaced by another outcome: not by a
\* restart, not by a goroutine that outlives its job, and a failed Save
\* leaves it as it was.
THEOREM StoredIsFinal == Spec => StoredTerminalFrozen
<1>1. Inv /\ [Next]_vars =>
        [\A j \in Jobs : disk[j].status \in Terminal =>
           Kept(j, disk[j], disk'[j]) \/ disk'[j].status = "damaged"]_vars
  <2> SUFFICES ASSUME Inv, [Next]_vars, NEW j \in Jobs,
                      disk[j].status \in Terminal
               PROVE  Kept(j, disk[j], disk'[j]) \/ disk'[j].status = "damaged"
    OBVIOUS
  <2>1. ASSUME disk'[j] = disk[j] PROVE Kept(j, disk[j], disk'[j])
    BY <2>1 DEF Kept
  <2>2. ASSUME NEW k \in Jobs, Storing(k)
        PROVE  Kept(j, disk[j], disk'[j])
    <3>1. PICK rec \in Record :
            /\ UpdateEntry(k, rec)
            /\ \/ entry[k].status \in Unfinished
               \/ entry[k].status = "none" /\ disk[k].status = "none"
               \/ entry[k].status \in Terminal /\ Kept(k, entry[k], rec)
      BY <2>2, StoringStep
    <3>2. up
      BY <2>2, StoringStep
    <3>3. CASE k # j
      BY <2>1, <3>1, <3>3 DEF UpdateEntry, Persist, Inv, TypeOK
    <3>4. CASE k = j
      <4>1. disk'[j] = rec \/ disk'[j] = disk[j]
        BY <3>1, <3>4 DEF UpdateEntry, Persist, Inv, TypeOK
      <4>2. entry[j].status # "none" => Kept(j, disk[j], entry[j])
        BY <3>2 DEF Inv, FileInv
      <4>3. entry[j] \in Record /\ disk[j] \in Record
        BY DEF Inv, TypeOK
      <4>4. entry[j].status \in Terminal /\ Kept(j, entry[j], rec)
        <5>1. entry[j].status \notin Unfinished
          BY <4>2, <4>3, KeptStatus DEF Unfinished, Terminal
        <5> QED
          BY <3>1, <3>4, <5>1 DEF Terminal
      <4>5. Kept(j, disk[j], rec)
        BY <3>1, <4>2, <4>3, <4>4, KeptTransitive DEF Terminal
      <4> QED
        BY <2>1, <4>1, <4>5
    <3> QED
      BY <3>3, <3>4
  <2>3. ASSUME NEW k \in Jobs, RunnerReturn(k) \/ CancelFire(k)
        PROVE  disk'[j] = disk[j]
    BY <2>3 DEF RunnerReturn, CancelFire
  <2>4. ASSUME NEW k \in Jobs, Damage(k)
        PROVE  disk'[j] = disk[j] \/ disk'[j].status = "damaged"
    BY <2>4, BlankProperties DEF Damage, Inv, TypeOK
  <2>5. CASE Crash
    BY <2>1, <2>5 DEF Crash
  <2>6. CASE Restart
    BY <2>1, <2>6, BlankProperties DEF Restart, Reloaded, Unfinished, Terminal
  <2>7. CASE UNCHANGED vars
    BY <2>1, <2>7 DEF vars
  <2> QED
    BY <2>1, <2>2, <2>3, <2>4, <2>5, <2>6, <2>7 DEF Next, Storing
<1> QED
  BY <1>1, Invariance, PTL DEF Spec, StoredTerminalFrozen

-----------------------------------------------------------------------------
(* What a cancel comes to.  That it ends the job needs fairness; that it   *)
(* cannot get lost on the way, and that nothing is left to wait for but    *)
(* the end of the goroutine, does not.                                     *)

\* The request of an unfinished job is still to be passed on to its context,
\* or has been.
CancelNotLost ==
  \A j \in Jobs :
    entry[j].status \in Unfinished /\ CancelRequested(entry[j]) =>
      canceling[j] > 0 \/ ctxCanceled[j]

\* Where a goroutine goes next: it never returns to an earlier place.
Onwards == {<<"spawned", "running">>, <<"running", "returned">>, <<"returned", "done">>}

\* What a storing step does to a record that is not terminal after it: it leaves
\* requests alone unless it is one.
LEMMA StoredRequest ==
  ASSUME Inv, NEW k \in Jobs, Storing(k)
  PROVE  /\ UNCHANGED <<up, ctxCanceled>> /\ up
         /\ \A j \in Jobs \ {k} :
              entry'[j] = entry[j] /\ canceling'[j] = canceling[j] /\ pc'[j] = pc[j]
         /\ canceling'[k] >= canceling[k] /\ canceling'[k] \in Nat /\ canceling[k] \in Nat
         /\ canceling'[k] > 0 \/ (CancelRequested(entry'[k]) => CancelRequested(entry[k]))
         /\ entry[k].status \in Unfinished
              \/ (entry[k].status \in Terminal /\ entry'[k].status \in Terminal)
              \/ ~CancelRequested(entry'[k])
         /\ entry[k].status \in Unfinished =>
              /\ entry'[k].status \in Unfinished
                   \/ (entry'[k].status \in Terminal /\ RunEnd(k))
              /\ pc'[k] = pc[k] \/ <<pc[k], pc'[k]>> \in Onwards
<1>a. /\ entry \in [Jobs -> Record] /\ canceling \in [Jobs -> Nat]
      /\ pc \in [Jobs -> {"none", "spawned", "running", "returned", "done"}]
  BY DEF Inv, TypeOK
<1>1. CASE SubmitSpec(k)
  <2> DEFINE mid == [Blank EXCEPT !.status = "queued"]
             rec == LogEvent(mid, "queued", "queued")
  <2>1. /\ entry' = [entry EXCEPT ![k] = rec] /\ pc' = [pc EXCEPT ![k] = "spawned"]
        /\ UNCHANGED <<up, canceling, ctxCanceled>> /\ up /\ entry[k].status = "none"
    BY <1>1 DEF SubmitSpec, UpdateEntry
  <2>2. mid \in Record /\ mid.events = Blank.events
    BY BlankProperties DEF Record, Unfinished
  <2>3. ~CancelRequested(mid)
    BY <2>2, BlankProperties DEF CancelRequested
  <2>4. "queued" \in EventTypes /\ "queued" \in Statuses
    BY DEF EventTypes, Statuses, Unfinished, Lifecycle
  <2> HIDE DEF mid
  <2>5. ~CancelRequested(rec)
    BY <2>2, <2>3, <2>4, CancelRequestedAfterEvent
  <2> HIDE DEF rec
  <2>6. ~CancelRequested(entry'[k]) /\ entry[k].status \notin Unfinished
    BY <1>a, <2>1, <2>5 DEF Unfinished
  <2> QED
    BY <1>a, <2>1, <2>6
<1>2. CASE RunBegin(k)
  <2> DEFINE mid == [entry[k] EXCEPT !.status = "running", !.started = TRUE]
             rec == LogEvent(mid, "running", "running")
  <2>1. /\ entry' = [entry EXCEPT ![k] = rec] /\ pc' = [pc EXCEPT ![k] = "running"]
        /\ UNCHANGED <<up, canceling, ctxCanceled>> /\ pc[k] = "spawned"
    BY <1>2 DEF RunBegin, UpdateEntry
  <2>2. entry[k] \in Record /\ Sound(entry[k]) /\ entry[k].status = "queued" /\ up
    BY <2>1 DEF Inv, TypeOK, RecordsSound, GoroutineInv, DownInv
  <2>3. mid \in Record /\ mid.events = entry[k].events /\ mid.status = "running"
    BY <2>2 DEF Record, Unfinished
  <2> HIDE DEF mid
  <2>4. "running" \in Lifecycle /\ "running" \in Statuses
    BY DEF Lifecycle, Statuses, Unfinished
  <2>5. rec.status = "running" /\ (CancelRequested(rec) <=> CancelRequested(entry[k]))
    BY <2>2, <2>3, <2>4, AdvancedRecord DEF Unfinished
  <2> HIDE DEF rec
  <2>6. entry'[k] = rec /\ <<pc[k], pc'[k]>> \in Onwards
    BY <1>a, <2>1 DEF Onwards
  <2> QED
    BY <1>a, <2>1, <2>2, <2>5, <2>6 DEF Unfinished
<1>3. CASE RunnerEvent(k) \/ WatcherEvent(k)
  <2> DEFINE rec == LogEvent(entry[k], "custom", entry[k].status)
  <2>1. /\ entry' = [entry EXCEPT ![k] = rec]
        /\ UNCHANGED <<up, pc, canceling, ctxCanceled>>
        /\ pc[k] \in {"running", "returned", "done"}
    BY <1>3 DEF RunnerEvent, WatcherEvent, AddEvent, UpdateEntry, goroutine
  <2>2. /\ entry[k] \in Record /\ up
        /\ entry[k].status \in Unfinished \/ entry[k].status \in Terminal
    BY <2>1 DEF Inv, TypeOK, GoroutineInv, DownInv, Unfinished
  <2>3. "custom" \in EventTypes /\ entry[k].status \in Statuses
    BY <2>2 DEF EventTypes, Statuses
  <2>4. /\ rec.status = entry[k].status
        /\ CancelRequested(rec) <=> CancelRequested(entry[k])
    BY <2>2, <2>3, LogEventProperties, CancelRequestedAfterEvent DEF Record
  <2> HIDE DEF rec
  <2>5. entry'[k] = rec
    BY <1>a, <2>1
  <2> QED
    BY <1>a, <2>1, <2>2, <2>4, <2>5
<1>4. CASE RunnerArtifact(k)
  <2>1. PICK s \in ArtifactStatuses : UpdateArtifact(k, s)
    BY <1>4 DEF RunnerArtifact
  <2> DEFINE rec == [entry[k] EXCEPT !.artifact = s]
  <2>2. /\ entry' = [entry EXCEPT ![k] = rec] /\ pc[k] = "running"
        /\ UNCHANGED <<up, pc, canceling, ctxCanceled>>
    BY <1>4, <2>1 DEF RunnerArtifact, UpdateArtifact, UpdateEntry, goroutine
  <2>3. entry[k] \in Record /\ entry[k].status = "running" /\ up
    BY <2>2 DEF Inv, TypeOK, GoroutineInv, DownInv
  <2>4. rec.status = "running" /\ rec.events = entry[k].events
    BY <2>3 DEF Record
  <2> HIDE DEF rec
  <2>5. entry'[k] = rec /\ (CancelRequested(rec) <=> CancelRequested(entry[k]))
    BY <1>a, <2>2, <2>4 DEF CancelRequested
  <2> QED
    BY <1>a, <2>2, <2>3, <2>4, <2>5 DEF Unfinished
<1>5. CASE RunEnd(k)
  <2> DEFINE rec == Finished(entry[k], outcome[k], ctxCanceled[k])
  <2>1. /\ entry' = [entry EXCEPT ![k] = rec] /\ pc[k] = "returned"
        /\ pc' = [pc EXCEPT ![k] = "done"]
        /\ UNCHANGED <<up, canceling, ctxCanceled>>
    BY <1>5 DEF RunEnd, UpdateEntry
  <2>2. entry[k] \in Record /\ Sound(entry[k]) /\ entry[k].status = "running" /\ up
    BY <2>1 DEF Inv, TypeOK, RecordsSound, GoroutineInv, DownInv
  <2>3. ctxCanceled[k] \in BOOLEAN /\ (ctxCanceled[k] => CancelRequested(entry[k]))
    BY DEF Inv, TypeOK, CancelInv
  <2>4. rec.status \in Terminal /\ (CancelRequested(rec) <=> CancelRequested(entry[k]))
    BY <2>2, <2>3, FinishedRecord
  <2> HIDE DEF rec
  <2>5. entry'[k] = rec /\ <<pc[k], pc'[k]>> \in Onwards
    BY <1>a, <2>1 DEF Onwards
  <2> QED
    BY <1>5, <1>a, <2>1, <2>2, <2>4, <2>5 DEF Unfinished
<1>6. CASE CancelRecord(k)
  <2> DEFINE rec == LogEvent(entry[k], "cancel_requested", entry[k].status)
  <2>1. /\ entry' = [entry EXCEPT ![k] = rec] /\ up /\ entry[k].status \in Unfinished
        /\ canceling' = [canceling EXCEPT ![k] = @ + 1]
        /\ UNCHANGED <<up, pc, ctxCanceled>>
    BY <1>6 DEF CancelRecord, UpdateEntry
  <2>2. entry[k] \in Record /\ entry[k].status \in Statuses
    BY <1>a, <2>1 DEF Statuses
  <2>3. "cancel_requested" \in EventTypes
    BY DEF EventTypes
  <2>4. rec.status = entry[k].status
    BY <2>2, <2>3, LogEventProperties DEF Record
  <2> HIDE DEF rec
  <2>5. entry'[k] = rec /\ canceling'[k] = canceling[k] + 1
    BY <1>a, <2>1
  <2> QED
    BY <1>a, <2>1, <2>4, <2>5
<1> QED
  BY <1>1, <1>2, <1>3, <1>4, <1>5, <1>6 DEF Storing

\* Every step keeps it so: an accepted cancel is passed on by whoever was told
\* that it was accepted, whatever happens between the unlock and cancel().
LEMMA CancelNotLostStep == Inv /\ CancelNotLost /\ [Next]_vars => CancelNotLost'
<1> SUFFICES ASSUME Inv, CancelNotLost, [Next]_vars, NEW j \in Jobs,
                    entry'[j].status \in Unfinished, CancelRequested(entry'[j])
             PROVE  canceling'[j] > 0 \/ ctxCanceled'[j]
  BY DEF CancelNotLost, CancelRequested
<1>1. ASSUME NEW k \in Jobs, Storing(k)
      PROVE  canceling'[j] > 0 \/ ctxCanceled'[j]
  <2>1. CASE k # j
    BY <1>1, <2>1, StoredRequest DEF CancelNotLost
  <2>2. CASE k = j
    <3>1. entry[j].status \in Unfinished
      BY <1>1, <2>2, StoredRequest DEF Unfinished, Terminal
    <3>2. canceling'[j] > 0 \/ CancelRequested(entry[j])
      BY <1>1, <2>2, StoredRequest
    <3>3. canceling'[j] >= canceling[j] /\ canceling'[j] \in Nat /\ canceling[j] \in Nat
          /\ ctxCanceled'[j] = ctxCanceled[j]
      BY <1>1, <2>2, StoredRequest
    <3> QED
      BY <3>1, <3>2, <3>3 DEF CancelNotLost
  <2> QED
    BY <2>1, <2>2
<1>2. ASSUME NEW k \in Jobs, RunnerReturn(k) \/ Damage(k)
      PROVE  canceling'[j] > 0 \/ ctxCanceled'[j]
  BY <1>2 DEF RunnerReturn, Damage, goroutine, CancelNotLost
<1>3. ASSUME NEW k \in Jobs, CancelFire(k)
      PROVE  canceling'[j] > 0 \/ ctxCanceled'[j]
  BY <1>3 DEF CancelFire, CancelNotLost, Inv, TypeOK
<1>4. ~Crash
  BY BlankProperties DEF Crash, Unfinished
<1>5. ~Restart
  BY BlankProperties, ReloadedRecord DEF Restart, Inv, TypeOK, RecordsSound, Unfinished
<1>6. CASE UNCHANGED vars
  BY <1>6 DEF vars, CancelNotLost
<1> QED
  BY <1>1, <1>2, <1>3, <1>4, <1>5, <1>6 DEF Next, Storing

\* So does an event that a runner logs, however many it logs.
LEMMA CustomEventKeepsCancel ==
  ASSUME Inv, CancelNotLost, NEW k \in Jobs, pc[k] = "running", AddEvent(k),
         UNCHANGED <<up, goroutine>>
  PROVE  CancelNotLost'
<1> DEFINE rec == LogEvent(entry[k], "custom", entry[k].status)
<1>1. /\ entry' = [entry EXCEPT ![k] = rec] /\ entry \in [Jobs -> Record]
      /\ canceling' = canceling /\ ctxCanceled' = ctxCanceled
  BY DEF AddEvent, UpdateEntry, goroutine, Inv, TypeOK
<1>2. entry[k] \in Record /\ entry[k].status = "running"
  BY <1>1 DEF Inv, GoroutineInv
<1>3. "custom" \in EventTypes /\ entry[k].status \in Statuses
  BY <1>2 DEF EventTypes, Statuses, Unfinished
<1>4. /\ rec.status = entry[k].status
      /\ CancelRequested(rec) <=> CancelRequested(entry[k])
  BY <1>2, <1>3, LogEventProperties, CancelRequestedAfterEvent DEF Record
<1> HIDE DEF rec
<1>5. entry'[k] = rec /\ \A j \in Jobs \ {k} : entry'[j] = entry[j]
  BY <1>1
<1>6. SUFFICES ASSUME NEW j \in Jobs,
                      entry'[j].status \in Unfinished, CancelRequested(entry'[j])
               PROVE  canceling[j] > 0 \/ ctxCanceled[j]
  BY <1>1 DEF CancelNotLost, CancelRequested
<1>7. entry[j].status \in Unfinished /\ CancelRequested(entry[j])
  BY <1>4, <1>5, <1>6
<1> QED
  BY <1>7 DEF CancelNotLost

\* An accepted cancel is never lost: whatever starts, returns or is recorded
\* between the unlock and the call of cancel(), the context of a job that is
\* still unfinished is canceled, or will be.
THEOREM CancelNotLostHolds == Spec => []CancelNotLost
<1>1. Init => CancelNotLost
  BY BlankProperties DEF Init, CancelNotLost
<1> QED
  BY <1>1, CancelNotLostStep, Invariance, PTL DEF Spec

\* A job whose context is canceled has only the end of its goroutine before it:
\* the context stays canceled, the goroutine goes on and never back, and no
\* other end is recorded than "canceled", as long as the process lives.
CanceledRunsOut ==
  [][\A j \in Jobs :
       ctxCanceled[j] /\ entry[j].status \in Unfinished /\ up' =>
         /\ ctxCanceled'[j]
         /\ entry'[j].status \in Unfinished \cup {"canceled"}
         /\ pc'[j] = pc[j] \/ <<pc[j], pc'[j]>> \in Onwards]_vars

\* This is so of every job, whatever its runner returns and whoever cancels it
\* once more.
THEOREM CanceledRunsOutHolds == Spec => CanceledRunsOut
<1>1. Inv /\ [Next]_vars =>
        [\A j \in Jobs :
           ctxCanceled[j] /\ entry[j].status \in Unfinished /\ up' =>
             /\ ctxCanceled'[j]
             /\ entry'[j].status \in Unfinished \cup {"canceled"}
             /\ pc'[j] = pc[j] \/ <<pc[j], pc'[j]>> \in Onwards]_vars
  <2> SUFFICES ASSUME Inv, [Next]_vars, NEW j \in Jobs,
                      ctxCanceled[j], entry[j].status \in Unfinished, up'
               PROVE  /\ ctxCanceled'[j]
                      /\ entry'[j].status \in Unfinished \cup {"canceled"}
                      /\ pc'[j] = pc[j] \/ <<pc[j], pc'[j]>> \in Onwards
    OBVIOUS
  <2>1. up
    BY BlankProperties DEF Inv, DownInv, Unfinished
  <2>2. ASSUME NEW k \in Jobs, Storing(k)
        PROVE  /\ ctxCanceled'[j]
               /\ entry'[j].status \in Unfinished \cup {"canceled"}
               /\ pc'[j] = pc[j] \/ <<pc[j], pc'[j]>> \in Onwards
    <3>1. ctxCanceled' = ctxCanceled
      BY <2>2, StoredRequest
    <3>2. CASE k # j
      BY <2>2, <3>1, <3>2, StoredRequest
    <3>3. CASE k = j
      <4>1. entry'[j].status \in Unfinished
              \/ (entry'[j].status \in Terminal /\ RunEnd(j))
        BY <2>2, <3>3, StoredRequest
      <4>2. ASSUME RunEnd(j) PROVE entry'[j].status = "canceled"
        <5>1. entry[j] \in Record /\ entry'[j] = Finished(entry[j], outcome[j], ctxCanceled[j])
          BY <4>2 DEF RunEnd, UpdateEntry, Inv, TypeOK
        <5>2. Finished(entry[j], outcome[j], ctxCanceled[j]) =
                LogEvent([entry[j] EXCEPT !.status = "canceled", !.finished = TRUE],
                         "canceled", "canceled")
          BY DEF Finished
        <5> QED
          BY ZenonT(40), <5>1, <5>2 DEF LogEvent, Record
      <4>3. pc'[j] = pc[j] \/ <<pc[j], pc'[j]>> \in Onwards
        BY <2>2, <3>3, StoredRequest
      <4> QED
        BY <3>1, <4>1, <4>2, <4>3
    <3> QED
      BY <3>2, <3>3
  <2>3. ASSUME NEW k \in Jobs, CancelFire(k) \/ Damage(k)
        PROVE  /\ ctxCanceled'[j] /\ entry' = entry /\ pc' = pc
    BY <2>3 DEF CancelFire, Damage, goroutine, Inv, TypeOK
  <2>4. ASSUME NEW k \in Jobs, RunnerReturn(k)
        PROVE  /\ ctxCanceled'[j] /\ entry' = entry
               /\ pc'[j] = pc[j] \/ <<pc[j], pc'[j]>> \in Onwards
    BY <2>4 DEF RunnerReturn, Inv, TypeOK, Onwards
  <2>5. ~Crash /\ ~Restart
    BY <2>1 DEF Crash, Restart
  <2>6. CASE UNCHANGED vars
    BY <2>6 DEF vars
  <2> QED
    BY <2>2, <2>3, <2>4, <2>5, <2>6 DEF Next, Storing
<1> QED
  BY <1>1, Invariance, PTL DEF Spec, CanceledRunsOut

-----------------------------------------------------------------------------
(* The manager implements Lifecycle when saves succeed and records stay    *)
(* readable.  While the process lives the mapping reads the table, while   *)
(* it is down the files; that both agree is FileInv.                       *)

Status == [j \in Jobs |-> Trusted(j).status]
Asked  == {j \in Jobs : CancelRequested(Trusted(j))}

\* One entry changes in a running process: so does one abstract status.
LEMMA OneEntryMaps ==
  ASSUME up, up', NEW j \in Jobs, NEW rec, entry'[j] = rec,
         \A k \in Jobs : k # j => entry'[k] = entry[k]
  PROVE  /\ Status[j] = entry[j].status
         /\ j \in Asked <=> CancelRequested(entry[j])
         /\ Status' = [Status EXCEPT ![j] = rec.status]
         /\ CancelRequested(rec) => Asked' = Asked \cup {j}
         /\ (CancelRequested(rec) <=> CancelRequested(entry[j]))
               => Asked' = Asked
BY DEF Status, Asked, Trusted

LEMMA EntryOf ==
  ASSUME Inv, NEW j \in Jobs, NEW rec, UpdateEntry(j, rec)
  PROVE  entry'[j] = rec /\ \A k \in Jobs : k # j => entry'[k] = entry[k]
BY DEF UpdateEntry, Inv, TypeOK

LEMMA SameTableMaps ==
  ASSUME up = up', entry' = entry, disk' = disk
  PROVE  Status' = Status /\ Asked' = Asked
BY DEF Status, Asked, Trusted, Reloaded, LogEvent, CancelRequested

\* Without faults, what is trusted survives a crash (up to the failure of
\* the unfinished jobs) and a restart (as it is).
LEMMA CrashMaps ==
  ASSUME Inv, Crash, ~SaveMayFail, ~DamageMayHappen
  PROVE  /\ Status' = [j \in Jobs |-> IF Status[j] \in Unfinished THEN "failed"
                                                                  ELSE Status[j]]
         /\ Asked' = Asked
<1>1. up /\ ~up' /\ disk' = disk
  BY DEF Crash
<1>2. ASSUME NEW j \in Jobs
      PROVE  disk[j] = entry[j] /\ entry[j] \in Record /\ Sound(entry[j])
  BY <1>1 DEF Inv, FileInv, TypeOK, RecordsSound
<1>3. ASSUME NEW j \in Jobs
      PROVE  Trusted(j) = entry[j] /\ Trusted(j)' = Reloaded(entry[j])
  BY <1>1, <1>2 DEF Trusted, Reloaded, LogEvent
<1>4. ASSUME NEW j \in Jobs
      PROVE  /\ Trusted(j)'.status = IF entry[j].status \in Unfinished
                                     THEN "failed" ELSE entry[j].status
             /\ CancelRequested(Trusted(j)') <=> CancelRequested(entry[j])
  BY <1>2, <1>3, ReloadedRecord
<1>5. ASSUME NEW j \in Jobs
      PROVE  CancelRequested(Trusted(j))' <=> CancelRequested(Trusted(j))
  BY <1>3, <1>4 DEF CancelRequested
<1> QED
  BY <1>3, <1>4, <1>5 DEF Status, Asked

LEMMA RestartMaps ==
  ASSUME Inv, Restart, ~DamageMayHappen
  PROVE  Status' = Status /\ Asked' = Asked
<1>1. /\ ~up /\ up'
      /\ entry' = [j \in Jobs |-> IF Loadable(j) THEN Reloaded(disk[j])
                                                 ELSE Blank]
  BY DEF Restart
<1>2. ASSUME NEW j \in Jobs
      PROVE  entry'[j] = Reloaded(disk[j])
  <2>1. Loadable(j) <=> disk[j].status # "none"
    BY DEF Inv, FileInv, SomeDamage, Loadable
  <2>2. disk[j].status = "none" => Reloaded(disk[j]) = Blank
    BY DEF Inv, RecordsSound, Sound, Reloaded, Unfinished
  <2> QED
    BY <1>1, <2>1, <2>2
<1>3. ASSUME NEW j \in Jobs
      PROVE  Trusted(j)' = Trusted(j)
  BY <1>1, <1>2 DEF Trusted
<1>4. ASSUME NEW j \in Jobs
      PROVE  CancelRequested(Trusted(j))' <=> CancelRequested(Trusted(j))
  BY <1>3 DEF CancelRequested
<1> QED
  BY <1>3, <1>4 DEF Status, Asked

\* An event of a runner or of a watcher changes no status.
LEMMA CustomEventMaps ==
  ASSUME Inv, NEW j \in Jobs, AddEvent(j), UNCHANGED up,
         pc[j] \in {"running", "returned", "done"}
  PROVE  Status' = Status /\ Asked' = Asked
<1> DEFINE rec == LogEvent(entry[j], "custom", entry[j].status)
<1>1. UpdateEntry(j, rec)
  BY DEF AddEvent
<1>2. entry[j] \in Record /\ entry[j].status \in Statuses /\ up /\ up'
  BY DEF Inv, TypeOK, GoroutineInv, DownInv, Statuses, Unfinished
<1>3. "custom" \in EventTypes
  BY DEF EventTypes
<1>4. /\ rec.status = entry[j].status
      /\ CancelRequested(rec) <=> CancelRequested(entry[j])
  BY <1>2, <1>3, LogEventProperties, CancelRequestedAfterEvent DEF Record
<1> HIDE DEF rec
<1>5. entry'[j] = rec /\ \A k \in Jobs : k # j => entry'[k] = entry[k]
  BY <1>1, EntryOf
<1>6. Status' = [Status EXCEPT ![j] = Status[j]] /\ Asked' = Asked
  BY <1>2, <1>4, <1>5, OneEntryMaps
<1> QED
  BY <1>6 DEF Status

LEMMA InitMaps == Init => Abstract!LifecycleInit
<1> SUFFICES ASSUME Init PROVE Abstract!LifecycleInit
  OBVIOUS
<1>1. \A j \in Jobs : Trusted(j) = Blank
  BY DEF Init, Trusted
<1> QED
  BY <1>1, BlankProperties DEF Abstract!LifecycleInit

LEMMA StepMaps ==
  ASSUME ~SaveMayFail, ~DamageMayHappen
  PROVE  Inv /\ [Next]_vars =>
           [Abstract!LifecycleNext]_<<Status, Asked>>
<1> SUFFICES ASSUME Inv, [Next]_vars
             PROVE  Abstract!LifecycleNext \/ (Status' = Status /\ Asked' = Asked)
  OBVIOUS
<1>a. ASSUME NEW j \in Jobs, Status[j] = "none",
             Status' = [Status EXCEPT ![j] = "queued"], Asked' = Asked
      PROVE  Abstract!LifecycleNext
  BY <1>a DEF Abstract!LifecycleNext, Abstract!Accept, Status, Asked
<1>b. ASSUME NEW j \in Jobs, Status[j] = "queued",
             Status' = [Status EXCEPT ![j] = "running"], Asked' = Asked
      PROVE  Abstract!LifecycleNext
  BY <1>b DEF Abstract!LifecycleNext, Abstract!Begin, Status, Asked
<1>c. ASSUME NEW j \in Jobs, Status[j] \in Unfinished,
             Status' = Status, Asked' = Asked \cup {j}
      PROVE  Abstract!LifecycleNext
  BY <1>c DEF Abstract!LifecycleNext, Abstract!Request, Status, Asked,
              Unfinished, Abstract!Unfinished
<1>d. ASSUME NEW j \in Jobs, Status[j] = "running", NEW t \in Terminal,
             t = "canceled" => j \in Asked,
             Status' = [Status EXCEPT ![j] = t], Asked' = Asked
      PROVE  Abstract!LifecycleNext
  BY <1>d DEF Abstract!LifecycleNext, Abstract!End, Status, Asked,
              Terminal, Abstract!Terminal
<1>1. ASSUME NEW j \in Jobs, SubmitSpec(j) PROVE Abstract!LifecycleNext
  <2> DEFINE rec == LogEvent([Blank EXCEPT !.status = "queued"],
                             "queued", "queued")
  <2>1. /\ UpdateEntry(j, rec) /\ up /\ up' /\ entry[j].status = "none"
    BY <1>1 DEF SubmitSpec, Inv, TypeOK
  <2>2. entry[j] = Blank /\ ~CancelRequested(entry[j])
    BY <2>1, BlankProperties DEF Inv, RecordsSound, Sound
  <2>3. rec.status = "queued" /\ ~CancelRequested(rec)
    <3> DEFINE mid == [Blank EXCEPT !.status = "queued"]
    <3>1. mid \in Record /\ mid.events = Blank.events
      BY BlankProperties DEF Record, Unfinished
    <3>2. ~CancelRequested(mid)
      BY <3>1, BlankProperties DEF CancelRequested
    <3> HIDE DEF mid
    <3>3. "queued" \in EventTypes /\ "queued" \in Statuses
      BY DEF EventTypes, Statuses, Unfinished
    <3>4. ~CancelRequested(LogEvent(mid, "queued", "queued"))
      BY <3>1, <3>2, <3>3, CancelRequestedAfterEvent
    <3> QED
      BY <3>4, SubmittedRecord DEF mid
  <2> HIDE DEF rec
  <2>4. entry'[j] = rec /\ \A k \in Jobs : k # j => entry'[k] = entry[k]
    BY <2>1, EntryOf
  <2> QED
    BY <1>a, <2>1, <2>2, <2>3, <2>4, OneEntryMaps
<1>2. ASSUME NEW j \in Jobs, RunBegin(j) PROVE Abstract!LifecycleNext
  <2> DEFINE mid == [entry[j] EXCEPT !.status = "running", !.started = TRUE]
             rec == LogEvent(mid, "running", "running")
  <2>1. UpdateEntry(j, rec) /\ pc[j] = "spawned" /\ UNCHANGED up
    BY <1>2 DEF RunBegin
  <2>2. /\ entry[j] \in Record /\ Sound(entry[j])
        /\ entry[j].status = "queued" /\ up /\ up'
    BY <2>1 DEF Inv, TypeOK, RecordsSound, GoroutineInv, DownInv
  <2>3. mid \in Record /\ mid.events = entry[j].events /\ mid.status = "running"
    BY <2>2 DEF Record, Unfinished
  <2> HIDE DEF mid
  <2>4. /\ rec.status = "running"
        /\ CancelRequested(rec) <=> CancelRequested(entry[j])
    <3>1. "running" \in Lifecycle /\ "running" \in Statuses
      BY DEF Lifecycle, Statuses, Unfinished
    <3> QED
      BY <2>2, <2>3, <3>1, AdvancedRecord DEF Unfinished
  <2> HIDE DEF rec
  <2>5. entry'[j] = rec /\ \A k \in Jobs : k # j => entry'[k] = entry[k]
    BY <2>1, EntryOf
  <2> QED
    BY <1>b, <2>2, <2>4, <2>5, OneEntryMaps
<1>3. ASSUME NEW j \in Jobs, RunnerEvent(j) \/ WatcherEvent(j)
      PROVE  Status' = Status /\ Asked' = Asked
  BY <1>3, CustomEventMaps DEF RunnerEvent, WatcherEvent, goroutine
<1>4. ASSUME NEW j \in Jobs, RunnerArtifact(j)
      PROVE  Status' = Status /\ Asked' = Asked
  <2>1. PICK s \in ArtifactStatuses : UpdateArtifact(j, s)
    BY <1>4 DEF RunnerArtifact
  <2> DEFINE rec == [entry[j] EXCEPT !.artifact = s]
  <2>2. UpdateEntry(j, rec) /\ pc[j] = "running" /\ UNCHANGED up
    BY <1>4, <2>1 DEF RunnerArtifact, UpdateArtifact
  <2>3. entry[j] \in Record /\ up /\ up'
    BY <2>2 DEF Inv, TypeOK, DownInv
  <2>4. rec.status = entry[j].status /\ rec.events = entry[j].events
    BY <2>3 DEF Record
  <2> HIDE DEF rec
  <2>5. CancelRequested(rec) <=> CancelRequested(entry[j])
    BY <2>4 DEF CancelRequested
  <2>6. entry'[j] = rec /\ \A k \in Jobs : k # j => entry'[k] = entry[k]
    BY <2>2, EntryOf
  <2>7. Status' = [Status EXCEPT ![j] = Status[j]] /\ Asked' = Asked
    BY <2>3, <2>4, <2>5, <2>6, OneEntryMaps
  <2> QED
    BY <2>7 DEF Status
<1>5. ASSUME NEW j \in Jobs, RunnerReturn(j) \/ CancelFire(j)
      PROVE  Status' = Status /\ Asked' = Asked
  BY <1>5, SameTableMaps DEF RunnerReturn, CancelFire
<1>6. ASSUME NEW j \in Jobs, RunEnd(j) PROVE Abstract!LifecycleNext
  <2> DEFINE rec == Finished(entry[j], outcome[j], ctxCanceled[j])
  <2>1. UpdateEntry(j, rec) /\ pc[j] = "returned" /\ UNCHANGED up
    BY <1>6 DEF RunEnd
  <2>2. /\ entry[j] \in Record /\ Sound(entry[j])
        /\ entry[j].status = "running" /\ up /\ up'
    BY <2>1 DEF Inv, TypeOK, RecordsSound, GoroutineInv, DownInv
  <2>3. /\ rec.status \in Terminal
        /\ rec.status = "canceled" => CancelRequested(entry[j])
        /\ CancelRequested(rec) <=> CancelRequested(entry[j])
    BY <2>2, FinishedRecord DEF Inv, TypeOK, CancelInv
  <2> HIDE DEF rec
  <2>4. entry'[j] = rec /\ \A k \in Jobs : k # j => entry'[k] = entry[k]
    BY <2>1, EntryOf
  <2> QED
    BY <1>d, <2>2, <2>3, <2>4, OneEntryMaps
<1>7. ASSUME NEW j \in Jobs, CancelRecord(j) PROVE Abstract!LifecycleNext
  <2> DEFINE rec == LogEvent(entry[j], "cancel_requested", entry[j].status)
  <2>1. /\ UpdateEntry(j, rec) /\ up /\ up' /\ entry[j] \in Record
        /\ entry[j].status \in Unfinished
    BY <1>7 DEF CancelRecord, Inv, TypeOK
  <2>2. "cancel_requested" \in EventTypes /\ entry[j].status \in Statuses
    BY <2>1 DEF EventTypes, Statuses
  <2>3. rec.status = entry[j].status /\ CancelRequested(rec)
    BY <2>1, <2>2, LogEventProperties, CancelRequestedAfterEvent DEF Record
  <2> HIDE DEF rec
  <2>4. entry'[j] = rec /\ \A k \in Jobs : k # j => entry'[k] = entry[k]
    BY <2>1, EntryOf
  <2>5. /\ Status[j] \in Unfinished /\ Asked' = Asked \cup {j}
        /\ Status' = [Status EXCEPT ![j] = Status[j]]
    BY <2>1, <2>3, <2>4, OneEntryMaps
  <2>6. Status' = Status
    BY <2>5 DEF Status
  <2> QED
    BY <1>c, <2>5, <2>6
<1>8. CASE Crash
  BY <1>8, CrashMaps DEF Abstract!LifecycleNext, Abstract!Interrupt, Status,
     Asked, Unfinished, Abstract!Unfinished
<1>9. CASE Restart
  BY <1>9, RestartMaps
<1>10. ASSUME NEW j \in Jobs, Damage(j) PROVE FALSE
  BY <1>10 DEF Damage
<1>11. CASE UNCHANGED vars
  BY <1>11, SameTableMaps DEF vars
<1> QED
  BY <1>1, <1>2, <1>3, <1>4, <1>5, <1>6, <1>7, <1>8, <1>9, <1>10, <1>11 DEF Next

\* Where a job is and what its status is, and how a step may change it, for
\* whoever composes the manager with something else.
LEMMA StatusFacts ==
  ASSUME Inv, ~SaveMayFail, ~DamageMayHappen
  PROVE  /\ up \in BOOLEAN
         /\ entry = [j \in Jobs |-> entry[j]] /\ pc = [j \in Jobs |-> pc[j]]
         /\ canceling = [j \in Jobs |-> canceling[j]]
         /\ ctxCanceled \in [Jobs -> BOOLEAN]
         /\ \A j \in Jobs :
              /\ Trusted(j).status \in {"none"} \cup Statuses
              /\ up => Trusted(j) = entry[j]
              /\ ~up => Trusted(j).status \notin Unfinished /\ pc[j] = "none"
              /\ pc[j] # "none" \/ canceling[j] > 0 \/ ctxCanceled[j] => up
              /\ pc[j] = "spawned" <=> entry[j].status = "queued"
              /\ pc[j] \in {"running", "returned"} <=> entry[j].status = "running"
              /\ pc[j] = "done" => entry[j].status \in Terminal
              /\ pc[j] \in {"none", "spawned", "running", "returned", "done"}
<1> USE DEF Inv, TypeOK
<1>1. \A j \in Jobs : entry[j].status # "damaged" /\ disk[j].status # "damaged"
  BY DEF FileInv, SomeDamage
<1>2. ASSUME NEW j \in Jobs, ~up
      PROVE  /\ Trusted(j).status \in {"none"} \cup Terminal
             /\ entry[j].status = "none" /\ pc[j] = "none"
  <2>1. disk[j] \in Record /\ entry[j] = Blank /\ pc[j] = "none"
    BY <1>2 DEF DownInv
  <2>2. Reloaded(disk[j]).status \in {"none"} \cup Terminal
    BY <1>1, <2>1 DEF Reloaded, LogEvent, Record, Unfinished, Terminal
  <2> QED
    BY <1>2, <2>1, <2>2, BlankProperties DEF Trusted
<1>3. ASSUME NEW j \in Jobs
      PROVE  Trusted(j).status \in {"none"} \cup Statuses
  <2>1. entry[j].status \in {"none"} \cup Statuses
    BY <1>1 DEF Record, Statuses
  <2> QED
    BY <1>2, <2>1 DEF Trusted, Statuses
<1>4. ASSUME NEW j \in Jobs, pc[j] # "none" \/ canceling[j] > 0 \/ ctxCanceled[j]
      PROVE  up
  BY <1>2, <1>4 DEF CancelInv
<1> QED
  BY <1>2, <1>3, <1>4 DEF Trusted, GoroutineInv, Unfinished, Terminal

LEMMA StatusMoves ==
  ASSUME Inv, Next, ~SaveMayFail, ~DamageMayHappen
  PROVE  \A j \in Jobs :
           /\ Trusted(j).status \in Terminal => Trusted(j)'.status = Trusted(j).status
           /\ Trusted(j).status = "none" => Trusted(j)'.status \in {"none", "queued"}
           /\ Trusted(j).status \in Unfinished =>
                Trusted(j)'.status \in Unfinished \cup Terminal
<1> SUFFICES ASSUME NEW j \in Jobs
             PROVE  /\ Status[j] \in Terminal => Status'[j] = Status[j]
                    /\ Status[j] = "none" => Status'[j] \in {"none", "queued"}
                    /\ Status[j] \in Unfinished => Status'[j] \in Unfinished \cup Terminal
  BY DEF Status
<1>1. Abstract!LifecycleNext \/ Status' = Status
  BY StepMaps
<1>2. Status = [k \in Jobs |-> Status[k]]
  BY DEF Status
<1> QED
  BY <1>1, <1>2 DEF Abstract!LifecycleNext, Abstract!Accept, Abstract!Begin,
     Abstract!Request, Abstract!End, Abstract!Interrupt, Unfinished, Terminal,
     Abstract!Unfinished, Abstract!Terminal, Status, Asked

\* When no Save fails and no record becomes unreadable, the manager keeps the
\* promises of Lifecycle across crashes and restarts: a client never sees a
\* finished job change, an unfinished job survive its process, or a
\* cancellation nobody asked for.
THEOREM Refinement ==
  ASSUME ~SaveMayFail, ~DamageMayHappen
  PROVE  Spec => ImplementsLifecycle
<1>1. Inv /\ [Next]_vars => [Abstract!LifecycleNext]_(Abstract!lvars)
  BY StepMaps DEF Status, Asked, Abstract!lvars
<1> QED
  BY <1>1, InitMaps, Invariance, PTL
     DEF Spec, ImplementsLifecycle, Abstract!LifecycleSpec
=============================================================================
