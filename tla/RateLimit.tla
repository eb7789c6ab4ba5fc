------------------------------ MODULE RateLimit -------------------------------
(***************************************************************************)
(* The rate limit on LLM calls that the graph builds of one dataset share  *)
(* (acquire_rate_limit in scripts/build_graph_worker.py), and the attempts *)
(* at a chunk that go through it (extract_chunk).                          *)
(*                                                                         *)
(* Workers and runners are processes with a pool of threads.  They have    *)
(* two files in common: the stamp, which holds the time of the last call   *)
(* let through, and a lock file beside it.  A thread that has created the  *)
(* lock file reads the stamp, sleeps until its interval is over, writes    *)
(* the new time and removes the lock; the others poll.                     *)
(*                                                                         *)
(* Abstractions.  Times are kept as ages, which grow with the clock up to  *)
(* Horizon and are then as good as "long ago", sleeps as timers.  Between  *)
(* taking the time, writing the temporary file and renaming it nothing can *)
(* be seen by others, so Stamp is one step, and calls are dated by the     *)
(* time they stamp.  A poll of 0.05 s that finds the lock taken changes    *)
(* nothing.  An answer that is no extraction counts as a failed call.      *)
(***************************************************************************)
EXTENDS Integers, FiniteSets

CONSTANTS
  Processes,    \* workers and runners with the same rate limit file
  Threads,      \* their threads
  Home,         \* the process of a thread
  Interval,     \* 60 / rpm of a process, 0 without a limit
  Chunks,       \* the chunks a process has to extract
  MaxAttempts,  \* --llm-max-attempts
  BaseDelay,    \* --llm-retry-base-seconds
  MaxDelay,     \* --llm-retry-max-seconds
  Horizon,      \* the age from which a call is long ago
  MaxBuilds     \* how often each process is started

ASSUME RateLimitAssumption ==
  /\ Home \in [Threads -> Processes]
  /\ Interval \in [Processes -> Nat]
  /\ Chunks \in [Processes -> Nat]
  /\ MaxAttempts \in Nat \ {0}
  /\ BaseDelay \in Nat
  /\ MaxDelay \in Nat /\ MaxDelay >= BaseDelay
  /\ Horizon \in Nat
  /\ \A p \in Processes : Interval[p] <= Horizon
  /\ MaxBuilds \in [Processes -> Nat]

VARIABLES
  lock,     \* whether the lock file is there
  stamp,    \* the age of the time in the stamp file
  pc,       \* where each thread is
  timer,    \* how much of its sleep a thread has left
  attempt,  \* which attempt at its chunk a thread is making
  todo,     \* the chunks of a process that nobody has begun
  builds,   \* how often a process was started
  calls,    \* history: the calls let through less than Horizon ago
  leaked    \* history: a thread was killed while it held the lock

vars == <<lock, stamp, pc, timer, attempt, todo, builds, calls, leaked>>

\* A call: its age and its thread.
Call == (0 .. Horizon) \X Threads

\* No dataset.llm_rate_limit yet, which is read as time 0.
Init ==
  /\ lock = FALSE
  /\ stamp = Horizon
  /\ pc = [t \in Threads |-> "off"]
  /\ timer = [t \in Threads |-> 0]
  /\ attempt = [t \in Threads |-> 0]
  /\ todo = [p \in Processes |-> 0]
  /\ builds = [p \in Processes |-> 0]
  /\ calls = {}
  /\ leaked = FALSE

\* Between os.open and os.unlink.
Holding == {"read", "sleep", "unlock", "unwind"}

Goto(t, label) == pc' = [pc EXCEPT ![t] = label]

files == <<lock, stamp, calls, leaked>>
pool  == <<todo, builds>>
ghost == <<calls, leaked>>

-----------------------------------------------------------------------------
(* Processes and time.                                                     *)

Idle(p) == todo[p] = 0 /\ \A t \in Threads : Home[t] = p => pc[t] = "off"

\* A build starts the process, with all chunks that may be pending.
Start(p) ==
  /\ Idle(p)
  /\ builds[p] < MaxBuilds[p]
  /\ builds' = [builds EXCEPT ![p] = @ + 1]
  /\ todo' = [todo EXCEPT ![p] = Chunks[p]]
  /\ UNCHANGED <<files, pc, timer, attempt>>

\* SIGKILL: a canceled job kills its worker, the system any process.  Files
\* stay as they are.
Kill(p) ==
  /\ ~Idle(p)
  /\ todo' = [todo EXCEPT ![p] = 0]
  /\ pc' = [t \in Threads |-> IF Home[t] = p THEN "off" ELSE pc[t]]
  /\ timer' = [t \in Threads |-> IF Home[t] = p THEN 0 ELSE timer[t]]
  /\ attempt' = [t \in Threads |-> IF Home[t] = p THEN 0 ELSE attempt[t]]
  /\ leaked' = (leaked \/ \E t \in Threads : Home[t] = p /\ pc[t] \in Holding)
  /\ UNCHANGED <<lock, stamp, calls, builds>>

\* One unit older, or long ago.
Older(age) == IF age < Horizon THEN age + 1 ELSE age

\* A unit of time passes.
Tick ==
  /\ stamp' = Older(stamp)
  /\ timer' = [t \in Threads |-> IF timer[t] > 0 THEN timer[t] - 1 ELSE 0]
  /\ calls' = {<<c[1] + 1, c[2]>> : c \in {d \in calls : d[1] < Horizon}}
  /\ UNCHANGED <<lock, leaked, pc, attempt, pool>>

-----------------------------------------------------------------------------
(* acquire_rate_limit.                                                     *)

\* Without a limit acquire_rate_limit returns at once.
Skip(t) ==
  /\ pc[t] = "acquire" /\ Interval[Home[t]] = 0
  /\ Goto(t, "call")
  /\ UNCHANGED <<files, timer, attempt, pool>>

\* Mutant: the lock file is opened whether or not it exists, without O_EXCL.
Lock_NotExclusive(t) ==
  /\ pc[t] = "acquire" /\ Interval[Home[t]] > 0
  /\ lock' = TRUE
  /\ Goto(t, "read")
  /\ UNCHANGED <<stamp, ghost, timer, attempt, pool>>

\* The lock file is created: os.open with O_EXCL.
Lock(t) ==
  /\ pc[t] = "acquire" /\ Interval[Home[t]] > 0
  /\ ~lock
  /\ lock' = TRUE
  /\ Goto(t, "read")
  /\ UNCHANGED <<stamp, ghost, timer, attempt, pool>>

\* Mutant: the wait is that of one interval less.
Read_TooShort(t) ==
  /\ pc[t] = "read"
  /\ timer' = [timer EXCEPT ![t] = IF stamp + 1 < Interval[Home[t]]
                                   THEN Interval[Home[t]] - stamp - 1 ELSE 0]
  /\ Goto(t, "sleep")
  /\ UNCHANGED <<files, attempt, pool>>

\* How long the last call is ago decides how long to sleep, if at all.
Read(t) ==
  /\ pc[t] = "read"
  /\ timer' = [timer EXCEPT ![t] = IF stamp < Interval[Home[t]]
                                   THEN Interval[Home[t]] - stamp ELSE 0]
  /\ Goto(t, "sleep")
  /\ UNCHANGED <<files, attempt, pool>>

\* The sleep is over: the time goes into the stamp file.
Stamp(t) ==
  /\ pc[t] = "sleep" /\ timer[t] = 0
  /\ stamp' = 0
  /\ calls' = calls \cup {<<0, t>>}
  /\ Goto(t, "unlock")
  /\ UNCHANGED <<lock, leaked, timer, attempt, pool>>

\* The stamp cannot be read or written.
StampFails(t) ==
  /\ \/ pc[t] = "read"
     \/ pc[t] = "sleep" /\ timer[t] = 0
  /\ Goto(t, "unwind")
  /\ UNCHANGED <<files, timer, attempt, pool>>

\* The finally of acquire_rate_limit, after which the call is made ...
Unlock(t) ==
  /\ pc[t] = "unlock"
  /\ lock' = FALSE
  /\ Goto(t, "call")
  /\ UNCHANGED <<stamp, ghost, timer, attempt, pool>>

-----------------------------------------------------------------------------
(* extract_chunk.                                                          *)

\* min(max_delay, base_delay * 2 ** (attempt - 1))
Backoff(n) ==
  LET delay == BaseDelay * 2 ^ (n - 1) IN IF delay < MaxDelay THEN delay ELSE MaxDelay

\* The attempt has failed: give the chunk up, or sleep before another one.
Retry(t) ==
  IF attempt[t] >= MaxAttempts
  THEN Goto(t, "off") /\ UNCHANGED timer
  ELSE /\ Goto(t, "backoff")
       /\ timer' = [timer EXCEPT ![t] = Backoff(attempt[t])]

\* Mutant: the lock file is removed only after a success.
Unwind_KeepsLock(t) ==
  /\ pc[t] = "unwind"
  /\ Retry(t)
  /\ UNCHANGED <<files, attempt, pool>>

\* ... or the attempt has failed.
Unwind(t) ==
  /\ pc[t] = "unwind"
  /\ lock' = FALSE
  /\ Retry(t)
  /\ UNCHANGED <<stamp, ghost, attempt, pool>>

\* A thread of the pool takes up a chunk.
NextChunk(t) ==
  /\ pc[t] = "off" /\ todo[Home[t]] > 0
  /\ todo' = [todo EXCEPT ![Home[t]] = @ - 1]
  /\ attempt' = [attempt EXCEPT ![t] = 1]
  /\ Goto(t, "acquire")
  /\ UNCHANGED <<files, timer, builds>>

\* The LLM has returned an extraction.
Answer(t) ==
  /\ pc[t] = "call"
  /\ Goto(t, "off")
  /\ UNCHANGED <<files, timer, attempt, pool>>

CallFails(t) ==
  /\ pc[t] = "call"
  /\ Retry(t)
  /\ UNCHANGED <<files, attempt, pool>>

\* The next attempt, which needs the rate limit again.
TryAgain(t) ==
  /\ pc[t] = "backoff" /\ timer[t] = 0
  /\ attempt' = [attempt EXCEPT ![t] = @ + 1]
  /\ Goto(t, "acquire")
  /\ UNCHANGED <<files, timer, pool>>

-----------------------------------------------------------------------------

Step(t) ==
  \/ NextChunk(t) \/ Skip(t) \/ Lock(t) \/ Read(t) \/ Stamp(t) \/ StampFails(t)
  \/ Unlock(t) \/ Unwind(t) \/ Answer(t) \/ CallFails(t) \/ TryAgain(t)

Next ==
  \/ \E p \in Processes : Start(p) \/ Kill(p)
  \/ \E t \in Threads : Step(t)
  \/ Tick

Spec == Init /\ [][Next]_vars

\* Time passes, threads are scheduled and LLM calls return or fail.  Nothing
\* decides who of those that poll gets the lock.
FairSpec == Spec /\ WF_vars(Tick) /\ \A t \in Threads : WF_vars(Step(t))

-----------------------------------------------------------------------------
(* Properties.                                                             *)

RateTypeOK ==
  /\ lock \in BOOLEAN
  /\ stamp \in 0 .. Horizon
  /\ pc \in [Threads -> {"off", "acquire", "call", "backoff"} \cup Holding]
  /\ timer \in [Threads -> Nat]
  /\ attempt \in [Threads -> 0 .. MaxAttempts]
  /\ todo \in [Processes -> Nat]
  /\ builds \in [Processes -> Nat]
  /\ calls \subseteq Call
  /\ leaked \in BOOLEAN

\* The lock file keeps threads of all processes apart and is never taken from
\* under the thread that holds it, whatever fails and whoever is killed; and
\* nobody polls for a lock that no thread will remove, unless it was leaked.
OneHolder ==
  /\ \A t, u \in Threads : pc[t] \in Holding =>
       lock /\ (pc[u] \in Holding => u = t)
  /\ lock => leaked \/ \E t \in Threads : pc[t] \in Holding

\* A call is let through no sooner than the interval of its own process after
\* every call before it, of whatever thread, process and build, those with
\* another limit and those killed since included.
CallsSpaced ==
  \A c, d \in calls : c # d /\ c[1] <= d[1] => d[1] - c[1] >= Interval[Home[c[2]]]

\* A process that extracts chunks gets to the end of them, though polling is
\* not fair and holders of the lock sleep and fail, unless a holder was killed.
SettledUnlessLeaked == \A p \in Processes : ~Idle(p) ~> Idle(p) \/ leaked

\* "long LLM extraction runs can resume after interruption", "let a crashed
\* runner lose only its current lease, not the whole build": killing processes
\* keeps no other and no later one from getting to its end.
BuildsSettle == \A p \in Processes : ~Idle(p) ~> Idle(p)
===============================================================================
