--------------------------- MODULE RateLimitProofs ---------------------------
(***************************************************************************)
(* Proofs about RateLimit, for any processes, threads, limits, numbers of  *)
(* chunks, attempts and builds.                                            *)
(*                                                                         *)
(* That calls are spaced is not inductive: it depends on what a thread     *)
(* that holds the lock has read and how long it has slept.  Inv adds that  *)
(* the stamp is as young as the youngest call let through, and that what   *)
(* is left of a holder's sleep makes up, for every call let through, what  *)
(* its age is short of the holder's interval.                              *)
(***************************************************************************)
EXTENDS RateLimit, FiniteSetTheorems, TLAPS

\* The stamp file has the time of the last call: read later, it can only be
\* too strict.
StampIsLatest == \A c \in calls : stamp <= c[1]

\* A thread that sleeps until its interval is over sleeps long enough.
SleepSuffices ==
  \A t \in Threads, c \in calls :
    pc[t] = "sleep" => c[1] + timer[t] >= Interval[Home[t]]

\* Only threads with a limit take the lock.
HolderIsLimited == \A t \in Threads : pc[t] \in Holding => Interval[Home[t]] > 0

\* Attempts are counted from one, and one is left to a thread that backs off.
AttemptsCounted ==
  \A t \in Threads :
    /\ pc[t] # "off" => attempt[t] >= 1
    /\ pc[t] = "backoff" => attempt[t] < MaxAttempts

Inv ==
  /\ RateTypeOK
  /\ OneHolder
  /\ HolderIsLimited
  /\ AttemptsCounted
  /\ StampIsLatest
  /\ SleepSuffices
  /\ CallsSpaced

-----------------------------------------------------------------------------
(* Numbers.                                                                *)

\* A power of two is a number: that of the subsets of an interval.
LEMMA PowerType ==
  ASSUME NEW n \in Nat
  PROVE  2 ^ n \in Nat
<1>1. IsFiniteSet(1 .. n) /\ Cardinality(1 .. n) = n
  BY FS_Interval
<1>2. /\ IsFiniteSet(SUBSET (1 .. n))
      /\ Cardinality(SUBSET (1 .. n)) = 2 ^ n
  BY <1>1, FS_SUBSET
<1> QED
  BY <1>2, FS_CardinalityType

\* A thread that backs off sleeps for some time.
LEMMA BackoffType ==
  ASSUME NEW n \in Nat, n >= 1
  PROVE  Backoff(n) \in Nat
<1>1. 2 ^ (n - 1) \in Nat
  BY PowerType
<1> DEFINE power == 2 ^ (n - 1)
<1>2. power \in Nat
  BY <1>1
<1> HIDE DEF power
<1>3. BaseDelay * power \in Nat
  BY <1>2, RateLimitAssumption
<1>4. Backoff(n) \in {BaseDelay * power, MaxDelay}
  BY DEF Backoff, power
<1> QED
  BY <1>3, <1>4, RateLimitAssumption

-----------------------------------------------------------------------------
(* Steps.                                                                  *)

\* Retry, which both kinds of failure end in, leaves the thread without the
\* lock, and in backoff only with an attempt left.
LEMMA RetryEffect ==
  ASSUME Inv, NEW t \in Threads, pc[t] # "off", Retry(t)
  PROVE  /\ pc' \in {[pc EXCEPT ![t] = "off"], [pc EXCEPT ![t] = "backoff"]}
         /\ timer' \in [Threads -> Nat]
         /\ \A u \in Threads \ {t} : timer'[u] = timer[u]
         /\ pc'[t] = "backoff" => attempt[t] < MaxAttempts
<1>1. attempt[t] \in 1 .. MaxAttempts /\ attempt[t] \in Nat
  BY RateLimitAssumption DEF Inv, RateTypeOK, AttemptsCounted
<1>2. Backoff(attempt[t]) \in Nat
  BY <1>1, BackoffType
<1>3. pc \in [Threads -> {"off", "acquire", "call", "backoff"} \cup Holding]
      /\ timer \in [Threads -> Nat]
  BY DEF Inv, RateTypeOK
<1> QED
  BY <1>1, <1>2, <1>3, RateLimitAssumption DEF Retry, Goto

\* A call let through now is spaced from all before it: the thread has slept
\* long enough.
LEMMA StampSpaced ==
  ASSUME Inv, NEW t \in Threads, Stamp(t)
  PROVE  CallsSpaced'
<1>1. calls' = calls \cup {<<0, t>>}
  BY DEF Stamp
<1>2. \A c \in calls : c \in Call /\ c[1] \in Nat /\ c[2] \in Threads
  BY RateLimitAssumption DEF Inv, RateTypeOK, Call
<1>3. Interval[Home[t]] \in Nat /\ Interval[Home[t]] > 0
  BY RateLimitAssumption DEF Inv, HolderIsLimited, Stamp, Holding
<1>4. \A c \in calls : c[1] >= Interval[Home[t]]
  BY <1>2, <1>3 DEF Inv, SleepSuffices, Stamp
<1> SUFFICES ASSUME NEW c \in calls', NEW d \in calls', c # d, c[1] <= d[1]
             PROVE  d[1] - c[1] >= Interval[Home[c[2]]]
  BY DEF CallsSpaced
<1>5. CASE c \in calls /\ d \in calls
  BY <1>5 DEF Inv, CallsSpaced
<1>6. CASE c = <<0, t>> /\ d \in calls
  <2>1. c[1] = 0 /\ c[2] = t
    BY <1>6
  <2> QED
    BY <1>2, <1>3, <1>4, <1>6, <2>1
<1>7. CASE c \in calls /\ d = <<0, t>>
  <2>1. d[1] = 0
    BY <1>7
  <2> QED
    BY <1>2, <1>3, <1>4, <1>7, <2>1
<1> QED
  BY <1>1, <1>5, <1>6, <1>7

\* Time passes for the calls and the sleepers alike.
LEMMA TickKeeps ==
  ASSUME Inv, Tick
  PROVE  StampIsLatest' /\ SleepSuffices' /\ CallsSpaced' /\ calls' \subseteq Call
<1>1. \A c \in calls : c = <<c[1], c[2]>> /\ c[1] \in 0 .. Horizon /\ c[2] \in Threads
  BY DEF Inv, RateTypeOK, Call
<1>2. /\ Horizon \in Nat /\ stamp \in 0 .. Horizon
      /\ stamp' = Older(stamp)
      /\ timer \in [Threads -> Nat]
      /\ Interval \in [Processes -> Nat] /\ Home \in [Threads -> Processes]
  BY RateLimitAssumption DEF Inv, RateTypeOK, Tick
<1>3. ASSUME NEW e \in calls'
      PROVE  \E d \in calls : /\ e = <<d[1] + 1, d[2]>>
                              /\ d[1] < Horizon
                              /\ e[1] = d[1] + 1 /\ e[2] = d[2]
  BY DEF Tick
<1>4. StampIsLatest'
  BY <1>1, <1>2, <1>3 DEF Inv, StampIsLatest, Older
<1>5. calls' \subseteq Call
  BY <1>1, <1>2, <1>3 DEF Call
<1>6. SleepSuffices'
  <2> SUFFICES ASSUME NEW t \in Threads, NEW e \in calls', pc'[t] = "sleep"
               PROVE  e[1] + timer'[t] >= Interval[Home[t]]
    BY DEF SleepSuffices
  <2>1. PICK d \in calls : e[1] = d[1] + 1
    BY <1>3
  <2>2. d[1] + timer[t] >= Interval[Home[t]]
    BY DEF Inv, SleepSuffices, Tick
  <2>3. timer'[t] = IF timer[t] > 0 THEN timer[t] - 1 ELSE 0
    BY DEF Tick
  <2> QED
    BY <1>1, <1>2, <2>1, <2>2, <2>3
<1>7. CallsSpaced'
  <2> SUFFICES ASSUME NEW e \in calls', NEW f \in calls', e # f, e[1] <= f[1]
               PROVE  f[1] - e[1] >= Interval[Home[e[2]]]
    BY DEF CallsSpaced
  <2>1. PICK c \in calls : e = <<c[1] + 1, c[2]>> /\ e[1] = c[1] + 1 /\ e[2] = c[2]
    BY <1>3
  <2>2. PICK d \in calls : f = <<d[1] + 1, d[2]>> /\ f[1] = d[1] + 1
    BY <1>3
  <2>3. c # d /\ c[1] <= d[1]
    BY <1>1, <2>1, <2>2
  <2>4. d[1] - c[1] >= Interval[Home[c[2]]]
    BY <2>3 DEF Inv, CallsSpaced
  <2> QED
    BY <1>1, <2>1, <2>2, <2>4
<1> QED
  BY <1>4, <1>5, <1>6, <1>7

-----------------------------------------------------------------------------
(* The invariant.                                                          *)

LEMMA InitInv == Init => Inv
<1> SUFFICES ASSUME Init PROVE Inv
  OBVIOUS
<1>1. Horizon \in 0 .. Horizon /\ 0 \in 0 .. MaxAttempts
  BY RateLimitAssumption
<1>2. RateTypeOK
  BY <1>1 DEF Init, RateTypeOK
<1>3. OneHolder /\ HolderIsLimited /\ AttemptsCounted
  BY DEF Init, OneHolder, HolderIsLimited, AttemptsCounted, Holding
<1>4. StampIsLatest /\ SleepSuffices /\ CallsSpaced
  BY DEF Init, StampIsLatest, SleepSuffices, CallsSpaced
<1> QED
  BY <1>2, <1>3, <1>4 DEF Inv

\* The parts that speak of calls only change when a call is let through, the
\* clock ticks or a thread begins to sleep.
LEMMA CallsUntouched ==
  ASSUME Inv, UNCHANGED <<stamp, calls>>,
         \A t \in Threads : pc'[t] = "sleep" => pc[t] = "sleep" /\ timer'[t] = timer[t]
  PROVE  StampIsLatest' /\ SleepSuffices' /\ CallsSpaced'
BY DEF Inv, StampIsLatest, SleepSuffices, CallsSpaced

LEMMA StartInv ==
  ASSUME Inv, NEW p \in Processes, Start(p)
  PROVE  Inv'
<1>1. RateTypeOK'
  <2>1. Chunks[p] \in Nat
    BY RateLimitAssumption
  <2> QED
    BY <2>1 DEF Inv, RateTypeOK, Start, files
<1>2. OneHolder' /\ HolderIsLimited' /\ AttemptsCounted'
  BY DEF Inv, OneHolder, HolderIsLimited, AttemptsCounted, Start, files
<1>3. StampIsLatest' /\ SleepSuffices' /\ CallsSpaced'
  BY CallsUntouched DEF Start, files
<1> QED
  BY <1>1, <1>2, <1>3 DEF Inv

\* A killed holder leaves the lock to nobody.
LEMMA KillInv ==
  ASSUME Inv, NEW p \in Processes, Kill(p)
  PROVE  Inv'
<1>1. RateTypeOK'
  BY RateLimitAssumption DEF Inv, RateTypeOK, Kill
<1>2. \A t \in Threads : pc'[t] = (IF Home[t] = p THEN "off" ELSE pc[t])
  BY DEF Kill
<1>3. OneHolder'
  <2>1. \A t, u \in Threads : pc'[t] \in Holding =>
          lock' /\ (pc'[u] \in Holding => u = t)
    BY <1>2 DEF Inv, OneHolder, Holding, Kill
  <2>2. ASSUME lock'
        PROVE  leaked' \/ \E t \in Threads : pc'[t] \in Holding
    <3>1. leaked \/ \E t \in Threads : pc[t] \in Holding
      BY <2>2 DEF Inv, OneHolder, Kill
    <3> QED
      BY <1>2, <3>1 DEF Kill
  <2> QED
    BY <2>1, <2>2 DEF OneHolder
<1>4. HolderIsLimited' /\ AttemptsCounted'
  BY <1>2 DEF Inv, HolderIsLimited, AttemptsCounted, Holding, Kill
<1>5. StampIsLatest' /\ SleepSuffices' /\ CallsSpaced'
  <2>1. \A t \in Threads : pc'[t] = "sleep" => pc[t] = "sleep" /\ timer'[t] = timer[t]
    BY <1>2 DEF Kill
  <2> QED
    BY <2>1, CallsUntouched DEF Kill
<1> QED
  BY <1>1, <1>3, <1>4, <1>5 DEF Inv

LEMMA TickInv ==
  ASSUME Inv, Tick
  PROVE  Inv'
<1>1. RateTypeOK'
  <2>1. Older(stamp) \in 0 .. Horizon
    BY RateLimitAssumption DEF Inv, RateTypeOK, Older
  <2>2. timer' \in [Threads -> Nat]
    BY DEF Inv, RateTypeOK, Tick
  <2> QED
    BY <2>1, <2>2, TickKeeps DEF Inv, RateTypeOK, Tick, pool
<1>2. OneHolder' /\ HolderIsLimited' /\ AttemptsCounted'
  BY DEF Inv, OneHolder, HolderIsLimited, AttemptsCounted, Tick
<1> QED
  BY <1>1, <1>2, TickKeeps DEF Inv

\* Steps that leave lock, stamp and calls alone and neither take nor leave
\* the lock.
LEMMA ElsewhereInv ==
  ASSUME Inv, NEW t \in Threads, NextChunk(t) \/ Skip(t) \/ Answer(t) \/ TryAgain(t)
  PROVE  Inv'
<1> USE DEF files, pool, Goto
<1>1. RateTypeOK'
  BY RateLimitAssumption DEF Inv, RateTypeOK, AttemptsCounted, NextChunk, Skip,
     Answer, TryAgain
<1>2. /\ pc[t] \notin Holding /\ pc'[t] \notin Holding
      /\ pc \in [Threads -> {"off", "acquire", "call", "backoff"} \cup Holding]
      /\ \A u \in Threads \ {t} : pc'[u] = pc[u] /\ attempt'[u] = attempt[u]
      /\ UNCHANGED <<lock, stamp, calls, leaked, timer>>
  BY DEF Inv, RateTypeOK, NextChunk, Skip, Answer, TryAgain, Holding
<1>3. OneHolder' /\ HolderIsLimited'
  BY <1>2 DEF Inv, OneHolder, HolderIsLimited
<1>4. AttemptsCounted'
  BY RateLimitAssumption DEF Inv, RateTypeOK, AttemptsCounted, NextChunk, Skip,
     Answer, TryAgain, Holding
<1>5. StampIsLatest' /\ SleepSuffices' /\ CallsSpaced'
  BY <1>2, CallsUntouched DEF Holding
<1> QED
  BY <1>1, <1>3, <1>4, <1>5 DEF Inv

\* The lock changes hands only while it is free.
LEMMA LockInv ==
  ASSUME Inv, NEW t \in Threads, Lock(t)
  PROVE  Inv'
<1> USE DEF pool, ghost, Goto
<1>1. RateTypeOK'
  BY DEF Inv, RateTypeOK, Lock, Holding
<1>2. /\ pc \in [Threads -> {"off", "acquire", "call", "backoff"} \cup Holding]
      /\ pc' = [pc EXCEPT ![t] = "read"]
  BY DEF Inv, RateTypeOK, Lock
<1>3. \A u \in Threads : pc[u] \notin Holding
  BY DEF Inv, OneHolder, Lock
<1>4. OneHolder' /\ HolderIsLimited' /\ AttemptsCounted'
  BY <1>2, <1>3 DEF Inv, OneHolder, HolderIsLimited, AttemptsCounted, Lock, Holding
<1>5. StampIsLatest' /\ SleepSuffices' /\ CallsSpaced'
  BY <1>2, CallsUntouched DEF Lock
<1> QED
  BY <1>1, <1>4, <1>5 DEF Inv

\* What a holder does before it lets go keeps it the only one.
LEMMA HolderMoves ==
  ASSUME Inv, NEW t \in Threads, pc[t] \in Holding,
         NEW label \in Holding, pc' = [pc EXCEPT ![t] = label],
         UNCHANGED <<lock, attempt, leaked>>
  PROVE  OneHolder' /\ HolderIsLimited' /\ AttemptsCounted'
BY DEF Inv, RateTypeOK, OneHolder, HolderIsLimited, AttemptsCounted, Holding

\* The sleep is what the youngest call, and so every call, lacks.
LEMMA ReadInv ==
  ASSUME Inv, NEW t \in Threads, Read(t)
  PROVE  Inv'
<1> USE DEF files, pool, Goto
<1>1. /\ Interval[Home[t]] \in Nat /\ stamp \in Nat
      /\ \A c \in calls : c[1] \in Nat
      /\ timer \in [Threads -> Nat]
  BY RateLimitAssumption DEF Inv, RateTypeOK, Call
<1>2. timer'[t] \in Nat /\ stamp + timer'[t] >= Interval[Home[t]]
  BY <1>1 DEF Read
<1>3. RateTypeOK'
  BY <1>1 DEF Inv, RateTypeOK, Read, Holding
<1>4. OneHolder' /\ HolderIsLimited' /\ AttemptsCounted'
  BY HolderMoves DEF Read, Holding
<1>5. SleepSuffices'
  <2> SUFFICES ASSUME NEW u \in Threads, NEW c \in calls, pc'[u] = "sleep"
               PROVE  c[1] + timer'[u] >= Interval[Home[u]]
    BY DEF SleepSuffices, Read
  <2>1. CASE u = t
    <3>1. stamp <= c[1]
      BY DEF Inv, StampIsLatest
    <3> QED
      BY <1>1, <1>2, <2>1, <3>1
  <2>2. CASE u # t
    BY <2>2 DEF Inv, RateTypeOK, SleepSuffices, Read
  <2> QED
    BY <2>1, <2>2
<1>6. StampIsLatest' /\ CallsSpaced'
  BY DEF Inv, StampIsLatest, CallsSpaced, Read
<1> QED
  BY <1>3, <1>4, <1>5, <1>6 DEF Inv

LEMMA StampInv ==
  ASSUME Inv, NEW t \in Threads, Stamp(t)
  PROVE  Inv'
<1> USE DEF pool, Goto
<1>1. RateTypeOK'
  BY RateLimitAssumption DEF Inv, RateTypeOK, Stamp, Holding, Call
<1>2. OneHolder' /\ HolderIsLimited' /\ AttemptsCounted'
  BY HolderMoves DEF Stamp, Holding
<1>3. \A u \in Threads : pc'[u] # "sleep"
  BY DEF Inv, RateTypeOK, OneHolder, Stamp, Holding
<1>4. SleepSuffices'
  BY <1>3 DEF SleepSuffices
<1>5. \A c \in calls' : c[1] \in Nat
  BY <1>1, RateLimitAssumption DEF RateTypeOK, Call
<1>6. StampIsLatest'
  BY <1>5 DEF StampIsLatest, Stamp
<1> QED
  BY <1>1, <1>2, <1>4, <1>6, StampSpaced DEF Inv

LEMMA StampFailsInv ==
  ASSUME Inv, NEW t \in Threads, StampFails(t)
  PROVE  Inv'
<1> USE DEF files, pool, Goto
<1>1. RateTypeOK'
  BY DEF Inv, RateTypeOK, StampFails, Holding
<1>2. OneHolder' /\ HolderIsLimited' /\ AttemptsCounted'
  BY HolderMoves DEF StampFails, Holding
<1>3. StampIsLatest' /\ SleepSuffices' /\ CallsSpaced'
  BY CallsUntouched DEF Inv, RateTypeOK, StampFails
<1> QED
  BY <1>1, <1>2, <1>3 DEF Inv

\* The holder that removes the lock file is the one that made it.
LEMMA ReleaseInv ==
  ASSUME Inv, NEW t \in Threads, Unlock(t) \/ Unwind(t)
  PROVE  Inv'
<1> USE DEF pool, ghost, Goto
<1>1. pc[t] \in Holding /\ pc[t] # "off" /\ lock' = FALSE
  BY DEF Unlock, Unwind, Holding
<1>2. /\ \E label \in {"call", "off", "backoff"} : pc' = [pc EXCEPT ![t] = label]
      /\ timer' \in [Threads -> Nat]
      /\ \A u \in Threads \ {t} : timer'[u] = timer[u]
      /\ pc'[t] = "backoff" => attempt[t] < MaxAttempts
      /\ UNCHANGED <<stamp, calls, leaked, attempt, todo, builds>>
  BY <1>1, RetryEffect DEF Inv, RateTypeOK, Unlock, Unwind
<1>3. RateTypeOK'
  BY <1>1, <1>2 DEF Inv, RateTypeOK
<1>4. \A u \in Threads : pc'[u] \notin Holding
  BY <1>1, <1>2 DEF Inv, RateTypeOK, OneHolder, Holding
<1>5. OneHolder' /\ HolderIsLimited'
  BY <1>1, <1>4 DEF OneHolder, HolderIsLimited
<1>6. AttemptsCounted'
  BY <1>1, <1>2 DEF Inv, RateTypeOK, AttemptsCounted
<1>7. StampIsLatest' /\ SleepSuffices' /\ CallsSpaced'
  BY <1>2, <1>4, CallsUntouched DEF Holding
<1> QED
  BY <1>3, <1>5, <1>6, <1>7 DEF Inv

LEMMA CallFailsInv ==
  ASSUME Inv, NEW t \in Threads, CallFails(t)
  PROVE  Inv'
<1> USE DEF files, pool, Goto
<1>1. pc[t] = "call" /\ Retry(t) /\ UNCHANGED <<lock, stamp, calls, leaked, attempt, todo, builds>>
  BY DEF CallFails
<1>2. /\ \E label \in {"off", "backoff"} : pc' = [pc EXCEPT ![t] = label]
      /\ timer' \in [Threads -> Nat]
      /\ \A u \in Threads \ {t} : timer'[u] = timer[u]
      /\ pc'[t] = "backoff" => attempt[t] < MaxAttempts
  BY <1>1, RetryEffect
<1>3. RateTypeOK'
  BY <1>1, <1>2 DEF Inv, RateTypeOK
<1>4. \A u \in Threads : /\ pc'[u] \in Holding <=> pc[u] \in Holding
                         /\ pc'[u] \in Holding => u # t /\ pc'[u] = pc[u]
  BY <1>1, <1>2 DEF Inv, RateTypeOK, Holding
<1>5. OneHolder' /\ HolderIsLimited'
  BY <1>1, <1>4 DEF Inv, OneHolder, HolderIsLimited
<1>6. AttemptsCounted'
  BY <1>1, <1>2 DEF Inv, RateTypeOK, AttemptsCounted
<1>7. StampIsLatest' /\ SleepSuffices' /\ CallsSpaced'
  BY <1>1, <1>2, <1>4, CallsUntouched DEF Holding
<1> QED
  BY <1>3, <1>5, <1>6, <1>7 DEF Inv

\* Every step keeps the invariant.
LEMMA NextInv == Inv /\ [Next]_vars => Inv'
<1> SUFFICES ASSUME Inv, [Next]_vars PROVE Inv'
  OBVIOUS
<1>1. ASSUME NEW p \in Processes, Start(p) \/ Kill(p) PROVE Inv'
  BY <1>1, StartInv, KillInv
<1>2. ASSUME NEW t \in Threads, Step(t) PROVE Inv'
  BY <1>2, ElsewhereInv, LockInv, ReadInv, StampInv, StampFailsInv, ReleaseInv,
     CallFailsInv DEF Step
<1>3. CASE Tick
  BY <1>3, TickInv
<1>4. CASE UNCHANGED vars
  BY <1>4 DEF vars, Inv, RateTypeOK, OneHolder, HolderIsLimited, AttemptsCounted,
     StampIsLatest, SleepSuffices, CallsSpaced
<1> QED
  BY <1>1, <1>2, <1>3, <1>4 DEF Next

\* Everything Inv says holds in every state of every run.
THEOREM InvHolds == Spec => []Inv
BY InitInv, NextInv, PTL DEF Spec

-----------------------------------------------------------------------------

\* The variables keep their types, whatever processes share the limit.
THEOREM RateTypeCorrect == Spec => []RateTypeOK
<1>1. Inv => RateTypeOK
  BY DEF Inv
<1> QED
  BY <1>1, InvHolds, PTL

\* acquire_rate_limit keeps its callers apart, for any number of processes and
\* threads and over kills, and its lock file is left without an owner only by
\* a kill of the owner.
THEOREM HoldersExclude == Spec => []OneHolder
<1>1. Inv => OneHolder
  BY DEF Inv
<1> QED
  BY <1>1, InvHolds, PTL

\* acquire_rate_limit lets no call through before the caller's interval is over,
\* for any mixture of limits.
THEOREM LimitIsKept == Spec => []CallsSpaced
<1>1. Inv => CallsSpaced
  BY DEF Inv
<1> QED
  BY <1>1, InvHolds, PTL

-----------------------------------------------------------------------------
(* What is left to do.  That a build gets to its end needs fairness; that  *)
(* no thread can go on for ever without taking up another chunk does not.  *)

\* How far a place is from the end of an attempt.
Stage ==
  [acquire |-> 6, read |-> 5, sleep |-> 4, unlock |-> 3, unwind |-> 3,
   call |-> 2, backoff |-> 1]

\* A bound on the steps a thread may still make about its chunk, in this attempt
\* and those it has left.
Left(t) == IF pc[t] = "off" THEN 0 ELSE 7 * (MaxAttempts - attempt[t]) + Stage[pc[t]]

\* A thread has stayed where it is, or has less to do about its chunk, or has
\* taken up another one of those nobody had begun.
Progress(t) ==
  \/ pc'[t] = pc[t] /\ Left(t)' = Left(t)
  \/ Left(t)' \in Nat /\ Left(t)' < Left(t)
  \/ /\ pc[t] = "off" /\ Left(t)' < 7 * MaxAttempts
     /\ todo' = [todo EXCEPT ![Home[t]] = @ - 1]

\* Every step is one to the end of the build: extract_chunk gives up after
\* MaxAttempts attempts, none of which goes back, and there are more chunks to
\* extract only when a process is started that had come to its end.
AttemptsRunOut ==
  [][/\ \A t \in Threads : Progress(t)
     /\ \A p \in Processes : todo'[p] > todo[p] => Idle(p)]_vars

\* A thread with a chunk has some steps left, and no more than the attempts allow.
LEMMA LeftBounded ==
  ASSUME Inv, NEW t \in Threads, pc[t] # "off"
  PROVE  /\ Left(t) = 7 * (MaxAttempts - attempt[t]) + Stage[pc[t]]
         /\ attempt[t] \in 1 .. MaxAttempts /\ MaxAttempts \in Nat
         /\ Stage[pc[t]] \in 1 .. 6
<1>1. pc[t] \in {"acquire", "call", "backoff", "read", "sleep", "unlock", "unwind"}
  BY DEF Inv, RateTypeOK, Holding
<1>2. attempt[t] \in 1 .. MaxAttempts /\ MaxAttempts \in Nat
  BY RateLimitAssumption DEF Inv, RateTypeOK, AttemptsCounted
<1> QED
  BY <1>1, <1>2 DEF Left, Stage

\* A step of a thread that keeps its attempt.
LEMMA SameAttempt ==
  ASSUME Inv, NEW t \in Threads, pc[t] # "off", attempt' = attempt,
         NEW label \in DOMAIN Stage \cup {"off"}, Goto(t, label),
         label # "off" => Stage[label] < Stage[pc[t]]
  PROVE  \A u \in Threads : Progress(u)
<1>1. pc \in [Threads -> {"off", "acquire", "call", "backoff"} \cup Holding]
  BY DEF Inv, RateTypeOK
<1>2. pc' = [pc EXCEPT ![t] = label]
  BY DEF Goto
<1>3. ASSUME NEW u \in Threads \ {t} PROVE Progress(u)
  <2>1. pc'[u] = pc[u] /\ Left(u)' = Left(u)
    BY <1>1, <1>2, <1>3 DEF Left
  <2> QED
    BY <2>1 DEF Progress
<1>4. Progress(t)
  <2>1. pc'[t] = label
    BY <1>1, <1>2
  <2>2. CASE label = "off"
    <3>1. Left(t)' = 0
      BY <2>1, <2>2 DEF Left
    <3> QED
      BY <3>1, LeftBounded DEF Progress
  <2>3. CASE label # "off"
    <3>1. Left(t)' = 7 * (MaxAttempts - attempt[t]) + Stage[label]
      BY <2>1, <2>3 DEF Left
    <3>2. Stage[label] \in Nat
      BY <2>3 DEF Stage
    <3> QED
      BY <2>3, <3>1, <3>2, LeftBounded DEF Progress
  <2> QED
    BY <2>2, <2>3
<1> QED
  BY <1>3, <1>4

\* A thread that takes up its first or another attempt.
LEMMA NextAttempt ==
  ASSUME Inv, NEW t \in Threads, NextChunk(t) \/ TryAgain(t)
  PROVE  \A u \in Threads : Progress(u)
<1>1. /\ pc \in [Threads -> {"off", "acquire", "call", "backoff"} \cup Holding]
      /\ attempt \in [Threads -> 0 .. MaxAttempts]
  BY DEF Inv, RateTypeOK
<1>2. pc' = [pc EXCEPT ![t] = "acquire"]
  BY DEF NextChunk, TryAgain, Goto
<1>3. ASSUME NEW u \in Threads \ {t} PROVE Progress(u)
  <2>1. pc'[u] = pc[u] /\ attempt'[u] = attempt[u]
    BY <1>1, <1>2, <1>3 DEF NextChunk, TryAgain
  <2> QED
    BY <2>1 DEF Progress, Left
<1>4. Left(t)' = 7 * (MaxAttempts - attempt'[t]) + 6
  BY <1>1, <1>2 DEF Left, Stage
<1>5. CASE NextChunk(t)
  <2>1. attempt'[t] = 1 /\ pc[t] = "off" /\ todo' = [todo EXCEPT ![Home[t]] = @ - 1]
    BY <1>1, <1>5 DEF NextChunk
  <2>2. MaxAttempts \in Nat
    BY RateLimitAssumption
  <2>3. Left(t)' < 7 * MaxAttempts
    BY <1>4, <2>1, <2>2
  <2>4. Progress(t)
    BY <2>1, <2>3 DEF Progress
  <2> QED
    BY <1>3, <2>4
<1>6. CASE TryAgain(t)
  <2>1. attempt'[t] = attempt[t] + 1 /\ pc[t] = "backoff"
    BY <1>1, <1>6 DEF TryAgain
  <2>2. attempt[t] \in Nat /\ attempt[t] < MaxAttempts /\ MaxAttempts \in Nat
    BY <1>1, <2>1, RateLimitAssumption DEF Inv, AttemptsCounted
  <2>3. Left(t) = 7 * (MaxAttempts - attempt[t]) + 1
    BY <2>1 DEF Left, Stage
  <2> QED
    BY <1>3, <1>4, <2>1, <2>2, <2>3 DEF Progress
<1> QED
  BY <1>5, <1>6

\* This is so for any numbers of threads, attempts and chunks, and over kills.
THEOREM AttemptsRunOutHolds == Spec => AttemptsRunOut
<1>1. ASSUME Inv, [Next]_vars, vars' # vars
      PROVE  /\ \A t \in Threads : Progress(t)
             /\ \A p \in Processes : todo'[p] > todo[p] => Idle(p)
  <2>1. /\ pc \in [Threads -> {"off", "acquire", "call", "backoff"} \cup Holding]
        /\ todo \in [Processes -> Nat] /\ Home \in [Threads -> Processes]
    BY <1>1, RateLimitAssumption DEF Inv, RateTypeOK
  <2>2. ASSUME NEW q \in Processes, Start(q)
        PROVE  /\ \A t \in Threads : Progress(t)
               /\ \A p \in Processes : todo'[p] > todo[p] => Idle(p)
    BY <2>1, <2>2 DEF Start, Progress, Left
  <2>3. ASSUME NEW q \in Processes, Kill(q)
        PROVE  /\ \A t \in Threads : Progress(t)
               /\ \A p \in Processes : todo'[p] > todo[p] => Idle(p)
    <3>1. ASSUME NEW t \in Threads PROVE Progress(t)
      <4>1. CASE Home[t] = q /\ pc[t] # "off"
        <5>1. Left(t)' = 0
          BY <2>3, <4>1 DEF Kill, Left
        <5> QED
          BY <1>1, <4>1, <5>1, LeftBounded DEF Progress
      <4>2. CASE Home[t] = q /\ pc[t] = "off"
        BY <2>3, <4>2 DEF Kill, Left, Progress
      <4>3. CASE Home[t] # q
        BY <2>1, <2>3, <4>3 DEF Kill, Left, Progress
      <4> QED
        BY <4>1, <4>2, <4>3
    <3>2. \A p \in Processes : ~(todo'[p] > todo[p])
      BY <2>1, <2>3 DEF Kill
    <3> QED
      BY <3>1, <3>2
  <2>4. ASSUME NEW t \in Threads, Step(t)
        PROVE  /\ \A u \in Threads : Progress(u)
               /\ \A p \in Processes : todo'[p] > todo[p] => Idle(p)
    <3>1. todo' \in {todo, [todo EXCEPT ![Home[t]] = @ - 1]}
      BY <2>4 DEF Step, NextChunk, Skip, Lock, Read, Stamp, StampFails, Unlock,
                  Unwind, Answer, CallFails, TryAgain, files, pool
    <3>2. \A p \in Processes : ~(todo'[p] > todo[p])
      BY <2>1, <3>1
    <3>3. CASE NextChunk(t) \/ TryAgain(t)
      BY <1>1, <3>2, <3>3, NextAttempt
    <3>4. CASE \/ Skip(t) \/ Lock(t) \/ Read(t) \/ Stamp(t) \/ StampFails(t)
               \/ Unlock(t) \/ Unwind(t) \/ Answer(t) \/ CallFails(t)
      <4>1. attempt' = attempt /\ pc[t] # "off"
        BY <3>4 DEF Skip, Lock, Read, Stamp, StampFails, Unlock, Unwind, Answer, CallFails
      <4>2. PICK label \in DOMAIN Stage \cup {"off"} :
              Goto(t, label) /\ (label # "off" => Stage[label] < Stage[pc[t]])
        BY <3>4 DEF Skip, Lock, Read, Stamp, StampFails, Unlock, Unwind, Answer,
                    CallFails, Retry, Stage
      <4> QED
        BY <1>1, <3>2, <4>1, <4>2, SameAttempt
    <3> QED
      BY <2>4, <3>2, <3>3, <3>4 DEF Step
  <2>5. CASE Tick
    BY <2>1, <2>5 DEF Tick, pool, Progress, Left
  <2> QED
    BY <1>1, <2>2, <2>3, <2>4, <2>5 DEF Next
<1>2. Inv /\ [Next]_vars =>
        [/\ \A t \in Threads : Progress(t)
         /\ \A p \in Processes : todo'[p] > todo[p] => Idle(p)]_vars
  BY <1>1
<1> QED
  BY <1>2, InvHolds, PTL DEF Spec, AttemptsRunOut
===============================================================================
