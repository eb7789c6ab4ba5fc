------------------------------ MODULE Lifecycle ------------------------------
(***************************************************************************)
(* What the service promises about one family of tracked runs (its jobs,   *)
(* or its workflows), whatever goroutines, locks and files it uses to keep *)
(* the promise: a run is accepted once, moves forward through              *)
(* queued -> running -> {succeeded, failed, canceled}, never leaves a      *)
(* terminal state, is canceled only if somebody asked for it, and when the *)
(* process dies every unfinished run fails at that very moment.            *)
(* JobManager is shown to implement this module.                           *)
(***************************************************************************)

CONSTANT Ids                 \* the runs that may ever be submitted

VARIABLES
  state,                     \* the status a client is entitled to rely on
  requested                  \* the runs whose cancellation was acknowledged

lvars == <<state, requested>>

Unfinished == {"queued", "running"}
Terminal   == {"succeeded", "failed", "canceled"}

LifecycleTypeOK ==
  /\ state \in [Ids -> {"none"} \cup Unfinished \cup Terminal]
  /\ requested \in SUBSET Ids

LifecycleInit ==
  /\ state = [i \in Ids |-> "none"]
  /\ requested = {}

Accept(i) ==
  /\ state[i] = "none"
  /\ state' = [state EXCEPT ![i] = "queued"]
  /\ UNCHANGED requested

Begin(i) ==
  /\ state[i] = "queued"
  /\ state' = [state EXCEPT ![i] = "running"]
  /\ UNCHANGED requested

Request(i) ==
  /\ state[i] \in Unfinished
  /\ requested' = requested \cup {i}
  /\ UNCHANGED state

End(i) ==
  /\ state[i] = "running"
  /\ \E t \in Terminal :
       /\ t = "canceled" => i \in requested
       /\ state' = [state EXCEPT ![i] = t]
  /\ UNCHANGED requested

\* The process dies: nothing unfinished survives, everything finished does.
Interrupt ==
  /\ state' = [i \in Ids |-> IF state[i] \in Unfinished THEN "failed"
                                                        ELSE state[i]]
  /\ UNCHANGED requested

LifecycleNext ==
  \/ \E i \in Ids : Accept(i) \/ Begin(i) \/ Request(i) \/ End(i)
  \/ Interrupt

LifecycleSpec == LifecycleInit /\ [][LifecycleNext]_lvars
=============================================================================
