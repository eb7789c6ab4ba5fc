---------------------------- MODULE GraphWalProofs ----------------------------
(***************************************************************************)
(* Proofs about GraphWal, for any number of chunks, runners and jobs and   *)
(* any options and schemas.                                                *)
(*                                                                         *)
(* The processes of a build decide by what they found in the log when they *)
(* loaded it, and go on by themselves.  What makes that right is that the  *)
(* log of a process's own share changes by its own doing only.  So Inv     *)
(* says who may be alive together (OneBuild, Belongs), that shares are     *)
(* apart and their chunks not yet on record (Apart), that what a process   *)
(* has loaded is still true of its share (Knows), that what is not on      *)
(* record is still to be done (Complete), and that the log, the worker's   *)
(* memory and the outputs go together (LogIsSound, Sound, Agrees, Built,   *)
(* OutputsInOrder).                                                        *)
(***************************************************************************)
EXTENDS GraphWal, FiniteSetTheorems, TLAPS

Before == {"load", "hash", "validate", "announce"}
Writing == {"compact", "open_chunks", "write_chunks", "open_graph", "write_graph"}
RunnerPcs == {"off", "extract", "drain"} \cup Before \cup Ended
Pcs == {"off", "decide", "spawn", "await", "extract", "drain"}
         \cup Before \cup Writing \cup Ended

Log == [last : [Items -> {"none", "started", "succeeded", "failed"}],
        won : SUBSET Extraction, rows : SUBSET Read, torn : BOOLEAN]

File == [state : {"none", "torn", "whole"}, of : SUBSET Extraction,
         writer : {<<>>} \cup Procs]

Process == [pc : Pcs, deaf : BOOLEAN, schema : Read, manifest : Read,
            loaded : SUBSET Extraction, built : SUBSET Extraction,
            todo : SUBSET Items, busy : SUBSET Items, failed : BOOLEAN]

GraphTypeOK ==
  /\ wal \in Log
  /\ cwal \in {"none", "succeeded", "failed"}
  /\ chunks \in File
  /\ graph \in File
  /\ opt \in [Jobs -> Option]
  /\ told \in [Jobs -> {"none", "succeeded", "failed", "canceled"}]
  /\ proc \in [Procs -> Process]

\* The processes that are alive are of one build, and a job without a report
\* has the files for itself.
OneBuild ==
  /\ \A p, q \in Procs : Alive(p) /\ Alive(q) => p[1] = q[1]
  /\ \A j \in Jobs, p \in Procs :
       Started(j) /\ told[j] = "none" /\ Alive(p) => p[1] = j
  /\ \A i, j \in Jobs :
       Started(i) /\ told[i] = "none" /\ Started(j) /\ told[j] = "none" => i = j

\* The worker of a process.
Of(p) == proc[Main(p[1])]

\* Runners exist only after their worker has spawned them, and outlive only a
\* worker that has ended.
Belongs(p) ==
  /\ ~IsMain(p) => proc[p].pc \in RunnerPcs
  /\ ~IsMain(p) /\ proc[p].pc # "off" =>
       Spawns(Main(p[1])) /\ Of(p).pc \notin {"off", "decide", "spawn"} \cup Before
  /\ ~IsMain(p) /\ Alive(p) => Of(p).pc \in {"await"} \cup Ended
  /\ proc[p].pc = "decide" => Compacts(p)
  /\ proc[p].pc \in {"spawn", "await"} => Spawns(p)

\* A success is under a manifest the log has.
LogIsSound ==
  /\ \A x \in wal.won : x[3] \in wal.rows
  /\ DoneIn(wal) \subseteq Keys(wal.won)

\* The log of a worker that has read it gets torn only when that worker dies.
Sound(p) == IsMain(p) /\ Alive(p) /\ proc[p].pc # "load" => ~wal.torn

Own(p) == IF IsMain(p) THEN Items ELSE {k \in Items : k % Runners = p[2] - 1}

\* What a process has still to do is in its share, not on record, and not
\* with the LLM already.
Apart(p) ==
  /\ proc[p].todo \cup proc[p].busy \subseteq Own(p) \ DoneIn(wal)
  /\ proc[p].todo \cap proc[p].busy = {}
  /\ proc[p].busy # {} => proc[p].pc = "extract"
  /\ proc[p].todo # {} => proc[p].pc \in {"decide", "extract", "drain"} /\ ~Spawns(p)

\* What a process has loaded is still what the log says of its share.
Knows(p) ==
  proc[p].pc \in {"hash", "validate", "announce"} =>
    /\ Own(p) \cap Keys(proc[p].loaded) = Own(p) \cap DoneIn(wal)
    /\ IsMain(p) => proc[p].loaded = Loaded(wal)

\* What is not on record a process has still to do, unless it has failed; a
\* worker that writes and a runner that exited 0 have nothing left to do.
Complete(p) ==
  /\ proc[p].pc \in {"decide", "extract"} /\ ~proc[p].failed /\ ~wal.torn =>
       Own(p) \ DoneIn(wal) \subseteq proc[p].todo \cup proc[p].busy
  /\ proc[p].pc \in Writing => DoneIn(wal) = Items
  /\ ~IsMain(p) /\ proc[p].pc = "ok" /\ Alive(Main(p[1])) => Own(p) \subseteq DoneIn(wal)

\* While the worker lives it, its log and its runners are of one manifest; a
\* log begun afresh has none before the worker has its own.
Agrees(p) ==
  /\ IsMain(p) /\ proc[p].pc = "hash" /\ ~Resumes(p) => wal.rows = {}
  /\ IsMain(p) /\ Alive(p) /\ proc[p].pc \notin {"load", "hash", "validate"} =>
       /\ wal.rows \subseteq {proc[p].manifest}
       /\ proc[p].pc # "announce" => proc[p].manifest \in wal.rows
  /\ /\ ~IsMain(p) /\ Alive(Main(p[1]))
     /\ proc[p].pc \in {"announce", "extract", "drain", "ok"}
     => proc[p].manifest = Of(p).manifest

\* What the worker will write is what the log says.
Built(p) ==
  IsMain(p) /\ proc[p].pc \in {"decide", "extract"} \cup Writing =>
    proc[p].built = Loaded(wal)

Whole(p) == [state |-> "whole", of |-> proc[p].built, writer |-> <<>>]

\* A worker that writes finds the files as it has left them, ...
FindsFiles(p) ==
  /\ proc[p].pc = "write_chunks" => chunks = Truncated(p)
  /\ proc[p].pc \in {"open_graph", "write_graph"} => chunks = Whole(p)
  /\ proc[p].pc = "write_graph" => graph = Truncated(p)

\* ... and so does the report of its job.
Reportable(j) ==
  told[j] = "none" /\ proc[Main(j)].pc = "ok" /\ ~MaySkip(j) => Current(j)

OutputsInOrder ==
  /\ \A p \in Procs : FindsFiles(p)
  /\ \A j \in Jobs : Reportable(j)

InOrder(p) ==
  /\ Belongs(p)
  /\ Sound(p)
  /\ Apart(p)
  /\ Knows(p)
  /\ Complete(p)
  /\ Agrees(p)
  /\ Built(p)

Inv ==
  /\ GraphTypeOK
  /\ OneBuild
  /\ LogIsSound
  /\ \A p \in Procs : InOrder(p)
  /\ OutputsInOrder

-----------------------------------------------------------------------------
(* Processes and shares.                                                   *)

LEMMA ProcsShape ==
  ASSUME NEW p \in Procs
  PROVE  /\ p[1] \in Jobs /\ p[2] \in 0 .. Runners /\ p = <<p[1], p[2]>>
         /\ Main(p[1]) \in Procs
         /\ IsMain(p) => p = Main(p[1])
         /\ ~IsMain(p) => p \in Children(p[1]) /\ p # Main(p[1])
BY GraphWalAssumption DEF Procs, Main, Children, IsMain

LEMMA MainShape ==
  ASSUME NEW j \in Jobs
  PROVE  Main(j) \in Procs /\ Main(j)[1] = j /\ IsMain(Main(j))
BY DEF Procs, Main, IsMain

LEMMA ChildrenShape ==
  ASSUME NEW j \in Jobs, NEW q \in Children(j)
  PROVE  q \in Procs /\ q[1] = j /\ ~IsMain(q) /\ q[2] \in 1 .. Runners
BY GraphWalAssumption DEF Procs, Main, Children, IsMain

\* Every chunk is in the share of some runner.
LEMMA SharesCover ==
  ASSUME NEW j \in Jobs, Children(j) # {}, NEW k \in Items
  PROVE  \E q \in Children(j) : k \in Own(q)
<1>1. k \in Nat /\ Runners \in Nat \ {0}
  BY GraphWalAssumption DEF Items
<1>2. k % Runners \in 0 .. Runners - 1
  BY <1>1
<1> DEFINE q == <<j, (k % Runners) + 1>>
<1>3. q \in Children(j) /\ q[2] = (k % Runners) + 1
  BY <1>1, <1>2 DEF Children
<1>4. ~IsMain(q)
  BY <1>3, ChildrenShape
<1>5. k \in Own(q)
  BY <1>1, <1>2, <1>3, <1>4 DEF Own
<1> QED
  BY <1>3, <1>5

\* The shares of two runners of a build have no chunk in common.
LEMMA SharesDisjoint ==
  ASSUME NEW p \in Procs, NEW q \in Procs, ~IsMain(p), ~IsMain(q), p[1] = q[1], p # q
  PROVE  Own(p) \cap Own(q) = {}
<1>1. p[2] # q[2] /\ p[2] \in Nat /\ q[2] \in Nat
  BY ProcsShape, GraphWalAssumption
<1>2. ASSUME NEW k \in Own(p), k \in Own(q)
      PROVE  FALSE
  BY <1>1, <1>2 DEF Own
<1> QED
  BY <1>2

\* The names of a process's share.
LEMMA OwnShape ==
  ASSUME NEW p \in Procs
  PROVE  /\ Own(p) \subseteq Items
         /\ IsMain(p) => Own(p) = Items
         /\ \A pending \in SUBSET Items : ~IsMain(p) => Share(p, pending) = pending \cap Own(p)
BY DEF Own, Share

-----------------------------------------------------------------------------
(* The log.                                                                *)

\* A manifest says nothing of chunks.
LEMMA AppendRun ==
  ASSUME NEW log \in Log, NEW x \in Extraction
  PROVE  /\ Append(log, "run", x) \in Log
         /\ DoneIn(Append(log, "run", x)) = DoneIn(log)
         /\ Loaded(Append(log, "run", x)) = Loaded(log)
         /\ Append(log, "run", x).won = log.won
         /\ Append(log, "run", x).torn = log.torn
         /\ Append(log, "run", x).rows =
              IF log.torn THEN log.rows ELSE log.rows \cup {x[3]}
BY DEF Append, Log, DoneIn, Loaded, Extraction

\* Beginning or failing a chunk that is not on record leaves the record alone.
LEMMA AppendOther ==
  ASSUME NEW log \in Log, NEW event \in {"started", "failed"},
         NEW x \in Extraction, x[1] \notin DoneIn(log)
  PROVE  /\ Append(log, event, x) \in Log
         /\ DoneIn(Append(log, event, x)) = DoneIn(log)
         /\ Loaded(Append(log, event, x)) = Loaded(log)
         /\ Append(log, event, x).won = log.won
         /\ Append(log, event, x).torn = log.torn
         /\ Append(log, event, x).rows = log.rows
<1> DEFINE new == Append(log, event, x)
<1>1. new = IF log.torn THEN log ELSE [log EXCEPT !.last[x[1]] = event]
  BY DEF Append, Log
<1>2. x[1] \in Items
  BY DEF Extraction
<1>3. new \in Log /\ new.won = log.won /\ new.torn = log.torn /\ new.rows = log.rows
  BY <1>1, <1>2 DEF Log
<1>4. \A m \in Items : new.last[m] = "succeeded" <=> log.last[m] = "succeeded"
  BY <1>1, <1>2 DEF Log, DoneIn
<1> QED
  BY <1>3, <1>4 DEF DoneIn, Loaded

\* A success of a chunk that is not on record puts it there.
LEMMA AppendSucceeded ==
  ASSUME NEW log \in Log, NEW x \in Extraction, x[1] \notin DoneIn(log), ~log.torn
  PROVE  /\ Append(log, "succeeded", x) \in Log
         /\ DoneIn(Append(log, "succeeded", x)) = DoneIn(log) \cup {x[1]}
         /\ Loaded(Append(log, "succeeded", x)) = Loaded(log) \cup {x}
         /\ ~Append(log, "succeeded", x).torn
         /\ Append(log, "succeeded", x).rows = log.rows \cup {x[3]}
         /\ Append(log, "succeeded", x).won =
              {y \in log.won : y[1] # x[1]} \cup {x}
<1> DEFINE new == Append(log, "succeeded", x)
<1> DEFINE last == [log.last EXCEPT ![x[1]] = "succeeded"]
           won  == {y \in log.won : y[1] # x[1]} \cup {x}
<1>1. new = [last |-> last, won |-> won, rows |-> log.rows \cup {x[3]}, torn |-> log.torn]
  BY DEF Append, Log
<1>2. x[1] \in Items /\ x[3] \in Read
  BY DEF Extraction
<1>3. won \in SUBSET Extraction /\ log.rows \cup {x[3]} \in SUBSET Read
  BY <1>2 DEF Log
<1>4. /\ last \in [Items -> {"none", "started", "succeeded", "failed"}]
      /\ \A m \in Items : last[m] = IF m = x[1] THEN "succeeded" ELSE log.last[m]
  BY <1>2 DEF Log
<1> HIDE DEF last, won
<1>5. /\ new \in Log /\ new.last = last /\ new.won = won
      /\ new.rows = log.rows \cup {x[3]} /\ new.torn = FALSE
  BY <1>1, <1>3, <1>4 DEF Log
<1>6. DoneIn(new) = DoneIn(log) \cup {x[1]}
  BY <1>2, <1>4, <1>5 DEF DoneIn
<1>7. Loaded(new) = Loaded(log) \cup {x}
  BY <1>2, <1>5, <1>6 DEF Loaded, won
<1> QED
  BY <1>5, <1>6, <1>7 DEF won

\* What a process puts on record.
LEMMA ByShape ==
  ASSUME NEW p \in Procs, proc[p] \in Process, NEW k \in Items
  PROVE  By(p, k) \in Extraction /\ By(p, k)[1] = k /\ By(p, k)[3] = proc[p].manifest
BY DEF By, Extraction, Process

LEMMA FirstItem == 0 \in Items
BY GraphWalAssumption DEF Items

\* What can be loaded has a success on record, and what has one can be loaded.
LEMMA LoadedShape ==
  ASSUME NEW log \in Log, DoneIn(log) \subseteq Keys(log.won)
  PROVE  Loaded(log) \in SUBSET Extraction /\ Keys(Loaded(log)) = DoneIn(log)
<1>1. Loaded(log) \subseteq Extraction
  BY DEF Loaded, Log
<1>2. Keys(Loaded(log)) \subseteq DoneIn(log)
  BY DEF Loaded, Keys
<1>3. ASSUME NEW k \in DoneIn(log)
      PROVE  k \in Keys(Loaded(log))
  BY <1>3 DEF Loaded, Keys
<1> QED
  BY <1>1, <1>2, <1>3

LEMMA NoLogShape ==
  NoLog \in Log /\ DoneIn(NoLog) = {} /\ Loaded(NoLog) = {}
BY DEF NoLog, Log, DoneIn, Loaded

-----------------------------------------------------------------------------
(* One process moves.                                                      *)

OnlyMoves(p) ==
  /\ Alive(p)
  /\ proc' \in [Procs -> Process]
  /\ proc'[p].pc # "off"
  /\ \A q \in Procs \ {p} : proc'[q] = proc[q]
  /\ UNCHANGED <<opt, told>>

\* Of the log, at most the manifests change.
SameRecord ==
  /\ wal' \in Log
  /\ DoneIn(wal') = DoneIn(wal)
  /\ Loaded(wal') = Loaded(wal)
  /\ wal'.won = wal.won
  /\ wal'.torn = wal.torn
  /\ wal.rows \subseteq wal'.rows

\* Dying, and starting in the build that is alive, keeps builds apart.
LEMMA OneBuildKept ==
  ASSUME Inv, NEW p \in Procs, Alive(p),
         \A q \in Procs : Alive(q)' => Alive(q) \/ q[1] = p[1],
         \A j \in Jobs : Started(j)' /\ told'[j] = "none" => Started(j) /\ told[j] = "none"
  PROVE  OneBuild'
BY DEF Inv, OneBuild

\* What the worker and its runners may do with respect to each other.
WithRunners(p) ==
  IsMain(p) =>
    /\ \A q \in Procs : ~IsMain(q) /\ q[1] = p[1] /\ Alive(q) =>
         proc'[p].pc \in {"await"} \cup Ended
    /\ proc'[p].pc \in {"decide", "spawn"} \cup Before =>
         proc[p].pc \in {"decide", "spawn"} \cup Before
    /\ proc[p].pc # "hash" => proc'[p].manifest = proc[p].manifest

\* Manifests in the log are those of the processes that write them.
OwnManifest(p) ==
  wal'.rows # wal.rows =>
    /\ wal'.rows = wal.rows \cup {proc[p].manifest}
    /\ proc[p].pc \in {"announce", "extract", "drain"} \cup Writing

\* The places of the others remain where they may be, ...
LEMMA OthersBelong ==
  ASSUME Inv, NEW p \in Procs, OnlyMoves(p), WithRunners(p), NEW q \in Procs, q # p
  PROVE  Belongs(q)'
<1>0. /\ proc'[q] = proc[q] /\ opt' = opt
      /\ \A x \in Procs : Alive(x)' => Alive(x)
      /\ InOrder(q) /\ InOrder(p)
  BY DEF OnlyMoves, Inv, Alive
<1>1. CASE IsMain(q)
  BY <1>0, <1>1 DEF InOrder, Belongs, Compacts, Spawns
<1>2. CASE ~IsMain(q) /\ q[1] # p[1]
  <2>1. Main(q[1]) # p /\ Main(q[1]) \in Procs
    BY <1>2, ProcsShape, MainShape
  <2>2. Of(q)' = Of(q)
    BY <2>1 DEF Of, OnlyMoves
  <2> QED
    BY <1>0, <1>2, <2>2 DEF InOrder, Belongs, Compacts, Spawns, Alive
<1>3. CASE ~IsMain(q) /\ q[1] = p[1] /\ ~IsMain(p)
  <2>1. Main(q[1]) # p /\ Main(q[1]) \in Procs
    BY <1>3, ProcsShape, MainShape
  <2>2. Of(q)' = Of(q)
    BY <2>1 DEF Of, OnlyMoves
  <2> QED
    BY <1>0, <1>3, <2>2 DEF InOrder, Belongs, Compacts, Spawns, Alive
<1>4. CASE ~IsMain(q) /\ q[1] = p[1] /\ IsMain(p)
  <2>1. Main(q[1]) = p
    BY <1>4, ProcsShape
  <2> QED
    BY <1>0, <1>4, <2>1 DEF InOrder, Belongs, Compacts, Spawns, Alive, Of, OnlyMoves,
       WithRunners
<1> QED
  BY <1>1, <1>2, <1>3, <1>4

\* ... and the manifests remain in agreement.
LEMMA OthersAgree ==
  ASSUME Inv, NEW p \in Procs, OnlyMoves(p), WithRunners(p), OwnManifest(p),
         NEW q \in Procs, q # p
  PROVE  Agrees(q)'
<1>0. /\ proc'[q] = proc[q] /\ opt' = opt
      /\ \A x \in Procs : Alive(x)' => Alive(x)
      /\ InOrder(q) /\ InOrder(p)
  BY DEF OnlyMoves, Inv, Alive
<1>1. CASE IsMain(q) /\ Alive(q) /\ proc[q].pc \notin {"load", "validate"}
  <2>1. p[1] = q[1] /\ ~IsMain(p) /\ Of(p) = proc[q] /\ Main(p[1]) = q
    BY <1>1, ProcsShape DEF Inv, OneBuild, OnlyMoves, Of
  <2>2. proc[q].pc = "await"
    BY <1>0, <1>1, <2>1 DEF InOrder, Belongs, OnlyMoves, Alive
  <2>3. wal.rows \subseteq {proc[q].manifest} /\ proc[q].manifest \in wal.rows
    BY <1>0, <1>1, <2>2 DEF InOrder, Agrees
  <2>4. wal'.rows # wal.rows => proc[p].manifest = proc[q].manifest
    BY <1>0, <1>1, <2>1 DEF InOrder, Agrees, Belongs, OwnManifest, OnlyMoves, Alive,
       RunnerPcs, Writing, Before, Ended
  <2> QED
    BY <1>0, <1>1, <2>2, <2>3, <2>4 DEF Agrees, OwnManifest
<1>2. CASE ~IsMain(q)
  <2>1. Main(q[1]) \in Procs /\ (Alive(Main(q[1]))' => Alive(Main(q[1])))
    BY <1>0, ProcsShape
  <2>2. CASE Main(q[1]) # p
    BY <1>0, <1>2, <2>1, <2>2 DEF InOrder, Agrees, Of, OnlyMoves
  <2>3. CASE Main(q[1]) = p
    <3>1. IsMain(p) /\ p[1] = q[1]
      BY <2>3, ProcsShape, MainShape
    <3>2. proc[q].pc # "off" => proc[p].pc # "hash"
      BY <1>0, <1>2, <2>3 DEF InOrder, Belongs, Of, Before
    <3>3. proc[q].pc # "off" => proc'[p].manifest = proc[p].manifest
      BY <3>1, <3>2 DEF WithRunners
    <3> QED
      BY <1>0, <1>2, <2>1, <2>3, <3>3 DEF InOrder, Agrees, Of, Ended, Alive
  <2> QED
    BY <2>2, <2>3
<1>3. CASE IsMain(q) /\ ~(Alive(q) /\ proc[q].pc \notin {"load", "validate"})
  BY <1>0, <1>3 DEF Agrees, Alive, Ended
<1> QED
  BY <1>1, <1>2, <1>3

\* A process that keeps to the record does not disturb the others.
LEMMA OthersKept ==
  ASSUME Inv, NEW p \in Procs, OnlyMoves(p), SameRecord, WithRunners(p), OwnManifest(p),
         NEW q \in Procs, q # p
  PROVE  InOrder(q)'
<1>1. /\ proc'[q] = proc[q] /\ opt' = opt
      /\ \A x \in Procs : Alive(x)' => Alive(x)
      /\ InOrder(q)
  BY DEF OnlyMoves, Inv, Alive
<1>2. Belongs(q)' /\ Agrees(q)'
  BY OthersBelong, OthersAgree
<1>3. Sound(q)' /\ Apart(q)' /\ Knows(q)' /\ Built(q)'
  BY <1>1 DEF InOrder, Sound, Apart, Knows, Built, SameRecord, Alive, Spawns, Own
<1>4. Complete(q)'
  <2>1. Alive(Main(q[1]))' => Alive(Main(q[1]))
    BY <1>1, ProcsShape
  <2> QED
    BY <1>1, <2>1 DEF InOrder, Complete, SameRecord, Own
<1> QED
  BY <1>2, <1>3, <1>4 DEF InOrder

\* The outputs stay as the worker that writes them has left them.
LEMMA FilesKept ==
  ASSUME Inv, NEW p \in Procs, OnlyMoves(p), UNCHANGED <<chunks, graph>>,
         FindsFiles(p)', IsMain(p) /\ proc'[p].pc = "ok" => MaySkip(p[1])
  PROVE  OutputsInOrder'
<1>1. ASSUME NEW q \in Procs, q # p
      PROVE  FindsFiles(q)'
  BY <1>1 DEF Inv, OutputsInOrder, FindsFiles, OnlyMoves, Whole, Truncated
<1>2. ASSUME NEW j \in Jobs
      PROVE  Reportable(j)'
  <2>1. Main(j) \in Procs /\ Main(j)[1] = j /\ IsMain(Main(j))
    BY MainShape
  <2>2. CASE Main(j) # p
    <3>1. proc'[Main(j)] = proc[Main(j)]
      BY <2>1, <2>2 DEF OnlyMoves
    <3> QED
      BY <3>1 DEF Inv, OutputsInOrder, Reportable, OnlyMoves, Current, MaySkip
  <2>3. CASE Main(j) = p
    BY <2>1, <2>3 DEF Reportable, OnlyMoves, MaySkip
  <2> QED
    BY <2>2, <2>3
<1> QED
  BY <1>1, <1>2 DEF OutputsInOrder

\* A process that moves in order keeps the invariant.
LEMMA MoveKeeps ==
  ASSUME Inv, NEW p \in Procs, OnlyMoves(p), SameRecord, WithRunners(p), OwnManifest(p),
         InOrder(p)', UNCHANGED <<chunks, graph>>,
         cwal' \in {"none", "succeeded", "failed"},
         FindsFiles(p)', IsMain(p) /\ proc'[p].pc = "ok" => MaySkip(p[1])
  PROVE  Inv'
<1>1. GraphTypeOK'
  BY DEF Inv, GraphTypeOK, OnlyMoves, SameRecord
<1>2. OneBuild'
  <2>1. \A q \in Procs : Alive(q)' => Alive(q) \/ q[1] = p[1]
    BY DEF OnlyMoves, Alive
  <2>2. \A j \in Jobs : Started(j)' /\ told'[j] = "none" => Started(j) /\ told[j] = "none"
    BY MainShape DEF OnlyMoves, Started, Alive
  <2> QED
    BY <2>1, <2>2, OneBuildKept DEF OnlyMoves
<1>3. LogIsSound'
  BY DEF Inv, LogIsSound, SameRecord
<1>4. \A q \in Procs : InOrder(q)'
  BY OthersKept
<1>5. OutputsInOrder'
  BY FilesKept
<1> QED
  BY <1>1, <1>2, <1>3, <1>4, <1>5 DEF Inv

-----------------------------------------------------------------------------
(* Where a process goes.                                                   *)

LEMMA OffType == Off \in Process
BY DEF Off, Process, Pcs, Read

LEMMA AtEffect ==
  ASSUME NEW s \in Process, NEW pc \in Pcs
  PROVE  /\ At(s, pc) \in Process
         /\ At(s, pc).pc = pc /\ At(s, pc).manifest = s.manifest
         /\ pc \in Ended => At(s, pc).todo = {} /\ At(s, pc).busy = {}
         /\ pc \notin Ended => /\ At(s, pc).loaded = s.loaded /\ At(s, pc).built = s.built
                               /\ At(s, pc).todo = s.todo /\ At(s, pc).busy = s.busy
                               /\ At(s, pc).failed = s.failed
<1>1. CASE pc \in Ended
  <2>1. At(s, pc) = [Off EXCEPT !.pc = pc, !.manifest = s.manifest]
    BY <1>1 DEF At
  <2>2. Off.todo = {} /\ Off.busy = {}
    BY DEF Off
  <2> QED
    BY <1>1, <2>1, <2>2, OffType DEF Process
<1>2. CASE pc \notin Ended
  <2>1. At(s, pc) = [s EXCEPT !.pc = pc]
    BY <1>2 DEF At
  <2> QED
    BY <1>2, <2>1 DEF Process
<1> QED
  BY <1>1, <1>2

LEMMA GotoEffect ==
  ASSUME Inv, NEW p \in Procs, Alive(p), NEW pc \in Pcs \ {"off"}, Goto(p, pc),
         UNCHANGED <<opt, told>>
  PROVE  /\ OnlyMoves(p)
         /\ proc'[p].pc = pc /\ proc'[p].manifest = proc[p].manifest
         /\ pc \in Ended => proc'[p].todo = {} /\ proc'[p].busy = {}
         /\ pc \notin Ended =>
              /\ proc'[p].loaded = proc[p].loaded /\ proc'[p].built = proc[p].built
              /\ proc'[p].todo = proc[p].todo /\ proc'[p].busy = proc[p].busy
              /\ proc'[p].failed = proc[p].failed
<1>1. proc \in [Procs -> Process] /\ proc[p] \in Process
  BY DEF Inv, GraphTypeOK
<1>2. proc' = [proc EXCEPT ![p] = At(proc[p], pc)]
  BY DEF Goto
<1>3. At(proc[p], pc) \in Process
  BY <1>1, AtEffect
<1>4. /\ proc'[p] = At(proc[p], pc)
      /\ proc' \in [Procs -> Process]
      /\ \A q \in Procs \ {p} : proc'[q] = proc[q]
  BY <1>1, <1>2, <1>3
<1> QED
  BY <1>1, <1>4, AtEffect DEF OnlyMoves

\* A step that leaves the log alone.
LEMMA LogUntouched ==
  ASSUME Inv, UNCHANGED wal
  PROVE  SameRecord /\ \A p \in Procs : OwnManifest(p)
BY DEF Inv, GraphTypeOK, SameRecord, OwnManifest

\* A process that has ended is in order if its share was done when it exited 0.
LEMMA EndsInOrder ==
  ASSUME Inv, NEW p \in Procs, OnlyMoves(p), SameRecord, proc'[p].pc \in Ended,
         proc'[p].todo = {}, proc'[p].busy = {}, proc'[p].manifest = proc[p].manifest,
         ~IsMain(p) /\ proc'[p].pc = "ok" =>
           /\ proc[p].pc \in {"announce", "extract", "drain"}
           /\ Alive(Main(p[1])) => Own(p) \subseteq DoneIn(wal)
  PROVE  InOrder(p)' /\ WithRunners(p) /\ FindsFiles(p)'
<1>1. proc'[p].pc \in {"ok", "failed", "killed"}
  BY DEF Ended
<1>2. Belongs(p)'
  <2>1. ~IsMain(p) => Of(p)' = Of(p)
    BY ProcsShape DEF OnlyMoves, Of
  <2>2. Belongs(p)
    BY DEF Inv, InOrder
  <2> QED
    BY <1>1, <2>1, <2>2 DEF Belongs, OnlyMoves, Alive, RunnerPcs, Ended, Compacts, Spawns
<1>3. Sound(p)' /\ Apart(p)' /\ Knows(p)' /\ Built(p)' /\ FindsFiles(p)'
  BY <1>1 DEF Sound, Apart, Knows, Built, FindsFiles, Alive, Ended, Writing
<1>4. Complete(p)'
  <2>1. ~IsMain(p) => Main(p[1]) \in Procs \ {p}
    BY ProcsShape
  <2> QED
    BY <1>1, <2>1 DEF Complete, Writing, SameRecord, Own, Alive, OnlyMoves
<1>5. Agrees(p)'
  <2>1. ~IsMain(p) => Main(p[1]) \in Procs \ {p}
    BY ProcsShape
  <2>2. Agrees(p)
    BY DEF Inv, InOrder
  <2> QED
    BY <1>1, <2>1, <2>2 DEF Agrees, Ended, Alive, OnlyMoves, Of
<1>6. WithRunners(p)
  BY <1>1 DEF WithRunners, Ended, Before
<1> QED
  BY <1>2, <1>3, <1>4, <1>5, <1>6 DEF InOrder

-----------------------------------------------------------------------------
(* The steps of one process that leave the record alone.                   *)

\* A worker that does not wait has no runners alive.
LEMMA NoRunners ==
  ASSUME Inv, NEW p \in Procs, IsMain(p), proc[p].pc \notin {"await"} \cup Ended
  PROVE  \A q \in Procs : ~IsMain(q) /\ q[1] = p[1] => ~Alive(q)
<1> SUFFICES ASSUME NEW q \in Procs, ~IsMain(q), q[1] = p[1], Alive(q)
             PROVE  FALSE
  OBVIOUS
<1>1. Of(q) = proc[p]
  BY ProcsShape DEF Of
<1> QED
  BY <1>1 DEF Inv, InOrder, Belongs

\* The worker of a runner that moves stays as it is.
LEMMA WorkerStays ==
  ASSUME NEW p \in Procs, OnlyMoves(p), ~IsMain(p)
  PROVE  /\ Of(p)' = Of(p)
         /\ Main(p[1]) \in Procs \ {p}
         /\ Alive(Main(p[1]))' <=> Alive(Main(p[1]))
BY ProcsShape DEF Of, OnlyMoves, Alive

\* Belongs for a process that moves from a place where it belongs.
LEMMA BelongsKept ==
  ASSUME Inv, NEW p \in Procs, OnlyMoves(p),
         ~IsMain(p) => proc'[p].pc \in RunnerPcs,
         proc'[p].pc = "decide" => Compacts(p),
         proc'[p].pc \in {"spawn", "await"} => Spawns(p)
  PROVE  Belongs(p)'
<1>1. Belongs(p)
  BY DEF Inv, InOrder
<1>2. CASE IsMain(p)
  BY <1>2 DEF Belongs, OnlyMoves, Compacts, Spawns
<1>3. CASE ~IsMain(p)
  BY <1>1, <1>3, WorkerStays DEF Belongs, OnlyMoves, Compacts, Spawns, Alive
<1> QED
  BY <1>2, <1>3

LEMMA ValidateKeeps ==
  ASSUME Inv, NEW p \in Procs, Validate(p)
  PROVE  Inv'
<1> USE DEF Validate, files, jobs
<1>1. Alive(p) /\ proc[p] \in Process /\ InOrder(p)
  BY DEF Alive, Ended, Inv, GraphTypeOK
<1>2. SameRecord /\ OwnManifest(p)
  BY LogUntouched
<1>3. cwal' \in {"none", "succeeded", "failed"}
  BY DEF Inv, GraphTypeOK
<1>4. CASE ~(wal.rows \subseteq {proc[p].manifest})
  <2>1. Goto(p, "failed")
    BY <1>4
  <2>2. /\ OnlyMoves(p) /\ proc'[p].pc = "failed" /\ proc'[p].manifest = proc[p].manifest
        /\ proc'[p].todo = {} /\ proc'[p].busy = {}
    BY <1>1, <2>1, GotoEffect DEF Pcs, Ended
  <2>3. InOrder(p)' /\ WithRunners(p) /\ FindsFiles(p)'
    BY <1>2, <2>2, EndsInOrder DEF Ended
  <2> QED
    BY <1>2, <1>3, <2>2, <2>3, MoveKeeps
<1>5. CASE wal.rows \subseteq {proc[p].manifest}
  <2>1. Goto(p, "announce")
    BY <1>5
  <2>2. /\ OnlyMoves(p) /\ proc'[p].pc = "announce" /\ proc'[p].manifest = proc[p].manifest
        /\ proc'[p].loaded = proc[p].loaded
        /\ proc'[p].todo = proc[p].todo /\ proc'[p].busy = proc[p].busy
    BY <1>1, <2>1, GotoEffect DEF Pcs, Ended, Before
  <2>3. Belongs(p)'
    BY <2>2, BelongsKept DEF RunnerPcs, Before
  <2>4. Sound(p)' /\ Apart(p)' /\ Knows(p)' /\ Built(p)' /\ Complete(p)' /\ FindsFiles(p)'
    BY <1>1, <2>2 DEF InOrder, Sound, Apart, Knows, Built, Complete, FindsFiles, Alive,
       Ended, Writing, Own, Spawns
  <2>5. Agrees(p)'
    <3>1. CASE IsMain(p)
      BY <1>5, <2>2, <3>1 DEF Agrees
    <3>2. CASE ~IsMain(p)
      <4>1. /\ Of(p)' = Of(p) /\ Main(p[1]) \in Procs \ {p}
            /\ Alive(Main(p[1]))' <=> Alive(Main(p[1]))
        BY <2>2, <3>2, WorkerStays
      <4>2. Alive(Main(p[1])) => Of(p).pc = "await" /\ IsMain(Main(p[1]))
        BY <1>1, <3>2, <4>1, ProcsShape, MainShape DEF InOrder, Belongs, Of, Alive
      <4>3. Alive(Main(p[1])) => Of(p).manifest \in wal.rows
        BY <4>1, <4>2 DEF Inv, InOrder, Agrees, Of
      <4> QED
        BY <1>5, <2>2, <3>2, <4>1, <4>3 DEF Agrees
    <3> QED
      BY <3>1, <3>2
  <2>6. WithRunners(p)
    BY <2>2, NoRunners DEF WithRunners, Before, Ended
  <2> QED
    BY <1>2, <1>3, <2>2, <2>3, <2>4, <2>5, <2>6, MoveKeeps DEF InOrder
<1> QED
  BY <1>4, <1>5

LEMMA DrainedKeeps ==
  ASSUME Inv, NEW p \in Procs, Drained(p)
  PROVE  Inv'
<1> USE DEF Drained, files, jobs
<1>1. Alive(p)
  BY DEF Alive, Ended
<1>2. SameRecord /\ OwnManifest(p) /\ cwal' \in {"none", "succeeded", "failed"}
  BY LogUntouched DEF Inv, GraphTypeOK
<1>3. /\ OnlyMoves(p) /\ proc'[p].pc = "failed" /\ proc'[p].manifest = proc[p].manifest
      /\ proc'[p].todo = {} /\ proc'[p].busy = {}
  BY <1>1, GotoEffect DEF Pcs, Ended
<1>4. InOrder(p)' /\ WithRunners(p) /\ FindsFiles(p)'
  BY <1>2, <1>3, EndsInOrder DEF Ended
<1> QED
  BY <1>2, <1>3, <1>4, MoveKeeps

LEMMA DecideKeeps ==
  ASSUME Inv, NEW p \in Procs, Decide(p)
  PROVE  Inv'
<1> USE DEF Decide, jobs
<1>1. Alive(p) /\ InOrder(p)
  BY DEF Alive, Ended, Inv
<1>2. Compacts(p) /\ IsMain(p) /\ ~Spawns(p) /\ proc[p].busy = {}
  BY <1>1 DEF InOrder, Belongs, Apart, Compacts, Spawns
<1>3. SameRecord /\ OwnManifest(p)
  BY LogUntouched
<1>4. cwal' \in {"none", "succeeded", "failed"}
  BY DEF Inv, GraphTypeOK
<1>5. \A pc \in {"ok", "failed"} : Goto(p, pc) =>
        /\ OnlyMoves(p) /\ proc'[p].pc = pc /\ proc'[p].manifest = proc[p].manifest
        /\ proc'[p].todo = {} /\ proc'[p].busy = {}
  BY <1>1, GotoEffect DEF Pcs, Ended
<1>6. CASE Goto(p, "failed")
  <2>1. InOrder(p)' /\ WithRunners(p) /\ FindsFiles(p)'
    BY <1>2, <1>3, <1>5, <1>6, EndsInOrder DEF Ended
  <2> QED
    BY <1>3, <1>4, <1>5, <1>6, <2>1, MoveKeeps
<1>7. CASE Goto(p, "ok") /\ opt[p[1]].communities
  <2>1. InOrder(p)' /\ WithRunners(p) /\ FindsFiles(p)'
    BY <1>2, <1>3, <1>5, <1>7, EndsInOrder DEF Ended
  <2>2. MaySkip(p[1])
    BY <1>2, <1>7 DEF Compacts, MaySkip
  <2> QED
    BY <1>3, <1>4, <1>5, <1>7, <2>1, <2>2, MoveKeeps
<1>8. CASE Goto(p, "extract") /\ proc[p].todo = {}
  <2>1. /\ OnlyMoves(p) /\ proc'[p].pc = "extract" /\ proc'[p].manifest = proc[p].manifest
        /\ proc'[p].todo = {} /\ proc'[p].busy = {} /\ proc'[p].built = proc[p].built
        /\ proc'[p].failed = proc[p].failed
    BY <1>1, <1>2, <1>8, GotoEffect DEF Pcs, Ended
  <2>2. Belongs(p)'
    BY <1>2, <2>1, BelongsKept
  <2>3. Sound(p)' /\ Apart(p)' /\ Knows(p)' /\ Built(p)' /\ Complete(p)' /\ FindsFiles(p)'
    BY <1>1, <1>2, <1>3, <1>8, <2>1 DEF InOrder, Sound, Apart, Knows, Built, Complete,
       FindsFiles, Alive, Ended, Writing, Own, SameRecord
  <2>4. Agrees(p)'
    BY <1>1, <1>2, <2>1 DEF InOrder, Agrees
  <2>5. WithRunners(p)
    BY <2>1, NoRunners DEF WithRunners, Before, Ended
  <2> QED
    BY <1>3, <1>4, <2>1, <2>2, <2>3, <2>4, <2>5, MoveKeeps DEF InOrder
<1> QED
  BY <1>6, <1>7, <1>8

LEMMA ExtractedKeeps ==
  ASSUME Inv, NEW p \in Procs, Extracted(p)
  PROVE  Inv'
<1> USE DEF Extracted, files, jobs
<1>1. Alive(p) /\ InOrder(p)
  BY DEF Alive, Ended, Inv
<1>2. SameRecord /\ OwnManifest(p) /\ cwal' \in {"none", "succeeded", "failed"}
  BY LogUntouched DEF Inv, GraphTypeOK
<1>3. ~wal.torn /\ ~proc[p].failed => Own(p) \subseteq DoneIn(wal)
  BY <1>1 DEF InOrder, Complete
<1>4. \A pc \in {"ok", "failed"} : Goto(p, pc) =>
        /\ OnlyMoves(p) /\ proc'[p].pc = pc /\ proc'[p].manifest = proc[p].manifest
        /\ proc'[p].todo = {} /\ proc'[p].busy = {}
  BY <1>1, GotoEffect DEF Pcs, Ended
<1>5. CASE Goto(p, "failed")
  <2>1. InOrder(p)' /\ WithRunners(p) /\ FindsFiles(p)'
    BY <1>2, <1>4, <1>5, EndsInOrder DEF Ended
  <2> QED
    BY <1>2, <1>4, <1>5, <2>1, MoveKeeps
<1>6. CASE Goto(p, "ok") /\ ~IsMain(p) /\ ~proc[p].failed
  <2>1. Alive(Main(p[1])) => ~wal.torn
    <3>1. Main(p[1]) \in Procs /\ IsMain(Main(p[1]))
      BY ProcsShape, MainShape
    <3>2. Alive(Main(p[1])) => Of(p).pc = "await"
      BY <1>1, <1>6 DEF InOrder, Belongs, Of, Alive
    <3> QED
      BY <3>1, <3>2 DEF Inv, InOrder, Sound, Of
  <2>2. InOrder(p)' /\ WithRunners(p) /\ FindsFiles(p)'
    BY <1>2, <1>3, <1>4, <1>6, <2>1, EndsInOrder DEF Ended
  <2> QED
    BY <1>2, <1>4, <1>6, <2>2, MoveKeeps
<1>7. CASE Goto(p, "compact") /\ IsMain(p) /\ ~proc[p].failed
  <2>1. /\ OnlyMoves(p) /\ proc'[p].pc = "compact" /\ proc'[p].manifest = proc[p].manifest
        /\ proc'[p].todo = {} /\ proc'[p].busy = {} /\ proc'[p].built = proc[p].built
    BY <1>1, <1>7, GotoEffect DEF Pcs, Ended, Writing
  <2>2. Belongs(p)'
    BY <1>7, <2>1, BelongsKept
  <2>3. ~wal.torn /\ DoneIn(wal) = Items
    BY <1>1, <1>3, <1>7, OwnShape DEF InOrder, Sound, DoneIn
  <2>4. Sound(p)' /\ Apart(p)' /\ Knows(p)' /\ Built(p)' /\ Complete(p)' /\ FindsFiles(p)'
    BY <1>1, <1>2, <1>7, <2>1, <2>3 DEF InOrder, Sound, Apart, Knows, Built, Complete,
       FindsFiles, Alive, Ended, Writing, Own, SameRecord
  <2>5. Agrees(p)'
    BY <1>1, <1>7, <2>1 DEF InOrder, Agrees
  <2>6. WithRunners(p)
    BY <2>1, NoRunners DEF WithRunners, Before, Ended
  <2> QED
    BY <1>2, <2>1, <2>2, <2>4, <2>5, <2>6, MoveKeeps DEF InOrder
<1> QED
  BY <1>5, <1>6, <1>7

LEMMA CompactKeeps ==
  ASSUME Inv, NEW p \in Procs, Compact(p)
  PROVE  Inv'
<1> USE DEF Compact, jobs
<1>1. Alive(p) /\ InOrder(p)
  BY DEF Alive, Ended, Inv
<1>2. IsMain(p) /\ proc[p].todo = {} /\ proc[p].busy = {}
  BY <1>1 DEF InOrder, Belongs, Apart, RunnerPcs, Before, Ended
<1>3. SameRecord /\ OwnManifest(p)
  BY LogUntouched
<1>4. cwal' \in {"none", "succeeded", "failed"}
  BY DEF Inv, GraphTypeOK
<1>5. CASE Goto(p, "failed")
  <2>1. /\ OnlyMoves(p) /\ proc'[p].pc = "failed" /\ proc'[p].manifest = proc[p].manifest
        /\ proc'[p].todo = {} /\ proc'[p].busy = {}
    BY <1>1, <1>5, GotoEffect DEF Pcs, Ended
  <2>2. InOrder(p)' /\ WithRunners(p) /\ FindsFiles(p)'
    BY <1>3, <2>1, EndsInOrder DEF Ended
  <2> QED
    BY <1>3, <1>4, <2>1, <2>2, MoveKeeps
<1>6. CASE Goto(p, "open_chunks")
  <2>1. /\ OnlyMoves(p) /\ proc'[p].pc = "open_chunks" /\ proc'[p].manifest = proc[p].manifest
        /\ proc'[p].todo = {} /\ proc'[p].busy = {} /\ proc'[p].built = proc[p].built
    BY <1>1, <1>2, <1>6, GotoEffect DEF Pcs, Ended, Writing
  <2>2. Belongs(p)'
    BY <1>2, <2>1, BelongsKept
  <2>3. Sound(p)' /\ Apart(p)' /\ Knows(p)' /\ Built(p)' /\ Complete(p)' /\ FindsFiles(p)'
    BY <1>1, <1>2, <1>3, <2>1 DEF InOrder, Sound, Apart, Knows, Built, Complete,
       FindsFiles, Alive, Ended, Writing, Own, SameRecord
  <2>4. Agrees(p)'
    BY <1>1, <1>2, <2>1 DEF InOrder, Agrees
  <2>5. WithRunners(p)
    BY <2>1, NoRunners DEF WithRunners, Before, Ended
  <2> QED
    BY <1>3, <1>4, <2>1, <2>2, <2>3, <2>4, <2>5, MoveKeeps DEF InOrder
<1> QED
  BY <1>5, <1>6

LEMMA AwaitKeeps ==
  ASSUME Inv, NEW p \in Procs, Await(p)
  PROVE  Inv'
<1> USE DEF Await, files, jobs
<1>1. Alive(p) /\ InOrder(p) /\ proc \in [Procs -> Process] /\ proc[p] \in Process
  BY DEF Alive, Ended, Inv, GraphTypeOK
<1>2. IsMain(p) /\ Spawns(p) /\ proc[p].todo = {} /\ proc[p].busy = {}
  BY <1>1 DEF InOrder, Belongs, Apart, Spawns
<1>3. SameRecord /\ OwnManifest(p) /\ cwal' \in {"none", "succeeded", "failed"}
  BY LogUntouched DEF Inv, GraphTypeOK
<1>4. Loaded(wal) \in SUBSET Extraction /\ Keys(Loaded(wal)) = DoneIn(wal)
  BY LoadedShape DEF Inv, LogIsSound, GraphTypeOK
<1> DEFINE s == [proc[p] EXCEPT !.built = Loaded(wal)]
<1>5. /\ s \in Process /\ s.todo = {} /\ s.busy = {} /\ s.built = Loaded(wal)
      /\ s.manifest = proc[p].manifest
  BY <1>1, <1>2, <1>4 DEF Process
<1>6. PICK pc \in {"extract", "failed"} :
        /\ proc' = [proc EXCEPT ![p] = At(s, pc)]
        /\ pc = "extract" => Keys(Loaded(wal)) = Items
  BY Zenon
<1> HIDE DEF s
<1>7. /\ OnlyMoves(p) /\ proc'[p].pc = pc /\ proc'[p].manifest = proc[p].manifest
      /\ proc'[p].todo = {} /\ proc'[p].busy = {}
      /\ pc = "extract" => proc'[p].built = Loaded(wal)
  <2>1. At(s, pc) \in Process
    BY <1>5, AtEffect DEF Pcs, Ended
  <2>2. proc' \in [Procs -> Process] /\ proc'[p] = At(s, pc)
        /\ \A q \in Procs \ {p} : proc'[q] = proc[q]
    BY <1>1, <1>6, <2>1
  <2>3. /\ At(s, pc).pc = pc /\ At(s, pc).manifest = proc[p].manifest
        /\ At(s, pc).todo = {} /\ At(s, pc).busy = {}
        /\ pc = "extract" => At(s, pc).built = Loaded(wal)
    BY <1>5, AtEffect DEF Pcs, Ended
  <2>4. UNCHANGED <<opt, told>>
    OBVIOUS
  <2> QED
    BY <1>1, <2>2, <2>3, <2>4 DEF OnlyMoves
<1>8. CASE pc = "failed"
  <2>1. InOrder(p)' /\ WithRunners(p) /\ FindsFiles(p)'
    BY <1>3, <1>7, <1>8, EndsInOrder DEF Ended
  <2> QED
    BY <1>3, <1>7, <1>8, <2>1, MoveKeeps
<1>9. CASE pc = "extract"
  <2>1. Belongs(p)'
    BY <1>2, <1>7, <1>9, BelongsKept
  <2>2. DoneIn(wal) = Items
    BY SMTT(30), <1>4, <1>6, <1>9
  <2>3. Sound(p)' /\ Apart(p)' /\ Knows(p)' /\ Built(p)' /\ Complete(p)' /\ FindsFiles(p)'
    BY <1>1, <1>2, <1>3, <1>7, <1>9, <2>2 DEF InOrder, Sound, Apart, Knows, Built, Complete,
       FindsFiles, Alive, Ended, Writing, Own, SameRecord
  <2>4. Agrees(p)'
    BY <1>1, <1>2, <1>7, <1>9 DEF InOrder, Agrees
  <2>5. WithRunners(p)
    <3>1. \A q \in Procs : ~IsMain(q) /\ q[1] = p[1] => ~Alive(q)
      BY ProcsShape DEF Alive
    <3> QED
      BY <1>7, <1>9, <3>1 DEF WithRunners, Before, Ended
  <2> QED
    BY <1>3, <1>7, <1>9, <2>1, <2>3, <2>4, <2>5, MoveKeeps DEF InOrder
<1> QED
  BY <1>8, <1>9

LEMMA AnnounceKeeps ==
  ASSUME Inv, NEW p \in Procs, Announce(p)
  PROVE  Inv'
<1> USE DEF Announce, files, jobs
<1>1. /\ Alive(p) /\ InOrder(p) /\ proc \in [Procs -> Process] /\ proc[p] \in Process
      /\ wal \in Log
  BY DEF Alive, Ended, Inv, GraphTypeOK, Process
<1> DEFINE pending == Items \ Keys(proc[p].loaded)
           pc == IF Compacts(p) THEN "decide" ELSE IF Spawns(p) THEN "spawn" ELSE "extract"
           todo == IF Spawns(p) THEN {}
                   ELSE IF IsMain(p) THEN pending ELSE Share(p, pending)
           built == IF IsMain(p) /\ ~Spawns(p) THEN proc[p].loaded ELSE {}
           s == [proc[p] EXCEPT !.pc = pc, !.todo = todo, !.built = built, !.loaded = {}]
<1>2. proc' = [proc EXCEPT ![p] = s]
  OBVIOUS
<1>3. /\ Own(p) \subseteq Items
      /\ IsMain(p) => Own(p) = Items
      /\ ~IsMain(p) => Share(p, pending) = pending \cap Own(p)
  BY OwnShape
<1>4. /\ todo \subseteq Items
      /\ Spawns(p) => todo = {}
      /\ ~Spawns(p) => todo = Own(p) \ DoneIn(wal)
  BY <1>1, <1>3 DEF InOrder, Knows, Spawns
<1>5. built \in SUBSET Extraction /\ (IsMain(p) /\ ~Spawns(p) => built = Loaded(wal))
  BY <1>1 DEF InOrder, Knows, Process
<1>6. pc \in {"decide", "spawn", "extract"}
      /\ (pc = "decide" => Compacts(p)) /\ (pc = "spawn" => Spawns(p))
      /\ (pc \in {"decide", "extract"} => ~Spawns(p))
      /\ (~IsMain(p) => pc = "extract")
  BY DEF Compacts, Spawns
<1> HIDE DEF pending, pc, todo, built
<1>7. /\ s \in Process /\ s.pc = pc /\ s.todo = todo /\ s.built = built
      /\ s.manifest = proc[p].manifest /\ s.busy = proc[p].busy /\ s.failed = proc[p].failed
  BY <1>1, <1>4, <1>5, <1>6 DEF Process, Pcs
<1>8. /\ OnlyMoves(p)
      /\ proc'[p].pc = pc /\ proc'[p].todo = todo /\ proc'[p].built = built
      /\ proc'[p].manifest = proc[p].manifest /\ proc'[p].busy = {}
      /\ proc'[p].failed = proc[p].failed
  <2>1. proc[p].busy = {}
    BY <1>1 DEF InOrder, Apart
  <2>2. proc' \in [Procs -> Process] /\ proc'[p] = s
        /\ \A q \in Procs \ {p} : proc'[q] = proc[q]
    BY <1>1, <1>2, <1>7
  <2>3. UNCHANGED <<opt, told>>
    OBVIOUS
  <2> QED
    BY <1>1, <1>6, <1>7, <2>1, <2>2, <2>3 DEF OnlyMoves
<1> HIDE DEF s
<1>9. /\ wal' \in Log /\ DoneIn(wal') = DoneIn(wal) /\ Loaded(wal') = Loaded(wal)
      /\ wal'.won = wal.won /\ wal'.torn = wal.torn
      /\ wal'.rows = IF wal.torn THEN wal.rows ELSE wal.rows \cup {proc[p].manifest}
  <2>1. By(p, 0) \in Extraction /\ By(p, 0)[3] = proc[p].manifest
    BY <1>1, FirstItem, ByShape
  <2>2. wal' = Append(wal, "run", By(p, 0))
    BY DEF Announce
  <2> QED
    BY <1>1, <2>1, <2>2, AppendRun
<1>10. SameRecord /\ OwnManifest(p) /\ cwal' \in {"none", "succeeded", "failed"}
  BY <1>9 DEF SameRecord, OwnManifest, Inv, GraphTypeOK
<1>11. Belongs(p)'
  BY <1>6, <1>8, BelongsKept DEF RunnerPcs
<1>12. Sound(p)' /\ FindsFiles(p)' /\ Knows(p)' /\ Built(p)'
  BY <1>1, <1>5, <1>6, <1>8, <1>9 DEF InOrder, Sound, FindsFiles, Knows, Built, Alive,
     Ended, Writing
<1>13. Apart(p)' /\ Complete(p)'
  BY <1>4, <1>6, <1>8, <1>9 DEF Apart, Complete, Own, Spawns, Writing
<1>14. Agrees(p)'
  <2>1. CASE IsMain(p)
    <3>1. ~wal.torn /\ wal.rows \subseteq {proc[p].manifest}
      BY <1>1, <2>1 DEF InOrder, Sound, Agrees
    <3> QED
      BY <1>8, <1>9, <2>1, <3>1 DEF Agrees
  <2>2. CASE ~IsMain(p)
    BY <1>1, <1>8, <2>2, WorkerStays DEF InOrder, Agrees
  <2> QED
    BY <2>1, <2>2
<1>15. WithRunners(p)
  BY <1>6, <1>8, NoRunners DEF WithRunners, Before, Ended
<1> QED
  BY <1>6, <1>8, <1>10, <1>11, <1>12, <1>13, <1>14, <1>15, MoveKeeps DEF InOrder

\* A chunk is begun, or is given up.
LEMMA ChunkKeeps ==
  ASSUME Inv, NEW p \in Procs, Alive(p), proc[p].pc \in {"extract", "drain"},
         NEW event \in {"started", "failed"},
         NEW k \in proc[p].todo \cup proc[p].busy,
         NEW s \in Process, proc' = [proc EXCEPT ![p] = s],
         s.pc = proc[p].pc, s.manifest = proc[p].manifest, s.built = proc[p].built,
         s.todo \subseteq proc[p].todo, s.todo \cap s.busy = {},
         s.todo \cup s.busy \subseteq proc[p].todo \cup proc[p].busy,
         s.busy # {} => proc[p].pc = "extract",
         proc[p].pc = "extract" /\ ~s.failed =>
           ~proc[p].failed /\ s.todo \cup s.busy = proc[p].todo \cup proc[p].busy,
         wal' = Append(wal, event, By(p, k)),
         UNCHANGED <<files, jobs>>
  PROVE  Inv'
<1> USE DEF files, jobs
<1>1. /\ InOrder(p) /\ proc \in [Procs -> Process] /\ proc[p] \in Process
      /\ wal \in Log
      /\ cwal' \in {"none", "succeeded", "failed"}
  BY DEF Inv, GraphTypeOK, Process
<1>2. k \in Items \ DoneIn(wal)
  BY <1>1, OwnShape DEF InOrder, Apart
<1>3. /\ wal' \in Log /\ DoneIn(wal') = DoneIn(wal) /\ Loaded(wal') = Loaded(wal)
      /\ wal'.won = wal.won /\ wal'.torn = wal.torn /\ wal'.rows = wal.rows
  BY <1>1, <1>2, ByShape, AppendOther
<1>4. SameRecord /\ OwnManifest(p)
  BY <1>3 DEF SameRecord, OwnManifest
<1>5. OnlyMoves(p) /\ proc'[p] = s
  BY <1>1 DEF OnlyMoves
<1>6. Belongs(p)'
  BY <1>1, <1>5, BelongsKept DEF RunnerPcs
<1>7. Sound(p)' /\ Knows(p)' /\ Built(p)' /\ FindsFiles(p)'
  BY <1>1, <1>3, <1>5 DEF InOrder, Sound, Knows, Built, FindsFiles, Alive, Ended, Writing
<1>8. Apart(p)' /\ Complete(p)'
  BY <1>1, <1>3, <1>5 DEF InOrder, Apart, Complete, Own, Spawns, Writing
<1>9. Agrees(p)'
  BY <1>1, <1>3, <1>5, WorkerStays DEF InOrder, Agrees, Alive
<1>10. WithRunners(p)
  BY <1>5, NoRunners DEF WithRunners, Before, Ended
<1> QED
  BY <1>1, <1>4, <1>5, <1>6, <1>7, <1>8, <1>9, <1>10, MoveKeeps DEF InOrder

LEMMA StartChunkKeeps ==
  ASSUME Inv, NEW p \in Procs, StartChunk(p)
  PROVE  Inv'
<1>1. /\ InOrder(p) /\ proc \in [Procs -> Process] /\ proc[p] \in Process /\ Alive(p)
      /\ proc[p].pc \in {"extract", "drain"}
  BY DEF Inv, GraphTypeOK, StartChunk, Alive, Ended
<1>2. PICK k \in proc[p].todo :
        /\ proc' = [proc EXCEPT ![p].todo = @ \ {k},
                                ![p].busy = IF proc[p].pc = "extract"
                                            THEN @ \cup {k} ELSE @]
        /\ wal' = Append(wal, "started", By(p, k))
  BY DEF StartChunk
<1> DEFINE todo == proc[p].todo \ {k}
           busy == IF proc[p].pc = "extract" THEN proc[p].busy \cup {k} ELSE proc[p].busy
           s == [proc[p] EXCEPT !.todo = todo, !.busy = busy]
<1>3. proc' = [proc EXCEPT ![p] = s]
  BY <1>1, <1>2 DEF Process
<1>4. /\ k \in Items /\ todo \cap busy = {}
      /\ todo \cup busy \subseteq proc[p].todo \cup proc[p].busy
      /\ busy # {} => proc[p].pc = "extract"
      /\ proc[p].pc = "extract" => todo \cup busy = proc[p].todo \cup proc[p].busy
  BY <1>1 DEF InOrder, Apart, Process
<1>5. todo \subseteq proc[p].todo /\ busy \subseteq Items
  BY <1>1, <1>4 DEF Process
<1> HIDE DEF todo, busy
<1>6. /\ s \in Process /\ s.todo = todo /\ s.busy = busy /\ s.pc = proc[p].pc
      /\ s.manifest = proc[p].manifest /\ s.built = proc[p].built /\ s.failed = proc[p].failed
  BY <1>1, <1>5 DEF Process
<1>7. UNCHANGED <<files, jobs>>
  BY DEF StartChunk
<1> HIDE DEF s
<1> QED
  BY <1>1, <1>2, <1>3, <1>4, <1>5, <1>6, <1>7, ChunkKeeps

LEMMA ChunkFailedKeeps ==
  ASSUME Inv, NEW p \in Procs, ChunkFailed(p)
  PROVE  Inv'
<1>1. /\ InOrder(p) /\ proc \in [Procs -> Process] /\ proc[p] \in Process /\ Alive(p)
      /\ proc[p].pc = "extract"
  BY DEF Inv, GraphTypeOK, ChunkFailed, Alive, Ended
<1>2. PICK k \in proc[p].busy :
        /\ proc' = [proc EXCEPT ![p].busy = @ \ {k}, ![p].failed = TRUE]
        /\ wal' = Append(wal, "failed", By(p, k))
  BY DEF ChunkFailed
<1> DEFINE busy == proc[p].busy \ {k}
           s == [proc[p] EXCEPT !.busy = busy, !.failed = TRUE]
<1>3. proc' = [proc EXCEPT ![p] = s]
  BY <1>1, <1>2 DEF Process
<1>4. /\ proc[p].todo \cap busy = {} /\ busy \subseteq Items
      /\ proc[p].todo \cup busy \subseteq proc[p].todo \cup proc[p].busy
  BY <1>1 DEF InOrder, Apart, Process
<1> HIDE DEF busy
<1>5. /\ s \in Process /\ s.todo = proc[p].todo /\ s.busy = busy /\ s.pc = proc[p].pc
      /\ s.manifest = proc[p].manifest /\ s.built = proc[p].built /\ s.failed = TRUE
  BY <1>1, <1>4 DEF Process
<1>6. UNCHANGED <<files, jobs>>
  BY DEF ChunkFailed
<1> HIDE DEF s
<1>7. /\ s.todo \subseteq proc[p].todo /\ s.todo \cap s.busy = {}
      /\ s.todo \cup s.busy \subseteq proc[p].todo \cup proc[p].busy
      /\ s.busy # {} => proc[p].pc = "extract"
      /\ k \in proc[p].todo \cup proc[p].busy
  BY <1>1, <1>4, <1>5
<1> QED
  BY <1>1, <1>2, <1>3, <1>5, <1>6, <1>7, ChunkKeeps

\* Whoever is alive with a process that extracts is another runner of the same
\* build, whose share is another, or the worker that waits for it.
LEMMA Companions ==
  ASSUME Inv, NEW p \in Procs, proc[p].pc = "extract", NEW q \in Procs, q # p, Alive(q)
  PROVE  /\ ~IsMain(p) /\ p[1] = q[1]
         /\ IsMain(q) => proc[q].pc = "await"
         /\ ~IsMain(q) => Own(p) \cap Own(q) = {}
<1>1. Alive(p) /\ p[1] = q[1]
  BY DEF Alive, Ended, Inv, OneBuild
<1>2. ~IsMain(p)
  <2>1. IsMain(p) => ~IsMain(q)
    BY <1>1, ProcsShape
  <2> QED
    BY <1>1, <2>1, NoRunners DEF Ended
<1>3. IsMain(q) => proc[q].pc = "await"
  <2>1. IsMain(q) => Of(p) = proc[q]
    BY <1>1, ProcsShape DEF Of
  <2> QED
    BY <1>1, <1>2, <2>1 DEF Inv, InOrder, Belongs, Alive
<1> QED
  BY <1>1, <1>2, <1>3, SharesDisjoint

LEMMA ChunkSucceededKeeps ==
  ASSUME Inv, NEW p \in Procs, ChunkSucceeded(p)
  PROVE  Inv'
<1>1. /\ InOrder(p) /\ proc \in [Procs -> Process] /\ proc[p] \in Process /\ Alive(p)
      /\ proc[p].pc = "extract" /\ wal \in Log
      /\ cwal' \in {"none", "succeeded", "failed"}
      /\ UNCHANGED <<files, jobs>>
  BY DEF Inv, GraphTypeOK, ChunkSucceeded, Alive, Ended, files, Process
<1>2. PICK k \in proc[p].busy :
        /\ proc' = [proc EXCEPT ![p] =
             [proc[p] EXCEPT
                !.busy  = IF Deaf(p) THEN {} ELSE @ \ {k},
                !.built = IF IsMain(p) THEN @ \cup {By(p, k)} ELSE @,
                !.pc    = IF Deaf(p) THEN "drain" ELSE @]]
        /\ wal' = Append(wal, "succeeded", By(p, k))
  BY DEF ChunkSucceeded
<1> DEFINE s == [proc[p] EXCEPT !.busy  = IF Deaf(p) THEN {} ELSE @ \ {k},
                                !.built = IF IsMain(p) THEN @ \cup {By(p, k)}
                                                       ELSE @,
                                !.pc    = IF Deaf(p) THEN "drain" ELSE @]
           busy == IF Deaf(p) THEN {} ELSE proc[p].busy \ {k}
           built == IF IsMain(p) THEN proc[p].built \cup {By(p, k)}
                    ELSE proc[p].built
           pc == IF Deaf(p) THEN "drain" ELSE "extract"
<1>3. proc' = [proc EXCEPT ![p] = s]
  BY <1>2, Zenon
<1>4. k \in Items \ DoneIn(wal) /\ k \in Own(p)
  BY <1>1, OwnShape DEF InOrder, Apart
<1>5. /\ busy \subseteq proc[p].busy \ {k} /\ busy \subseteq Items
      /\ built \in SUBSET Extraction
      /\ pc \in {"drain", "extract"}
      /\ pc = "drain" => busy = {}
      /\ pc = "extract" => busy = proc[p].busy \ {k}
  <2>1. By(p, k) \in Extraction /\ proc[p].built \in SUBSET Extraction
    BY <1>1, <1>4, ByShape DEF Process
  <2>2. proc[p].busy \subseteq Items
    BY <1>1 DEF Process
  <2> QED
    BY <2>1, <2>2
<1>6. IsMain(p) => built = proc[p].built \cup {By(p, k)}
  OBVIOUS
<1>7. /\ s \in Process /\ s.todo = proc[p].todo /\ s.busy = busy /\ s.pc = pc
      /\ s.manifest = proc[p].manifest /\ s.built = built /\ s.failed = proc[p].failed
  <2>1. s = [proc[p] EXCEPT !.busy = busy, !.built = built, !.pc = pc]
    BY <1>1 DEF Process
  <2> HIDE DEF s, busy, built, pc
  <2> QED
    BY <1>1, <1>5, <2>1 DEF Process, Pcs
<1> HIDE DEF s, busy, built, pc
<1>8. OnlyMoves(p) /\ proc'[p] = s
  BY <1>1, <1>3, <1>5, <1>7 DEF OnlyMoves, jobs
<1>9. WithRunners(p)
  BY <1>1, <1>5, <1>7, <1>8, NoRunners DEF WithRunners, Before, Ended
<1>10. Belongs(p)'
  BY <1>1, <1>5, <1>7, <1>8, BelongsKept DEF RunnerPcs
<1>11. FindsFiles(p)' /\ Knows(p)' /\ UNCHANGED <<chunks, graph>>
  BY <1>1, <1>5, <1>7, <1>8 DEF FindsFiles, Knows, files
<1>12. CASE wal.torn
  <2>1. wal' = wal
    BY <1>2, <1>12 DEF Append
  <2>2. SameRecord /\ OwnManifest(p)
    BY <2>1, LogUntouched
  <2>3. ~IsMain(p)
    BY <1>1, <1>12 DEF InOrder, Sound
  <2>4. Apart(p)'
    BY <1>1, <1>5, <1>7, <1>8, <2>1 DEF InOrder, Apart, Own, Spawns, OnlyMoves
  <2>5. Sound(p)' /\ Built(p)' /\ Complete(p)'
    BY <1>5, <1>7, <1>8, <1>12, <2>1, <2>3 DEF Sound, Built, Complete, Writing
  <2>6. Agrees(p)'
    BY <1>1, <1>7, <1>8, <2>3, WorkerStays DEF InOrder, Agrees
  <2>7. InOrder(p)' /\ proc'[p].pc # "ok"
    BY <1>1, <1>5, <1>7, <1>8, <1>10, <1>11, <2>4, <2>5, <2>6 DEF InOrder
  <2> QED
    BY <1>1, <1>8, <1>9, <1>11, <2>2, <2>7, MoveKeeps
<1>13. CASE ~wal.torn
  <2>1. /\ wal' \in Log
        /\ DoneIn(wal') = DoneIn(wal) \cup {k}
        /\ Loaded(wal') = Loaded(wal) \cup {By(p, k)}
        /\ ~wal'.torn
        /\ wal'.rows = wal.rows \cup {proc[p].manifest}
        /\ wal'.won = {x \in wal.won : x[1] # k} \cup {By(p, k)}
        /\ By(p, k)[1] = k /\ By(p, k)[3] = proc[p].manifest
    BY <1>1, <1>2, <1>4, <1>13, ByShape, AppendSucceeded
  <2>2. OwnManifest(p)
    BY <1>1, <2>1 DEF OwnManifest
  <2>3. Sound(p)' /\ Built(p)' /\ Apart(p)' /\ Complete(p)'
    <3>1. Sound(p)' /\ Built(p)'
      BY <1>1, <1>5, <1>6, <1>7, <1>8, <2>1 DEF InOrder, Sound, Built, Writing
    <3>2. Apart(p)'
      BY <1>1, <1>5, <1>7, <1>8, <2>1 DEF InOrder, Apart, Own, Spawns, OnlyMoves
    <3>3. Complete(p)'
      BY <1>1, <1>5, <1>7, <1>8, <1>13, <2>1 DEF InOrder, Complete, Own, Writing
    <3> QED
      BY <3>1, <3>2, <3>3
  <2>4. Agrees(p)'
    <3>1. CASE IsMain(p)
      BY <1>1, <1>5, <1>7, <1>8, <2>1, <3>1 DEF InOrder, Agrees
    <3>2. CASE ~IsMain(p)
      BY <1>1, <1>7, <1>8, <3>2, WorkerStays DEF InOrder, Agrees
    <3> QED
      BY <3>1, <3>2
  <2>5. ASSUME NEW q \in Procs, q # p
        PROVE  InOrder(q)'
    <3>1. /\ proc'[q] = proc[q] /\ opt' = opt /\ InOrder(q)
          /\ \A x \in Procs : Alive(x)' => Alive(x)
      BY <1>8, <2>5 DEF OnlyMoves, Inv, Alive
    <3>2. Belongs(q)' /\ Agrees(q)'
      BY <1>8, <1>9, <2>2, <2>5, OthersBelong, OthersAgree
    <3>3. /\ Alive(q) /\ IsMain(q) => proc[q].pc = "await"
          /\ Alive(q) /\ ~IsMain(q) => k \notin Own(q)
      BY <1>1, <1>4, <2>5, Companions
    <3>4. Sound(q)'
      BY <2>1 DEF Sound
    <3>5. Apart(q)'
      <4>1. proc[q].todo \cup proc[q].busy # {} => Alive(q) /\ proc[q].pc # "await"
        BY <3>1 DEF InOrder, Apart, Alive, Ended
      <4>2. k \notin proc[q].todo \cup proc[q].busy
        BY <3>1, <3>3, <4>1 DEF InOrder, Apart
      <4> QED
        BY <2>1, <3>1, <4>2 DEF InOrder, Apart, Own, Spawns
    <3>6. Knows(q)'
      BY <2>1, <3>1, <3>3 DEF InOrder, Knows, Own, Alive, Ended
    <3>7. Complete(q)'
      <4>1. Alive(Main(q[1]))' => Alive(Main(q[1]))
        BY <3>1, ProcsShape
      <4> QED
        BY <1>4, <1>13, <2>1, <3>1, <4>1 DEF InOrder, Complete, Own
    <3>8. Built(q)'
      BY <3>1, <3>3 DEF Built, Alive, Writing, Ended
    <3> QED
      BY <3>2, <3>4, <3>5, <3>6, <3>7, <3>8 DEF InOrder
  <2>6. \A q \in Procs : InOrder(q)'
    BY <1>10, <1>11, <2>3, <2>4, <2>5 DEF InOrder
  <2>7. GraphTypeOK'
    BY <1>1, <1>8, <2>1 DEF Inv, GraphTypeOK, OnlyMoves, files, jobs
  <2>8. OneBuild'
    <3>1. \A q \in Procs : Alive(q)' => Alive(q) \/ q[1] = p[1]
      BY <1>8 DEF OnlyMoves, Alive
    <3>2. \A j \in Jobs : Started(j)' /\ told'[j] = "none" => Started(j) /\ told[j] = "none"
      BY <1>8, MainShape DEF OnlyMoves, Started, Alive
    <3> QED
      BY <1>1, <3>1, <3>2, OneBuildKept
  <2>9. LogIsSound'
    <3>1. \A x \in wal.won : x[3] \in wal.rows
      BY DEF Inv, LogIsSound
    <3>2. \A x \in wal'.won : x[3] \in wal'.rows
      BY <2>1, <3>1
    <3>3. ASSUME NEW m \in DoneIn(wal'), m # k
          PROVE  m \in Keys(wal'.won)
      <4>1. m \in Keys(wal.won)
        BY <2>1, <3>3 DEF Inv, LogIsSound
      <4> QED
        BY <2>1, <3>3, <4>1 DEF Keys
    <3>4. k \in Keys(wal'.won)
      <4>1. By(p, k) \in wal'.won /\ By(p, k)[1] = k
        BY <2>1
      <4> QED
        BY <4>1, Zenon DEF Keys
    <3> QED
      BY <3>2, <3>3, <3>4 DEF LogIsSound
  <2>10. OutputsInOrder'
    BY <1>5, <1>7, <1>8, <1>11, FilesKept
  <2> QED
    BY <2>6, <2>7, <2>8, <2>9, <2>10 DEF Inv
<1> QED
  BY <1>12, <1>13

-----------------------------------------------------------------------------
(* A process loads the log, and a worker spawns its runners.               *)

LEMMA LoadResuming ==
  ASSUME Inv, NEW p \in Procs, Load(p), Resumes(p)
  PROVE  Inv'
<1>1. /\ InOrder(p) /\ proc \in [Procs -> Process] /\ proc[p] \in Process /\ Alive(p)
      /\ proc[p].pc = "load" /\ wal \in Log /\ wal' = wal
      /\ cwal' \in {"none", "succeeded", "failed"}
      /\ UNCHANGED <<chunks, graph, opt, told>>
  BY DEF Inv, GraphTypeOK, Load, Alive, Ended, files, jobs
<1>2. proc[p].todo = {} /\ proc[p].busy = {}
  BY <1>1 DEF InOrder, Apart
<1>3. SameRecord /\ OwnManifest(p)
  BY <1>1, LogUntouched
<1>4. CASE wal.torn
  <2>1. Goto(p, "failed")
    BY <1>1, <1>4 DEF Load, Goto
  <2>2. /\ OnlyMoves(p) /\ proc'[p].pc = "failed" /\ proc'[p].manifest = proc[p].manifest
        /\ proc'[p].todo = {} /\ proc'[p].busy = {}
    BY <1>1, <2>1, GotoEffect DEF Pcs, Ended
  <2>3. InOrder(p)' /\ WithRunners(p) /\ FindsFiles(p)'
    BY <1>3, <2>2, EndsInOrder DEF Ended
  <2> QED
    BY <1>1, <1>3, <2>2, <2>3, MoveKeeps
<1>5. CASE ~wal.torn
  <2>1. PICK schema \in Schemas :
          proc' = [proc EXCEPT ![p] = [proc[p] EXCEPT !.pc = "hash", !.schema = schema,
                                                      !.loaded = Loaded(wal)]]
    BY <1>1, <1>5 DEF Load
  <2> DEFINE s == [proc[p] EXCEPT !.pc = "hash", !.schema = schema, !.loaded = Loaded(wal)]
  <2>2. /\ Loaded(wal) \in SUBSET Extraction /\ Keys(Loaded(wal)) = DoneIn(wal)
        /\ DoneIn(wal) \subseteq Items
    BY <1>1, LoadedShape DEF Inv, LogIsSound, DoneIn
  <2>3. /\ s \in Process /\ s.pc = "hash" /\ s.loaded = Loaded(wal)
        /\ s.todo = {} /\ s.busy = {} /\ s.manifest = proc[p].manifest
    BY <1>1, <1>2, <2>2 DEF Process, Pcs, Before, Read
  <2> HIDE DEF s
  <2>4. OnlyMoves(p) /\ proc'[p] = s
    <3>1. proc' = [proc EXCEPT ![p] = s]
      BY <2>1 DEF s
    <3> QED
      BY <1>1, <2>3, <3>1 DEF OnlyMoves
  <2>5. Belongs(p)'
    BY <2>3, <2>4, BelongsKept DEF RunnerPcs, Before
  <2>6. Sound(p)' /\ Apart(p)' /\ Knows(p)' /\ Built(p)' /\ Complete(p)' /\ FindsFiles(p)'
    BY <1>1, <1>5, <2>2, <2>3, <2>4 DEF Sound, Apart, Knows, Built, Complete, FindsFiles,
       Writing, Own
  <2>7. Agrees(p)'
    BY <1>1, <2>3, <2>4 DEF Agrees, Resumes, OnlyMoves
  <2>8. WithRunners(p)
    BY <1>1, <2>3, <2>4, NoRunners DEF WithRunners, Before, Ended
  <2> QED
    BY <1>1, <1>3, <2>3, <2>4, <2>5, <2>6, <2>7, <2>8, MoveKeeps DEF InOrder
<1> QED
  BY <1>4, <1>5

\* With a worker that has not read the log yet nobody else is alive, and it
\* has no runners.
LEMMA LoadsAlone ==
  ASSUME Inv, NEW p \in Procs, IsMain(p), Alive(p), proc[p].pc \in {"load", "spawn"}
  PROVE  /\ \A q \in Procs \ {p} : ~Alive(q)
         /\ \A q \in Procs : ~IsMain(q) /\ q[1] = p[1] => proc[q].pc = "off"
<1>1. ASSUME NEW q \in Procs \ {p}, Alive(q)
      PROVE  FALSE
  <2>1. q[1] = p[1]
    BY <1>1 DEF Inv, OneBuild
  <2> QED
    BY <1>1, <2>1, NoRunners, ProcsShape DEF Ended
<1>2. ASSUME NEW q \in Procs, ~IsMain(q), q[1] = p[1]
      PROVE  proc[q].pc = "off"
  <2>1. Of(q) = proc[p]
    BY <1>2, ProcsShape DEF Of
  <2> QED
    BY <1>2, <2>1 DEF Inv, InOrder, Belongs, Before
<1> QED
  BY <1>1, <1>2

LEMMA LoadFresh ==
  ASSUME Inv, NEW p \in Procs, Load(p), ~Resumes(p)
  PROVE  Inv'
<1>1. /\ InOrder(p) /\ proc \in [Procs -> Process] /\ proc[p] \in Process /\ Alive(p)
      /\ proc[p].pc = "load" /\ IsMain(p) /\ wal' = NoLog
      /\ UNCHANGED <<cwal, chunks, graph, opt, told>>
  BY DEF Inv, GraphTypeOK, Load, Alive, Ended, Resumes, files, jobs
<1>2. /\ wal' \in Log /\ DoneIn(wal') = {} /\ Loaded(wal') = {}
      /\ ~wal'.torn /\ wal'.rows = {} /\ wal'.won = {}
  BY <1>1, NoLogShape DEF NoLog
<1>3. PICK schema \in Schemas :
        proc' = [proc EXCEPT ![p] = [proc[p] EXCEPT !.pc = "hash", !.schema = schema,
                                                    !.loaded = {}]]
  BY <1>1, <1>2 DEF Load
<1> DEFINE s == [proc[p] EXCEPT !.pc = "hash", !.schema = schema, !.loaded = {}]
<1>4. proc[p].todo = {} /\ proc[p].busy = {}
  BY <1>1 DEF InOrder, Apart
<1>5. /\ s \in Process /\ s.pc = "hash" /\ s.loaded = {}
      /\ s.todo = {} /\ s.busy = {} /\ s.manifest = proc[p].manifest
  BY <1>1, <1>4 DEF Process, Pcs, Before, Read
<1> HIDE DEF s
<1>6. OnlyMoves(p) /\ proc'[p] = s
  <2>1. proc' = [proc EXCEPT ![p] = s]
    BY <1>3 DEF s
  <2> QED
    BY <1>1, <1>5, <2>1 DEF OnlyMoves
<1>7. InOrder(p)' /\ FindsFiles(p)'
  <2>1. Belongs(p)'
    BY <1>1, <1>5, <1>6, BelongsKept
  <2>2. Sound(p)' /\ Apart(p)' /\ Knows(p)' /\ Built(p)' /\ Complete(p)' /\ FindsFiles(p)'
    BY <1>1, <1>2, <1>5, <1>6 DEF Sound, Apart, Knows, Built, Complete, FindsFiles,
       Writing, Own, Keys
  <2>3. Agrees(p)'
    BY <1>1, <1>2, <1>5, <1>6 DEF Agrees
  <2> QED
    BY <2>1, <2>2, <2>3 DEF InOrder
<1>8. ASSUME NEW q \in Procs, q # p
      PROVE  InOrder(q)'
  <2>1. /\ proc'[q] = proc[q] /\ opt' = opt /\ InOrder(q) /\ ~Alive(q)
        /\ ~IsMain(q) /\ q[1] = p[1] => proc[q].pc = "off"
    BY <1>1, <1>6, <1>8, LoadsAlone DEF OnlyMoves, Inv
  <2>2. proc[q].pc \in {"off"} \cup Ended
    BY <2>1 DEF Alive
  <2>3. proc[q].todo = {} /\ proc[q].busy = {}
    BY <2>1, <2>2 DEF InOrder, Apart, Ended
  <2>4. ~IsMain(q) /\ proc[q].pc # "off" => ~Alive(Main(q[1]))'
    <3>1. SUFFICES ASSUME ~IsMain(q), proc[q].pc # "off"
                   PROVE  ~Alive(Main(q[1]))'
      OBVIOUS
    <3>2. Main(q[1]) \in Procs \ {p}
      BY <1>1, <2>1, <3>1, ProcsShape, MainShape
    <3> QED
      BY <1>1, <1>6, <3>2, LoadsAlone DEF OnlyMoves, Alive
  <2>5. Belongs(q)'
    <3>1. WithRunners(p)
      BY <1>1, <1>5, <1>6, NoRunners DEF WithRunners, Before, Ended
    <3> QED
      BY <1>6, <1>8, <3>1, OthersBelong
  <2>6. Sound(q)' /\ Apart(q)' /\ Knows(q)' /\ Built(q)'
    BY <2>1, <2>2, <2>3 DEF Sound, Apart, Knows, Built, Ended, Writing, Alive
  <2>7. Complete(q)' /\ Agrees(q)'
    BY <2>1, <2>2, <2>4 DEF Complete, Agrees, Ended, Writing, Alive
  <2> QED
    BY <2>5, <2>6, <2>7 DEF InOrder
<1>9. GraphTypeOK'
  BY <1>1, <1>2, <1>6 DEF Inv, GraphTypeOK, OnlyMoves
<1>10. OneBuild'
  <2>1. \A q \in Procs : Alive(q)' => Alive(q) \/ q[1] = p[1]
    BY <1>6 DEF OnlyMoves, Alive
  <2>2. \A j \in Jobs : Started(j)' /\ told'[j] = "none" => Started(j) /\ told[j] = "none"
    BY <1>6, MainShape DEF OnlyMoves, Started, Alive
  <2> QED
    BY <1>1, <2>1, <2>2, OneBuildKept
<1>11. LogIsSound'
  BY <1>2 DEF LogIsSound
<1>12. OutputsInOrder'
  BY <1>1, <1>5, <1>6, <1>7, FilesKept
<1> QED
  BY <1>7, <1>8, <1>9, <1>10, <1>11, <1>12 DEF Inv

\* The file is hashed: a worker that validates compares it with the log, and
\* one that starts afresh has an empty one.
LEMMA HashKeeps ==
  ASSUME Inv, NEW p \in Procs, Hash(p)
  PROVE  Inv'
<1>1. /\ InOrder(p) /\ proc \in [Procs -> Process] /\ proc[p] \in Process /\ Alive(p)
      /\ proc[p].pc = "hash" /\ wal' = wal
      /\ cwal' \in {"none", "succeeded", "failed"}
      /\ UNCHANGED <<chunks, graph, opt, told>>
  BY DEF Inv, GraphTypeOK, Hash, Alive, Ended, files, jobs
<1> DEFINE pc == IF Resumes(p) THEN "validate" ELSE "announce"
<1>2. PICK schema \in Schemas :
        proc' = [proc EXCEPT ![p] = [proc[p] EXCEPT !.manifest = schema, !.pc = pc]]
  BY <1>1 DEF Hash, Process
<1> DEFINE s == [proc[p] EXCEPT !.manifest = schema, !.pc = pc]
<1>3. pc \in {"validate", "announce"} /\ (pc = "announce" => ~Resumes(p) /\ IsMain(p))
  BY DEF Resumes
<1> HIDE DEF pc
<1>4. /\ s \in Process /\ s.pc = pc /\ s.loaded = proc[p].loaded
      /\ s.todo = proc[p].todo /\ s.busy = proc[p].busy
  BY <1>1, <1>3 DEF Process, Pcs, Before, Read
<1> HIDE DEF s
<1>5. OnlyMoves(p) /\ proc'[p] = s
  BY <1>1, <1>2, <1>3, <1>4 DEF OnlyMoves, s
<1>6. SameRecord /\ OwnManifest(p)
  BY <1>1, LogUntouched
<1>7. Belongs(p)'
  BY <1>3, <1>4, <1>5, BelongsKept DEF RunnerPcs, Before
<1>8. Sound(p)' /\ Apart(p)' /\ Knows(p)' /\ Built(p)' /\ Complete(p)' /\ FindsFiles(p)'
  BY <1>1, <1>3, <1>4, <1>5 DEF InOrder, Sound, Apart, Knows, Built, Complete, FindsFiles,
     Alive, Ended, Writing, Own, Spawns
<1>9. Agrees(p)'
  BY <1>1, <1>3, <1>4, <1>5 DEF InOrder, Agrees
<1>10. WithRunners(p)
  BY <1>1, NoRunners DEF WithRunners, Before, Ended
<1> QED
  BY <1>1, <1>3, <1>4, <1>5, <1>6, <1>7, <1>8, <1>9, <1>10, MoveKeeps DEF InOrder

LEMMA SpawnKeeps ==
  ASSUME Inv, NEW p \in Procs, Spawn(p)
  PROVE  Inv'
<1>1. /\ InOrder(p) /\ proc \in [Procs -> Process] /\ proc[p] \in Process /\ Alive(p)
      /\ proc[p].pc = "spawn" /\ UNCHANGED <<wal, cwal, chunks, graph, opt, told>>
  BY DEF Inv, GraphTypeOK, Spawn, Alive, Ended, files, jobs
<1>2. Spawns(p) /\ IsMain(p) /\ p = Main(p[1])
  BY <1>1, ProcsShape DEF InOrder, Belongs, Spawns
<1>3. /\ \A q \in Procs \ {p} : ~Alive(q)
      /\ \A q \in Procs : ~IsMain(q) /\ q[1] = p[1] => proc[q].pc = "off"
  BY <1>1, <1>2, LoadsAlone
<1>4. \A q \in Procs : q \in Children(p[1]) <=> ~IsMain(q) /\ q[1] = p[1]
  BY <1>2, ProcsShape, ChildrenShape
<1> DEFINE waits == [proc[p] EXCEPT !.pc = "await"]
           Loads(q) == [proc[q] EXCEPT !.pc = "load"]
<1>5. /\ waits \in Process /\ waits.pc = "await" /\ waits.manifest = proc[p].manifest
      /\ waits.todo = proc[p].todo /\ waits.busy = proc[p].busy
  BY <1>1 DEF Process, Pcs
<1>6. \A q \in Procs : /\ Loads(q) \in Process /\ Loads(q).pc = "load"
                       /\ Loads(q).manifest = proc[q].manifest
                       /\ Loads(q).todo = proc[q].todo /\ Loads(q).busy = proc[q].busy
  BY <1>1 DEF Process, Pcs, Before
<1>7. \A q \in Procs : proc'[q] = IF q = p THEN waits
                                  ELSE IF q \in Children(p[1]) THEN Loads(q) ELSE proc[q]
  BY DEF Spawn
<1>8. proc' \in [Procs -> Process]
  <2>1. proc' = [q \in Procs |-> proc'[q]]
    BY DEF Spawn
  <2> QED
    BY <1>1, <1>5, <1>6, <1>7, <2>1
<1> HIDE DEF waits, Loads
<1>9. GraphTypeOK'
  BY <1>1, <1>8 DEF Inv, GraphTypeOK
<1>10. OneBuild'
  <2>1. \A q \in Procs : Alive(q)' => q[1] = p[1]
    BY <1>3, <1>4, <1>7 DEF Alive
  <2>2. \A j \in Jobs : Started(j)' /\ told'[j] = "none" => Started(j) /\ told[j] = "none"
    BY <1>1, <1>4, <1>7, MainShape DEF Started
  <2> QED
    BY <1>1, <2>1, <2>2, OneBuildKept
<1>11. LogIsSound'
  BY <1>1 DEF Inv, LogIsSound
<1>12. ASSUME NEW q \in Procs
       PROVE  InOrder(q)' /\ FindsFiles(q)'
  <2>1. InOrder(q) /\ FindsFiles(q)
    BY DEF Inv, OutputsInOrder
  <2>2. CASE q = p
    <3>1. proc'[q] = waits /\ proc[q].todo = {} /\ proc[q].busy = {}
      BY <1>1, <1>2, <1>7, <2>1, <2>2 DEF InOrder, Apart
    <3>2. Belongs(q)' /\ Sound(q)' /\ Apart(q)' /\ Knows(q)' /\ Complete(q)' /\ Built(q)'
      BY <1>1, <1>2, <1>5, <2>1, <2>2, <3>1 DEF InOrder, Belongs, Sound, Apart, Knows,
         Complete, Built, Spawns, Alive, Ended, Writing
    <3>3. Agrees(q)' /\ FindsFiles(q)'
      BY <1>1, <1>2, <1>5, <2>1, <2>2, <3>1 DEF InOrder, Agrees, FindsFiles
    <3> QED
      BY <3>2, <3>3 DEF InOrder
  <2>3. CASE q \in Children(p[1])
    <3>1. /\ ~IsMain(q) /\ q[1] = p[1] /\ q # p /\ Main(q[1]) = p
          /\ proc'[q] = Loads(q) /\ proc'[p] = waits /\ proc[q].pc = "off"
      BY <1>2, <1>3, <1>4, <1>7, <2>3, ProcsShape
    <3>2. proc[q].todo = {} /\ proc[q].busy = {}
      BY <2>1, <3>1 DEF InOrder, Apart
    <3>3. Belongs(q)'
      <4>1. Of(q)' = waits /\ proc'[q].pc = "load"
        BY <1>6, <3>1 DEF Of
      <4>2. Spawns(Main(q[1]))'
        BY <1>1, <1>2, <3>1 DEF Spawns
      <4> QED
        BY <1>5, <3>1, <4>1, <4>2 DEF Belongs, RunnerPcs, Before, Ended
    <3>4. Sound(q)' /\ Apart(q)' /\ Knows(q)' /\ Complete(q)' /\ Built(q)'
      BY <1>6, <3>1, <3>2 DEF Sound, Apart, Knows, Complete, Built, Writing
    <3>5. Agrees(q)' /\ FindsFiles(q)'
      BY <1>6, <3>1 DEF Agrees, FindsFiles
    <3> QED
      BY <3>3, <3>4, <3>5 DEF InOrder
  <2>4. CASE q # p /\ q \notin Children(p[1])
    <3>1. proc'[q] = proc[q] /\ ~Alive(q) /\ opt' = opt /\ wal' = wal
      BY <1>1, <1>3, <1>7, <2>4
    <3>2. Of(q)' = Of(q) /\ ((Alive(Main(q[1]))' <=> Alive(Main(q[1]))) \/ IsMain(q))
      <4>1. ~IsMain(q) => Main(q[1]) \in Procs /\ Main(q[1]) # p
                          /\ Main(q[1]) \notin Children(p[1])
        BY <1>2, <1>4, <2>4, ProcsShape, MainShape
      <4>2. IsMain(q) => Main(q[1]) = q
        BY ProcsShape
      <4> QED
        BY <1>7, <2>4, <4>1, <4>2 DEF Of, Alive
    <3>3. Belongs(q)' /\ Sound(q)' /\ Apart(q)' /\ Knows(q)' /\ Built(q)'
      BY <2>1, <3>1, <3>2 DEF InOrder, Belongs, Sound, Apart, Knows, Built, Alive, Spawns,
         Compacts, Own
    <3>4. Complete(q)' /\ Agrees(q)' /\ FindsFiles(q)'
      BY <1>1, <2>1, <3>1, <3>2 DEF InOrder, Complete, Agrees, FindsFiles, Alive, Ended,
         Writing, Own
    <3> QED
      BY <3>3, <3>4 DEF InOrder
  <2> QED
    BY <2>2, <2>3, <2>4
<1>13. ASSUME NEW j \in Jobs
       PROVE  Reportable(j)'
  <2>1. proc'[Main(j)] = proc[Main(j)] \/ proc'[Main(j)].pc = "await"
    BY <1>4, <1>5, <1>7, MainShape
  <2> QED
    BY <1>1, <2>1 DEF Inv, OutputsInOrder, Reportable, Current, MaySkip
<1> QED
  BY <1>9, <1>10, <1>11, <1>12, <1>13 DEF Inv, OutputsInOrder

-----------------------------------------------------------------------------
(* The worker writes the outputs.                                          *)

\* All the extractions of a log that is complete and has one manifest.
LEMMA AllLoaded ==
  ASSUME Inv, NEW m, wal.rows \subseteq {m}, DoneIn(wal) = Items
  PROVE  AllUnder(Loaded(wal), m)
<1>1. Keys(Loaded(wal)) = Items /\ \A x \in Loaded(wal) : x[3] = m
  BY LoadedShape DEF Inv, GraphTypeOK, LogIsSound, Loaded
<1> QED
  BY <1>1 DEF AllUnder

\* Nobody else writes with it, and nobody else waits for a report.
LEMMA WritesAlone ==
  ASSUME Inv, NEW p \in Procs, proc[p].pc \in Writing
  PROVE  /\ Alive(p) /\ IsMain(p)
         /\ \A q \in Procs \ {p} : ~Alive(q)
         /\ \A j \in Jobs : told[j] = "none" /\ proc[Main(j)].pc = "ok" => FALSE
<1>1. Alive(p)
  BY DEF Alive, Writing, Ended
<1>2. IsMain(p)
  BY DEF Inv, InOrder, Belongs, RunnerPcs, Writing, Before, Ended
<1>3. ASSUME NEW q \in Procs \ {p}, Alive(q)
      PROVE  FALSE
  <2>1. q[1] = p[1]
    BY <1>1, <1>3 DEF Inv, OneBuild
  <2> QED
    BY <1>2, <1>3, <2>1, NoRunners, ProcsShape DEF Writing, Ended
<1>4. ASSUME NEW j \in Jobs, told[j] = "none", proc[Main(j)].pc = "ok"
      PROVE  FALSE
  <2>1. j = p[1]
    BY <1>1, <1>4 DEF Inv, OneBuild, Started
  <2>2. Main(j) = p
    BY <1>2, <2>1, ProcsShape
  <2> QED
    BY <1>4, <2>2 DEF Writing
<1> QED
  BY <1>1, <1>2, <1>3, <1>4

\* A worker goes on to the next file.
LEMMA WritesOn ==
  ASSUME Inv, NEW p \in Procs, proc[p].pc \in Writing,
         NEW pc \in Writing, Goto(p, pc), UNCHANGED <<wal, cwal, opt, told>>,
         chunks' \in File, graph' \in File, FindsFiles(p)'
  PROVE  Inv'
<1>1. Alive(p) /\ IsMain(p) /\ InOrder(p) /\ \A q \in Procs \ {p} : ~Alive(q)
  BY WritesAlone DEF Inv
<1>2. /\ OnlyMoves(p) /\ proc'[p].pc = pc /\ proc'[p].manifest = proc[p].manifest
      /\ proc'[p].todo = proc[p].todo /\ proc'[p].busy = proc[p].busy
      /\ proc'[p].built = proc[p].built
  BY <1>1, GotoEffect DEF Pcs, Writing, Ended
<1>3. SameRecord /\ OwnManifest(p)
  BY LogUntouched
<1>4. proc[p].todo = {} /\ proc[p].busy = {}
  BY <1>1 DEF InOrder, Apart, Writing
<1>5. InOrder(p)'
  <2>1. Belongs(p)'
    BY <1>1, <1>2, BelongsKept DEF Writing
  <2>2. Sound(p)' /\ Built(p)' /\ Complete(p)'
    BY <1>1, <1>2 DEF InOrder, Sound, Built, Complete, Writing, Alive, Ended
  <2>3. Apart(p)' /\ Knows(p)' /\ Agrees(p)'
    BY <1>1, <1>2, <1>4 DEF InOrder, Apart, Knows, Agrees, Writing
  <2> QED
    BY <2>1, <2>2, <2>3 DEF InOrder
<1>6. WithRunners(p)
  BY <1>1, <1>2 DEF WithRunners, Writing, Before
<1>7. \A q \in Procs \ {p} : InOrder(q)'
  BY <1>2, <1>3, <1>6, OthersKept
<1>8. GraphTypeOK' /\ LogIsSound'
  BY <1>2 DEF Inv, GraphTypeOK, OnlyMoves, LogIsSound
<1>9. OneBuild'
  <2>1. \A q \in Procs : Alive(q)' => Alive(q) \/ q[1] = p[1]
    BY <1>2 DEF OnlyMoves, Alive
  <2>2. \A j \in Jobs : Started(j)' /\ told'[j] = "none" => Started(j) /\ told[j] = "none"
    BY <1>2, MainShape DEF OnlyMoves, Started, Alive
  <2> QED
    BY <1>1, <2>1, <2>2, OneBuildKept
<1>10. OutputsInOrder'
  <2>1. ASSUME NEW q \in Procs, q # p
        PROVE  FindsFiles(q)'
    BY <1>1, <1>2, <2>1 DEF FindsFiles, OnlyMoves, Alive, Ended
  <2>2. ASSUME NEW j \in Jobs
        PROVE  Reportable(j)'
    BY <1>2, MainShape, WritesAlone DEF Reportable, OnlyMoves, Writing
  <2> QED
    BY <2>1, <2>2 DEF OutputsInOrder
<1> QED
  BY <1>5, <1>7, <1>8, <1>9, <1>10 DEF Inv

LEMMA FileShapes ==
  ASSUME Inv, NEW p \in Procs
  PROVE  Truncated(p) \in File /\ Whole(p) \in File /\ Filled(p, Truncated(p)) = {Whole(p)}
<1>1. proc[p].built \in SUBSET Extraction
  BY DEF Inv, GraphTypeOK, Process
<1> QED
  BY <1>1 DEF Truncated, Whole, File, Filled

LEMMA OpenChunksKeeps ==
  ASSUME Inv, NEW p \in Procs, OpenChunks(p)
  PROVE  Inv'
<1>1. Alive(p) /\ proc[p].pc \in Writing /\ "write_chunks" \in Writing
  BY DEF OpenChunks, Alive, Ended, Writing
<1>2. OnlyMoves(p) /\ proc'[p].pc = "write_chunks"
  BY <1>1, GotoEffect DEF OpenChunks, Pcs, Ended, jobs
<1>3. FindsFiles(p)' /\ chunks' \in File /\ graph' \in File
  BY <1>2, FileShapes DEF OpenChunks, FindsFiles, Truncated, Inv, GraphTypeOK
<1> QED
  BY <1>1, <1>3, WritesOn DEF OpenChunks, jobs

LEMMA WriteChunksKeeps ==
  ASSUME Inv, NEW p \in Procs, WriteChunks(p)
  PROVE  Inv'
<1>1. Alive(p) /\ proc[p].pc \in Writing /\ "open_graph" \in Writing
  BY DEF WriteChunks, Alive, Ended, Writing
<1>2. OnlyMoves(p) /\ proc'[p].pc = "open_graph" /\ proc'[p].built = proc[p].built
  BY <1>1, GotoEffect DEF WriteChunks, Pcs, Ended, jobs, Writing
<1>3. chunks = Truncated(p)
  BY DEF WriteChunks, Inv, OutputsInOrder, FindsFiles
<1>4. chunks' = Whole(p)
  BY <1>3, FileShapes DEF WriteChunks
<1>5. FindsFiles(p)' /\ chunks' \in File /\ graph' \in File
  BY <1>2, <1>4, FileShapes DEF WriteChunks, FindsFiles, Whole, Inv, GraphTypeOK
<1> QED
  BY <1>1, <1>5, WritesOn DEF WriteChunks, jobs

LEMMA OpenGraphKeeps ==
  ASSUME Inv, NEW p \in Procs, OpenGraph(p)
  PROVE  Inv'
<1>1. Alive(p) /\ proc[p].pc \in Writing /\ "write_graph" \in Writing
  BY DEF OpenGraph, Alive, Ended, Writing
<1>2. OnlyMoves(p) /\ proc'[p].pc = "write_graph" /\ proc'[p].built = proc[p].built
  BY <1>1, GotoEffect DEF OpenGraph, Pcs, Ended, jobs, Writing
<1>3. chunks = Whole(p)
  BY DEF OpenGraph, Inv, OutputsInOrder, FindsFiles
<1>4. FindsFiles(p)' /\ chunks' \in File /\ graph' \in File
  BY <1>2, <1>3, FileShapes DEF OpenGraph, FindsFiles, Whole, Truncated, Inv, GraphTypeOK
<1> QED
  BY <1>1, <1>4, WritesOn DEF OpenGraph, jobs

\* The graph is written, and the worker ends.
LEMMA WriteGraphKeeps ==
  ASSUME Inv, NEW p \in Procs, WriteGraph(p)
  PROVE  Inv'
<1>1. /\ Alive(p) /\ IsMain(p) /\ InOrder(p) /\ \A q \in Procs \ {p} : ~Alive(q)
      /\ proc[p].pc = "write_graph" /\ p = Main(p[1]) /\ wal \in Log
      /\ UNCHANGED <<cwal, chunks, opt, told>>
  BY WritesAlone, ProcsShape DEF Inv, WriteGraph, Writing, jobs, GraphTypeOK, Process
<1>2. PICK pc \in {"ok", "failed"} : Goto(p, pc)
  BY DEF WriteGraph
<1>3. /\ OnlyMoves(p) /\ proc'[p].pc = pc /\ proc'[p].manifest = proc[p].manifest
      /\ proc'[p].todo = {} /\ proc'[p].busy = {}
  BY <1>1, <1>2, GotoEffect DEF Pcs, Ended
<1>4. /\ wal' \in Log /\ DoneIn(wal') = DoneIn(wal) /\ Loaded(wal') = Loaded(wal)
      /\ wal'.won = wal.won /\ wal'.torn = wal.torn
      /\ wal'.rows = IF wal.torn THEN wal.rows ELSE wal.rows \cup {proc[p].manifest}
  <2>1. By(p, 0) \in Extraction /\ By(p, 0)[3] = proc[p].manifest
    BY <1>1, FirstItem, ByShape DEF Inv, GraphTypeOK
  <2>2. wal' = Append(wal, "run", By(p, 0))
    BY DEF WriteGraph
  <2> QED
    BY <1>1, <2>1, <2>2, AppendRun
<1>5. SameRecord /\ OwnManifest(p)
  BY <1>1, <1>4 DEF SameRecord, OwnManifest, Writing
<1>6. InOrder(p)' /\ WithRunners(p) /\ FindsFiles(p)'
  BY <1>1, <1>3, <1>5, EndsInOrder DEF Ended
<1>7. \A q \in Procs \ {p} : InOrder(q)'
  BY <1>3, <1>5, <1>6, OthersKept
<1>8. graph' = Whole(p) /\ chunks = Whole(p)
  <2>1. graph = Truncated(p) /\ chunks = Whole(p)
    BY <1>1 DEF Inv, OutputsInOrder, FindsFiles
  <2> QED
    BY <2>1, FileShapes DEF WriteGraph
<1>9. GraphTypeOK' /\ LogIsSound'
  BY <1>1, <1>3, <1>4, <1>8, FileShapes DEF Inv, GraphTypeOK, OnlyMoves, LogIsSound
<1>10. OneBuild'
  <2>1. \A q \in Procs : Alive(q)' => Alive(q) \/ q[1] = p[1]
    BY <1>3 DEF OnlyMoves, Alive
  <2>2. \A j \in Jobs : Started(j)' /\ told'[j] = "none" => Started(j) /\ told[j] = "none"
    BY <1>3, MainShape DEF OnlyMoves, Started, Alive
  <2> QED
    BY <1>1, <2>1, <2>2, OneBuildKept
<1>11. AllUnder(proc[p].built, proc[p].manifest)
  BY <1>1, AllLoaded DEF InOrder, Built, Complete, Agrees, Writing
<1>12. ASSUME NEW j \in Jobs
       PROVE  Reportable(j)'
  <2>1. CASE j = p[1]
    BY <1>1, <1>3, <1>8, <1>11, <2>1 DEF Reportable, Current, Whole
  <2>2. CASE j # p[1]
    <3>1. Main(j) # p /\ proc'[Main(j)] = proc[Main(j)]
      BY <1>3, <2>2, MainShape DEF OnlyMoves
    <3> QED
      BY <1>1, <3>1, WritesAlone DEF Reportable, Writing
  <2> QED
    BY <2>1, <2>2
<1>13. ASSUME NEW q \in Procs, q # p
       PROVE  FindsFiles(q)'
  BY <1>1, <1>3, <1>13 DEF FindsFiles, OnlyMoves, Alive, Ended
<1> QED
  BY <1>6, <1>7, <1>9, <1>10, <1>12, <1>13 DEF Inv, OutputsInOrder

-----------------------------------------------------------------------------
(* Jobs.                                                                   *)

LEMMA StartKeeps ==
  ASSUME Inv, NEW j \in Jobs, Start(j)
  PROVE  Inv'
<1> DEFINE m == Main(j)
           s == [proc[m] EXCEPT !.pc = "load"]
<1>1. /\ m \in Procs /\ m[1] = j /\ IsMain(m)
      /\ proc \in [Procs -> Process] /\ proc[m] \in Process /\ proc[m].pc = "off"
      /\ UNCHANGED <<wal, cwal, chunks, graph, told>>
      /\ \A q \in Procs : ~Alive(q)
      /\ \A i \in Jobs : Started(i) => told[i] # "none"
  BY MainShape DEF Inv, GraphTypeOK, Start, files
<1> HIDE DEF m
<1>2. /\ proc' = [proc EXCEPT ![m] = s]
      /\ s \in Process /\ s.pc = "load"
      /\ s.todo = proc[m].todo /\ s.busy = proc[m].busy
  BY <1>1 DEF Start, Process, Pcs, Before, m
<1> HIDE DEF s
<1>3. /\ proc'[m] = s /\ proc' \in [Procs -> Process]
      /\ \A q \in Procs \ {m} : proc'[q] = proc[q]
  BY <1>1, <1>2
<1>4. opt' \in [Jobs -> Option] /\ \A i \in Jobs \ {j} : opt'[i] = opt[i]
  BY GraphWalAssumption DEF Inv, GraphTypeOK, Start
<1>5. GraphTypeOK' /\ LogIsSound'
  BY <1>1, <1>3, <1>4 DEF Inv, GraphTypeOK, LogIsSound
<1>6. OneBuild'
  <2>1. \A q \in Procs : Alive(q)' => q = m
    BY <1>1, <1>3 DEF Alive
  <2>2. \A i \in Jobs : Started(i)' /\ told'[i] = "none" => i = j
    <3>1. ASSUME NEW i \in Jobs, Started(i)', told'[i] = "none", i # j
          PROVE  FALSE
      <4>1. Main(i) \in Procs /\ Main(i) # m
        BY <1>1, <3>1, MainShape
      <4> QED
        BY <1>1, <1>3, <3>1, <4>1 DEF Started
    <3> QED
      BY <3>1
  <2> QED
    BY <1>1, <2>1, <2>2 DEF OneBuild
<1>7. ASSUME NEW q \in Procs
      PROVE  InOrder(q)' /\ FindsFiles(q)'
  <2>1. /\ InOrder(q) /\ FindsFiles(q) /\ proc[q].pc \in {"off"} \cup Ended
        /\ wal' = wal
    BY <1>1 DEF Inv, OutputsInOrder, Alive
  <2>2. proc[q].todo = {} /\ proc[q].busy = {}
    BY <2>1 DEF InOrder, Apart, Ended
  <2>3. CASE q = m
    <3>1. proc'[q] = s /\ s.todo = {} /\ s.busy = {}
      BY <1>2, <1>3, <2>2, <2>3
    <3>2. Belongs(q)' /\ Sound(q)' /\ Apart(q)' /\ Knows(q)' /\ Complete(q)' /\ Built(q)'
      BY <1>1, <1>2, <2>3, <3>1 DEF Belongs, Sound, Apart, Knows, Complete, Built, Writing
    <3>3. Agrees(q)' /\ FindsFiles(q)'
      BY <1>1, <1>2, <2>3, <3>1 DEF Agrees, FindsFiles
    <3> QED
      BY <3>2, <3>3 DEF InOrder
  <2>4. CASE q # m
    <3>1. proc'[q] = proc[q]
      BY <1>3, <2>4
    <3>2. ~IsMain(q) /\ proc[q].pc # "off" =>
            /\ q[1] # j /\ Main(q[1]) \in Procs \ {m} /\ Of(q)' = Of(q)
            /\ ~Alive(Main(q[1]))' /\ opt'[q[1]] = opt[q[1]]
      <4>1. SUFFICES ASSUME ~IsMain(q), proc[q].pc # "off"
                     PROVE  /\ q[1] # j /\ Main(q[1]) \in Procs \ {m} /\ Of(q)' = Of(q)
                            /\ ~Alive(Main(q[1]))' /\ opt'[q[1]] = opt[q[1]]
        OBVIOUS
      <4>2. Of(q).pc # "off"
        BY <2>1, <4>1 DEF InOrder, Belongs
      <4>3. q[1] # j /\ q[1] \in Jobs
        BY <1>1, <4>2, ProcsShape DEF Of, m
      <4>4. Main(q[1]) \in Procs \ {m}
        BY <1>1, <4>1, <4>3, ProcsShape, MainShape
      <4>5. proc'[Main(q[1])] = proc[Main(q[1])]
        BY <1>3, <4>4
      <4> QED
        BY <1>1, <1>4, <4>3, <4>4, <4>5 DEF Of, Alive
    <3>3. Belongs(q)'
      <4>1. CASE proc[q].pc = "off"
        BY <3>1, <4>1 DEF Belongs, RunnerPcs, Alive
      <4>2. CASE proc[q].pc # "off" /\ IsMain(q)
        BY <2>1, <3>1, <4>2 DEF Belongs, Ended
      <4>3. CASE proc[q].pc # "off" /\ ~IsMain(q)
        <5>1. q[1] \in Jobs /\ Main(q[1])[1] = q[1]
          BY ProcsShape, MainShape
        <5>2. Spawns(Main(q[1]))'
          BY <2>1, <3>2, <4>3, <5>1 DEF InOrder, Belongs, Spawns
        <5> QED
          BY <2>1, <3>1, <3>2, <4>3, <5>2 DEF InOrder, Belongs, Alive, Ended, RunnerPcs
      <4> QED
        BY <4>1, <4>2, <4>3
    <3>4. Sound(q)' /\ Apart(q)' /\ Knows(q)' /\ Built(q)' /\ FindsFiles(q)'
      BY <2>1, <2>2, <3>1 DEF Sound, Apart, Knows, Built, FindsFiles, Ended, Writing, Alive
    <3>5. Complete(q)' /\ Agrees(q)'
      BY <2>1, <3>1, <3>2 DEF Complete, Agrees, Ended, Writing, Alive
    <3> QED
      BY <3>3, <3>4, <3>5 DEF InOrder
  <2> QED
    BY <2>3, <2>4
<1>8. ASSUME NEW i \in Jobs
      PROVE  Reportable(i)'
  <2>1. CASE i = j
    BY <1>2, <1>3, <2>1 DEF Reportable, m
  <2>2. CASE i # j
    <3>1. Main(i) \in Procs /\ Main(i) # m
      BY <1>1, <2>2, MainShape
    <3>2. proc'[Main(i)] = proc[Main(i)] /\ opt'[i] = opt[i]
      BY <1>3, <1>4, <2>2, <3>1
    <3> QED
      BY <1>1, <3>2 DEF Inv, OutputsInOrder, Reportable, Current, MaySkip
  <2> QED
    BY <2>1, <2>2
<1> QED
  BY <1>5, <1>6, <1>7, <1>8 DEF Inv, OutputsInOrder

LEMMA KillKeeps ==
  ASSUME Inv, NEW j \in Jobs, Kill(j)
  PROVE  Inv'
<1> DEFINE m == Main(j)
<1>1. /\ m \in Procs /\ m[1] = j /\ IsMain(m) /\ Alive(m)
      /\ proc \in [Procs -> Process] /\ proc[m] \in Process
      /\ Goto(m, "killed") /\ told' = [told EXCEPT ![j] = "canceled"]
      /\ UNCHANGED <<cwal, chunks, graph, opt>>
      /\ wal \in Log /\ told \in [Jobs -> {"none", "succeeded", "failed", "canceled"}]
  BY MainShape DEF Inv, GraphTypeOK, Kill, files
<1>2. PICK torn \in BOOLEAN : wal' = [wal EXCEPT !.torn = @ \/ torn]
  BY DEF Kill
<1> HIDE DEF m
<1>3. /\ wal' \in Log /\ DoneIn(wal') = DoneIn(wal) /\ Loaded(wal') = Loaded(wal)
      /\ wal'.won = wal.won /\ wal'.rows = wal.rows /\ (wal.torn => wal'.torn)
  BY <1>1, <1>2 DEF Log, DoneIn, Loaded
<1>4. /\ At(proc[m], "killed") \in Process
      /\ At(proc[m], "killed").pc = "killed" /\ At(proc[m], "killed").manifest = proc[m].manifest
      /\ At(proc[m], "killed").todo = {} /\ At(proc[m], "killed").busy = {}
  BY <1>1, AtEffect DEF Pcs, Ended
<1>5. /\ proc' \in [Procs -> Process] /\ proc'[m].pc = "killed"
      /\ proc'[m].todo = {} /\ proc'[m].busy = {}
      /\ \A q \in Procs \ {m} : proc'[q] = proc[q]
  BY <1>1, <1>4 DEF Goto
<1>6. GraphTypeOK' /\ LogIsSound'
  BY <1>1, <1>3, <1>5 DEF Inv, GraphTypeOK, LogIsSound
<1>7. /\ \A i \in Jobs : told'[i] = IF i = j THEN "canceled" ELSE told[i]
      /\ \A q \in Procs : Alive(q)' => Alive(q) /\ q # m
  BY <1>1, <1>5 DEF Alive, Ended
<1>8. OneBuild'
  <2>1. \A i \in Jobs : Started(i)' /\ told'[i] = "none" => Started(i) /\ told[i] = "none"
    BY <1>5, <1>7, MainShape DEF Started, m
  <2> QED
    BY <1>1, <1>7, <2>1, OneBuildKept
<1>9. ASSUME NEW q \in Procs
      PROVE  InOrder(q)' /\ FindsFiles(q)'
  <2>1. InOrder(q) /\ FindsFiles(q) /\ opt' = opt
    BY <1>1 DEF Inv, OutputsInOrder
  <2>2. CASE q = m
    <3>1. Belongs(q)' /\ Sound(q)' /\ Apart(q)' /\ Knows(q)' /\ Complete(q)' /\ Built(q)'
      BY <1>1, <1>5, <2>2 DEF Belongs, Sound, Apart, Knows, Complete, Built, Writing, Alive,
         Ended
    <3>2. Agrees(q)' /\ FindsFiles(q)'
      BY <1>1, <1>5, <2>2 DEF Agrees, FindsFiles, Alive, Ended
    <3> QED
      BY <3>1, <3>2 DEF InOrder
  <2>3. CASE q # m
    <3>1. proc'[q] = proc[q] /\ (Alive(q) /\ IsMain(q) => FALSE)
      <4>1. Alive(q) => q[1] = m[1]
        BY <1>1 DEF Inv, OneBuild
      <4> QED
        BY <1>1, <1>5, <2>3, <4>1, ProcsShape
    <3>2. ~IsMain(q) => /\ Of(q)'.pc = "killed" \/ Of(q)' = Of(q)
                        /\ Alive(Main(q[1]))' => /\ Alive(Main(q[1]))
                                                 /\ Of(q)' = Of(q)
      <4>1. Main(q[1]) \in Procs
        BY ProcsShape
      <4>2. CASE Main(q[1]) = m
        BY <1>5, <4>2 DEF Of, Alive, Ended
      <4>3. CASE Main(q[1]) # m
        BY <1>5, <4>1, <4>3 DEF Of, Alive
      <4> QED
        BY <4>2, <4>3
    <3>3. Belongs(q)'
      <4>1. CASE IsMain(q)
        BY <2>1, <3>1, <4>1 DEF InOrder, Belongs, Compacts, Spawns
      <4>2. CASE ~IsMain(q)
        BY <2>1, <3>1, <3>2, <4>2 DEF InOrder, Belongs, Compacts, Spawns, Alive, Ended, Before
      <4> QED
        BY <4>1, <4>2
    <3>4. Sound(q)' /\ Built(q)' /\ FindsFiles(q)'
      BY <1>1, <2>1, <3>1 DEF Sound, Built, FindsFiles, Alive, Ended, Writing, Whole, Truncated
    <3>5. Apart(q)' /\ Knows(q)'
      BY <1>3, <2>1, <3>1 DEF InOrder, Apart, Knows, Own, Spawns
    <3>6. Complete(q)'
      BY <1>3, <2>1, <3>1, <3>2 DEF InOrder, Complete, Own
    <3>7. Agrees(q)'
      BY <1>3, <2>1, <3>1, <3>2 DEF InOrder, Agrees, Alive, Ended
    <3> QED
      BY <3>3, <3>4, <3>5, <3>6, <3>7 DEF InOrder
  <2> QED
    BY <2>2, <2>3
<1>10. ASSUME NEW i \in Jobs
       PROVE  Reportable(i)'
  <2>1. CASE i = j
    BY <1>7, <2>1 DEF Reportable
  <2>2. CASE i # j
    <3>1. Main(i) \in Procs /\ Main(i) # m
      BY <1>1, <2>2, MainShape
    <3> QED
      BY <1>1, <1>5, <1>7, <2>2, <3>1 DEF Inv, OutputsInOrder, Reportable, Current, MaySkip
  <2> QED
    BY <2>1, <2>2
<1> QED
  BY <1>6, <1>8, <1>9, <1>10 DEF Inv, OutputsInOrder

\* Nobody looks at who reads a worker's output, and a report is only of a job.
LEMMA HearsayKeeps ==
  ASSUME Inv, UNCHANGED <<wal, cwal, chunks, graph, opt>>,
         proc' \in [Procs -> Process],
         \A q \in Procs : /\ proc'[q].pc = proc[q].pc /\ proc'[q].manifest = proc[q].manifest
                          /\ proc'[q].loaded = proc[q].loaded
                          /\ proc'[q].built = proc[q].built /\ proc'[q].todo = proc[q].todo
                          /\ proc'[q].busy = proc[q].busy /\ proc'[q].failed = proc[q].failed,
         told' \in [Jobs -> {"none", "succeeded", "failed", "canceled"}],
         \A i \in Jobs : told'[i] = "none" => told[i] = "none"
  PROVE  Inv'
<1>1. GraphTypeOK' /\ LogIsSound'
  BY DEF Inv, GraphTypeOK, LogIsSound
<1>2. OneBuild'
  BY MainShape DEF Inv, OneBuild, Alive, Started
<1>3. ASSUME NEW q \in Procs
      PROVE  InOrder(q)' /\ FindsFiles(q)'
  <2>1. Main(q[1]) \in Procs /\ InOrder(q) /\ FindsFiles(q)
    BY ProcsShape DEF Inv, OutputsInOrder
  <2>2. Belongs(q)' /\ Sound(q)' /\ Apart(q)' /\ Knows(q)'
    BY <2>1 DEF InOrder, Belongs, Sound, Apart, Knows, Of, Alive, Spawns, Compacts
  <2>3. Complete(q)' /\ Agrees(q)' /\ Built(q)'
    BY <2>1 DEF InOrder, Complete, Agrees, Built, Of, Alive, Resumes
  <2>4. FindsFiles(q)'
    BY <2>1 DEF FindsFiles, Whole, Truncated
  <2> QED
    BY <2>2, <2>3, <2>4 DEF InOrder
<1>4. ASSUME NEW i \in Jobs
      PROVE  Reportable(i)'
  BY MainShape DEF Inv, OutputsInOrder, Reportable, Current, MaySkip
<1> QED
  BY <1>1, <1>2, <1>3, <1>4 DEF Inv, OutputsInOrder

LEMMA AbandonKeeps ==
  ASSUME Inv, NEW j \in Jobs, Abandon(j)
  PROVE  Inv'
<1> DEFINE s == [proc[Main(j)] EXCEPT !.deaf = TRUE]
<1>1. /\ Main(j) \in Procs /\ proc \in [Procs -> Process] /\ proc[Main(j)] \in Process
      /\ told \in [Jobs -> {"none", "succeeded", "failed", "canceled"}]
  BY MainShape DEF Inv, GraphTypeOK
<1>2. proc' = [proc EXCEPT ![Main(j)] = s]
  BY <1>1 DEF Abandon, Process
<1>3. /\ s \in Process /\ s.pc = proc[Main(j)].pc /\ s.manifest = proc[Main(j)].manifest
      /\ s.loaded = proc[Main(j)].loaded /\ s.built = proc[Main(j)].built
      /\ s.todo = proc[Main(j)].todo /\ s.busy = proc[Main(j)].busy
      /\ s.failed = proc[Main(j)].failed
  BY <1>1 DEF Process
<1> HIDE DEF s
<1>4. /\ proc' \in [Procs -> Process]
      /\ \A q \in Procs : proc'[q] = IF q = Main(j) THEN s ELSE proc[q]
  BY <1>1, <1>2, <1>3
<1>5. /\ told' \in [Jobs -> {"none", "succeeded", "failed", "canceled"}]
      /\ \A i \in Jobs : told'[i] = "none" => told[i] = "none"
      /\ UNCHANGED <<wal, cwal, chunks, graph, opt>>
  BY <1>1 DEF Abandon, files
<1> QED
  BY <1>3, <1>4, <1>5, HearsayKeeps

LEMMA ReportKeeps ==
  ASSUME Inv, NEW j \in Jobs, Report(j)
  PROVE  Inv'
<1>1. /\ proc' \in [Procs -> Process] /\ proc' = proc
      /\ told' \in [Jobs -> {"none", "succeeded", "failed", "canceled"}]
      /\ \A i \in Jobs : told'[i] = "none" => told[i] = "none"
      /\ UNCHANGED <<wal, cwal, chunks, graph, opt>>
  BY DEF Report, files, Inv, GraphTypeOK
<1> QED
  BY <1>1, HearsayKeeps

LEMMA StutterKeeps ==
  ASSUME Inv, UNCHANGED vars
  PROVE  Inv'
<1>1. /\ proc' \in [Procs -> Process] /\ proc' = proc
      /\ told' \in [Jobs -> {"none", "succeeded", "failed", "canceled"}] /\ told' = told
      /\ UNCHANGED <<wal, cwal, chunks, graph, opt>>
  BY DEF vars, Inv, GraphTypeOK
<1> QED
  BY <1>1, HearsayKeeps

-----------------------------------------------------------------------------
(* The invariant.                                                          *)

LEMMA InitInv == Init => Inv
<1> SUFFICES ASSUME Init PROVE Inv
  OBVIOUS
<1>1. /\ \A q \in Procs : proc[q] = Off
      /\ Off \in Process /\ Off.pc = "off" /\ Off.todo = {} /\ Off.busy = {}
  BY OffType DEF Init, Off
<1>2. GraphTypeOK
  <2>1. (CHOOSE o \in Option : TRUE) \in Option
    <3>1. [resume |-> TRUE, compact |-> TRUE, communities |-> TRUE] \in Option
      BY DEF Option
    <3> QED
      BY <3>1
  <2> QED
    BY <1>1, <2>1, NoLogShape DEF Init, GraphTypeOK, File, NoFile
<1>3. OneBuild /\ LogIsSound
  BY <1>1, MainShape, NoLogShape DEF Init, OneBuild, Alive, Started, LogIsSound, NoLog
<1>4. ASSUME NEW q \in Procs
      PROVE  InOrder(q) /\ FindsFiles(q)
  <2>1. proc[q].pc = "off" /\ proc[q].todo = {} /\ proc[q].busy = {}
    BY <1>1
  <2>2. Belongs(q) /\ Sound(q) /\ Apart(q) /\ Knows(q)
    BY <2>1 DEF Belongs, Sound, Apart, Knows, Alive, RunnerPcs
  <2>3. Complete(q) /\ Agrees(q) /\ Built(q) /\ FindsFiles(q)
    BY <2>1 DEF Complete, Agrees, Built, FindsFiles, Writing, Alive
  <2> QED
    BY <2>2, <2>3 DEF InOrder
<1>5. ASSUME NEW i \in Jobs
      PROVE  Reportable(i)
  BY <1>1, MainShape DEF Reportable
<1> QED
  BY <1>2, <1>3, <1>4, <1>5 DEF Inv, OutputsInOrder

LEMMA StepInv ==
  ASSUME Inv, NEW p \in Procs, Step(p)
  PROVE  Inv'
<1>1. CASE Load(p)
  BY <1>1, LoadResuming, LoadFresh
<1>2. CASE Hash(p) \/ Validate(p) \/ Announce(p) \/ Decide(p) \/ Spawn(p)
  BY <1>2, HashKeeps, ValidateKeeps, AnnounceKeeps, DecideKeeps, SpawnKeeps
<1>3. CASE StartChunk(p) \/ ChunkSucceeded(p) \/ ChunkFailed(p)
  BY <1>3, StartChunkKeeps, ChunkSucceededKeeps, ChunkFailedKeeps
<1>4. CASE Extracted(p) \/ Drained(p) \/ Await(p) \/ Compact(p)
  BY <1>4, ExtractedKeeps, DrainedKeeps, AwaitKeeps, CompactKeeps
<1>5. CASE OpenChunks(p) \/ WriteChunks(p) \/ OpenGraph(p) \/ WriteGraph(p)
  BY <1>5, OpenChunksKeeps, WriteChunksKeeps, OpenGraphKeeps, WriteGraphKeeps
<1> QED
  BY <1>1, <1>2, <1>3, <1>4, <1>5 DEF Step

LEMMA NextInv == Inv /\ [Next]_vars => Inv'
<1> SUFFICES ASSUME Inv, [Next]_vars PROVE Inv'
  OBVIOUS
<1>1. CASE \E j \in Jobs : Start(j) \/ Kill(j) \/ Abandon(j) \/ Report(j)
  BY <1>1, StartKeeps, KillKeeps, AbandonKeeps, ReportKeeps
<1>2. CASE \E p \in Procs : Step(p)
  BY <1>2, StepInv
<1>3. CASE UNCHANGED vars
  BY <1>3, StutterKeeps
<1> QED
  BY <1>1, <1>2, <1>3 DEF Next

\* Every reachable state of the builds is in order: of one build at a time,
\* with what each process remembers in agreement with the log.
THEOREM InvHolds == Spec => []Inv
<1>1. Init => Inv
  BY InitInv
<1>2. Inv /\ [Next]_vars => Inv'
  BY NextInv
<1> QED
  BY <1>1, <1>2, PTL DEF Spec

-----------------------------------------------------------------------------
(* What follows from it.                                                   *)

\* No chunk is with two processes at once (NoChunkTwice), although runners
\* divide the chunks without talking to each other: busy chunks are of a
\* process's own share, and shares are apart.
THEOREM NoChunkTwiceHolds == Spec => []NoChunkTwice
<1>1. Inv => NoChunkTwice
  <2>1. ASSUME Inv, NEW p \in Procs, NEW q \in Procs, p # q,
               proc[p].pc = "extract", proc[q].pc = "extract"
        PROVE  proc[p].busy \cap proc[q].busy = {}
    <3>1. Alive(q) /\ Own(p) \cap Own(q) = {}
      BY <2>1, Companions DEF Alive, Ended
    <3>2. proc[p].busy \subseteq Own(p) /\ proc[q].busy \subseteq Own(q)
      BY <2>1 DEF Inv, InOrder, Apart
    <3> QED
      BY <3>1, <3>2
  <2> QED
    BY <2>1 DEF NoChunkTwice
<1> QED
  BY <1>1, InvHolds, PTL

\* When all runners have exited 0 the log holds every chunk, of the worker's
\* own manifest (RunnersCover): a runner that exits 0 has its share on record,
\* the shares cover the corpus, and the log admits one manifest only.
THEOREM RunnersCoverHolds == Spec => []RunnersCover
<1>1. Inv => RunnersCover
  <2>1. ASSUME Inv, NEW j \in Jobs, proc[Main(j)].pc = "await", Children(j) # {},
               \A q \in Children(j) : proc[q].pc = "ok"
        PROVE  AllUnder(Loaded(wal), proc[Main(j)].manifest)
    <3>1. Main(j) \in Procs /\ Main(j)[1] = j /\ IsMain(Main(j)) /\ Alive(Main(j))
      BY <2>1, MainShape DEF Alive, Ended
    <3>2. wal.rows \subseteq {proc[Main(j)].manifest}
      BY <2>1, <3>1 DEF Inv, InOrder, Agrees
    <3>3. ASSUME NEW k \in Items
          PROVE  k \in DoneIn(wal)
      <4>1. PICK q \in Children(j) : k \in Own(q)
        BY <2>1, SharesCover
      <4>2. q \in Procs /\ q[1] = j /\ ~IsMain(q)
        BY ChildrenShape
      <4> QED
        BY <2>1, <3>1, <4>1, <4>2 DEF Inv, InOrder, Complete
    <3>4. DoneIn(wal) = Items
      BY <3>3 DEF DoneIn
    <3> QED
      BY <2>1, <3>2, <3>4, AllLoaded
  <2> QED
    BY <2>1 DEF RunnersCover
<1> QED
  BY <1>1, InvHolds, PTL

\* A build that is reported as succeeded has left complete outputs under its
\* own manifest (BuildIsOfOneManifest): a report is of a worker that exited 0, and nobody
\* writes the outputs between that exit and the report.
THEOREM BuildIsOfOneManifestHolds == Spec => BuildIsOfOneManifest
<1> DEFINE Fresh == \A j \in Jobs :
                      told[j] = "none" /\ told'[j] = "succeeded" /\ ~MaySkip(j) => Current(j)
<1>1. Inv /\ [Next]_vars => [Fresh]_vars
  <2>1. SUFFICES ASSUME Inv, Next, NEW j \in Jobs, told[j] = "none",
                        told'[j] = "succeeded", ~MaySkip(j)
                 PROVE  Current(j)
    OBVIOUS
  <2>2. told \in [Jobs -> {"none", "succeeded", "failed", "canceled"}]
    BY <2>1 DEF Inv, GraphTypeOK
  <2>3. CASE \E i \in Jobs : Start(i) \/ Kill(i) \/ Abandon(i)
    BY ZenonT(40), <2>1, <2>2, <2>3 DEF Start, Kill, Abandon
  <2>4. CASE \E p \in Procs : Step(p)
    BY ZenonT(40), <2>1, <2>4 DEF Step, Load, Hash, Validate, Announce, Decide, Spawn, StartChunk,
       ChunkSucceeded, ChunkFailed, Extracted, Drained, Await, Compact, OpenChunks,
       WriteChunks, OpenGraph, WriteGraph, jobs
  <2>5. CASE \E i \in Jobs : Report(i)
    <3>1. PICK i \in Jobs : Report(i)
      BY <2>5
    <3>2. i = j /\ proc[Main(j)].pc = "ok"
      BY <2>1, <2>2, <3>1 DEF Report
    <3> QED
      BY <2>1, <3>2 DEF Inv, OutputsInOrder, Reportable
  <2> QED
    BY <2>1, <2>3, <2>4, <2>5 DEF Next
<1> QED
  BY <1>1, InvHolds, PTL DEF Spec, BuildIsOfOneManifest, Fresh

\* What a step makes of the record of extractions and of the graph.
LEMMA StepMaps ==
  ASSUME Inv, NEW p \in Procs, Step(p)
  PROVE  Abstract!BuildNext \/ UNCHANGED <<DoneIn(wal), graph.state>>
<1> DEFINE Same == UNCHANGED <<DoneIn(wal), graph.state>>
<1>1. InOrder(p) /\ proc[p] \in Process /\ wal \in Log
  BY DEF Inv, GraphTypeOK, Process
<1>2. CASE Load(p) /\ Resumes(p)
  BY <1>2 DEF Load, files
<1>3. CASE Load(p) /\ ~Resumes(p)
  BY <1>3, NoLogShape DEF Load, files, Abstract!BuildNext, Abstract!StartOver
<1>4. CASE Hash(p) \/ Validate(p) \/ Spawn(p) \/ Extracted(p) \/ Drained(p) \/ Await(p)
  BY <1>4 DEF Hash, Validate, Spawn, Extracted, Drained, Await, files
<1>5. CASE Decide(p) \/ Compact(p) \/ OpenChunks(p) \/ WriteChunks(p)
  BY <1>5 DEF Decide, Compact, OpenChunks, WriteChunks
<1>6. CASE Announce(p)
  BY <1>1, <1>6, FirstItem, ByShape, AppendRun DEF Announce, files
<1>7. CASE StartChunk(p) \/ ChunkFailed(p)
  <2>1. PICK k \in proc[p].todo \cup proc[p].busy, event \in {"started", "failed"} :
          wal' = Append(wal, event, By(p, k))
    BY <1>7 DEF StartChunk, ChunkFailed
  <2>2. k \in Items \ DoneIn(wal)
    BY <1>1, OwnShape DEF InOrder, Apart
  <2>3. DoneIn(wal') = DoneIn(wal)
    BY <1>1, <2>1, <2>2, ByShape, AppendOther
  <2>4. graph' = graph
    BY <1>7 DEF StartChunk, ChunkFailed, files
  <2> QED
    BY <2>3, <2>4
<1>8. CASE ChunkSucceeded(p)
  <2>1. PICK k \in proc[p].busy : wal' = Append(wal, "succeeded", By(p, k))
    BY <1>8 DEF ChunkSucceeded
  <2>2. k \in Items \ DoneIn(wal)
    BY <1>1, OwnShape DEF InOrder, Apart
  <2>3. graph' = graph
    BY <1>8 DEF ChunkSucceeded, files
  <2>4. CASE wal.torn
    BY <2>1, <2>3, <2>4 DEF Append
  <2>5. CASE ~wal.torn
    BY <1>1, <2>1, <2>2, <2>3, <2>5, ByShape, AppendSucceeded DEF Abstract!BuildNext, Abstract!Extract
  <2> QED
    BY <2>4, <2>5
<1>9. CASE OpenGraph(p)
  <2>1. DoneIn(wal) = Items
    BY <1>1, <1>9 DEF OpenGraph, InOrder, Complete, Writing
  <2> QED
    BY <1>9, <2>1 DEF OpenGraph, Truncated, Abstract!BuildNext, Abstract!Publish
<1>10. CASE WriteGraph(p)
  <2>1. DoneIn(wal) = Items
    BY <1>1, <1>10 DEF WriteGraph, InOrder, Complete, Writing
  <2>2. DoneIn(wal') = DoneIn(wal)
    BY <1>1, <1>10, FirstItem, ByShape, AppendRun DEF WriteGraph
  <2>3. graph = Truncated(p)
    BY <1>10 DEF WriteGraph, Inv, OutputsInOrder, FindsFiles
  <2>4. graph' = Whole(p)
    BY <1>10, <2>3, FileShapes DEF WriteGraph
  <2> QED
    BY <2>1, <2>2, <2>4 DEF Whole, Abstract!BuildNext, Abstract!Publish
<1> QED
  BY <1>2, <1>3, <1>4, <1>5, <1>6, <1>7, <1>8, <1>9, <1>10 DEF Step

\* The builds implement the resumable build (ImplementsResumableBuild): over
\* kills, failures and abandoned workers the record of extractions only grows,
\* each chunk is extracted once, and the graph waits for all of them.
THEOREM ImplementsResumableBuildHolds == Spec => ImplementsResumableBuild
<1>1. Init => Abstract!BuildInit
  BY NoLogShape DEF Init, NoFile, Abstract!BuildInit
<1>2. Inv /\ [Next]_vars => [Abstract!BuildNext]_<<DoneIn(wal), graph.state>>
  <2>1. SUFFICES ASSUME Inv, [Next]_vars
                 PROVE  Abstract!BuildNext \/ UNCHANGED <<DoneIn(wal), graph.state>>
    OBVIOUS
  <2>2. CASE \E j \in Jobs : Kill(j)
    <3>1. PICK torn \in BOOLEAN : wal' = [wal EXCEPT !.torn = @ \/ torn]
      BY <2>2 DEF Kill
    <3>2. DoneIn(wal') = DoneIn(wal)
      BY <2>1, <3>1 DEF Inv, GraphTypeOK, Log, DoneIn
    <3> QED
      BY <2>2, <3>2 DEF Kill, files
  <2>3. CASE \E j \in Jobs : Start(j) \/ Abandon(j) \/ Report(j)
    BY <2>3 DEF Start, Abandon, Report, files
  <2>4. CASE \E p \in Procs : Step(p)
    BY <2>1, <2>4, StepMaps
  <2>5. CASE UNCHANGED vars
    BY <2>5 DEF vars
  <2> QED
    BY <2>1, <2>2, <2>3, <2>4, <2>5 DEF Next
<1> QED
  BY <1>1, <1>2, InvHolds, PTL DEF Spec, ImplementsResumableBuild, Abstract!BuildSpec
===============================================================================
