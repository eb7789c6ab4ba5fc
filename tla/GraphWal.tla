------------------------------- MODULE GraphWal -------------------------------
(***************************************************************************)
(* The builds of one dataset's graph: build_graph jobs, the Python worker  *)
(* each of them starts (scripts/build_graph_worker.py), the runner         *)
(* processes a worker may start in turn, and the files they share: the     *)
(* write-ahead log of extractions, the compaction log, chunks and graph.   *)
(*                                                                         *)
(* A worker loads the log, extracts the chunks the log has no success for, *)
(* and writes the outputs when all are extracted.  With --runner-count the *)
(* extraction is done by that many runners, each with its share of the     *)
(* chunks; they append to the same log, and the worker reads it again when *)
(* they have ended.  Canceling a job kills its worker but not the runners. *)
(*                                                                         *)
(* Abstractions.  Of the log is kept what a reader makes of it: the last   *)
(* event of each chunk, its last success, the manifests it holds and       *)
(* whether a row is torn.  Of the inputs of a build the schema is modelled,*)
(* which chunk keys do not tell apart.  A process reads it when it starts  *)
(* and hashes the file for its manifest later; another may be put at any   *)
(* time, so each finds any of them.  A corpus that changes has other       *)
(* chunks: it is left out.  Attempts of one LLM call and the rate limit    *)
(* are inside an extraction.  Chunks are extracted by any number of        *)
(* threads.  Logs of the old format, without manifests, are left out.      *)
(***************************************************************************)
EXTENDS Naturals, FiniteSets

CONSTANTS
  NumChunks,   \* chunks of the corpus
  Schemas,     \* what the schema file may hold
  NoSchema,    \* a schema that was not read yet
  Jobs,        \* build_graph jobs, each started once
  Requested,   \* the options jobs may have
  Runners      \* --runner-count

Items == 0 .. NumChunks - 1       \* chunk_ordinal

Option == [resume : BOOLEAN, compact : BOOLEAN, communities : BOOLEAN]

ASSUME GraphWalAssumption ==
  /\ NumChunks \in Nat \ {0}
  /\ Runners \in Nat \ {0}
  /\ Requested \subseteq Option
  /\ \A o \in Requested : o.compact => o.resume

\* Process 0 of a job is its worker, the others are its runners.
Main(j)     == <<j, 0>>
Children(j) == IF Runners = 1 THEN {} ELSE {j} \X (1 .. Runners)
Procs       == (Jobs \X {0}) \cup UNION {Children(j) : j \in Jobs}
IsMain(p)   == p[2] = 0

VARIABLES
  wal,      \* the write-ahead log
  cwal,     \* the last terminal event of the compaction log
  chunks,   \* the chunks file
  graph,    \* the graph file
  opt,      \* what a job asked for
  told,     \* what the job was reported as
  proc      \* the processes

vars == <<wal, cwal, chunks, graph, opt, told, proc>>

\* A success on record: the chunk, the schema it was extracted with, and the
\* one its manifest names.
Read == Schemas \cup {NoSchema}
Extraction == Items \X Read \X Read

NoLog == [last |-> [k \in Items |-> "none"], won |-> {}, rows |-> {}, torn |-> FALSE]

NoFile == [state |-> "none", of |-> {}, writer |-> <<>>]

Off == [pc |-> "off", deaf |-> FALSE, schema |-> NoSchema, manifest |-> NoSchema,
        loaded |-> {}, built |-> {}, todo |-> {}, busy |-> {}, failed |-> FALSE]

Init ==
  /\ wal = NoLog
  /\ cwal = "none"
  /\ chunks = NoFile
  /\ graph = NoFile
  /\ opt = [j \in Jobs |-> CHOOSE o \in Option : TRUE]
  /\ told = [j \in Jobs |-> "none"]
  /\ proc = [p \in Procs |-> Off]

Ended == {"ok", "failed", "killed"}
Alive(p) == proc[p].pc \notin {"off"} \cup Ended

\* The state s of a process at pc; its memory is gone when it has ended.
At(s, pc) ==
  IF pc \in Ended THEN [Off EXCEPT !.pc = pc, !.manifest = s.manifest]
                  ELSE [s EXCEPT !.pc = pc]

Started(j) == proc[Main(j)].pc # "off"

Goto(p, pc) == proc' = [proc EXCEPT ![p] = At(@, pc)]

files == <<cwal, chunks, graph>>
jobs  == <<opt, told>>

-----------------------------------------------------------------------------
(* The log.                                                                *)

\* append_wal: one more event of extraction x, or one of the run, with the
\* manifest of x.  What is written behind a torn row is never read.
Append(log, event, x) ==
  IF log.torn THEN log
  ELSE IF event = "run" THEN [log EXCEPT !.rows = @ \cup {x[3]}]
  ELSE [log EXCEPT !.last[x[1]] = event,
                   !.won  = IF event = "succeeded"
                            THEN {y \in @ : y[1] # x[1]} \cup {x} ELSE @,
                   !.rows = IF event = "succeeded" THEN @ \cup {x[3]} ELSE @]

DoneIn(log) == {k \in Items : log.last[k] = "succeeded"}

\* load_wal: the latest record of each chunk, if it is a success.
Loaded(log) == {x \in log.won : x[1] \in DoneIn(log)}

Keys(extractions) == {x[1] : x \in extractions}

\* Chunk k as extracted by p.
By(p, k) == <<k, proc[p].schema, proc[p].manifest>>

-----------------------------------------------------------------------------
(* Jobs.                                                                   *)

\* handleCreateJob, and buildgraph.Run starting the worker.  Nothing in the
\* code makes a build wait for another: that no process of the others is left
\* is up to the operator, and so much is assumed here.
Start(j) ==
  /\ proc[Main(j)].pc = "off"
  /\ \A p \in Procs : ~Alive(p)
  /\ \A i \in Jobs : Started(i) => told[i] # "none"
  /\ \E o \in Requested : opt' = [opt EXCEPT ![j] = o]
  /\ proc' = [proc EXCEPT ![Main(j)].pc = "load"]
  /\ UNCHANGED <<wal, files, told>>

\* The job is canceled, or its worker killed otherwise: SIGKILL, which may
\* come in the middle of a long append.  The runners do not notice.
Kill(j) ==
  /\ Alive(Main(j))
  /\ Goto(Main(j), "killed")
  /\ told' = [told EXCEPT ![j] = "canceled"]
  /\ \E torn \in IF proc[Main(j)].pc = "extract" THEN BOOLEAN ELSE {FALSE} :
       wal' = [wal EXCEPT !.torn = @ \/ torn]
  /\ UNCHANGED <<files, opt>>

\* The service dies.  The worker goes on, but nobody reads its output.
Abandon(j) ==
  /\ Alive(Main(j))
  /\ ~proc[Main(j)].deaf
  /\ proc' = [proc EXCEPT ![Main(j)].deaf = TRUE]
  /\ told' = [told EXCEPT ![j] = "failed"]
  /\ UNCHANGED <<wal, files, opt>>

\* buildgraph.Run after the worker has exited: a graph that parses and a
\* chunks file, whatever is in it.
Report(j) ==
  /\ told[j] = "none"
  /\ proc[Main(j)].pc \in {"ok", "failed"}
  /\ told' = [told EXCEPT ![j] =
       IF /\ proc[Main(j)].pc = "ok"
          /\ graph.state = "whole"
          /\ chunks.state # "none"
       THEN "succeeded" ELSE "failed"]
  /\ UNCHANGED <<wal, files, opt, proc>>

-----------------------------------------------------------------------------
(* A process starts.                                                       *)

Resumes(p)  == ~IsMain(p) \/ opt[p[1]].resume
Compacts(p) == IsMain(p) /\ opt[p[1]].compact
Spawns(p)   == IsMain(p) /\ Runners > 1 /\ ~opt[p[1]].compact

\* Read the schema; remove the log, or load it.  A log that cannot be parsed
\* ends the process.
Load(p) ==
  /\ proc[p].pc = "load"
  /\ wal' = IF Resumes(p) THEN wal ELSE NoLog
  /\ \E schema \in Schemas :
       proc' = [proc EXCEPT ![p] =
         IF wal'.torn THEN At(@, "failed")
         ELSE [@ EXCEPT !.pc = "hash", !.schema = schema, !.loaded = Loaded(wal')]]
  /\ UNCHANGED <<files, jobs>>

\* build_input_manifest hashes the file, not the schema that was read.
Hash(p) ==
  /\ proc[p].pc = "hash"
  /\ \E schema \in Schemas :
       proc' = [proc EXCEPT ![p].manifest = schema,
                            ![p].pc = IF Resumes(p) THEN "validate" ELSE "announce"]
  /\ UNCHANGED <<wal, files, jobs>>

\* Mutant: manifests are not compared.
Validate_Nothing(p) ==
  /\ proc[p].pc = "validate"
  /\ Goto(p, "announce")
  /\ UNCHANGED <<wal, files, jobs>>

\* validate_wal_manifest: every manifest in the log is that of this run.
Validate(p) ==
  /\ proc[p].pc = "validate"
  /\ Goto(p, IF wal.rows \subseteq {proc[p].manifest} THEN "announce" ELSE "failed")
  /\ UNCHANGED <<wal, files, jobs>>

\* Mutant: the share is counted within the chunks this runner found pending.
Share_OfPending(p, pending) ==
  {k \in pending : Cardinality({m \in pending : m < k}) % Runners = p[2] - 1}

\* Mutant: runners are counted from one.
Share_FromOne(p, pending) == {k \in pending : k % Runners = p[2]}

\* A runner's share: every Runners-th chunk of the corpus.
Share(p, pending) == {k \in pending : k % Runners = p[2] - 1}

\* Pending chunks, replay of the others, run_started or run_resumed.
Announce(p) ==
  /\ proc[p].pc = "announce"
  /\ LET pending == Items \ Keys(proc[p].loaded)
     IN proc' = [proc EXCEPT ![p] =
          [@ EXCEPT !.pc = IF Compacts(p) THEN "decide"
                           ELSE IF Spawns(p) THEN "spawn" ELSE "extract",
                    !.todo = IF Spawns(p) THEN {}
                             ELSE IF IsMain(p) THEN pending ELSE Share(p, pending),
                    !.built = IF IsMain(p) /\ ~Spawns(p) THEN proc[p].loaded ELSE {},
                    !.loaded = {}]]
  /\ wal' = Append(wal, "run", By(p, 0))
  /\ UNCHANGED <<files, jobs>>

\* --compact-only: refuse when extractions are missing; be content with the
\* outputs there are when the last compaction succeeded.
Decide(p) ==
  /\ proc[p].pc = "decide"
  /\ IF proc[p].todo # {}
     THEN Goto(p, "failed") /\ cwal' = "failed"
     ELSE /\ Goto(p, IF /\ opt[p[1]].communities
                        /\ cwal = "succeeded"
                        /\ graph.state # "none" /\ chunks.state # "none"
                     THEN "ok" ELSE "extract")
          /\ UNCHANGED cwal
  /\ UNCHANGED <<wal, chunks, graph, jobs>>

-----------------------------------------------------------------------------
(* Extraction.                                                             *)

\* run_child_runners.
Spawn(p) ==
  /\ proc[p].pc = "spawn"
  /\ proc' = [q \in Procs |->
       IF q = p THEN [proc[p] EXCEPT !.pc = "await"]
       ELSE IF q \in Children(p[1]) THEN [proc[q] EXCEPT !.pc = "load"]
       ELSE proc[q]]
  /\ UNCHANGED <<wal, files, jobs>>

\* run_one: chunk_started, then the LLM call.
StartChunk(p) ==
  /\ proc[p].pc \in {"extract", "drain"}
  /\ \E k \in proc[p].todo :
       /\ proc' = [proc EXCEPT ![p].todo = @ \ {k},
                               ![p].busy = IF proc[p].pc = "extract"
                                           THEN @ \cup {k} ELSE @]
       /\ wal' = Append(wal, "started", By(p, k))
  /\ UNCHANGED <<files, jobs>>

\* Nobody reads what the process prints.
Deaf(p) == IF IsMain(p) THEN proc[p].deaf ELSE ~Alive(Main(p[1]))

\* A call has returned a graph fragment: replay, chunk_succeeded, progress
\* line.  Printing it into a closed pipe ends the loop, but the executor
\* still makes the other calls.
ChunkSucceeded(p) ==
  /\ proc[p].pc = "extract"
  /\ \E k \in proc[p].busy :
       /\ proc' = [proc EXCEPT ![p] =
            [proc[p] EXCEPT
               !.busy  = IF Deaf(p) THEN {} ELSE @ \ {k},
               !.built = IF IsMain(p) THEN @ \cup {By(p, k)} ELSE @,
               !.pc    = IF Deaf(p) THEN "drain" ELSE @]]
       /\ wal' = Append(wal, "succeeded", By(p, k))
  /\ UNCHANGED <<files, jobs>>

\* A call has failed for good: chunk_failed.
ChunkFailed(p) ==
  /\ proc[p].pc = "extract"
  /\ \E k \in proc[p].busy :
       /\ proc' = [proc EXCEPT ![p].busy = @ \ {k}, ![p].failed = TRUE]
       /\ wal' = Append(wal, "failed", By(p, k))
  /\ UNCHANGED <<files, jobs>>

\* The end of the loop: exit 3 after a failure, exit 0 in a runner.
Extracted(p) ==
  /\ proc[p].pc = "extract" /\ proc[p].todo = {} /\ proc[p].busy = {}
  /\ Goto(p, IF proc[p].failed \/ (~IsMain(p) /\ Deaf(p)) THEN "failed"
             ELSE IF IsMain(p) THEN "compact" ELSE "ok")
  /\ UNCHANGED <<wal, files, jobs>>

Drained(p) ==
  /\ proc[p].pc = "drain" /\ proc[p].todo = {}
  /\ Goto(p, "failed")
  /\ UNCHANGED <<wal, files, jobs>>

\* Mutant: the worker does not look at what the runners left undone.
Await_Trusting(p) ==
  /\ proc[p].pc = "await"
  /\ \A q \in Children(p[1]) : proc[q].pc \in Ended
  /\ proc' = [proc EXCEPT ![p] =
       At([@ EXCEPT !.built = Loaded(wal)],
          IF wal.torn \/ proc[p].deaf THEN "failed" ELSE "extract")]
  /\ UNCHANGED <<wal, files, jobs>>

\* The runners have ended: if all exited 0, load the log again, replay all
\* of it and require that it is complete.  Relaying the runners' output into
\* a closed pipe ends the worker.
Await(p) ==
  /\ proc[p].pc = "await"
  /\ \A q \in Children(p[1]) : proc[q].pc \in Ended
  /\ LET fine == /\ \A q \in Children(p[1]) : proc[q].pc = "ok"
                 /\ ~wal.torn /\ ~proc[p].deaf
                 /\ Keys(Loaded(wal)) = Items
     IN proc' = [proc EXCEPT ![p] = At([@ EXCEPT !.built = Loaded(wal)],
                                       IF fine THEN "extract" ELSE "failed")]
  /\ UNCHANGED <<wal, files, jobs>>

-----------------------------------------------------------------------------
(* Compaction.                                                             *)

\* run_compacting; communities are built, with their own log, or skipped.
Compact(p) ==
  /\ proc[p].pc = "compact"
  /\ IF opt[p[1]].communities
     THEN \/ Goto(p, "open_chunks") /\ cwal' = "succeeded"
          \/ Goto(p, "failed") /\ cwal' = "failed"
     ELSE Goto(p, "open_chunks") /\ UNCHANGED cwal
  /\ UNCHANGED <<wal, chunks, graph, jobs>>

Truncated(p) == [state |-> "torn", of |-> {}, writer |-> p]

\* What p leaves in a file it has truncated: all it has built, unless somebody
\* else opened or wrote the file meanwhile.
Filled(p, file) ==
  {[state |-> "whole", of |-> proc[p].built, writer |-> <<>>]} \cup
  IF file.writer = p THEN {} ELSE {[Truncated(p) EXCEPT !.writer = <<>>]}

OpenChunks(p) ==
  /\ proc[p].pc = "open_chunks"
  /\ chunks' = Truncated(p)
  /\ Goto(p, "write_chunks")
  /\ UNCHANGED <<wal, cwal, graph, jobs>>

WriteChunks(p) ==
  /\ proc[p].pc = "write_chunks"
  /\ chunks' \in Filled(p, chunks)
  /\ Goto(p, "open_graph")
  /\ UNCHANGED <<wal, cwal, graph, jobs>>

OpenGraph(p) ==
  /\ proc[p].pc = "open_graph"
  /\ graph' = Truncated(p)
  /\ Goto(p, "write_graph")
  /\ UNCHANGED <<wal, cwal, chunks, jobs>>

\* ... and run_succeeded, and the result line.
WriteGraph(p) ==
  /\ proc[p].pc = "write_graph"
  /\ graph' \in Filled(p, graph)
  /\ Goto(p, IF proc[p].deaf THEN "failed" ELSE "ok")
  /\ wal' = Append(wal, "run", By(p, 0))
  /\ UNCHANGED <<cwal, chunks, jobs>>

-----------------------------------------------------------------------------

Step(p) ==
  \/ Load(p) \/ Hash(p) \/ Validate(p) \/ Announce(p) \/ Decide(p)
  \/ Spawn(p) \/ StartChunk(p) \/ ChunkSucceeded(p) \/ ChunkFailed(p)
  \/ Extracted(p) \/ Drained(p) \/ Await(p) \/ Compact(p) \/ OpenChunks(p) \/ WriteChunks(p)
  \/ OpenGraph(p) \/ WriteGraph(p)

Next ==
  \/ \E j \in Jobs : Start(j) \/ Kill(j) \/ Abandon(j) \/ Report(j)
  \/ \E p \in Procs : Step(p)

Spec == Init /\ [][Next]_vars

-----------------------------------------------------------------------------
(* Properties.                                                             *)

\* One build after the other: extractions are never lost or repeated and the
\* graph is left alone until all are there, over kills, failures, abandoned
\* workers, changed schemas and any number of resumed builds.
Abstract == INSTANCE ResumableBuild WITH
  done <- DoneIn(wal), graph <- graph.state

ImplementsResumableBuild == Abstract!BuildSpec

\* No chunk is with two processes at once: the shares of the runners do not
\* overlap, though each reads the log at another moment and finds other
\* chunks pending.
NoChunkTwice ==
  \A p, q \in Procs :
    p # q /\ proc[p].pc = "extract" /\ proc[q].pc = "extract" =>
      proc[p].busy \cap proc[q].busy = {}

\* Every chunk, each recorded under manifest m.
AllUnder(extractions, m) ==
  /\ Keys(extractions) = Items
  /\ \A x \in extractions : x[3] = m

\* "compaction writes graph/chunks only after successful chunk processing": when
\* all runners have exited 0 the log is complete, so their shares leave nothing
\* out, and none of them worked under another manifest than the worker.
RunnersCover ==
  \A j \in Jobs :
    /\ proc[Main(j)].pc = "await"
    /\ Children(j) # {}
    /\ \A q \in Children(j) : proc[q].pc = "ok"
    => wal.torn \/ AllUnder(Loaded(wal), proc[Main(j)].manifest)

\* The outputs hold every chunk, recorded under the job's own manifest.
Current(j) ==
  \A file \in {chunks, graph} :
    file.state = "whole" /\ AllUnder(file.of, proc[Main(j)].manifest)

\* A job that may be content with the outputs it finds.
MaySkip(j) == opt[j].compact /\ opt[j].communities

\* A build that is reported as succeeded has left complete outputs, with
\* nothing in them that was recorded under another manifest than its own: no
\* chunk missing, none of an earlier build of another schema.  (A manifest
\* names the schema file as it was when it was hashed: if a PUT came since the
\* process read it, that is not the schema the chunks were extracted with.)
BuildIsOfOneManifest ==
  [][\A j \in Jobs :
       told[j] = "none" /\ told'[j] = "succeeded" /\ ~MaySkip(j)
         => Current(j)]_vars
===============================================================================
