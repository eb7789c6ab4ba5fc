------------------------------- MODULE Retrieve -------------------------------
(***************************************************************************)
(* A retrieve request (internal/orchestrator, or the youtu-retriever       *)
(* command) and the graph builds that rewrite the files it reads.          *)
(*                                                                         *)
(* The request loads the graph, then the chunks, collects from the vector  *)
(* sidecar what its mode asks for, one call after the other, and leaves    *)
(* the rest to the engine (Retrieval), which calls the sidecar again.  A   *)
(* build writes the chunks, then the graph, in place.                      *)
(*                                                                         *)
(* Abstractions.  A failed call is one that did not get through, was       *)
(* answered with an error or with another schema, or whose context was     *)
(* canceled.  Embedding the question is part of the search that follows.   *)
(* A file is read at one instant.  Paths and question are given.  The      *)
(* command has the modes only, not its separate flags.  Graph files are    *)
(* those builds write, not snapshots.  What a search finds is any of its   *)
(* constant, whatever number of hits top_k makes the request ask for.      *)
(***************************************************************************)
EXTENDS Retrieval

CONSTANTS
  NumBuilds,    \* builds of the dataset
  Corpora,      \* what a build may leave: relationships and chunk ids
  Modes,        \* the modes asked for
  Traces,       \* triple traces: sequences of records
  ScoredLists,  \* lists of scored triples the sidecar may return
  NodeHits,     \* results of a search in the node index
  RelationHits, \* ... the relation index
  ChunkHits,    \* ... the chunk index
  TripleHits    \* ... the triple index

Builds == 1 .. NumBuilds

\* TraceTriple, TripleTraceRecord and SearchHit: what of them is used.
ScoredTriple ==
  [score : Int, relation : Nat, text : BOOLEAN, chunks : SUBSET Nat]

TraceRecord ==
  [asked : BOOLEAN, path1 : Seq(ScoredTriple), triples : Seq(Nat), ids : SUBSET Nat,
   texts : SUBSET Nat]

NodeHit == [node : Nat, relevant : BOOLEAN]

ASSUME RetrieveAssumption ==
  /\ NumBuilds \in Nat \ {0}
  /\ Corpora # {}
  /\ \A c \in Corpora :
       c.ids \in Seq(Nat \ {0}) /\ c.rels \in Seq(ToSet(c.rels))
  /\ ScoredLists \subseteq Seq(ScoredTriple)
  /\ Traces \subseteq Seq(TraceRecord)
  /\ NodeHits \subseteq Seq(NodeHit)

VARIABLES
  corpus,      \* what each build writes
  chunksFile,  \* the build that wrote the chunks file last, and how far
  graphFile,   \* the same of the graph file
  builder,     \* where the running build is
  builds,      \* builds begun
  request,     \* mode, caller, and whether a sidecar is configured
  pc,          \* where the request is
  graph,       \* the graph it has loaded
  store,       \* the chunks it has loaded
  todo,        \* the calls it has still to make
  got,         \* what it has collected
  answer

files == <<corpus, chunksFile, graphFile, builder, builds>>
vars  == <<files, request, pc, graph, store, todo, got, answer>>

NoFile == [build |-> 0, state |-> "none"]
NoGraph == [build |-> 0, of |-> LoadedGraph(<<>>)]
NoStore == [build |-> 0, whole |-> {}, cut |-> {}]

\* Slots are sequences of at most one element.
Nothing == [trace |-> <<>>, path1 |-> <<>>, path2 |-> <<>>, rerank |-> <<>>]
NoAnswer == [strategy |-> "none", triples |-> <<>>, ids |-> {}, contents |-> {}]

Init ==
  /\ corpus \in [Builds -> Corpora]
  /\ chunksFile = NoFile /\ graphFile = NoFile
  /\ builder = "idle" /\ builds = 0
  /\ request \in [mode : Modes, by : {"service", "command"}, sidecar : BOOLEAN]
  /\ pc = "start"
  /\ graph = NoGraph /\ store = NoStore
  /\ todo = <<>> /\ got = Nothing /\ answer = NoAnswer

-----------------------------------------------------------------------------
(* Builds, one after the other (GraphWal has the rest of them).            *)

Begin ==
  /\ builder = "idle" /\ builds < NumBuilds
  /\ builder' = "chunks" /\ builds' = builds + 1
  /\ chunksFile' = [build |-> builds', state |-> "torn"]
  /\ UNCHANGED <<corpus, graphFile>>

\* Mutant: the chunks are flushed only when the build ends.
ChunksWritten_Late ==
  /\ builder = "chunks"
  /\ builder' = "written"
  /\ UNCHANGED <<corpus, chunksFile, graphFile, builds>>

ChunksWritten ==
  /\ builder = "chunks"
  /\ builder' = "written"
  /\ chunksFile' = [chunksFile EXCEPT !.state = "whole"]
  /\ UNCHANGED <<corpus, graphFile, builds>>

OpenGraph ==
  /\ builder = "written"
  /\ builder' = "graph"
  /\ graphFile' = [build |-> builds, state |-> "torn"]
  /\ UNCHANGED <<corpus, chunksFile, builds>>

GraphWritten ==
  /\ builder = "graph"
  /\ builder' = "idle"
  /\ graphFile' = [graphFile EXCEPT !.state = "whole"]
  /\ UNCHANGED <<corpus, chunksFile, builds>>

Killed ==
  /\ builder # "idle"
  /\ builder' = "idle"
  /\ UNCHANGED <<corpus, chunksFile, graphFile, builds>>

Build ==
  /\ Begin \/ ChunksWritten \/ OpenGraph \/ GraphWritten \/ Killed
  /\ UNCHANGED <<request, pc, graph, store, todo, got, answer>>

-----------------------------------------------------------------------------
(* The request loads its files.                                            *)

\* What each mode collects.  The command asks for path 2 before path 1.
Calls(mode, by) ==
  LET Both(path1) == IF by = "service" THEN <<path1, "path2">> ELSE <<"path2", path1>>
  IN CASE mode = "runtime-trace"       -> <<"trace">>
       [] mode = "path2-detrace"       -> <<"trace", "path2">>
       [] mode = "primitive-merge"     -> Both("path1")
       [] mode = "rerank-merge"        -> Append(Both("path1"), "rerank")
       [] mode = "native-path1-rerank" -> Append(Both("candidates"), "rerank")
       [] OTHER                        -> <<>>

Fail == pc' = "failed" /\ UNCHANGED <<files, request, graph, store, todo, got, answer>>

\* dataset.LoadGraph: a graph that is cut short does not parse.
LoadGraph ==
  /\ pc = "start"
  /\ graphFile.state = "whole"
  /\ LET build == graphFile.build
     IN graph' = [build |-> build, of |-> LoadedGraph(corpus[build].rels)]
  /\ pc' = "chunks"
  /\ UNCHANGED <<files, request, store, todo, got, answer>>

LoadGraphFails == pc = "start" /\ graphFile.state # "whole" /\ Fail

\* Any prefix of a chunks file loads: the line after the n whole ones may be
\* missing, or cut within its text.
Readable(file) ==
  LET ids == corpus[file.build].ids
      upTo(n) == ToSet(FirstOf(ids, n))
      cuts == IF file.state = "whole" THEN {<<Len(ids), Len(ids)>>}
              ELSE {p \in (0 .. Len(ids)) \X (0 .. Len(ids)) : p[2] - p[1] \in {0, 1}}
  IN {[build |-> file.build, whole |-> upTo(p[1]), cut |-> upTo(p[2]) \ upTo(p[1])] :
        p \in cuts}

\* chunks.Load, and a sidecar client if there is a URL.
LoadChunks ==
  /\ pc = "chunks"
  /\ chunksFile.state # "none"
  /\ store' \in Readable(chunksFile)
  /\ pc' = "collect"
  /\ todo' = Calls(request.mode, request.by)
  /\ UNCHANGED <<files, request, graph, got, answer>>

Graph == graph.of

-----------------------------------------------------------------------------
(* applyMode.                                                              *)

\* Every mode but native needs a sidecar.
Unconfigured ==
  /\ pc = "collect" /\ request.mode # "native" /\ ~request.sidecar
  /\ (request.by = "service" \/ todo # <<>>)
  /\ Fail

\* A call of the mode has not succeeded, or the request of a service was
\* canceled, which the engine checks as well.
CallFails == pc = "collect" /\ (todo # <<>> \/ request.by = "service") /\ Fail

Awaiting(call) ==
  /\ pc = "collect" /\ request.sidecar
  /\ todo # <<>> /\ Head(todo) = call

\* The call has put a value into a slot.
Collect(slot, value) ==
  /\ got' = [got EXCEPT ![slot] = <<value>>]
  /\ todo' = Tail(todo)
  /\ UNCHANGED <<files, request, pc, graph, store, answer>>

FetchTripleTrace ==
  /\ Awaiting("trace")
  /\ \E t \in Traces : Collect("trace", t)

FetchPath2Triples ==
  /\ Awaiting("path2")
  /\ \E l \in ScoredLists : Collect("path2", l)

\* From the sidecar, with or without raw candidates.
FetchPath1Triples ==
  /\ Awaiting("path1")
  /\ \E l \in ScoredLists, raw \in {{}, ToSet(Graph.edges)} :
       Collect("path1",
         [by |-> "python", list |-> l, hits |-> <<>>, relations |-> {}, raw |-> raw])

\* BuildNativePath1Triples, with two searches.
BuildNativePath1Triples ==
  /\ Awaiting("candidates")
  /\ \E hits \in NodeHits, relations \in RelationHits :
       Collect("path1",
         [by |-> "go", list |-> <<>>, hits |-> hits, relations |-> relations,
          raw |-> RawTriples(Graph, TopNodes(Graph, hits, TopK), relations)])

\* fetchRerankTriples: without raw candidates it is an error.
FetchRerankTriples ==
  /\ Awaiting("rerank")
  /\ got.path1 # <<>> /\ got.path1[1].raw # {}
  /\ \E l \in ScoredLists : Collect("rerank", l)

-----------------------------------------------------------------------------
(* The engine.                                                             *)

\* The record of the trace, if it has one for the question.
Record == IF got.trace = <<>> THEN <<>> ELSE SelectTripleTraceRecord(got.trace[1])

\* Mutant: scored lists are merged whether or not they were reranked.
Strategy_NoRerank ==
  IF got.path1 # <<>> /\ got.path2 # <<>> THEN "primitive_merge"
  ELSE IF Record # <<>> /\ got.path2 # <<>> THEN "path2_detrace"
  ELSE IF Record # <<>> THEN "triple_trace"
  ELSE "native"

\* The order in which Retrieve tries its ways.  Native is also the way of mode
\* sidecar, which adds to it what the sidecar finds, if it does.
Strategy ==
  IF got.rerank # <<>> /\ got.path2 # <<>> THEN
    IF got.path1[1].by = "go" THEN "go_rerank_merge" ELSE "rerank_merge"
  ELSE IF got.path1 # <<>> /\ got.path2 # <<>> THEN "primitive_merge"
  ELSE IF Record # <<>> /\ got.path2 # <<>> THEN "path2_detrace"
  ELSE IF Record # <<>> THEN "triple_trace"
  ELSE "native"

\* The chunks with a text, whole or cut.
Contents(ids) ==
  {<<id, "whole">> : id \in ids \cap store.whole} \cup
  {<<id, "cut">> : id \in ids \cap (store.cut \ store.whole)}

\* Everything is collected: the engine takes the given way.
Takes(strategies) ==
  /\ pc = "collect" /\ todo = <<>>
  /\ (request.mode = "native" \/ request.sidecar \/ request.by = "command")
  /\ Strategy \in strategies

Answer(triples, ids, contents) ==
  /\ pc' = "answered"
  /\ answer' = [strategy |-> Strategy, triples |-> triples, ids |-> ids,
                contents |-> contents]
  /\ UNCHANGED <<files, request, graph, store, todo, got>>

\* A search of the engine: no sidecar and a failed call both leave it empty.
Found(results) == {<<>>} \cup IF request.sidecar THEN results ELSE {}

\* Chunks of the scored triples, and chunks found by the question.
Merge(other) ==
  LET shown == FormatScoredTraceTriples(MergeTraceTriples(got.path2[1], other))
  IN \E hits \in Found(ChunkHits) :
       LET ids == (ToSet(hits) \ {0}) \cup UNION {t.chunks : t \in ToSet(shown)}
       IN Answer(shown, ids, Contents(ids))

RetrieveFromPrimitiveMerge ==
  /\ Takes({"primitive_merge"})
  /\ Merge(got.path1[1].list)

RetrieveFromRerankPrimitiveMerge ==
  /\ Takes({"rerank_merge", "go_rerank_merge"})
  /\ Merge(got.rerank[1])

\* The texts of a record come before those of the store, and its triples are
\* formatted already.
RecordContents(ids) ==
  {<<id, "whole">> : id \in ids \cap Record[1].texts} \cup Contents(ids \ Record[1].texts)

RetrieveFromPath2Detrace ==
  /\ Takes({"path2_detrace"})
  /\ LET shown == FormatScoredTraceTriples(
                    MergeTraceTriples(got.path2[1], Record[1].path1))
         ids   == UNION {t.chunks : t \in ToSet(shown)} \cup Record[1].ids
     IN Answer(shown, ids, RecordContents(ids))

RetrieveFromTripleTrace ==
  /\ Takes({"triple_trace"})
  /\ Answer(Record[1].triples, Record[1].ids, RecordContents(Record[1].ids))

\* Graph search, with chunks and triples the sidecar finds: its triples
\* replace the native ones, the chunk ids of both are kept.
RetrieveNative ==
  /\ Takes({"native"})
  /\ \E hits \in Found(ChunkHits), triples \in Found(TripleHits) :
       LET native == NativeTriples(Graph)
           shown  == ShownHits(Graph, triples)
           ids    == ChunkIDsFromTriples(Graph, ToSet(native)) \cup (ToSet(hits) \ {0})
                       \cup UNION {HitChunks(Graph, h) \ {0} : h \in ToSet(shown)}
       IN Answer(IF shown # <<>> THEN shown ELSE native, ids, Contents(ids))

-----------------------------------------------------------------------------

Request ==
  \/ LoadGraph \/ LoadGraphFails \/ LoadChunks \/ Unconfigured \/ CallFails
  \/ FetchTripleTrace \/ FetchPath1Triples \/ FetchPath2Triples
  \/ BuildNativePath1Triples \/ FetchRerankTriples
  \/ RetrieveFromRerankPrimitiveMerge \/ RetrieveFromPrimitiveMerge
  \/ RetrieveFromPath2Detrace \/ RetrieveFromTripleTrace \/ RetrieveNative

Next == Build \/ Request

Spec == Init /\ [][Next]_vars

-----------------------------------------------------------------------------
(* Properties.                                                             *)

Expected(mode) ==
  CASE mode = "runtime-trace"       -> "triple_trace"
    [] mode = "path2-detrace"       -> "path2_detrace"
    [] mode = "primitive-merge"     -> "primitive_merge"
    [] mode = "rerank-merge"        -> "rerank_merge"
    [] mode = "native-path1-rerank" -> "go_rerank_merge"
    [] OTHER                        -> "native"

\* An answer comes from the strategy of its mode, whatever the calls return and
\* in whatever order a caller makes them, and without a sidecar only where that
\* is the graph search.  One fallback is left: a trace with no record for the
\* question (and not just one record) is answered by the graph search, as no
\* error.
OnlyTraceFallsBack ==
  pc = "answered" =>
    /\ \/ answer.strategy = Expected(request.mode)
       \/ /\ request.mode \in {"runtime-trace", "path2-detrace"}
          /\ Record = <<>>
          /\ answer.strategy = "native"
    /\ request.sidecar \/ Expected(request.mode) = "native"

\* No triple that could be shown is left out for a worse one, and none at all
\* unless top_k others, shown or hidden, are as good.
BestTriplesKept ==
  pc = "answered" /\ got.path2 # <<>> /\ answer.strategy # "native" =>
    LET other == CASE got.rerank # <<>> -> got.rerank[1]
                   [] got.trace # <<>>  -> Record[1].path1
                   [] OTHER             -> got.path1[1].list
        all   == got.path2[1] \o other
        kept  == ToSet(answer.triples)
    IN \A t \in {u \in ToSet(all) : Displayable(u)} \ kept :
         /\ \A u \in kept : u.score >= t.score
         /\ Cardinality({i \in DOMAIN all : all[i].score >= t.score}) > TopK

\* The chunks a request works with are never older than its graph, and those
\* of the very same build are complete: the graph is read first and written
\* last.
ChunksNotOlder ==
  pc \in {"collect", "answered"} =>
    /\ store.build >= graph.build
    /\ store.build = graph.build =>
         store.whole = ToSet(corpus[graph.build].ids) /\ store.cut = {}

\* The raw candidates Go sends to be reranked are edges near the top nodes,
\* hold the edge that counts (EdgeByPair) from one to every other node, and lose
\* none as top_k grows, for the same hits: that more hits are asked for with a
\* greater top_k is not in the model.
CandidatesComplete ==
  got.path1 # <<>> /\ got.path1[1].by = "go" =>
    LET top  == TopNodes(Graph, got.path1[1].hits, TopK)
        near == ToSet(top) \cup UNION {Neighbors(Graph, n) : n \in ToSet(top)}
        raw  == got.path1[1].raw
    IN /\ raw \subseteq {e \in ToSet(Graph.edges) : {e[1], e[3]} \cap near # {} /\ e[2] # 0}
       /\ \A n \in ToSet(top), m \in Graph.nodes : EdgeByPair(Graph, n, m) \subseteq raw
       /\ \A k \in 1 .. (TopK - 1) :
            RawTriples(Graph, TopNodes(Graph, got.path1[1].hits, k),
                       got.path1[1].relations) \subseteq raw
===============================================================================
