---------------------------- MODULE RetrieveProofs ----------------------------
(***************************************************************************)
(* Proofs about Retrieve, for any builds, any corpora and whatever the     *)
(* sidecar answers.                                                        *)
(*                                                                         *)
(* A request takes no lock, so what it has read must be right because of   *)
(* the order in which a build writes: Inv says that a graph file is never  *)
(* newer than the chunks file, and of its build only with chunks that are  *)
(* whole (InOrder), that this is still so of the graph a request has       *)
(* loaded (Behind), and of the chunks it has loaded (Paired).  A strategy  *)
(* is chosen by what was collected: Inv says that every call of the mode   *)
(* is made once and that what is collected is what was called for          *)
(* (Pending, Collected).  Heard adds what was collected itself.            *)
(*                                                                         *)
(* The rest is about the operators of Retrieval.  An element sorted by     *)
(* counting stands at its Place, and every place is taken (PlacesAreTaken): *)
(* this is what the merge of triples and Picked rest on.  A fold runs      *)
(* through its steps one by one (FoldExists, IterRuns), which is shown by  *)
(* the least number for which it would not (LeastNumber): so the path      *)
(* search, three folds one in the other, keeps what it has found and finds *)
(* only edges near the top nodes.                                          *)
(***************************************************************************)
EXTENDS Retrieve, FiniteSetTheorems, SequenceTheorems, TLAPS

Slots == {"trace", "path1", "path2", "rerank"}

Slot(call) == IF call = "candidates" THEN "path1" ELSE call

Wanted == ToSet(Calls(request.mode, request.by))

\* The files, in the order a build writes them.
FilesTypeOK ==
  /\ corpus \in [Builds -> Corpora]
  /\ builds \in 0 .. NumBuilds
  /\ builder \in {"idle", "chunks", "written", "graph"}
  /\ chunksFile \in [build : 0 .. NumBuilds, state : {"none", "torn", "whole"}]
  /\ graphFile \in [build : 0 .. NumBuilds, state : {"none", "torn", "whole"}]

InOrder ==
  /\ chunksFile.build = builds
  /\ chunksFile.state = "none" <=> chunksFile.build = 0
  /\ graphFile.build <= chunksFile.build
  /\ builder = "chunks" => graphFile.build < chunksFile.build
  /\ builder \in {"written", "graph"} => chunksFile.state = "whole"
  /\ builder = "graph" => graphFile.build = builds
  /\ graphFile.state = "none" <=> graphFile.build = 0
  /\ graphFile.build = chunksFile.build /\ graphFile.build > 0 =>
       chunksFile.state = "whole"

\* The graph a request has loaded, before it has loaded its chunks.
Behind ==
  pc = "chunks" =>
    /\ graph.build \in 1 .. chunksFile.build
    /\ graph.build = chunksFile.build => chunksFile.state = "whole"

Paired ==
  pc \in {"collect", "answered"} =>
    /\ graph.build \in Builds
    /\ store.build >= graph.build
    /\ store.build = graph.build =>
         store.whole = ToSet(corpus[graph.build].ids) /\ store.cut = {}

Reading == InOrder /\ Behind /\ Paired

Names == {"trace", "path1", "path2", "candidates", "rerank"}

RequestTypeOK ==
  /\ request.by \in {"service", "command"}
  /\ pc \in {"start", "chunks", "collect", "answered", "failed"}
  /\ DOMAIN got = Slots
  /\ todo \in Seq(Names)

\* No call is to be made twice.
Pending == \A i, j \in DOMAIN todo : todo[i] = todo[j] => i = j

Done == Wanted \ ToSet(todo)

Collected ==
  /\ pc \in {"start", "chunks"} => got = Nothing
  /\ pc \in {"collect", "answered"} =>
       /\ ToSet(todo) \subseteq Wanted
       /\ \A s \in Slots : got[s] # <<>> <=> \E call \in Done : Slot(call) = s
       /\ got.path1 # <<>> => (got.path1[1].by = "go" <=> "candidates" \in Wanted)
  /\ pc = "answered" => todo = <<>> /\ answer.strategy = Strategy

Calling == RequestTypeOK /\ Pending /\ Collected

Inv == FilesTypeOK /\ Reading /\ Calling

-----------------------------------------------------------------------------
(* What the request does not do to the files, and builds not to it.        *)

\* The chunks loaded from a whole file are all the build has written.
LEMMA WholeFile ==
  ASSUME NEW file, file.state = "whole", corpus[file.build].ids \in Seq(Nat \ {0}),
         NEW s \in Readable(file)
  PROVE  /\ s.build = file.build
         /\ s.whole = ToSet(corpus[file.build].ids)
         /\ s.cut = {}
<1> DEFINE ids == corpus[file.build].ids
           upTo(n) == ToSet(FirstOf(ids, n))
<1>1. s = [build |-> file.build, whole |-> upTo(Len(ids)),
           cut |-> upTo(Len(ids)) \ upTo(Len(ids))]
  BY DEF Readable
<1>2. Len(ids) \in Nat
  BY LenProperties
<1>3. Min({Len(ids), Len(ids)}) = Len(ids)
  BY <1>2 DEF Min
<1>4. SubSeq(ids, 1, Len(ids)) = ids
  BY SMT
<1>5. FirstOf(ids, Len(ids)) = ids
  BY <1>3, <1>4 DEF FirstOf
<1> QED
  BY <1>1, <1>5

LEMMA ReadableBuild ==
  ASSUME NEW file, NEW s \in Readable(file)
  PROVE  s.build = file.build
BY DEF Readable

-----------------------------------------------------------------------------
(* Inv holds at first.                                                     *)

LEMMA InitInv == Init => Inv
<1> SUFFICES ASSUME Init PROVE Inv
  OBVIOUS
<1> USE RetrieveAssumption
<1>1. FilesTypeOK
  BY DEF Init, FilesTypeOK, NoFile
<1>2. Reading
  BY DEF Init, Reading, InOrder, Behind, Paired, NoFile
<1>3. DOMAIN got = Slots
  BY DEF Init, Nothing, Slots
<1>4. RequestTypeOK
  BY <1>3 DEF Init, RequestTypeOK
<1>5. Pending /\ Collected
  BY DEF Init, Pending, Collected
<1> QED
  BY <1>1, <1>2, <1>4, <1>5 DEF Inv, Calling

-----------------------------------------------------------------------------
(* The builds keep it.                                                     *)

LEMMA BuildInv ==
  ASSUME Inv, Build
  PROVE  Inv'
<1> USE RetrieveAssumption DEF Inv, FilesTypeOK, Reading, InOrder, Behind, Paired
<1>1. Calling'
  <2>1. UNCHANGED <<request, pc, got, todo, answer>>
    BY DEF Build
  <2> QED
    BY <2>1 DEF Calling, RequestTypeOK, Pending, Collected, Wanted, Done, Strategy, Record
<1>2. CASE Begin
  BY SMTT(30), <1>1, <1>2 DEF Build, Begin, Builds
<1>3. CASE ChunksWritten
  BY SMTT(30), <1>1, <1>3 DEF Build, ChunksWritten, Builds
<1>4. CASE OpenGraph
  BY <1>1, <1>4 DEF Build, OpenGraph, Builds
<1>5. CASE GraphWritten
  BY <1>1, <1>5 DEF Build, GraphWritten, Builds
<1>6. CASE Killed
  BY <1>1, <1>6 DEF Build, Killed, Builds
<1> QED
  BY <1>2, <1>3, <1>4, <1>5, <1>6 DEF Build

-----------------------------------------------------------------------------
(* The request keeps it.                                                   *)

LEMMA LoadGraphInv ==
  ASSUME Inv, LoadGraph
  PROVE  Inv'
<1>1. Calling'
  <2>1. UNCHANGED <<request, got, todo, answer>> /\ pc = "start" /\ pc' = "chunks"
    BY DEF LoadGraph
  <2> QED
    BY <2>1 DEF Inv, Calling, RequestTypeOK, Pending, Collected
<1>2. (FilesTypeOK /\ InOrder)'
  BY DEF LoadGraph, files, Inv, Reading, FilesTypeOK, InOrder
<1>3. Behind' /\ Paired'
  BY DEF LoadGraph, files, Inv, Reading, FilesTypeOK, InOrder, Behind, Paired
<1> QED
  BY <1>1, <1>2, <1>3 DEF Inv, Reading

\* The calls of a mode: no two alike, none but those with a name.
LEMMA CallsOf ==
  ASSUME request.by \in {"service", "command"},
         NEW calls, calls = Calls(request.mode, request.by)
  PROVE  /\ calls \in Seq(Names)
         /\ \A i, j \in DOMAIN calls : calls[i] = calls[j] => i = j
<1>1. \A a, b, c \in Names : Append(<<a, b>>, c) = <<a, b, c>>
  <2> TAKE a, b, c \in Names
  <2>1. <<a, b>> \in Seq(Names) /\ <<a, b, c>> \in Seq(Names)
    OBVIOUS
  <2> DEFINE long == Append(<<a, b>>, c)
  <2>2. /\ long \in Seq(Names) /\ Len(long) = 3
        /\ long[1] = a /\ long[2] = b /\ long[3] = c
    BY <2>1
  <2>3. \A i \in 1 .. Len(long) : long[i] = <<a, b, c>>[i]
    BY <2>2
  <2> HIDE DEF long
  <2>4. Len(<<a, b, c>>) = 3
    OBVIOUS
  <2>5. long = <<a, b, c>>
    BY SMTT(40), <2>1, <2>2, <2>3, <2>4, SeqEqual
  <2> QED
    BY <2>5 DEF long
<1>2. \/ calls = <<>>
      \/ \E a \in Names : calls = <<a>>
      \/ \E a, b \in Names : a # b /\ calls = <<a, b>>
      \/ \E a, b, c \in Names : a # b /\ a # c /\ b # c /\ calls = <<a, b, c>>
  BY ZenonT(60), <1>1 DEF Calls, Names
<1>3. CASE calls = <<>>
  BY <1>3
<1>4. ASSUME NEW a \in Names, calls = <<a>>
      PROVE  calls \in Seq(Names) /\ \A i, j \in DOMAIN calls : calls[i] = calls[j] => i = j
  <2>1. <<a>> \in Seq(Names) /\ DOMAIN <<a>> = {1}
    OBVIOUS
  <2> QED
    BY <1>4, <2>1
<1>5. ASSUME NEW a \in Names, NEW b \in Names, a # b, calls = <<a, b>>
      PROVE  calls \in Seq(Names) /\ \A i, j \in DOMAIN calls : calls[i] = calls[j] => i = j
  <2>1. <<a, b>> \in Seq(Names) /\ DOMAIN <<a, b>> = {1, 2}
    OBVIOUS
  <2> QED
    BY <1>5, <2>1
<1>6. ASSUME NEW a \in Names, NEW b \in Names, NEW c \in Names,
             a # b, a # c, b # c, calls = <<a, b, c>>
      PROVE  calls \in Seq(Names) /\ \A i, j \in DOMAIN calls : calls[i] = calls[j] => i = j
  <2>1. <<a, b, c>> \in Seq(Names) /\ DOMAIN <<a, b, c>> = {1, 2, 3}
    OBVIOUS
  <2> QED
    BY <1>6, <2>1
<1> QED
  BY <1>2, <1>3, <1>4, <1>5, <1>6

LEMMA LoadChunksInv ==
  ASSUME Inv, LoadChunks
  PROVE  Inv'
<1>1. /\ UNCHANGED <<files, request, graph, got, answer>>
      /\ pc = "chunks" /\ pc' = "collect"
      /\ todo' = Calls(request.mode, request.by)
      /\ store' \in Readable(chunksFile)
  BY DEF LoadChunks
<1>2. RequestTypeOK' /\ Pending'
  BY <1>1, CallsOf DEF Inv, Calling, RequestTypeOK, Pending
<1>3. Collected'
  <2>1. got' = Nothing /\ Wanted' = ToSet(todo') /\ Done' = {}
    BY <1>1 DEF Inv, Calling, Collected, Wanted, Done
  <2>2. \A s \in Slots : Nothing[s] = <<>>
    BY DEF Slots, Nothing
  <2>3. Nothing.path1 = <<>>
    BY DEF Nothing
  <2> QED
    BY <1>1, <2>1, <2>2, <2>3 DEF Collected
<1>4. (FilesTypeOK /\ InOrder /\ Behind)'
  BY <1>1 DEF files, Inv, Reading, FilesTypeOK, InOrder, Behind
<1>5. Paired'
  <2>1. store'.build = chunksFile.build
    BY <1>1, ReadableBuild
  <2>2. graph.build \in 1 .. chunksFile.build /\ chunksFile.build \in 0 .. NumBuilds
    BY <1>1 DEF Inv, Reading, Behind, FilesTypeOK
  <2>3. graph.build \in Builds /\ chunksFile.build >= graph.build
    BY <2>2, RetrieveAssumption DEF Builds
  <2>4. ASSUME chunksFile.build = graph.build
        PROVE  store'.whole = ToSet(corpus[graph.build].ids) /\ store'.cut = {}
    <3>1. chunksFile.state = "whole"
      BY <1>1, <2>4 DEF Inv, Reading, Behind
    <3>2. corpus[chunksFile.build].ids \in Seq(Nat \ {0})
      BY <2>3, <2>4, RetrieveAssumption DEF Inv, FilesTypeOK
    <3> QED
      BY <1>1, <2>4, <3>1, <3>2, WholeFile
  <2> QED
    BY <1>1, <2>1, <2>3, <2>4 DEF Paired, files
<1> QED
  BY <1>2, <1>3, <1>4, <1>5 DEF Inv, Reading, Calling

\* A step that leaves the files alone and has, and keeps, both loaded.
LEMMA StillRead ==
  ASSUME Inv, UNCHANGED <<files, graph, store>>,
         pc \in {"collect", "answered"} \/ pc' = "failed",
         pc' \in {"collect", "answered", "failed"}
  PROVE  (FilesTypeOK /\ Reading)'
BY DEF Inv, FilesTypeOK, Reading, InOrder, Behind, Paired, files

LEMMA FailInv ==
  ASSUME Inv, Fail
  PROVE  Inv'
<1>1. (FilesTypeOK /\ Reading)'
  BY StillRead DEF Fail
<1>2. Calling'
  BY DEF Fail, Inv, Calling, RequestTypeOK, Pending, Collected
<1> QED
  BY <1>1, <1>2 DEF Inv

LEMMA CollectInv ==
  ASSUME Inv, NEW call \in Names, NEW value, Awaiting(call),
         Collect(Slot(call), value),
         call = "candidates" => value.by = "go",
         call = "path1" => value.by = "python"
  PROVE  Inv'
<1>1. (FilesTypeOK /\ Reading)'
  BY StillRead DEF Awaiting, Collect
<1>2. /\ pc = "collect" /\ todo # <<>> /\ Head(todo) = call
      /\ UNCHANGED <<request, pc>>
      /\ got' = [got EXCEPT ![Slot(call)] = <<value>>]
      /\ todo' = Tail(todo)
  BY DEF Awaiting, Collect
<1>3. /\ RequestTypeOK /\ Pending
      /\ DOMAIN got = Slots /\ todo \in Seq(Names) /\ Slot(call) \in Slots
  BY DEF Inv, Calling, RequestTypeOK, Slot, Names, Slots
<1>4. DOMAIN got' = Slots /\ todo' \in Seq(Names)
  BY <1>2, <1>3
<1>5. /\ DOMAIN todo = 1 .. Len(todo) /\ Len(todo) \in Nat \ {0}
      /\ DOMAIN todo' = 1 .. (Len(todo) - 1)
      /\ \A i \in DOMAIN todo' : todo'[i] = todo[i + 1] /\ i + 1 \in DOMAIN todo
      /\ todo[1] = call
  BY <1>2, <1>3
<1>6. Pending'
  BY <1>3, <1>5 DEF Pending
<1>7. call \in ToSet(todo) /\ ToSet(todo') = ToSet(todo) \ {call}
  <2>1. \A i \in DOMAIN todo : i # 1 => i - 1 \in DOMAIN todo' /\ todo'[i - 1] = todo[i]
    BY <1>5
  <2>2. \A i \in DOMAIN todo' : todo'[i] # call
    BY <1>3, <1>5 DEF Pending
  <2>3. call \in ToSet(todo) /\ call \notin ToSet(todo')
    BY <1>5, <2>2 DEF ToSet
  <2>4. ASSUME NEW c \in ToSet(todo) \ {call} PROVE c \in ToSet(todo')
    <3>1. PICK i \in DOMAIN todo : todo[i] = c
      BY DEF ToSet
    <3> QED
      BY <1>5, <2>1, <3>1 DEF ToSet
  <2>5. ToSet(todo') \subseteq ToSet(todo)
    BY <1>5 DEF ToSet
  <2> QED
    BY <2>3, <2>4, <2>5
<1>8. call \in Wanted /\ Wanted' = Wanted /\ Done' = Done \cup {call}
  BY <1>2, <1>7 DEF Inv, Calling, Collected, Wanted, Done
<1>9. \A s \in Slots : got'[s] = IF s = Slot(call) THEN <<value>> ELSE got[s]
  BY <1>2, <1>3
<1>10. Collected'
  <2>1. ToSet(todo') \subseteq Wanted'
    BY <1>2, <1>7, <1>8 DEF Inv, Calling, Collected
  <2>2. ASSUME NEW s \in Slots
        PROVE  got'[s] # <<>> <=> \E c \in Done' : Slot(c) = s
    BY <1>2, <1>8, <1>9 DEF Inv, Calling, Collected
  <2>3. got'.path1 # <<>> => (got'.path1[1].by = "go" <=> "candidates" \in Wanted')
    <3>1. CASE Slot(call) = "path1"
      <4>1. got'.path1[1] = value
        BY <1>9, <3>1 DEF Slots
      <4>2. call \in {"path1", "candidates"}
        BY <3>1 DEF Slot, Names
      <4>3. ~ ("path1" \in Wanted /\ "candidates" \in Wanted)
        BY DEF Wanted, Calls, ToSet, Inv, Calling, RequestTypeOK
      <4> QED
        BY <1>8, <4>1, <4>2, <4>3
    <3>2. CASE Slot(call) # "path1"
      BY <1>2, <1>8, <1>9, <3>2 DEF Slots, Inv, Calling, Collected
    <3> QED
      BY <3>1, <3>2
  <2> QED
    BY <1>2, <2>1, <2>2, <2>3 DEF Collected
<1> QED
  BY <1>1, <1>2, <1>3, <1>4, <1>6, <1>10 DEF Inv, Calling, RequestTypeOK

LEMMA FetchInv ==
  ASSUME Inv,
         \/ FetchTripleTrace \/ FetchPath1Triples \/ FetchPath2Triples
         \/ BuildNativePath1Triples \/ FetchRerankTriples
  PROVE  Inv'
<1> USE DEF Slot, Names
<1>1. CASE FetchTripleTrace
  BY <1>1, CollectInv DEF FetchTripleTrace
<1>2. CASE FetchPath1Triples
  BY <1>2, CollectInv DEF FetchPath1Triples
<1>3. CASE FetchPath2Triples
  BY <1>3, CollectInv DEF FetchPath2Triples
<1>4. CASE BuildNativePath1Triples
  BY <1>4, CollectInv DEF BuildNativePath1Triples
<1>5. CASE FetchRerankTriples
  BY <1>5, CollectInv DEF FetchRerankTriples
<1> QED
  BY <1>1, <1>2, <1>3, <1>4, <1>5

LEMMA AnswerInv ==
  ASSUME Inv, pc = "collect", todo = <<>>, NEW triples, NEW ids, NEW contents,
         Answer(triples, ids, contents)
  PROVE  Inv'
<1>1. (FilesTypeOK /\ Reading)'
  BY StillRead DEF Answer
<1>2. /\ UNCHANGED <<request, got, todo>> /\ pc' = "answered"
      /\ answer'.strategy = Strategy
  BY DEF Answer
<1>3. Strategy' = Strategy /\ Wanted' = Wanted /\ Done' = Done
  BY <1>2 DEF Strategy, Record, Wanted, Done
<1>4. Calling'
  BY <1>2, <1>3 DEF Inv, Calling, RequestTypeOK, Pending, Collected
<1> QED
  BY <1>1, <1>4 DEF Inv

\* Every way of the engine ends in an answer.
Answering ==
  \/ RetrieveFromRerankPrimitiveMerge \/ RetrieveFromPrimitiveMerge
  \/ RetrieveFromPath2Detrace \/ RetrieveFromTripleTrace \/ RetrieveNative

LEMMA AnswersOnce ==
  ASSUME Answering
  PROVE  /\ pc = "collect" /\ todo = <<>>
         /\ \E triples, ids, contents : Answer(triples, ids, contents)
<1>1. CASE RetrieveFromRerankPrimitiveMerge
  BY <1>1 DEF RetrieveFromRerankPrimitiveMerge, Takes, Merge
<1>2. CASE RetrieveFromPrimitiveMerge
  BY <1>2 DEF RetrieveFromPrimitiveMerge, Takes, Merge
<1>3. CASE RetrieveFromPath2Detrace
  BY <1>3 DEF RetrieveFromPath2Detrace, Takes
<1>4. CASE RetrieveFromTripleTrace
  BY <1>4 DEF RetrieveFromTripleTrace, Takes
<1>5. CASE RetrieveNative
  BY <1>5 DEF RetrieveNative, Takes
<1> QED
  BY <1>1, <1>2, <1>3, <1>4, <1>5 DEF Answering

LEMMA NextInv ==
  ASSUME Inv, [Next]_vars
  PROVE  Inv'
<1>1. CASE Build
  BY <1>1, BuildInv
<1>2. CASE LoadGraph
  BY <1>2, LoadGraphInv
<1>3. CASE LoadGraphFails \/ Unconfigured \/ CallFails
  BY <1>3, FailInv DEF LoadGraphFails, Unconfigured, CallFails
<1>4. CASE LoadChunks
  BY <1>4, LoadChunksInv
<1>5. CASE \/ FetchTripleTrace \/ FetchPath1Triples \/ FetchPath2Triples
           \/ BuildNativePath1Triples \/ FetchRerankTriples
  BY <1>5, FetchInv
<1>6. CASE Answering
  BY <1>6, AnswersOnce, AnswerInv
<1>7. CASE UNCHANGED vars
  BY <1>7 DEF vars, files, Inv, FilesTypeOK, Reading, InOrder, Behind, Paired,
              Calling, RequestTypeOK, Pending, Collected, Wanted, Done, Strategy, Record
<1> QED
  BY <1>1, <1>2, <1>3, <1>4, <1>5, <1>6, <1>7 DEF Next, Request, Answering

\* Files are in order, what was read of them still is, and what is collected
\* is what the mode calls for: the inductive invariant, of every build and
\* every request.
THEOREM InvHolds == Spec => []Inv
<1>1. Init => Inv
  BY InitInv
<1>2. Inv /\ [Next]_vars => Inv'
  BY NextInv
<1> QED
  BY <1>1, <1>2, PTL DEF Spec

-----------------------------------------------------------------------------
(* The properties.                                                         *)

\* The chunks a request works with are never older than the graph it has
\* loaded before them, and those of the same build are complete, for any
\* number of builds, killed or not (write_chunks, LoadGraph, chunks.Load).
THEOREM ChunksNotOlderHolds == Spec => []ChunksNotOlder
<1>1. Inv => ChunksNotOlder
  BY DEF Inv, Reading, Paired, ChunksNotOlder
<1> QED
  BY <1>1, InvHolds, PTL

\* When all calls are made, what is collected is what the mode is about.
LEMMA SlotsOfMode ==
  ASSUME Inv, pc \in {"collect", "answered"}, todo = <<>>
  PROVE  /\ got.trace # <<>> <=> request.mode \in {"runtime-trace", "path2-detrace"}
         /\ got.path1 # <<>> <=>
              request.mode \in {"primitive-merge", "rerank-merge", "native-path1-rerank"}
         /\ got.path2 # <<>> <=>
              request.mode \in {"path2-detrace", "primitive-merge", "rerank-merge",
                                "native-path1-rerank"}
         /\ got.rerank # <<>> <=> request.mode \in {"rerank-merge", "native-path1-rerank"}
         /\ got.path1 # <<>> =>
              (got.path1[1].by = "go" <=> request.mode = "native-path1-rerank")
<1>1. request.by \in {"service", "command"}
  BY DEF Inv, Calling, RequestTypeOK
<1>2. Done = Wanted
  BY DEF Done, ToSet
<1>3. /\ got.trace # <<>> <=> "trace" \in Wanted
      /\ got.path1 # <<>> <=> "path1" \in Wanted \/ "candidates" \in Wanted
      /\ got.path2 # <<>> <=> "path2" \in Wanted
      /\ got.rerank # <<>> <=> "rerank" \in Wanted
      /\ got.path1 # <<>> => (got.path1[1].by = "go" <=> "candidates" \in Wanted)
  BY <1>2 DEF Inv, Calling, Collected, Slot, Slots
<1>4. Wanted = CASE request.mode = "runtime-trace"       -> {"trace"}
                 [] request.mode = "path2-detrace"       -> {"trace", "path2"}
                 [] request.mode = "primitive-merge"     -> {"path1", "path2"}
                 [] request.mode = "rerank-merge"        -> {"path1", "path2", "rerank"}
                 [] request.mode = "native-path1-rerank" -> {"candidates", "path2", "rerank"}
                 [] OTHER                                -> {}
  BY <1>1 DEF Wanted, Calls, ToSet
<1> QED
  BY <1>3, <1>4

\* Nothing is collected without a sidecar.
CollectedOfSidecar == request.sidecar \/ got = Nothing

LEMMA OfSidecarHolds == Spec => []CollectedOfSidecar
<1>1. Init => CollectedOfSidecar
  BY DEF Init, CollectedOfSidecar
<1>2. CollectedOfSidecar /\ [Next]_vars => CollectedOfSidecar'
  <2> SUFFICES ASSUME CollectedOfSidecar, [Next]_vars
               PROVE  CollectedOfSidecar'
    OBVIOUS
  <2>1. UNCHANGED request
    BY DEF vars, Next, Request, Build, LoadGraph, LoadGraphFails, LoadChunks, Fail,
           Unconfigured, CallFails, FetchTripleTrace, FetchPath1Triples,
           FetchPath2Triples, BuildNativePath1Triples, FetchRerankTriples, Collect,
           RetrieveFromRerankPrimitiveMerge, RetrieveFromPrimitiveMerge, Merge,
           RetrieveFromPath2Detrace, RetrieveFromTripleTrace, RetrieveNative, Answer
  <2>2. CASE request.sidecar
    BY <2>1, <2>2 DEF CollectedOfSidecar
  <2>3. CASE ~request.sidecar
    <3>1. UNCHANGED got
      BY <2>3 DEF vars, Next, Request, Build, LoadGraph, LoadGraphFails, LoadChunks, Fail,
             Unconfigured, CallFails, FetchTripleTrace, FetchPath1Triples,
             FetchPath2Triples, BuildNativePath1Triples, FetchRerankTriples, Awaiting,
             RetrieveFromRerankPrimitiveMerge, RetrieveFromPrimitiveMerge, Merge,
             RetrieveFromPath2Detrace, RetrieveFromTripleTrace, RetrieveNative, Answer
    <3> QED
      BY <2>1, <3>1 DEF CollectedOfSidecar, Nothing
  <2> QED
    BY <2>2, <2>3
<1> QED
  BY <1>1, <1>2, PTL DEF Spec

LEMMA StrategyOfMode ==
  ASSUME Inv, CollectedOfSidecar, pc = "answered"
  PROVE  OnlyTraceFallsBack
<1>1. todo = <<>> /\ answer.strategy = Strategy
  BY DEF Inv, Calling, Collected
<1>2. got.trace = <<>> => Record = <<>>
  BY DEF Record
<1>3. \/ answer.strategy = Expected(request.mode)
      \/ /\ request.mode \in {"runtime-trace", "path2-detrace"}
         /\ Record = <<>>
         /\ answer.strategy = "native"
  BY <1>1, <1>2, SlotsOfMode DEF Expected, Strategy
<1>4. ASSUME ~request.sidecar
      PROVE  Expected(request.mode) = "native"
  <2>1. got.trace = <<>> /\ got.path1 = <<>>
    BY <1>4 DEF CollectedOfSidecar, Nothing
  <2> QED
    BY <1>1, <2>1, SlotsOfMode DEF Expected
<1> QED
  BY <1>3, <1>4 DEF OnlyTraceFallsBack

\* An answer comes from the strategy of its mode, whatever the sidecar
\* returns and in whatever order a caller makes its calls, and with a sidecar
\* where the mode is about one; only a trace without a record of the question
\* is answered by the graph search instead (applyMode, Service.Retrieve).
THEOREM OnlyTraceFallsBackHolds == Spec => []OnlyTraceFallsBack
<1>1. Inv /\ CollectedOfSidecar => OnlyTraceFallsBack
  BY StrategyOfMode DEF OnlyTraceFallsBack
<1> QED
  BY <1>1, InvHolds, OfSidecarHolds, PTL

-----------------------------------------------------------------------------
(* Sorting by counting.                                                    *)

LEMMA LeastNumber ==
  ASSUME NEW S \in SUBSET Nat, S # {}
  PROVE  \E x \in S : \A y \in S : x <= y
<1> DEFINE R == {p \in Nat \X Nat : p[1] < p[2]}
<1>1. IsWellFoundedOn(R, Nat)
  BY NatLessThanWellFounded DEF OpToRel
<1> HIDE DEF R
<1>2. PICK x \in S : \A y \in S : <<y, x>> \notin R
  BY <1>1, WFMin
<1>3. \A y \in S : y \in Nat /\ x \in Nat /\ ~(y < x)
  BY <1>2 DEF R
<1> QED
  BY <1>3

LEMMA MinIsLeast ==
  ASSUME NEW S \in SUBSET Nat, S # {}
  PROVE  Min(S) \in S /\ \A x \in S : Min(S) <= x
BY LeastNumber DEF Min

\* The place of an element: how many are not after it.
Place(D, R, i) == Cardinality({j \in D : <<j, i>> \in R})

TotalOrder(D, R) ==
  /\ \A i \in D : <<i, i>> \in R
  /\ \A i, j \in D : <<i, j>> \in R \/ <<j, i>> \in R
  /\ \A i, j \in D : <<i, j>> \in R /\ <<j, i>> \in R => i = j
  /\ \A i, j, k \in D : <<i, j>> \in R /\ <<j, k>> \in R => <<i, k>> \in R

\* In a total order every element has a place of its own, and no place is free.
LEMMA PlacesAreTaken ==
  ASSUME NEW D, IsFiniteSet(D), NEW R, TotalOrder(D, R)
  PROVE  /\ Cardinality(D) \in Nat
         /\ \A i \in D : Place(D, R, i) \in 1 .. Cardinality(D)
         /\ \A i, j \in D : i # j /\ <<i, j>> \in R => Place(D, R, i) < Place(D, R, j)
         /\ \A n \in 1 .. Cardinality(D) : \E i \in D : Place(D, R, i) = n
<1> DEFINE Down(i) == {j \in D : <<j, i>> \in R}
           N == Cardinality(D)
<1>1. \A i \in D : IsFiniteSet(Down(i)) /\ Cardinality(Down(i)) <= N
  <2> TAKE i \in D
  <2>1. Down(i) \in SUBSET D
    OBVIOUS
  <2> QED
    BY <2>1, FS_Subset
<1>2. N \in Nat /\ \A i \in D : Cardinality(Down(i)) \in Nat
  BY <1>1, FS_CardinalityType
<1>3. \A i \in D : Cardinality(Down(i)) # 0
  <2> TAKE i \in D
  <2>1. i \in Down(i)
    BY DEF TotalOrder
  <2> QED
    BY <1>1, <2>1, FS_EmptySet
<1>4. \A i \in D : Place(D, R, i) \in 1 .. N
  BY <1>1, <1>2, <1>3 DEF Place
<1>5. ASSUME NEW i \in D, NEW j \in D, i # j, <<i, j>> \in R
      PROVE  Place(D, R, i) < Place(D, R, j)
  <2>1. Down(i) \in SUBSET Down(j) /\ j \in Down(j) /\ j \notin Down(i)
    BY <1>5 DEF TotalOrder
  <2>2. Cardinality(Down(i)) <= Cardinality(Down(j))
        /\ Cardinality(Down(i)) # Cardinality(Down(j))
    BY <1>1, <2>1, FS_Subset
  <2> QED
    BY <1>2, <2>2 DEF Place
<1>6. \A n \in 1 .. N : \E i \in D : Place(D, R, i) = n
  <2> DEFINE f == [i \in D |-> Place(D, R, i)]
  <2>1. \A i, j \in D : f[i] = f[j] => i = j
    <3> TAKE i, j \in D
    <3> HAVE f[i] = f[j]
    <3>1. <<i, j>> \in R \/ <<j, i>> \in R
      BY DEF TotalOrder
    <3>2. f[i] \in Nat /\ f[j] \in Nat
      BY <1>4
    <3> QED
      BY <1>5, <3>1, <3>2
  <2>2. f \in Injection(D, 1 .. N)
    BY <1>4, <2>1 DEF Injection, IsInjective
  <2>3. IsFiniteSet(1 .. N) /\ Cardinality(1 .. N) = N
    BY <1>2, FS_Interval
  <2>4. f \in Surjection(D, 1 .. N)
    BY <2>2, <2>3, FS_Injection
  <2> QED
    BY <2>4 DEF Surjection
<1> QED
  BY <1>2, <1>4, <1>5, <1>6

\* The elements of s at some positions are all there, in their order.
LEMMA PickedIs ==
  ASSUME NEW s, NEW at \in SUBSET Nat, IsFiniteSet(at)
  PROVE  /\ Cardinality(at) \in Nat
         /\ DOMAIN Picked(s, at) = 1 .. Cardinality(at)
         /\ Picked(s, at) \in Seq(ToSet(Picked(s, at)))
         /\ Len(Picked(s, at)) = Cardinality(at)
         /\ ToSet(Picked(s, at)) = {s[i] : i \in at}
<1> DEFINE R == {p \in Nat \X Nat : p[1] <= p[2]}
           nth(n) == CHOOSE i \in at : Cardinality({j \in at : j <= i}) = n
<1>1. TotalOrder(at, R)
  BY DEF TotalOrder
<1>2. \A i \in at : Place(at, R, i) = Cardinality({j \in at : j <= i})
  <2> TAKE i \in at
  <2>1. {j \in at : j <= i} = {j \in at : <<j, i>> \in R}
    OBVIOUS
  <2> QED
    BY <2>1 DEF Place
<1> HIDE DEF R
<1>3. /\ Cardinality(at) \in Nat
      /\ \A i \in at : Place(at, R, i) \in 1 .. Cardinality(at)
      /\ \A i, j \in at : i # j => Place(at, R, i) # Place(at, R, j)
      /\ \A n \in 1 .. Cardinality(at) : \E i \in at : Place(at, R, i) = n
  <2>1. \A i, j \in at : i # j => Place(at, R, i) # Place(at, R, j)
    <3> TAKE i, j \in at
    <3> HAVE i # j
    <3>1. <<i, j>> \in R \/ <<j, i>> \in R
      BY <1>1 DEF TotalOrder
    <3>2. Place(at, R, i) \in 1 .. Cardinality(at) /\ Place(at, R, j) \in 1 .. Cardinality(at)
      BY <1>1, PlacesAreTaken
    <3>3. Place(at, R, i) < Place(at, R, j) \/ Place(at, R, j) < Place(at, R, i)
      BY <1>1, <3>1, PlacesAreTaken
    <3>4. Cardinality(at) \in Nat
      BY <1>1, PlacesAreTaken
    <3> QED
      BY <3>2, <3>3, <3>4
  <2> QED
    BY <1>1, <2>1, PlacesAreTaken
<1>4. \A n \in 1 .. Cardinality(at) : nth(n) \in at
  BY <1>2, <1>3
<1>5. \A i \in at : nth(Place(at, R, i)) = i
  BY <1>2, <1>3
<1> HIDE DEF nth
<1>6. Picked(s, at) = [n \in 1 .. Cardinality(at) |-> s[nth(n)]]
  BY DEF Picked, nth
<1>7. ToSet(Picked(s, at)) = {s[i] : i \in at}
  BY <1>3, <1>4, <1>5, <1>6 DEF ToSet
<1>8. Picked(s, at) \in Seq(ToSet(Picked(s, at))) /\ Len(Picked(s, at)) = Cardinality(at)
  <2> DEFINE p == Picked(s, at)
  <2>1. p = [n \in 1 .. Cardinality(at) |-> p[n]]
    BY <1>6
  <2>2. \A n \in 1 .. Cardinality(at) : p[n] \in ToSet(p)
    BY <1>6 DEF ToSet
  <2> HIDE DEF p
  <2>3. p \in Seq(ToSet(p))
    BY <1>3, <2>1, <2>2
  <2>4. Len(p) = Cardinality(at)
    BY <1>3, <2>1, <2>3
  <2> QED
    BY <2>3, <2>4 DEF p
<1> QED
  BY <1>3, <1>6, <1>7, <1>8

\* The first k of a sequence.
LEMMA FirstOfIs ==
  ASSUME NEW S, NEW s \in Seq(S), NEW k \in Nat
  PROVE  /\ FirstOf(s, k) \in Seq(S)
         /\ Len(FirstOf(s, k)) = IF k <= Len(s) THEN k ELSE Len(s)
         /\ \A i \in 1 .. Len(FirstOf(s, k)) : FirstOf(s, k)[i] = s[i]
<1> DEFINE m == IF k <= Len(s) THEN k ELSE Len(s)
<1>1. Len(s) \in Nat /\ m \in Nat /\ m <= Len(s)
  BY LenProperties
<1>2. Min({k, Len(s)}) = m
  <2>1. {k, Len(s)} \in SUBSET Nat /\ m \in {k, Len(s)} /\ \A x \in {k, Len(s)} : m <= x
    BY <1>1
  <2>2. Min({k, Len(s)}) \in {k, Len(s)} /\ \A x \in {k, Len(s)} : Min({k, Len(s)}) <= x
    BY <2>1, MinIsLeast
  <2> DEFINE w == Min({k, Len(s)})
  <2>3. w \in Nat /\ w <= m /\ m <= w
    BY <2>1, <2>2
  <2> HIDE DEF w, m
  <2> QED
    BY <1>1, <2>3 DEF w
<1>3. FirstOf(s, k) = SubSeq(s, 1, m)
  BY <1>2 DEF FirstOf
<1> HIDE DEF m
<1>4. \A i \in 1 .. m : s[i] \in S
  BY <1>1, ElementOfSeq
<1>5. /\ SubSeq(s, 1, m) \in Seq(S) /\ Len(SubSeq(s, 1, m)) = m
      /\ \A i \in 1 .. m : SubSeq(s, 1, m)[i] = s[i]
  BY <1>1, <1>4, SubSeqProperties
<1> QED
  BY <1>3, <1>5 DEF m

\* One element of a list goes before another: it has the better score, or the
\* same and is not behind it.
Ahead(all) ==
  {p \in (DOMAIN all) \X (DOMAIN all) :
     \/ all[p[1]].score > all[p[2]].score
     \/ all[p[1]].score = all[p[2]].score /\ p[1] <= p[2]}

\* A list, and the first top_k of it in a stable sort by descending score: each
\* of the first places is taken by the one element that belongs there.
SortedCut(all, merged) ==
  /\ all \in Seq(ScoredTriple)
  /\ IsFiniteSet(DOMAIN all) /\ TotalOrder(DOMAIN all, Ahead(all))
  /\ merged \in Seq(ScoredTriple)
  /\ \A i \in DOMAIN all :
       Place(DOMAIN all, Ahead(all), i) <= TopK =>
         /\ Place(DOMAIN all, Ahead(all), i) \in DOMAIN merged
         /\ merged[Place(DOMAIN all, Ahead(all), i)] = all[i]
  /\ \A n \in DOMAIN merged :
       \E i \in DOMAIN all : Place(DOMAIN all, Ahead(all), i) = n /\ n <= TopK

\* mergeTraceTriples is that sort, for any two lists.
THEOREM MergeIsStableSort ==
  ASSUME NEW path2 \in Seq(ScoredTriple), NEW path1 \in Seq(ScoredTriple)
  PROVE  SortedCut(path2 \o path1, MergeTraceTriples(path2, path1))
<1> DEFINE all == path2 \o path1
           D == DOMAIN all
           R == Ahead(all)
           rank(i) == Cardinality({j \in D :
                        \/ all[j].score > all[i].score
                        \/ all[j].score = all[i].score /\ j <= i})
           sorted == [n \in D |-> all[CHOOSE i \in D : rank(i) = n]]
<1>1. all \in Seq(ScoredTriple) /\ Len(all) \in Nat /\ D = 1 .. Len(all)
  BY ConcatProperties, LenProperties
<1> HIDE DEF all
<1>2. IsFiniteSet(D) /\ Cardinality(D) = Len(all)
  <2>1. \A n \in Nat : IsFiniteSet(1 .. n) /\ Cardinality(1 .. n) = n
    BY FS_Interval
  <2> QED
    BY <1>1, <2>1
<1>3. \A i \in D : all[i].score \in Int
  <2> TAKE i \in D
  <2>1. all[i] \in ScoredTriple
    BY <1>1
  <2> QED
    BY <2>1 DEF ScoredTriple
<1>4. TotalOrder(D, R)
  <2>1. \A i, j \in D : <<i, j>> \in R <=>
          \/ all[i].score > all[j].score
          \/ all[i].score = all[j].score /\ i <= j
    BY DEF Ahead
  <2>2. D \subseteq Nat
    BY <1>1
  <2> DEFINE sc == [i \in D |-> all[i].score]
  <2>3. sc \in [D -> Int]
    BY <1>3
  <2>4. \A i, j \in D : <<i, j>> \in R <=> sc[i] > sc[j] \/ (sc[i] = sc[j] /\ i <= j)
    BY <2>1
  <2> HIDE DEF D, R, sc
  <2>5. \A i, j, k \in D : <<i, j>> \in R /\ <<j, k>> \in R => <<i, k>> \in R
    <3> TAKE i, j, k \in D
    <3>1. sc[i] \in Int /\ sc[j] \in Int /\ sc[k] \in Int /\ i \in Nat /\ j \in Nat /\ k \in Nat
      BY <2>2, <2>3
    <3> QED
      BY <2>4, <3>1
  <2>6. \A i \in D : <<i, i>> \in R
    BY <2>2, <2>4
  <2>7. \A i, j \in D : <<i, j>> \in R \/ <<j, i>> \in R
    <3> TAKE i, j \in D
    <3>1. sc[i] \in Int /\ sc[j] \in Int /\ i \in Nat /\ j \in Nat
      BY <2>2, <2>3
    <3> QED
      BY <2>4, <3>1
  <2>8. \A i, j \in D : <<i, j>> \in R /\ <<j, i>> \in R => i = j
    <3> TAKE i, j \in D
    <3>1. sc[i] \in Int /\ sc[j] \in Int /\ i \in Nat /\ j \in Nat
      BY <2>2, <2>3
    <3> QED
      BY <2>4, <3>1
  <2> QED
    BY <2>5, <2>6, <2>7, <2>8 DEF TotalOrder
<1>5. \A i \in D : rank(i) = Place(D, R, i)
  <2> TAKE i \in D
  <2>1. {j \in D : <<j, i>> \in R} = {j \in D :
                        \/ all[j].score > all[i].score
                        \/ all[j].score = all[i].score /\ j <= i}
    BY DEF Ahead
  <2> QED
    BY <2>1 DEF Place
<1>10. MergeTraceTriples(path2, path1) = FirstOf(sorted, TopK)
  BY DEF MergeTraceTriples, all
<1> HIDE DEF R
<1>6. /\ \A i \in D : Place(D, R, i) \in D
      /\ \A i, j \in D : i # j => Place(D, R, i) # Place(D, R, j)
      /\ \A n \in D : \E i \in D : Place(D, R, i) = n
  <2> HIDE DEF D
  <2>1. /\ \A i \in D : Place(D, R, i) \in 1 .. Cardinality(D)
        /\ \A i, j \in D : i # j /\ <<i, j>> \in R => Place(D, R, i) < Place(D, R, j)
        /\ \A n \in 1 .. Cardinality(D) : \E i \in D : Place(D, R, i) = n
    BY <1>2, <1>4, PlacesAreTaken
  <2>2. D = 1 .. Cardinality(D) /\ Cardinality(D) \in Nat
    BY <1>1, <1>2
  <2>3. ASSUME NEW i \in D, NEW j \in D, i # j PROVE Place(D, R, i) # Place(D, R, j)
    <3>1. <<i, j>> \in R \/ <<j, i>> \in R
      BY <1>4 DEF TotalOrder
    <3>2. Place(D, R, i) \in Nat /\ Place(D, R, j) \in Nat
      BY <2>1, <2>2
    <3> QED
      BY <2>1, <2>3, <3>1, <3>2
  <2> QED
    BY <2>1, <2>2, <2>3
<1> DEFINE at(n) == CHOOSE i \in D : rank(i) = n
<1> HIDE DEF D, rank
<1>7. \A n \in D : at(n) \in D /\ Place(D, R, at(n)) = n
  <2> TAKE n \in D
  <2>1. \E i \in D : rank(i) = n
    BY <1>5, <1>6
  <2>2. at(n) \in D /\ rank(at(n)) = n
    BY <2>1
  <2> QED
    BY <1>5, <2>2
<1>8. \A i \in D : at(Place(D, R, i)) = i
  BY <1>6, <1>7
<1> HIDE DEF at
<1>9. sorted = [n \in D |-> all[at(n)]]
  BY DEF at
<1> HIDE DEF sorted
<1>11. sorted \in Seq(ScoredTriple) /\ Len(sorted) = Len(all)
  <2>1. \A n \in 1 .. Len(all) : sorted[n] \in ScoredTriple
    <3> TAKE n \in 1 .. Len(all)
    <3>1. n \in D /\ at(n) \in D /\ sorted[n] = all[at(n)]
      BY <1>1, <1>7, <1>9
    <3> QED
      BY <1>1, <3>1, ElementOfSeq
  <2>2. sorted = [n \in 1 .. Len(all) |-> sorted[n]]
    BY <1>1, <1>9
  <2>3. sorted \in Seq(ScoredTriple)
    BY <1>1, <2>1, <2>2
  <2> QED
    BY <1>1, <2>2, <2>3
<1> DEFINE merged == FirstOf(sorted, TopK)
<1>12. /\ merged \in Seq(ScoredTriple)
       /\ DOMAIN merged = 1 .. (IF TopK <= Len(all) THEN TopK ELSE Len(all))
       /\ \A i \in DOMAIN merged : merged[i] = sorted[i]
  <2>1. TopK \in Nat
    BY RetrievalAssumption
  <2>2. /\ merged \in Seq(ScoredTriple)
        /\ Len(merged) = IF TopK <= Len(sorted) THEN TopK ELSE Len(sorted)
        /\ \A i \in 1 .. Len(merged) : merged[i] = sorted[i]
    BY <1>11, <2>1, FirstOfIs
  <2> HIDE DEF merged
  <2>3. DOMAIN merged = 1 .. Len(merged)
    BY <2>2, LenProperties
  <2> QED
    BY <1>11, <2>2, <2>3
<1> HIDE DEF merged
<1>13. \A i \in D : Place(D, R, i) <= TopK =>
              Place(D, R, i) \in DOMAIN merged /\ merged[Place(D, R, i)] = all[i]
  <2> TAKE i \in D
  <2> DEFINE n == Place(D, R, i)
  <2>1. n \in D /\ at(n) = i
    BY <1>6, <1>8
  <2> HIDE DEF n
  <2>2. n <= TopK => n \in DOMAIN merged
    BY <1>1, <1>12, <2>1, RetrievalAssumption
  <2> QED
    BY <1>9, <1>12, <2>1, <2>2 DEF n
<1>14. \A n \in DOMAIN merged : \E i \in D : Place(D, R, i) = n /\ n <= TopK
  <2> TAKE n \in DOMAIN merged
  <2>1. n \in D /\ n <= TopK
    BY <1>1, <1>12, RetrievalAssumption
  <2> QED
    BY <1>6, <2>1
<1> QED
  BY <1>1, <1>2, <1>4, <1>10, <1>12, <1>13, <1>14 DEF SortedCut, merged, R, D, all

-----------------------------------------------------------------------------
(* What the sidecar has said.                                              *)

\* What is collected is what the sidecar may return; candidates of Go's own
\* are those of the graph.
Heard ==
  /\ \E rels : rels \in Seq(ToSet(rels)) /\ Graph = LoadedGraph(rels)
  /\ got.trace # <<>> => got.trace[1] \in Traces
  /\ got.path2 # <<>> => got.path2[1] \in ScoredLists
  /\ got.rerank # <<>> => got.rerank[1] \in ScoredLists
  /\ got.path1 # <<>> =>
       IF got.path1[1].by = "go"
       THEN /\ got.path1[1].hits \in NodeHits
            /\ got.path1[1].raw =
                 RawTriples(Graph, TopNodes(Graph, got.path1[1].hits, TopK),
                            got.path1[1].relations)
       ELSE got.path1[1].list \in ScoredLists

LEMMA HeardInit == Init => Heard
<1> SUFFICES ASSUME Init PROVE Heard
  OBVIOUS
<1>1. <<>> \in Seq(ToSet(<<>>)) /\ Graph = LoadedGraph(<<>>)
  BY DEF Init, NoGraph, Graph
<1>2. \A s \in Slots : got[s] = <<>>
  BY DEF Init, Nothing, Slots
<1> QED
  BY <1>1, <1>2 DEF Heard, Slots

LEMMA HeardNext ==
  ASSUME Inv, Heard, [Next]_vars
  PROVE  Heard'
<1>1. DOMAIN got = Slots
  BY DEF Inv, Calling, RequestTypeOK
<1>2. CASE UNCHANGED <<graph, got>>
  BY <1>2 DEF Heard, Graph
<1>3. CASE LoadGraph
  <2>1. graphFile.build \in Builds
    BY <1>3 DEF LoadGraph, Inv, FilesTypeOK, Reading, InOrder, Builds
  <2>2. corpus[graphFile.build] \in Corpora
    BY <2>1 DEF Inv, FilesTypeOK
  <2> DEFINE rels == corpus[graphFile.build].rels
  <2>3. rels \in Seq(ToSet(rels))
    BY <2>2, RetrieveAssumption
  <2>4. Graph' = LoadedGraph(rels)
    BY <1>3 DEF LoadGraph, Graph
  <2>5. \A s \in Slots : got'[s] = <<>>
    BY <1>3 DEF LoadGraph, Inv, Calling, Collected, Nothing, Slots
  <2> QED
    BY <2>3, <2>4, <2>5 DEF Heard, Slots
<1>4. CASE FetchTripleTrace
  <2>1. PICK t \in Traces : got' = [got EXCEPT !["trace"] = <<t>>]
    BY <1>4 DEF FetchTripleTrace, Collect
  <2>2. Graph' = Graph
    BY <1>4 DEF FetchTripleTrace, Collect, Graph
  <2>3. got'.trace[1] = t /\ \A s \in Slots \ {"trace"} : got'[s] = got[s]
    BY <1>1, <2>1 DEF Slots
  <2> QED
    BY <2>2, <2>3 DEF Heard, Slots
<1>5. CASE FetchPath2Triples
  <2>1. PICK l \in ScoredLists : got' = [got EXCEPT !["path2"] = <<l>>]
    BY <1>5 DEF FetchPath2Triples, Collect
  <2>2. Graph' = Graph
    BY <1>5 DEF FetchPath2Triples, Collect, Graph
  <2>3. got'.path2[1] = l /\ \A s \in Slots \ {"path2"} : got'[s] = got[s]
    BY <1>1, <2>1 DEF Slots
  <2> QED
    BY <2>2, <2>3 DEF Heard, Slots
<1>6. CASE FetchRerankTriples
  <2>1. PICK l \in ScoredLists : got' = [got EXCEPT !["rerank"] = <<l>>]
    BY <1>6 DEF FetchRerankTriples, Collect
  <2>2. Graph' = Graph
    BY <1>6 DEF FetchRerankTriples, Collect, Graph
  <2>3. got'.rerank[1] = l /\ \A s \in Slots \ {"rerank"} : got'[s] = got[s]
    BY <1>1, <2>1 DEF Slots
  <2> QED
    BY <2>2, <2>3 DEF Heard, Slots
<1>7. CASE FetchPath1Triples
  <2>0. PICK l \in ScoredLists :
          \E raw : got' = [got EXCEPT !["path1"] =
            <<[by |-> "python", list |-> l, hits |-> <<>>, relations |-> {}, raw |-> raw]>>]
    BY <1>7 DEF FetchPath1Triples, Collect
  <2>1. PICK raw :
          got' = [got EXCEPT !["path1"] =
            <<[by |-> "python", list |-> l, hits |-> <<>>, relations |-> {}, raw |-> raw]>>]
    BY <2>0
  <2>2. Graph' = Graph
    BY <1>7 DEF FetchPath1Triples, Collect, Graph
  <2>3. /\ got'.path1[1].by = "python" /\ got'.path1[1].list = l
        /\ \A s \in Slots \ {"path1"} : got'[s] = got[s]
    BY <1>1, <2>1 DEF Slots
  <2> QED
    BY <2>2, <2>3 DEF Heard, Slots
<1>8. CASE BuildNativePath1Triples
  <2>0. PICK hits \in NodeHits :
          \E relations : got' = [got EXCEPT !["path1"] =
            <<[by |-> "go", list |-> <<>>, hits |-> hits, relations |-> relations,
               raw |-> RawTriples(Graph, TopNodes(Graph, hits, TopK), relations)]>>]
    BY <1>8 DEF BuildNativePath1Triples, Collect
  <2>1. PICK relations :
          got' = [got EXCEPT !["path1"] =
            <<[by |-> "go", list |-> <<>>, hits |-> hits, relations |-> relations,
               raw |-> RawTriples(Graph, TopNodes(Graph, hits, TopK), relations)]>>]
    BY <2>0
  <2>2. Graph' = Graph
    BY <1>8 DEF BuildNativePath1Triples, Collect, Graph
  <2>3. /\ got'.path1[1].by = "go" /\ got'.path1[1].hits = hits
        /\ got'.path1[1].relations = relations
        /\ got'.path1[1].raw = RawTriples(Graph, TopNodes(Graph, hits, TopK), relations)
        /\ \A s \in Slots \ {"path1"} : got'[s] = got[s]
    BY <1>1, <2>1 DEF Slots
  <2> QED
    BY <2>2, <2>3 DEF Heard, Slots
<1>9. CASE Answering
  BY <1>2, <1>9, AnswersOnce DEF Answer
<1> QED
  BY <1>2, <1>3, <1>4, <1>5, <1>6, <1>7, <1>8, <1>9
  DEF Next, Request, Build, Answering, LoadGraphFails, LoadChunks, Fail, Unconfigured,
      CallFails, vars

\* What is collected is what the sidecar may return or Go has derived from the
\* graph that was loaded.
LEMMA HeardHolds == Spec => []Heard
<1>1. Inv /\ Heard /\ [Next]_vars => Heard'
  BY HeardNext
<1> QED
  BY HeardInit, InvHolds, <1>1, PTL DEF Spec

\* Of what is merged, a triple that could be shown and is not has top_k others
\* that are as good, and none is shown that is worse.
LEMMA BestOfMerge ==
  ASSUME NEW path2 \in Seq(ScoredTriple), NEW path1 \in Seq(ScoredTriple),
         NEW all, all = path2 \o path1,
         NEW kept, kept = ToSet(FormatScoredTraceTriples(MergeTraceTriples(path2, path1))),
         NEW t \in {u \in ToSet(all) : Displayable(u)} \ kept
  PROVE  /\ \A u \in kept : u.score >= t.score
         /\ Cardinality({i \in DOMAIN all : all[i].score >= t.score}) > TopK
<1> DEFINE merged == MergeTraceTriples(path2, path1)
<1>a. SortedCut(all, merged)
  BY MergeIsStableSort
<1> HIDE DEF merged
<1> DEFINE D == DOMAIN all
           R == Ahead(all)
<1>1. /\ all \in Seq(ScoredTriple)
      /\ IsFiniteSet(D) /\ TotalOrder(D, R)
      /\ merged \in Seq(ScoredTriple)
      /\ \A i \in D : Place(D, R, i) <= TopK =>
           Place(D, R, i) \in DOMAIN merged /\ merged[Place(D, R, i)] = all[i]
      /\ \A n \in DOMAIN merged : \E i \in D : Place(D, R, i) = n /\ n <= TopK
  BY <1>a DEF SortedCut
<1>2. kept = {merged[n] : n \in {m \in DOMAIN merged : Displayable(merged[m])}}
  <2> DEFINE at == {m \in DOMAIN merged : Displayable(merged[m])}
  <2>1. Len(merged) \in Nat /\ DOMAIN merged = 1 .. Len(merged)
    BY <1>1, LenProperties
  <2>2. IsFiniteSet(DOMAIN merged) /\ at \in SUBSET DOMAIN merged
    BY <2>1, FS_Interval
  <2>3. IsFiniteSet(at) /\ at \in SUBSET Nat
    BY <2>1, <2>2, FS_Subset
  <2>4. kept = ToSet(Picked(merged, at))
    BY DEF FormatScoredTraceTriples, merged
  <2> HIDE DEF at
  <2>5. kept = {merged[n] : n \in at}
    BY <2>3, <2>4, PickedIs
  <2> QED
    BY <2>5 DEF at
<1>3. PICK i \in D : all[i] = t
  BY DEF ToSet
<1>4. /\ Place(D, R, i) \in 1 .. Cardinality(D) /\ Cardinality(D) \in Nat
      /\ \A j \in D : Place(D, R, j) \in 1 .. Cardinality(D)
      /\ \A j \in D : i # j /\ <<i, j>> \in R => Place(D, R, i) < Place(D, R, j)
  <2> HIDE DEF D, R
  <2> QED
    BY <1>1, <1>3, PlacesAreTaken
<1>5. TopK \in Nat
  BY RetrievalAssumption
<1>6. ~(Place(D, R, i) <= TopK)
  <2> SUFFICES ASSUME Place(D, R, i) <= TopK
               PROVE  t \in kept
    OBVIOUS
  <2> DEFINE n == Place(D, R, i)
  <2>1. n \in DOMAIN merged /\ merged[n] = t
    BY <1>1, <1>3
  <2> HIDE DEF n
  <2> QED
    BY <1>2, <2>1
<1>7. \A j \in D : all[j].score \in Int
  <2> TAKE j \in D
  <2>1. all[j] \in ScoredTriple
    BY <1>1
  <2> QED
    BY <2>1 DEF ScoredTriple
<1>8. \A j \in D : <<j, i>> \in R => all[j].score >= t.score
  <2> TAKE j \in D
  <2> HAVE <<j, i>> \in R
  <2>1. all[j].score > all[i].score \/ all[j].score = all[i].score
    BY DEF Ahead
  <2>2. all[j].score \in Int /\ all[i].score \in Int /\ all[i] = t
    BY <1>3, <1>7
  <2> QED
    BY <2>1, <2>2
<1>9. ASSUME NEW u \in kept
      PROVE  u.score >= t.score
  <2>1. PICK n \in DOMAIN merged : u = merged[n]
    BY <1>2
  <2>2. PICK j \in D : Place(D, R, j) = n /\ n <= TopK
    BY <1>1
  <2>3. u = all[j]
    BY <1>1, <2>1, <2>2
  <2>4. <<j, i>> \in R
    <3>1. ~(Place(D, R, i) < Place(D, R, j)) /\ i # j
      BY <1>4, <1>5, <1>6, <2>2
    <3> HIDE DEF D, R
    <3> QED
      BY <1>1, <1>4, <3>1 DEF TotalOrder
  <2> QED
    BY <1>8, <2>3, <2>4
<1>10. Cardinality({j \in D : all[j].score >= t.score}) > TopK
  <2> DEFINE good == {j \in D : all[j].score >= t.score}
             down == {j \in D : <<j, i>> \in R}
  <2>1. down \in SUBSET good /\ good \in SUBSET D
    BY <1>8
  <2> HIDE DEF D, R
  <2>2. IsFiniteSet(good)
    BY <1>1, <2>1, FS_Subset
  <2>3. Cardinality(down) <= Cardinality(good) /\ Cardinality(good) \in Nat
    BY <2>1, <2>2, FS_Subset, FS_CardinalityType
  <2>4. Cardinality(down) = Place(D, R, i)
    BY DEF Place
  <2> HIDE DEF good, down
  <2>5. Cardinality(good) > TopK
    BY <1>4, <1>5, <1>6, <2>3, <2>4
  <2> QED
    BY <2>5 DEF good
<1> QED
  BY <1>9, <1>10

\* A record of a trace has triples with scores.
LEMMA RecordOfTrace ==
  ASSUME Heard, Record # <<>>
  PROVE  Record[1].path1 \in Seq(ScoredTriple)
<1> DEFINE records == got.trace[1]
           asked == {i \in DOMAIN records : records[i].asked}
<1>1. got.trace # <<>> /\ Record = SelectTripleTraceRecord(records)
  BY DEF Record
<1>2. records \in Seq(TraceRecord)
  BY <1>1, RetrieveAssumption DEF Heard
<1>3. DOMAIN records = 1 .. Len(records) /\ Len(records) \in Nat
  BY <1>2, LenProperties
<1>4. Record[1] \in TraceRecord
  <2>1. CASE asked # {}
    <3>1. asked \in SUBSET Nat
      BY <1>3
    <3>2. Min(asked) \in asked
      BY <2>1, <3>1, MinIsLeast
    <3>3. Record = <<records[Min(asked)]>>
      BY <1>1, <2>1 DEF SelectTripleTraceRecord
    <3>4. Min(asked) \in 1 .. Len(records)
      BY <1>3, <3>2
    <3> HIDE DEF records, asked
    <3>5. records[Min(asked)] \in TraceRecord
      BY <1>2, <3>4, ElementOfSeq
    <3> QED
      BY <3>3, <3>5
  <2>2. CASE asked = {}
    <3>1. Record = records /\ Len(records) = 1
      BY <1>1, <2>2 DEF SelectTripleTraceRecord
    <3> QED
      BY <1>2, <3>1
  <2> QED
    BY <2>1, <2>2
<1> QED
  BY <1>4 DEF TraceRecord

\* The list that is merged with that of path 2.
Other ==
  CASE got.rerank # <<>> -> got.rerank[1]
    [] got.trace # <<>>  -> Record[1].path1
    [] OTHER             -> got.path1[1].list

LEMMA MergedAnswer ==
  ASSUME Inv, Heard, BestTriplesKept, Answering, got.path2 # <<>>, Strategy # "native"
  PROVE  /\ answer'.triples = FormatScoredTraceTriples(MergeTraceTriples(got.path2[1], Other))
         /\ Other \in Seq(ScoredTriple)
<1>1. pc = "collect" /\ todo = <<>>
  BY AnswersOnce
<1>2. /\ got.trace # <<>> <=> request.mode = "path2-detrace"
      /\ got.path1 # <<>> <=>
           request.mode \in {"primitive-merge", "rerank-merge", "native-path1-rerank"}
      /\ got.rerank # <<>> <=> request.mode \in {"rerank-merge", "native-path1-rerank"}
      /\ request.mode \in {"path2-detrace", "primitive-merge", "rerank-merge",
                           "native-path1-rerank"}
      /\ got.path1 # <<>> =>
           (got.path1[1].by = "go" <=> request.mode = "native-path1-rerank")
  BY <1>1, SlotsOfMode
<1>3. got.trace = <<>> => Record = <<>>
  BY DEF Record
<1>4. CASE got.rerank # <<>>
  <2>1. Strategy \in {"rerank_merge", "go_rerank_merge"} /\ Other = got.rerank[1]
    BY <1>2, <1>4 DEF Strategy, Other
  <2>2. RetrieveFromRerankPrimitiveMerge
    BY <2>1 DEF Answering, RetrieveFromPrimitiveMerge, RetrieveFromPath2Detrace,
                RetrieveFromTripleTrace, RetrieveNative, Takes
  <2>3. answer'.triples = FormatScoredTraceTriples(MergeTraceTriples(got.path2[1], Other))
    BY <2>1, <2>2 DEF RetrieveFromRerankPrimitiveMerge, Merge, Answer
  <2> QED
    BY <1>4, <2>1, <2>3, RetrieveAssumption DEF Heard
<1>5. CASE got.rerank = <<>> /\ got.trace # <<>>
  <2>1. Strategy = "path2_detrace" /\ Other = Record[1].path1 /\ Record # <<>>
    BY <1>2, <1>5 DEF Strategy, Other
  <2>2. RetrieveFromPath2Detrace
    BY <2>1 DEF Answering, RetrieveFromPrimitiveMerge, RetrieveFromRerankPrimitiveMerge,
                RetrieveFromTripleTrace, RetrieveNative, Takes
  <2>3. answer'.triples = FormatScoredTraceTriples(MergeTraceTriples(got.path2[1], Other))
    BY <2>1, <2>2 DEF RetrieveFromPath2Detrace, Answer
  <2> QED
    BY <2>1, <2>3, RecordOfTrace
<1>6. CASE got.rerank = <<>> /\ got.trace = <<>>
  <2>1. /\ Strategy = "primitive_merge" /\ Other = got.path1[1].list
        /\ got.path1 # <<>> /\ got.path1[1].by # "go"
    BY <1>2, <1>6 DEF Strategy, Other
  <2>2. RetrieveFromPrimitiveMerge
    BY <2>1 DEF Answering, RetrieveFromRerankPrimitiveMerge, RetrieveFromPath2Detrace,
                RetrieveFromTripleTrace, RetrieveNative, Takes
  <2>3. answer'.triples = FormatScoredTraceTriples(MergeTraceTriples(got.path2[1], Other))
    BY <2>1, <2>2 DEF RetrieveFromPrimitiveMerge, Merge, Answer
  <2> QED
    BY <2>1, <2>3, RetrieveAssumption DEF Heard
<1> QED
  BY <1>4, <1>5, <1>6

LEMMA BestNext ==
  ASSUME Inv, Heard, BestTriplesKept, [Next]_vars
  PROVE  BestTriplesKept'
<1>1. CASE Answering
  <2>1. UNCHANGED got /\ answer'.strategy = Strategy
    BY <1>1, AnswersOnce DEF Answer
  <2>2. CASE got.path2 # <<>> /\ Strategy # "native"
    <3> DEFINE all == got.path2[1] \o Other
               kept == ToSet(answer'.triples)
    <3>1. /\ answer'.triples = FormatScoredTraceTriples(MergeTraceTriples(got.path2[1], Other))
          /\ Other \in Seq(ScoredTriple)
      BY <1>1, <2>2, MergedAnswer
    <3>2. got.path2[1] \in Seq(ScoredTriple)
      BY <2>2, RetrieveAssumption DEF Heard
    <3>3. Other' = Other
      BY <2>1 DEF Other, Record
    <3> HIDE DEF all, kept
    <3>4. \A t \in {u \in ToSet(all) : Displayable(u)} \ kept :
            /\ \A u \in kept : u.score >= t.score
            /\ Cardinality({i \in DOMAIN all : all[i].score >= t.score}) > TopK
      BY ZenonT(60), <3>1, <3>2, BestOfMerge DEF all, kept
    <3>5. BestTriplesKept' <=>
            (pc' = "answered" /\ got'.path2 # <<>> /\ answer'.strategy # "native" =>
             \A t \in {u \in ToSet(got'.path2[1] \o Other') : Displayable(u)} \ kept :
               /\ \A u \in kept : u.score >= t.score
               /\ Cardinality({i \in DOMAIN (got'.path2[1] \o Other') :
                                 (got'.path2[1] \o Other')[i].score >= t.score}) > TopK)
      BY DEF BestTriplesKept, Other, kept
    <3> QED
      BY <2>1, <3>3, <3>4, <3>5 DEF all
  <2>3. CASE ~(got.path2 # <<>> /\ Strategy # "native")
    BY ZenonT(60), <2>1, <2>3 DEF BestTriplesKept
  <2> QED
    BY <2>2, <2>3
<1>2. CASE pc' # "answered"
  BY <1>2 DEF BestTriplesKept
<1>3. CASE UNCHANGED <<pc, got, answer>>
  <2>1. /\ pc' = pc /\ got' = got /\ answer' = answer
        /\ Other' = Other
    BY <1>3 DEF Other, Record
  <2> DEFINE P(p, g, a, other) ==
        p = "answered" /\ g.path2 # <<>> /\ a.strategy # "native" =>
          \A t \in {u \in ToSet(g.path2[1] \o other) : Displayable(u)} \ ToSet(a.triples) :
            /\ \A u \in ToSet(a.triples) : u.score >= t.score
            /\ Cardinality({i \in DOMAIN (g.path2[1] \o other) :
                              (g.path2[1] \o other)[i].score >= t.score}) > TopK
  <2>2. BestTriplesKept <=> P(pc, got, answer, Other)
    BY DEF BestTriplesKept, Other
  <2>3. BestTriplesKept' <=> P(pc', got', answer', Other')
    BY DEF BestTriplesKept, Other
  <2> HIDE DEF P
  <2> QED
    BY <2>1, <2>2, <2>3
<1>4. Next => Answering \/ pc' # "answered" \/ UNCHANGED <<pc, got, answer>>
  BY DEF Next, Request, Build, Answering, LoadGraph, LoadGraphFails, LoadChunks, Fail,
         Unconfigured, CallFails, FetchTripleTrace, FetchPath1Triples, FetchPath2Triples,
         BuildNativePath1Triples, FetchRerankTriples, Collect, Awaiting
<1> QED
  BY <1>1, <1>2, <1>3, <1>4 DEF vars

\* Whatever lists the sidecar returns, merging, cutting to top_k and dropping
\* what cannot be shown leave out no triple for a worse one, and none at all
\* unless top_k others are as good (mergeTraceTriples, formatScoredTraceTriples).
THEOREM BestTriplesKeptHolds == Spec => []BestTriplesKept
<1>1. Init => BestTriplesKept
  BY DEF Init, BestTriplesKept
<1>2. Inv /\ Heard /\ BestTriplesKept /\ [Next]_vars => BestTriplesKept'
  BY BestNext
<1> QED
  BY <1>1, <1>2, InvHolds, HeardHolds, PTL DEF Spec

-----------------------------------------------------------------------------
(* Folds of a sequence, step by step.                                      *)

LEMMA MaxIsGreatest ==
  ASSUME NEW n \in Nat, NEW s \in SUBSET (1 .. n), s # {}
  PROVE  Max(s) \in s /\ \A x \in s : x <= Max(s)
<1> DEFINE gaps == {n - x : x \in s}
<1>1. gaps \in SUBSET Nat /\ gaps # {}
  <2>1. \A x \in s : n - x \in Nat
    OBVIOUS
  <2>2. \E x \in s : n - x \in gaps
    OBVIOUS
  <2> QED
    BY <2>1, <2>2
<1>2. PICK d \in gaps : \A e \in gaps : d <= e
  <2> HIDE DEF gaps
  <2> QED
    BY <1>1, LeastNumber
<1>3. PICK m \in s : d = n - m
  BY <1>2
<1>4. \A x \in s : n - m <= n - x
  BY <1>2, <1>3
<1>5. \A x \in s : x \in Nat /\ m \in Nat /\ m >= x
  BY <1>4
<1>6. Max(s) \in s /\ \A x \in s : Max(s) >= x
  BY <1>5 DEF Max
<1> QED
  BY <1>6

LEMMA MaxOfInterval ==
  ASSUME NEW k \in Nat \ {0}
  PROVE  1 .. k # {} /\ Max(1 .. k) = k /\ (1 .. k) \ {k} = 1 .. (k - 1)
<1>1. k \in 1 .. k /\ (1 .. k) \ {k} = 1 .. (k - 1)
  OBVIOUS
<1>2. Max(1 .. k) \in 1 .. k /\ \A x \in 1 .. k : x <= Max(1 .. k)
  BY <1>1, MaxIsGreatest
<1> DEFINE m == Max(1 .. k)
<1>3. m \in 1 .. k /\ k <= m
  BY <1>1, <1>2
<1> HIDE DEF m
<1>4. m = k
  BY <1>3
<1> QED
  BY <1>1, <1>4 DEF m

\* h runs through the steps.
Runs(h, n, base, step) ==
  h[0] = base /\ \A i \in 1 .. n : h[i] = step[<<h[i - 1], i>>]

LEMMA RunExists ==
  ASSUME NEW n \in Nat, NEW A, NEW base \in A, NEW step \in [A \X (1 .. n) -> A]
  PROVE  \E h \in [0 .. n -> A] : Runs(h, n, base, step)
<1> DEFINE Good(m) == \E h \in [0 .. m -> A] : Runs(h, m, base, step)
           Bad == {m \in 0 .. n : ~Good(m)}
<1>1. Good(0)
  <2>1. [i \in 0 .. 0 |-> base] \in [0 .. 0 -> A]
    OBVIOUS
  <2>2. Runs([i \in 0 .. 0 |-> base], 0, base, step)
    BY DEF Runs
  <2> QED
    BY <2>1, <2>2
<1>2. ASSUME NEW m \in 1 .. n, Good(m - 1)
      PROVE  Good(m)
  <2>1. PICK h \in [0 .. (m - 1) -> A] : Runs(h, m - 1, base, step)
    BY <1>2
  <2> DEFINE k == [i \in 0 .. m |-> IF i = m THEN step[<<h[m - 1], m>>] ELSE h[i]]
  <2>2. h[m - 1] \in A /\ \A i \in 0 .. (m - 1) : h[i] \in A
    BY <2>1
  <2>3. step[<<h[m - 1], m>>] \in A
    BY <2>2
  <2>4. k \in [0 .. m -> A]
    BY <2>2, <2>3
  <2>a. \A i \in 0 .. (m - 1) : i \in 0 .. m /\ i # m /\ k[i] = h[i]
    OBVIOUS
  <2>5. /\ k[0] = base
        /\ k[m] = step[<<k[m - 1], m>>]
        /\ \A i \in 1 .. (m - 1) : k[i] = step[<<k[i - 1], i>>]
    <3>1. m - 1 \in 0 .. (m - 1) /\ 0 \in 0 .. (m - 1) /\ m \in 0 .. m
      OBVIOUS
    <3>2. k[m] = step[<<h[m - 1], m>>]
      BY <3>1
    <3>3. \A i \in 1 .. (m - 1) : i \in 0 .. (m - 1) /\ i - 1 \in 0 .. (m - 1)
      OBVIOUS
    <3> HIDE DEF k
    <3> QED
      BY <2>1, <2>a, <3>1, <3>2, <3>3 DEF Runs
  <2>6. Runs(k, m, base, step)
    <3>1. \A i \in 1 .. m : i = m \/ i \in 1 .. (m - 1)
      OBVIOUS
    <3> HIDE DEF k
    <3> QED
      BY <2>5, <3>1 DEF Runs
  <2> QED
    BY <2>4, <2>6
<1>3. Bad = {}
  <2> SUFFICES ASSUME Bad # {} PROVE FALSE
    OBVIOUS
  <2>1. Bad \in SUBSET Nat
    OBVIOUS
  <2> HIDE DEF Good
  <2>2. PICK m \in Bad : \A x \in Bad : m <= x
    <3> HIDE DEF Bad
    <3> QED
      BY <2>1, LeastNumber
  <2>3. m # 0
    BY <1>1, <2>2
  <2>4. m \in 1 .. n /\ m - 1 \in 0 .. n /\ m - 1 \notin Bad
    BY <2>2, <2>3
  <2> QED
    BY <1>2, <2>2, <2>4
<1>4. Good(n)
  <2> HIDE DEF Good
  <2> QED
    BY <1>3
<1> QED
  BY <1>4

\* Steps that change nothing.
LEMMA RunStays ==
  ASSUME NEW n \in Nat, NEW h, NEW a \in 0 .. n,
         \A i \in (a + 1) .. n : h[i] = h[i - 1]
  PROVE  h[n] = h[a]
<1> DEFINE Bad == {k \in a .. n : h[k] # h[a]}
<1>1. Bad = {}
  <2> SUFFICES ASSUME Bad # {} PROVE FALSE
    OBVIOUS
  <2>1. Bad \in SUBSET Nat
    OBVIOUS
  <2>2. PICK k \in Bad : \A x \in Bad : k <= x
    <3> HIDE DEF Bad
    <3> QED
      BY <2>1, LeastNumber
  <2>3. k \in (a + 1) .. n /\ k - 1 \in a .. n /\ k - 1 \notin Bad
    BY <2>2
  <2> QED
    BY <2>2, <2>3
<1> QED
  BY <1>1

\* Two runs with the same steps so far.
LEMMA RunsAgree ==
  ASSUME NEW m \in Nat, NEW h, NEW k, h[0] = k[0],
         \A i \in 1 .. m : h[i - 1] = k[i - 1] => h[i] = k[i]
  PROVE  \A i \in 0 .. m : h[i] = k[i]
<1> DEFINE Bad == {i \in 0 .. m : h[i] # k[i]}
<1>1. Bad = {}
  <2> SUFFICES ASSUME Bad # {} PROVE FALSE
    OBVIOUS
  <2>1. Bad \in SUBSET Nat
    OBVIOUS
  <2>2. PICK i \in Bad : \A x \in Bad : i <= x
    <3> HIDE DEF Bad
    <3> QED
      BY <2>1, LeastNumber
  <2>3. i \in 1 .. m /\ i - 1 \in 0 .. m /\ i - 1 \notin Bad
    BY <2>2
  <2> QED
    BY <2>2, <2>3
<1> QED
  BY <1>1

\* it solves the recursion of a fold over the sets of positions, wherever its
\* values are in A.
Solves(it, n, A, base, step) ==
  /\ it[{}] = base
  /\ \A s \in SUBSET (1 .. n) :
       s # {} /\ it[s \ {Max(s)}] \in A => it[s] = step[<<it[s \ {Max(s)}], Max(s)>>]

\* There is a solution.
LEMMA FoldExists ==
  ASSUME NEW n \in Nat, NEW A, NEW base \in A, NEW step \in [A \X (1 .. n) -> A]
  PROVE  \E it \in [SUBSET (1 .. n) -> A] : Solves(it, n, A, base, step)
<1> DEFINE only(s) == [p \in A \X (1 .. n) |-> IF p[2] \in s THEN step[p] ELSE p[1]]
           H(s) == CHOOSE h \in [0 .. n -> A] : Runs(h, n, base, only(s))
           it == [s \in SUBSET (1 .. n) |-> H(s)[n]]
<1>1. \A s \in SUBSET (1 .. n) : H(s) \in [0 .. n -> A] /\ Runs(H(s), n, base, only(s))
  <2> TAKE s \in SUBSET (1 .. n)
  <2>1. only(s) \in [A \X (1 .. n) -> A]
    OBVIOUS
  <2> HIDE DEF only
  <2>2. \E h \in [0 .. n -> A] : Runs(h, n, base, only(s))
    BY <2>1, RunExists
  <2> QED
    BY <2>2
<1> HIDE DEF H
<1>2. \A s \in SUBSET (1 .. n) :
        /\ H(s)[0] = base
        /\ \A i \in 1 .. n : /\ H(s)[i - 1] \in A
                             /\ i \in s => H(s)[i] = step[<<H(s)[i - 1], i>>]
                             /\ i \notin s => H(s)[i] = H(s)[i - 1]
  <2> TAKE s \in SUBSET (1 .. n)
  <2>1. H(s) \in [0 .. n -> A] /\ Runs(H(s), n, base, only(s))
    BY <1>1
  <2>2. ASSUME NEW i \in 1 .. n
        PROVE  /\ H(s)[i - 1] \in A
               /\ i \in s => H(s)[i] = step[<<H(s)[i - 1], i>>]
               /\ i \notin s => H(s)[i] = H(s)[i - 1]
    <3>1. i - 1 \in 0 .. n /\ H(s)[i - 1] \in A
      BY <2>1
    <3>2. H(s)[i] = only(s)[<<H(s)[i - 1], i>>]
      BY <2>1 DEF Runs
    <3> QED
      BY <3>1, <3>2
  <2> QED
    BY <2>1, <2>2 DEF Runs
<1> HIDE DEF only
<1>3. H({})[n] = base
  <2>1. \A i \in (0 + 1) .. n : i \in 1 .. n
    OBVIOUS
  <2> DEFINE h == H({})
  <2>2. h[0] = base /\ \A i \in 1 .. n : h[i] = h[i - 1]
    BY <1>2
  <2> HIDE DEF h
  <2>3. h[n] = h[0]
    BY <2>1, <2>2, RunStays
  <2> QED
    BY <2>2, <2>3 DEF h
<1>4. ASSUME NEW s \in SUBSET (1 .. n), s # {}
      PROVE  H(s)[n] = step[<<H(s \ {Max(s)})[n], Max(s)>>]
  <2> DEFINE m == Max(s)
             t == s \ {m}
  <2>1. m \in s /\ \A x \in s : x <= m
    BY <1>4, MaxIsGreatest
  <2> HIDE DEF m
  <2>2. t \in SUBSET (1 .. n) /\ m \in 1 .. n /\ m \in 0 .. n /\ m - 1 \in 0 .. n
    BY <2>1
  <2>3. H(s)[n] = H(s)[m]
    <3> DEFINE h == H(s)
    <3>1. \A i \in 1 .. n : i \notin s => h[i] = h[i - 1]
      BY <1>2
    <3>2. \A i \in (m + 1) .. n : i \in 1 .. n /\ i \notin s
      BY <2>1, <2>2
    <3> HIDE DEF h
    <3>3. \A i \in (m + 1) .. n : h[i] = h[i - 1]
      BY <3>1, <3>2
    <3>4. h[n] = h[m]
      BY <2>2, <3>3, RunStays
    <3> QED
      BY <3>4 DEF h
  <2>4. H(t)[n] = H(t)[m - 1]
    <3>1. \A i \in ((m - 1) + 1) .. n : i \in 1 .. n /\ i \notin t
      BY <2>1, <2>2
    <3> HIDE DEF t
    <3> DEFINE h == H(t)
    <3>2. \A i \in 1 .. n : i \notin t => h[i] = h[i - 1]
      BY <1>2, <2>2
    <3> HIDE DEF h
    <3>3. \A i \in ((m - 1) + 1) .. n : h[i] = h[i - 1]
      BY <3>1, <3>2
    <3>4. h[n] = h[m - 1]
      BY <2>2, <3>3, RunStays
    <3> QED
      BY <3>4 DEF h
  <2>5. H(s)[m - 1] = H(t)[m - 1]
    <3> DEFINE hs == H(s)
               ht == H(t)
    <3>1. \A i \in 1 .. (m - 1) : i \in 1 .. n /\ (i \in s <=> i \in t)
      BY <2>2
    <3> HIDE DEF t
    <3>2. /\ hs[0] = base
          /\ \A i \in 1 .. n : /\ i \in s => hs[i] = step[<<hs[i - 1], i>>]
                               /\ i \notin s => hs[i] = hs[i - 1]
      BY <1>2
    <3>3. /\ ht[0] = base
          /\ \A i \in 1 .. n : /\ i \in t => ht[i] = step[<<ht[i - 1], i>>]
                               /\ i \notin t => ht[i] = ht[i - 1]
      BY <1>2, <2>2
    <3>4. m - 1 \in Nat /\ m - 1 \in 0 .. (m - 1)
      BY <2>2
    <3> HIDE DEF hs, ht
    <3>5. \A i \in 1 .. (m - 1) : hs[i - 1] = ht[i - 1] => hs[i] = ht[i]
      BY <3>1, <3>2, <3>3
    <3>6. hs[0] = ht[0]
      BY <3>2, <3>3
    <3>7. \A i \in 0 .. (m - 1) : hs[i] = ht[i]
      BY <3>4, <3>5, <3>6, RunsAgree
    <3>8. hs[m - 1] = ht[m - 1]
      BY <3>4, <3>7
    <3> QED
      BY <3>8 DEF hs, ht
  <2>6. H(s)[m] = step[<<H(s)[m - 1], m>>]
    BY <1>2, <2>1, <2>2
  <2> QED
    BY <2>3, <2>4, <2>5, <2>6 DEF m
<1>5. it \in [SUBSET (1 .. n) -> A]
  <2>1. n \in 0 .. n
    OBVIOUS
  <2> QED
    BY <1>1, <2>1
<1>6. ASSUME NEW s \in SUBSET (1 .. n)
      PROVE  it[s] = IF s = {} THEN base ELSE step[<<it[s \ {Max(s)}], Max(s)>>]
  BY <1>3, <1>4
<1>7. Solves(it, n, A, base, step)
  <2> HIDE DEF it
  <2>1. {} \in SUBSET (1 .. n)
    OBVIOUS
  <2> QED
    BY <1>6, <2>1 DEF Solves
<1> QED
  BY <1>5, <1>7

\* What is folded so far, by position.
PartialFolds(it, n) == [k \in 0 .. n |-> it[1 .. k]]

\* Whatever solves the recursion of a fold runs through its steps.
LEMMA IterRuns ==
  ASSUME NEW n \in Nat, NEW A, NEW base \in A, NEW step \in [A \X (1 .. n) -> A],
         NEW it, Solves(it, n, A, base, step)
  PROVE  PartialFolds(it, n) \in [0 .. n -> A] /\ Runs(PartialFolds(it, n), n, base, step)
<1> DEFINE h == [k \in 0 .. n |-> it[1 .. k]]
<1>s. /\ it[{}] = base
      /\ \A s \in SUBSET (1 .. n) :
           s # {} /\ it[s \ {Max(s)}] \in A => it[s] = step[<<it[s \ {Max(s)}], Max(s)>>]
  BY DEF Solves
<1>1. 0 \in 0 .. n /\ 1 .. 0 = {} /\ h[0] = base
  <2>1. 0 \in 0 .. n /\ 1 .. 0 = {}
    OBVIOUS
  <2>2. h[0] = it[1 .. 0]
    BY <2>1
  <2> QED
    BY <1>s, <2>1, <2>2
<1>2. ASSUME NEW k \in 1 .. n, h[k - 1] \in A
      PROVE  h[k] = step[<<h[k - 1], k>>] /\ h[k] \in A
  <2>1. k \in Nat \ {0} /\ k \in 0 .. n /\ k - 1 \in 0 .. n /\ 1 .. k \in SUBSET (1 .. n)
    OBVIOUS
  <2>2. h[k] = it[1 .. k] /\ h[k - 1] = it[1 .. (k - 1)]
    BY <2>1
  <2>3. 1 .. k # {} /\ Max(1 .. k) = k /\ (1 .. k) \ {k} = 1 .. (k - 1)
    BY <2>1, MaxOfInterval
  <2> HIDE DEF h
  <2> DEFINE s == 1 .. k
  <2>4. s \in SUBSET (1 .. n) /\ s # {} /\ Max(s) = k /\ s \ {Max(s)} = 1 .. (k - 1)
    BY <2>1, <2>3
  <2>5. it[s] = step[<<it[s \ {Max(s)}], Max(s)>>]
    <3> HIDE DEF s
    <3>1. it[s \ {Max(s)}] \in A
      BY <1>2, <2>2, <2>4
    <3> QED
      BY <1>s, <2>4, <3>1
  <2>6. h[k] = step[<<h[k - 1], k>>]
    BY <2>2, <2>4, <2>5
  <2> QED
    BY <1>2, <2>6
<1>3. \A k \in 0 .. n : h[k] \in A
  <2> DEFINE Bad == {k \in 0 .. n : h[k] \notin A}
  <2> SUFFICES ASSUME Bad # {} PROVE FALSE
    OBVIOUS
  <2>1. Bad \in SUBSET Nat
    OBVIOUS
  <2> HIDE DEF h
  <2>2. PICK k \in Bad : \A x \in Bad : k <= x
    <3> HIDE DEF Bad
    <3> QED
      BY <2>1, LeastNumber
  <2>3. k \in 1 .. n /\ k - 1 \in 0 .. n /\ k - 1 \notin Bad
    BY <1>1, <2>2
  <2> QED
    BY <1>2, <2>2, <2>3
<1>4. h \in [0 .. n -> A]
  BY <1>3
<1>5. \A i \in 1 .. n : i - 1 \in 0 .. n
  OBVIOUS
<1> HIDE DEF h
<1>6. Runs(h, n, base, step)
  BY <1>1, <1>2, <1>3, <1>5 DEF Runs
<1> QED
  BY <1>4, <1>6 DEF h, PartialFolds

-----------------------------------------------------------------------------
(* The graph and its top nodes.                                            *)

\* A sequence is also one over any larger set.
LEMMA SeqWithin ==
  ASSUME NEW S, NEW T, S \in SUBSET T, NEW s \in Seq(S)
  PROVE  s \in Seq(T)
<1>1. Len(s) \in Nat /\ s = [i \in 1 .. Len(s) |-> s[i]]
  BY LenProperties
<1>2. \A i \in 1 .. Len(s) : s[i] \in T
  BY ElementOfSeq
<1> QED
  BY <1>1, <1>2

\* Taking each element where it occurs first loses none.
LEMMA FirstOccurrencesIs ==
  ASSUME NEW s, s \in Seq(ToSet(s))
  PROVE  /\ FirstOccurrences(s) \in Seq(ToSet(s))
         /\ ToSet(FirstOccurrences(s)) = ToSet(s)
<1> DEFINE at == {i \in DOMAIN s : \A j \in 1 .. (i - 1) : s[j] # s[i]}
<1>1. Len(s) \in Nat /\ DOMAIN s = 1 .. Len(s)
  BY LenProperties
<1>2. at \in SUBSET Nat /\ IsFiniteSet(at)
  <2>1. at \in SUBSET (1 .. Len(s)) /\ IsFiniteSet(1 .. Len(s))
    BY <1>1, FS_Interval
  <2> QED
    BY <2>1, FS_Subset
<1>3. FirstOccurrences(s) = Picked(s, at)
  BY DEF FirstOccurrences
<1>4. ASSUME NEW x \in ToSet(s)
      PROVE  \E i \in at : s[i] = x
  <2> DEFINE places == {i \in DOMAIN s : s[i] = x}
  <2>1. places \in SUBSET Nat /\ places # {}
    BY <1>1, <1>4 DEF ToSet
  <2>2. PICK i \in places : \A j \in places : i <= j
    <3> HIDE DEF places
    <3> QED
      BY <2>1, LeastNumber
  <2>3. i \in DOMAIN s /\ i \in 1 .. Len(s) /\ s[i] = x
    BY <1>1, <2>2
  <2>4. ASSUME NEW j \in 1 .. (i - 1)
        PROVE  s[j] # s[i]
    <3>1. j \in DOMAIN s /\ ~(i <= j)
      BY <1>1, <2>3
    <3> QED
      BY <2>2, <2>3, <3>1
  <2> QED
    BY <2>3, <2>4
<1>5. ToSet(Picked(s, at)) = {s[i] : i \in at}
  <2> HIDE DEF at
  <2> QED
    BY <1>2, PickedIs
<1>6. {s[i] : i \in at} = ToSet(s)
  BY <1>4 DEF ToSet
<1>7. Picked(s, at) \in Seq(ToSet(Picked(s, at)))
  <2> HIDE DEF at
  <2> QED
    BY <1>2, PickedIs
<1> QED
  BY <1>3, <1>5, <1>6, <1>7

LEMMA AscendingIs ==
  ASSUME NEW S \in SUBSET Nat, IsFiniteSet(S)
  PROVE  Ascending(S) \in Seq(S) /\ ToSet(Ascending(S)) = S
<1> DEFINE s == [n \in S |-> n]
<1>1. ToSet(Picked(s, S)) = {s[i] : i \in S} /\ Picked(s, S) \in Seq(ToSet(Picked(s, S)))
  <2> HIDE DEF s
  <2> QED
    BY PickedIs
<1>2. {s[i] : i \in S} = S
  OBVIOUS
<1> QED
  BY <1>1, <1>2 DEF Ascending

\* Edges join nodes, and nodes are numbers.
GraphOK(g) ==
  /\ g.nodes \in SUBSET Nat /\ IsFiniteSet(g.nodes)
  /\ g.edges \in Seq(ToSet(g.edges))
  /\ \A i \in DOMAIN g.edges : g.edges[i][1] \in g.nodes /\ g.edges[i][3] \in g.nodes

LEMMA LoadedGraphOK ==
  ASSUME NEW rels, rels \in Seq(ToSet(rels))
  PROVE  GraphOK(LoadedGraph(rels))
<1> DEFINE said == [i \in 1 .. (2 * Len(rels)) |->
                     IF i % 2 = 1 THEN rels[(i + 1) \div 2].start ELSE rels[i \div 2].end]
           Key(n) == <<n.label, n.name>>
           named  == [i \in DOMAIN said |-> Key(said[i])]
           keys   == FirstOccurrences(named)
           Id(n)  == CHOOSE i \in DOMAIN keys : keys[i] = Key(n)
           g      == LoadedGraph(rels)
<1>1. Len(rels) \in Nat /\ DOMAIN rels = 1 .. Len(rels)
  BY LenProperties
<1>2. DOMAIN said = 1 .. (2 * Len(rels)) /\ DOMAIN named = 1 .. (2 * Len(rels))
  OBVIOUS
<1>3. named \in Seq(ToSet(named))
  <2>1. named = [i \in 1 .. (2 * Len(rels)) |-> named[i]]
    OBVIOUS
  <2>2. \A i \in 1 .. (2 * Len(rels)) : named[i] \in ToSet(named)
    BY DEF ToSet
  <2>3. 2 * Len(rels) \in Nat
    BY <1>1
  <2> HIDE DEF named
  <2> QED
    BY <2>1, <2>2, <2>3
<1>4. keys \in Seq(ToSet(named)) /\ ToSet(keys) = ToSet(named)
  <2> HIDE DEF named
  <2> QED
    BY <1>3, FirstOccurrencesIs
<1>5. DOMAIN keys \in SUBSET Nat /\ IsFiniteSet(DOMAIN keys)
  <2> HIDE DEF keys
  <2>1. Len(keys) \in Nat /\ DOMAIN keys = 1 .. Len(keys)
    BY <1>4, LenProperties
  <2> QED
    BY SMTT(30), <2>1, FS_Interval
<1>6. ASSUME NEW i \in DOMAIN rels
      PROVE  Id(rels[i].start) \in DOMAIN keys /\ Id(rels[i].end) \in DOMAIN keys
  <2> DEFINE a == 2 * i - 1
             b == 2 * i
  <2>1. /\ a \in 1 .. (2 * Len(rels)) /\ a % 2 = 1 /\ (a + 1) \div 2 = i
        /\ b \in 1 .. (2 * Len(rels)) /\ b % 2 # 1 /\ b \div 2 = i
    <3>1. i \in Nat /\ 1 <= i /\ i <= Len(rels)
      BY <1>1
    <3>2. a \in 1 .. (2 * Len(rels)) /\ b \in 1 .. (2 * Len(rels))
      BY <1>1, <3>1
    <3>3. a % 2 = 1 /\ b % 2 # 1
      BY <3>1
    <3>4. (a + 1) \div 2 = i /\ b \div 2 = i
      BY <3>1
    <3> QED
      BY <3>2, <3>3, <3>4
  <2>2. said[a] = rels[i].start /\ said[b] = rels[i].end
    BY <2>1
  <2>3. a \in DOMAIN named /\ b \in DOMAIN named
    BY <1>2, <2>1
  <2>4. named[a] = Key(rels[i].start) /\ named[b] = Key(rels[i].end)
    BY <2>2, <2>3
  <2>5. Key(rels[i].start) \in ToSet(named) /\ Key(rels[i].end) \in ToSet(named)
    BY <2>3, <2>4 DEF ToSet
  <2> HIDE DEF Key, named, said, a, b
  <2>6. Key(rels[i].start) \in ToSet(keys) /\ Key(rels[i].end) \in ToSet(keys)
    BY SMTT(40), <1>4, <2>5
  <2> HIDE DEF keys
  <2> QED
    BY <2>6 DEF ToSet
<1>7. /\ g.nodes = DOMAIN keys
      /\ g.edges = [i \in DOMAIN rels |->
                     <<Id(rels[i].start), rels[i].relation, Id(rels[i].end)>>]
  BY DEF LoadedGraph
<1>8. g.edges \in Seq(ToSet(g.edges))
  <2> HIDE DEF Id, keys
  <2> DEFINE es == g.edges
  <2>1. es = [i \in 1 .. Len(rels) |-> es[i]]
    BY <1>1, <1>7
  <2>2. \A i \in 1 .. Len(rels) : es[i] \in ToSet(es)
    BY <1>1, <1>7 DEF ToSet
  <2> HIDE DEF es
  <2>3. es \in Seq(ToSet(es))
    BY <1>1, <2>1, <2>2
  <2> QED
    BY <2>3 DEF es
<1>9. \A i \in DOMAIN g.edges : g.edges[i][1] \in g.nodes /\ g.edges[i][3] \in g.nodes
  <2> HIDE DEF Id, keys
  <2> QED
    BY <1>6, <1>7
<1> QED
  BY <1>5, <1>7, <1>8, <1>9 DEF GraphOK

LEMMA RankedIs ==
  ASSUME NEW g, GraphOK(g), NEW hits \in Seq(NodeHit)
  PROVE  Ranked(g, hits) \in Seq(g.nodes)
<1> DEFINE at    == {i \in DOMAIN hits : hits[i].relevant /\ hits[i].node \in g.nodes}
           of    == [i \in DOMAIN hits |-> hits[i].node]
           found == Picked(of, at)
           words == Ascending(KeywordNodes(g))
<1>1. at \in SUBSET Nat /\ IsFiniteSet(at)
  <2>1. Len(hits) \in Nat /\ DOMAIN hits = 1 .. Len(hits)
    BY LenProperties
  <2>2. at \in SUBSET (1 .. Len(hits)) /\ IsFiniteSet(1 .. Len(hits))
    BY <2>1, FS_Interval
  <2> QED
    BY <2>2, FS_Subset
<1>2. found \in Seq(g.nodes)
  <2>1. ToSet(found) = {of[i] : i \in at} /\ found \in Seq(ToSet(found))
    <3> HIDE DEF at, of
    <3> QED
      BY <1>1, PickedIs
  <2>2. {of[i] : i \in at} \in SUBSET g.nodes
    OBVIOUS
  <2> HIDE DEF found
  <2> QED
    BY <2>1, <2>2, SeqWithin
<1>3. words \in Seq(g.nodes)
  <2>1. KeywordNodes(g) \in SUBSET g.nodes
    BY DEF KeywordNodes
  <2>2. KeywordNodes(g) \in SUBSET Nat /\ IsFiniteSet(KeywordNodes(g))
    BY <2>1, FS_Subset DEF GraphOK
  <2>3. words \in Seq(KeywordNodes(g))
    BY <2>2, AscendingIs
  <2> QED
    BY <2>1, <2>3, SeqWithin
<1>4. Ranked(g, hits) = FirstOccurrences(found \o words)
  BY DEF Ranked
<1> HIDE DEF found, words
<1> DEFINE all == found \o words
<1>5. all \in Seq(g.nodes)
  BY <1>2, <1>3, ConcatProperties
<1> HIDE DEF all
<1>6. all \in Seq(ToSet(all)) /\ ToSet(all) \in SUBSET g.nodes
  <2>1. Len(all) \in Nat /\ all = [i \in 1 .. Len(all) |-> all[i]]
        /\ DOMAIN all = 1 .. Len(all)
    BY <1>5, LenProperties
  <2>2. \A i \in 1 .. Len(all) : all[i] \in ToSet(all) /\ all[i] \in g.nodes
    BY <1>5, <2>1, ElementOfSeq DEF ToSet
  <2>3. all \in Seq(ToSet(all))
    BY <2>1, <2>2
  <2>4. ToSet(all) \in SUBSET g.nodes
    BY <2>1, <2>2 DEF ToSet
  <2> QED
    BY <2>3, <2>4
<1>7. FirstOccurrences(all) \in Seq(ToSet(all))
  BY <1>6, FirstOccurrencesIs
<1> QED
  BY <1>4, <1>6, <1>7, SeqWithin DEF all

\* The top nodes for a smaller number are the first of those for a larger one.
LEMMA TopNodesIs ==
  ASSUME NEW g, GraphOK(g), NEW hits \in Seq(NodeHit),
         NEW k \in Nat, NEW m \in Nat, k <= m
  PROVE  /\ TopNodes(g, hits, k) \in Seq(g.nodes)
         /\ TopNodes(g, hits, m) \in Seq(g.nodes)
         /\ Len(TopNodes(g, hits, k)) <= Len(TopNodes(g, hits, m))
         /\ \A i \in 1 .. Len(TopNodes(g, hits, k)) :
              TopNodes(g, hits, k)[i] = TopNodes(g, hits, m)[i]
<1> DEFINE s == Ranked(g, hits)
<1>1. s \in Seq(g.nodes)
  BY RankedIs
<1>2. TopNodes(g, hits, k) = FirstOf(s, k) /\ TopNodes(g, hits, m) = FirstOf(s, m)
  BY DEF TopNodes
<1> HIDE DEF s
<1>3. Len(s) \in Nat
  BY <1>1, LenProperties
<1>4. /\ FirstOf(s, k) \in Seq(g.nodes)
      /\ Len(FirstOf(s, k)) = IF k <= Len(s) THEN k ELSE Len(s)
      /\ \A i \in 1 .. Len(FirstOf(s, k)) : FirstOf(s, k)[i] = s[i]
  BY <1>1, FirstOfIs
<1>5. /\ FirstOf(s, m) \in Seq(g.nodes)
      /\ Len(FirstOf(s, m)) = IF m <= Len(s) THEN m ELSE Len(s)
      /\ \A i \in 1 .. Len(FirstOf(s, m)) : FirstOf(s, m)[i] = s[i]
  BY <1>1, FirstOfIs
<1>6. /\ Len(FirstOf(s, k)) \in Nat /\ Len(FirstOf(s, m)) \in Nat
      /\ Len(FirstOf(s, k)) <= Len(FirstOf(s, m))
  BY <1>3, <1>4, <1>5
<1>7. \A i \in 1 .. Len(FirstOf(s, k)) : i \in 1 .. Len(FirstOf(s, m))
  BY <1>6
<1> QED
  BY <1>2, <1>4, <1>5, <1>6, <1>7

-----------------------------------------------------------------------------
(* The candidates of path 1.                                               *)

\* Edges that touch a set of nodes and whose relation has a name.
Touching(g, near) == {e \in ToSet(g.edges) : {e[1], e[3]} \cap near # {} /\ e[2] # 0}

LEMMA EdgeByPairIs ==
  ASSUME NEW g, GraphOK(g), NEW u, NEW v, NEW e \in EdgeByPair(g, u, v)
  PROVE  e \in ToSet(g.edges) /\ e[1] = u /\ e[3] = v /\ e[2] # 0 /\ u \in g.nodes /\ v \in g.nodes
<1> DEFINE at == {i \in DOMAIN g.edges : g.edges[i][1] = u /\ g.edges[i][3] = v}
<1>1. Len(g.edges) \in Nat /\ DOMAIN g.edges = 1 .. Len(g.edges)
  BY LenProperties DEF GraphOK
<1>2. at # {} /\ g.edges[Min(at)][2] # 0 /\ e = g.edges[Min(at)]
  BY DEF EdgeByPair
<1>3. at \in SUBSET Nat
  BY <1>1
<1>4. Min(at) \in at
  <2> HIDE DEF at
  <2> QED
    BY <1>2, <1>3, MinIsLeast
<1>5. Min(at) \in DOMAIN g.edges /\ g.edges[Min(at)][1] = u /\ g.edges[Min(at)][3] = v
  BY <1>4
<1> QED
  BY <1>2, <1>5 DEF ToSet, GraphOK

LEMMA NeighborsAre ==
  ASSUME NEW g, GraphOK(g), NEW n
  PROVE  Neighbors(g, n) \in SUBSET g.nodes /\ Neighbors(g, n) \in SUBSET Nat
         /\ IsFiniteSet(Neighbors(g, n))
<1>1. Neighbors(g, n) \in SUBSET g.nodes
  BY DEF Neighbors, GraphOK, ToSet
<1> QED
  BY <1>1, FS_Subset DEF GraphOK

\* Paths all of whose nodes but the last are near.
Walks(g, near) ==
  {p \in Seq(g.nodes) : Len(p) >= 1 /\ \A i \in 1 .. (Len(p) - 1) : p[i] \in near}

\* What a search may have visited and found, if it had found lo before.
Searches(g, near, lo) ==
  {a \in [visited : SUBSET g.nodes, found : SUBSET Touching(g, near)] :
     lo \subseteq a.found}

LEMMA VisitKeeps ==
  ASSUME NEW g, GraphOK(g), NEW near, NEW lo,
         NEW acc \in Searches(g, near, lo), NEW path \in Walks(g, near)
  PROVE  Visit(g, acc, path) \in Searches(g, near, lo)
<1>1. Len(path) \in Nat /\ Len(path) >= 1 /\ path \in Seq(g.nodes)
  BY LenProperties DEF Walks
<1>2. Last(path) \in g.nodes
  BY <1>1, ElementOfSeq DEF Last
<1>3. ASSUME NEW i \in 1 .. (Len(path) - 1), NEW e \in EdgeByPair(g, path[i], path[i + 1])
      PROVE  e \in Touching(g, near)
  <2>1. path[i] \in near
    BY DEF Walks
  <2> QED
    BY <1>3, <2>1, EdgeByPairIs DEF Touching
<1> DEFINE more == IF Last(path) \in KeywordNodes(g)
             THEN UNION {EdgeByPair(g, path[i], path[i + 1]) : i \in 1 .. (Len(path) - 1)}
             ELSE {}
<1>4. more \in SUBSET Touching(g, near)
  BY <1>3
<1>5. Visit(g, acc, path) = [visited |-> acc.visited \cup {Last(path)}, found |-> acc.found \cup more]
  BY DEF Visit
<1> HIDE DEF more
<1> QED
  BY <1>2, <1>4, <1>5 DEF Searches

LEMMA OnwardIs ==
  ASSUME NEW g, GraphOK(g), NEW near,
         NEW path \in Walks(g, near), Last(path) \in near
  PROVE  /\ Onward(g, path) \in Seq(Walks(g, near))
         /\ \A i \in 1 .. Len(Onward(g, path)) :
              Last(Onward(g, path)[i]) \in Neighbors(g, Last(path))
<1> DEFINE N == Neighbors(g, Last(path))
           next == Ascending(N)
<1>1. N \in SUBSET g.nodes /\ next \in Seq(N)
  <2>1. N \in SUBSET g.nodes /\ N \in SUBSET Nat /\ IsFiniteSet(N)
    BY NeighborsAre
  <2> HIDE DEF N
  <2> QED
    BY <2>1, AscendingIs
<1> HIDE DEF next
<1>2. Len(path) \in Nat /\ Len(path) >= 1 /\ path \in Seq(g.nodes)
      /\ \A i \in 1 .. (Len(path) - 1) : path[i] \in near
  BY LenProperties DEF Walks
<1>3. path[Len(path)] \in near
  BY DEF Last
<1> HIDE DEF N
<1>4. ASSUME NEW m \in N
      PROVE  Append(path, m) \in Walks(g, near) /\ Last(Append(path, m)) = m
  <2> DEFINE p == Append(path, m)
  <2>1. /\ p \in Seq(g.nodes) /\ Len(p) = Len(path) + 1
        /\ \A i \in 1 .. Len(path) : p[i] = path[i]
        /\ p[Len(path) + 1] = m
    BY <1>1, <1>2, <1>4, AppendProperties
  <2> HIDE DEF p
  <2>2. Last(p) = m
    BY <2>1 DEF Last
  <2>3. ASSUME NEW i \in 1 .. (Len(p) - 1)
        PROVE  p[i] \in near
    <3>1. i \in 1 .. Len(path) /\ (i = Len(path) \/ i \in 1 .. (Len(path) - 1))
      BY <1>2, <2>1
    <3> QED
      BY <1>2, <1>3, <2>1, <3>1
  <2>4. Len(p) >= 1
    BY <1>2, <2>1
  <2>5. p \in Walks(g, near)
    BY <2>1, <2>3, <2>4 DEF Walks
  <2> QED
    BY <2>2, <2>5 DEF p
<1>5. Len(next) \in Nat /\ DOMAIN next = 1 .. Len(next) /\ \A i \in 1 .. Len(next) : next[i] \in N
  BY <1>1, LenProperties, ElementOfSeq
<1>6. Onward(g, path) = [i \in 1 .. Len(next) |-> Append(path, next[i])]
  BY <1>5 DEF Onward, next, N
<1>7. \A i \in 1 .. Len(next) : Append(path, next[i]) \in Walks(g, near)
                              /\ Last(Append(path, next[i])) \in N
  BY <1>4, <1>5
<1>8. Onward(g, path) \in Seq(Walks(g, near))
  BY <1>5, <1>6, <1>7
<1>9. Len(Onward(g, path)) = Len(next)
  BY <1>5, <1>6, <1>8, LenProperties
<1> QED
  BY <1>6, <1>7, <1>8, <1>9 DEF N

\* The three folds of the path search, each over the one before it.
All2(g, base, seq) == FoldLeft(LAMBDA a, p : Depth2(g, a, p), base, seq)

All1(g, base, seq) == FoldLeft(LAMBDA a, p : Depth1(g, a, p), base, seq)

All0(g, base, seq) == FoldLeft(LAMBDA a, n : Depth0(g, a, <<n>>), base, seq)

Closed2(g, A, P) == \A a \in A, p \in P : Depth2(g, a, p) \in A

Runs2(h, g, base, seq) ==
  /\ h[0] = base
  /\ \A i \in 1 .. Len(seq) : h[i] = Depth2(g, h[i - 1], seq[i])
  /\ All2(g, base, seq) = h[Len(seq)]

Closed1(g, A, P) == \A a \in A, p \in P : Depth1(g, a, p) \in A

Runs1(h, g, base, seq) ==
  /\ h[0] = base
  /\ \A i \in 1 .. Len(seq) : h[i] = Depth1(g, h[i - 1], seq[i])
  /\ All1(g, base, seq) = h[Len(seq)]

Closed0(g, A, P) == \A a \in A, p \in P : Depth0(g, a, <<p>>) \in A

Runs0(h, g, base, seq) ==
  /\ h[0] = base
  /\ \A i \in 1 .. Len(seq) : h[i] = Depth0(g, h[i - 1], <<seq[i]>>)
  /\ All0(g, base, seq) = h[Len(seq)]

LEMMA FoldsAre ==
  ASSUME NEW g, NEW acc, NEW path
  PROVE  /\ Depth1(g, acc, path) = IF Last(path) \in acc.visited THEN acc
                                   ELSE All2(g, Visit(g, acc, path), Onward(g, path))
         /\ Depth0(g, acc, path) = IF Last(path) \in acc.visited THEN acc
                                   ELSE All1(g, Visit(g, acc, path), Onward(g, path))
<1>1. Depth1(g, acc, path) = IF Last(path) \in acc.visited THEN acc
                             ELSE All2(g, Visit(g, acc, path), Onward(g, path))
  BY DEF Depth1, All2, FoldLeft, MapThenFoldSet
<1>2. Depth0(g, acc, path) = IF Last(path) \in acc.visited THEN acc
                             ELSE All1(g, Visit(g, acc, path), Onward(g, path))
  BY DEF Depth0, All1, FoldLeft, MapThenFoldSet
<1> QED
  BY <1>1, <1>2

LEMMA PathTriplesIs ==
  ASSUME NEW g, NEW top
  PROVE  PathTriples(g, top) = All0(g, [visited |-> {}, found |-> {}], top).found
BY DEF PathTriples, All0, FoldLeft, MapThenFoldSet

LEMMA Depth2Fold ==
  ASSUME NEW g, NEW A, NEW base \in A, NEW P, NEW seq \in Seq(P),
         Closed2(g, A, P)
  PROVE  \E h \in [0 .. Len(seq) -> A] : Runs2(h, g, base, seq)
<1> DEFINE n == Len(seq)
           step == [x \in A \X (1 .. n) |-> Depth2(g, x[1], seq[x[2]])]
           Chosen(it) ==
             it = [s \in SUBSET DOMAIN seq |->
                    IF s = {} THEN base ELSE Depth2(g, it[s \ {Max(s)}], seq[Max(s)])]
           it == CHOOSE it : Chosen(it)
<1>1. n \in Nat /\ DOMAIN seq = 1 .. n /\ n \in 0 .. n /\ \A i \in 1 .. n : seq[i] \in P
  BY LenProperties, ElementOfSeq
<1>c. \A a \in A, p \in P : Depth2(g, a, p) \in A
  BY DEF Closed2
<1> HIDE DEF n
<1>2. step \in [A \X (1 .. n) -> A]
  BY <1>1, <1>c
<1>3. \A a \in A, i \in 1 .. n : step[<<a, i>>] = Depth2(g, a, seq[i])
  OBVIOUS
<1> HIDE DEF step
<1>4. Chosen(it)
  <2>1. PICK f \in [SUBSET (1 .. n) -> A] : Solves(f, n, A, base, step)
    <3> HIDE DEF Chosen, it
    <3> QED
      BY <1>1, <1>2, FoldExists
  <2>2. ASSUME NEW s \in SUBSET (1 .. n), s # {}
        PROVE  f[s] = Depth2(g, f[s \ {Max(s)}], seq[Max(s)])
    <3>1. Max(s) \in 1 .. n
      BY <1>1, <2>2, MaxIsGreatest
    <3>2. f[s \ {Max(s)}] \in A
      BY <2>1
    <3> QED
      BY <1>3, <2>1, <2>2, <3>1, <3>2 DEF Solves
  <2>3. f = [s \in SUBSET (1 .. n) |->
              IF s = {} THEN base ELSE Depth2(g, f[s \ {Max(s)}], seq[Max(s)])]
    BY <2>1, <2>2 DEF Solves
  <2>4. Chosen(f)
    BY <1>1, <2>3
  <2> HIDE DEF Chosen
  <2> QED
    BY <2>4
<1>5. All2(g, base, seq) = it[DOMAIN seq]
  BY DEF All2, FoldLeft, MapThenFoldSet
<1> HIDE DEF it
<1>6. it[{}] = base
  BY <1>4
<1>7. ASSUME NEW s \in SUBSET (1 .. n), s # {}, it[s \ {Max(s)}] \in A
      PROVE  it[s] = step[<<it[s \ {Max(s)}], Max(s)>>]
  <2>1. Max(s) \in 1 .. n
    BY <1>1, <1>7, MaxIsGreatest
  <2>2. it[s] = Depth2(g, it[s \ {Max(s)}], seq[Max(s)])
    BY <1>1, <1>4, <1>7
  <2> HIDE DEF Chosen
  <2> QED
    BY <1>3, <1>7, <2>1, <2>2
<1> HIDE DEF Chosen
<1> DEFINE h == PartialFolds(it, n)
<1>s. Solves(it, n, A, base, step)
  BY <1>6, <1>7 DEF Solves
<1>8. h \in [0 .. n -> A] /\ Runs(h, n, base, step)
  BY <1>1, <1>2, <1>s, IterRuns
<1>9. h[n] = it[DOMAIN seq]
  BY <1>1 DEF PartialFolds
<1> HIDE DEF h
<1>10. \A i \in 1 .. n : i - 1 \in 0 .. n /\ h[i - 1] \in A
  BY <1>1, <1>8
<1>11. h[0] = base /\ \A i \in 1 .. n : h[i] = Depth2(g, h[i - 1], seq[i])
  BY <1>3, <1>8, <1>10 DEF Runs
<1> QED
  BY <1>5, <1>8, <1>9, <1>11 DEF n, Runs2

LEMMA Depth1Fold ==
  ASSUME NEW g, NEW A, NEW base \in A, NEW P, NEW seq \in Seq(P),
         Closed1(g, A, P)
  PROVE  \E h \in [0 .. Len(seq) -> A] : Runs1(h, g, base, seq)
<1> DEFINE n == Len(seq)
           step == [x \in A \X (1 .. n) |-> Depth1(g, x[1], seq[x[2]])]
           Chosen(it) ==
             it = [s \in SUBSET DOMAIN seq |->
                    IF s = {} THEN base ELSE Depth1(g, it[s \ {Max(s)}], seq[Max(s)])]
           it == CHOOSE it : Chosen(it)
<1>1. n \in Nat /\ DOMAIN seq = 1 .. n /\ n \in 0 .. n /\ \A i \in 1 .. n : seq[i] \in P
  BY LenProperties, ElementOfSeq
<1>c. \A a \in A, p \in P : Depth1(g, a, p) \in A
  BY DEF Closed1
<1> HIDE DEF n
<1>2. step \in [A \X (1 .. n) -> A]
  BY <1>1, <1>c
<1>3. \A a \in A, i \in 1 .. n : step[<<a, i>>] = Depth1(g, a, seq[i])
  OBVIOUS
<1> HIDE DEF step
<1>4. Chosen(it)
  <2>1. PICK f \in [SUBSET (1 .. n) -> A] : Solves(f, n, A, base, step)
    <3> HIDE DEF Chosen, it
    <3> QED
      BY <1>1, <1>2, FoldExists
  <2>2. ASSUME NEW s \in SUBSET (1 .. n), s # {}
        PROVE  f[s] = Depth1(g, f[s \ {Max(s)}], seq[Max(s)])
    <3>1. Max(s) \in 1 .. n
      BY <1>1, <2>2, MaxIsGreatest
    <3>2. f[s \ {Max(s)}] \in A
      BY <2>1
    <3> QED
      BY <1>3, <2>1, <2>2, <3>1, <3>2 DEF Solves
  <2>3. f = [s \in SUBSET (1 .. n) |->
              IF s = {} THEN base ELSE Depth1(g, f[s \ {Max(s)}], seq[Max(s)])]
    BY <2>1, <2>2 DEF Solves
  <2>4. Chosen(f)
    BY <1>1, <2>3
  <2> HIDE DEF Chosen
  <2> QED
    BY <2>4
<1>5. All1(g, base, seq) = it[DOMAIN seq]
  BY DEF All1, FoldLeft, MapThenFoldSet
<1> HIDE DEF it
<1>6. it[{}] = base
  BY <1>4
<1>7. ASSUME NEW s \in SUBSET (1 .. n), s # {}, it[s \ {Max(s)}] \in A
      PROVE  it[s] = step[<<it[s \ {Max(s)}], Max(s)>>]
  <2>1. Max(s) \in 1 .. n
    BY <1>1, <1>7, MaxIsGreatest
  <2>2. it[s] = Depth1(g, it[s \ {Max(s)}], seq[Max(s)])
    BY <1>1, <1>4, <1>7
  <2> HIDE DEF Chosen
  <2> QED
    BY <1>3, <1>7, <2>1, <2>2
<1> HIDE DEF Chosen
<1> DEFINE h == PartialFolds(it, n)
<1>s. Solves(it, n, A, base, step)
  BY <1>6, <1>7 DEF Solves
<1>8. h \in [0 .. n -> A] /\ Runs(h, n, base, step)
  BY <1>1, <1>2, <1>s, IterRuns
<1>9. h[n] = it[DOMAIN seq]
  BY <1>1 DEF PartialFolds
<1> HIDE DEF h
<1>10. \A i \in 1 .. n : i - 1 \in 0 .. n /\ h[i - 1] \in A
  BY <1>1, <1>8
<1>11. h[0] = base /\ \A i \in 1 .. n : h[i] = Depth1(g, h[i - 1], seq[i])
  BY <1>3, <1>8, <1>10 DEF Runs
<1> QED
  BY <1>5, <1>8, <1>9, <1>11 DEF n, Runs1

LEMMA Depth0Fold ==
  ASSUME NEW g, NEW A, NEW base \in A, NEW P, NEW seq \in Seq(P),
         Closed0(g, A, P)
  PROVE  \E h \in [0 .. Len(seq) -> A] : Runs0(h, g, base, seq)
<1> DEFINE n == Len(seq)
           step == [x \in A \X (1 .. n) |-> Depth0(g, x[1], <<seq[x[2]]>>)]
           Chosen(it) ==
             it = [s \in SUBSET DOMAIN seq |->
                    IF s = {} THEN base ELSE Depth0(g, it[s \ {Max(s)}], <<seq[Max(s)]>>)]
           it == CHOOSE it : Chosen(it)
<1>1. n \in Nat /\ DOMAIN seq = 1 .. n /\ n \in 0 .. n /\ \A i \in 1 .. n : seq[i] \in P
  BY LenProperties, ElementOfSeq
<1>c. \A a \in A, p \in P : Depth0(g, a, <<p>>) \in A
  BY DEF Closed0
<1> HIDE DEF n
<1>2. step \in [A \X (1 .. n) -> A]
  BY <1>1, <1>c
<1>3. \A a \in A, i \in 1 .. n : step[<<a, i>>] = Depth0(g, a, <<seq[i]>>)
  OBVIOUS
<1> HIDE DEF step
<1>4. Chosen(it)
  <2>1. PICK f \in [SUBSET (1 .. n) -> A] : Solves(f, n, A, base, step)
    <3> HIDE DEF Chosen, it
    <3> QED
      BY <1>1, <1>2, FoldExists
  <2>2. ASSUME NEW s \in SUBSET (1 .. n), s # {}
        PROVE  f[s] = Depth0(g, f[s \ {Max(s)}], <<seq[Max(s)]>>)
    <3>1. Max(s) \in 1 .. n
      BY <1>1, <2>2, MaxIsGreatest
    <3>2. f[s \ {Max(s)}] \in A
      BY <2>1
    <3> QED
      BY <1>3, <2>1, <2>2, <3>1, <3>2 DEF Solves
  <2>3. f = [s \in SUBSET (1 .. n) |->
              IF s = {} THEN base ELSE Depth0(g, f[s \ {Max(s)}], <<seq[Max(s)]>>)]
    BY <2>1, <2>2 DEF Solves
  <2>4. Chosen(f)
    BY <1>1, <2>3
  <2> HIDE DEF Chosen
  <2> QED
    BY <2>4
<1>5. All0(g, base, seq) = it[DOMAIN seq]
  BY DEF All0, FoldLeft, MapThenFoldSet
<1> HIDE DEF it
<1>6. it[{}] = base
  BY <1>4
<1>7. ASSUME NEW s \in SUBSET (1 .. n), s # {}, it[s \ {Max(s)}] \in A
      PROVE  it[s] = step[<<it[s \ {Max(s)}], Max(s)>>]
  <2>1. Max(s) \in 1 .. n
    BY <1>1, <1>7, MaxIsGreatest
  <2>2. it[s] = Depth0(g, it[s \ {Max(s)}], <<seq[Max(s)]>>)
    BY <1>1, <1>4, <1>7
  <2> HIDE DEF Chosen
  <2> QED
    BY <1>3, <1>7, <2>1, <2>2
<1> HIDE DEF Chosen
<1> DEFINE h == PartialFolds(it, n)
<1>s. Solves(it, n, A, base, step)
  BY <1>6, <1>7 DEF Solves
<1>8. h \in [0 .. n -> A] /\ Runs(h, n, base, step)
  BY <1>1, <1>2, <1>s, IterRuns
<1>9. h[n] = it[DOMAIN seq]
  BY <1>1 DEF PartialFolds
<1> HIDE DEF h
<1>10. \A i \in 1 .. n : i - 1 \in 0 .. n /\ h[i - 1] \in A
  BY <1>1, <1>8
<1>11. h[0] = base /\ \A i \in 1 .. n : h[i] = Depth0(g, h[i - 1], <<seq[i]>>)
  BY <1>3, <1>8, <1>10 DEF Runs
<1> QED
  BY <1>5, <1>8, <1>9, <1>11 DEF n, Runs0

\* Each search keeps what was found, and finds only edges that touch near.
LEMMA Depth2Keeps ==
  ASSUME NEW g, GraphOK(g), NEW near, NEW lo,
         NEW acc \in Searches(g, near, lo), NEW path \in Walks(g, near)
  PROVE  Depth2(g, acc, path) \in Searches(g, near, lo)
BY VisitKeeps DEF Depth2

LEMMA Depth1Keeps ==
  ASSUME NEW g, GraphOK(g), NEW near, NEW lo, NEW acc \in Searches(g, near, lo),
         NEW path \in Walks(g, near), Last(path) \in near
  PROVE  Depth1(g, acc, path) \in Searches(g, near, lo)
<1> DEFINE A == Searches(g, near, lo)
           W == Walks(g, near)
           base == Visit(g, acc, path)
           seq  == Onward(g, path)
<1>1. base \in A
  BY VisitKeeps
<1>2. seq \in Seq(W)
  BY OnwardIs
<1>3. Closed2(g, A, W)
  BY Depth2Keeps DEF Closed2
<1>4. Depth1(g, acc, path) = IF Last(path) \in acc.visited THEN acc ELSE All2(g, base, seq)
  BY FoldsAre
<1>5. acc \in A
  OBVIOUS
<1> HIDE DEF A, W, base, seq
<1>6. PICK h \in [0 .. Len(seq) -> A] : Runs2(h, g, base, seq)
  BY <1>1, <1>2, <1>3, Depth2Fold
<1>7. Len(seq) \in 0 .. Len(seq)
  BY <1>2, LenProperties
<1>8. Depth1(g, acc, path) \in A
  BY <1>4, <1>5, <1>6, <1>7 DEF Runs2
<1> QED
  BY <1>8 DEF A

\* The paths from a top node go over nodes that are near.
Starts(g, near) ==
  {p \in Walks(g, near) : Last(p) \in near /\ Neighbors(g, Last(p)) \subseteq near}

LEMMA Depth0Keeps ==
  ASSUME NEW g, GraphOK(g), NEW near, NEW lo, NEW acc \in Searches(g, near, lo),
         NEW path \in Starts(g, near)
  PROVE  Depth0(g, acc, path) \in Searches(g, near, lo)
<1> DEFINE A == Searches(g, near, lo)
           W == {p \in Walks(g, near) : Last(p) \in near}
           base == Visit(g, acc, path)
           seq  == Onward(g, path)
<1>0. path \in Walks(g, near) /\ Last(path) \in near /\ Neighbors(g, Last(path)) \subseteq near
  BY DEF Starts
<1>1. base \in A
  BY <1>0, VisitKeeps
<1>2. seq \in Seq(W)
  <2>1. seq \in Seq(Walks(g, near)) /\ \A i \in 1 .. Len(seq) : Last(seq[i]) \in near
    BY <1>0, OnwardIs
  <2> HIDE DEF seq
  <2>2. Len(seq) \in Nat /\ seq = [i \in 1 .. Len(seq) |-> seq[i]]
    BY <2>1, LenProperties
  <2>3. \A i \in 1 .. Len(seq) : seq[i] \in W
    BY <2>1, ElementOfSeq
  <2> HIDE DEF W
  <2> QED
    BY <2>2, <2>3
<1>3. Closed1(g, A, W)
  BY Depth1Keeps DEF Closed1
<1>4. Depth0(g, acc, path) = IF Last(path) \in acc.visited THEN acc ELSE All1(g, base, seq)
  BY FoldsAre
<1>5. acc \in A
  OBVIOUS
<1> HIDE DEF A, W, base, seq
<1>6. PICK h \in [0 .. Len(seq) -> A] : Runs1(h, g, base, seq)
  BY <1>1, <1>2, <1>3, Depth1Fold
<1>7. Len(seq) \in 0 .. Len(seq)
  BY <1>2, LenProperties
<1>8. Depth0(g, acc, path) \in A
  BY <1>4, <1>5, <1>6, <1>7 DEF Runs1
<1> QED
  BY <1>8 DEF A

NearNodes(g, top) == ToSet(top) \cup UNION {Neighbors(g, n) : n \in ToSet(top)}

LEMMA StartsAt ==
  ASSUME NEW g, NEW top \in Seq(g.nodes), NEW n \in ToSet(top)
  PROVE  <<n>> \in Starts(g, NearNodes(g, top))
<1>1. n \in g.nodes
  BY LenProperties, ElementOfSeq DEF ToSet
<1>2. <<n>> \in Seq(g.nodes) /\ Len(<<n>>) = 1 /\ Last(<<n>>) = n
  <2>1. Len(<<n>>) = 1 /\ <<n>>[1] = n
    OBVIOUS
  <2>2. <<n>> \in Seq(g.nodes)
    <3> DEFINE S == g.nodes
    <3>1. n \in S
      BY <1>1
    <3> HIDE DEF S
    <3>2. [i \in 1 .. 1 |-> n] \in Seq(S)
      BY <3>1
    <3>3. <<n>> = [i \in 1 .. 1 |-> n]
      OBVIOUS
    <3> QED
      BY <3>2, <3>3 DEF S
  <2> QED
    BY <2>1, <2>2 DEF Last
<1>3. n \in NearNodes(g, top) /\ Neighbors(g, n) \subseteq NearNodes(g, top)
  BY DEF NearNodes
<1>4. <<n>> \in Walks(g, NearNodes(g, top))
  BY <1>2 DEF Walks
<1> QED
  BY <1>2, <1>3, <1>4 DEF Starts

\* What grows from step to step has grown in the end.
LEMMA RunGrows ==
  ASSUME NEW n \in Nat, NEW h, NEW a \in 0 .. n,
         \A i \in 1 .. n : h[i - 1].found \subseteq h[i].found
  PROVE  h[a].found \subseteq h[n].found
<1> DEFINE Bad == {k \in a .. n : ~(h[a].found \subseteq h[k].found)}
<1>1. Bad = {}
  <2> SUFFICES ASSUME Bad # {} PROVE FALSE
    OBVIOUS
  <2>1. Bad \in SUBSET Nat
    OBVIOUS
  <2>2. PICK k \in Bad : \A x \in Bad : k <= x
    <3> HIDE DEF Bad
    <3> QED
      BY <2>1, LeastNumber
  <2>3. k \in (a + 1) .. n /\ k - 1 \in a .. n /\ k - 1 \notin Bad
    BY <2>2
  <2>4. k \in 1 .. n /\ h[a].found \subseteq h[k - 1].found
    BY <2>3
  <2> QED
    BY <2>2, <2>4
<1> QED
  BY <1>1

\* A path search that goes on from more top nodes finds what the shorter one
\* does, and only edges near them.
LEMMA PathTriplesGrow ==
  ASSUME NEW g, GraphOK(g), NEW few \in Seq(g.nodes), NEW top \in Seq(g.nodes),
         Len(few) <= Len(top), \A i \in 1 .. Len(few) : few[i] = top[i]
  PROVE  /\ PathTriples(g, top) \subseteq Touching(g, NearNodes(g, top))
         /\ PathTriples(g, few) \subseteq PathTriples(g, top)
<1> DEFINE near == NearNodes(g, top)
           A == Searches(g, near, {})
           base == [visited |-> {}, found |-> {}]
           n == Len(top)
           m == Len(few)
<1>1. n \in Nat /\ m \in Nat /\ m <= n /\ DOMAIN top = 1 .. n /\ DOMAIN few = 1 .. m
  BY LenProperties
<1>2. top \in Seq(ToSet(top)) /\ few \in Seq(ToSet(top))
  <2>1. /\ \A i \in 1 .. n : top[i] \in ToSet(top)
        /\ \A i \in 1 .. m : few[i] \in ToSet(top)
    BY <1>1 DEF ToSet
  <2>2. top = [i \in 1 .. n |-> top[i]] /\ few = [i \in 1 .. m |-> few[i]]
    BY LenProperties
  <2> HIDE DEF n, m
  <2> QED
    BY <1>1, <2>1, <2>2
<1>3. base \in A
  BY DEF Searches
<1>4. \A lo : \A a \in Searches(g, near, lo), p \in ToSet(top) :
        Depth0(g, a, <<p>>) \in Searches(g, near, lo)
  BY StartsAt, Depth0Keeps
<1>5. Closed0(g, A, ToSet(top))
  BY <1>4 DEF Closed0
<1>6. \A a \in A, p \in ToSet(top) : a.found \subseteq Depth0(g, a, <<p>>).found
  <2> TAKE a \in A, p \in ToSet(top)
  <2>1. a \in Searches(g, near, a.found)
    BY DEF Searches
  <2>2. Depth0(g, a, <<p>>) \in Searches(g, near, a.found)
    BY <1>4, <2>1
  <2> QED
    BY <2>2 DEF Searches
<1>7. \A a \in A : a.found \subseteq Touching(g, near)
  BY DEF Searches
<1> HIDE DEF A, base
<1>8. PICK h \in [0 .. n -> A] : Runs0(h, g, base, top)
  BY <1>2, <1>3, <1>5, Depth0Fold
<1>9. PICK k \in [0 .. m -> A] : Runs0(k, g, base, few)
  BY <1>2, <1>3, <1>5, Depth0Fold
<1>a. /\ h[0] = base /\ All0(g, base, top) = h[n]
      /\ \A i \in 1 .. n : h[i] = Depth0(g, h[i - 1], <<top[i]>>)
      /\ k[0] = base /\ All0(g, base, few) = k[m]
      /\ \A i \in 1 .. m : k[i] = Depth0(g, k[i - 1], <<few[i]>>)
  BY <1>8, <1>9 DEF Runs0
<1>b. \A i \in 1 .. m : few[i] = top[i]
  OBVIOUS
<1> HIDE DEF n, m
<1>10. \A i \in 0 .. m : h[i] = k[i]
  <2> DEFINE Bad == {i \in 0 .. m : h[i] # k[i]}
  <2> SUFFICES ASSUME Bad # {} PROVE FALSE
    OBVIOUS
  <2>1. Bad \in SUBSET Nat
    BY <1>1
  <2>2. PICK i \in Bad : \A x \in Bad : i <= x
    <3> HIDE DEF Bad
    <3> QED
      BY <2>1, LeastNumber
  <2>3. i \in 0 .. m /\ i # 0 /\ h[i] # k[i]
    BY <1>a, <2>2
  <2>4. i \in 1 .. m /\ i \in 1 .. n /\ i - 1 \in 0 .. m /\ ~(i <= i - 1)
    BY <1>1, <2>3
  <2>5. h[i - 1] = k[i - 1]
    BY <2>2, <2>4
  <2> HIDE DEF Bad
  <2> QED
    BY <1>a, <1>b, <2>3, <2>4, <2>5
<1>11. h[m].found \subseteq h[n].found
  <2>1. \A i \in 1 .. n : h[i - 1].found \subseteq h[i].found
    <3> TAKE i \in 1 .. n
    <3>1. i - 1 \in 0 .. n /\ h[i - 1] \in A
      BY <1>1, <1>8
    <3>2. top[i] \in ToSet(top)
      BY <1>1 DEF ToSet
    <3> QED
      BY <1>6, <1>a, <3>1, <3>2
  <2>2. m \in 0 .. n
    BY <1>1
  <2> QED
    BY <1>1, <2>1, <2>2, RunGrows
<1>12. h[n] \in A /\ m \in 0 .. m
  BY <1>1, <1>8
<1>13. PathTriples(g, top) = h[n].found /\ PathTriples(g, few) = k[m].found
  BY <1>a, PathTriplesIs DEF base
<1> QED
  BY <1>7, <1>10, <1>11, <1>12, <1>13

\* The raw candidates are named edges near the top nodes, hold from each of them
\* to every other node the edge that counts, the first of parallel ones, if that
\* has a name, and with more top nodes none of them is lost: for any graph.
THEOREM RawTriplesAreComplete ==
  ASSUME NEW g, GraphOK(g), NEW relations,
         NEW few \in Seq(g.nodes), NEW top \in Seq(g.nodes),
         Len(few) <= Len(top), \A i \in 1 .. Len(few) : few[i] = top[i]
  PROVE  /\ RawTriples(g, top, relations) \subseteq Touching(g, NearNodes(g, top))
         /\ \A n \in ToSet(top), m \in g.nodes :
              EdgeByPair(g, n, m) \subseteq RawTriples(g, top, relations)
         /\ RawTriples(g, few, relations) \subseteq RawTriples(g, top, relations)
<1> DEFINE near == NearNodes(g, top)
           Seen(t, i) == UNION {Neighbors(g, t[j]) : j \in 1 .. i}
           Pairs(t, i) ==
             UNION {EdgeByPair(g, t[i], n) \cup EdgeByPair(g, n, t[i]) : n \in Seen(t, i)}
<1>1. /\ Len(few) \in Nat /\ DOMAIN few = 1 .. Len(few)
      /\ Len(top) \in Nat /\ DOMAIN top = 1 .. Len(top)
  BY LenProperties
<1>2. \A i \in DOMAIN few : i \in DOMAIN top /\ \A j \in 1 .. i : few[j] = top[j]
  BY <1>1
<1>3. \A i \in DOMAIN top : top[i] \in ToSet(top) /\ top[i] \in near
  BY DEF ToSet, NearNodes
<1>4. \A i \in DOMAIN few : few[i] = top[i] /\ i \in 1 .. i
  BY <1>1, <1>2
<1>5. ToSet(few) \subseteq ToSet(top) /\ ToSet(top) \subseteq near
  BY <1>2, <1>4 DEF ToSet, NearNodes
<1>6. /\ NeighborTriples(g, top) = UNION {Pairs(top, i) : i \in DOMAIN top}
      /\ NeighborTriples(g, few) = UNION {Pairs(few, i) : i \in DOMAIN few}
  BY DEF NeighborTriples
<1>7. \A i \in DOMAIN top : Pairs(top, i) \subseteq Touching(g, near)
  <2> TAKE i \in DOMAIN top
  <2>1. ASSUME NEW n, NEW e \in EdgeByPair(g, top[i], n) \cup EdgeByPair(g, n, top[i])
        PROVE  e \in Touching(g, near)
    BY <1>3, <2>1, EdgeByPairIs DEF Touching
  <2> HIDE DEF near
  <2> QED
    BY <2>1
<1>8. \A i \in DOMAIN few : Pairs(few, i) = Pairs(top, i)
  <2> TAKE i \in DOMAIN few
  <2>1. Seen(few, i) = Seen(top, i)
    BY <1>2
  <2> HIDE DEF Seen
  <2> QED
    BY <1>4, <2>1
<1>9. ASSUME NEW n \in ToSet(top), NEW m \in g.nodes, NEW e \in EdgeByPair(g, n, m)
      PROVE  e \in NeighborTriples(g, top)
  <2>1. PICK i \in DOMAIN top : top[i] = n
    BY DEF ToSet
  <2>2. e \in ToSet(g.edges) /\ e[1] = n /\ e[3] = m
    BY <1>9, EdgeByPairIs
  <2>3. m \in Neighbors(g, n)
    BY <2>2 DEF Neighbors
  <2>4. i \in 1 .. i
    BY <1>1
  <2>5. m \in Seen(top, i)
    BY <2>1, <2>3, <2>4
  <2> HIDE DEF Seen
  <2>6. e \in Pairs(top, i)
    BY <1>9, <2>1, <2>5
  <2> HIDE DEF Pairs
  <2> QED
    BY <1>6, <2>6
<1> HIDE DEF Pairs
<1>10. /\ NeighborTriples(g, top) \subseteq Touching(g, near)
       /\ NeighborTriples(g, few) \subseteq NeighborTriples(g, top)
  <2>1. NeighborTriples(g, top) \subseteq Touching(g, near)
    <3> HIDE DEF near
    <3> QED
      BY <1>6, <1>7
  <2>2. NeighborTriples(g, few) \subseteq NeighborTriples(g, top)
    BY <1>2, <1>6, <1>8
  <2> QED
    BY <2>1, <2>2
<1>11. /\ PathTriples(g, top) \subseteq Touching(g, near)
       /\ PathTriples(g, few) \subseteq PathTriples(g, top)
  BY PathTriplesGrow
<1>12. /\ RelationTriples(g, top, relations) \subseteq Touching(g, near)
       /\ RelationTriples(g, few, relations) \subseteq RelationTriples(g, top, relations)
  <2> HIDE DEF near
  <2> QED
    BY <1>5 DEF RelationTriples, Touching
<1> HIDE DEF near
<1> QED
  BY <1>9, <1>10, <1>11, <1>12 DEF RawTriples, near

\* The raw candidates Go sends to be reranked are named edges near the top nodes,
\* hold the edge that counts from one to every other node, and lose none as top_k
\* grows, whatever the graph and whatever the sidecar scores
\* (nativePath1RawTriples).
THEOREM CandidatesCompleteHolds == Spec => []CandidatesComplete
<1>1. Heard => CandidatesComplete
  <2> SUFFICES ASSUME Heard, got.path1 # <<>>, got.path1[1].by = "go"
               PROVE  CandidatesComplete
    BY DEF CandidatesComplete
  <2> DEFINE g == Graph
             hits == got.path1[1].hits
             relations == got.path1[1].relations
             raw == got.path1[1].raw
             top == TopNodes(g, hits, TopK)
             near == ToSet(top) \cup UNION {Neighbors(g, n) : n \in ToSet(top)}
  <2>1. hits \in NodeHits /\ raw = RawTriples(g, top, relations)
    BY DEF Heard
  <2>2. GraphOK(g)
    <3>1. PICK rels : rels \in Seq(ToSet(rels)) /\ g = LoadedGraph(rels)
      BY DEF Heard
    <3> QED
      BY <3>1, LoadedGraphOK
  <2>3. hits \in Seq(NodeHit)
    BY <2>1, RetrieveAssumption
  <2>4. TopK \in Nat /\ TopK <= TopK
    BY RetrievalAssumption
  <2> HIDE DEF g, hits, relations, raw
  <2>5. top \in Seq(g.nodes)
    BY <2>2, <2>3, <2>4, TopNodesIs
  <2>6. near = NearNodes(g, top)
    BY DEF NearNodes
  <2>7. /\ raw \subseteq {e \in ToSet(g.edges) : {e[1], e[3]} \cap near # {} /\ e[2] # 0}
        /\ \A n \in ToSet(top), m \in g.nodes : EdgeByPair(g, n, m) \subseteq raw
    <3>1. Len(top) <= Len(top) /\ \A i \in 1 .. Len(top) : top[i] = top[i]
      <4> HIDE DEF top
      <4>1. Len(top) \in Nat
        BY <2>5, LenProperties
      <4> QED
        BY <4>1
    <3> HIDE DEF top, near
    <3>2. /\ RawTriples(g, top, relations) \subseteq Touching(g, NearNodes(g, top))
          /\ \A n \in ToSet(top), m \in g.nodes :
               EdgeByPair(g, n, m) \subseteq RawTriples(g, top, relations)
      BY <2>2, <2>5, <3>1, RawTriplesAreComplete
    <3> QED
      BY <2>1, <2>6, <3>2 DEF Touching
  <2>8. ASSUME NEW k \in 1 .. (TopK - 1)
        PROVE  RawTriples(g, TopNodes(g, hits, k), relations) \subseteq raw
    <3> DEFINE few == TopNodes(g, hits, k)
    <3>1. k \in Nat /\ k <= TopK
      BY <2>4
    <3>2. /\ few \in Seq(g.nodes) /\ Len(few) <= Len(top)
          /\ \A i \in 1 .. Len(few) : few[i] = top[i]
      BY <2>2, <2>3, <2>4, <3>1, TopNodesIs
    <3> HIDE DEF few, top
    <3>3. RawTriples(g, few, relations) \subseteq RawTriples(g, top, relations)
      BY <2>2, <2>5, <3>2, RawTriplesAreComplete
    <3> QED
      BY <2>1, <3>3 DEF few
  <2> HIDE DEF top, near
  <2> QED
    BY <2>7, <2>8 DEF CandidatesComplete, g, hits, relations, raw, top, near
<1> QED
  BY HeardHolds, <1>1, PTL
===============================================================================
