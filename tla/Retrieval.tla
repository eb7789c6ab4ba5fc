------------------------------ MODULE Retrieval -------------------------------
(***************************************************************************)
(* The retrieval engine (internal/retrieval) as operators on a graph, a    *)
(* question and what the vector sidecar found: candidate nodes and their   *)
(* triples, chunk ids, the merge of scored triples, and the raw candidates *)
(* of path 1, which Go derives itself in mode native-path1-rerank.         *)
(*                                                                         *)
(* Abstractions.  Nodes, relations and chunk ids are numbers in the order  *)
(* of their names; 0 is the empty name.  A node's text is the set of query *)
(* terms it contains, whichever of its spellings is searched.  A scored    *)
(* triple has a score, a relation, the ids of its chunks and whether it    *)
(* comes with a text to show.                                              *)
(***************************************************************************)
EXTENDS Integers, SequencesExt

CONSTANTS
  TopK,    \* top_k, after its defaults
  Types,   \* the schema types the question involves
  Terms,   \* queryTerms of the question
  Hidden   \* represented_by and kw_filter_by

ASSUME RetrievalAssumption == TopK \in Nat \ {0}

\* scored[:topK]
FirstOf(s, k) == SubSeq(s, 1, Min({k, Len(s)}))

\* The elements of s at some positions, in their order; and a set of numbers
\* in order.
Picked(s, at) ==
  LET nth(n) == CHOOSE i \in at : Cardinality({j \in at : j <= i}) = n
  IN [n \in 1 .. Cardinality(at) |-> s[nth(n)]]

Ascending(S) == Picked([n \in S |-> n], S)

\* Each element where it occurs first.
FirstOccurrences(s) ==
  Picked(s, {i \in DOMAIN s : \A j \in 1 .. (i - 1) : s[j] # s[i]})

-----------------------------------------------------------------------------
(* The graph.                                                              *)

\* loadGraphRAGRelationships: a node is its label and name, and has the rest
\* of what is said of it where it is mentioned first.
LoadedGraph(rels) ==
  LET said   == [i \in 1 .. (2 * Len(rels)) |->
                  IF i % 2 = 1 THEN rels[(i + 1) \div 2].start ELSE rels[i \div 2].end]
      Key(n) == <<n.label, n.name>>
      keys   == FirstOccurrences([i \in DOMAIN said |-> Key(said[i])])
      Id(n)  == CHOOSE i \in DOMAIN keys : keys[i] = Key(n)
      node   == [i \in DOMAIN keys |->
                  said[Min({j \in DOMAIN said : Key(said[j]) = keys[i]})]]
  IN [nodes    |-> DOMAIN keys,
      edges    |-> [i \in DOMAIN rels |->
                     <<Id(rels[i].start), rels[i].relation, Id(rels[i].end)>>],
      entities |-> {i \in DOMAIN keys : node[i].label = "entity"},
      type     |-> [i \in DOMAIN keys |-> node[i].type],
      words    |-> [i \in DOMAIN keys |-> node[i].words],
      chunk    |-> [i \in DOMAIN keys |-> node[i].chunk]]

-----------------------------------------------------------------------------
(* Native retrieval.                                                       *)

NodesBySchemaTypes(g) == {n \in g.nodes : g.type[n] \in Types}

KeywordNodes(g) == {n \in g.nodes : g.words[n] \cap Terms # {}}

\* Without a node of a wanted type or with a wanted word, all entities.
CandidateNodes(g) ==
  LET found == NodesBySchemaTypes(g) \cup KeywordNodes(g)
  IN IF found = {} THEN g.entities ELSE found

Before(e, f) ==
  \E i \in 1 .. 3 : e[i] < f[i] /\ \A j \in 1 .. (i - 1) : e[j] = f[j]

\* The distinct edges at the given nodes, sorted.
OneHopTriples(g, nodes) ==
  SetToSortSeq({e \in ToSet(g.edges) : {e[1], e[3]} \cap nodes # {}}, Before)

NativeTriples(g) == FirstOf(OneHopTriples(g, CandidateNodes(g)), TopK)

ChunkIDsFromNodeIDs(g, nodes) == {g.chunk[n] : n \in nodes \cap g.nodes} \ {0}

ChunkIDsFromTriples(g, triples) ==
  UNION {ChunkIDsFromNodeIDs(g, {e[1], e[3]}) : e \in triples}

-----------------------------------------------------------------------------
(* Triples from the sidecar.                                               *)

\* formatSidecarTriple: a hit with a text of its own is shown as it is, any
\* other needs a relation and both its nodes in the graph.  Its triple is what
\* its fields say, or else its item; of one that says it in neither the relation
\* is 0.
ShownHits(g, hits) ==
  Picked(hits, {i \in DOMAIN hits :
                  LET h == hits[i]
                  IN /\ h.triple[2] \notin Hidden
                     /\ h.text \/ (h.triple[2] # 0 /\ {h.triple[1], h.triple[3]} \subseteq g.nodes)})

\* The chunks a hit names, or else those of its nodes.
HitChunks(g, h) ==
  IF h.text /\ h.chunks # {} THEN h.chunks
  ELSE ChunkIDsFromNodeIDs(g, {h.triple[1], h.triple[3]})

\* Mutant: the lowest scores come first.
MergeTraceTriples_Ascending(path2, path1) ==
  LET all     == path2 \o path1
      rank(i) == Cardinality({j \in DOMAIN all :
                   \/ all[j].score < all[i].score
                   \/ all[j].score = all[i].score /\ j <= i})
  IN FirstOf([n \in DOMAIN all |-> all[CHOOSE i \in DOMAIN all : rank(i) = n]], TopK)

\* Path 2, then path 1, in a stable sort by descending score, cut to top_k.
MergeTraceTriples(path2, path1) ==
  LET all     == path2 \o path1
      rank(i) == Cardinality({j \in DOMAIN all :
                   \/ all[j].score > all[i].score
                   \/ all[j].score = all[i].score /\ j <= i})
  IN FirstOf([n \in DOMAIN all |-> all[CHOOSE i \in DOMAIN all : rank(i) = n]], TopK)

Displayable(t) == t.relation \notin Hidden /\ t.text

\* formatScoredTraceTriples, after the cut.
FormatScoredTraceTriples(scored) ==
  Picked(scored, {i \in DOMAIN scored : Displayable(scored[i])})

\* A trace may hold several records: that of the question, or the only one.
SelectTripleTraceRecord(records) ==
  LET asked == {i \in DOMAIN records : records[i].asked}
  IN IF asked # {} THEN <<records[Min(asked)]>>
     ELSE IF Len(records) = 1 THEN records ELSE <<>>

-----------------------------------------------------------------------------
(* The raw candidates of path 1.                                           *)

\* Nodes the sidecar scored above 0.05, then nodes with a query term.
Ranked(g, hits) ==
  LET found == Picked([i \in DOMAIN hits |-> hits[i].node],
                 {i \in DOMAIN hits : hits[i].relevant /\ hits[i].node \in g.nodes})
  IN FirstOccurrences(found \o Ascending(KeywordNodes(g)))

\* Mutant: the top nodes are brought into order.
TopNodes_Sorted(g, hits, k) == Ascending(ToSet(FirstOf(Ranked(g, hits), k)))

\* nativePath1TopNodes: k nodes in all.
TopNodes(g, hits, k) == FirstOf(Ranked(g, hits), k)

Neighbors(g, n) == {e[3] : e \in {f \in ToSet(g.edges) : f[1] = n}}

\* Of the edges from u to v the first one counts, if its relation has a name.
EdgeByPair(g, u, v) ==
  LET at == {i \in DOMAIN g.edges : g.edges[i][1] = u /\ g.edges[i][3] = v}
  IN IF at = {} \/ g.edges[Min(at)][2] = 0 THEN {} ELSE {g.edges[Min(at)]}

\* optimizedNeighborExpansion: the neighbors found so far are paired with
\* each next node, in both directions.
NeighborTriples(g, top) ==
  UNION {UNION {EdgeByPair(g, top[i], n) \cup EdgeByPair(g, n, top[i]) :
                  n \in UNION {Neighbors(g, top[j]) : j \in 1 .. i}} :
         i \in DOMAIN top}

\* A node of a path is visited: the edges of the path are found if the node
\* has a query term.
Visit(g, acc, path) ==
  [visited |-> acc.visited \cup {Last(path)},
   found   |-> acc.found \cup
     IF Last(path) \in KeywordNodes(g)
     THEN UNION {EdgeByPair(g, path[i], path[i + 1]) : i \in 1 .. (Len(path) - 1)}
     ELSE {}]

\* The paths one step further, in the order of their last nodes.
Onward(g, path) ==
  LET next == Ascending(Neighbors(g, Last(path)))
  IN [i \in DOMAIN next |-> Append(path, next[i])]

Depth2(g, acc, path) ==
  IF Last(path) \in acc.visited THEN acc ELSE Visit(g, acc, path)

Depth1(g, acc, path) ==
  IF Last(path) \in acc.visited THEN acc
  ELSE FoldLeft(LAMBDA a, p : Depth2(g, a, p), Visit(g, acc, path), Onward(g, path))

Depth0(g, acc, path) ==
  IF Last(path) \in acc.visited THEN acc
  ELSE FoldLeft(LAMBDA a, p : Depth1(g, a, p), Visit(g, acc, path), Onward(g, path))

\* pathBasedTriples: a search of depth two from each top node in turn, which
\* share what they have visited.
PathTriples(g, top) ==
  FoldLeft(LAMBDA a, n : Depth0(g, a, <<n>>), [visited |-> {}, found |-> {}], top).found

RelationTriples(g, top, relations) ==
  {e \in ToSet(g.edges) : /\ e[2] \in relations \ {0}
                          /\ {e[1], e[3]} \cap ToSet(top) # {}}

\* nativePath1RawTriples
RawTriples(g, top, relations) ==
  NeighborTriples(g, top) \cup PathTriples(g, top) \cup RelationTriples(g, top, relations)
===============================================================================
