------------------------------ MODULE MCRetrieve ------------------------------
(* Two builds that differ in size, top_k 2, every mode of both callers.    *)
EXTENDS Retrieve

MCModes == {"native", "sidecar", "runtime-trace", "path2-detrace", "primitive-merge",
            "rerank-merge", "native-path1-rerank"}

Entity(name, type, words, chunk) ==
  [label |-> "entity", name |-> name, type |-> type, words |-> words, chunk |-> chunk]

N1 == Entity("a", "other", {}, 0)
N2 == Entity("b", "wanted", {}, 1)
N3 == Entity("c", "other", {}, 1)
N4 == Entity("d", "other", {}, 2)
N5 == [Entity("d", "other", {"term"}, 2) EXCEPT !.label = "keyword"]

\* What a later mention of N3 says is lost.
Again == [N3 EXCEPT !.type = "wanted", !.chunk = 2]

Rel(start, relation, end) == [start |-> start, relation |-> relation, end |-> end]

\* A chain 1 -> 2 -> 3 -> 4 -> 5 whose end has the query term; two edges from
\* 1 to 2, one without a name from 1 to 3.
Chain == <<Rel(N1, 2, N2), Rel(N1, 1, N2), Rel(N2, 1, N3), Rel(Again, 1, N4),
           Rel(N4, 1, N5), Rel(N1, 0, N3)>>

\* Nothing matches: all entities are candidates.
P1 == Entity("p", "other", {}, 3)
P2 == [Entity("q", "other", {}, 3) EXCEPT !.label = "attribute"]

Pair == <<Rel(P1, 9, P2), Rel(P2, 1, P1), Rel(P2, 1, P1)>>

MCCorpora == {[rels |-> Chain, ids |-> <<1, 2>>], [rels |-> Pair, ids |-> <<3>>]}

Scored(score, relation, text, chunks) ==
  [score |-> score, relation |-> relation, text |-> text, chunks |-> chunks]

MCScoredLists ==
  {<<>>,
   <<Scored(3, 9, TRUE, {1}), Scored(2, 1, TRUE, {1, 4})>>,
   <<Scored(2, 1, FALSE, {}), Scored(1, 1, TRUE, {3})>>,
   <<Scored(3, 2, TRUE, {2})>>}

TraceOf(asked, list) ==
  [asked |-> asked, path1 |-> list, triples |-> <<1>>, ids |-> {1, 4}, texts |-> {4}]

MCTraces ==
  LET lists == {l \in MCScoredLists : Len(l) = 2}
      some  == CHOOSE l \in lists : TRUE
  IN {<<>>, <<TraceOf(FALSE, some), TraceOf(FALSE, some)>>}
       \cup {<<TraceOf(FALSE, l)>> : l \in lists}
       \cup {<<TraceOf(FALSE, some), TraceOf(TRUE, l)>> : l \in lists}

Hit(node, relevant) == [node |-> node, relevant |-> relevant]

\* 6 is a node of no graph.
MCNodeHits ==
  {<<>>, <<Hit(3, TRUE), Hit(3, TRUE), Hit(1, TRUE)>>,
   <<Hit(6, TRUE), Hit(2, TRUE), Hit(1, FALSE)>>,
   <<Hit(1, TRUE), Hit(2, TRUE), Hit(4, TRUE)>>}

MCRelationHits == {{}, {0, 1}}

MCChunkHits == {<<2, 0>>, <<3, 4>>}

Of(text, triple, chunks) == [text |-> text, triple |-> triple, chunks |-> chunks]

MCTripleHits ==
  {<<Of(FALSE, <<1, 1, 2>>, {}), Of(TRUE, <<2, 9, 1>>, {2})>>,
   <<Of(FALSE, <<4, 1, 6>>, {}), Of(FALSE, <<4, 0, 5>>, {}), Of(TRUE, <<2, 1, 6>>, {})>>,
   <<Of(TRUE, <<4, 1, 5>>, {3})>>}
===============================================================================
