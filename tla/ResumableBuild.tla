---------------------------- MODULE ResumableBuild ----------------------------
(***************************************************************************)
(* What the write-ahead log of build_graph promises: the chunks extracted  *)
(* so far are only ever added to, whatever dies or fails, each of them is  *)
(* extracted once, and the graph is not touched before all of them are.    *)
(* Only a build that asks for a fresh start forgets them.                  *)
(***************************************************************************)
CONSTANT Items          \* the chunks of the corpus

VARIABLES
  done,     \* the chunks whose extraction is on record
  graph     \* the output: "none", "torn" while it is written, "whole"

BuildInit == done = {} /\ graph = "none"

Extract(k) == k \in Items \ done /\ done' = done \cup {k} /\ UNCHANGED graph

StartOver == done' = {} /\ UNCHANGED graph

Publish ==
  /\ done = Items
  /\ graph' \in {"torn", "whole"}
  /\ UNCHANGED done

BuildNext == StartOver \/ Publish \/ \E k \in Items : Extract(k)

BuildSpec == BuildInit /\ [][BuildNext]_<<done, graph>>
===============================================================================
