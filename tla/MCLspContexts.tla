------------------------------ MODULE MCLspContexts ------------------------------
(* Instances of LspContexts for TLC: a folder inside another, with a document in *)
(* the inner one.                                                                *)
EXTENDS LspContexts, TLC

CONSTANTS t1, t2, t3, outer, inner, d1

NestedHome  == [d \in {d1} |-> {outer, inner}]
FolderDepth == [f \in Folder |-> IF f = inner THEN 2 ELSE 1]

\* Three handlers that overlap, two with a document that changes, and events far apart
\* with a configuration that does not load.
ThreeSessions ==
  {[spaced |-> FALSE, configs |-> 2, broken |-> {}, handlers |-> 3, versions |-> 1, moves |-> 1],
   [spaced |-> FALSE, configs |-> 2, broken |-> {}, handlers |-> 2, versions |-> 2, moves |-> 1],
   [spaced |-> TRUE, configs |-> 3, broken |-> {2}, handlers |-> 2, versions |-> 1, moves |-> 2]}

TaskSymmetry == Permutations(Task)
=============================================================================
