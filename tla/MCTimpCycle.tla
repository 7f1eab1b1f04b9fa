----------------------------- MODULE MCTimpCycle -----------------------------
(***************************************************************************)
(* All graphs of V nodes whose nodes have at most MaxOut entries in their  *)
(* adjacency lists, in every order and with repetitions (addEdge does not  *)
(* look for duplicates); paths never join a node to itself.                *)
(***************************************************************************)
EXTENDS TimpCycle

CONSTANT MaxOut

Lists(v) == UNION { [1 .. n -> Node \ {v}] : n \in 0 .. MaxOut }
MCGraphs == { g \in [Node -> UNION { Lists(v) : v \in Node }] : \A v \in Node : g[v] \in Lists(v) }
=============================================================================
