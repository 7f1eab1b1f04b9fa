------------------------------ MODULE TimpCycle ------------------------------
(***************************************************************************)
(* Graph::isCyclic (ns3/timp/model/dfs.cc): the depth-first search by      *)
(* which the controller decides whether a set of paths may be kept.  The   *)
(* recursion of isCyclicUtil is a stack of frames; a frame is a node and   *)
(* the position reached in its adjacency list.                             *)
(***************************************************************************)
EXTENDS Integers, Sequences, Functions

CONSTANTS
  V,        \* number of nodes
  Graphs    \* the adjacency lists searched

Node == 0 .. V-1

ASSUME GraphAssumption ==
  /\ V \in Nat
  /\ Graphs \subseteq [Node -> Seq(Node)]

VARIABLES
  adj,       \* adjacency list of each node
  visited, recStack,   \* the nodes whose flag is set
  stack,     \* the running calls of isCyclicUtil, outermost first
  root,      \* i of the loop in isCyclic
  result     \* "none" while searching, then the answer

vars == <<adj, visited, recStack, stack, root, result>>

Frame == [node : Node, at : Nat \ {0}]

TypeOK ==
  /\ adj \in [Node -> Seq(Node)]
  /\ visited \subseteq Node
  /\ recStack \subseteq Node
  /\ stack \in Seq(Frame)
  /\ root \in 0 .. V
  /\ result \in {"none", "cyclic", "acyclic"}

Init ==
  /\ adj \in Graphs
  /\ visited = {}
  /\ recStack = {}
  /\ stack = <<>>
  /\ root = 0
  /\ result = "none"

Top == stack[Len(stack)]
Neighbour == adj[Top.node][Top.at]
Advanced == [stack EXCEPT ![Len(stack)] = [node |-> Top.node, at |-> Top.at + 1]]

(* Mutant: the loop runs one node too far. *)
CallRootPastEnd ==
  /\ result = "none" /\ stack = <<>> /\ root <= V
  /\ root' = root + 1
  /\ visited' = visited \cup {root}
  /\ recStack' = recStack \cup {root}
  /\ stack' = IF root \in visited THEN stack ELSE <<[node |-> root, at |-> 1]>>
  /\ UNCHANGED <<adj, result>>

(* isCyclic calls isCyclicUtil for its next node. *)
CallRoot ==
  /\ result = "none" /\ stack = <<>> /\ root < V
  /\ root' = root + 1
  /\ IF root \in visited
     THEN /\ recStack' = recStack \ {root}
          /\ UNCHANGED <<visited, stack>>
     ELSE /\ visited' = visited \cup {root}
          /\ recStack' = recStack \cup {root}
          /\ stack' = <<[node |-> root, at |-> 1]>>
  /\ UNCHANGED <<adj, result>>

HasNeighbour == stack # <<>> /\ Top.at <= Len(adj[Top.node])

(* The loop calls isCyclicUtil for a neighbour not visited before.  When   *)
(* the call returns false, its recStack flag is clear and the loop goes on.*)
Descend ==
  /\ result = "none" /\ HasNeighbour
  /\ Neighbour \notin visited
  /\ visited' = visited \cup {Neighbour}
  /\ recStack' = recStack \cup {Neighbour}
  /\ stack' = Append(Advanced, [node |-> Neighbour, at |-> 1])
  /\ UNCHANGED <<adj, root, result>>

(* A neighbour on the recursion stack: every call returns true. *)
Found ==
  /\ result = "none" /\ HasNeighbour
  /\ Neighbour \in visited /\ Neighbour \in recStack
  /\ result' = "cyclic"
  /\ UNCHANGED <<adj, visited, recStack, stack, root>>

(* Mutant: the iterator does not move. *)
SkipNothing ==
  /\ result = "none" /\ HasNeighbour
  /\ Neighbour \in visited /\ Neighbour \notin recStack
  /\ UNCHANGED vars

Skip ==
  /\ result = "none" /\ HasNeighbour
  /\ Neighbour \in visited /\ Neighbour \notin recStack
  /\ stack' = Advanced
  /\ UNCHANGED <<adj, visited, recStack, root, result>>

(* Mutant: the recStack flag is left set. *)
ReturnFlagged ==
  /\ result = "none" /\ stack # <<>>
  /\ Top.at > Len(adj[Top.node])
  /\ stack' = SubSeq(stack, 1, Len(stack)-1)
  /\ UNCHANGED <<adj, visited, recStack, root, result>>

(* The loop is over: the call returns false. *)
Return ==
  /\ result = "none" /\ stack # <<>>
  /\ Top.at > Len(adj[Top.node])
  /\ recStack' = recStack \ {Top.node}
  /\ stack' = SubSeq(stack, 1, Len(stack)-1)
  /\ UNCHANGED <<adj, visited, root, result>>

Finish ==
  /\ result = "none" /\ stack = <<>> /\ root = V
  /\ result' = "acyclic"
  /\ UNCHANGED <<adj, visited, recStack, stack, root>>

Next == CallRoot \/ Descend \/ Found \/ Skip \/ Return \/ Finish

Spec == Init /\ [][Next]_vars
FairSpec == Spec /\ WF_vars(Next)

----------------------------------------------------------------------------
(* A cycle by its definition: nodes each with an edge to another of them.  *)
Closed(S) == \A v \in S : \E w \in S : w \in Range(adj[v])
HasCycle == \E S \in SUBSET Node : S # {} /\ Closed(S)

(* isCyclic answers whether the graph has a cycle. *)
Correct ==
  /\ result = "cyclic" => HasCycle
  /\ result = "acyclic" => ~ HasCycle

(* While it searches, no node that all calls are done with lies on a       *)
(* cycle or leads to one, and the recStack flags are those of the running  *)
(* calls.                                                                  *)
Done == visited \ recStack

DoneIsAcyclic ==
  /\ recStack = { stack[i].node : i \in DOMAIN stack }
  /\ \A v \in Done : Range(adj[v]) \subseteq Done
  /\ \A S \in SUBSET Done : S # {} => ~ Closed(S)

(* The recursion ends: each call of isCyclicUtil marks another node, and   *)
(* each list is walked once.                                               *)
Terminates == <>(result # "none")
=============================================================================
