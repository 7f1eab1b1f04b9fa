---------------------------- MODULE TimpCycleProofs ----------------------------
(***************************************************************************)
(* isCyclic is right about every graph.  The argument: a node whose call   *)
(* has returned false leads only to such nodes, and adding one of them     *)
(* last can close no cycle among them; a neighbour found on the recursion  *)
(* stack closes a cycle with the frames above it.                          *)
(***************************************************************************)
EXTENDS TimpCycle, TLAPS

(* The frames are the nodes of a path in the graph, all flagged and        *)
(* different, and what a frame has already looked at is done, but for the  *)
(* node it is waiting for.                                                 *)
Looked(i, k) ==
  \/ adj[stack[i].node][k] \in Done
  \/ i < Len(stack) /\ adj[stack[i].node][k] = stack[i+1].node

StackInv ==
  /\ recStack = { stack[i].node : i \in 1 .. Len(stack) }
  /\ recStack \subseteq visited
  /\ \A i, j \in 1 .. Len(stack) : stack[i].node = stack[j].node => i = j
  /\ \A i \in 1 .. Len(stack)-1 : stack[i+1].node \in Range(adj[stack[i].node])
  /\ \A i \in 1 .. Len(stack) : \A k \in DOMAIN adj[stack[i].node] :
       k < stack[i].at => Looked(i, k)

DoneInv ==
  /\ \A v \in Done : Range(adj[v]) \subseteq Done
  /\ \A S \in SUBSET Done : S # {} => ~ Closed(S)

RootInv == \A v \in Node : v < root => v \in visited

IInv == TypeOK /\ StackInv /\ DoneInv /\ RootInv /\ Correct

(* What a stack is made of. *)
LEMMA StackFrames ==
  ASSUME TypeOK
  PROVE  \A j \in 1 .. Len(stack) : stack[j].node \in Node /\ stack[j].at \in Nat \ {0}
<1>1. \A j \in 1 .. Len(stack) : stack[j] \in Frame
  BY DEF TypeOK
<1>. QED  BY <1>1 DEF Frame

(* Reading a sequence of frames whose last one has advanced. *)
LEMMA AdvancedFrames ==
  ASSUME TypeOK, stack # <<>>
  PROVE  /\ Len(stack) \in Nat \ {0}
         /\ Top \in Frame
         /\ Advanced \in Seq(Frame)
         /\ Len(Advanced) = Len(stack)
         /\ \A i \in 1 .. Len(stack)-1 : Advanced[i] = stack[i]
         /\ Advanced[Len(stack)] = [node |-> Top.node, at |-> Top.at + 1]
<1>1. stack \in Seq(Frame) /\ Len(stack) \in Nat \ {0}
  BY DEF TypeOK
<1>2. Top \in Frame
  BY <1>1 DEF Top
<1>3. [node |-> Top.node, at |-> Top.at + 1] \in Frame
  BY <1>2 DEF Frame
<1>. QED  BY <1>1, <1>2, <1>3 DEF Advanced

(* The initial state satisfies the invariant. *)
LEMMA InitInv == Init => IInv
<1>. SUFFICES ASSUME Init
              PROVE  IInv
  OBVIOUS
<1>1. TypeOK
  BY GraphAssumption DEF Init, TypeOK
<1>2. Done = {}
  BY DEF Init, Done
<1>. QED  BY <1>1, <1>2 DEF Init, IInv, StackInv, DoneInv, RootInv, Correct, Node

(* Done nodes stay acyclic when a call returns false. *)
LEMMA ReturnDone ==
  ASSUME IInv, Return
  PROVE  DoneInv'
<1>. DEFINE v == Top.node
            n == Len(stack)
<1>1. n \in Nat \ {0} /\ v \in Node /\ Top = stack[n] /\ Top.at \in Nat
  BY AdvancedFrames DEF Return, IInv, Frame, Top
<1>2. v \in recStack
  BY <1>1 DEF IInv, StackInv
<1>3. Done' = Done \cup {v} /\ v \notin Done /\ adj' = adj
  BY <1>2 DEF Return, Done, IInv, StackInv
<1>4. Range(adj[v]) \subseteq Done
  <2>. SUFFICES ASSUME NEW k \in DOMAIN adj[v]
                PROVE  adj[v][k] \in Done
    BY DEF Range
  <2>1. k < Top.at
    BY <1>1 DEF Return, IInv, TypeOK
  <2>2. Looked(n, k)
    BY <1>1, <2>1 DEF IInv, StackInv
  <2>. QED  BY <1>1, <2>2 DEF Looked
<1>. HIDE DEF v
<1>5. ASSUME NEW S \in SUBSET (Done \cup {v}), S # {}, Closed(S)
      PROVE  FALSE
  <2>1. v \in S
    BY <1>5 DEF IInv, DoneInv
  <2>. DEFINE T == S \ {v}
  <2>2. PICK w \in S : w \in Range(adj[v])
    BY <1>5, <2>1 DEF Closed
  <2>3. w \in T
    BY <1>3, <1>4, <2>2
  <2>4. \A u \in T : \E x \in T : x \in Range(adj[u])
    <3>. SUFFICES ASSUME NEW u \in T
                  PROVE  \E x \in T : x \in Range(adj[u])
      OBVIOUS
    <3>1. PICK x \in S : x \in Range(adj[u])
      BY <1>5 DEF Closed
    <3>2. x \in Done
      BY <3>1 DEF IInv, DoneInv
    <3>. QED  BY <1>3, <3>1, <3>2
  <2>. QED  BY <2>3, <2>4 DEF IInv, DoneInv, Closed
<1>6. \A x \in Done \cup {v} : Range(adj[x]) \subseteq Done \cup {v}
  BY <1>4 DEF IInv, DoneInv
<1>. QED  BY <1>3, <1>5, <1>6 DEF DoneInv, Closed

(* A neighbour on the recursion stack closes a cycle. *)
LEMMA FoundCycle ==
  ASSUME IInv, Found
  PROVE  HasCycle
<1>. DEFINE n == Len(stack)
<1>1. /\ n \in Nat \ {0} /\ Top = stack[n] /\ Top.node \in Node
      /\ Top.at \in DOMAIN adj[Top.node]
      /\ stack \in Seq(Frame)
  BY AdvancedFrames DEF Found, HasNeighbour, IInv, Frame, Top, TypeOK
<1>2. PICK i \in 1 .. n : stack[i].node = Neighbour
  BY DEF Found, IInv, StackInv
<1>. DEFINE S == { stack[j].node : j \in i .. n }
<1>. HIDE DEF n
<1>3. S \subseteq Node /\ stack[i].node \in S
  <2>1. \A j \in i .. n : j \in 1 .. n
    BY <1>1, <1>2
  <2>2. \A j \in 1 .. n : stack[j].node \in Node
    BY StackFrames DEF IInv, n
  <2>3. i \in i .. n
    BY <1>1, <1>2
  <2>. QED  BY <2>1, <2>2, <2>3
<1>4. ASSUME NEW j \in i .. n
      PROVE  \E w \in S : w \in Range(adj[stack[j].node])
  <2>1. CASE j < n
    <3>1. stack[j+1].node \in Range(adj[stack[j].node])
      BY <1>1, <1>2, <2>1 DEF IInv, StackInv, n
    <3>2. j+1 \in i .. n
      BY <1>1, <1>2, <2>1
    <3>. QED  BY <3>1, <3>2
  <2>2. CASE j = n
    <3>1. Neighbour \in Range(adj[Top.node])
      BY <1>1 DEF Neighbour, Range
    <3>. QED  BY <1>1, <1>2, <1>3, <2>2, <3>1
  <2>. QED  BY <1>1, <1>2, <2>1, <2>2
<1>5. S # {} /\ Closed(S)
  BY <1>3, <1>4 DEF Closed
<1>. HIDE DEF S
<1>. QED  BY <1>3, <1>5 DEF HasCycle

(* The search ends with "acyclic" only if every node is done. *)
LEMMA FinishAcyclic ==
  ASSUME IInv, Finish
  PROVE  ~ HasCycle
<1>1. Done = Node
  <2>1. Node \subseteq visited
    BY GraphAssumption DEF Finish, IInv, RootInv, Node
  <2>2. recStack = {}
    BY DEF Finish, IInv, StackInv
  <2>. QED  BY <2>1, <2>2 DEF Done, IInv, TypeOK
<1>. QED  BY <1>1 DEF IInv, DoneInv, HasCycle

(* Every step preserves the invariant, action by action. *)
LEMMA CallRootInv ==
  ASSUME IInv, CallRoot
  PROVE  IInv'
<1>0. recStack = {} /\ root \in Node /\ stack = <<>>
  BY GraphAssumption DEF CallRoot, IInv, StackInv, TypeOK, Node
<1>1. CASE root \in visited
  <2>1. UNCHANGED <<adj, visited, recStack, stack, result>> /\ root' = root + 1
    BY <1>0, <1>1 DEF CallRoot
  <2>2. TypeOK'
    <3>1. root + 1 \in 0 .. V
      BY <1>0, GraphAssumption DEF Node
    <3>. QED  BY <2>1, <3>1 DEF IInv, TypeOK
  <2>3. StackInv' /\ DoneInv' /\ Correct'
    BY <2>1 DEF IInv, StackInv, DoneInv, Looked, Done, Closed, Correct, HasCycle
  <2>4. RootInv'
    BY <1>0, <1>1, <2>1 DEF IInv, RootInv, Node, TypeOK
  <2>. QED  BY <2>2, <2>3, <2>4 DEF IInv
<1>2. CASE root \notin visited
  <2>. DEFINE f == [node |-> root, at |-> 1]
  <2>1. /\ UNCHANGED <<adj, result>> /\ root' = root + 1
        /\ visited' = visited \cup {root} /\ recStack' = {root}
        /\ stack' = <<f>>
    BY <1>0, <1>2 DEF CallRoot
  <2>2. f \in Frame /\ Len(stack') = 1 /\ stack'[1] = f
    BY <1>0, <2>1 DEF Frame
  <2>3. TypeOK'
    <3>1. root + 1 \in 0 .. V
      BY <1>0, GraphAssumption DEF Node
    <3>2. <<f>> \in Seq(Frame)
      BY <2>2
    <3>. QED  BY <1>0, <2>1, <3>1, <3>2 DEF IInv, TypeOK
  <2>4. StackInv'
    <3>1. f.node = root /\ f.at = 1
      OBVIOUS
    <3>2. \A k \in DOMAIN adj[root] : ~ (k < 1)
      BY <1>0 DEF IInv, TypeOK
    <3>. QED  BY <2>1, <2>2, <3>1, <3>2 DEF StackInv
  <2>5. Done' = Done
    BY <1>0, <1>2, <2>1 DEF Done
  <2>6. DoneInv' /\ Correct'
    BY <2>1, <2>5 DEF IInv, DoneInv, Closed, Correct, HasCycle
  <2>7. RootInv'
    BY <1>0, <2>1 DEF IInv, RootInv, Node, TypeOK
  <2>. QED  BY <2>3, <2>4, <2>6, <2>7 DEF IInv
<1>. QED  BY <1>1, <1>2

LEMMA DescendInv ==
  ASSUME IInv, Descend
  PROVE  IInv'
<1>. DEFINE n == Len(stack)
            f == [node |-> Neighbour, at |-> 1]
            g == [node |-> Top.node, at |-> Top.at + 1]
<1>1. /\ n \in Nat \ {0} /\ Top = stack[n] /\ Top.node \in Node /\ Top.at \in Nat
      /\ Top.at \in DOMAIN adj[Top.node] /\ stack \in Seq(Frame)
      /\ Neighbour \in Node /\ Neighbour \in Range(adj[Top.node])
      /\ adj \in [Node -> Seq(Node)]
  <2>1. /\ n \in Nat \ {0} /\ Top = stack[n] /\ Top.node \in Node /\ Top.at \in Nat \ {0}
        /\ stack \in Seq(Frame) /\ adj \in [Node -> Seq(Node)]
    BY AdvancedFrames DEF Descend, HasNeighbour, IInv, Frame, Top, TypeOK
  <2>. DEFINE a == adj[Top.node]
              k == Top.at
  <2>2. a \in Seq(Node) /\ k \in Nat \ {0} /\ k <= Len(a)
    BY <2>1 DEF Descend, HasNeighbour
  <2>3. Neighbour = a[k]
    BY DEF Neighbour
  <2>. HIDE DEF a, k
  <2>4. k \in DOMAIN a /\ a[k] \in Node /\ a[k] \in Range(a)
    BY <2>2 DEF Range
  <2>. QED  BY <2>1, <2>3, <2>4 DEF a, k
<1>2. /\ UNCHANGED <<adj, root, result>>
      /\ visited' = visited \cup {Neighbour} /\ recStack' = recStack \cup {Neighbour}
      /\ Neighbour \notin visited
      /\ stack' = Append(Advanced, f)
  BY DEF Descend
<1>3. f \in Frame /\ f.node = Neighbour /\ f.at = 1 /\ g.node = Top.node /\ g.at = Top.at + 1
  BY <1>1 DEF Frame
<1>. HIDE DEF f, g, n
<1>4. /\ stack' \in Seq(Frame) /\ Len(stack') = n + 1
      /\ \A i \in 1 .. n-1 : stack'[i] = stack[i]
      /\ stack'[n] = g
      /\ stack'[n+1] = f
  <2>1. /\ Advanced \in Seq(Frame) /\ Len(Advanced) = n
        /\ \A i \in 1 .. n-1 : Advanced[i] = stack[i]
        /\ Advanced[n] = g
    BY <1>1, AdvancedFrames DEF IInv, g, n
  <2>. DEFINE A == Advanced
  <2>. HIDE DEF A
  <2>2. stack' = Append(A, f)
    BY <1>2 DEF A
  <2>3. A \in Seq(Frame) /\ Len(A) = n /\ A[n] = g /\ \A i \in 1 .. n-1 : A[i] = stack[i]
    BY <2>1 DEF A
  <2>4. /\ stack' \in Seq(Frame) /\ Len(stack') = n + 1 /\ stack'[n+1] = f
        /\ \A i \in 1 .. n : stack'[i] = A[i]
    BY <1>1, <1>3, <2>2, <2>3
  <2>. QED  BY <1>1, <2>3, <2>4
<1>5. \A i \in 1 .. n : stack'[i].node = stack[i].node
  <2>1. \A i \in 1 .. n : i \in 1 .. n-1 \/ i = n
    BY <1>1
  <2>. QED  BY <1>1, <1>3, <1>4, <2>1
<1>6. TypeOK'
  BY <1>1, <1>2, <1>4 DEF IInv, TypeOK
<1>7. Done' = Done
  BY <1>2 DEF Done, IInv, StackInv
<1>8. StackInv'
  <2>0. /\ recStack = { stack[i].node : i \in 1 .. n }
        /\ recStack \subseteq visited
        /\ \A i, j \in 1 .. n : stack[i].node = stack[j].node => i = j
        /\ \A i \in 1 .. n-1 : stack[i+1].node \in Range(adj[stack[i].node])
        /\ \A i \in 1 .. n : \A k \in DOMAIN adj[stack[i].node] :
             k < stack[i].at => \/ adj[stack[i].node][k] \in Done
                                \/ i < n /\ adj[stack[i].node][k] = stack[i+1].node
    BY DEF IInv, StackInv, Looked, n
  <2>a. \A i \in 1 .. n+1 : i \in 1 .. n-1 \/ i = n \/ i = n+1
    BY <1>1
  <2>b. \A i \in 1 .. n-1 : i \in 1 .. n /\ i+1 \in 1 .. n /\ i < n
    BY <1>1
  <2>c. n \in 1 .. n /\ n+1 \in 1 .. n+1 /\ \A i \in 1 .. n : i \in 1 .. n+1
    BY <1>1
  <2>1. recStack' = { stack'[i].node : i \in 1 .. n+1 }
    <3>1. \A i \in 1 .. n+1 : i \in 1 .. n \/ i = n+1
      BY <1>1
    <3>. QED  BY <1>2, <1>3, <1>4, <1>5, <2>0, <2>c, <3>1
  <2>2. recStack' \subseteq visited'
    BY <1>2, <2>0
  <2>3. \A i \in 1 .. n : stack[i].node # Neighbour
    BY <1>2, <2>0
  <2>4. \A i, j \in 1 .. n+1 : stack'[i].node = stack'[j].node => i = j
    <3>1. \A i \in 1 .. n+1 : i \in 1 .. n \/ i = n+1
      BY <1>1
    <3>. QED  BY <1>3, <1>4, <1>5, <2>0, <2>3, <3>1
  <2>5. \A i \in 1 .. n : stack'[i+1].node \in Range(adj[stack'[i].node])
    <3>1. \A i \in 1 .. n : i \in 1 .. n-1 \/ i = n
      BY <1>1
    <3>. QED  BY <1>1, <1>3, <1>4, <1>5, <2>0, <2>b, <3>1
  <2>6. ASSUME NEW i \in 1 .. n+1, NEW k \in DOMAIN adj[stack'[i].node], k < stack'[i].at
        PROVE  \/ adj[stack'[i].node][k] \in Done
               \/ i < n+1 /\ adj[stack'[i].node][k] = stack'[i+1].node
    <3>0. k \in Nat \ {0}
      <4>1. stack'[i].node \in Node
        <5>1. \A j \in 1 .. n : stack[j].node \in Node
          BY StackFrames DEF IInv, n
        <5>2. \A j \in 1 .. n : stack'[j].node \in Node
          BY <1>5, <5>1
        <5>3. stack'[n+1].node \in Node
          BY <1>1, <1>3, <1>4
        <5>4. i \in 1 .. n \/ i = n+1
          BY <1>1
        <5>. QED  BY <5>2, <5>3, <5>4
      <4>. DEFINE a == adj[stack'[i].node]
      <4>2. a \in Seq(Node)
        BY <1>1, <4>1
      <4>3. k \in DOMAIN a
        OBVIOUS
      <4>. HIDE DEF a
      <4>. QED  BY <4>2, <4>3
    <3>1. CASE i \in 1 .. n-1
      <4>1. stack'[i] = stack[i] /\ stack'[i+1].node = stack[i+1].node
        BY <1>4, <1>5, <2>b, <3>1
      <4>2. i \in 1 .. n /\ k \in DOMAIN adj[stack[i].node] /\ k < stack[i].at
        BY <2>6, <2>b, <3>1, <4>1
      <4>3. \/ adj[stack[i].node][k] \in Done
            \/ i < n /\ adj[stack[i].node][k] = stack[i+1].node
        BY <2>0, <4>2
      <4>4. i < n+1
        BY <1>1, <3>1
      <4>. QED  BY <4>1, <4>3, <4>4
    <3>2. CASE i = n
      <4>1. stack'[i].node = stack[n].node /\ stack'[i].at = stack[n].at + 1
        BY <1>1, <1>3, <1>4, <3>2
      <4>2. CASE k < stack[n].at
        BY <1>1, <2>0, <2>6, <2>c, <4>1, <4>2
      <4>3. CASE k = stack[n].at
        <5>1. adj[stack'[i].node][k] = Neighbour
          BY <1>1, <4>1, <4>3 DEF Neighbour
        <5>2. stack'[i+1].node = Neighbour
          BY <1>3, <1>4, <3>2
        <5>3. i < n+1
          BY <1>1, <3>2
        <5>4. adj[stack'[i].node][k] = stack'[i+1].node
          BY <5>1, <5>2
        <5>. QED  BY <5>3, <5>4
      <4>. QED  BY <1>1, <2>6, <3>0, <4>1, <4>2, <4>3
    <3>3. CASE i = n+1
      BY <1>3, <1>4, <2>6, <3>0, <3>3
    <3>. QED  BY <2>a, <3>1, <3>2, <3>3
  <2>7. Len(stack') = n+1 /\ Len(stack') - 1 = n
    BY <1>1, <1>4
  <2>8. ASSUME NEW i \in 1 .. Len(stack'), NEW k \in DOMAIN adj'[stack'[i].node],
               k < stack'[i].at
        PROVE  Looked(i, k)'
    BY <1>2, <1>7, <2>6, <2>7, <2>8 DEF Looked
  <2>. QED  BY <1>2, <2>1, <2>2, <2>4, <2>5, <2>7, <2>8 DEF StackInv
<1>9. DoneInv' /\ Correct' /\ RootInv'
  BY <1>2, <1>7 DEF IInv, DoneInv, Closed, Correct, HasCycle, RootInv
<1>. QED  BY <1>6, <1>8, <1>9 DEF IInv

LEMMA SkipInv ==
  ASSUME IInv, Skip
  PROVE  IInv'
<1>. DEFINE n == Len(stack)
            g == [node |-> Top.node, at |-> Top.at + 1]
<1>1. /\ n \in Nat \ {0} /\ Top = stack[n] /\ Top.node \in Node /\ Top.at \in Nat
      /\ stack \in Seq(Frame) /\ Neighbour \in Done
      /\ adj \in [Node -> Seq(Node)]
  BY AdvancedFrames DEF Skip, HasNeighbour, IInv, Frame, Top, TypeOK, Done
<1>2. UNCHANGED <<adj, visited, recStack, root, result>> /\ stack' = Advanced
  BY DEF Skip
<1>3. g.node = Top.node /\ g.at = Top.at + 1
  OBVIOUS
<1>. HIDE DEF g, n
<1>4. /\ stack' \in Seq(Frame) /\ Len(stack') = n
      /\ \A i \in 1 .. n-1 : stack'[i] = stack[i]
      /\ stack'[n] = g
  BY <1>2, AdvancedFrames DEF IInv, Skip, HasNeighbour, g, n
<1>a. \A i \in 1 .. n : i \in 1 .. n-1 \/ i = n
  BY <1>1
<1>b. \A i \in 1 .. n-1 : i \in 1 .. n /\ i+1 \in 1 .. n /\ i < n
  BY <1>1
<1>5. \A i \in 1 .. n : stack'[i].node = stack[i].node
  BY <1>1, <1>3, <1>4, <1>a
<1>6. TypeOK'
  BY <1>1, <1>2, <1>4 DEF IInv, TypeOK
<1>7. Done' = Done
  BY <1>2 DEF Done
<1>8. StackInv'
  <2>0. /\ recStack = { stack[i].node : i \in 1 .. n }
        /\ recStack \subseteq visited
        /\ \A i, j \in 1 .. n : stack[i].node = stack[j].node => i = j
        /\ \A i \in 1 .. n-1 : stack[i+1].node \in Range(adj[stack[i].node])
        /\ \A i \in 1 .. n : \A k \in DOMAIN adj[stack[i].node] :
             k < stack[i].at => \/ adj[stack[i].node][k] \in Done
                                \/ i < n /\ adj[stack[i].node][k] = stack[i+1].node
    BY DEF IInv, StackInv, Looked, n
  <2>1. recStack' = { stack'[i].node : i \in 1 .. n }
    BY <1>2, <1>5, <2>0
  <2>2. \A i, j \in 1 .. n : stack'[i].node = stack'[j].node => i = j
    BY <1>5, <2>0
  <2>3. \A i \in 1 .. n-1 : stack'[i+1].node \in Range(adj[stack'[i].node])
    BY <1>b, <1>5, <2>0
  <2>4. ASSUME NEW i \in 1 .. n, NEW k \in DOMAIN adj[stack'[i].node], k < stack'[i].at
        PROVE  \/ adj[stack'[i].node][k] \in Done
               \/ i < n /\ adj[stack'[i].node][k] = stack'[i+1].node
    <3>1. CASE i \in 1 .. n-1
      <4>1. stack'[i] = stack[i] /\ stack'[i+1].node = stack[i+1].node
        BY <1>4, <1>5, <1>b, <3>1
      <4>2. k \in DOMAIN adj[stack[i].node] /\ k < stack[i].at
        BY <2>4, <4>1
      <4>. QED  BY <2>0, <4>1, <4>2
    <3>2. CASE i = n
      <4>1. stack'[i].node = stack[n].node /\ stack'[i].at = stack[n].at + 1
        BY <1>1, <1>3, <1>4, <3>2
      <4>2. k \in Nat /\ n \in 1 .. n /\ ~ (n < n)
        BY <1>1, <4>1
      <4>3. CASE k < stack[n].at
        BY <2>0, <2>4, <4>1, <4>2, <4>3
      <4>4. CASE k = stack[n].at
        BY <1>1, <4>1, <4>4 DEF Neighbour
      <4>. QED  BY <1>1, <2>4, <4>1, <4>2, <4>3, <4>4
    <3>. QED  BY <1>a, <3>1, <3>2
  <2>5. ASSUME NEW i \in 1 .. Len(stack'), NEW k \in DOMAIN adj'[stack'[i].node],
               k < stack'[i].at
        PROVE  Looked(i, k)'
    BY <1>2, <1>4, <1>7, <2>4, <2>5 DEF Looked
  <2>. QED  BY <1>2, <1>4, <2>0, <2>1, <2>2, <2>3, <2>5 DEF StackInv
<1>9. DoneInv' /\ Correct' /\ RootInv'
  BY <1>2, <1>7 DEF IInv, DoneInv, Closed, Correct, HasCycle, RootInv
<1>. QED  BY <1>6, <1>8, <1>9 DEF IInv

LEMMA ReturnInv ==
  ASSUME IInv, Return
  PROVE  IInv'
<1>. DEFINE n == Len(stack)
            v == Top.node
<1>1. /\ n \in Nat \ {0} /\ Top = stack[n] /\ v \in Node
      /\ stack \in Seq(Frame)
  BY AdvancedFrames DEF Return, IInv, Frame, Top, TypeOK
<1>2. /\ UNCHANGED <<adj, visited, root, result>>
      /\ recStack' = recStack \ {v}
      /\ stack' = SubSeq(stack, 1, n-1)
      /\ v = stack[n].node
  BY DEF Return, Top
<1>. HIDE DEF n, v
<1>3. /\ stack' \in Seq(Frame) /\ Len(stack') = n-1
      /\ \A i \in 1 .. n-1 : stack'[i] = stack[i]
  <2>1. n-1 \in 0 .. Len(stack) /\ n-1 \in Nat
    BY <1>1 DEF n
  <2>2. \A i \in 1 .. n-1 : stack[i] \in Frame
    BY <1>1 DEF n
  <2>. DEFINE m == n-1
  <2>. HIDE DEF m
  <2>3. m \in Nat /\ m \in 0 .. Len(stack) /\ stack' = SubSeq(stack, 1, m)
    BY <1>2, <2>1 DEF m
  <2>4. /\ stack' \in Seq(Frame) /\ Len(stack') = m
        /\ \A i \in 1 .. m : stack'[i] = stack[i]
    BY <1>1, <2>3
  <2>. QED  BY <2>4 DEF m
<1>a. \A i \in 1 .. n : i \in 1 .. n-1 \/ i = n
  BY <1>1
<1>b. \A i \in 1 .. n-1 : i \in 1 .. n /\ i+1 \in 1 .. n /\ i < n /\ i # n
  BY <1>1
<1>c. n \in 1 .. n /\ Len(stack') - 1 = (n-1)-1
  BY <1>1, <1>3
<1>4. TypeOK'
  BY <1>1, <1>2, <1>3 DEF IInv, TypeOK
<1>5. StackInv'
  <2>0. /\ recStack = { stack[i].node : i \in 1 .. n }
        /\ recStack \subseteq visited
        /\ \A i, j \in 1 .. n : stack[i].node = stack[j].node => i = j
        /\ \A i \in 1 .. n-1 : stack[i+1].node \in Range(adj[stack[i].node])
        /\ \A i \in 1 .. n : \A k \in DOMAIN adj[stack[i].node] :
             k < stack[i].at => \/ adj[stack[i].node][k] \in Done
                                \/ i < n /\ adj[stack[i].node][k] = stack[i+1].node
    BY DEF IInv, StackInv, Looked, n
  <2>1. recStack' = { stack'[i].node : i \in 1 .. n-1 }
    <3>1. \A i \in 1 .. n-1 : stack[i].node # v
      BY <1>2, <1>b, <1>c, <2>0
    <3>2. recStack' = { stack[i].node : i \in 1 .. n-1 }
      BY <1>2, <1>a, <1>b, <2>0, <3>1
    <3>. QED  BY <1>3, <3>2
  <2>2. recStack' \subseteq visited'
    BY <1>2, <2>0
  <2>3. \A i, j \in 1 .. n-1 : stack'[i].node = stack'[j].node => i = j
    BY <1>3, <1>b, <2>0
  <2>4. \A i \in 1 .. (n-1)-1 : stack'[i+1].node \in Range(adj[stack'[i].node])
    <3>1. \A i \in 1 .. (n-1)-1 : i \in 1 .. n-1 /\ i+1 \in 1 .. n-1
      BY <1>1
    <3>. QED  BY <1>3, <2>0, <3>1
  <2>5. Done' = Done \cup {v}
    BY <1>1, <1>2, <1>c, <2>0 DEF Done
  <2>6. ASSUME NEW i \in 1 .. n-1, NEW k \in DOMAIN adj[stack'[i].node], k < stack'[i].at
        PROVE  \/ adj[stack'[i].node][k] \in Done \cup {v}
               \/ i < n-1 /\ adj[stack'[i].node][k] = stack'[i+1].node
    <3>1. stack'[i] = stack[i] /\ i \in 1 .. n
      BY <1>3, <1>b
    <3>2. \/ adj[stack'[i].node][k] \in Done
          \/ adj[stack'[i].node][k] = stack[i+1].node
      BY <2>0, <2>6, <3>1
    <3>3. CASE i = n-1
      <4>1. i+1 = n
        BY <1>1, <3>3
      <4>. QED  BY <1>2, <3>2, <4>1
    <3>4. CASE i # n-1
      <4>1. i+1 \in 1 .. n-1 /\ i < n-1
        BY <1>1, <3>4
      <4>. QED  BY <1>3, <3>2, <4>1
    <3>. QED  BY <3>3, <3>4
  <2>7. ASSUME NEW i \in 1 .. Len(stack'), NEW k \in DOMAIN adj'[stack'[i].node],
               k < stack'[i].at
        PROVE  Looked(i, k)'
    BY <1>2, <1>3, <2>5, <2>6, <2>7 DEF Looked
  <2>. QED  BY <1>2, <1>3, <1>c, <2>1, <2>2, <2>3, <2>4, <2>7 DEF StackInv
<1>6. DoneInv'
  BY ReturnDone
<1>7. Correct' /\ RootInv'
  BY <1>2 DEF IInv, Correct, HasCycle, Closed, RootInv
<1>. QED  BY <1>4, <1>5, <1>6, <1>7 DEF IInv

LEMMA AnswerInv ==
  ASSUME IInv, Found \/ Finish
  PROVE  IInv'
<1>1. UNCHANGED <<adj, visited, recStack, stack, root>>
  BY DEF Found, Finish
<1>2. /\ Found => result' = "cyclic" /\ HasCycle
      /\ Finish => result' = "acyclic" /\ ~ HasCycle
  BY FoundCycle, FinishAcyclic DEF Found, Finish
<1>3. Correct'
  BY <1>1, <1>2 DEF Correct, HasCycle, Closed
<1>4. TypeOK'
  BY <1>1, <1>2 DEF IInv, TypeOK
<1>5. StackInv' /\ DoneInv' /\ RootInv'
  BY <1>1 DEF IInv, StackInv, DoneInv, RootInv, Looked, Done, Closed
<1>. QED  BY <1>3, <1>4, <1>5 DEF IInv

LEMMA StepInv == IInv /\ [Next]_vars => IInv'
<1>. SUFFICES ASSUME IInv, [Next]_vars
              PROVE  IInv'
  OBVIOUS
<1>1. CASE CallRoot
  BY <1>1, CallRootInv
<1>2. CASE Descend
  BY <1>2, DescendInv
<1>3. CASE Skip
  BY <1>3, SkipInv
<1>4. CASE Return
  BY <1>4, ReturnInv
<1>5. CASE Found \/ Finish
  BY <1>5, AnswerInv
<1>6. CASE UNCHANGED vars
  <2>1. UNCHANGED <<adj, visited, recStack, stack, root, result>>
    BY <1>6 DEF vars
  <2>2. StackInv' /\ DoneInv' /\ RootInv'
    BY <2>1 DEF IInv, StackInv, DoneInv, RootInv, Looked, Done, Closed
  <2>3. TypeOK' /\ Correct'
    BY <2>1 DEF IInv, TypeOK, Correct, HasCycle, Closed
  <2>. QED  BY <2>2, <2>3 DEF IInv
<1>. QED  BY <1>1, <1>2, <1>3, <1>4, <1>5, <1>6 DEF Next

(* The inductive invariant holds of every reachable state of the search. *)
THEOREM Invariance == Spec => []IInv
<1>. QED  BY InitInv, StepInv, PTL DEF Spec

(* The search never reads outside the graph: its root, its frames and its  *)
(* flags are always of nodes, whatever the adjacency lists.                *)
THEOREM TypeCorrect == Spec => []TypeOK
<1>1. IInv => TypeOK
  BY DEF IInv
<1>. QED  BY <1>1, Invariance, PTL

(* isCyclic answers "cyclic" only for a graph with a cycle, and "acyclic"  *)
(* only for one without, for every number of nodes and every edge list.    *)
THEOREM CorrectHolds == Spec => []Correct
<1>1. IInv => Correct
  BY DEF IInv
<1>. QED  BY <1>1, Invariance, PTL

(* The nodes whose recStack flag isCyclicUtil cleared lead only to one     *)
(* another and carry no cycle; the flags still set are the running calls.  *)
THEOREM DoneIsAcyclicHolds == Spec => []DoneIsAcyclic
<1>1. IInv => DoneIsAcyclic
  <2>1. TypeOK => DOMAIN stack = 1 .. Len(stack)
    BY DEF TypeOK
  <2>. QED  BY <2>1 DEF IInv, StackInv, DoneInv, DoneIsAcyclic
<1>. QED  BY <1>1, Invariance, PTL
=============================================================================
