-------------------------- MODULE LDominator_proofs --------------------------
(***************************************************************************)
(* The sets of l_dominator.c are exact for every function, however many    *)
(* blocks it has and whatever its edges.  The first half of the module is  *)
(* about Reach: it holds its start, is closed under edges, and is in every *)
(* set that is both.  The second half is about the sweeps: the sets never  *)
(* lose a block that is on every path, and a sweep that changes nothing    *)
(* has solved the equations behind it.                                     *)
(***************************************************************************)
EXTENDS LDominator, Induction, FiniteSetTheorems

(* One step of Reach. *)
Step(g, via, r) == r \cup UNION {Succs(g, v) \cap via : v \in r}

(* f[k] is what k steps reach. *)
IsGrowth(g, from, via, f, n) ==
  f = [k \in 0 .. n |-> IF k = 0 THEN from ELSE Step(g, via, f[k - 1])]

(* The recursive function of Reach exists, up to any number of steps.      *)
LEMMA GrowthExists ==
  ASSUME NEW g, NEW from, NEW via, NEW n \in Nat
  PROVE  \E f : IsGrowth(g, from, via, f, n)
<1> DEFINE T == {m \in Nat : \E f : IsGrowth(g, from, via, f, m)}
<1>1. 0 \in T
  <2>1. IsGrowth(g, from, via, [k \in 0 .. 0 |-> from], 0)
    BY DEF IsGrowth
  <2> QED BY <2>1
<1>2. ASSUME NEW m \in T PROVE m + 1 \in T
  <2>1. PICK f : IsGrowth(g, from, via, f, m)
    OBVIOUS
  <2> DEFINE h == [k \in 0 .. m + 1 |-> IF k = m + 1 THEN Step(g, via, f[m]) ELSE f[k]]
  <2>2. \A k \in 0 .. m : f[k] = IF k = 0 THEN from ELSE Step(g, via, f[k - 1])
    BY <2>1 DEF IsGrowth
  <2>3. IsGrowth(g, from, via, h, m + 1)
    BY <2>2 DEF IsGrowth
  <2> QED BY <2>3
<1>3. T = Nat
  <2>1. T \in SUBSET Nat
    OBVIOUS
  <2> HIDE DEF T
  <2> QED BY <1>1, <1>2, <2>1, SetInduction
<1> QED BY <1>3

(* Reach is what as many steps reach as there are nodes.                   *)
LEMMA ReachIsGrowth ==
  ASSUME NEW g, NEW from, NEW via, IsFiniteSet(g.nodes)
  PROVE  \E f : /\ IsGrowth(g, from, via, f, Cardinality(g.nodes))
                /\ Reach(g, from, via) = f[Cardinality(g.nodes)]
<1> DEFINE n == Cardinality(g.nodes)
           f == CHOOSE f : IsGrowth(g, from, via, f, n)
<1>1. n \in Nat
  BY FS_CardinalityType
<1>2. IsGrowth(g, from, via, f, n)
  BY <1>1, GrowthExists
<1>3. Reach(g, from, via) = f[n]
  BY DEF Reach, IsGrowth, Step
<1> QED BY <1>2, <1>3

Grows(g, from, via, f, n) ==
  /\ f[0] = from
  /\ \A k \in 0 .. n - 1 : f[k + 1] = Step(g, via, f[k])
  /\ \A k \in 0 .. n : f[k] \subseteq g.nodes

(* What a growth is, step by step; it stays within the nodes.              *)
LEMMA GrowthFacts ==
  ASSUME NEW g, IsFlowGraph(g), NEW from \in SUBSET g.nodes, NEW via,
         NEW n \in Nat, NEW f, IsGrowth(g, from, via, f, n)
  PROVE  Grows(g, from, via, f, n)
<1>1. f[0] = from
  BY DEF IsGrowth
<1>2. \A k \in 0 .. n - 1 : f[k + 1] = Step(g, via, f[k])
  BY DEF IsGrowth
<1> DEFINE T == {k \in Nat : k <= n => f[k] \subseteq g.nodes}
<1>3. 0 \in T
  BY <1>1
<1>4. ASSUME NEW k \in T PROVE k + 1 \in T
  <2> SUFFICES ASSUME k + 1 <= n PROVE f[k + 1] \subseteq g.nodes
    OBVIOUS
  <2>1. f[k] \subseteq g.nodes /\ k \in 0 .. n - 1
    OBVIOUS
  <2>2. Step(g, via, f[k]) \subseteq g.nodes
    BY <2>1 DEF Step, Succs, IsFlowGraph
  <2> QED BY <1>2, <2>1, <2>2
<1>5. T = Nat
  <2>1. T \in SUBSET Nat
    OBVIOUS
  <2> HIDE DEF T
  <2> QED BY <1>3, <1>4, <2>1, SetInduction
<1> QED BY <1>1, <1>2, <1>5 DEF Grows

(* No edge into via leaves r. *)
Closed(g, via, r) == \A v \in r : Succs(g, v) \cap via \subseteq r

(* Reach holds where it starts. *)
LEMMA ReachStarts ==
  ASSUME NEW g, IsFlowGraph(g), NEW from \in SUBSET g.nodes, NEW via
  PROVE  from \subseteq Reach(g, from, via)
<1> DEFINE n == Cardinality(g.nodes)
<1>1. IsFiniteSet(g.nodes) /\ n \in Nat
  BY FS_CardinalityType DEF IsFlowGraph
<1>2. PICK f : IsGrowth(g, from, via, f, n) /\ Reach(g, from, via) = f[n]
  BY <1>1, ReachIsGrowth
<1> HIDE DEF n
<1>3. f[0] = from /\ \A k \in 0 .. n - 1 : f[k + 1] = Step(g, via, f[k])
  <2>1. n \in Nat /\ IsGrowth(g, from, via, f, n) /\ from \in SUBSET g.nodes /\ IsFlowGraph(g)
    BY <1>1, <1>2
  <2>2. Grows(g, from, via, f, n)
    BY ONLY <2>1, GrowthFacts
  <2> QED BY <2>2 DEF Grows
<1> DEFINE T == {k \in Nat : k <= n => from \subseteq f[k]}
<1>4. 0 \in T
  BY <1>3
<1>5. ASSUME NEW k \in T PROVE k + 1 \in T
  BY <1>1, <1>3 DEF Step
<1>6. T = Nat
  <2>1. T \in SUBSET Nat
    OBVIOUS
  <2> HIDE DEF T
  <2> QED BY <1>4, <1>5, <2>1, SetInduction
<1> QED BY <1>1, <1>2, <1>6

(* It is in every set that holds its start and is closed. *)
LEMMA ReachIsLeast ==
  ASSUME NEW g, IsFlowGraph(g), NEW from \in SUBSET g.nodes, NEW via,
         NEW U, from \subseteq U, Closed(g, via, U)
  PROVE  Reach(g, from, via) \subseteq U
<1> DEFINE n == Cardinality(g.nodes)
<1>1. IsFiniteSet(g.nodes) /\ n \in Nat
  BY FS_CardinalityType DEF IsFlowGraph
<1>2. PICK f : IsGrowth(g, from, via, f, n) /\ Reach(g, from, via) = f[n]
  BY <1>1, ReachIsGrowth
<1> HIDE DEF n
<1>3. f[0] = from /\ \A k \in 0 .. n - 1 : f[k + 1] = Step(g, via, f[k])
  <2>1. n \in Nat /\ IsGrowth(g, from, via, f, n) /\ from \in SUBSET g.nodes /\ IsFlowGraph(g)
    BY <1>1, <1>2
  <2>2. Grows(g, from, via, f, n)
    BY ONLY <2>1, GrowthFacts
  <2> QED BY <2>2 DEF Grows
<1> DEFINE T == {k \in Nat : k <= n => f[k] \subseteq U}
<1>4. 0 \in T
  BY <1>3
<1>5. ASSUME NEW k \in T PROVE k + 1 \in T
  <2> SUFFICES ASSUME k + 1 <= n PROVE f[k + 1] \subseteq U
    OBVIOUS
  <2>1. f[k] \subseteq U /\ k \in 0 .. n - 1
    BY <1>1
  <2>2. Step(g, via, f[k]) \subseteq U
    BY <2>1 DEF Step, Closed
  <2> QED BY <1>3, <2>1, <2>2
<1>6. T = Nat
  <2>1. T \in SUBSET Nat
    OBVIOUS
  <2> HIDE DEF T
  <2> QED BY <1>4, <1>5, <2>1, SetInduction
<1> QED BY <1>1, <1>2, <1>6

(* It is closed: a growth that goes on takes one more node in each step,   *)
(* and there are as many steps as nodes.                                   *)
LEMMA ReachIsClosed ==
  ASSUME NEW g, IsFlowGraph(g), NEW from \in SUBSET g.nodes, NEW via
  PROVE  Closed(g, via, Reach(g, from, via))
<1> DEFINE n == Cardinality(g.nodes)
<1>1. IsFiniteSet(g.nodes) /\ n \in Nat
  BY FS_CardinalityType DEF IsFlowGraph
<1>2. PICK f : IsGrowth(g, from, via, f, n) /\ Reach(g, from, via) = f[n]
  BY <1>1, ReachIsGrowth
<1>a. \A r \in SUBSET g.nodes : Cardinality(r) = n => r = g.nodes
  BY <1>1, FS_Subset
<1>b. \A r \in SUBSET g.nodes : IsFiniteSet(r) /\ Cardinality(r) \in Nat /\ Cardinality(r) <= n
  BY <1>1, FS_Subset, FS_CardinalityType
<1> HIDE DEF n
<1>3. /\ f[0] = from /\ \A k \in 0 .. n - 1 : f[k + 1] = Step(g, via, f[k])
      /\ \A k \in 0 .. n : f[k] \subseteq g.nodes
  <2>1. n \in Nat /\ IsGrowth(g, from, via, f, n) /\ from \in SUBSET g.nodes /\ IsFlowGraph(g)
    BY <1>1, <1>2
  <2>2. Grows(g, from, via, f, n)
    BY ONLY <2>1, GrowthFacts
  <2> QED BY <2>2 DEF Grows
<1> DEFINE T == {k \in Nat : k <= n => Closed(g, via, f[k]) \/ Cardinality(f[k]) >= k}
<1>4. 0 \in T
  BY <1>1, <1>3, <1>b
<1>5. ASSUME NEW k \in T PROVE k + 1 \in T
  <2> SUFFICES ASSUME k + 1 <= n
               PROVE Closed(g, via, f[k + 1]) \/ Cardinality(f[k + 1]) >= k + 1
    OBVIOUS
  <2>1. /\ k \in 0 .. n - 1 /\ f[k + 1] = Step(g, via, f[k])
        /\ f[k] \subseteq g.nodes /\ f[k + 1] \subseteq g.nodes
        /\ Closed(g, via, f[k]) \/ Cardinality(f[k]) >= k
    BY <1>1, <1>3
  <2>2. CASE Closed(g, via, f[k])
    <3>1. f[k + 1] = f[k]
      BY <2>1, <2>2 DEF Step, Closed
    <3> QED BY <2>2, <3>1
  <2>3. CASE ~ Closed(g, via, f[k])
    <3>1. f[k] \subseteq f[k + 1] /\ f[k] # f[k + 1]
      BY <2>1, <2>3 DEF Step, Closed
    <3>2. IsFiniteSet(f[k + 1]) /\ Cardinality(f[k + 1]) \in Nat /\ Cardinality(f[k]) \in Nat
      BY <2>1, <1>b
    <3>3. Cardinality(f[k]) <= Cardinality(f[k + 1]) /\ Cardinality(f[k]) # Cardinality(f[k + 1])
      BY <3>1, <3>2, FS_Subset
    <3> QED BY <2>1, <2>3, <3>2, <3>3
  <2> QED BY <2>2, <2>3
<1>6. T = Nat
  <2>1. T \in SUBSET Nat
    OBVIOUS
  <2> HIDE DEF T
  <2> QED BY <1>4, <1>5, <2>1, SetInduction
<1>7. Closed(g, via, f[n]) \/ Cardinality(f[n]) >= n
  BY <1>1, <1>6
<1>8. f[n] \subseteq g.nodes
  BY <1>1, <1>3
<1>9. CASE Cardinality(f[n]) >= n
  <2>1. f[n] = g.nodes
    BY <1>1, <1>8, <1>9, <1>a, <1>b
  <2>2. Closed(g, via, g.nodes)
    BY DEF Closed, Succs, IsFlowGraph
  <2> QED BY <1>2, <2>1, <2>2
<1> QED BY <1>2, <1>7, <1>9

-----------------------------------------------------------------------------
(* The graph the analysis works on is a flow graph with the blocks of the  *)
(* function, whichever way the edges go.                                   *)
LEMMA FlowFacts ==
  ASSUME IsFlowGraph(graph), flow \in {"dom", "pdom"}
  PROVE  /\ IsFlowGraph(Flow) /\ Flow.nodes = graph.nodes
         /\ \A b : Preds(Flow, b) \subseteq graph.nodes
         /\ \A b, c : c \in Succs(Flow, b) <=> b \in Preds(Flow, c)
<1>1. CASE flow = "dom"
  BY <1>1 DEF Flow, IsFlowGraph, Preds, Succs
<1>2. CASE flow = "pdom"
  <2>1. Flow = [graph EXCEPT !.edges = {<<e[2], e[1]>> : e \in graph.edges}]
    BY <1>2 DEF Flow, Reversed
  <2>2. Flow.nodes = graph.nodes /\ Flow.edges = {<<e[2], e[1]>> : e \in graph.edges}
        /\ Flow = [nodes |-> Flow.nodes, edges |-> Flow.edges]
    BY <2>1 DEF IsFlowGraph
  <2> QED BY <2>2 DEF IsFlowGraph, Preds, Succs
<1> QED BY <1>1, <1>2

(* The first block of the function. *)
LEMMA FirstFacts ==
  ASSUME IsFlowGraph(graph)
  PROVE  First \in graph.nodes /\ \A c \in graph.nodes : First <= c
<1>1. graph.nodes \in SUBSET Nat /\ graph.nodes # {}
  BY DEF IsFlowGraph
<1>2. \E x \in graph.nodes : \A y \in graph.nodes : x <= y
  BY <1>1, LeastNatural
<1> QED BY <1>2 DEF First

(* The block after b in the list. *)
LEMMA AfterFacts ==
  ASSUME IsFlowGraph(graph), NEW b \in graph.nodes, After(b) # {},
         NEW n, n = CHOOSE c \in After(b) : \A d \in After(b) : c <= d
  PROVE  /\ n \in graph.nodes
         /\ \A c \in graph.nodes : c < n => c <= b
<1>1. After(b) \in SUBSET Nat
  BY DEF IsFlowGraph, After
<1>2. \E x \in After(b) : \A y \in After(b) : x <= y
  BY <1>1, LeastNatural
<1>3. n \in After(b) /\ \A d \in After(b) : n <= d
  BY <1>2
<1>4. graph.nodes \subseteq Nat
  BY DEF IsFlowGraph
<1> QED BY <1>3, <1>4 DEF After

SweepTypeOK ==
  /\ IsFlowGraph(graph)
  /\ flow \in {"dom", "pdom"}
  /\ dom \in [graph.nodes -> SUBSET graph.nodes]
  /\ cb \in graph.nodes \cup {0}
  /\ change \in BOOLEAN

(* The sets only lose blocks that some path avoids. *)
SetsAreLargeEnough ==
  \A b \in graph.nodes : OnEveryPath(Flow, Sources, b) \subseteq dom[b]

(* The blocks of this sweep that lie behind it. *)
Settled(b) == cb = 0 \/ (~ change /\ b < cb)

(* A sweep that has changed nothing leaves solved equations behind it.     *)
SettledAreSolved ==
  \A b \in graph.nodes : Settled(b) => dom[b] = NewDom(b)

IInv == SweepTypeOK /\ SetsAreLargeEnough /\ SettledAreSolved

(* A block that no path to b avoids, b apart, is one that no path to a     *)
(* predecessor of b avoids, and b has a predecessor.                       *)
LEMMA PathsThroughPreds ==
  ASSUME IsFlowGraph(graph), flow \in {"dom", "pdom"}, NEW b \in graph.nodes,
         NEW d \in OnEveryPath(Flow, Sources, b), d # b
  PROVE  /\ Preds(Flow, b) # {}
         /\ \A p \in Preds(Flow, b) : d \in OnEveryPath(Flow, Sources, p)
<1>1. /\ IsFlowGraph(Flow) /\ Flow.nodes = graph.nodes
      /\ Preds(Flow, b) \subseteq graph.nodes
      /\ \A c : b \in Succs(Flow, c) <=> c \in Preds(Flow, b)
  BY FlowFacts
<1> DEFINE S == Sources \ {d}
           V == graph.nodes \ {d}
           R == Reach(Flow, S, V)
<1>2. d \in graph.nodes /\ b \notin R
  BY <1>1 DEF OnEveryPath
<1>3. S \in SUBSET Flow.nodes
  BY <1>1 DEF Sources
<1>4. S \subseteq R /\ Closed(Flow, V, R)
  <2> HIDE DEF S, V
  <2> QED BY <1>1, <1>3, ReachStarts, ReachIsClosed
<1>5. Preds(Flow, b) # {}
  BY <1>2, <1>4 DEF Sources
<1>6. ASSUME NEW p \in Preds(Flow, b) PROVE d \in OnEveryPath(Flow, Sources, p)
  <2>1. b \in Succs(Flow, p) \cap V
    BY <1>1
  <2>2. p \notin R
    BY <1>2, <1>4, <2>1 DEF Closed
  <2> QED BY <1>1, <1>2, <2>2 DEF OnEveryPath
<1> QED BY <1>5, <1>6

(* The invariant holds of the sets the analysis starts from.               *)
LEMMA SweepsStart ==
  Init => IInv
<1> SUFFICES ASSUME Init PROVE IInv
  OBVIOUS
<1>1. IsFlowGraph(graph) /\ flow \in {"dom", "pdom"} /\ cb = First /\ change = FALSE
      /\ dom = [b \in graph.nodes |-> IF Preds(Flow, b) # {} THEN graph.nodes ELSE {b}]
  BY DEF Init, InitOf
<1>2. First \in graph.nodes /\ \A c \in graph.nodes : First <= c
  BY <1>1, FirstFacts
<1>3. graph.nodes \subseteq Nat \ {0}
  BY <1>1 DEF IsFlowGraph
<1>4. SweepTypeOK
  BY <1>1, <1>2 DEF SweepTypeOK
<1>5. SetsAreLargeEnough
  <2> SUFFICES ASSUME NEW b \in graph.nodes, NEW d \in OnEveryPath(Flow, Sources, b)
               PROVE  d \in dom[b]
    BY DEF SetsAreLargeEnough
  <2>1. d \in graph.nodes
    BY <1>1, FlowFacts DEF OnEveryPath
  <2>2. d # b => Preds(Flow, b) # {}
    BY <1>1, PathsThroughPreds
  <2> QED BY <1>1, <2>1, <2>2
<1>6. SettledAreSolved
  BY <1>1, <1>2, <1>3 DEF SettledAreSolved, Settled
<1> QED BY <1>4, <1>5, <1>6 DEF IInv

(* Visiting a block preserves it.                                          *)
LEMMA SweepsPreserve ==
  ASSUME IInv, [Next]_vars
  PROVE  IInv'
<1>0. /\ IsFlowGraph(graph) /\ flow \in {"dom", "pdom"}
      /\ dom \in [graph.nodes -> SUBSET graph.nodes]
      /\ cb \in graph.nodes \cup {0} /\ change \in BOOLEAN
      /\ graph.nodes \subseteq Nat \ {0}
  BY DEF IInv, SweepTypeOK, IsFlowGraph
<1>1. CASE UNCHANGED vars
  <2>1. graph' = graph /\ flow' = flow /\ dom' = dom /\ cb' = cb /\ change' = change
    BY <1>1 DEF vars
  <2>2. SweepTypeOK'
    BY <2>1 DEF IInv, SweepTypeOK
  <2>3. SetsAreLargeEnough'
    BY <2>1 DEF IInv, SetsAreLargeEnough, Flow, Sources
  <2>4. SettledAreSolved'
    BY <2>1 DEF IInv, SettledAreSolved, Settled, NewDom, Flow
  <2> QED BY <2>2, <2>3, <2>4 DEF IInv
<1>2. CASE VisitBlock
  <2>1. /\ cb \in graph.nodes /\ graph' = graph /\ flow' = flow
        /\ dom' = [dom EXCEPT ![cb] = NewDom(cb)]
    BY <1>0, <1>2 DEF VisitBlock
  <2>2. Flow' = Flow /\ Sources' = Sources
    BY <2>1 DEF Flow, Sources
  <2>3. NewDom(cb) \in SUBSET graph.nodes
    BY <2>1 DEF NewDom
  <2>4. cb' \in graph.nodes \cup {0} /\ change' \in BOOLEAN
    <3>1. CASE After(cb) # {}
      <4>1. cb' \in graph.nodes
        BY <1>0, <1>2, <2>1, <3>1, AfterFacts DEF VisitBlock
      <4>2. change' = (change \/ Changes(cb))
        BY <1>2, <3>1 DEF VisitBlock
      <4> QED BY <1>0, <4>1, <4>2 DEF Changes
    <3>2. CASE After(cb) = {}
      <4>1. cb' = NextSweep /\ change' = FALSE
        BY <1>2, <3>2 DEF VisitBlock
      <4>2. First \in graph.nodes
        BY <1>0, FirstFacts
      <4> QED BY <4>1, <4>2 DEF NextSweep
    <3> QED BY <3>1, <3>2
  <2>5. SweepTypeOK'
    <3>1. dom' \in [graph.nodes -> SUBSET graph.nodes]
      BY <1>0, <2>1, <2>3
    <3> QED BY <1>0, <2>1, <2>4, <3>1 DEF SweepTypeOK
  <2>6. SetsAreLargeEnough'
    <3>1. ASSUME NEW b \in graph.nodes, NEW d \in OnEveryPath(Flow, Sources, b)
          PROVE  d \in dom'[b]
      <4>1. \A c \in graph.nodes : OnEveryPath(Flow, Sources, c) \subseteq dom[c]
        BY DEF IInv, SetsAreLargeEnough
      <4>2. CASE b # cb
        BY <1>0, <2>1, <4>1, <4>2
      <4>3. CASE b = cb
        <5>1. dom'[b] = NewDom(b)
          BY <1>0, <2>1, <4>3
        <5>2. d \in graph.nodes /\ Preds(Flow, b) \subseteq graph.nodes
          BY <1>0, FlowFacts DEF OnEveryPath
        <5>3. CASE d = b
          BY <5>1, <5>3 DEF NewDom
        <5>4. CASE d # b
          <6>1. Preds(Flow, b) # {} /\ \A p \in Preds(Flow, b) : d \in dom[p]
            BY <1>0, <4>1, <5>2, <5>4, PathsThroughPreds
          <6> QED BY <5>1, <5>2, <6>1 DEF NewDom
        <5> QED BY <5>3, <5>4
      <4> QED BY <4>2, <4>3
    <3> QED BY <2>1, <2>2, <3>1 DEF SetsAreLargeEnough
  <2>7. SettledAreSolved'
    <3>1. CASE Changes(cb) \/ change
      <4>1. CASE After(cb) # {}
        <5>1. change' /\ cb' # 0
          BY <1>0, <1>2, <2>1, <3>1, <4>1, AfterFacts DEF VisitBlock
        <5> QED BY <5>1 DEF SettledAreSolved, Settled
      <4>2. CASE After(cb) = {}
        <5>1. cb' = First /\ change' = FALSE
          BY <1>2, <3>1, <4>2 DEF VisitBlock, NextSweep
        <5>2. First \in graph.nodes /\ \A c \in graph.nodes : First <= c
          BY <1>0, FirstFacts
        <5>3. cb' # 0 /\ \A c \in graph.nodes : ~ (c < cb')
          BY <1>0, <5>1, <5>2
        <5> QED BY <2>1, <5>3 DEF SettledAreSolved, Settled
      <4> QED BY <4>1, <4>2
    <3>2. CASE ~ Changes(cb) /\ ~ change
      <4>1. dom' = dom /\ dom[cb] = NewDom(cb)
        BY <1>0, <2>1, <3>2 DEF Changes
      <4>2. \A b : NewDom(b)' = NewDom(b)
        BY <2>1, <2>2, <4>1 DEF NewDom
      <4>3. \A b \in graph.nodes : b <= cb => dom[b] = NewDom(b)
        BY <1>0, <2>1, <3>2, <4>1 DEF IInv, SettledAreSolved, Settled
      <4>4. ASSUME NEW b \in graph.nodes, Settled(b)' PROVE b <= cb
        <5>1. CASE After(cb) # {}
          <6>1. cb' \in graph.nodes /\ \A c \in graph.nodes : c < cb' => c <= cb
            BY <1>0, <1>2, <2>1, <5>1, AfterFacts DEF VisitBlock
          <6> QED BY <1>0, <4>4, <6>1 DEF Settled
        <5>2. CASE After(cb) = {}
          BY <1>0, <2>1, <5>2 DEF After
        <5> QED BY <5>1, <5>2
      <4> QED BY <2>1, <4>1, <4>2, <4>3, <4>4 DEF SettledAreSolved
    <3> QED BY <3>1, <3>2
  <2> QED BY <2>5, <2>6, <2>7 DEF IInv
<1> QED BY <1>1, <1>2 DEF Next

(* Solved equations have no block too many: a block that a path to b       *)
(* avoids is in no set along that path.                                    *)
LEMMA SolvedIsExact ==
  ASSUME IInv
  PROVE  DomSetsAreExact
<1> SUFFICES ASSUME cb = 0, NEW b \in graph.nodes, NEW d \in dom[b], d # b,
                    b \in Reach(Flow, Sources \ {d}, graph.nodes \ {d})
             PROVE  FALSE
  <2>1. Flow.nodes = graph.nodes /\ \A c \in graph.nodes : dom[c] \subseteq graph.nodes
    BY FlowFacts DEF IInv, SweepTypeOK
  <2>2. \A c \in graph.nodes : OnEveryPath(Flow, Sources, c) \subseteq dom[c]
    BY DEF IInv, SetsAreLargeEnough
  <2> QED BY <2>1, <2>2 DEF DomSetsAreExact, OnEveryPath
<1>1. /\ IsFlowGraph(Flow) /\ Flow.nodes = graph.nodes
      /\ \A c, e : e \in Succs(Flow, c) <=> c \in Preds(Flow, e)
  BY FlowFacts DEF IInv, SweepTypeOK
<1>2. \A c \in graph.nodes : dom[c] = NewDom(c)
  BY DEF IInv, SettledAreSolved, Settled
<1> DEFINE U == {c \in graph.nodes : d \notin dom[c]}
           S == Sources \ {d}
           V == graph.nodes \ {d}
<1>3. S \in SUBSET Flow.nodes
  BY <1>1 DEF Sources
<1>4. S \subseteq U
  BY <1>2 DEF Sources, NewDom
<1>5. Closed(Flow, V, U)
  BY <1>1, <1>2 DEF Closed, NewDom
<1>6. Reach(Flow, S, V) \subseteq U
  <2> HIDE DEF S, V, U
  <2> QED BY <1>1, <1>3, <1>4, <1>5, ReachIsLeast
<1> QED BY <1>6

(* The dominator sets of l_dominator.c are exact for every function: when  *)
(* L_compute_dominator returns, a block is in the set of b if and only if  *)
(* it is on every path to b.                                               *)
THEOREM SweepsComputeDominators == Spec => []DomSetsAreExact
<1>1. Init => IInv
  BY SweepsStart
<1>2. IInv /\ [Next]_vars => IInv'
  BY SweepsPreserve
<1>3. IInv => DomSetsAreExact
  BY SolvedIsExact
<1> QED BY <1>1, <1>2, <1>3, PTL DEF Spec
=============================================================================
