-------------------------------- MODULE LDom --------------------------------
(***************************************************************************)
(* The dominator analysis of SSA construction (l_dom.c): the control nodes *)
(* are numbered depth first, nodes without a number are deleted and the    *)
(* function set up again; then semidominators are computed from the last   *)
(* node to the first over a forest with path compression, immediate        *)
(* dominators from the first to the last, and dominance frontiers in post  *)
(* order of the dominator tree.  From then on nodes are their numbers.     *)
(***************************************************************************)
EXTENDS FlowGraph, SequencesExt

CONSTANT MaxNodes   \* of a function

VARIABLES graph,     \* control nodes and edges
          phase,     \* "visit", "sdom", "idom", "front" or "done"
          dfn,       \* node -> number, 0 before it is visited
          parent,    \* number -> number of the parent in the DFS tree
          cn,        \* the number of the node LD_visit is at
          i,         \* loop counter of LD_dominator
          preds,     \* predecessors of node i not yet evaluated
          sdom,      \* number -> number of the semidominator
          forest,    \* ancestor and label of each number
          bucket,    \* number -> nodes whose semidominator it is
          idom,      \* number -> immediate dominator, 0 at first
          tree,      \* dtchi, dtsib and ridom of each number
          df,        \* number -> dominance frontier
          pod        \* nodes whose frontier is to be computed, in order

vars == <<graph, phase, dfn, parent, cn, i, preds, sdom, forest, bucket, idom,
          tree, df, pod>>

Numbers == 1 .. MaxNodes
NULL == 0
NodeCnt == Cardinality(graph.nodes)   \* LD_dom_analysis->nodecnt

NodeOf(n) == CHOOSE v \in graph.nodes : dfn[v] = n
PredNumbers(n) == {dfn[v] : v \in Preds(graph, NodeOf(n))}
SuccNumbers(n) == {dfn[v] : v \in Succs(graph, NodeOf(n))}

(* LD_setup_cnodes up to the call of LD_visit, which numbers the entry.    *)
SetUp(g) ==
  LET entry == CHOOSE v \in g.nodes : \A u \in g.nodes : v <= u
  IN [dfn |-> [v \in Numbers |-> IF v = entry THEN 1 ELSE NULL],
      parent |-> [n \in Numbers |-> NULL],
      sdom |-> [n \in Numbers |-> n]]

InitOf(g) ==
  /\ graph = g /\ phase = "visit"
  /\ dfn = SetUp(g).dfn /\ parent = SetUp(g).parent /\ sdom = SetUp(g).sdom
  /\ cn = 1 /\ i = 0 /\ preds = {}
  /\ forest = [ancestor |-> [n \in Numbers |-> NULL], label |-> [n \in Numbers |-> n]]
  /\ bucket = [n \in Numbers |-> << >>]
  /\ idom = [n \in Numbers |-> NULL]
  /\ tree = [dtchi |-> [n \in Numbers |-> NULL], dtsib |-> [n \in Numbers |-> NULL],
             ridom |-> [n \in Numbers |-> {}]]
  /\ df = [n \in Numbers |-> {}]
  /\ pod = << >>
-----------------------------------------------------------------------------
Unvisited == {v \in Succs(graph, NodeOf(cn)) : dfn[v] = NULL}
CbrecIndex == Cardinality({v \in graph.nodes : dfn[v] # NULL})

(* LD_visit calls itself for a successor without a number.                 *)
Visit(sn) ==
  /\ phase = "visit" /\ sn \in Unvisited
  /\ dfn' = [dfn EXCEPT ![sn] = CbrecIndex + 1]
  /\ parent' = [parent EXCEPT ![CbrecIndex + 1] = cn]
  /\ cn' = CbrecIndex + 1
  /\ UNCHANGED <<graph, phase, i, preds, sdom, forest, bucket, idom, tree, df, pod>>

(* LD_visit returns.                                                       *)
Return ==
  /\ phase = "visit" /\ Unvisited = {} /\ cn # 1
  /\ cn' = parent[cn]
  /\ UNCHANGED <<graph, phase, dfn, parent, i, preds, sdom, forest, bucket, idom,
                 tree, df, pod>>

Unreachable == {v \in graph.nodes : dfn[v] = NULL}

(* LD_remove_unreachable deletes nodes, and LD_setup starts again.         *)
RemoveUnreachable ==
  LET g == Restricted(graph, graph.nodes \ Unreachable)
  IN /\ phase = "visit" /\ Unvisited = {} /\ cn = 1 /\ Unreachable # {}
     /\ graph' = g
     /\ dfn' = SetUp(g).dfn /\ parent' = SetUp(g).parent
     /\ UNCHANGED <<phase, cn, i, preds, sdom, forest, bucket, idom, tree, df, pod>>

(* The first loop starts; a function of one node has none to do.           *)
StartSdom ==
  /\ phase = "visit" /\ Unvisited = {} /\ cn = 1 /\ Unreachable = {}
  /\ phase' = IF NodeCnt > 1 THEN "sdom" ELSE "idom"
  /\ i' = IF NodeCnt > 1 THEN NodeCnt ELSE 2
  /\ preds' = IF NodeCnt > 1 THEN PredNumbers(NodeCnt) ELSE {}
  /\ UNCHANGED <<graph, dfn, parent, cn, sdom, forest, bucket, idom, tree, df, pod>>
-----------------------------------------------------------------------------
(* v, its ancestors, and last the root of its tree, from the root down.    *)
Chain(f, v) ==
  LET up[n \in 0 .. MaxNodes] ==
        IF n = 0 THEN <<v>>
        ELSE LET below == up[n - 1]
                 a == f.ancestor[Head(below)]
             IN IF a = NULL THEN below ELSE <<a>> \o below
  IN up[MaxNodes]

(* Mutant: the ancestor is replaced before its label is looked at.         *)
CompressOne_LateLabel(f, v) ==
  LET a == f.ancestor[v]
  IN IF a = NULL \/ f.ancestor[a] = NULL THEN f
     ELSE [f EXCEPT !.label[v] = IF sdom[f.label[f.ancestor[a]]] < sdom[@]
                                 THEN f.label[f.ancestor[a]] ELSE @,
                    !.ancestor[v] = f.ancestor[a]]

(* The body of LD_compress for v, once its ancestor has been compressed.   *)
CompressOne(f, v) ==
  LET a == f.ancestor[v]
  IN IF a = NULL \/ f.ancestor[a] = NULL THEN f
     ELSE [f EXCEPT !.label[v] = IF sdom[f.label[a]] < sdom[@] THEN f.label[a] ELSE @,
                    !.ancestor[v] = f.ancestor[a]]

Compress(f, v) == FoldLeft(CompressOne, f, Chain(f, v))

(* LD_eval on a compressed forest.                                         *)
Eval(f, v) ==
  LET a == f.ancestor[v]
  IN IF a = NULL \/ sdom[f.label[a]] >= sdom[f.label[v]] THEN f.label[v]
     ELSE f.label[a]

(* The next predecessor v of node i.                                       *)
EvalPred(v) ==
  LET f == Compress(forest, v)
      u == Eval(f, v)
  IN /\ phase = "sdom" /\ v \in preds
     /\ preds' = preds \ {v}
     /\ forest' = f
     /\ sdom' = [sdom EXCEPT ![i] = IF sdom[u] < @ THEN sdom[u] ELSE @]
     /\ UNCHANGED <<graph, phase, dfn, parent, cn, i, bucket, idom, tree, df, pod>>

(* Take v out of the bucket of p.                                          *)
EmptyOne(p, st, v) ==
  LET f == Compress(st.forest, v)
      u == Eval(f, v)
  IN [forest |-> f,
      idom |-> [st.idom EXCEPT ![v] = IF sdom[u] < sdom[v] THEN u ELSE p]]

(* Mutant: a node's bucket is emptied when it is linked, not its parent's. *)
LinkAndEmpty_OwnBucket ==
  LET p == parent[i]
      b == [bucket EXCEPT ![sdom[i]] = Append(@, i)]
      st == FoldLeft(LAMBDA s, v : EmptyOne(i, s, v),
                     [forest |-> [forest EXCEPT !.ancestor[i] = p], idom |-> idom], b[i])
  IN /\ phase = "sdom" /\ preds = {}
     /\ bucket' = [b EXCEPT ![i] = << >>]
     /\ forest' = st.forest /\ idom' = st.idom
     /\ phase' = IF i > 2 THEN "sdom" ELSE "idom"
     /\ i' = IF i > 2 THEN i - 1 ELSE 2
     /\ preds' = IF i > 2 THEN PredNumbers(i - 1) ELSE {}
     /\ UNCHANGED <<graph, dfn, parent, cn, sdom, tree, df, pod>>

(* The rest of the first loop's body.                                      *)
LinkAndEmpty ==
  LET p == parent[i]
      b == [bucket EXCEPT ![sdom[i]] = Append(@, i)]
      st == FoldLeft(LAMBDA s, v : EmptyOne(p, s, v),
                     [forest |-> [forest EXCEPT !.ancestor[i] = p], idom |-> idom], b[p])
  IN /\ phase = "sdom" /\ preds = {}
     /\ bucket' = [b EXCEPT ![p] = << >>]
     /\ forest' = st.forest /\ idom' = st.idom
     /\ phase' = IF i > 2 THEN "sdom" ELSE "idom"
     /\ i' = IF i > 2 THEN i - 1 ELSE 2
     /\ preds' = IF i > 2 THEN PredNumbers(i - 1) ELSE {}
     /\ UNCHANGED <<graph, dfn, parent, cn, sdom, tree, df, pod>>
-----------------------------------------------------------------------------
(* Mutant: the relative dominator's own dominator is not looked up.        *)
FixIdom_Relative(d) == d

(* An idom that is not the semidominator is a node with the same idom.     *)
FixIdom(d) == IF d # sdom[i] THEN idom[d] ELSE d

(* The second loop's body for node i.                                      *)
SetIdom ==
  LET d == FixIdom(idom[i])
  IN /\ phase = "idom" /\ i <= NodeCnt
     /\ idom' = [idom EXCEPT ![i] = d]
     /\ tree' = [tree EXCEPT !.ridom[d] = @ \cup {i},
                             !.dtsib[i] = tree.dtchi[d],
                             !.dtchi[d] = i]
     /\ i' = i + 1
     /\ UNCHANGED <<graph, phase, dfn, parent, cn, preds, sdom, forest, bucket, df, pod>>

(* LD_pod_visit from n: children, the node, then its siblings.             *)
PodFrom(n) ==
  LET visit[v \in Numbers \cup {NULL}] ==
        IF v = NULL THEN << >>
        ELSE visit[tree.dtchi[v]] \o <<v>> \o visit[tree.dtsib[v]]
  IN visit[n]

StartFront ==
  /\ phase = "idom" /\ i > NodeCnt
  /\ phase' = "front"
  /\ pod' = PodFrom(1)
  /\ UNCHANGED <<graph, dfn, parent, cn, i, preds, sdom, forest, bucket, idom, tree, df>>

(* The list of children: dtchi of v, and dtsib of each.                    *)
Children(v) ==
  LET from[n \in Numbers \cup {NULL}] ==
        IF n = NULL THEN {} ELSE {n} \cup from[tree.dtsib[n]]
  IN from[tree.dtchi[v]]

(* The body of LD_dom_front's loop: the successors and the frontiers of    *)
(* the children that v does not immediately dominate.                      *)
FrontierOf(v) ==
  (SuccNumbers(v) \cup UNION {df[u] : u \in Children(v)}) \ tree.ridom[v]

DomFront ==
  /\ phase = "front" /\ pod # << >>
  /\ df' = [df EXCEPT ![Head(pod)] = FrontierOf(Head(pod))]
  /\ pod' = Tail(pod)
  /\ UNCHANGED <<graph, phase, dfn, parent, cn, i, preds, sdom, forest, bucket, idom, tree>>

Finish ==
  /\ phase = "front" /\ pod = << >>
  /\ phase' = "done"
  /\ UNCHANGED <<graph, dfn, parent, cn, i, preds, sdom, forest, bucket, idom, tree, df, pod>>

(* LD_df_set.                                                              *)
DfSet(nodes) == UNION {df[n] : n \in nodes}

(* Mutant: one round is enough.                                            *)
DfPlus_OneRound(nodes) == DfSet(DfSet(nodes) \cup nodes)

(* LD_df_plus: where the phi nodes of a variable defined in nodes go.  The *)
(* loop stops when a round changes nothing, so any longer is the same.     *)
DfPlus(nodes) ==
  LET dfp[n \in 0 .. MaxNodes] ==
        IF n = 0 THEN DfSet(nodes) ELSE DfSet(dfp[n - 1] \cup nodes)
  IN dfp[MaxNodes]

Next ==
  \/ \E v \in Numbers : Visit(v) \/ EvalPred(v)
  \/ Return \/ RemoveUnreachable \/ StartSdom
  \/ LinkAndEmpty \/ SetIdom \/ StartFront \/ DomFront \/ Finish
-----------------------------------------------------------------------------
(* The graph of the numbers.                                               *)
Numbered == [nodes |-> 1 .. NodeCnt,
             edges |-> {<<dfn[e[1]], dfn[e[2]]>> : e \in graph.edges}]

(* The second loop leaves every node with its immediate dominator, and     *)
(* with the nodes it immediately dominates as children.                    *)
IdomsAreExact ==
  \A w \in 2 .. NodeCnt :
    phase \in {"front", "done"} \/ (phase = "idom" /\ w < i) =>
      /\ idom[w] = Idom(Numbered, 1, w)
      /\ w \in tree.ridom[idom[w]] \cap Children(idom[w])

(* LD_df_plus, from the computed frontiers, puts the phi nodes of a        *)
(* variable exactly where two of its definitions meet.                     *)
PhisAreWhereDefinitionsMeet ==
  phase = "done" =>
    \A s \in SUBSET (1 .. NodeCnt) : DfPlus(s) = Meetings(Numbered, 1, s)
=============================================================================
