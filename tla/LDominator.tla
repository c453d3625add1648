----------------------------- MODULE LDominator -----------------------------
(***************************************************************************)
(* The dominator and post dominator sets of the Lcode dataflow analysis    *)
(* (l_dominator.c): sets of blocks, shrunk by sweeps over the function's   *)
(* block list until a sweep changes none.  Post dominators are the same    *)
(* computation over the edges reversed.                                    *)
(***************************************************************************)
EXTENDS FlowGraph

VARIABLES graph,    \* the function's blocks and edges
          flow,     \* "dom" or "pdom": which of the two is computed
          dom,      \* block -> its set, cb->dom or cb->pdom
          cb,       \* the block the sweep is at, 0 when all is done
          change    \* has this sweep changed a set?

vars == <<graph, flow, dom, cb, change>>

Flow == IF flow = "dom" THEN graph ELSE Reversed(graph)
First == CHOOSE b \in graph.nodes : \A c \in graph.nodes : b <= c
After(b) == {c \in graph.nodes : c > b}

InitOf(g) ==
  /\ graph = g
  /\ flow \in {"dom", "pdom"}
  /\ dom = [b \in g.nodes |-> IF Preds(Flow, b) # {} THEN g.nodes ELSE {b}]
  /\ cb = First
  /\ change = FALSE

(* The blocks in the sets of all predecessors, and b.                      *)
NewDom(b) ==
  {b} \cup {d \in graph.nodes :
              Preds(Flow, b) # {} /\ \A p \in Preds(Flow, b) : d \in dom[p]}

(* Mutant: the sets are compared before b is added.                        *)
Changes_WithoutSelf(b) == NewDom(b) \ {b} # dom[b]

Changes(b) == NewDom(b) # dom[b]

(* Mutant: the analysis stops after its first sweep.                       *)
NextSweep_Never == 0

(* A sweep that changed a set is followed by another.                      *)
NextSweep == IF change \/ Changes(cb) THEN First ELSE 0

VisitBlock ==
  /\ cb # 0
  /\ dom' = [dom EXCEPT ![cb] = NewDom(cb)]
  /\ IF After(cb) # {}
     THEN /\ cb' = CHOOSE c \in After(cb) : \A d \in After(cb) : c <= d
          /\ change' = (change \/ Changes(cb))
     ELSE /\ cb' = NextSweep
          /\ change' = FALSE
  /\ UNCHANGED <<graph, flow>>

Next == VisitBlock

(* The analysis of any function. *)
Init == IsFlowGraph(graph) /\ InitOf(graph)
Spec == Init /\ [][Next]_vars
-----------------------------------------------------------------------------
(* Blocks nothing leads to: the entry, and any the function does not use.  *)
Sources == {b \in graph.nodes : Preds(Flow, b) = {}}

(* When the sweeps end, the sets are the blocks on every path from a block *)
(* without predecessors.  For a function whose entry has no predecessor    *)
(* and whose blocks are all reachable, these are the dominators; code that *)
(* is not reachable takes dominators away from the blocks it leads to, and *)
(* a loop back to the entry leaves every set full.                         *)
DomSetsAreExact ==
  cb = 0 => \A b \in graph.nodes : dom[b] = OnEveryPath(Flow, Sources, b)

SweepsEnded == cb = 0
=============================================================================
