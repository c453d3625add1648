---------------------------- MODULE MC_Dominators ----------------------------
(***************************************************************************)
(* Both dominator analyses over small flow graphs; a behavior is one       *)
(* analysis of one graph.                                                  *)
(***************************************************************************)
EXTENDS LDominator

CONSTANT MaxNodes

VARIABLES analysis,   \* "LD" (l_dom.c) or "sets" (l_dominator.c)
          phase, dfn, parent, cn, i, preds, sdom, forest, bucket, idom, tree, df, pod

L == INSTANCE LDom

(* Every graph of three nodes, self loops and unreachable nodes included.  *)
SmallGraphs == [nodes : {1 .. 3}, edges : SUBSET ((1 .. 3) \X (1 .. 3))]

(* Four nodes in a chain with any other edges but those into the entry.    *)
Edges(n) == {e \in (1 .. n) \X (2 .. n) : e[1] # e[2]}
Chained(n) == {<<k, k + 1>> : k \in 1 .. n - 1}
ChainGraphs == {[nodes |-> 1 .. 4, edges |-> Chained(4) \cup e] :
                  e \in SUBSET (Edges(4) \ Chained(4))}

(* Five nodes in a chain, any edges that leave nodes out, and some back:   *)
(* long enough for a path to be compressed twice.                          *)
DeepGraphs == {[nodes |-> 1 .. 5, edges |-> Chained(5) \cup e] :
                 e \in SUBSET ({x \in (1 .. 5) \X (1 .. 5) : x[2] > x[1] + 1}
                                \cup {<<5, 2>>, <<5, 3>>})}

(* While l_dom.c runs, l_dominator.c is at no block it will ever leave.     *)
NoSets == flow = "none" /\ dom = << >> /\ cb = 1 /\ change = FALSE

MCInit ==
  \E g \in SmallGraphs \cup ChainGraphs \cup DeepGraphs :
    /\ L!InitOf(g)
    /\ \/ analysis = "LD" /\ NoSets
       \/ analysis = "sets" /\ InitOf(g)

Analysed ==
  \/ analysis = "LD" /\ phase = "done"
  \/ analysis = "sets" /\ cb = 0

LDVars == <<phase, dfn, parent, cn, i, preds, sdom, forest, bucket, idom, tree, df, pod>>
MCVars == <<vars, analysis, LDVars>>

Sweep ==
  /\ analysis = "sets" /\ Next
  /\ UNCHANGED <<analysis, LDVars>>

(* Only an analysis that is complete may stop.                             *)
Stop == Analysed /\ UNCHANGED MCVars

MCNext ==
  \/ analysis = "LD" /\ L!Next /\ UNCHANGED <<analysis, flow, dom, cb, change>>
  \/ Sweep
  \/ Stop

(* L_compute_dominator runs until it returns.                              *)
MCSpec == MCInit /\ [][MCNext]_MCVars /\ WF_MCVars(Sweep)
-----------------------------------------------------------------------------
(* When l_dom.c is done, idom is the immediate dominator of every node it   *)
(* kept.                                                                   *)
IdomsAreExact == analysis = "LD" => L!IdomsAreExact

(* The iterated frontiers of l_dom.c place phis where the paths from two   *)
(* definitions first meet.                                                 *)
PhisAreWhereDefinitionsMeet == analysis = "LD" => L!PhisAreWhereDefinitionsMeet

(* The loop over sets that still change does not go on forever.            *)
SweepsEnd == analysis = "sets" ~> SweepsEnded
=============================================================================
