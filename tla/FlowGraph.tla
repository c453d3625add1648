------------------------------ MODULE FlowGraph ------------------------------
(***************************************************************************)
(* Flow graphs, and what dominance means on them: the definitions by paths *)
(* against which the two dominator analyses of Lcode are checked.  A graph *)
(* is a set of nodes, numbers in the order of the function's block list    *)
(* (the entry, fn->first_cb, is the smallest), and a set of edges.         *)
(***************************************************************************)
EXTENDS Integers, FiniteSets

(* The graphs of functions: blocks are numbered from 1. *)
IsFlowGraph(g) ==
  /\ IsFiniteSet(g.nodes) /\ g.nodes # {} /\ g.nodes \subseteq Nat \ {0}
  /\ g.edges \subseteq g.nodes \X g.nodes
  /\ g = [nodes |-> g.nodes, edges |-> g.edges]

Succs(g, v) == {e[2] : e \in {f \in g.edges : f[1] = v}}
Preds(g, v) == {e[1] : e \in {f \in g.edges : f[2] = v}}

Restricted(g, ns) ==
  [nodes |-> ns, edges |-> {e \in g.edges : e[1] \in ns /\ e[2] \in ns}]

Reversed(g) == [g EXCEPT !.edges = {<<e[2], e[1]>> : e \in @}]

(* The nodes reached from a node of from along edges into nodes of via.    *)
Reach(g, from, via) ==
  LET grow[n \in 0 .. Cardinality(g.nodes)] ==
        IF n = 0 THEN from
        ELSE LET r == grow[n - 1]
             IN r \cup UNION {Succs(g, v) \cap via : v \in r}
  IN grow[Cardinality(g.nodes)]

(* The nodes on every path from a node of from to v: all of them, if there *)
(* is no path.                                                             *)
OnEveryPath(g, from, v) ==
  {d \in g.nodes : d = v \/ v \notin Reach(g, from \ {d}, g.nodes \ {d})}

Dominators(g, entry, v) == OnEveryPath(g, {entry}, v)

Idom(g, entry, v) ==
  CHOOSE d \in Dominators(g, entry, v) \ {v} :
    Dominators(g, entry, v) \ {v} \subseteq Dominators(g, entry, d)

(* Where definitions in the nodes of s and one before the entry meet: two  *)
(* paths from different ones that share only their end.  By Menger's       *)
(* theorem, the nodes no single other node cuts off.                       *)
Meetings(g, entry, s) ==
  LET h == [nodes |-> g.nodes \cup {0}, edges |-> g.edges \cup {<<0, entry>>}]
      Past(u) == UNION {Succs(h, v) : v \in Reach(h, (s \cup {0}) \ {u}, h.nodes \ {u})}
      past == [u \in h.nodes |-> Past(u)]
  IN {z \in g.nodes : \A u \in h.nodes : z \in past[u]}
=============================================================================
