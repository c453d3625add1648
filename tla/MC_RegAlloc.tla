----------------------------- MODULE MC_RegAlloc -----------------------------
EXTENDS RegAlloc

(* Floats are units of the register file, doubles are pairs of units. *)
MCSize == [float |-> 1, double |-> 2]
MCUnits == [caller |-> 2, callee |-> 2]

(* Two control blocks; register v is defined by operation v, and each of   *)
(* the operations in usedAt reads reads registers.                         *)
MCLastOp == <<2, 7>>

Uses(n, usedAt, reads) ==
  {u \in [1..n -> SUBSET usedAt] :
     /\ \A i \in usedAt : Cardinality({v \in 1..n : i \in u[v]}) = reads
     /\ \A v \in 1..n : \A i \in u[v] : v < i}

Functions(uses, types, benefits, priorities, illegals, prunes) ==
  {[def |-> [v \in DOMAIN u |-> v], use |-> u, type |-> t, benefit |-> b,
    priority |-> p, illegal |-> i, prune |-> x] :
     u \in uses, t \in types, b \in benefits, p \in priorities,
     i \in illegals, x \in prunes}

CallerFirst == [caller |-> 1, callee |-> 0]
OnlyCallee == [caller |-> -1, callee |-> 1]
Benefits == {CallerFirst, [caller |-> 0, callee |-> 1], OnlyCallee,
             [caller |-> 1, callee |-> -1], [caller |-> -1, callee |-> -1]}

(* Four registers, the pairs of which three operations read, against two   *)
(* doubles or four floats; three registers with every choice of benefits;  *)
(* floats that may not be in some of the units; doubles that may not be in *)
(* one of the two pairs, and find none although they were pruned; and an   *)
(* operation that reads three doubles, which do not fit.                   *)
MCPrograms ==
  Functions(Uses(4, {5, 6, 7}, 2),
            {<<"double", "double", "double", "double">>,
             <<"double", "float", "double", "float">>},
            {<<CallerFirst, CallerFirst, CallerFirst, CallerFirst>>},
            {<<1, 2, 3, 4>>, <<4, 3, 2, 1>>}, {<<{}, {}, {}, {}>>}, BOOLEAN)
  \cup
  Functions(Uses(3, {4, 5}, 2), {<<"double", "double", "float">>},
            [1..3 -> Benefits], {<<1, 2, 2>>}, {<<{}, {}, {}>>}, {TRUE})
  \cup
  Functions(Uses(4, {4, 5}, 2), {<<"float", "double", "float", "float">>},
            {<<CallerFirst, CallerFirst, OnlyCallee, CallerFirst>>},
            {<<1, 2, 3, 4>>}, {<<{0, 1}, {}, {2}, {0}>>, <<{0}, {}, {3}, {1, 2}>>},
            BOOLEAN)
  \cup
  Functions(Uses(3, {4, 5}, 2), {<<"double", "float", "double">>},
            {<<CallerFirst, CallerFirst, CallerFirst>>},
            {<<1, 2, 3>>}, {<<{0}, {}, {2}>>, <<{0}, {}, {}>>}, BOOLEAN)
  \cup
  Functions(Uses(4, {6}, 3), {<<"double", "double", "double", "double">>},
            {<<CallerFirst, CallerFirst, CallerFirst, CallerFirst>>},
            {<<1, 2, 3, 4>>}, {<<{}, {}, {}, {}>>}, BOOLEAN)
=============================================================================
