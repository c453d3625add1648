-------------------------- MODULE RegAlloc_proofs ---------------------------
(***************************************************************************)
(* Spilling and splitting never lose an arc that still matters, and an     *)
(* allocation that is returned is correct, for every function, every       *)
(* register file and every order of priorities.                            *)
(***************************************************************************)
EXTENDS RegAlloc, RegBank_proofs

(* Operations are numbers.                                                 *)
LEMMA OpsFacts == Ops \subseteq Nat /\ IsFiniteSet(Ops)
<1>1. Last(LastOp) \in Nat
  BY RegAllocAssumption DEF Last
<1> QED BY <1>1, FS_Interval DEF Ops

-----------------------------------------------------------------------------
(* The interference graph.  The definitions are of the values of prog,     *)
(* vreg and intf, so that they can be stated of the next state as well.    *)

(* The first conjunct names the fields. *)
VregOK(p, r) ==
  /\ r = [root |-> r.root, type |-> r.type, benefit |-> r.benefit,
          rclass |-> r.rclass, illegal |-> r.illegal, base |-> r.base,
          priority |-> r.priority, spilled |-> r.spilled, split |-> r.split,
          ref |-> r.ref, live |-> r.live]
  /\ r.root \in DOMAIN p.def
  /\ r.type \in Types /\ r.type = p.type[r.root] /\ r.illegal = p.illegal[r.root]
  /\ r.benefit["caller"] \in Int /\ r.benefit["callee"] \in Int
  /\ r.rclass \in Classes \/ (r.rclass = "prefer_spill" /\ r.benefit["caller"] < 0)
  /\ r.ref \subseteq RefInstr(p, r.root)
  /\ r.spilled => r.live = r.ref
  /\ ~ r.spilled => /\ r.split = "no"
                    /\ r.ref = RefInstr(p, r.root)
                    /\ r.live = LiveRange(p, r.root)

(* The operations before and after which a register is held; it is         *)
(* HeldBefore and HeldAfter for any register.                              *)
Before(p, r, i) ==
  \/ ~ r.spilled /\ LiveIn(p, r.root, i)
  \/ i \in r.ref \cap p.use[r.root]
After(p, r, i) ==
  \/ ~ r.spilled /\ LiveOut(p, r.root, i)
  \/ i \in r.ref /\ i = p.def[r.root]
Clash(p, r, q) ==
  \E i \in Ops : \/ Before(p, r, i) /\ Before(p, q, i)
                 \/ After(p, r, i) /\ After(p, q, i)

Apart(r, q) == r.root = q.root => r.ref \cap q.ref = {}

GraphOK(p, vr, arcs) ==
  /\ \E m \in Nat : DOMAIN vr = 1..m
  /\ vr = [v \in DOMAIN vr |-> vr[v]]
  /\ DOMAIN arcs = DOMAIN vr
  /\ DOMAIN p.def \subseteq DOMAIN vr
  /\ \A v \in DOMAIN vr : VregOK(p, vr[v]) /\ (v \in DOMAIN p.def => vr[v].root = v)
  /\ \A v \in DOMAIN vr : arcs[v] \subseteq DOMAIN vr \ {v}
  /\ \A v, w \in DOMAIN vr : w \in arcs[v] <=> v \in arcs[w]
  /\ \A v, w \in DOMAIN vr : v # w => Apart(vr[v], vr[w])
  /\ \A r \in DOMAIN p.def : \A i \in RefInstr(p, r) :
       \E v \in DOMAIN vr : vr[v].root = r /\ i \in vr[v].ref
  /\ \A v, w \in DOMAIN vr : v # w /\ Clash(p, vr[v], vr[w]) => w \in arcs[v]

(* A graph in order has every arc that matters. *)
LEMMA GraphGivesArcs ==
  ASSUME GraphOK(prog, vreg, intf)
  PROVE  ConflictsAreArcs
<1>1. \A v, w : Conflict(v, w) <=> Clash(prog, vreg[v], vreg[w])
  BY DEF Conflict, Clash, HeldBefore, HeldAfter, Before, After
<1> QED BY <1>1 DEF GraphOK, ConflictsAreArcs

(* What is held at the same moment as a spilled register is live where it  *)
(* is referred to.                                                         *)
LEMMA ClashMeets ==
  ASSUME NEW p, IsFunctionToCompile(p), NEW r, NEW q, VregOK(p, r), VregOK(p, q),
         r.spilled, Apart(r, q), Clash(p, r, q)
  PROVE  r.ref \cap q.live # {}
<1>1. PICK i \in Ops : \/ Before(p, r, i) /\ Before(p, q, i)
                       \/ After(p, r, i) /\ After(p, q, i)
  BY DEF Clash
<1>2. i \in Nat /\ Ops \subseteq Nat
  BY OpsFacts
<1>3. /\ r.root \in DOMAIN p.def /\ q.root \in DOMAIN p.def
      /\ p.def[q.root] \in Nat /\ p.use[q.root] \subseteq Nat
      /\ \A u \in p.use[q.root] : p.def[q.root] < u
      /\ p.def[r.root] = p.def[q.root] => r.root = q.root
  BY <1>2 DEF IsFunctionToCompile, VregOK
<1>4. i \in r.ref
  BY <1>1 DEF Before, After
<1>5. CASE q.spilled
  BY <1>1, <1>4, <1>5 DEF Before, After, VregOK
<1>6. CASE ~ q.spilled
  <2>1. q.live = LiveRange(p, q.root) /\ q.ref = RefInstr(p, q.root)
    BY <1>6 DEF VregOK
  <2>2. LiveIn(p, q.root, i) => i \in q.live
    BY <2>1 DEF LiveRange
  <2>3. CASE Before(p, r, i) /\ Before(p, q, i)
    <3>1. LiveIn(p, q.root, i) \/ i \in p.use[q.root]
      BY <2>3 DEF Before
    <3>2. i \in p.use[q.root] => LiveIn(p, q.root, i)
      BY <1>2, <1>3 DEF LiveIn
    <3> QED BY <1>4, <2>2, <3>1, <3>2
  <2>4. CASE After(p, r, i) /\ After(p, q, i)
    <3>1. i = p.def[r.root]
      BY <2>4 DEF After
    <3>2. p.def[q.root] # i
      <4> SUFFICES ASSUME p.def[q.root] = i PROVE FALSE
        OBVIOUS
      <4>1. r.root = q.root
        BY <1>3, <3>1
      <4>2. i \in q.ref
        BY <2>1, <3>1, <4>1 DEF RefInstr
      <4> QED BY <1>4, <4>1, <4>2 DEF Apart
    <3>3. LiveOut(p, q.root, i)
      BY <2>4, <3>2 DEF After
    <3>4. LiveIn(p, q.root, i)
      BY <1>2, <1>3, <3>2, <3>3 DEF LiveOut, LiveIn
    <3> QED BY <1>4, <2>2, <3>4
  <2> QED BY <1>1, <2>3, <2>4
<1> QED BY <1>5, <1>6

(* A part of a register is held where the register was.                    *)
LEMMA ClashOfPart ==
  ASSUME NEW p, NEW r, NEW s, NEW q, r.spilled, r.root = s.root, r.ref \subseteq s.ref,
         Clash(p, r, q)
  PROVE  Clash(p, s, q) /\ Clash(p, q, s)
BY DEF Clash, Before, After

(* Parts that share no reference are never held at the same moment.        *)
LEMMA PartsDoNotClash ==
  ASSUME NEW p, NEW r, NEW q, r.spilled, q.spilled, r.ref \cap q.ref = {}
  PROVE  ~ Clash(p, r, q)
BY DEF Clash, Before, After

(* The order of the two does not matter. *)
LEMMA ClashSymmetric ==
  ASSUME NEW p, NEW r, NEW q
  PROVE  Clash(p, r, q) <=> Clash(p, q, r)
BY DEF Clash

(* pieces divides register v: v is one of them, the others are new, and    *)
(* each reference of v is in one.                                          *)
Divides(p, vr, v, pieces) ==
  /\ v \in DOMAIN pieces
  /\ \A x \in DOMAIN pieces : x = v \/ x \notin DOMAIN vr
  /\ \E m \in Nat : DOMAIN vr \cup DOMAIN pieces = 1..m
  /\ \A x \in DOMAIN pieces :
       /\ VregOK(p, pieces[x]) /\ pieces[x].spilled
       /\ pieces[x].root = vr[v].root
       /\ pieces[x].ref \subseteq vr[v].ref
  /\ \A x, y \in DOMAIN pieces : x # y => pieces[x].ref \cap pieces[y].ref = {}
  /\ \A i \in vr[v].ref : \E x \in DOMAIN pieces : i \in pieces[x].ref

(* What Replace does to vreg and intf. *)
Replaced(vr, pieces) ==
  [w \in DOMAIN vr \cup DOMAIN pieces |->
     IF w \in DOMAIN pieces THEN pieces[w] ELSE vr[w]]
Rewired(vr, arcs, v, pieces) ==
  [w \in DOMAIN vr \cup DOMAIN pieces |->
     IF w \in DOMAIN pieces
     THEN {x \in arcs[v] : pieces[w].live \cap vr[x].live # {}}
     ELSE (arcs[w] \ {v}) \cup
          {x \in DOMAIN pieces : w \in arcs[v] /\ pieces[x].live \cap vr[w].live # {}}]

(* Replace does what Replaced and Rewired say. *)
LEMMA ReplaceIs ==
  ASSUME NEW v, NEW pieces, Replace(v, pieces)
  PROVE  /\ vreg' = Replaced(vreg, pieces)
         /\ intf' = Rewired(vreg, intf, v, pieces)
<1>1. vreg' = Replaced(vreg, pieces)
  BY DEF Replace, Replaced
<1>2. /\ DOMAIN vreg' = DOMAIN vreg \cup DOMAIN pieces
      /\ \A w \in DOMAIN pieces : vreg'[w] = pieces[w]
  BY <1>1 DEF Replaced
<1>3. intf' = [w \in DOMAIN vreg' |->
       IF w \in DOMAIN pieces
       THEN {x \in intf[v] : vreg'[w].live \cap vreg[x].live # {}}
       ELSE (intf[w] \ {v}) \cup
            {p \in DOMAIN pieces : w \in intf[v] /\ vreg'[p].live \cap vreg[w].live # {}}]
  BY DEF Replace, Meets
<1>4. intf' = Rewired(vreg, intf, v, pieces)
  BY <1>2, <1>3 DEF Rewired
<1> QED BY <1>1, <1>4

(* A division keeps the graph in order. *)
LEMMA DivisionKeepsGraph ==
  ASSUME NEW p, IsFunctionToCompile(p), NEW vr, NEW arcs, GraphOK(p, vr, arcs),
         NEW v \in DOMAIN vr, NEW pieces, Divides(p, vr, v, pieces)
  PROVE  GraphOK(p, Replaced(vr, pieces), Rewired(vr, arcs, v, pieces))
<1> DEFINE D == DOMAIN vr
           P == DOMAIN pieces
           vr2 == Replaced(vr, pieces)
           arcs2 == Rewired(vr, arcs, v, pieces)
<1>1. /\ DOMAIN vr2 = D \cup P /\ DOMAIN arcs2 = D \cup P
      /\ \A w \in P : vr2[w] = pieces[w]
      /\ \A w \in D \ P : vr2[w] = vr[w]
      /\ vr2 = [w \in DOMAIN vr2 |-> vr2[w]]
  BY DEF Replaced, Rewired
<1>2. \A w \in P : \A x : x \in arcs2[w] <=> x \in arcs[v] /\ pieces[w].live \cap vr[x].live # {}
  BY DEF Rewired
<1>3. \A w \in D \ P : \A x :
        x \in arcs2[w] <=> \/ x \in arcs[w] /\ x # v
                           \/ x \in P /\ w \in arcs[v] /\ pieces[x].live \cap vr[w].live # {}
  BY DEF Rewired
<1> HIDE DEF vr2, arcs2
<1>4. v \in P /\ v \in D /\ \A x \in P : x = v \/ x \notin D
  BY DEF Divides
<1>5. \A w \in D : arcs[w] \subseteq D /\ w \notin arcs[w]
  BY DEF GraphOK
<1>6. \A w, x \in D : w \in arcs[x] <=> x \in arcs[w]
  BY DEF GraphOK
<1>7. \A w \in P : /\ VregOK(p, pieces[w]) /\ pieces[w].spilled /\ pieces[w].live = pieces[w].ref
                   /\ pieces[w].root = vr[v].root /\ pieces[w].ref \subseteq vr[v].ref
  BY DEF Divides, VregOK
<1>8. \A w \in D : VregOK(p, vr[w]) /\ (w \in DOMAIN p.def => vr[w].root = w)
  BY DEF GraphOK
<1>a. DOMAIN p.def \subseteq D
  BY DEF GraphOK
<1>9. \A w \in D \cup P : VregOK(p, vr2[w]) /\ (w \in DOMAIN p.def => vr2[w].root = w)
  BY <1>1, <1>4, <1>7, <1>8, <1>a
<1>10. \A w \in D \cup P : arcs2[w] \subseteq (D \cup P) \ {w}
  <2> SUFFICES ASSUME NEW w \in D \cup P, NEW x \in arcs2[w]
               PROVE  x \in D \cup P /\ x # w
    OBVIOUS
  <2>1. CASE w \in P
    BY <1>2, <1>4, <1>5, <2>1
  <2>2. CASE w \in D \ P
    BY <1>3, <1>4, <1>5, <2>2
  <2> QED BY <2>1, <2>2
<1>11. ASSUME NEW w \in D \cup P, NEW x \in D \cup P, x \in arcs2[w]
       PROVE  w \in arcs2[x]
  <2>1. CASE w \in P
    <3>1. x \in arcs[v] /\ pieces[w].live \cap vr[x].live # {}
      BY <1>2, <1>11, <2>1
    <3>2. x \in D \ P
      BY <1>4, <1>5, <3>1
    <3> QED BY <1>3, <2>1, <3>1, <3>2
  <2>2. CASE w \in D \ P
    <3>1. CASE x \in arcs[w] /\ x # v
      <4>1. x \in D \ P
        BY <1>4, <1>5, <2>2, <3>1
      <4> QED BY <1>3, <1>4, <1>6, <2>2, <3>1, <4>1
    <3>2. CASE x \in P /\ w \in arcs[v] /\ pieces[x].live \cap vr[w].live # {}
      BY <1>2, <3>2
    <3> QED BY <1>3, <1>11, <2>2, <3>1, <3>2
  <2> QED BY <2>1, <2>2
<1>12. ASSUME NEW w \in D \cup P, NEW x \in D \cup P, w # x
       PROVE  Apart(vr2[w], vr2[x])
  <2>1. \A y, z \in D : y # z => Apart(vr[y], vr[z])
    BY DEF GraphOK
  <2>2. \A y, z \in P : y # z => pieces[y].ref \cap pieces[z].ref = {}
    BY DEF Divides
  <2>3. \A y \in P : \A z \in D \ P : Apart(pieces[y], vr[z]) /\ Apart(vr[z], pieces[y])
    BY <1>4, <1>7, <2>1 DEF Apart
  <2>4. CASE w \in P /\ x \in P
    BY <1>1, <1>12, <2>2, <2>4 DEF Apart
  <2>5. CASE w \in P /\ x \in D \ P
    BY <1>1, <2>3, <2>5
  <2>6. CASE w \in D \ P /\ x \in P
    BY <1>1, <2>3, <2>6
  <2>7. CASE w \in D \ P /\ x \in D \ P
    BY <1>1, <1>12, <2>1, <2>7
  <2> QED BY <2>4, <2>5, <2>6, <2>7
<1>13. ASSUME NEW r \in DOMAIN p.def, NEW i \in RefInstr(p, r)
       PROVE  \E w \in D \cup P : vr2[w].root = r /\ i \in vr2[w].ref
  <2>1. PICK w \in D : vr[w].root = r /\ i \in vr[w].ref
    BY DEF GraphOK
  <2>2. CASE w = v
    <3>1. PICK x \in P : i \in pieces[x].ref
      BY <2>1, <2>2 DEF Divides
    <3> QED BY <1>1, <1>7, <2>1, <2>2, <3>1
  <2>3. CASE w # v
    BY <1>1, <1>4, <2>1, <2>3
  <2> QED BY <2>2, <2>3
<1>14. ASSUME NEW w \in P, NEW x \in D \ P, Clash(p, pieces[w], vr[x])
       PROVE  x \in arcs2[w]
  <2>1. Clash(p, vr[v], vr[x])
    BY <1>7, <1>14, ClashOfPart
  <2>2. x \in arcs[v]
    BY <1>4, <2>1 DEF GraphOK
  <2>3. Apart(pieces[w], vr[x])
    BY <1>1, <1>4, <1>12
  <2>4. pieces[w].ref \cap vr[x].live # {}
    BY <1>7, <1>8, <1>14, <2>3, ClashMeets
  <2> QED BY <1>2, <1>7, <2>2, <2>4
<1>15. ASSUME NEW w \in D \cup P, NEW x \in D \cup P, w # x, Clash(p, vr2[w], vr2[x])
       PROVE  x \in arcs2[w]
  <2>1. CASE w \in P /\ x \in P
    <3>1. pieces[w].ref \cap pieces[x].ref = {}
      BY <1>15, <2>1 DEF Divides
    <3>2. ~ Clash(p, pieces[w], pieces[x])
      BY <1>7, <2>1, <3>1, PartsDoNotClash
    <3> QED BY <1>1, <1>15, <2>1, <3>2
  <2>2. CASE w \in P /\ x \in D \ P
    BY <1>1, <1>14, <1>15, <2>2
  <2>3. CASE w \in D \ P /\ x \in P
    <3>1. Clash(p, pieces[x], vr[w])
      BY <1>1, <1>15, <2>3, ClashSymmetric
    <3>2. w \in arcs2[x]
      BY <1>14, <2>3, <3>1
    <3> QED BY <1>11, <3>2
  <2>4. CASE w \in D \ P /\ x \in D \ P
    <3>1. x \in arcs[w]
      BY <1>1, <1>15, <2>4 DEF GraphOK
    <3> QED BY <1>3, <1>4, <2>4, <3>1
  <2> QED BY <2>1, <2>2, <2>3, <2>4
<1>16. \E m \in Nat : D \cup P = 1..m
  BY DEF Divides
<1>17. \A w, x \in D \cup P : w \in arcs2[x] <=> x \in arcs2[w]
  BY <1>11
<1>18. GraphOK(p, vr2, arcs2)
  <2> HIDE DEF D, P
  <2>1. DOMAIN p.def \subseteq DOMAIN vr2
    BY <1>1, <1>a
  <2> QED BY ONLY <1>1, <2>1, <1>9, <1>10, <1>12, <1>13, <1>15, <1>16, <1>17 DEF GraphOK
<1> QED BY <1>18 DEF vr2, arcs2

(* So does a step that changes only what the graph does not depend on. *)
LEMMA SameGraph ==
  ASSUME NEW p, NEW vr, NEW arcs, GraphOK(p, vr, arcs),
         NEW vr2, DOMAIN vr2 = DOMAIN vr, vr2 = [v \in DOMAIN vr2 |-> vr2[v]],
         \A v \in DOMAIN vr : /\ VregOK(p, vr2[v])
                              /\ vr2[v].root = vr[v].root
                              /\ vr2[v].ref = vr[v].ref
                              /\ vr2[v].spilled = vr[v].spilled
  PROVE  GraphOK(p, vr2, arcs)
<1>1. \A v, w \in DOMAIN vr : /\ Clash(p, vr2[v], vr2[w]) <=> Clash(p, vr[v], vr[w])
                              /\ Apart(vr2[v], vr2[w]) <=> Apart(vr[v], vr[w])
  BY DEF Clash, Before, After, Apart
<1> QED BY <1>1 DEF GraphOK

(* Registers of the function that are held at the same moment interfere.   *)
LEMMA HeldTogetherInterfere ==
  ASSUME NEW p, IsFunctionToCompile(p), NEW v \in DOMAIN p.def, NEW w \in DOMAIN p.def,
         v # w, Clash(p, NewVreg(p, v), NewVreg(p, w))
  PROVE  Interferes(p, v, w)
<1> DEFINE r == NewVreg(p, v)
           q == NewVreg(p, w)
<1>1. /\ r.root = v /\ ~ r.spilled /\ r.ref = RefInstr(p, v)
      /\ q.root = w /\ ~ q.spilled /\ q.ref = RefInstr(p, w)
  BY DEF NewVreg
<1> HIDE DEF r, q
<1>2. PICK i \in Ops : \/ Before(p, r, i) /\ Before(p, q, i)
                       \/ After(p, r, i) /\ After(p, q, i)
  BY DEF Clash, r, q
<1>3. i \in Nat /\ Ops \subseteq Nat
  BY OpsFacts
<1>4. /\ p.def[v] \in Nat /\ p.def[w] \in Nat /\ p.def[v] # p.def[w]
      /\ \A u \in p.use[v] : u \in Nat /\ p.def[v] < u
      /\ \A u \in p.use[w] : u \in Nat /\ p.def[w] < u
  BY <1>3 DEF IsFunctionToCompile
<1>5. CASE Before(p, r, i) /\ Before(p, q, i)
  <2>1. LiveIn(p, v, i) /\ LiveIn(p, w, i)
    BY <1>1, <1>3, <1>4, <1>5 DEF Before, LiveIn
  <2>2. PICK a \in p.use[v], b \in p.use[w] : i <= a /\ i <= b
    BY <2>1 DEF LiveIn
  <2>3. p.def[v] < i /\ p.def[w] < i
    BY <2>1 DEF LiveIn
  <2>4. CASE p.def[v] < p.def[w]
    <3>1. p.def[w] < a
      BY <1>3, <1>4, <2>2, <2>3
    <3>2. LiveOut(p, v, p.def[w])
      BY <1>4, <2>4, <3>1 DEF LiveOut
    <3> QED BY <3>2 DEF Interferes
  <2>5. CASE p.def[w] < p.def[v]
    <3>1. p.def[v] < b
      BY <1>3, <1>4, <2>2, <2>3
    <3>2. LiveOut(p, w, p.def[v])
      BY <1>4, <2>5, <3>1 DEF LiveOut
    <3> QED BY <3>2 DEF Interferes
  <2> QED BY <1>4, <2>4, <2>5
<1>6. CASE After(p, r, i) /\ After(p, q, i)
  <2>1. LiveOut(p, v, i) \/ i = p.def[v]
    BY <1>1, <1>6 DEF After
  <2>2. LiveOut(p, w, i) \/ i = p.def[w]
    BY <1>1, <1>6 DEF After
  <2>3. p.def[v] <= i /\ p.def[w] <= i
    BY <1>3, <1>4, <2>1, <2>2 DEF LiveOut
  <2>4. CASE p.def[v] < p.def[w]
    <3>1. PICK a \in p.use[v] : i < a
      BY <1>3, <1>4, <2>1, <2>3, <2>4 DEF LiveOut
    <3>2. p.def[w] < a
      BY <1>3, <1>4, <2>3, <3>1
    <3>3. LiveOut(p, v, p.def[w])
      BY <1>4, <2>4, <3>2 DEF LiveOut
    <3> QED BY <3>3 DEF Interferes
  <2>5. CASE p.def[w] < p.def[v]
    <3>1. PICK b \in p.use[w] : i < b
      BY <1>3, <1>4, <2>2, <2>3, <2>5 DEF LiveOut
    <3>2. p.def[v] < b
      BY <1>3, <1>4, <2>3, <3>1
    <3>3. LiveOut(p, w, p.def[v])
      BY <1>4, <2>5, <3>2 DEF LiveOut
    <3> QED BY <3>3 DEF Interferes
  <2> QED BY <1>4, <2>4, <2>5
<1> QED BY <1>2, <1>5, <1>6

(* The graph R_construct_interference_graph makes is in order. *)
LEMMA InitialGraph ==
  ASSUME Init
  PROVE  IsFunctionToCompile(prog) /\ GraphOK(prog, vreg, intf)
<1> DEFINE D == DOMAIN prog.def
<1>1. IsFunctionToCompile(prog)
  BY RegAllocAssumption DEF Init
<1>2. /\ DOMAIN vreg = D /\ vreg = [v \in D |-> vreg[v]]
      /\ \A v \in D : vreg[v] = NewVreg(prog, v)
      /\ DOMAIN intf = D
      /\ \A v \in D : intf[v] = {w \in D : Interferes(prog, v, w)}
  BY DEF Init
<1>3. ASSUME NEW v \in D PROVE VregOK(prog, vreg[v]) /\ vreg[v].root = v
  <2>1. prog.type[v] \in Types
    BY <1>1 DEF IsFunctionToCompile
  <2>2. LET b == prog.benefit[v]
        IN  \/ PreferredClass(b) \in Classes
            \/ PreferredClass(b) = "prefer_spill" /\ b["caller"] < 0
    BY DEF PreferredClass, Classes
  <2> DEFINE r == NewVreg(prog, v)
  <2>4. prog.benefit[v] \in [Classes -> Int] /\ "caller" \in Classes /\ "callee" \in Classes
    BY <1>1 DEF IsFunctionToCompile, Classes
  <2>5. prog.benefit[v]["caller"] \in Int /\ prog.benefit[v]["callee"] \in Int
    BY <2>4
  <2>3. VregOK(prog, r) /\ r.root = v
    BY <2>1, <2>2, <2>5 DEF NewVreg, VregOK
  <2> QED BY <1>2, <2>3
<1>4. \A v \in D : intf[v] \subseteq D \ {v}
  BY <1>2 DEF Interferes
<1>5. \A v, w \in D : w \in intf[v] <=> v \in intf[w]
  BY <1>2 DEF Interferes
<1>6. \A v, w \in D : v # w => Apart(vreg[v], vreg[w])
  BY <1>3 DEF Apart
<1>7. \A r \in D : \A i \in RefInstr(prog, r) :
        \E v \in D : vreg[v].root = r /\ i \in vreg[v].ref
  <2> SUFFICES ASSUME NEW r \in D, NEW i \in RefInstr(prog, r)
               PROVE  vreg[r].root = r /\ i \in vreg[r].ref
    OBVIOUS
  <2>1. vreg[r] = NewVreg(prog, r)
    BY <1>2
  <2> QED BY <2>1 DEF NewVreg
<1>8. \A v, w \in D : v # w /\ Clash(prog, vreg[v], vreg[w]) => w \in intf[v]
  BY <1>1, <1>2, HeldTogetherInterfere
<1>9. \E m \in Nat : D = 1..m
  BY <1>1, FS_CardinalityType DEF IsFunctionToCompile
<1>10. GraphOK(prog, vreg, intf)
  <2>1. DOMAIN prog.def = D
    OBVIOUS
  <2> HIDE DEF D
  <2> QED BY ONLY <2>1, <1>2, <1>3, <1>4, <1>5, <1>6, <1>7, <1>8, <1>9 DEF GraphOK
<1> QED BY <1>1, <1>10

(* What a part of a register is. *)
LEMMA PartFacts ==
  ASSUME NEW v, VregOK(prog, vreg[v]), NEW range, range \subseteq vreg[v].ref,
         NEW split, NEW priority, NEW q, q = Part(v, range, split, priority)
  PROVE  /\ VregOK(prog, q)
         /\ q.spilled /\ q.root = vreg[v].root /\ q.ref = range
         /\ q.base = None /\ q.split = split
         /\ q.live = range /\ q.priority = priority /\ q.benefit = SpillBenefit
<1> DEFINE r == vreg[v]
<1>1. q = [root |-> r.root, type |-> r.type, benefit |-> SpillBenefit,
           rclass |-> "caller", illegal |-> r.illegal, base |-> None,
           priority |-> priority, spilled |-> TRUE, split |-> split,
           ref |-> range, live |-> range]
  BY DEF Part, VregOK
<1>2. /\ r.root \in DOMAIN prog.def /\ r.type \in Types /\ range \subseteq RefInstr(prog, r.root)
      /\ "caller" \in Classes
  BY DEF VregOK, Classes
<1>4. SpillBenefit["caller"] \in Int /\ SpillBenefit["callee"] \in Int
  BY DEF SpillBenefit
<1>3. VregOK(prog, q)
  BY <1>1, <1>2, <1>4 DEF VregOK
<1> QED BY <1>1, <1>3

-----------------------------------------------------------------------------
(* Colours.                                                                *)

(* A register that has a colour has one of its bank, and neighbours that   *)
(* have colours share no unit.                                             *)
PlaceOK(r) ==
  r.base # None => /\ r.rclass \in Classes
                   /\ r.base \in ToSet(Registers(r.type, r.rclass))
                   /\ UnitsOf(r.type, r.base) \cap r.illegal = {}
Distinct(r, q) ==
  r.base # None /\ q.base # None =>
    UnitsOf(r.type, r.base) \cap UnitsOf(q.type, q.base) = {}
ColoursOK(vr, arcs) ==
  /\ \A v \in DOMAIN vr : PlaceOK(vr[v])
  /\ \A v \in DOMAIN vr : \A w \in arcs[v] : Distinct(vr[v], vr[w])

(* The registers of the pass: each is still to be coloured or has been     *)
(* extracted; if none has failed so far, the extracted ones have a colour  *)
(* or wait with the unconstrained ones.                                    *)
Waiting(v) == v \in ToSet(unconstrained)
QueueOK ==
  /\ heap \subseteq DOMAIN vreg /\ shadow \subseteq DOMAIN vreg
  /\ unconstrained \in Seq(DOMAIN vreg)
  /\ phase \in {"prune", "colour"} => DOMAIN vreg = heap \cup shadow
  /\ phase = "prune" => shadow = {} /\ ~ uncolored
  /\ phase = "colour" /\ ~ uncolored =>
       \A v \in shadow : vreg[v].base # None \/ Waiting(v)
  /\ phase \in {"unconstrained", "done"} =>
       \A v \in DOMAIN vreg : vreg[v].base # None \/ Waiting(v)
  /\ phase = "done" => unconstrained = <<>>

AInv ==
  /\ IsFunctionToCompile(prog)
  /\ GraphOK(prog, vreg, intf)
  /\ ColoursOK(vreg, intf)
  /\ StacksOK(stacks)
  /\ QueueOK

(* What is left when the allocator returns.                                *)
LEMMA DoneIsCorrect ==
  ASSUME AInv
  PROVE  AllocationIsCorrect
<1> SUFFICES ASSUME phase = "done"
             PROVE  /\ \A r \in DOMAIN prog.def : \A i \in RefInstr(prog, r) :
                         Cardinality({v \in DOMAIN vreg : vreg[v].root = r
                                                           /\ i \in vreg[v].ref}) = 1
                    /\ \A v \in DOMAIN vreg :
                         /\ vreg[v].base \in ToSet(Registers(vreg[v].type, vreg[v].rclass))
                         /\ UnitsOf(vreg[v].type, vreg[v].base) \cap vreg[v].illegal = {}
                    /\ \A v, w \in DOMAIN vreg : v # w /\ Conflict(v, w) =>
                         UnitsOf(vreg[v].type, vreg[v].base)
                           \cap UnitsOf(vreg[w].type, vreg[w].base) = {}
  BY DEF AllocationIsCorrect
<1>1. \A v \in DOMAIN vreg : vreg[v].base # None
  BY DEF AInv, QueueOK, Waiting, ToSet
<1>2. ASSUME NEW r \in DOMAIN prog.def, NEW i \in RefInstr(prog, r)
      PROVE  Cardinality({v \in DOMAIN vreg : vreg[v].root = r /\ i \in vreg[v].ref}) = 1
  <2>1. PICK v \in DOMAIN vreg : vreg[v].root = r /\ i \in vreg[v].ref
    BY DEF AInv, GraphOK
  <2>2. \A w \in DOMAIN vreg : w # v => Apart(vreg[w], vreg[v])
    BY DEF AInv, GraphOK
  <2>3. {w \in DOMAIN vreg : vreg[w].root = r /\ i \in vreg[w].ref} = {v}
    BY <2>1, <2>2 DEF Apart
  <2> QED BY <2>3, FS_Singleton
<1>3. \A v \in DOMAIN vreg : PlaceOK(vreg[v])
  BY DEF AInv, ColoursOK
<1>4. ASSUME NEW v \in DOMAIN vreg, NEW w \in DOMAIN vreg, v # w, Conflict(v, w)
      PROVE  UnitsOf(vreg[v].type, vreg[v].base) \cap UnitsOf(vreg[w].type, vreg[w].base) = {}
  <2>1. w \in intf[v]
    BY <1>4, GraphGivesArcs DEF AInv, ConflictsAreArcs
  <2>2. Distinct(vreg[v], vreg[w])
    BY <2>1 DEF AInv, ColoursOK
  <2> QED BY <1>1, <2>2 DEF Distinct
<1> QED BY <1>1, <1>2, <1>3, <1>4 DEF PlaceOK

(* What a search for v finds, and what it does to the stacks. *)
LEMMA FindFinds ==
  ASSUME AInv, NEW v \in DOMAIN vreg, NEW found, found = Find(v)
  PROVE  Found(found, vreg[v], Reserved(v, intf[v]))
<1>1. vreg[v].type \in Types /\ vreg[v].rclass \in Classes \cup {"prefer_spill"}
  BY DEF AInv, GraphOK, VregOK
<1>2. StacksOK(stacks)
  BY DEF AInv
<1> QED BY <1>1, <1>2, FindFacts DEF Find

(* The units of the neighbours and the illegal ones are reserved.           *)
LEMMA ReservedFacts ==
  ASSUME NEW v, NEW arcs
  PROVE  /\ vreg[v].illegal \subseteq Reserved(v, arcs)
         /\ \A w \in arcs : vreg[w].base # None =>
              UnitsOf(vreg[w].type, vreg[w].base) \subseteq Reserved(v, arcs)
<1> DEFINE placed == {x \in arcs : vreg[x].base # None}
           units(w) == UnitsOf(vreg[w].type, vreg[w].base)
           all == {units(w) : w \in placed}
<1>1. Reserved(v, arcs) = (UNION all) \cup vreg[v].illegal
  BY DEF Reserved
<1>2. ASSUME NEW w \in arcs, vreg[w].base # None
      PROVE  units(w) \subseteq Reserved(v, arcs)
  <2>1. w \in placed
    BY <1>2
  <2> HIDE DEF placed, units
  <2>2. units(w) \in all
    BY <2>1
  <2> HIDE DEF all
  <2> QED BY <1>1, <2>2
<1>3. vreg[v].illegal \subseteq Reserved(v, arcs)
  <2> HIDE DEF all
  <2> QED BY ONLY <1>1
<1> QED BY ONLY <1>2, <1>3 DEF units

(* A register, and the registers, with a new place for one.                *)
Placed(r, base, rclass) == [r EXCEPT !.base = base, !.rclass = rclass]
PlacedIn(f, v, base, rclass) == [f EXCEPT ![v].base = base, ![v].rclass = rclass]

(* Nothing else of the register changes. *)
LEMMA WithPlace ==
  ASSUME NEW p, NEW r, VregOK(p, r), NEW base, NEW rclass, NEW q,
         rclass \in Classes,
         q = Placed(r, base, rclass)
  PROVE  /\ VregOK(p, q)
         /\ q.base = base /\ q.rclass = rclass
         /\ q.root = r.root /\ q.type = r.type /\ q.illegal = r.illegal /\ q.benefit = r.benefit
         /\ q.ref = r.ref /\ q.spilled = r.spilled /\ q.split = r.split
         /\ q.live = r.live /\ q.priority = r.priority
<1>0. r = [root |-> r.root, type |-> r.type, benefit |-> r.benefit,
           rclass |-> r.rclass, illegal |-> r.illegal, base |-> r.base,
           priority |-> r.priority, spilled |-> r.spilled, split |-> r.split,
           ref |-> r.ref, live |-> r.live]
  BY DEF VregOK
<1>1. q = [root |-> r.root, type |-> r.type, benefit |-> r.benefit,
           rclass |-> rclass, illegal |-> r.illegal, base |-> base,
           priority |-> r.priority, spilled |-> r.spilled, split |-> r.split,
           ref |-> r.ref, live |-> r.live]
  BY ONLY <1>0, q = Placed(r, base, rclass) DEF Placed
<1>2. /\ q.base = base /\ q.rclass = rclass /\ q.live = r.live
      /\ q.root = r.root /\ q.type = r.type /\ q.illegal = r.illegal
      /\ q.ref = r.ref /\ q.spilled = r.spilled /\ q.split = r.split
      /\ q.benefit = r.benefit /\ q.priority = r.priority
  BY ONLY <1>1
<1>3. VregOK(p, q)
  BY <1>1, <1>2 DEF VregOK
<1> QED BY <1>2, <1>3

(* No other register changes. *)
LEMMA TwoFields ==
  ASSUME NEW f, NEW v \in DOMAIN f, f = [w \in DOMAIN f |-> f[w]], NEW a, NEW b,
         NEW g, g = PlacedIn(f, v, a, b)
  PROVE  /\ DOMAIN g = DOMAIN f /\ g = [w \in DOMAIN g |-> g[w]]
         /\ g[v] = Placed(f[v], a, b)
         /\ \A w \in DOMAIN f : w # v => g[w] = f[w]
<1>1. DOMAIN g = DOMAIN f
  BY DEF PlacedIn
<1>2. g = [w \in DOMAIN g |-> g[w]]
  BY DEF PlacedIn
<1>3. g[v] = Placed(f[v], a, b)
  BY DEF PlacedIn, Placed
<1>4. \A w \in DOMAIN f : w # v => g[w] = f[w]
  BY DEF PlacedIn
<1> QED BY <1>1, <1>2, <1>3, <1>4

(* Giving v the colour a search found. *)
LEMMA ColourKeepsColours ==
  ASSUME AInv, NEW v \in DOMAIN vreg, NEW found, found = Find(v), found.reg # None,
         vreg' = [vreg EXCEPT ![v].base = found.reg, ![v].rclass = found.rclass],
         intf' = intf, prog' = prog
  PROVE  /\ GraphOK(prog, vreg, intf)' /\ ColoursOK(vreg, intf)'
         /\ DOMAIN vreg' = DOMAIN vreg /\ vreg'[v].base # None
         /\ vreg'[v].spilled = vreg[v].spilled /\ vreg'[v].split = vreg[v].split
         /\ vreg'[v].benefit = vreg[v].benefit /\ vreg'[v].illegal = vreg[v].illegal
         /\ vreg'[v].live = vreg[v].live /\ vreg'[v].priority = vreg[v].priority
         /\ \A w \in DOMAIN vreg : w # v => vreg'[w] = vreg[w]
<1>1. GraphOK(prog, vreg, intf) /\ ColoursOK(vreg, intf)
  BY DEF AInv
<1>2. /\ vreg = [w \in DOMAIN vreg |-> vreg[w]]
      /\ \A w \in DOMAIN vreg : VregOK(prog, vreg[w]) /\ intf[w] \subseteq DOMAIN vreg \ {w}
      /\ \A x, w \in DOMAIN vreg : w \in intf[x] <=> x \in intf[w]
  BY <1>1 DEF GraphOK
<1> DEFINE r == vreg[v]
           vr2 == vreg'
           q == vr2[v]
<1>3. /\ DOMAIN vr2 = DOMAIN vreg /\ vr2 = [w \in DOMAIN vr2 |-> vr2[w]]
      /\ q = Placed(r, found.reg, found.rclass)
      /\ \A w \in DOMAIN vreg : w # v => vr2[w] = vreg[w]
  <2>1. vr2 = PlacedIn(vreg, v, found.reg, found.rclass)
    BY DEF PlacedIn
  <2>2. vreg = [w \in DOMAIN vreg |-> vreg[w]] /\ v \in DOMAIN vreg
    BY <1>2
  <2> HIDE DEF vr2
  <2> QED BY ONLY <2>1, <2>2, TwoFields
<1> HIDE DEF vr2
<1>5. Found(found, r, Reserved(v, intf[v]))
  BY FindFinds
<1>6. /\ found.rclass \in Classes
      /\ found.reg \in ToSet(Registers(r.type, found.rclass))
      /\ UnitsOf(r.type, found.reg) \cap Reserved(v, intf[v]) = {}
  BY <1>5 DEF Found
<1>7. VregOK(prog, r)
  BY <1>2
<1>8. vreg[v].illegal \subseteq Reserved(v, intf[v])
      /\ \A w \in intf[v] : vreg[w].base # None =>
           UnitsOf(vreg[w].type, vreg[w].base) \subseteq Reserved(v, intf[v])
  BY ReservedFacts
<1>9. /\ VregOK(prog, q)
      /\ q.root = r.root /\ q.ref = r.ref /\ q.spilled = r.spilled /\ q.base = found.reg
      /\ q.type = r.type /\ q.illegal = r.illegal /\ q.rclass = found.rclass
      /\ q.split = r.split /\ q.benefit = r.benefit
      /\ q.live = r.live /\ q.priority = r.priority
  <2>1. found.rclass \in Classes
    BY <1>6
  <2> HIDE DEF q, r
  <2> QED BY ONLY <1>3, <1>7, <2>1, WithPlace
<1>11. PlaceOK(q)
  <2> HIDE DEF q
  <2> QED BY <1>6, <1>8, <1>9 DEF PlaceOK
<1>12. \A w \in intf[v] : Distinct(q, vreg[w]) /\ Distinct(vreg[w], q)
  <2> HIDE DEF q
  <2> QED BY <1>6, <1>8, <1>9 DEF Distinct
<1>13. GraphOK(prog, vr2, intf)
  <2>1. \A w \in DOMAIN vreg : /\ VregOK(prog, vr2[w])
                               /\ vr2[w].root = vreg[w].root
                               /\ vr2[w].ref = vreg[w].ref
                               /\ vr2[w].spilled = vreg[w].spilled
    <3> SUFFICES ASSUME NEW w \in DOMAIN vreg
                 PROVE  /\ VregOK(prog, vr2[w])
                        /\ vr2[w].root = vreg[w].root
                        /\ vr2[w].ref = vreg[w].ref
                        /\ vr2[w].spilled = vreg[w].spilled
      OBVIOUS
    <3>1. CASE w = v
      BY ONLY <1>9, <3>1
    <3>2. CASE w # v
      BY ONLY <1>2, <1>3, <3>2, w \in DOMAIN vreg
    <3> QED BY <3>1, <3>2
  <2> QED BY ONLY <1>1, <1>3, <2>1, SameGraph
<1>14. ColoursOK(vr2, intf)
  <2>1. \A w \in DOMAIN vr2 : PlaceOK(vr2[w])
    <3>1. \A w \in DOMAIN vreg : PlaceOK(vreg[w])
      BY <1>1 DEF ColoursOK
    <3> QED BY ONLY <1>3, <1>11, <3>1
  <2>2. ASSUME NEW x \in DOMAIN vr2, NEW w \in intf[x] PROVE Distinct(vr2[x], vr2[w])
    <3>1. x \in DOMAIN vreg /\ w \in DOMAIN vreg /\ w # x
      BY <1>2, <1>3
    <3>2. CASE x = v
      <4>1. vr2[w] = vreg[w]
        BY ONLY <1>3, <3>1, <3>2
      <4> QED BY <1>12, <3>2, <4>1
    <3>3. CASE w = v
      <4>1. x \in intf[v]
        BY <1>2, <3>1, <3>3
      <4>2. vr2[x] = vreg[x]
        BY ONLY <1>3, <3>1, <3>3
      <4> QED BY <1>12, <3>3, <4>1, <4>2
    <3>4. CASE x # v /\ w # v
      <4>1. Distinct(vreg[x], vreg[w])
        BY <1>1, <3>1 DEF ColoursOK
      <4>2. vr2[x] = vreg[x] /\ vr2[w] = vreg[w]
        BY ONLY <1>3, <3>1, <3>4
      <4> QED BY <4>1, <4>2
    <3> QED BY <3>2, <3>3, <3>4
  <2> QED BY <2>1, <2>2 DEF ColoursOK
<1>15. q.base # None
  BY <1>9
<1> QED BY <1>3, <1>9, <1>13, <1>14, <1>15 DEF vr2

-----------------------------------------------------------------------------
(* Pruning.                                                                *)

(* after, the recursive function of Pruned, is what Pruned says it is.     *)
PruneStep(k, s) ==
  LET v == VregList[((k - 1) % Len(VregList)) + 1]
  IN  IF PrunesTo(v, s) THEN Append(s, v) ELSE s
IsPruning(f, n) ==
  f = [k \in 0 .. n |-> IF k = 0 THEN <<>> ELSE PruneStep(k, f[k - 1])]

(* Such a function exists: by induction on its domain. *)
LEMMA PruningExists ==
  ASSUME NEW n \in Nat
  PROVE  \E f : IsPruning(f, n)
<1> DEFINE T == {m \in Nat : \E f : IsPruning(f, m)}
<1>1. 0 \in T
  <2>1. IsPruning([k \in 0 .. 0 |-> <<>>], 0)
    BY DEF IsPruning
  <2> QED BY <2>1
<1>2. ASSUME NEW m \in T PROVE m + 1 \in T
  <2>1. PICK f : IsPruning(f, m)
    OBVIOUS
  <2> DEFINE h == [k \in 0 .. m + 1 |-> IF k = m + 1 THEN PruneStep(k, f[m]) ELSE f[k]]
  <2>2. \A k \in 0 .. m : f[k] = IF k = 0 THEN <<>> ELSE PruneStep(k, f[k - 1])
    BY <2>1 DEF IsPruning
  <2>3. /\ h[m + 1] = PruneStep(m + 1, f[m]) /\ \A k \in 0 .. m : h[k] = f[k]
        /\ h = [k \in 0 .. m + 1 |-> h[k]]
    OBVIOUS
  <2> HIDE DEF h
  <2>4. \A k \in 0 .. m + 1 : h[k] = IF k = 0 THEN <<>> ELSE PruneStep(k, h[k - 1])
    <3> SUFFICES ASSUME NEW k \in 0 .. m + 1
                 PROVE  h[k] = IF k = 0 THEN <<>> ELSE PruneStep(k, h[k - 1])
      OBVIOUS
    <3>0. m \in Nat
      OBVIOUS
    <3>1. CASE k = m + 1
      <4>1. k - 1 = m /\ m \in 0 .. m /\ k # 0
        BY ONLY <3>0, <3>1
      <4> QED BY ONLY <2>3, <3>1, <4>1
    <3>2. CASE k \in 0 .. m
      <4>1. k # 0 => k - 1 \in 0 .. m
        BY ONLY <3>0, <3>2
      <4>2. k # 0 => h[k - 1] = f[k - 1]
        BY ONLY <2>3, <4>1
      <4> QED BY ONLY <2>2, <2>3, <3>2, <4>2
    <3>3. k = m + 1 \/ k \in 0 .. m
      BY ONLY <3>0, k \in 0 .. m + 1
    <3> QED BY <3>1, <3>2, <3>3
  <2>5. IsPruning(h, m + 1)
    BY <2>3, <2>4 DEF IsPruning
  <2> QED BY <2>5
<1>3. T = Nat
  <2>1. T \in SUBSET Nat
    OBVIOUS
  <2> HIDE DEF T
  <2> QED BY <1>1, <1>2, <2>1, SetInduction
<1> QED BY <1>3

(* The registers of the list R_vreg are the virtual registers.             *)
LEMMA VregListFacts ==
  ASSUME NEW m \in Nat, DOMAIN vreg = 1 .. m, IsFunctionToCompile(prog),
         DOMAIN prog.def \subseteq DOMAIN vreg
  PROVE  /\ Len(VregList) = m
         /\ \A k \in 1 .. m : VregList[k] \in DOMAIN vreg
<1> DEFINE n == Cardinality(DOMAIN vreg)
           d == Cardinality(DOMAIN prog.def)
<1>1. n = m
  BY FS_Interval
<1>2. d \in Nat /\ d <= n
  <2>1. IsFiniteSet(DOMAIN vreg)
    BY FS_Interval
  <2> QED BY <2>1, FS_Subset, FS_CardinalityType DEF IsFunctionToCompile
<1>3. VregList = [k \in 1 .. n |-> IF k <= n - d THEN n + 1 - k ELSE k - (n - d)]
  BY DEF VregList
<1> HIDE DEF n, d
<1>4. Len(VregList) = m
  BY <1>1, <1>3
<1>5. ASSUME NEW k \in 1 .. m PROVE VregList[k] \in DOMAIN vreg
  <2>1. VregList[k] = IF k <= m - d THEN m + 1 - k ELSE k - (m - d)
    BY <1>1, <1>3
  <2>2. CASE k <= m - d
    BY <1>1, <1>2, <2>1, <2>2
  <2>3. CASE ~ (k <= m - d)
    BY <1>1, <1>2, <2>1, <2>3
  <2> QED BY <2>2, <2>3
<1> QED BY <1>4, <1>5

(* A stack of pruned registers: each was pruned against those below it.    *)
Fits(vr, arcs, v, below) ==
  /\ \A c \in Classes : vr[v].benefit[c] >= 0
  /\ Cardinality(vr[v].illegal) + MaxSize * Cardinality(arcs[v] \ below) < TotalUnits
Below(s, k) == {s[j] : j \in 1 .. (k - 1)}
FitsBelow(vr, arcs, s, k) == s[k] \notin Below(s, k) /\ Fits(vr, arcs, s[k], Below(s, k))
PrunedOK(vr, arcs, s) == \A k \in 1 .. Len(s) : FitsBelow(vr, arcs, s, k)

(* One more register on the stack. *)
LEMMA AppendPruned ==
  ASSUME NEW D, NEW s \in Seq(D), PrunedOK(vreg, intf, s), NEW v \in D, PrunesTo(v, s)
  PROVE  PrunedOK(vreg, intf, Append(s, v))
<1> DEFINE t == Append(s, v)
           n == Len(s)
<1>1. /\ n \in Nat /\ Len(t) = n + 1 /\ t[n + 1] = v
      /\ \A k \in 1 .. n : t[k] = s[k]
  OBVIOUS
<1>2. DOMAIN s = 1 .. n
  OBVIOUS
<1> HIDE DEF t, n
<1>3. ASSUME NEW k \in 1 .. n PROVE FitsBelow(vreg, intf, t, k)
  <2>1. \A j \in 1 .. (k - 1) : t[j] = s[j]
    BY <1>1
  <2>2. Below(t, k) = Below(s, k)
    BY <2>1 DEF Below
  <2>3. FitsBelow(vreg, intf, s, k)
    BY DEF PrunedOK, n
  <2> QED BY <1>1, <2>2, <2>3 DEF FitsBelow
<1>4. FitsBelow(vreg, intf, t, n + 1)
  <2>1. (n + 1) - 1 = n
    BY <1>1
  <2>2. Below(t, n + 1) = {s[j] : j \in 1 .. n}
    BY <1>1, <2>1 DEF Below
  <2>3. Below(t, n + 1) = ToSet(s)
    BY <1>2, <2>2 DEF ToSet
  <2>4. v \notin ToSet(s) /\ Fits(vreg, intf, v, ToSet(s))
    BY DEF PrunesTo, Fits
  <2> QED BY <1>1, <2>3, <2>4 DEF FitsBelow
<1>5. \A k \in 1 .. (n + 1) : k \in 1 .. n \/ k = n + 1
  BY <1>1
<1>6. \A k \in 1 .. Len(t) : FitsBelow(vreg, intf, t, k)
  BY <1>1, <1>3, <1>4, <1>5
<1> QED BY <1>6 DEF PrunedOK, t

(* The last register on the stack, and the others. *)
LEMMA FrontPruned ==
  ASSUME NEW D, NEW s \in Seq(D), s # <<>>, NEW vr, NEW arcs, PrunedOK(vr, arcs, s)
  PROVE  /\ PrunedOK(vr, arcs, Front(s))
         /\ Last(s) \notin ToSet(Front(s)) /\ Fits(vr, arcs, Last(s), ToSet(Front(s)))
<1> DEFINE t == Front(s)
           n == Len(s) - 1
<1>1. Len(s) \in Nat /\ Len(s) >= 1
  OBVIOUS
<1>2. n \in Nat /\ Len(s) = n + 1
  BY <1>1
<1>3. t = SubSeq(s, 1, n)
  BY DEF Front
<1> HIDE DEF t, n
<1>4. t \in Seq(D) /\ Len(t) = n /\ \A i \in 1 .. n : t[i] = s[i]
  BY <1>2, <1>3
<1>5. DOMAIN t = 1 .. n
  BY <1>4
<1>6. Last(s) = s[n + 1]
  BY <1>2 DEF Last
<1>7. ASSUME NEW k \in 1 .. n PROVE FitsBelow(vr, arcs, t, k)
  <2>1. \A j \in 1 .. (k - 1) : t[j] = s[j]
    BY <1>2, <1>4
  <2>2. Below(t, k) = Below(s, k)
    BY <2>1 DEF Below
  <2>3. k \in 1 .. Len(s)
    BY <1>2
  <2>4. FitsBelow(vr, arcs, s, k)
    BY <2>3 DEF PrunedOK
  <2> QED BY <1>4, <2>2, <2>4 DEF FitsBelow
<1>8. FitsBelow(vr, arcs, s, n + 1)
  <2>1. n + 1 \in 1 .. Len(s)
    BY <1>2
  <2> QED BY <2>1 DEF PrunedOK
<1>9. Below(s, n + 1) = ToSet(t)
  <2>1. (n + 1) - 1 = n
    BY <1>2
  <2>2. Below(s, n + 1) = {s[j] : j \in 1 .. n}
    BY <2>1 DEF Below
  <2>3. {s[j] : j \in 1 .. n} = {t[j] : j \in 1 .. n}
    BY <1>4
  <2> QED BY <1>5, <2>2, <2>3 DEF ToSet
<1>10. PrunedOK(vr, arcs, t)
  BY <1>4, <1>7 DEF PrunedOK
<1> QED BY <1>6, <1>8, <1>9, <1>10 DEF FitsBelow, t

(* What the count depends on. *)
LEMMA SamePruned ==
  ASSUME NEW D, NEW s \in Seq(D), NEW vr, NEW arcs, PrunedOK(vr, arcs, s), NEW vr2,
         \A v \in D : vr2[v].benefit = vr[v].benefit /\ vr2[v].illegal = vr[v].illegal
  PROVE  PrunedOK(vr2, arcs, s)
<1>1. \A k \in 1 .. Len(s) : s[k] \in D
  OBVIOUS
<1> QED BY <1>1 DEF PrunedOK, FitsBelow, Fits

(* What is pruned are virtual registers, each against those below it.      *)
Pruning(s) == s \in Seq(DOMAIN vreg) /\ PrunedOK(vreg, intf, s)

(* The stack R_prune_interference_graph leaves, by induction on its steps. *)
LEMMA PrunedFacts ==
  ASSUME AInv
  PROVE  Pruned \in Seq(DOMAIN vreg) /\ PrunedOK(vreg, intf, Pruned)
<1>1. PICK m \in Nat : DOMAIN vreg = 1 .. m
  BY DEF AInv, GraphOK
<1>2. /\ Len(VregList) = m
      /\ \A k \in 1 .. m : VregList[k] \in DOMAIN vreg
  BY <1>1, VregListFacts DEF AInv, GraphOK
<1> DEFINE n == Len(VregList) * Len(VregList)
           f == CHOOSE f : IsPruning(f, n)
<1>3. n \in Nat
  BY <1>2
<1>4. IsPruning(f, n)
  BY <1>3, PruningExists
<1>5. Pruned = f[n]
  BY DEF Pruned, IsPruning, PruneStep
<1> HIDE DEF f
<1>6. \A k \in 0 .. n : f[k] = IF k = 0 THEN <<>> ELSE PruneStep(k, f[k - 1])
  <2> HIDE DEF n
  <2> QED BY <1>3, <1>4 DEF IsPruning
<1>7. ASSUME NEW k \in 1 .. n, NEW s, Pruning(s)
      PROVE  Pruning(PruneStep(k, s))
  <2>1. m > 0
    BY <1>2
  <2> DEFINE j == (k - 1) % m
  <2>2. k \in Nat /\ k >= 1
    BY <1>3
  <2>3. j \in 0 .. m - 1
    BY <2>1, <2>2
  <2> HIDE DEF j
  <2>4. VregList[j + 1] \in DOMAIN vreg
    BY <1>2, <2>3
  <2>5. PruneStep(k, s) = IF PrunesTo(VregList[j + 1], s) THEN Append(s, VregList[j + 1]) ELSE s
    BY <1>2 DEF PruneStep, j
  <2> DEFINE x == VregList[j + 1]
  <2> HIDE DEF x
  <2>6. s \in Seq(DOMAIN vreg) /\ PrunedOK(vreg, intf, s) /\ x \in DOMAIN vreg
    BY <1>7, <2>4 DEF Pruning, x
  <2>7. Append(s, x) \in Seq(DOMAIN vreg)
    BY ONLY <2>6
  <2>8. PrunesTo(x, s) => Pruning(Append(s, x))
    BY ONLY <2>6, <2>7, AppendPruned DEF Pruning
  <2> QED BY <1>7, <2>5, <2>8 DEF x
<1> DEFINE T == {k \in Nat : k <= n => Pruning(f[k])}
<1> HIDE DEF n
<1>8. 0 \in T
  <2>1. f[0] = <<>>
    BY <1>3, <1>6
  <2>2. <<>> \in Seq(DOMAIN vreg) /\ Len(<<>>) = 0
    OBVIOUS
  <2>3. Pruning(<<>>)
    BY <2>2 DEF Pruning, PrunedOK
  <2> QED BY ONLY <2>1, <2>3
<1>9. ASSUME NEW k \in T PROVE k + 1 \in T
  <2>1. CASE k + 1 <= n
    <3>1. k + 1 \in 1 .. n /\ k + 1 \in 0 .. n /\ (k + 1) - 1 = k /\ k <= n /\ k + 1 # 0
      BY <1>3, <2>1
    <3>2. f[k + 1] = PruneStep(k + 1, f[k])
      BY <1>6, <3>1
    <3>3. Pruning(f[k])
      BY <3>1
    <3> QED BY <1>7, <3>1, <3>2, <3>3
  <2>2. CASE ~ (k + 1 <= n)
    BY <2>2
  <2> QED BY <2>1, <2>2
<1>10. T = Nat
  <2>1. T \in SUBSET Nat
    OBVIOUS
  <2> HIDE DEF T
  <2> QED BY <1>8, <1>9, <2>1, SetInduction
<1>11. Pruning(f[n])
  BY <1>3, <1>10
<1> QED BY <1>5, <1>11 DEF Pruning

-----------------------------------------------------------------------------
(* The portion that a split within a control block leaves in a register.   *)

(* after, the recursive function of Portion. *)
PortionStart(v, found) ==
  [size |-> 0, full |-> FALSE, rclass |-> vreg[v].rclass, stacks |-> found.stacks]
PortionStep(v, k, s) ==
  LET trial == R_find_free_register(s.stacks, [vreg[v] EXCEPT !.rclass = s.rclass],
                                    Reserved(v, {}))
  IN  IF s.full THEN s
      ELSE [size |-> IF trial.reg # None \/ k = 1 THEN k ELSE k - 1,
            full |-> trial.reg = None, rclass |-> trial.rclass,
            stacks |-> trial.stacks]
IsPortioning(f, v, found, n) ==
  f = [k \in 0 .. n |-> IF k = 0 THEN PortionStart(v, found)
                        ELSE PortionStep(v, k, f[k - 1])]

(* Such a function exists: by induction on its domain. *)
LEMMA PortioningExists ==
  ASSUME NEW v, NEW found, NEW n \in Nat
  PROVE  \E f : IsPortioning(f, v, found, n)
<1> DEFINE T == {m \in Nat : \E f : IsPortioning(f, v, found, m)}
<1>1. 0 \in T
  <2>1. IsPortioning([k \in 0 .. 0 |-> PortionStart(v, found)], v, found, 0)
    BY DEF IsPortioning
  <2> QED BY <2>1
<1>2. ASSUME NEW m \in T PROVE m + 1 \in T
  <2>1. PICK f : IsPortioning(f, v, found, m)
    OBVIOUS
  <2> DEFINE h == [k \in 0 .. m + 1 |-> IF k = m + 1 THEN PortionStep(v, k, f[m]) ELSE f[k]]
  <2>2. \A k \in 0 .. m : f[k] = IF k = 0 THEN PortionStart(v, found)
                                 ELSE PortionStep(v, k, f[k - 1])
    BY <2>1 DEF IsPortioning
  <2>3. /\ h[m + 1] = PortionStep(v, m + 1, f[m]) /\ \A k \in 0 .. m : h[k] = f[k]
        /\ h = [k \in 0 .. m + 1 |-> h[k]]
    OBVIOUS
  <2> HIDE DEF h
  <2>4. \A k \in 0 .. m + 1 : h[k] = IF k = 0 THEN PortionStart(v, found)
                                     ELSE PortionStep(v, k, h[k - 1])
    <3> SUFFICES ASSUME NEW k \in 0 .. m + 1
                 PROVE  h[k] = IF k = 0 THEN PortionStart(v, found)
                               ELSE PortionStep(v, k, h[k - 1])
      OBVIOUS
    <3>0. m \in Nat
      OBVIOUS
    <3>1. CASE k = m + 1
      <4>1. k - 1 = m /\ m \in 0 .. m /\ k # 0
        BY ONLY <3>0, <3>1
      <4> QED BY ONLY <2>3, <3>1, <4>1
    <3>2. CASE k \in 0 .. m
      <4>1. k # 0 => k - 1 \in 0 .. m
        BY ONLY <3>0, <3>2
      <4>2. k # 0 => h[k - 1] = f[k - 1]
        BY ONLY <2>3, <4>1
      <4> QED BY ONLY <2>2, <2>3, <3>2, <4>2
    <3>3. k = m + 1 \/ k \in 0 .. m
      BY ONLY <3>0, k \in 0 .. m + 1
    <3> QED BY <3>1, <3>2, <3>3
  <2>5. IsPortioning(h, v, found, m + 1)
    BY <2>3, <2>4 DEF IsPortioning
  <2> QED BY <2>5
<1>3. T = Nat
  <2>1. T \in SUBSET Nat
    OBVIOUS
  <2> HIDE DEF T
  <2> QED BY <1>1, <1>2, <2>1, SetInduction
<1> QED BY <1>3

(* Each trial keeps the stacks in order. *)
TrialOK(s) == StacksOK(s.stacks) /\ s.rclass \in Classes \cup {"prefer_spill"}

(* The trial is a search like any other. *)
LEMMA TrialKeepsStacks ==
  ASSUME NEW v, VregOK(prog, vreg[v]), NEW k, NEW s, TrialOK(s)
  PROVE  TrialOK(PortionStep(v, k, s))
<1> DEFINE r == [vreg[v] EXCEPT !.rclass = s.rclass]
           trial == R_find_free_register(s.stacks, r, Reserved(v, {}))
<1>1. r.type \in Types /\ r.rclass = s.rclass
  BY DEF VregOK
<1>2. StacksOK(s.stacks) /\ r.rclass \in Classes \cup {"prefer_spill"}
  BY <1>1 DEF TrialOK
<1> HIDE DEF r
<1>3. Found(trial, r, Reserved(v, {}))
  BY ONLY <1>1, <1>2, FindFacts
<1> HIDE DEF trial
<1>4. StacksOK(trial.stacks) /\ trial.rclass \in Classes \cup {"prefer_spill"}
  BY <1>3 DEF Found
<1>5. \/ PortionStep(v, k, s) = s
      \/ /\ PortionStep(v, k, s).stacks = trial.stacks
         /\ PortionStep(v, k, s).rclass = trial.rclass
  BY DEF PortionStep, trial, r
<1> QED BY <1>4, <1>5 DEF TrialOK

(* The portion is a set of references, and the stacks keep their registers. *)
LEMMA PortionFacts ==
  ASSUME AInv, NEW v \in DOMAIN vreg, NEW found, StacksOK(found.stacks)
  PROVE  /\ Portion(v, found).range \subseteq vreg[v].ref
         /\ StacksOK(Portion(v, found).stacks)
<1>1. VregOK(prog, vreg[v])
  BY DEF AInv, GraphOK
<1> DEFINE n == Cardinality(vreg[v].ref)
           f == CHOOSE f : IsPortioning(f, v, found, n)
<1>2. n \in Nat
  <2>1. vreg[v].ref \subseteq Ops
    BY <1>1 DEF AInv, VregOK, RefInstr, IsFunctionToCompile
  <2> QED BY <2>1, OpsFacts, FS_Subset, FS_CardinalityType
<1>3. IsPortioning(f, v, found, n)
  <2> HIDE DEF n
  <2> QED BY <1>2, PortioningExists
<1>4. Portion(v, found) =
        [range  |-> {i \in vreg[v].ref : Rank(vreg[v].ref, i) < f[n].size},
         stacks |-> f[n].stacks]
  BY DEF Portion, IsPortioning, PortionStart, PortionStep
<1> HIDE DEF f, n
<1>5. \A k \in 0 .. n : f[k] = IF k = 0 THEN PortionStart(v, found)
                               ELSE PortionStep(v, k, f[k - 1])
  BY <1>2, <1>3 DEF IsPortioning
<1> DEFINE T == {k \in Nat : k <= n => TrialOK(f[k])}
<1>6. 0 \in T
  <2>1. f[0] = PortionStart(v, found)
    BY <1>2, <1>5
  <2>2. TrialOK(PortionStart(v, found))
    BY <1>1 DEF PortionStart, TrialOK, VregOK
  <2> QED BY <2>1, <2>2
<1>7. ASSUME NEW k \in T PROVE k + 1 \in T
  <2>1. CASE k + 1 <= n
    <3>1. k + 1 \in 0 .. n /\ (k + 1) - 1 = k /\ k <= n /\ k + 1 # 0
      BY <1>2, <2>1
    <3>2. f[k + 1] = PortionStep(v, k + 1, f[k])
      BY <1>5, <3>1
    <3>3. TrialOK(f[k])
      BY <3>1
    <3>4. TrialOK(f[k + 1])
      BY <1>1, <3>2, <3>3, TrialKeepsStacks
    <3> QED BY <3>4
  <2>2. CASE ~ (k + 1 <= n)
    BY <2>2
  <2> QED BY <2>1, <2>2
<1>8. T = Nat
  <2>1. T \in SUBSET Nat
    OBVIOUS
  <2> HIDE DEF T
  <2> QED BY <1>6, <1>7, <2>1, SetInduction
<1>9. TrialOK(f[n])
  BY <1>2, <1>8
<1> QED BY <1>4, <1>9 DEF TrialOK

-----------------------------------------------------------------------------
(* Spilling and splitting.                                                 *)

(* A division into pieces that have no colour yet. *)
LEMMA DivisionKeeps ==
  ASSUME AInv, NEW v \in DOMAIN vreg, NEW pieces, Divides(prog, vreg, v, pieces),
         \A x \in DOMAIN pieces : pieces[x].base = None,
         Replace(v, pieces), prog' = prog
  PROVE  /\ GraphOK(prog, vreg, intf)' /\ ColoursOK(vreg, intf)'
         /\ DOMAIN vreg' = DOMAIN vreg \cup DOMAIN pieces
<1> DEFINE D == DOMAIN vreg
           P == DOMAIN pieces
           vr2 == vreg'
           arcs2 == intf'
<1>1. vr2 = Replaced(vreg, pieces) /\ arcs2 = Rewired(vreg, intf, v, pieces)
  BY ReplaceIs
<1> HIDE DEF vr2, arcs2
<1>2. IsFunctionToCompile(prog) /\ GraphOK(prog, vreg, intf) /\ ColoursOK(vreg, intf)
  BY DEF AInv
<1>3. GraphOK(prog, vr2, arcs2)
  BY <1>1, <1>2, DivisionKeepsGraph
<1>4. /\ DOMAIN vr2 = D \cup P
      /\ \A w \in P : vr2[w].base = None
      /\ \A w \in D \ P : vr2[w] = vreg[w]
  BY <1>1 DEF Replaced
<1>5. \A w \in D \ P : \A x \in arcs2[w] : x \in P \/ (x \in intf[w] /\ x # v)
  BY <1>1 DEF Rewired
<1>6. /\ \A w \in D : intf[w] \subseteq D
      /\ \A x \in P : x = v \/ x \notin D
  BY <1>2 DEF GraphOK, Divides
<1>7. \A w \in D \cup P : PlaceOK(vr2[w])
  BY <1>2, <1>4 DEF ColoursOK, PlaceOK
<1>8. ASSUME NEW w \in D \cup P, NEW x \in arcs2[w]
      PROVE  Distinct(vr2[w], vr2[x])
  <2>1. CASE w \in P
    BY <1>4, <2>1 DEF Distinct
  <2>2. CASE w \in D \ P
    <3>1. CASE x \in P
      BY <1>4, <3>1 DEF Distinct
    <3>2. CASE x \notin P
      <4>1. x \in intf[w] /\ x \in D \ P
        BY <1>5, <1>6, <1>8, <2>2, <3>2
      <4>2. Distinct(vreg[w], vreg[x])
        BY <1>2, <2>2, <4>1 DEF ColoursOK
      <4> QED BY <1>4, <2>2, <4>1, <4>2
    <3> QED BY <3>1, <3>2
  <2> QED BY <2>1, <2>2
<1>9. ColoursOK(vr2, arcs2)
  BY <1>4, <1>7, <1>8 DEF ColoursOK
<1> QED BY <1>3, <1>4, <1>9 DEF vr2, arcs2

(* Parts of v divide it when their ranges do. *)
Shared(range, P, ref) ==
  /\ \A x \in P : range[x] \subseteq ref
  /\ \A x, y \in P : x # y => range[x] \cap range[y] = {}
  /\ \A i \in ref : \E x \in P : i \in range[x]
ArePartsOf(v, pieces, range, P) ==
  /\ DOMAIN pieces = P
  /\ \A x \in P : \E s, pr : pieces[x] = Part(v, range[x], s, pr)

(* The pieces made of such ranges. *)
LEMMA PartsDivide ==
  ASSUME AInv, NEW v \in DOMAIN vreg, NEW P, v \in P,
         \A x \in P : x = v \/ x \notin DOMAIN vreg,
         \E m \in Nat : DOMAIN vreg \cup P = 1 .. m,
         NEW range, Shared(range, P, vreg[v].ref),
         NEW pieces, ArePartsOf(v, pieces, range, P)
  PROVE  Divides(prog, vreg, v, pieces) /\ \A x \in DOMAIN pieces : pieces[x].base = None
<1>1. VregOK(prog, vreg[v])
  BY DEF AInv, GraphOK
<1>2. ASSUME NEW x \in P
      PROVE  /\ VregOK(prog, pieces[x]) /\ pieces[x].spilled
             /\ pieces[x].root = vreg[v].root /\ pieces[x].ref = range[x]
             /\ pieces[x].base = None
  <2>1. PICK s, pr : pieces[x] = Part(v, range[x], s, pr)
    BY DEF ArePartsOf
  <2>2. range[x] \subseteq vreg[v].ref
    BY DEF Shared
  <2> QED BY ONLY <1>1, <2>1, <2>2, PartFacts
<1>3. DOMAIN pieces = P
  BY DEF ArePartsOf
<1>4. \A x, y \in P : x # y => pieces[x].ref \cap pieces[y].ref = {}
  BY <1>2 DEF Shared
<1>5. \A i \in vreg[v].ref : \E x \in P : i \in pieces[x].ref
  BY <1>2 DEF Shared
<1>6. \A x \in P : pieces[x].ref \subseteq vreg[v].ref
  BY <1>2 DEF Shared
<1>7. Divides(prog, vreg, v, pieces)
  BY <1>2, <1>3, <1>4, <1>5, <1>6 DEF Divides
<1> QED BY <1>2, <1>3, <1>7

(* The control block of an operation. *)
LEMMA CbFacts ==
  ASSUME NEW i \in Ops
  PROVE  Cb(i) \in DOMAIN LastOp
<1> DEFINE T == {n \in DOMAIN LastOp : i <= LastOp[n]}
<1>1. /\ LastOp \in Seq(Nat) /\ Len(LastOp) \in DOMAIN LastOp
      /\ DOMAIN LastOp = 1 .. Len(LastOp)
      /\ i \in Nat /\ i <= LastOp[Len(LastOp)]
  BY RegAllocAssumption DEF Ops, Last
<1>2. T \in SUBSET Nat /\ T # {}
  BY <1>1
<1>3. PICK n \in T : \A m \in T : n <= m
  BY <1>2, LeastNatural
<1>4. \A m \in 1 .. (n - 1) : LastOp[m] < i
  <2> SUFFICES ASSUME NEW m \in 1 .. (n - 1), ~ (LastOp[m] < i) PROVE FALSE
    OBVIOUS
  <2>1. m \in DOMAIN LastOp /\ n \in Nat /\ m < n
    BY <1>1
  <2>2. LastOp[m] \in Nat
    BY <1>1, <2>1
  <2>3. m \in T
    BY <1>1, <2>1, <2>2
  <2> QED BY <1>3, <2>1, <2>3
<1>5. \E k \in DOMAIN LastOp : i <= LastOp[k] /\ \A m \in 1 .. (k - 1) : LastOp[m] < i
  BY <1>4
<1> QED BY <1>5 DEF Cb

(* The rank of a member of a finite set is less than the set's size. *)
LEMMA RankFacts ==
  ASSUME NEW S \in SUBSET Nat, IsFiniteSet(S), NEW n \in S
  PROVE  Rank(S, n) \in Nat /\ Rank(S, n) < Cardinality(S)
<1> DEFINE R == {m \in S : m < n}
<1>1. R \subseteq S /\ n \in S \ R
  OBVIOUS
<1> HIDE DEF R
<1>2. R \subseteq S \ {n}
  BY <1>1
<1>3. IsFiniteSet(S \ {n}) /\ Cardinality(S \ {n}) = Cardinality(S) - 1
  BY FS_RemoveElement
<1>4. Cardinality(R) \in Nat /\ Cardinality(R) <= Cardinality(S \ {n}) /\ Cardinality(S) \in Nat
  BY <1>2, <1>3, FS_Subset, FS_CardinalityType
<1> QED BY <1>3, <1>4 DEF Rank, R

(* The largest index of a virtual register. *)
LEMMA TopFacts ==
  ASSUME NEW m \in Nat, DOMAIN vreg = 1 .. m, DOMAIN vreg # {}
  PROVE  Max(DOMAIN vreg) = m
<1>1. DOMAIN vreg \in SUBSET Nat /\ IsFiniteSet(DOMAIN vreg)
  BY FS_Interval
<1>2. Max(DOMAIN vreg) \in DOMAIN vreg /\ \A x \in DOMAIN vreg : x <= Max(DOMAIN vreg)
  BY <1>1, FiniteMax
<1>3. m \in DOMAIN vreg
  OBVIOUS
<1> QED BY <1>2, <1>3

(* Case 1. *)
LEMMA SpillDivides ==
  ASSUME AInv, NEW v \in DOMAIN vreg, NEW pr,
         Replace(v, [w \in {v} |-> Part(v, vreg[v].ref, "no", pr)]), prog' = prog
  PROVE  /\ GraphOK(prog, vreg, intf)' /\ ColoursOK(vreg, intf)'
         /\ DOMAIN vreg' = DOMAIN vreg
<1> DEFINE P == {v}
           range == [w \in P |-> vreg[v].ref]
           pieces == [w \in {v} |-> Part(v, vreg[v].ref, "no", pr)]
<1>1. v \in P /\ \A x \in P : x = v \/ x \notin DOMAIN vreg
  OBVIOUS
<1>2. \E m \in Nat : DOMAIN vreg \cup P = 1 .. m
  <2>1. DOMAIN vreg \cup P = DOMAIN vreg
    OBVIOUS
  <2> QED BY <2>1 DEF AInv, GraphOK
<1>3. Shared(range, P, vreg[v].ref)
  BY DEF Shared
<1>4. ArePartsOf(v, pieces, range, P)
  BY DEF ArePartsOf
<1>5. DOMAIN pieces = P
  OBVIOUS
<1>6. Replace(v, pieces)
  OBVIOUS
<1> HIDE DEF pieces, range
<1>7. Divides(prog, vreg, v, pieces) /\ \A x \in DOMAIN pieces : pieces[x].base = None
  <2> HIDE DEF P
  <2> QED BY <1>1, <1>2, <1>3, <1>4, PartsDivide
<1>8. /\ GraphOK(prog, vreg, intf)' /\ ColoursOK(vreg, intf)'
      /\ DOMAIN vreg' = DOMAIN vreg \cup DOMAIN pieces
  BY <1>6, <1>7, DivisionKeeps
<1> QED BY <1>5, <1>8

(* Case 2: the references fall into the control blocks. *)
LEMMA CbSplitDivides ==
  ASSUME AInv, NEW v \in DOMAIN vreg, NEW found, CbSplit(v, found)
  PROVE  /\ GraphOK(prog, vreg, intf)' /\ ColoursOK(vreg, intf)'
         /\ DOMAIN vreg' = DOMAIN vreg \cup
              ((Max(DOMAIN vreg) + 1) .. (Max(DOMAIN vreg) + (Cardinality(CbsOf(v)) - 1)))
<1> DEFINE ref == vreg[v].ref
           S == CbsOf(v)
           rest == Cardinality(S) - 1
           top == Max(DOMAIN vreg)
           new == (top + 1) .. (top + rest)
           P == {v} \cup new
           In(n) == {i \in vreg[v].live : Rank(S, Cb(i)) = n}
           range == [x \in P |-> IF x = v THEN In(0) ELSE In(x - top)]
           pieces == [p \in {v} \cup new |->
                        IF p = v THEN Part(v, In(0), "cb", Raised(v))
                        ELSE Part(v, In(p - top), "cb", Raised(v) + 1)]
<1>1. Replace(v, pieces) /\ vreg[v].spilled /\ rest > 0 /\ prog' = prog
  BY DEF CbSplit, Unallocatable, Extract
<1>2. VregOK(prog, vreg[v]) /\ vreg[v].live = ref
  BY <1>1 DEF AInv, GraphOK, VregOK
<1>3. PICK m \in Nat : DOMAIN vreg = 1 .. m
  BY DEF AInv, GraphOK
<1>4. top = m /\ v \in 1 .. m
  BY <1>3, TopFacts
<1>5. ref \subseteq Ops /\ IsFiniteSet(ref)
  <2>1. ref \subseteq Ops
    BY <1>2 DEF AInv, VregOK, RefInstr, IsFunctionToCompile
  <2> QED BY <2>1, OpsFacts, FS_Subset
<1>6. /\ S \in SUBSET Nat /\ IsFiniteSet(S)
      /\ \A i \in ref : Cb(i) \in S
  <2>1. S = {Cb(i) : i \in ref}
    BY <1>2 DEF CbsOf
  <2>2. \A i \in ref : Cb(i) \in Nat
    BY <1>5, CbFacts, RegAllocAssumption
  <2>3. IsFiniteSet(S)
    <3> DEFINE f == [i \in ref |-> Cb(i)]
    <3>1. f \in Surjection(ref, S)
      BY <2>1 DEF Surjection
    <3> QED BY <1>5, <3>1, FS_Surjection
  <2> HIDE DEF S
  <2> QED BY <2>1, <2>2, <2>3
<1>7. rest \in Nat /\ Cardinality(S) = rest + 1
  <2>1. Cardinality(S) \in Nat
    BY <1>6, FS_CardinalityType
  <2> QED BY <1>1, <2>1
<1>8. \A i \in ref : Rank(S, Cb(i)) \in 0 .. rest
  <2> HIDE DEF S, rest
  <2>1. \A i \in ref : Rank(S, Cb(i)) \in Nat /\ Rank(S, Cb(i)) < Cardinality(S)
    BY <1>6, RankFacts
  <2> QED BY <1>7, <2>1
<1> HIDE DEF S, rest
<1>9. new = (m + 1) .. (m + rest) /\ v \in Nat /\ v <= m
  BY <1>4
<1> HIDE DEF top
<1>10. DOMAIN vreg \cup P = 1 .. (m + rest)
  BY <1>3, <1>4, <1>7, <1>9
<1>a. \A x : x \in P <=> x = v \/ x \in (m + 1) .. (m + rest)
  BY <1>9
<1>11. \A x \in P : x = v \/ x \notin DOMAIN vreg
  BY ONLY <1>3, <1>7, <1>9, <1>a, m \in Nat
<1>12. \A x \in P : x # v => x - m \in 1 .. rest
  BY ONLY <1>7, <1>9, <1>a, m \in Nat
<1>13. \A k \in 1 .. rest : m + k \in P /\ m + k # v /\ (m + k) - m = k
  <2> SUFFICES ASSUME NEW k \in 1 .. rest PROVE m + k \in P /\ m + k # v /\ (m + k) - m = k
    OBVIOUS
  <2>1. m + k \in (m + 1) .. (m + rest) /\ m + k > v /\ (m + k) - m = k
    BY ONLY <1>7, <1>9, m \in Nat, k \in 1 .. rest
  <2> QED BY ONLY <1>9, <1>a, <2>1, m \in Nat, k \in 1 .. rest
<1>14. /\ In(0) = {i \in ref : Rank(S, Cb(i)) = 0}
       /\ \A x \in P : x # v => In(x - top) = {i \in ref : Rank(S, Cb(i)) = x - m}
  BY <1>2, <1>4
<1>15. v \in P
  OBVIOUS
<1>16. \A x \in P : \A i : i \in range[x] <=>
         i \in ref /\ Rank(S, Cb(i)) = IF x = v THEN 0 ELSE x - m
  BY <1>14
<1>17. ArePartsOf(v, pieces, range, P)
  <2> SUFFICES ASSUME NEW x \in P PROVE \E s, pr : pieces[x] = Part(v, range[x], s, pr)
    BY DEF ArePartsOf
  <2>1. CASE x = v
    <3>1. pieces[x] = Part(v, range[x], "cb", Raised(v))
      BY <2>1
    <3> QED BY <3>1
  <2>2. CASE x # v
    <3>1. pieces[x] = Part(v, range[x], "cb", Raised(v) + 1)
      BY <2>2
    <3> QED BY <3>1
  <2> QED BY <2>1, <2>2
<1>18. DOMAIN pieces = P
  OBVIOUS
<1> HIDE DEF range, pieces, new, P
<1>19. Shared(range, P, ref)
  <2>1. \A x \in P : range[x] \subseteq ref
    BY <1>16
  <2>2. ASSUME NEW x \in P, NEW y \in P, x # y PROVE range[x] \cap range[y] = {}
    <3> SUFFICES ASSUME NEW i \in range[x], i \in range[y] PROVE FALSE
      OBVIOUS
    <3>1. Rank(S, Cb(i)) = (IF x = v THEN 0 ELSE x - m)
          /\ Rank(S, Cb(i)) = (IF y = v THEN 0 ELSE y - m)
      BY <1>16
    <3>2. x # v => x \in Nat /\ x - m >= 1
      BY <1>7, <1>10, <1>12
    <3>3. y # v => y \in Nat /\ y - m >= 1
      BY <1>7, <1>10, <1>12
    <3> QED BY ONLY <2>2, <3>1, <3>2, <3>3, m \in Nat
  <2>3. ASSUME NEW i \in ref PROVE \E x \in P : i \in range[x]
    <3> DEFINE k == Rank(S, Cb(i))
    <3>1. k \in 0 .. rest
      BY <1>8
    <3>2. CASE k = 0
      BY <1>15, <1>16, <3>2
    <3>3. CASE k # 0
      <4>1. k \in 1 .. rest
        BY <1>7, <3>1, <3>3
      <4>2. m + k \in P /\ m + k # v /\ (m + k) - m = k
        BY <1>13, <4>1
      <4>3. i \in range[m + k]
        BY <1>16, <4>2
      <4> QED BY <4>2, <4>3
    <3> QED BY <3>2, <3>3
  <2> QED BY <2>1, <2>2, <2>3 DEF Shared
<1>20. \E k \in Nat : DOMAIN vreg \cup P = 1 .. k
  <2>1. m + rest \in Nat
    BY <1>7
  <2> QED BY <1>10, <2>1
<1>21. Divides(prog, vreg, v, pieces) /\ \A x \in DOMAIN pieces : pieces[x].base = None
  BY <1>11, <1>15, <1>17, <1>19, <1>20, PartsDivide
<1>22. /\ GraphOK(prog, vreg, intf)' /\ ColoursOK(vreg, intf)'
       /\ DOMAIN vreg' = DOMAIN vreg \cup DOMAIN pieces
  BY <1>1, <1>21, DivisionKeeps
<1>23. DOMAIN vreg \cup P = DOMAIN vreg \cup new
  BY DEF P
<1> QED BY <1>18, <1>22, <1>23 DEF new, top, rest, S

(* Cases 3 and 4: the references of the portion, and the others. *)
LEMMA InstrSplitDivides ==
  ASSUME AInv, NEW v \in DOMAIN vreg, NEW found, StacksOK(found.stacks),
         InstrSplit(v, found)
  PROVE  /\ GraphOK(prog, vreg, intf)' /\ ColoursOK(vreg, intf)' /\ StacksOK(stacks)'
         /\ DOMAIN vreg' = DOMAIN vreg \cup {Max(DOMAIN vreg) + 1}
<1> DEFINE ref == vreg[v].ref
           new == Max(DOMAIN vreg) + 1
           here == Portion(v, found).range
           P == {v, new}
           range == [p \in P |-> IF p = v THEN here ELSE ref \ here]
           pieces == [p \in {v, new} |->
                        Part(v, IF p = v THEN here ELSE ref \ here, "instr", Raised(v))]
<1>1. /\ Replace(v, pieces) /\ prog' = prog
      /\ stacks' = Portion(v, found).stacks
  BY DEF InstrSplit, Unallocatable, Extract
<1>2. here \subseteq ref /\ StacksOK(Portion(v, found).stacks)
  BY PortionFacts
<1>3. PICK m \in Nat : DOMAIN vreg = 1 .. m
  BY DEF AInv, GraphOK
<1>4. new = m + 1 /\ v \in 1 .. m
  BY <1>3, TopFacts
<1> HIDE DEF new, here
<1>5. DOMAIN vreg \cup P = 1 .. (m + 1) /\ new # v /\ new \notin DOMAIN vreg
  BY <1>3, <1>4
<1>6. ArePartsOf(v, pieces, range, P)
  <2> SUFFICES ASSUME NEW x \in P PROVE pieces[x] = Part(v, range[x], "instr", Raised(v))
    BY DEF ArePartsOf
  <2> QED OBVIOUS
<1>7. range[v] = here /\ range[new] = ref \ here
  BY <1>5
<1>8. DOMAIN pieces = P
  OBVIOUS
<1> HIDE DEF range, pieces
<1>9. Shared(range, P, ref)
  BY <1>2, <1>7 DEF Shared
<1>10. \E k \in Nat : DOMAIN vreg \cup P = 1 .. k
  BY <1>5
<1>11. v \in P /\ \A x \in P : x = v \/ x \notin DOMAIN vreg
  BY <1>5
<1>12. DOMAIN vreg \cup P = DOMAIN vreg \cup {new}
  OBVIOUS
<1> HIDE DEF P
<1>13. Divides(prog, vreg, v, pieces) /\ \A x \in DOMAIN pieces : pieces[x].base = None
  BY <1>6, <1>9, <1>10, <1>11, PartsDivide
<1>14. /\ GraphOK(prog, vreg, intf)' /\ ColoursOK(vreg, intf)'
       /\ DOMAIN vreg' = DOMAIN vreg \cup DOMAIN pieces
  BY <1>1, <1>13, DivisionKeeps
<1>15. StacksOK(stacks')
  BY <1>1, <1>2
<1> QED BY <1>8, <1>12, <1>14, <1>15 DEF new

-----------------------------------------------------------------------------
(* The steps.                                                              *)

(* The queues after a register was extracted and found no colour; new are  *)
(* the registers a split made of it.                                       *)
LEMMA FailedQueue ==
  ASSUME QueueOK, phase = "colour", NEW v \in heap, NEW new, Extract(v, new),
         uncolored' = TRUE, DOMAIN vreg' = DOMAIN vreg \cup new, phase' = phase
  PROVE  QueueOK'
<1>1. /\ heap \subseteq DOMAIN vreg /\ shadow \subseteq DOMAIN vreg
      /\ DOMAIN vreg = heap \cup shadow
      /\ unconstrained \in Seq(DOMAIN vreg)
  BY DEF QueueOK
<1>2. /\ heap' = heap \ {v} /\ shadow' = shadow \cup {v} \cup new
      /\ unconstrained' = unconstrained
  BY DEF Extract
<1>3. unconstrained' \in Seq(DOMAIN vreg')
  <2>1. \A i \in 1 .. Len(unconstrained) : unconstrained[i] \in DOMAIN vreg'
    BY <1>1
  <2> QED BY <1>1, <1>2, <2>1
<1> QED BY <1>1, <1>2, <1>3 DEF QueueOK

(* A register that is marked is otherwise the same. *)
MarkedIn(f, v) == [f EXCEPT ![v].split = "cb"]
Marked(r) == [r EXCEPT !.split = "cb"]
SpilledOK(p, r) == VregOK(p, r) /\ r.spilled

(* Only one register is marked. *)
LEMMA MarkedInFacts ==
  ASSUME NEW f, NEW v \in DOMAIN f, f = [w \in DOMAIN f |-> f[w]], NEW g, g = MarkedIn(f, v)
  PROVE  /\ DOMAIN g = DOMAIN f /\ g = [w \in DOMAIN g |-> g[w]]
         /\ g[v] = Marked(f[v])
         /\ \A w \in DOMAIN f : w # v => g[w] = f[w]
<1>1. DOMAIN g = DOMAIN f
  BY DEF MarkedIn
<1>2. g = [w \in DOMAIN g |-> g[w]]
  BY DEF MarkedIn
<1>3. g[v] = Marked(f[v])
  BY DEF MarkedIn, Marked
<1>4. \A w \in DOMAIN f : w # v => g[w] = f[w]
  BY DEF MarkedIn
<1> QED BY <1>1, <1>2, <1>3, <1>4

(* Only its flag changes. *)
LEMMA MarkedFacts ==
  ASSUME NEW p, NEW r, SpilledOK(p, r), NEW q, q = Marked(r)
  PROVE  /\ VregOK(p, q)
         /\ q.base = r.base /\ q.rclass = r.rclass
         /\ q.root = r.root /\ q.type = r.type /\ q.illegal = r.illegal
         /\ q.ref = r.ref /\ q.spilled = r.spilled /\ q.split = "cb"
         /\ q.benefit = r.benefit /\ q.live = r.live /\ q.priority = r.priority
<1>0. r = [root |-> r.root, type |-> r.type, benefit |-> r.benefit,
           rclass |-> r.rclass, illegal |-> r.illegal, base |-> r.base,
           priority |-> r.priority, spilled |-> r.spilled, split |-> r.split,
           ref |-> r.ref, live |-> r.live]
  BY DEF VregOK, SpilledOK
<1>1. q = [root |-> r.root, type |-> r.type, benefit |-> r.benefit,
           rclass |-> r.rclass, illegal |-> r.illegal, base |-> r.base,
           priority |-> r.priority, spilled |-> r.spilled, split |-> "cb",
           ref |-> r.ref, live |-> r.live]
  BY ONLY <1>0, q = Marked(r) DEF Marked
<1>2. /\ q.base = r.base /\ q.rclass = r.rclass /\ q.live = r.live
      /\ q.root = r.root /\ q.type = r.type /\ q.illegal = r.illegal
      /\ q.ref = r.ref /\ q.spilled = r.spilled /\ q.split = "cb"
      /\ q.benefit = r.benefit /\ q.priority = r.priority
  BY ONLY <1>1
<1>3. VregOK(p, q)
  BY <1>1, <1>2 DEF VregOK, SpilledOK
<1> QED BY <1>2, <1>3

(* Marking keeps the graph and the colours. *)
LEMMA MarkKeeps ==
  ASSUME AInv, NEW v \in DOMAIN vreg, vreg[v].spilled,
         vreg' = [vreg EXCEPT ![v].split = "cb"], intf' = intf, prog' = prog
  PROVE  /\ GraphOK(prog, vreg, intf)' /\ ColoursOK(vreg, intf)'
         /\ DOMAIN vreg' = DOMAIN vreg
<1> DEFINE vr2 == vreg'
           q == vr2[v]
           r == vreg[v]
<1>1. GraphOK(prog, vreg, intf) /\ ColoursOK(vreg, intf)
  BY DEF AInv
<1>2. /\ vreg = [w \in DOMAIN vreg |-> vreg[w]]
      /\ \A w \in DOMAIN vreg : VregOK(prog, vreg[w]) /\ intf[w] \subseteq DOMAIN vreg
  BY <1>1 DEF GraphOK
<1>3. /\ DOMAIN vr2 = DOMAIN vreg /\ vr2 = [w \in DOMAIN vr2 |-> vr2[w]]
      /\ q = Marked(r)
      /\ \A w \in DOMAIN vreg : w # v => vr2[w] = vreg[w]
  <2>1. vr2 = MarkedIn(vreg, v)
    BY DEF MarkedIn
  <2>2. vreg = [w \in DOMAIN vreg |-> vreg[w]] /\ v \in DOMAIN vreg
    BY <1>2
  <2> HIDE DEF vr2
  <2> QED BY ONLY <2>1, <2>2, MarkedInFacts
<1> HIDE DEF vr2
<1>4. SpilledOK(prog, r)
  BY <1>2 DEF SpilledOK
<1>5. /\ VregOK(prog, q)
      /\ q.base = r.base /\ q.rclass = r.rclass
      /\ q.root = r.root /\ q.type = r.type /\ q.illegal = r.illegal
      /\ q.ref = r.ref /\ q.spilled = r.spilled
  <2> HIDE DEF q, r
  <2> QED BY ONLY <1>3, <1>4, MarkedFacts
<1>6. \A w \in DOMAIN vreg :
        /\ VregOK(prog, vr2[w])
        /\ vr2[w].base = vreg[w].base /\ vr2[w].rclass = vreg[w].rclass
        /\ vr2[w].root = vreg[w].root /\ vr2[w].type = vreg[w].type
        /\ vr2[w].illegal = vreg[w].illegal
        /\ vr2[w].ref = vreg[w].ref /\ vr2[w].spilled = vreg[w].spilled
  <2> SUFFICES ASSUME NEW w \in DOMAIN vreg
               PROVE  /\ VregOK(prog, vr2[w])
                      /\ vr2[w].base = vreg[w].base /\ vr2[w].rclass = vreg[w].rclass
                      /\ vr2[w].root = vreg[w].root /\ vr2[w].type = vreg[w].type
                      /\ vr2[w].illegal = vreg[w].illegal
                      /\ vr2[w].ref = vreg[w].ref /\ vr2[w].spilled = vreg[w].spilled
    OBVIOUS
  <2>1. CASE w = v
    BY ONLY <1>5, <2>1
  <2>2. CASE w # v
    BY ONLY <1>2, <1>3, <2>2, w \in DOMAIN vreg
  <2> QED BY <2>1, <2>2
<1> HIDE DEF q, r
<1>7. GraphOK(prog, vr2, intf)
  BY ONLY <1>1, <1>3, <1>6, SameGraph
<1>8. ColoursOK(vr2, intf)
  <2>1. \A w \in DOMAIN vreg : PlaceOK(vr2[w])
    BY ONLY <1>1, <1>6 DEF ColoursOK, PlaceOK
  <2>2. \A w \in DOMAIN vreg : \A x \in intf[w] : Distinct(vr2[w], vr2[x])
    BY ONLY <1>1, <1>2, <1>6 DEF ColoursOK, Distinct
  <2> QED BY ONLY <1>3, <2>1, <2>2 DEF ColoursOK
<1> QED BY <1>3, <1>7, <1>8 DEF vr2

(* A new pass takes every colour back. *)
LEMMA RestartKeeps ==
  ASSUME AInv, Restart
  PROVE  AInv'
<1>1. /\ GraphOK(prog, vreg, intf) /\ QueueOK /\ IsFunctionToCompile(prog)
      /\ phase = "colour" /\ heap = {}
  BY DEF AInv, Restart
<1>2. shadow = DOMAIN vreg
  BY <1>1 DEF QueueOK
<1> DEFINE cls(v) == IF vreg[v].benefit.caller >= vreg[v].benefit.callee
                     THEN "caller" ELSE "callee"
           vr2 == vreg'
<1>3. vr2 = [v \in DOMAIN vreg |-> Placed(vreg[v], None, cls(v))]
  BY <1>2 DEF Restart, Placed
<1>4. \A v \in DOMAIN vreg : cls(v) \in Classes
  BY DEF Classes
<1> HIDE DEF cls, vr2
<1>5. /\ DOMAIN vr2 = DOMAIN vreg /\ vr2 = [v \in DOMAIN vr2 |-> vr2[v]]
      /\ \A v \in DOMAIN vreg : vr2[v] = Placed(vreg[v], None, cls(v))
  BY ONLY <1>3
<1>6. \A v \in DOMAIN vreg : VregOK(prog, vreg[v]) /\ intf[v] \subseteq DOMAIN vreg
  BY <1>1 DEF GraphOK
<1>7. \A v \in DOMAIN vreg : /\ VregOK(prog, vr2[v]) /\ vr2[v].base = None
                             /\ vr2[v].root = vreg[v].root
                             /\ vr2[v].ref = vreg[v].ref
                             /\ vr2[v].spilled = vreg[v].spilled
  BY ONLY <1>4, <1>5, <1>6, WithPlace
<1>8. GraphOK(prog, vr2, intf)
  BY ONLY <1>1, <1>5, <1>7, SameGraph
<1>9. ColoursOK(vr2, intf)
  BY ONLY <1>5, <1>6, <1>7 DEF ColoursOK, PlaceOK, Distinct
<1>10. /\ prog' = prog /\ intf' = intf /\ unconstrained' = unconstrained
       /\ heap' = shadow /\ shadow' = {} /\ stacks' = EmptyStacks
       /\ uncolored' = FALSE /\ phase' = "prune"
  BY DEF Restart
<1>11. QueueOK'
  <2>1. unconstrained \in Seq(DOMAIN vreg)
    BY <1>1 DEF QueueOK
  <2>2. DOMAIN vreg' = DOMAIN vreg
    BY <1>5 DEF vr2
  <2> QED BY ONLY <1>2, <1>10, <2>1, <2>2 DEF QueueOK
<1>12. StacksOK(stacks')
  BY <1>10, EmptyStacksOK
<1> QED BY <1>1, <1>8, <1>9, <1>10, <1>11, <1>12 DEF AInv, vr2

(* Sequences lose their last element. *)
LEMMA FrontFacts ==
  ASSUME NEW D, NEW s \in Seq(D), s # <<>>
  PROVE  /\ Last(s) \in D /\ Front(s) \in Seq(D)
         /\ \A x \in ToSet(s) : x = Last(s) \/ x \in ToSet(Front(s))
<1>1. Len(s) \in Nat /\ Len(s) >= 1 /\ DOMAIN s = 1 .. Len(s)
  OBVIOUS
<1>2. Last(s) = s[Len(s)] /\ Last(s) \in D
  BY <1>1 DEF Last
<1>3. Front(s) = SubSeq(s, 1, Len(s) - 1)
  BY DEF Front
<1>4. Front(s) \in Seq(D) /\ Len(Front(s)) = Len(s) - 1
      /\ \A i \in 1 .. Len(s) - 1 : Front(s)[i] = s[i]
  BY <1>1, <1>3
<1>5. ASSUME NEW x \in ToSet(s), x # Last(s) PROVE x \in ToSet(Front(s))
  <2>1. PICK i \in 1 .. Len(s) : x = s[i]
    BY <1>1 DEF ToSet
  <2>2. i \in 1 .. Len(s) - 1
    BY <1>1, <1>2, <1>5, <2>1
  <2>3. i \in DOMAIN Front(s) /\ Front(s)[i] = x
    BY <1>4, <2>1, <2>2
  <2> QED BY <2>3 DEF ToSet
<1> QED BY <1>2, <1>4, <1>5

(* The first state. *)
LEMMA InitialState ==
  ASSUME Init
  PROVE  AInv
<1>1. IsFunctionToCompile(prog) /\ GraphOK(prog, vreg, intf)
  BY InitialGraph
<1>2. /\ vreg = [v \in DOMAIN prog.def |-> NewVreg(prog, v)]
      /\ stacks = EmptyStacks /\ heap = DOMAIN prog.def /\ shadow = {}
      /\ unconstrained = <<>> /\ uncolored = FALSE /\ phase = "prune"
  BY DEF Init
<1>3. \A v \in DOMAIN vreg : vreg[v].base = None
  BY <1>2 DEF NewVreg
<1>4. \A v \in DOMAIN vreg : intf[v] \subseteq DOMAIN vreg
  BY <1>1 DEF GraphOK
<1>5. ColoursOK(vreg, intf)
  BY <1>3, <1>4 DEF ColoursOK, PlaceOK, Distinct
<1>6. StacksOK(stacks)
  BY <1>2, EmptyStacksOK
<1>7. QueueOK
  <2>1. DOMAIN vreg = DOMAIN prog.def
    BY <1>2
  <2>2. <<>> \in Seq(DOMAIN vreg)
    OBVIOUS
  <2> QED BY ONLY <1>2, <2>1, <2>2 DEF QueueOK
<1> QED BY <1>1, <1>5, <1>6, <1>7 DEF AInv

(* A step that leaves the graph and the stacks alone. *)
LEMMA KeepsAllButQueue ==
  ASSUME AInv, UNCHANGED <<prog, vreg, intf, stacks>>, QueueOK'
  PROVE  AInv'
BY DEF AInv

(* R_prune_interference_graph. *)
LEMMA PruneKeeps ==
  ASSUME AInv, PruneGraph
  PROVE  AInv'
<1>1. /\ UNCHANGED <<prog, vreg, intf, stacks, heap, shadow, uncolored>>
      /\ phase = "prune" /\ phase' = "colour"
      /\ unconstrained' = Pruned \/ unconstrained' = <<>>
  BY DEF PruneGraph, graph
<1>2. unconstrained' \in Seq(DOMAIN vreg)
  <2>1. Pruned \in Seq(DOMAIN vreg)
    BY PrunedFacts
  <2>2. <<>> \in Seq(DOMAIN vreg)
    OBVIOUS
  <2> QED BY ONLY <1>1, <2>1, <2>2
<1>3. QueueOK
  BY DEF AInv
<1>4. QueueOK'
  BY <1>1, <1>2, <1>3 DEF QueueOK
<1> QED BY <1>1, <1>4, KeepsAllButQueue

(* An unconstrained register is left for the end. *)
LEMMA SkipKeeps ==
  ASSUME AInv, phase = "colour", NEW v \in heap, SkipUnconstrained(v)
  PROVE  AInv'
<1>1. /\ UNCHANGED <<prog, vreg, intf, stacks, uncolored, unconstrained, phase>>
      /\ heap' = heap \ {v} /\ shadow' = shadow \cup {v} /\ Waiting(v)
  BY DEF SkipUnconstrained, Extract, graph, Waiting
<1>2. QueueOK
  BY DEF AInv
<1>3. QueueOK'
  BY <1>1, <1>2 DEF QueueOK, Waiting
<1> QED BY <1>1, <1>3, KeepsAllButQueue

(* A register gets the colour that was found. *)
LEMMA ColourKeeps ==
  ASSUME AInv, phase = "colour", NEW v \in heap, NEW found, found = Find(v),
         Colour(v, found)
  PROVE  AInv'
<1>1. /\ UNCHANGED <<prog, intf, uncolored, unconstrained, phase>>
      /\ heap' = heap \ {v} /\ shadow' = shadow \cup {v} \cup {}
      /\ vreg' = [vreg EXCEPT ![v].base = found.reg, ![v].rclass = found.rclass]
      /\ stacks' = found.stacks /\ found.reg # None
  BY DEF Colour, Extract
<1>2. QueueOK /\ IsFunctionToCompile(prog) /\ v \in DOMAIN vreg
  BY DEF AInv, QueueOK
<1>3. /\ GraphOK(prog, vreg, intf)' /\ ColoursOK(vreg, intf)'
      /\ DOMAIN vreg' = DOMAIN vreg /\ vreg'[v].base # None
      /\ \A w \in DOMAIN vreg : w # v => vreg'[w] = vreg[w]
  BY <1>1, <1>2, ColourKeepsColours
<1>4. StacksOK(stacks')
  BY <1>1, <1>2, FindFinds DEF Found
<1>5. QueueOK'
  <2>1. \A w \in shadow' : ~ uncolored => vreg'[w].base # None \/ Waiting(w)
    BY <1>1, <1>2, <1>3 DEF QueueOK
  <2>2. \A w : Waiting(w)' <=> Waiting(w)
    BY <1>1 DEF Waiting
  <2>3. /\ heap' \subseteq DOMAIN vreg /\ shadow' \subseteq DOMAIN vreg
        /\ unconstrained \in Seq(DOMAIN vreg) /\ DOMAIN vreg = heap' \cup shadow'
    BY <1>1, <1>2 DEF QueueOK
  <2>4. phase' = "colour" /\ unconstrained' = unconstrained /\ uncolored' = uncolored
        /\ DOMAIN vreg' = DOMAIN vreg
    BY <1>1, <1>3
  <2> QED BY ONLY <2>1, <2>2, <2>3, <2>4 DEF QueueOK
<1> QED BY <1>1, <1>2, <1>3, <1>4, <1>5 DEF AInv

(* R_handle_unallocatable_vreg. *)
LEMMA UnallocatableKeeps ==
  ASSUME AInv, phase = "colour", NEW v \in heap, NEW found, found = Find(v),
         \/ Spill(v, found) \/ MarkCbSplit(v, found) \/ CbSplit(v, found)
         \/ InstrSplit(v, found) \/ PuntInsufficient(v, found)
  PROVE  AInv'
<1>1. QueueOK /\ IsFunctionToCompile(prog) /\ v \in DOMAIN vreg
  BY DEF AInv, QueueOK
<1>2. StacksOK(found.stacks)
  BY <1>1, FindFinds DEF Found
<1>3. CASE Spill(v, found)
  <2>1. /\ Extract(v, {}) /\ uncolored' = TRUE /\ prog' = prog /\ phase' = phase
        /\ stacks' = found.stacks
        /\ Replace(v, [w \in {v} |-> Part(v, vreg[v].ref, "no", Raised(v))])
    BY <1>3 DEF Spill, Unallocatable, Extract
  <2>2. /\ GraphOK(prog, vreg, intf)' /\ ColoursOK(vreg, intf)'
        /\ DOMAIN vreg' = DOMAIN vreg \cup {}
    BY <1>1, <2>1, SpillDivides
  <2>3. QueueOK'
    BY <1>1, <2>1, <2>2, FailedQueue
  <2> QED BY <1>1, <1>2, <2>1, <2>2, <2>3 DEF AInv
<1>4. CASE MarkCbSplit(v, found)
  <2>1. /\ Extract(v, {}) /\ uncolored' = TRUE /\ prog' = prog /\ phase' = phase
        /\ stacks' = found.stacks /\ intf' = intf /\ vreg[v].spilled
        /\ vreg' = [vreg EXCEPT ![v].split = "cb"]
    BY <1>4 DEF MarkCbSplit, Unallocatable, Extract
  <2>2. /\ GraphOK(prog, vreg, intf)' /\ ColoursOK(vreg, intf)'
        /\ DOMAIN vreg' = DOMAIN vreg \cup {}
    BY <1>1, <2>1, MarkKeeps
  <2>3. QueueOK'
    BY <1>1, <2>1, <2>2, FailedQueue
  <2> QED BY <1>1, <1>2, <2>1, <2>2, <2>3 DEF AInv
<1>5. CASE CbSplit(v, found)
  <2> DEFINE new == (Max(DOMAIN vreg) + 1) .. (Max(DOMAIN vreg) + (Cardinality(CbsOf(v)) - 1))
  <2>1. /\ Extract(v, new) /\ uncolored' = TRUE /\ prog' = prog /\ phase' = phase
        /\ stacks' = found.stacks
    BY <1>5 DEF CbSplit, Unallocatable, Extract
  <2>2. /\ GraphOK(prog, vreg, intf)' /\ ColoursOK(vreg, intf)'
        /\ DOMAIN vreg' = DOMAIN vreg \cup new
    BY <1>1, <1>5, CbSplitDivides
  <2>3. QueueOK'
    <3> HIDE DEF new
    <3> QED BY <1>1, <2>1, <2>2, FailedQueue
  <2> QED BY <1>1, <1>2, <2>1, <2>2, <2>3 DEF AInv
<1>6. CASE InstrSplit(v, found)
  <2> DEFINE new == {Max(DOMAIN vreg) + 1}
  <2>1. Extract(v, new) /\ uncolored' = TRUE /\ prog' = prog /\ phase' = phase
    BY <1>6 DEF InstrSplit, Unallocatable, Extract
  <2>2. /\ GraphOK(prog, vreg, intf)' /\ ColoursOK(vreg, intf)' /\ StacksOK(stacks)'
        /\ DOMAIN vreg' = DOMAIN vreg \cup new
    BY <1>1, <1>2, <1>6, InstrSplitDivides
  <2>3. QueueOK'
    <3> HIDE DEF new
    <3> QED BY <1>1, <2>1, <2>2, FailedQueue
  <2> QED BY <1>1, <2>1, <2>2, <2>3 DEF AInv
<1>7. CASE PuntInsufficient(v, found)
  <2>1. /\ UNCHANGED <<prog, vreg, intf, stacks, unconstrained>>
        /\ heap' = heap \ {v} /\ shadow' = shadow \cup {v} \cup {}
        /\ phase' = "insufficient registers"
    BY <1>7 DEF PuntInsufficient, Unallocatable, Extract, graph
  <2>2. QueueOK'
    BY <1>1, <2>1 DEF QueueOK
  <2> QED BY <2>1, <2>2, KeepsAllButQueue
<1> QED BY <1>3, <1>4, <1>5, <1>6, <1>7

(* A pass that coloured everything. *)
LEMMA AllColouredKeeps ==
  ASSUME AInv, AllColoured
  PROVE  AInv'
<1>1. /\ UNCHANGED <<prog, vreg, intf, stacks, heap, shadow, unconstrained, uncolored>>
      /\ phase = "colour" /\ heap = {} /\ ~ uncolored /\ phase' = "unconstrained"
  BY DEF AllColoured, graph
<1>2. QueueOK
  BY DEF AInv
<1>3. \A v \in DOMAIN vreg : vreg[v].base # None \/ Waiting(v)
  BY <1>1, <1>2 DEF QueueOK
<1>4. QueueOK'
  BY <1>1, <1>2, <1>3 DEF QueueOK, Waiting
<1> QED BY <1>1, <1>4, KeepsAllButQueue

(* R_allocate_unconstrained_virtual_registers. *)
LEMMA ColourUnconstrainedKeeps ==
  ASSUME AInv, ColourUnconstrained
  PROVE  AInv'
<1> DEFINE v == Last(unconstrained)
           found == Find(v)
<1>1. /\ phase = "unconstrained" /\ unconstrained # <<>>
      /\ unconstrained' = Front(unconstrained)
      /\ UNCHANGED <<prog, intf, heap, shadow, uncolored>>
  BY DEF ColourUnconstrained
<1>2. QueueOK /\ IsFunctionToCompile(prog)
  BY DEF AInv
<1>3. /\ v \in DOMAIN vreg /\ Front(unconstrained) \in Seq(DOMAIN vreg)
      /\ \A x \in ToSet(unconstrained) : x = v \/ x \in ToSet(Front(unconstrained))
  BY <1>1, <1>2, FrontFacts DEF QueueOK
<1>4. \/ /\ found.reg # None
         /\ vreg' = [vreg EXCEPT ![v].base = found.reg, ![v].rclass = found.rclass]
         /\ stacks' = found.stacks
         /\ phase' = phase
      \/ /\ phase' = "no register for unconstrained"
         /\ UNCHANGED <<vreg, stacks>>
  BY DEF ColourUnconstrained
<1> HIDE DEF v, found
<1>5. CASE /\ found.reg # None
           /\ vreg' = [vreg EXCEPT ![v].base = found.reg, ![v].rclass = found.rclass]
           /\ stacks' = found.stacks
           /\ phase' = phase
  <2>1. /\ GraphOK(prog, vreg, intf)' /\ ColoursOK(vreg, intf)'
        /\ DOMAIN vreg' = DOMAIN vreg /\ vreg'[v].base # None
        /\ \A w \in DOMAIN vreg : w # v => vreg'[w] = vreg[w]
    BY <1>1, <1>3, <1>5, ColourKeepsColours DEF found
  <2>2. StacksOK(stacks')
    BY <1>3, <1>5, FindFinds DEF Found, found
  <2>3. QueueOK'
    <3>1. \A w \in DOMAIN vreg' : vreg'[w].base # None \/ Waiting(w)'
      BY <1>1, <1>2, <1>3, <2>1 DEF QueueOK, Waiting
    <3>2. /\ heap' \subseteq DOMAIN vreg' /\ shadow' \subseteq DOMAIN vreg'
          /\ unconstrained' \in Seq(DOMAIN vreg') /\ phase' = "unconstrained"
      BY <1>1, <1>2, <1>3, <1>5, <2>1 DEF QueueOK
    <3> QED BY ONLY <3>1, <3>2 DEF QueueOK
  <2> QED BY <1>1, <1>2, <2>1, <2>2, <2>3 DEF AInv
<1>6. CASE /\ phase' = "no register for unconstrained"
           /\ UNCHANGED <<vreg, stacks>>
  <2>1. QueueOK'
    BY <1>1, <1>2, <1>3, <1>6 DEF QueueOK
  <2> QED BY <1>1, <1>6, <2>1, KeepsAllButQueue
<1> QED BY <1>4, <1>5, <1>6

(* The allocator returns. *)
LEMMA FinishKeeps ==
  ASSUME AInv, Finish
  PROVE  AInv'
<1>1. /\ UNCHANGED <<prog, vreg, intf, stacks, heap, shadow, unconstrained, uncolored>>
      /\ phase = "unconstrained" /\ unconstrained = <<>> /\ phase' = "done"
  BY DEF Finish, graph
<1>2. QueueOK
  BY DEF AInv
<1>3. QueueOK'
  BY <1>1, <1>2 DEF QueueOK, Waiting
<1> QED BY <1>1, <1>3, KeepsAllButQueue

(* The invariant holds in every state of the allocator.                    *)
THEOREM AllocatorInvariant == Spec => []AInv
<1>1. Init => AInv
  BY InitialState
<1>2. AInv /\ [Next]_vars => AInv'
  <2> SUFFICES ASSUME AInv, [Next]_vars PROVE AInv'
    OBVIOUS
  <2>1. CASE ColourNext
    <3>1. PICK v \in HeapTop :
            /\ phase = "colour"
            /\ \/ SkipUnconstrained(v)
               \/ Colour(v, Find(v)) \/ Spill(v, Find(v)) \/ MarkCbSplit(v, Find(v))
               \/ CbSplit(v, Find(v)) \/ InstrSplit(v, Find(v))
               \/ PuntInsufficient(v, Find(v))
      BY <2>1 DEF ColourNext
    <3>2. v \in heap
      BY DEF HeapTop
    <3> QED BY <3>1, <3>2, SkipKeeps, ColourKeeps, UnallocatableKeeps
  <2>2. CASE UNCHANGED vars
    BY <2>2 DEF vars, AInv, QueueOK, Waiting
  <2>3. Stop => UNCHANGED vars
    BY DEF Stop
  <2> QED BY <2>1, <2>2, <2>3, PruneKeeps, RestartKeeps, AllColouredKeeps,
             ColourUnconstrainedKeeps, FinishKeeps DEF Next
<1> QED BY <1>1, <1>2, PTL DEF Spec

(* Spilling and splitting never lose an arc between registers that hold    *)
(* values at the same moment (r_regspill.c:480), and keep arcs in both     *)
(* lists.                                                                  *)
THEOREM NoArcIsLost == Spec => []ConflictsAreArcs
<1>1. AInv => ConflictsAreArcs
  BY GraphGivesArcs DEF AInv
<1> QED BY <1>1, AllocatorInvariant, PTL

(* When the allocator returns, the code computes what it did: every        *)
(* reference has one register, every register a place that is legal and    *)
(* that no register held at the same moment shares (r_regalloc.c:3083).    *)
THEOREM ReturnedAllocationsAreCorrect == Spec => []AllocationIsCorrect
<1>1. AInv => AllocationIsCorrect
  BY DoneIsCorrect
<1> QED BY <1>1, AllocatorInvariant, PTL

(* Whatever has moved between the stacks of a bank, a search of it finds a *)
(* register exactly when one is free, and no register is lost or doubled   *)
(* (R_find_free_register_in_bank).                                         *)
THEOREM SearchesAreComplete == Spec => []SearchIsComplete
<1>1. AInv => SearchIsComplete
  <2> SUFFICES ASSUME StacksOK(stacks), NEW t \in Types, NEW c \in Classes
               PROVE  LET all == stacks.alloc[<<t, c>>] \o stacks.avail[<<t, c>>]
                      IN  /\ Len(all) = Len(Registers(t, c))
                          /\ ToSet(all) = ToSet(Registers(t, c))
                          /\ \A reserved \in SUBSET (BaseIndex(c)..(BaseIndex(c) + Units[c] - 1)) :
                               LET found == R_find_free_register_in_bank(stacks, t, c, reserved).reg
                               IN  IF \E r \in ToSet(Registers(t, c)) :
                                          UnitsOf(t, r) \cap reserved = {}
                                   THEN /\ found \in ToSet(Registers(t, c))
                                        /\ UnitsOf(t, found) \cap reserved = {}
                                   ELSE found = None
    BY DEF AInv, SearchIsComplete
  <2> DEFINE a == stacks.alloc[<<t, c>>]
             b == stacks.avail[<<t, c>>]
  <2>1. /\ a \in Seq(Int) /\ b \in Seq(Int)
        /\ Len(a) + Len(b) = Len(Registers(t, c))
        /\ ToSet(a) \cup ToSet(b) = ToSet(Registers(t, c))
    BY DEF StacksOK, Holds
  <2>2. Len(a \o b) = Len(Registers(t, c)) /\ ToSet(a \o b) = ToSet(Registers(t, c))
    <3> HIDE DEF a, b
    <3> QED BY <2>1, ConcatFacts
  <2>3. ASSUME NEW reserved, NEW found,
               found = R_find_free_register_in_bank(stacks, t, c, reserved)
        PROVE  IF \E r \in ToSet(Registers(t, c)) : UnitsOf(t, r) \cap reserved = {}
               THEN /\ found.reg \in ToSet(Registers(t, c))
                    /\ UnitsOf(t, found.reg) \cap reserved = {}
               ELSE found.reg = None
    <3>1. Searched(found, t, c, reserved)
      BY <2>3, BankSearch
    <3> QED BY <3>1 DEF Searched
  <2> QED BY <2>2, <2>3
<1> QED BY <1>1, AllocatorInvariant, PTL

-----------------------------------------------------------------------------
(* Passes.                                                                 *)

(* The registers of the function that have been spilled, and split.  Each  *)
(* failed pass makes one of the sets larger, and the registers splits make *)
(* are in neither state that could fail again without a split within a     *)
(* control block.                                                          *)
SpilledOf(p, vr) == {v \in DOMAIN p.def : vr[v].spilled}
SplitOf(p, vr) == {v \in DOMAIN p.def : vr[v].split # "no"}
SplitWithin(vr) == \E v \in DOMAIN vr : vr[v].split = "instr"
Passes(n, failed) == n + IF failed THEN 1 ELSE 0

PInv ==
  /\ pass \in Nat /\ uncolored \in BOOLEAN
  /\ \A v \in DOMAIN vreg \ DOMAIN prog.def : vreg[v].spilled /\ vreg[v].split # "no"
  /\ ~ SplitWithin(vreg) =>
       Passes(pass, uncolored) <= 1 + Cardinality(SpilledOf(prog, vreg))
                                    + Cardinality(SplitOf(prog, vreg))

(* The sets are finite. *)
LEMMA CountFacts ==
  ASSUME NEW p, IsFunctionToCompile(p), NEW vr
  PROVE  /\ IsFiniteSet(SpilledOf(p, vr)) /\ IsFiniteSet(SplitOf(p, vr))
         /\ Cardinality(SpilledOf(p, vr)) \in Nat /\ Cardinality(SplitOf(p, vr)) \in Nat
         /\ Cardinality(DOMAIN p.def) \in Nat
         /\ Cardinality(SpilledOf(p, vr)) <= Cardinality(DOMAIN p.def)
         /\ Cardinality(SplitOf(p, vr)) <= Cardinality(DOMAIN p.def)
<1>1. IsFiniteSet(DOMAIN p.def)
  BY DEF IsFunctionToCompile
<1>2. SpilledOf(p, vr) \subseteq DOMAIN p.def /\ SplitOf(p, vr) \subseteq DOMAIN p.def
  BY DEF SpilledOf, SplitOf
<1> QED BY <1>1, <1>2, FS_Subset, FS_CardinalityType

(* A step that spills and splits nothing. *)
LEMMA SamePass ==
  ASSUME AInv, PInv, prog' = prog, DOMAIN vreg' = DOMAIN vreg,
         \A v \in DOMAIN vreg : /\ vreg'[v].spilled = vreg[v].spilled
                                /\ vreg'[v].split = vreg[v].split,
         pass' \in Nat, uncolored' \in BOOLEAN,
         Passes(pass', uncolored') = Passes(pass, uncolored)
  PROVE  PInv'
<1>1. DOMAIN prog.def \subseteq DOMAIN vreg
  BY DEF AInv, GraphOK
<1>2. /\ SpilledOf(prog, vreg)' = SpilledOf(prog, vreg)
      /\ SplitOf(prog, vreg)' = SplitOf(prog, vreg)
  BY <1>1 DEF SpilledOf, SplitOf
<1>3. SplitWithin(vreg)' <=> SplitWithin(vreg)
  BY DEF SplitWithin
<1>4. \A v \in DOMAIN vreg' \ DOMAIN prog.def : vreg'[v].spilled /\ vreg'[v].split # "no"
  BY DEF PInv
<1> QED BY <1>2, <1>3, <1>4 DEF PInv

(* A step that spills or splits v, and makes registers that are split. *)
LEMMA OneMorePass ==
  ASSUME AInv, PInv, prog' = prog, NEW v \in DOMAIN vreg, NEW new,
         DOMAIN vreg' = DOMAIN vreg \cup new, new \cap DOMAIN vreg = {},
         \A w \in new : vreg'[w].spilled /\ vreg'[w].split # "no",
         \A w \in DOMAIN vreg : w # v => vreg'[w] = vreg[w],
         vreg'[v].spilled, vreg[v].split = "no",
         \/ ~ vreg[v].spilled /\ vreg'[v].split = "no"
         \/ vreg[v].spilled /\ vreg'[v].split # "no",
         pass' = pass, uncolored' = TRUE
  PROVE  PInv'
<1>1. DOMAIN prog.def \subseteq DOMAIN vreg /\ IsFunctionToCompile(prog)
  BY DEF AInv, GraphOK
<1>2. v \in DOMAIN prog.def
  BY DEF PInv
<1> DEFINE A == SpilledOf(prog, vreg)
           B == SplitOf(prog, vreg)
           A2 == SpilledOf(prog, vreg')
           B2 == SplitOf(prog, vreg')
<1>3. /\ IsFiniteSet(A) /\ IsFiniteSet(B)
      /\ Cardinality(A) \in Nat /\ Cardinality(B) \in Nat
  BY <1>1, CountFacts
<1>4. SplitWithin(vreg) => SplitWithin(vreg')
  BY DEF SplitWithin
<1>5. Cardinality(A2) + Cardinality(B2) = Cardinality(A) + Cardinality(B) + 1
  <2>1. CASE ~ vreg[v].spilled /\ vreg'[v].split = "no"
    <3>1. A2 = A \cup {v} /\ v \notin A
      BY <1>1, <1>2, <2>1 DEF SpilledOf
    <3>2. B2 = B
      BY <1>1, <1>2, <2>1 DEF SplitOf
    <3>3. Cardinality(A2) = Cardinality(A) + 1
      BY <1>3, <3>1, FS_AddElement
    <3> QED BY <1>3, <3>2, <3>3
  <2>2. CASE vreg[v].spilled /\ vreg'[v].split # "no"
    <3>1. B2 = B \cup {v} /\ v \notin B
      BY <1>1, <1>2, <2>2 DEF SplitOf
    <3>2. A2 = A
      BY <1>1, <1>2, <2>2 DEF SpilledOf
    <3>3. Cardinality(B2) = Cardinality(B) + 1
      BY <1>3, <3>1, FS_AddElement
    <3> QED BY <1>3, <3>2, <3>3
  <2> QED BY <2>1, <2>2
<1>6. Cardinality(A2) \in Nat /\ Cardinality(B2) \in Nat
  BY <1>1, CountFacts
<1>7. \A w \in DOMAIN vreg' \ DOMAIN prog.def : vreg'[w].spilled /\ vreg'[w].split # "no"
  BY <1>2 DEF PInv
<1>8. pass \in Nat /\ uncolored \in BOOLEAN
  BY DEF PInv
<1>9. ~ SplitWithin(vreg) => Passes(pass, uncolored) <= 1 + Cardinality(A) + Cardinality(B)
  BY DEF PInv
<1> HIDE DEF A, B, A2, B2
<1>10. ~ SplitWithin(vreg') => Passes(pass', uncolored') <= 1 + Cardinality(A2) + Cardinality(B2)
  <2>1. Passes(pass', uncolored') = pass + 1
    BY DEF Passes
  <2>2. pass <= Passes(pass, uncolored) /\ Passes(pass, uncolored) \in Nat
    BY <1>8 DEF Passes
  <2>3. ~ SplitWithin(vreg) => pass <= 1 + Cardinality(A) + Cardinality(B)
    BY ONLY <1>3, <1>8, <1>9, <2>2
  <2> QED BY ONLY <1>3, <1>4, <1>5, <1>6, <1>8, <2>1, <2>3
<1> QED BY <1>7, <1>8, <1>10 DEF PInv, A2, B2

(* After a split within a control block there is nothing to count. *)
LEMMA SplitWithinStays ==
  ASSUME PInv, prog' = prog, NEW v \in DOMAIN vreg', vreg'[v].split = "instr",
         \A w \in DOMAIN vreg' \ DOMAIN prog.def : vreg'[w].spilled /\ vreg'[w].split # "no",
         pass' = pass, uncolored' = TRUE
  PROVE  PInv'
<1>1. SplitWithin(vreg')
  BY DEF SplitWithin
<1> QED BY <1>1 DEF PInv

(* What a division leaves in vreg. *)
LEMMA PieceFields ==
  ASSUME NEW v \in DOMAIN vreg, NEW pieces, Replace(v, pieces)
  PROVE  /\ DOMAIN vreg' = DOMAIN vreg \cup DOMAIN pieces
         /\ \A x \in DOMAIN pieces : vreg'[x] = pieces[x]
         /\ \A w \in DOMAIN vreg \ DOMAIN pieces : vreg'[w] = vreg[w]
<1>1. vreg' = Replaced(vreg, pieces)
  BY ReplaceIs
<1> QED BY <1>1 DEF Replaced

(* The first pass. *)
LEMMA InitialPass ==
  ASSUME Init
  PROVE  PInv
<1>1. /\ DOMAIN vreg = DOMAIN prog.def /\ pass = 1 /\ uncolored = FALSE
      /\ IsFunctionToCompile(prog)
  BY InitialGraph DEF Init
<1>2. /\ Cardinality(SpilledOf(prog, vreg)) \in Nat
      /\ Cardinality(SplitOf(prog, vreg)) \in Nat
  BY <1>1, CountFacts
<1>3. Passes(pass, uncolored) = 1
  BY <1>1 DEF Passes
<1>4. Passes(pass, uncolored) <= 1 + Cardinality(SpilledOf(prog, vreg))
                                   + Cardinality(SplitOf(prog, vreg))
  BY ONLY <1>2, <1>3
<1>5. pass \in Nat /\ uncolored \in BOOLEAN /\ DOMAIN vreg \ DOMAIN prog.def = {}
  BY <1>1
<1> QED BY ONLY <1>4, <1>5 DEF PInv

(* Colouring a register moves it nowhere. *)
LEMMA ColourPass ==
  ASSUME AInv, PInv, NEW v \in DOMAIN vreg, NEW found, found = Find(v), found.reg # None,
         vreg' = [vreg EXCEPT ![v].base = found.reg, ![v].rclass = found.rclass],
         UNCHANGED <<prog, intf, pass, uncolored>>
  PROVE  PInv'
<1>1. /\ DOMAIN vreg' = DOMAIN vreg
      /\ vreg'[v].spilled = vreg[v].spilled /\ vreg'[v].split = vreg[v].split
      /\ \A w \in DOMAIN vreg : w # v => vreg'[w] = vreg[w]
  BY ColourKeepsColours
<1>2. \A w \in DOMAIN vreg : /\ vreg'[w].spilled = vreg[w].spilled
                             /\ vreg'[w].split = vreg[w].split
  BY <1>1
<1>3. pass' \in Nat /\ uncolored' \in BOOLEAN
      /\ Passes(pass', uncolored') = Passes(pass, uncolored)
  BY DEF PInv
<1> QED BY <1>1, <1>2, <1>3, SamePass

(* A new pass is counted when it begins. *)
LEMMA RestartPass ==
  ASSUME AInv, PInv, Restart
  PROVE  PInv'
<1>1. \A v \in DOMAIN vreg : VregOK(prog, vreg[v])
  BY DEF AInv, GraphOK
<1> DEFINE cls(v) == IF vreg[v].benefit.caller >= vreg[v].benefit.callee
                     THEN "caller" ELSE "callee"
           vr2 == vreg'
<1>2. vr2 = [v \in DOMAIN vreg |->
               IF v \in shadow THEN Placed(vreg[v], None, cls(v)) ELSE vreg[v]]
  BY DEF Restart, Placed
<1>3. \A v \in DOMAIN vreg : cls(v) \in Classes
  BY DEF Classes
<1> HIDE DEF cls, vr2
<1>4. \A v \in DOMAIN vreg : LET q == Placed(vreg[v], None, cls(v))
                             IN  q.spilled = vreg[v].spilled /\ q.split = vreg[v].split
  BY ONLY <1>1, <1>3, WithPlace
<1>5. /\ DOMAIN vr2 = DOMAIN vreg
      /\ \A v \in DOMAIN vreg : vr2[v].spilled = vreg[v].spilled /\ vr2[v].split = vreg[v].split
  BY ONLY <1>2, <1>4
<1>6. /\ prog' = prog /\ pass' = pass + 1 /\ uncolored' = FALSE /\ uncolored = TRUE
      /\ pass \in Nat
  BY DEF Restart, PInv
<1>7. /\ pass' \in Nat /\ uncolored' \in BOOLEAN
      /\ Passes(pass', uncolored') = Passes(pass, uncolored)
  <2>1. Passes(pass', uncolored') = pass + 1
    BY ONLY <1>6 DEF Passes
  <2>2. Passes(pass, uncolored) = pass + 1
    BY ONLY <1>6 DEF Passes
  <2>3. pass' \in Nat
    BY ONLY <1>6
  <2>4. uncolored' \in BOOLEAN
    BY ONLY <1>6
  <2> QED BY ONLY <2>1, <2>2, <2>3, <2>4
<1>8. /\ DOMAIN vreg' = DOMAIN vreg
      /\ \A v \in DOMAIN vreg : /\ vreg'[v].spilled = vreg[v].spilled
                                /\ vreg'[v].split = vreg[v].split
  BY <1>5 DEF vr2
<1> QED BY <1>6, <1>7, <1>8, SamePass

(* A register that finds no colour is moved on. *)
LEMMA UnallocatablePass ==
  ASSUME AInv, PInv, phase = "colour", NEW v \in heap, NEW found, found = Find(v),
         \/ Spill(v, found) \/ MarkCbSplit(v, found) \/ CbSplit(v, found)
         \/ InstrSplit(v, found) \/ PuntInsufficient(v, found)
  PROVE  PInv'
<1>1. /\ v \in DOMAIN vreg /\ VregOK(prog, vreg[v]) /\ vreg = [w \in DOMAIN vreg |-> vreg[w]]
  BY DEF AInv, QueueOK, GraphOK
<1>2. PICK m \in Nat : DOMAIN vreg = 1 .. m
  BY DEF AInv, GraphOK
<1>3. Max(DOMAIN vreg) = m
  BY <1>1, <1>2, TopFacts
<1>4. DOMAIN prog.def \subseteq DOMAIN vreg
  BY DEF AInv, GraphOK
<1>5. \A w \in DOMAIN vreg \ DOMAIN prog.def : vreg[w].spilled /\ vreg[w].split # "no"
  BY DEF PInv
<1>6. prog' = prog /\ pass' = pass /\ uncolored' = TRUE
  BY DEF Spill, MarkCbSplit, CbSplit, InstrSplit, PuntInsufficient, Unallocatable, Extract
<1>7. CASE Spill(v, found)
  <2> DEFINE pieces == [w \in {v} |-> Part(v, vreg[v].ref, "no", Raised(v))]
  <2>1. Replace(v, pieces) /\ ~ vreg[v].spilled
    BY <1>7 DEF Spill
  <2>2. DOMAIN pieces = {v} /\ pieces[v] = Part(v, vreg[v].ref, "no", Raised(v))
    OBVIOUS
  <2> HIDE DEF pieces
  <2>3. pieces[v].spilled /\ pieces[v].split = "no"
    BY <1>1, <2>2, PartFacts
  <2>4. /\ DOMAIN vreg' = DOMAIN vreg \cup DOMAIN pieces
        /\ \A x \in DOMAIN pieces : vreg'[x] = pieces[x]
        /\ \A w \in DOMAIN vreg \ DOMAIN pieces : vreg'[w] = vreg[w]
    BY <1>1, <2>1, PieceFields
  <2>5. /\ DOMAIN vreg' = DOMAIN vreg \cup {}
        /\ vreg'[v].spilled /\ vreg'[v].split = "no"
        /\ \A w \in DOMAIN vreg : w # v => vreg'[w] = vreg[w]
    BY <1>1, <2>2, <2>3, <2>4
  <2>6. vreg[v].split = "no"
    BY <1>1, <2>1 DEF VregOK
  <2>7. {} \cap DOMAIN vreg = {} /\ \A w \in {} : vreg'[w].spilled /\ vreg'[w].split # "no"
    OBVIOUS
  <2> QED BY ONLY AInv, PInv, <1>1, <1>6, <2>1, <2>5, <2>6, <2>7, OneMorePass
<1>8. CASE MarkCbSplit(v, found)
  <2>1. vreg[v].spilled /\ vreg[v].split = "no" /\ vreg' = MarkedIn(vreg, v)
    BY <1>8 DEF MarkCbSplit, MarkedIn
  <2> DEFINE vr2 == vreg'
  <2>2. vr2 = MarkedIn(vreg, v)
    BY <2>1
  <2> HIDE DEF vr2
  <2>3. /\ DOMAIN vr2 = DOMAIN vreg /\ vr2[v] = Marked(vreg[v])
        /\ \A w \in DOMAIN vreg : w # v => vr2[w] = vreg[w]
    BY ONLY <1>1, <2>2, MarkedInFacts
  <2>4. SpilledOK(prog, vreg[v])
    BY <1>1, <2>1 DEF SpilledOK
  <2>5. vr2[v].spilled = vreg[v].spilled /\ vr2[v].split = "cb"
    BY ONLY <2>3, <2>4, MarkedFacts
  <2>6. /\ DOMAIN vreg' = DOMAIN vreg \cup {}
        /\ vreg'[v].spilled /\ vreg'[v].split # "no"
        /\ \A w \in DOMAIN vreg : w # v => vreg'[w] = vreg[w]
    BY <2>1, <2>3, <2>5 DEF vr2
  <2>7. {} \cap DOMAIN vreg = {} /\ \A w \in {} : vreg'[w].spilled /\ vreg'[w].split # "no"
    OBVIOUS
  <2> QED BY ONLY AInv, PInv, <1>1, <1>6, <2>1, <2>6, <2>7, OneMorePass
<1>9. CASE CbSplit(v, found)
  <2> DEFINE top == Max(DOMAIN vreg)
             new == (top + 1) .. (top + (Cardinality(CbsOf(v)) - 1))
             In(n) == {i \in vreg[v].live : Rank(CbsOf(v), Cb(i)) = n}
             pieces == [p \in {v} \cup new |->
                          IF p = v THEN Part(v, In(0), "cb", Raised(v))
                          ELSE Part(v, In(p - top), "cb", Raised(v) + 1)]
  <2>1. Replace(v, pieces) /\ vreg[v].spilled /\ vreg[v].split = "no"
    BY <1>9 DEF CbSplit
  <2>2. DOMAIN pieces = {v} \cup new
    OBVIOUS
  <2>3. \A x \in {v} \cup new : \E n, pr : pieces[x] = Part(v, In(n), "cb", pr)
    OBVIOUS
  <2>4. \A n : In(n) \subseteq vreg[v].ref
    BY <1>1, <2>1 DEF VregOK
  <2>5. new \cap DOMAIN vreg = {}
    <3> DEFINE k == Cardinality(CbsOf(v)) - 1
    <3>1. new = (m + 1) .. (m + k)
      BY <1>3
    <3> HIDE DEF k, new
    <3> QED BY ONLY <1>2, <3>1, m \in Nat
  <2> HIDE DEF pieces, new, In
  <2>6. \A x \in {v} \cup new : pieces[x].spilled /\ pieces[x].split = "cb"
    <3> SUFFICES ASSUME NEW x \in {v} \cup new PROVE pieces[x].spilled /\ pieces[x].split = "cb"
      OBVIOUS
    <3>1. PICK n, pr : pieces[x] = Part(v, In(n), "cb", pr)
      BY <2>3
    <3>2. In(n) \subseteq vreg[v].ref
      BY <2>4
    <3> QED BY ONLY <1>1, <3>1, <3>2, PartFacts
  <2>7. /\ DOMAIN vreg' = DOMAIN vreg \cup DOMAIN pieces
        /\ \A x \in DOMAIN pieces : vreg'[x] = pieces[x]
        /\ \A w \in DOMAIN vreg \ DOMAIN pieces : vreg'[w] = vreg[w]
    BY <1>1, <2>1, PieceFields
  <2>8. /\ DOMAIN vreg' = DOMAIN vreg \cup new
        /\ \A w \in new : vreg'[w].spilled /\ vreg'[w].split # "no"
        /\ vreg'[v].spilled /\ vreg'[v].split # "no"
        /\ \A w \in DOMAIN vreg : w # v => vreg'[w] = vreg[w]
    BY <1>1, <2>2, <2>5, <2>6, <2>7
  <2> QED BY <1>1, <1>6, <2>1, <2>5, <2>8, OneMorePass
<1>10. CASE InstrSplit(v, found)
  <2> DEFINE new == Max(DOMAIN vreg) + 1
             here == Portion(v, found).range
             pieces == [p \in {v, new} |->
                          Part(v, IF p = v THEN here ELSE vreg[v].ref \ here, "instr", Raised(v))]
  <2>1. Replace(v, pieces)
    BY <1>10 DEF InstrSplit
  <2>2. StacksOK(found.stacks)
    BY <1>1, FindFinds DEF Found
  <2>3. here \subseteq vreg[v].ref
    BY <1>1, <2>2, PortionFacts
  <2> HIDE DEF here
  <2>4. DOMAIN pieces = {v, new}
    OBVIOUS
  <2>5. ASSUME NEW x \in {v, new} PROVE pieces[x].spilled /\ pieces[x].split = "instr"
    <3> DEFINE range == IF x = v THEN here ELSE vreg[v].ref \ here
    <3>1. pieces[x] = Part(v, range, "instr", Raised(v))
      OBVIOUS
    <3>2. range \subseteq vreg[v].ref
      BY <2>3
    <3> HIDE DEF range, pieces
    <3> QED BY ONLY <1>1, <3>1, <3>2, PartFacts
  <2> HIDE DEF pieces, new
  <2>6. /\ DOMAIN vreg' = DOMAIN vreg \cup DOMAIN pieces
        /\ \A x \in DOMAIN pieces : vreg'[x] = pieces[x]
        /\ \A w \in DOMAIN vreg \ DOMAIN pieces : vreg'[w] = vreg[w]
    BY <1>1, <2>1, PieceFields
  <2>7. v \in DOMAIN vreg' /\ vreg'[v].split = "instr"
    BY <2>4, <2>5, <2>6
  <2>8. \A w \in DOMAIN vreg' \ DOMAIN prog.def : vreg'[w].spilled /\ vreg'[w].split # "no"
    BY <1>5, <2>4, <2>5, <2>6
  <2> QED BY <1>6, <2>7, <2>8, SplitWithinStays
<1>11. CASE PuntInsufficient(v, found)
  <2>1. vreg' = vreg /\ vreg[v].split = "instr"
    BY <1>11 DEF PuntInsufficient, Insufficient, graph
  <2> QED BY <1>1, <1>5, <1>6, <2>1, SplitWithinStays
<1> QED BY <1>7, <1>8, <1>9, <1>10, <1>11

(* Before the first split within a control block at most two passes fail   *)
(* for each register of the function (r_regalloc.c:3083).                  *)
THEOREM PassesEnd == Spec => []PassesAreBounded
<1>1. Init => PInv
  BY InitialPass
<1>2. AInv /\ PInv /\ [Next]_vars => PInv'
  <2> SUFFICES ASSUME AInv, PInv, [Next]_vars PROVE PInv'
    OBVIOUS
  <2>1. CASE UNCHANGED <<prog, vreg, pass, uncolored>>
    BY <2>1 DEF PInv
  <2>2. CASE ColourNext
    <3>1. PICK v \in HeapTop :
            /\ phase = "colour"
            /\ \/ SkipUnconstrained(v)
               \/ Colour(v, Find(v)) \/ Spill(v, Find(v)) \/ MarkCbSplit(v, Find(v))
               \/ CbSplit(v, Find(v)) \/ InstrSplit(v, Find(v))
               \/ PuntInsufficient(v, Find(v))
      BY <2>2 DEF ColourNext
    <3>2. v \in heap /\ v \in DOMAIN vreg
      BY DEF HeapTop, AInv, QueueOK
    <3>3. CASE SkipUnconstrained(v)
      BY <2>1, <3>3 DEF SkipUnconstrained, Extract, graph
    <3>4. CASE Colour(v, Find(v))
      <4>1. /\ Find(v).reg # None
            /\ vreg' = [vreg EXCEPT ![v].base = Find(v).reg, ![v].rclass = Find(v).rclass]
            /\ UNCHANGED <<prog, intf, pass, uncolored>>
        BY <3>4 DEF Colour, Extract
      <4> QED BY <3>2, <4>1, ColourPass
    <3> QED BY <3>1, <3>2, <3>3, <3>4, UnallocatablePass
  <2>3. CASE ColourUnconstrained
    <3> DEFINE v == Last(unconstrained)
    <3>1. /\ UNCHANGED <<prog, intf, pass, uncolored>> /\ unconstrained # <<>>
          /\ \/ /\ Find(v).reg # None
                /\ vreg' = [vreg EXCEPT ![v].base = Find(v).reg, ![v].rclass = Find(v).rclass]
             \/ vreg' = vreg
      BY <2>3 DEF ColourUnconstrained
    <3>2. v \in DOMAIN vreg
      BY <3>1, FrontFacts DEF AInv, QueueOK
    <3> HIDE DEF v
    <3> QED BY <2>1, <3>1, <3>2, ColourPass
  <2>4. CASE PruneGraph \/ AllColoured \/ Finish \/ Stop \/ UNCHANGED vars
    BY <2>1, <2>4 DEF PruneGraph, AllColoured, Finish, Stop, graph, vars
  <2> QED BY <2>2, <2>3, <2>4, RestartPass DEF Next
<1>3. AInv /\ PInv => PassesAreBounded
  <2> SUFFICES ASSUME AInv, PInv, \A v \in DOMAIN vreg : vreg[v].split # "instr"
               PROVE  pass <= 1 + 2 * Cardinality(DOMAIN prog.def)
    BY DEF PassesAreBounded
  <2> DEFINE a == Cardinality(SpilledOf(prog, vreg))
             b == Cardinality(SplitOf(prog, vreg))
             d == Cardinality(DOMAIN prog.def)
  <2>1. a \in Nat /\ b \in Nat /\ d \in Nat /\ a <= d /\ b <= d
    BY CountFacts DEF AInv
  <2>2. pass \in Nat /\ Passes(pass, uncolored) <= 1 + a + b
    BY DEF PInv, SplitWithin
  <2> HIDE DEF a, b, d
  <2>3. pass <= 1 + a + b
    BY <2>1, <2>2 DEF Passes
  <2>4. pass <= 1 + 2 * d
    BY ONLY <2>1, <2>2, <2>3
  <2> QED BY <2>4 DEF d
<1> QED BY <1>1, <1>2, <1>3, AllocatorInvariant, PTL DEF Spec

-----------------------------------------------------------------------------
(* Unconstrained registers.                                                *)

(* The premise of UnconstrainedAreColoured. *)
OnlySinglesHaveIllegal ==
  \A v \in DOMAIN prog.def : Size[prog.type[v]] = 1 \/ prog.illegal[v] = {}

(* While no register has failed, what is not yet coloured has no place,    *)
(* and the stack is as it was pruned.                                      *)
Colouring == phase = "unconstrained" \/ (phase = "colour" /\ ~ uncolored)
UInv ==
  /\ phase = "prune" => \A v \in DOMAIN vreg : vreg[v].base = None
  /\ Colouring => /\ \A v \in ToSet(unconstrained) : vreg[v].base = None
                  /\ PrunedOK(vreg, intf, unconstrained)
  /\ UnconstrainedAreColoured

(* What is below the last register of a stack is on it. *)
LEMMA FrontSubset ==
  ASSUME NEW D, NEW s \in Seq(D), s # <<>>
  PROVE  ToSet(Front(s)) \subseteq ToSet(s)
<1>1. Len(s) \in Nat /\ Len(s) >= 1 /\ DOMAIN s = 1 .. Len(s)
  OBVIOUS
<1> DEFINE n == Len(s) - 1
           t == Front(s)
<1>2. n \in Nat /\ Len(s) = n + 1 /\ t = SubSeq(s, 1, n)
  BY <1>1 DEF Front
<1> HIDE DEF n, t
<1>3. t \in Seq(D) /\ Len(t) = n /\ \A i \in 1 .. n : t[i] = s[i]
  BY <1>2
<1>4. DOMAIN t = 1 .. n
  BY <1>3
<1>5. ToSet(t) \subseteq ToSet(s)
  BY <1>1, <1>2, <1>3, <1>4 DEF ToSet
<1> QED BY <1>5 DEF t

(* A register finds a colour if its illegal registers and its neighbours   *)
(* that have one cannot take every unit.                                   *)
LEMMA FindsAColour ==
  ASSUME SizesAreOneOrTwo, AInv, NEW v \in DOMAIN vreg,
         NEW N, N = {x \in intf[v] : vreg[x].base # None}, IsFiniteSet(N),
         IsFiniteSet(vreg[v].illegal), Size[vreg[v].type] = 1 \/ vreg[v].illegal = {},
         vreg[v].rclass \in Classes, ~ (vreg[v].benefit[Other(vreg[v].rclass)] < 0),
         Cardinality(vreg[v].illegal) + MaxSize * Cardinality(N)
           < Units["caller"] + Units["callee"]
  PROVE  Find(v).reg # None
<1> DEFINE r == vreg[v]
           reserved == Reserved(v, intf[v])
<1>4. GraphOK(prog, vreg, intf) /\ ColoursOK(vreg, intf) /\ StacksOK(stacks)
  BY DEF AInv
<1>5. r.type \in Types /\ intf[v] \subseteq DOMAIN vreg
  BY <1>4 DEF GraphOK, VregOK
<1>6. /\ IsFiniteSet(N) /\ IsFiniteSet(r.illegal) /\ (Size[r.type] = 1 \/ r.illegal = {})
      /\ r.rclass \in Classes /\ ~ (r.benefit[Other(r.rclass)] < 0)
      /\ Cardinality(r.illegal) + MaxSize * Cardinality(N) < Units["caller"] + Units["callee"]
  OBVIOUS
<1> DEFINE ty == [w \in N |-> vreg[w].type]
           at == [w \in N |-> vreg[w].base]
<1>10. \A w \in N : /\ ty[w] = vreg[w].type /\ at[w] = vreg[w].base
                    /\ ty[w] \in Types
                    /\ \E c \in Classes : at[w] \in ToSet(Registers(ty[w], c))
  <2> SUFFICES ASSUME NEW w \in N
               PROVE  /\ ty[w] = vreg[w].type /\ at[w] = vreg[w].base
                      /\ ty[w] \in Types
                      /\ \E c \in Classes : at[w] \in ToSet(Registers(ty[w], c))
    OBVIOUS
  <2>1. w \in DOMAIN vreg /\ vreg[w].base # None
    BY <1>5
  <2>2. VregOK(prog, vreg[w]) /\ PlaceOK(vreg[w])
    BY <1>4, <2>1 DEF GraphOK, ColoursOK
  <2>3. /\ vreg[w].type \in Types /\ vreg[w].rclass \in Classes
        /\ vreg[w].base \in ToSet(Registers(vreg[w].type, vreg[w].rclass))
    BY <2>1, <2>2 DEF VregOK, PlaceOK
  <2>4. ty[w] = vreg[w].type /\ at[w] = vreg[w].base
    OBVIOUS
  <2> HIDE DEF ty, at
  <2> QED BY <2>3, <2>4
<1>11. \A x \in reserved :
         x \in r.illegal \/ \E w \in N : x \in UnitsOf(vreg[w].type, vreg[w].base)
  BY DEF Reserved
<1> HIDE DEF reserved, ty, at, r
<1>12. \A x \in reserved : x \in r.illegal \/ \E w \in N : x \in UnitsOf(ty[w], at[w])
  BY <1>10, <1>11
<1>13. \E c \in Classes : \E q \in ToSet(Registers(r.type, c)) :
         UnitsOf(r.type, q) \cap reserved = {}
  BY <1>5, <1>6, <1>10, <1>12, SomeRegisterIsFree
<1>14. R_find_free_register(stacks, r, reserved).reg # None
  <2> SUFFICES ASSUME R_find_free_register(stacks, r, reserved).reg = None PROVE FALSE
    OBVIOUS
  <2>1. \A c \in Classes : \A q \in ToSet(Registers(r.type, c)) :
          UnitsOf(r.type, q) \cap reserved # {}
    BY <1>4, <1>5, <1>6, FindIsComplete
  <2> QED BY <1>13, <2>1
<1> QED BY <1>14 DEF Find, r, reserved

(* The count grows with the number of neighbours. *)
LEMMA FewerNeighbours ==
  ASSUME NEW t \in Types, NEW I, IsFiniteSet(I), NEW N, IsFiniteSet(N), NEW M, IsFiniteSet(M),
         Cardinality(N) <= Cardinality(M),
         Cardinality(I) + MaxSize * Cardinality(M) < Units["caller"] + Units["callee"]
  PROVE  Cardinality(I) + MaxSize * Cardinality(N) < Units["caller"] + Units["callee"]
<1> DEFINE a == Cardinality(N)
           b == Cardinality(M)
           i == Cardinality(I)
<1>1. a \in Nat /\ b \in Nat /\ a <= b /\ i \in Nat
  BY FS_CardinalityType
<1>2. MaxSize \in Nat /\ Units["caller"] \in Nat /\ Units["callee"] \in Nat
  BY SizeFacts, FileFacts
<1>3. i + MaxSize * b < Units["caller"] + Units["callee"]
  OBVIOUS
<1> HIDE DEF a, b, i
<1> DEFINE x == MaxSize * a
           y == MaxSize * b
<1>4. x \in Nat /\ y \in Nat /\ x <= y
  BY <1>1, <1>2
<1>5. i + y < Units["caller"] + Units["callee"]
  BY <1>3
<1> HIDE DEF x, y
<1>6. i + x < Units["caller"] + Units["callee"]
  BY ONLY <1>1, <1>2, <1>4, <1>5
<1> QED BY <1>6 DEF x, a, i

(* The last register of the stack finds a colour: of its neighbours only   *)
(* those that were not below it have one.                                  *)
LEMMA LastFindsAColour ==
  ASSUME SizesAreOneOrTwo, AInv, UInv, OnlySinglesHaveIllegal,
         phase = "unconstrained", unconstrained # <<>>
  PROVE  Find(Last(unconstrained)).reg # None
<1> DEFINE v == Last(unconstrained)
           r == vreg[v]
           P == ToSet(Front(unconstrained))
           N == {x \in intf[v] : vreg[x].base # None}
<1>1. unconstrained \in Seq(DOMAIN vreg)
  BY DEF AInv, QueueOK
<1>2. /\ v \in DOMAIN vreg
      /\ Fits(vreg, intf, v, P)
  BY <1>1, FrontFacts, FrontPruned DEF UInv, Colouring
<1>3. \A x \in P : vreg[x].base = None
  <2>1. P \subseteq ToSet(unconstrained)
    BY <1>1, FrontSubset
  <2> QED BY <2>1 DEF UInv, Colouring
<1> HIDE DEF P
<1>4. /\ GraphOK(prog, vreg, intf) /\ ColoursOK(vreg, intf) /\ StacksOK(stacks)
      /\ IsFunctionToCompile(prog)
  BY DEF AInv
<1>5. VregOK(prog, r) /\ intf[v] \subseteq DOMAIN vreg
  BY <1>2, <1>4 DEF GraphOK
<1>6. /\ r.type \in Types /\ IsFiniteSet(r.illegal) /\ (Size[r.type] = 1 \/ r.illegal = {})
  <2>1. r.root \in DOMAIN prog.def /\ r.type = prog.type[r.root] /\ r.type \in Types
        /\ r.illegal = prog.illegal[r.root]
    BY <1>5 DEF VregOK
  <2>2. IsFiniteSet(prog.illegal[r.root])
    BY <1>4, <2>1 DEF IsFunctionToCompile
  <2> HIDE DEF r
  <2> QED BY <2>1, <2>2 DEF OnlySinglesHaveIllegal
<1>7. /\ r.rclass \in Classes /\ ~ (r.benefit[Other(r.rclass)] < 0)
  <2>1. \A c \in Classes : r.benefit[c] >= 0
    BY <1>2 DEF Fits
  <2>2. "caller" \in Classes /\ \A c \in Classes : Other(c) \in Classes
    BY DEF Classes, Other
  <2>3. r.rclass \in Classes
    <3> SUFFICES ASSUME r.benefit["caller"] < 0 PROVE FALSE
      BY <1>5 DEF VregOK
    <3>1. r.benefit["caller"] >= 0
      BY <2>1, <2>2
    <3>2. r.benefit["caller"] \in Int
      BY <1>5 DEF VregOK
    <3> HIDE DEF r
    <3> QED BY <3>1, <3>2
  <2>4. r.benefit[Other(r.rclass)] >= 0
    BY <2>1, <2>2, <2>3
  <2>5. r.benefit["caller"] \in Int /\ r.benefit["callee"] \in Int
    BY <1>5 DEF VregOK
  <2>6. r.benefit[Other(r.rclass)] \in Int
    BY <2>3, <2>5 DEF Other, Classes
  <2> DEFINE b == r.benefit[Other(r.rclass)]
  <2>7. ~ (b < 0)
    <3> HIDE DEF r
    <3>1. b >= 0 /\ b \in Int
      BY <2>4, <2>6
    <3> HIDE DEF b
    <3> QED BY <3>1
  <2> QED BY <2>3, <2>7
<1>8. /\ N \subseteq intf[v] \ P /\ IsFiniteSet(N) /\ IsFiniteSet(intf[v] \ P)
      /\ Cardinality(N) <= Cardinality(intf[v] \ P)
  <2>1. N \subseteq intf[v] \ P
    BY <1>3
  <2>2. IsFiniteSet(DOMAIN vreg)
    BY <1>4, FS_Interval DEF GraphOK
  <2>3. IsFiniteSet(intf[v] \ P)
    <3>1. intf[v] \ P \subseteq DOMAIN vreg
      BY <1>5
    <3> QED BY <2>2, <3>1, FS_Subset
  <2> HIDE DEF N
  <2> QED BY <2>1, <2>3, FS_Subset
<1>9. Cardinality(r.illegal) + MaxSize * Cardinality(N) < Units["caller"] + Units["callee"]
  <2>1. Cardinality(r.illegal) + MaxSize * Cardinality(intf[v] \ P)
          < Units["caller"] + Units["callee"]
    BY <1>2 DEF Fits, TotalUnits
  <2> HIDE DEF N, r
  <2> QED BY <1>6, <1>8, <2>1, FewerNeighbours
<1>10. IsFiniteSet(r.illegal) /\ (Size[r.type] = 1 \/ r.illegal = {})
  BY <1>6
<1> HIDE DEF N
<1> QED BY <1>2, <1>7, <1>8, <1>9, <1>10, FindsAColour DEF N

(* A step that leaves the phases of a pass that has not failed. *)
LEMMA NotColouring ==
  ASSUME phase' \notin {"prune", "no register for unconstrained"}, ~ Colouring'
  PROVE  UInv'
BY DEF UInv, UnconstrainedAreColoured

(* Pruning begins when no register has a place. *)
LEMMA PrunePruned ==
  ASSUME AInv, UInv, PruneGraph
  PROVE  UInv'
<1>1. /\ phase = "prune" /\ phase' = "colour" /\ vreg' = vreg /\ intf' = intf
      /\ unconstrained' = Pruned \/ unconstrained' = <<>>
  BY DEF PruneGraph, graph
<1> DEFINE s == unconstrained'
<1>2. s \in Seq(DOMAIN vreg) /\ PrunedOK(vreg, intf, s)
  <2>1. <<>> \in Seq(DOMAIN vreg) /\ Len(<<>>) = 0
    OBVIOUS
  <2>2. PrunedOK(vreg, intf, <<>>)
    BY <2>1 DEF PrunedOK
  <2> QED BY <1>1, <2>1, <2>2, PrunedFacts
<1>3. \A v \in DOMAIN vreg : vreg[v].base = None
  BY <1>1 DEF UInv
<1> HIDE DEF s
<1>4. \A v \in ToSet(s) : vreg[v].base = None
  <2>1. \A k \in DOMAIN s : s[k] \in DOMAIN vreg
    BY ONLY <1>2
  <2> QED BY <1>3, <2>1 DEF ToSet
<1>5. \A v \in ToSet(unconstrained') : vreg'[v].base = None
  BY <1>1, <1>4 DEF s
<1>6. PrunedOK(vreg', intf', unconstrained')
  BY <1>1, <1>2 DEF s
<1>7. phase' # "prune" /\ phase' # "no register for unconstrained"
  BY <1>1
<1> QED BY <1>5, <1>6, <1>7 DEF UInv, UnconstrainedAreColoured

(* Colouring v leaves the others where they are. *)
LEMMA ColourPruned ==
  ASSUME AInv, NEW v \in DOMAIN vreg, NEW found, found = Find(v), found.reg # None,
         vreg' = [vreg EXCEPT ![v].base = found.reg, ![v].rclass = found.rclass],
         intf' = intf, prog' = prog,
         NEW s \in Seq(DOMAIN vreg), v \notin ToSet(s), PrunedOK(vreg, intf, s),
         \A w \in ToSet(s) : vreg[w].base = None
  PROVE  /\ PrunedOK(vreg', intf, s)
         /\ \A w \in ToSet(s) : vreg'[w].base = None
<1> DEFINE vr2 == vreg'
<1>1. /\ vr2[v].benefit = vreg[v].benefit /\ vr2[v].illegal = vreg[v].illegal
      /\ \A w \in DOMAIN vreg : w # v => vr2[w] = vreg[w]
  BY ColourKeepsColours
<1> HIDE DEF vr2
<1>2. \A w \in DOMAIN vreg : vr2[w].benefit = vreg[w].benefit /\ vr2[w].illegal = vreg[w].illegal
  BY <1>1
<1> DEFINE D == DOMAIN vreg
<1>3. s \in Seq(D) /\ PrunedOK(vreg, intf, s)
      /\ \A w \in D : vr2[w].benefit = vreg[w].benefit /\ vr2[w].illegal = vreg[w].illegal
  BY <1>2
<1>4. ToSet(s) \subseteq D
  <2>1. \A k \in DOMAIN s : s[k] \in D
    BY ONLY <1>3
  <2> QED BY <2>1 DEF ToSet
<1>5. \A w \in ToSet(s) : vr2[w].base = None
  BY <1>1, <1>4
<1> HIDE DEF D
<1>6. PrunedOK(vr2, intf, s)
  BY ONLY <1>3, SamePruned
<1> QED BY <1>5, <1>6 DEF vr2

(* A new pass begins with no register in a place. *)
LEMMA RestartPruned ==
  ASSUME AInv, Restart
  PROVE  UInv'
<1>1. \A v \in DOMAIN vreg : VregOK(prog, vreg[v])
  BY DEF AInv, GraphOK
<1>0. DOMAIN vreg = shadow
  BY DEF AInv, QueueOK, Restart
<1> DEFINE cls(v) == IF vreg[v].benefit.caller >= vreg[v].benefit.callee
                     THEN "caller" ELSE "callee"
           vr2 == vreg'
<1>2. vr2 = [v \in DOMAIN vreg |->
               IF v \in shadow THEN Placed(vreg[v], None, cls(v)) ELSE vreg[v]]
  BY DEF Restart, Placed
<1>3. \A v \in DOMAIN vreg : cls(v) \in Classes
  BY DEF Classes
<1> HIDE DEF cls, vr2
<1>4. \A v \in DOMAIN vreg : LET q == Placed(vreg[v], None, cls(v)) IN q.base = None
  BY ONLY <1>1, <1>3, WithPlace
<1>5. \A v \in DOMAIN vr2 : vr2[v].base = None
  BY ONLY <1>0, <1>2, <1>4
<1>6. phase' = "prune"
  BY DEF Restart
<1>7. ~ Colouring' /\ phase' # "no register for unconstrained"
  BY <1>6 DEF Colouring
<1> QED BY <1>5, <1>7 DEF UInv, UnconstrainedAreColoured, vr2

(* The last register of the stack is coloured. *)
LEMMA ColourUnconstrainedPruned ==
  ASSUME SizesAreOneOrTwo, AInv, UInv, ColourUnconstrained
  PROVE  UInv'
<1> DEFINE v == Last(unconstrained)
           s == Front(unconstrained)
<1>1. /\ phase = "unconstrained" /\ unconstrained # <<>> /\ unconstrained' = s
      /\ prog' = prog /\ intf' = intf
      /\ \/ /\ Find(v).reg # None
            /\ vreg' = [vreg EXCEPT ![v].base = Find(v).reg, ![v].rclass = Find(v).rclass]
            /\ phase' = phase
         \/ Find(v).reg = None /\ phase' = "no register for unconstrained"
  BY DEF ColourUnconstrained
<1>2. /\ unconstrained \in Seq(DOMAIN vreg) /\ PrunedOK(vreg, intf, unconstrained)
      /\ \A w \in ToSet(unconstrained) : vreg[w].base = None
  BY <1>1 DEF AInv, QueueOK, UInv, Colouring
<1>3. v \in DOMAIN vreg /\ s \in Seq(DOMAIN vreg)
  BY <1>1, <1>2, FrontFacts
<1>4. v \notin ToSet(s) /\ PrunedOK(vreg, intf, s)
  BY <1>1, <1>2, FrontPruned
<1>5. \A w \in ToSet(s) : vreg[w].base = None
  BY <1>1, <1>2, FrontSubset
<1>6. CASE Find(v).reg # None
  <2>1. /\ vreg' = [vreg EXCEPT ![v].base = Find(v).reg, ![v].rclass = Find(v).rclass]
        /\ phase' = "unconstrained"
    BY <1>1, <1>6
  <2> HIDE DEF v, s
  <2>2. PrunedOK(vreg', intf, s) /\ \A w \in ToSet(s) : vreg'[w].base = None
    BY <1>1, <1>3, <1>4, <1>5, <1>6, <2>1, ColourPruned
  <2>3. phase' # "prune" /\ phase' # "no register for unconstrained"
    BY <2>1
  <2> QED BY <1>1, <2>2, <2>3 DEF UInv, UnconstrainedAreColoured
<1>7. CASE Find(v).reg = None
  <2>1. ~ OnlySinglesHaveIllegal
    BY <1>1, <1>7, LastFindsAColour
  <2>2. ~ OnlySinglesHaveIllegal'
    BY <1>1, <2>1 DEF OnlySinglesHaveIllegal
  <2>3. UnconstrainedAreColoured'
    BY <2>2 DEF UnconstrainedAreColoured, OnlySinglesHaveIllegal
  <2>4. phase' # "prune" /\ ~ Colouring'
    BY <1>1, <1>7 DEF Colouring
  <2> QED BY <2>3, <2>4 DEF UInv
<1> QED BY <1>6, <1>7

(* Every unconstrained register finds a colour, when the registers that    *)
(* may not use some physical register take one unit: what is pruned last   *)
(* is coloured first, against no more neighbours than it was counted with  *)
(* (R_allocate_unconstrained_virtual_registers punts otherwise).           *)
THEOREM UnconstrainedGetColours ==
  ASSUME SizesAreOneOrTwo
  PROVE  Spec => []UnconstrainedAreColoured
<1>1. Init => UInv
  <2> SUFFICES ASSUME Init PROVE UInv
    OBVIOUS
  <2>1. phase = "prune" /\ \A v \in DOMAIN vreg : vreg[v].base = None
    BY DEF Init, NewVreg
  <2> QED BY <2>1 DEF UInv, Colouring, UnconstrainedAreColoured
<1>2. AInv /\ UInv /\ [Next]_vars => UInv'
  <2> SUFFICES ASSUME AInv, UInv, [Next]_vars PROVE UInv'
    OBVIOUS
  <2>1. CASE ColourNext
    <3>1. PICK v \in HeapTop :
            /\ phase = "colour"
            /\ \/ SkipUnconstrained(v)
               \/ /\ v \notin ToSet(unconstrained)
                  /\ \/ Colour(v, Find(v)) \/ Spill(v, Find(v)) \/ MarkCbSplit(v, Find(v))
                     \/ CbSplit(v, Find(v)) \/ InstrSplit(v, Find(v))
                     \/ PuntInsufficient(v, Find(v))
      BY <2>1 DEF ColourNext
    <3>2. v \in DOMAIN vreg
      BY DEF HeapTop, AInv, QueueOK
    <3>3. CASE SkipUnconstrained(v)
      BY <3>3 DEF SkipUnconstrained, Extract, graph, UInv, Colouring, UnconstrainedAreColoured
    <3>4. CASE v \notin ToSet(unconstrained) /\ Colour(v, Find(v))
      <4>1. /\ Find(v).reg # None
            /\ vreg' = [vreg EXCEPT ![v].base = Find(v).reg, ![v].rclass = Find(v).rclass]
            /\ UNCHANGED <<prog, intf, uncolored, phase, unconstrained>>
        BY <3>4 DEF Colour, Extract
      <4>2. phase' # "prune" /\ phase' # "no register for unconstrained"
        BY <3>1, <4>1
      <4>3. CASE uncolored
        <5>1. ~ Colouring'
          BY <3>1, <4>1, <4>3 DEF Colouring
        <5> QED BY <4>2, <5>1, NotColouring
      <4>4. CASE ~ uncolored
        <5>1. /\ unconstrained \in Seq(DOMAIN vreg) /\ PrunedOK(vreg, intf, unconstrained)
              /\ \A w \in ToSet(unconstrained) : vreg[w].base = None
          BY <3>1, <4>4 DEF AInv, QueueOK, UInv, Colouring
        <5>2. /\ PrunedOK(vreg', intf, unconstrained)
              /\ \A w \in ToSet(unconstrained) : vreg'[w].base = None
          BY <3>2, <3>4, <4>1, <5>1, ColourPruned
        <5> QED BY <4>1, <4>2, <5>2 DEF UInv, UnconstrainedAreColoured
      <4> QED BY <4>3, <4>4
    <3>5. CASE \/ Spill(v, Find(v)) \/ MarkCbSplit(v, Find(v)) \/ CbSplit(v, Find(v))
               \/ InstrSplit(v, Find(v)) \/ PuntInsufficient(v, Find(v))
      <4>1. uncolored' = TRUE /\ phase' \in {phase, "insufficient registers"}
        BY <3>5 DEF Spill, MarkCbSplit, CbSplit, InstrSplit, PuntInsufficient, Unallocatable
      <4>2. phase' \notin {"prune", "no register for unconstrained"} /\ ~ Colouring'
        BY <3>1, <4>1 DEF Colouring
      <4> QED BY <4>2, NotColouring
    <3> QED BY <3>1, <3>3, <3>4, <3>5
  <2>2. CASE AllColoured
    BY <2>2 DEF AllColoured, graph, UInv, Colouring, UnconstrainedAreColoured
  <2>3. CASE Finish
    <3>1. phase' \notin {"prune", "no register for unconstrained"} /\ ~ Colouring'
      BY <2>3 DEF Finish, Colouring
    <3> QED BY <3>1, NotColouring
  <2>4. CASE Stop \/ UNCHANGED vars
    BY <2>4 DEF Stop, vars, UInv, Colouring, UnconstrainedAreColoured
  <2> QED BY <2>1, <2>2, <2>3, <2>4, PrunePruned, RestartPruned, ColourUnconstrainedPruned DEF Next
<1>3. UInv => UnconstrainedAreColoured
  BY DEF UInv
<1> QED BY <1>1, <1>2, <1>3, AllocatorInvariant, PTL DEF Spec

-----------------------------------------------------------------------------
(* Spills make room.                                                       *)

(* A spilled register r is above every neighbour q that is not spilled,    *)
(* and meets each of its neighbours.                                       *)
Pressed(r, q) ==
  r.spilled => r.live \cap q.live # {} /\ (q.spilled \/ q.priority < r.priority)
RoomOK(vr, arcs) ==
  /\ \A v \in DOMAIN vr : /\ vr[v].priority \in Int
                          /\ vr[v].spilled => vr[v].benefit = SpillBenefit
  /\ \A v \in DOMAIN vr : \A x \in arcs[v] : Pressed(vr[v], vr[x])

(* While a spilled register r is still to be coloured, its neighbours that *)
(* have a colour are spilled too.                                          *)
Yields(r, q) == r.spilled /\ q.base # None => q.spilled
YieldOK(vr, arcs, todo) == \A v \in todo : \A x \in arcs[v] : Yields(vr[v], vr[x])

RInv ==
  /\ RoomOK(vreg, intf)
  /\ YieldOK(vreg, intf, heap)
  /\ phase = "unconstrained" => heap = {}
  /\ SpillsMakeRoom

(* The greatest of finitely many priorities. *)
LEMMA HighestPriority ==
  ASSUME NEW S, IsFiniteSet(S), S # {}, NEW f, \A x \in S : f[x] \in Int
  PROVE  \E x \in S : \A y \in S : f[y] <= f[x]
<1> DEFINE T == {n \in Nat : \A R \in SUBSET S :
                   IsFiniteSet(R) /\ Cardinality(R) = n /\ R # {} =>
                     \E x \in R : \A y \in R : f[y] <= f[x]}
<1>1. 0 \in T
  BY FS_EmptySet
<1>2. ASSUME NEW n \in T PROVE n + 1 \in T
  <2> SUFFICES ASSUME NEW R \in SUBSET S, IsFiniteSet(R), Cardinality(R) = n + 1, R # {}
               PROVE  \E x \in R : \A y \in R : f[y] <= f[x]
    OBVIOUS
  <2>1. PICK a \in R : TRUE
    OBVIOUS
  <2>2. IsFiniteSet(R \ {a}) /\ Cardinality(R \ {a}) = n
    <3>1. IsFiniteSet(R \ {a}) /\ Cardinality(R \ {a}) = Cardinality(R) - 1
      BY <2>1, FS_RemoveElement
    <3>2. n \in Nat
      OBVIOUS
    <3> QED BY <3>1, <3>2
  <2>3. CASE R \ {a} = {}
    <3>1. f[a] \in Int /\ \A y \in R : y = a
      BY <2>1, <2>3
    <3> QED BY <2>1, <3>1
  <2>4. CASE R \ {a} # {}
    <3>0. R \ {a} \in SUBSET S /\ n \in T
      OBVIOUS
    <3>1. PICK x \in R \ {a} : \A y \in R \ {a} : f[y] <= f[x]
      BY <2>2, <2>4, <3>0
    <3>2. \A y \in R : f[y] \in Int
      OBVIOUS
    <3>3. CASE f[x] <= f[a]
      BY <2>1, <3>1, <3>2, <3>3
    <3>4. CASE ~ (f[x] <= f[a])
      BY <2>1, <3>1, <3>2, <3>4
    <3> QED BY <3>3, <3>4
  <2> QED BY <2>3, <2>4
<1>3. T = Nat
  <2>1. T \in SUBSET Nat
    OBVIOUS
  <2> HIDE DEF T
  <2> QED BY <1>1, <1>2, <2>1, SetInduction
<1>4. Cardinality(S) \in Nat
  BY FS_CardinalityType
<1> QED BY <1>3, <1>4

(* The raised priority is above those of the neighbours. *)
LEMMA RaisedFacts ==
  ASSUME AInv, RoomOK(vreg, intf), NEW v \in DOMAIN vreg
  PROVE  Raised(v) \in Int /\ \A y \in intf[v] : vreg[y].priority < Raised(v)
<1> DEFINE S == intf[v] \cup {v}
           f == [w \in S |-> vreg[w].priority]
           P == {vreg[w].priority : w \in S}
<1>1. S \subseteq DOMAIN vreg /\ IsFiniteSet(DOMAIN vreg)
  BY FS_Interval DEF AInv, GraphOK
<1>2. IsFiniteSet(S) /\ S # {}
  BY <1>1, FS_Subset
<1>3. \A w \in S : f[w] = vreg[w].priority /\ f[w] \in Int
  BY <1>1 DEF RoomOK
<1>4. Raised(v) = 1 + Max(P)
  BY DEF Raised
<1>5. \A w \in intf[v] : w \in S
  OBVIOUS
<1> HIDE DEF f, S
<1>6. PICK x \in S : \A y \in S : f[y] <= f[x]
  BY <1>2, <1>3, HighestPriority
<1>7. \E m \in P : \A y \in P : m >= y
  BY <1>3, <1>6
<1>8. Max(P) \in P /\ \A y \in P : Max(P) >= y
  BY <1>7 DEF Max
<1> DEFINE m == Max(P)
<1>9. m \in Int /\ \A w \in S : vreg[w].priority <= m /\ vreg[w].priority \in Int
  BY <1>3, <1>8
<1> HIDE DEF m, P
<1>10. Raised(v) = 1 + m
  BY <1>4 DEF m
<1> QED BY ONLY <1>5, <1>9, <1>10

(* Steps that move no register and change no arc. *)
LEMMA SameRoom ==
  ASSUME NEW vr, NEW arcs, RoomOK(vr, arcs), NEW vr2, DOMAIN vr2 = DOMAIN vr,
         \A w \in DOMAIN vr : arcs[w] \subseteq DOMAIN vr,
         \A w \in DOMAIN vr : /\ vr2[w].spilled = vr[w].spilled /\ vr2[w].live = vr[w].live
                              /\ vr2[w].priority = vr[w].priority
                              /\ vr2[w].benefit = vr[w].benefit
  PROVE  RoomOK(vr2, arcs)
<1>1. \A v \in DOMAIN vr : \A x \in arcs[v] : Pressed(vr2[v], vr2[x])
  <2> SUFFICES ASSUME NEW v \in DOMAIN vr, NEW x \in arcs[v] PROVE Pressed(vr2[v], vr2[x])
    OBVIOUS
  <2>1. Pressed(vr[v], vr[x]) /\ x \in DOMAIN vr
    BY DEF RoomOK
  <2> QED BY <2>1 DEF Pressed
<1> QED BY <1>1 DEF RoomOK

(* The pieces that take the place of v are above the neighbours they keep. *)
IsRaisedPart(v, q) ==
  \E range, split, pr :
    /\ range \subseteq vreg[v].ref /\ pr \in Int
    /\ \A y \in intf[v] : vreg[y].priority < pr
    /\ q = Part(v, range, split, pr)

(* A spill or split keeps the order of priorities. *)
LEMMA DividedRoom ==
  ASSUME AInv, RoomOK(vreg, intf), YieldOK(vreg, intf, heap), heap \subseteq DOMAIN vreg,
         NEW v \in DOMAIN vreg, NEW pieces, Replace(v, pieces), v \in DOMAIN pieces,
         \A x \in DOMAIN pieces : x = v \/ x \notin DOMAIN vreg,
         \A x \in DOMAIN pieces : IsRaisedPart(v, pieces[x])
  PROVE  RoomOK(vreg', intf') /\ YieldOK(vreg', intf', heap \ {v})
<1> DEFINE vr2 == Replaced(vreg, pieces)
           arcs2 == Rewired(vreg, intf, v, pieces)
           P == DOMAIN pieces
           D == DOMAIN vreg
<1>1. vreg' = vr2 /\ intf' = arcs2
  BY ReplaceIs
<1>2. /\ DOMAIN vr2 = D \cup P
      /\ \A x \in P : vr2[x] = pieces[x]
      /\ \A w \in D \ P : vr2[w] = vreg[w]
  BY DEF Replaced
<1>3. /\ \A w \in P : arcs2[w] = {x \in intf[v] : pieces[w].live \cap vreg[x].live # {}}
      /\ \A w \in D \ P :
           arcs2[w] = (intf[w] \ {v}) \cup
                      {x \in P : w \in intf[v] /\ pieces[x].live \cap vreg[w].live # {}}
  BY DEF Rewired
<1>4. \A w \in D : VregOK(prog, vreg[w]) /\ intf[w] \subseteq D \ {w}
  BY DEF AInv, GraphOK
<1>5. /\ v \in D /\ v \in P /\ heap \subseteq D
      /\ \A x \in P : x = v \/ x \notin D
  OBVIOUS
<1>6. \A x \in P : /\ pieces[x].spilled /\ pieces[x].base = None
                   /\ pieces[x].priority \in Int /\ pieces[x].benefit = SpillBenefit
                   /\ \A y \in intf[v] : vreg[y].priority < pieces[x].priority
  <2> SUFFICES ASSUME NEW x \in P
               PROVE  /\ pieces[x].spilled /\ pieces[x].base = None
                      /\ pieces[x].priority \in Int /\ pieces[x].benefit = SpillBenefit
                      /\ \A y \in intf[v] : vreg[y].priority < pieces[x].priority
    OBVIOUS
  <2>1. PICK range, split, pr :
          /\ range \subseteq vreg[v].ref /\ pr \in Int
          /\ \A y \in intf[v] : vreg[y].priority < pr
          /\ pieces[x] = Part(v, range, split, pr)
    BY DEF IsRaisedPart
  <2>2. VregOK(prog, vreg[v])
    BY <1>4
  <2> DEFINE q == pieces[x]
  <2>3. q = Part(v, range, split, pr) /\ range \subseteq vreg[v].ref
    BY <2>1
  <2> HIDE DEF q
  <2>4. q.spilled /\ q.base = None /\ q.priority = pr /\ q.benefit = SpillBenefit
    BY ONLY <2>2, <2>3, PartFacts
  <2> QED BY <2>1, <2>4 DEF q
<1>7. \A w \in D : /\ vreg[w].priority \in Int
                   /\ vreg[w].spilled => vreg[w].benefit = SpillBenefit
                   /\ \A x \in intf[w] : Pressed(vreg[w], vreg[x])
  BY DEF RoomOK
<1>8. \A w \in heap : \A x \in intf[w] : Yields(vreg[w], vreg[x])
  BY DEF YieldOK
<1> HIDE DEF vr2, arcs2, P, D
<1>9. ASSUME NEW w \in D \cup P, NEW x \in arcs2[w] PROVE Pressed(vr2[w], vr2[x])
  <2>1. CASE w \in P
    <3>1. x \in intf[v] /\ pieces[w].live \cap vreg[x].live # {}
      BY <1>3, <2>1
    <3>2. x \in D \ P
      BY <1>4, <1>5, <3>1
    <3>3. vr2[w] = pieces[w] /\ vr2[x] = vreg[x]
      BY <1>2, <2>1, <3>2
    <3>4. pieces[w].spilled /\ vreg[x].priority < pieces[w].priority
      BY <1>6, <2>1, <3>1
    <3> QED BY <3>1, <3>3, <3>4 DEF Pressed
  <2>2. CASE w \notin P /\ x \notin P
    <3>1. w \in D \ P /\ x \in intf[w]
      BY <1>3, <2>2
    <3>2. x \in D \ P
      BY <1>4, <2>2, <3>1
    <3> QED BY <1>2, <1>7, <3>1, <3>2
  <2>3. CASE w \notin P /\ x \in P
    <3>1. w \in D \ P
      BY <2>3
    <3>2. x \notin intf[w] \/ x = v
      BY <1>4, <1>5, <2>3, <3>1
    <3>3. w \in intf[v] /\ pieces[x].live \cap vreg[w].live # {}
      BY <1>3, <2>3, <3>1, <3>2
    <3>4. vr2[w] = vreg[w] /\ vr2[x] = pieces[x] /\ pieces[x].spilled
      BY <1>2, <1>6, <2>3, <3>1
    <3>5. vreg[w].live \cap pieces[x].live # {}
      BY <3>3
    <3> QED BY <3>4, <3>5 DEF Pressed
  <2> QED BY <2>1, <2>2, <2>3
<1>10. ASSUME NEW w \in heap \ {v}, NEW x \in arcs2[w] PROVE Yields(vr2[w], vr2[x])
  <2>1. w \in D \ P
    BY <1>5
  <2>2. CASE x \in P
    BY <1>2, <1>6, <2>2 DEF Yields
  <2>3. CASE x \notin P
    <3>1. x \in intf[w]
      BY <1>3, <2>1, <2>3
    <3>2. x \in D \ P
      BY <1>4, <2>1, <2>3, <3>1
    <3> QED BY <1>2, <1>8, <2>1, <3>1, <3>2
  <2> QED BY <2>2, <2>3
<1>11. \A w \in D \cup P : /\ vr2[w].priority \in Int
                           /\ vr2[w].spilled => vr2[w].benefit = SpillBenefit
  BY <1>2, <1>6, <1>7
<1>12. RoomOK(vr2, arcs2)
  BY <1>2, <1>9, <1>11 DEF RoomOK
<1>13. YieldOK(vr2, arcs2, heap \ {v})
  BY <1>10 DEF YieldOK
<1> QED BY <1>1, <1>12, <1>13

(* A register that finds no colour is moved on. *)
LEMMA UnallocatableRoom ==
  ASSUME AInv, RInv, NEW v \in heap, NEW found, found = Find(v),
         \/ Spill(v, found) \/ MarkCbSplit(v, found) \/ CbSplit(v, found)
         \/ InstrSplit(v, found)
  PROVE  RoomOK(vreg', intf') /\ YieldOK(vreg', intf', heap')
<1>1. /\ v \in DOMAIN vreg /\ heap \subseteq DOMAIN vreg /\ VregOK(prog, vreg[v])
      /\ vreg = [w \in DOMAIN vreg |-> vreg[w]]
      /\ \A w \in DOMAIN vreg : intf[w] \subseteq DOMAIN vreg
  BY DEF AInv, QueueOK, GraphOK
<1>2. RoomOK(vreg, intf) /\ YieldOK(vreg, intf, heap) /\ heap' = heap \ {v}
  BY DEF RInv, Spill, MarkCbSplit, CbSplit, InstrSplit, Unallocatable, Extract
<1>3. PICK m \in Nat : DOMAIN vreg = 1 .. m
  BY DEF AInv, GraphOK
<1>4. Max(DOMAIN vreg) = m
  BY <1>1, <1>3, TopFacts
<1> DEFINE pr == Raised(v)
<1>5. pr \in Int /\ \A y \in intf[v] : vreg[y].priority < pr
  BY <1>1, <1>2, RaisedFacts
<1>6. \A y \in intf[v] : vreg[y].priority \in Int
  BY <1>1, <1>2 DEF RoomOK
<1> HIDE DEF pr
<1>7. pr + 1 \in Int /\ \A y \in intf[v] : vreg[y].priority < pr + 1
  BY <1>5, <1>6
<1>8. ASSUME NEW pieces, Replace(v, pieces), v \in DOMAIN pieces,
             \A x \in DOMAIN pieces : x = v \/ x \notin DOMAIN vreg,
             \A x \in DOMAIN pieces : IsRaisedPart(v, pieces[x])
      PROVE  RoomOK(vreg', intf') /\ YieldOK(vreg', intf', heap')
  BY <1>1, <1>2, <1>8, DividedRoom
<1>9. CASE Spill(v, found)
  <2> DEFINE pieces == [w \in {v} |-> Part(v, vreg[v].ref, "no", pr)]
  <2>1. Replace(v, pieces)
    BY <1>9 DEF Spill, pr
  <2>2. DOMAIN pieces = {v} /\ pieces[v] = Part(v, vreg[v].ref, "no", pr)
    OBVIOUS
  <2> HIDE DEF pieces
  <2>3. IsRaisedPart(v, pieces[v])
    BY <1>5, <2>2 DEF IsRaisedPart
  <2> QED BY <1>8, <2>1, <2>2, <2>3
<1>10. CASE MarkCbSplit(v, found)
  <2>1. vreg[v].spilled /\ vreg' = MarkedIn(vreg, v) /\ intf' = intf
    BY <1>10 DEF MarkCbSplit, MarkedIn
  <2> DEFINE vr2 == vreg'
  <2>2. vr2 = MarkedIn(vreg, v)
    BY <2>1
  <2> HIDE DEF vr2
  <2>3. /\ DOMAIN vr2 = DOMAIN vreg /\ vr2[v] = Marked(vreg[v])
        /\ \A w \in DOMAIN vreg : w # v => vr2[w] = vreg[w]
    BY ONLY <1>1, <2>2, MarkedInFacts
  <2>4. SpilledOK(prog, vreg[v])
    BY <1>1, <2>1 DEF SpilledOK
  <2>5. /\ vr2[v].spilled = vreg[v].spilled /\ vr2[v].live = vreg[v].live
        /\ vr2[v].priority = vreg[v].priority /\ vr2[v].benefit = vreg[v].benefit
        /\ vr2[v].base = vreg[v].base
    BY ONLY <2>3, <2>4, MarkedFacts
  <2>6. \A w \in DOMAIN vreg :
          /\ vr2[w].spilled = vreg[w].spilled /\ vr2[w].live = vreg[w].live
          /\ vr2[w].priority = vreg[w].priority /\ vr2[w].benefit = vreg[w].benefit
          /\ vr2[w].base = vreg[w].base
    BY <2>3, <2>5
  <2>7. RoomOK(vr2, intf)
    BY ONLY <1>1, <1>2, <2>3, <2>6, SameRoom
  <2>8. YieldOK(vr2, intf, heap \ {v})
    BY <1>1, <1>2, <2>6 DEF YieldOK, Yields
  <2> QED BY <1>2, <2>1, <2>7, <2>8 DEF vr2
<1>11. CASE CbSplit(v, found)
  <2> DEFINE top == Max(DOMAIN vreg)
             new == (top + 1) .. (top + (Cardinality(CbsOf(v)) - 1))
             In(n) == {i \in vreg[v].live : Rank(CbsOf(v), Cb(i)) = n}
             pieces == [p \in {v} \cup new |->
                          IF p = v THEN Part(v, In(0), "cb", pr)
                          ELSE Part(v, In(p - top), "cb", pr + 1)]
  <2>1. Replace(v, pieces) /\ vreg[v].spilled
    BY <1>11 DEF CbSplit, pr
  <2>2. DOMAIN pieces = {v} \cup new
    OBVIOUS
  <2>3. \A x \in {v} \cup new : \E n : \/ pieces[x] = Part(v, In(n), "cb", pr)
                                       \/ pieces[x] = Part(v, In(n), "cb", pr + 1)
    OBVIOUS
  <2>4. \A n : In(n) \subseteq vreg[v].ref
    BY <1>1, <2>1 DEF VregOK
  <2>5. new \cap DOMAIN vreg = {}
    <3> DEFINE k == Cardinality(CbsOf(v)) - 1
    <3>1. new = (m + 1) .. (m + k)
      BY <1>4
    <3> HIDE DEF k, new
    <3> QED BY ONLY <1>3, <3>1, m \in Nat
  <2> HIDE DEF pieces, new, In
  <2>6. \A x \in {v} \cup new : IsRaisedPart(v, pieces[x])
    <3> SUFFICES ASSUME NEW x \in {v} \cup new PROVE IsRaisedPart(v, pieces[x])
      OBVIOUS
    <3>1. PICK n : \/ pieces[x] = Part(v, In(n), "cb", pr)
                   \/ pieces[x] = Part(v, In(n), "cb", pr + 1)
      BY <2>3
    <3>2. In(n) \subseteq vreg[v].ref
      BY <2>4
    <3> QED BY <1>5, <1>7, <3>1, <3>2 DEF IsRaisedPart
  <2> QED BY <1>8, <2>1, <2>2, <2>5, <2>6
<1>12. CASE InstrSplit(v, found)
  <2> DEFINE new == Max(DOMAIN vreg) + 1
             here == Portion(v, found).range
             pieces == [p \in {v, new} |->
                          Part(v, IF p = v THEN here ELSE vreg[v].ref \ here, "instr", pr)]
  <2>1. Replace(v, pieces)
    BY <1>12 DEF InstrSplit, pr
  <2>2. StacksOK(found.stacks)
    BY <1>1, FindFinds DEF Found
  <2>3. here \subseteq vreg[v].ref
    BY <1>1, <2>2, PortionFacts
  <2> HIDE DEF here
  <2>4. DOMAIN pieces = {v, new}
    OBVIOUS
  <2>5. ASSUME NEW x \in {v, new} PROVE IsRaisedPart(v, pieces[x])
    <3> DEFINE range == IF x = v THEN here ELSE vreg[v].ref \ here
    <3>1. pieces[x] = Part(v, range, "instr", pr)
      OBVIOUS
    <3>2. range \subseteq vreg[v].ref
      BY <2>3
    <3> HIDE DEF range, pieces
    <3> QED BY <1>5, <3>1, <3>2 DEF IsRaisedPart
  <2>6. new = m + 1 /\ new \notin DOMAIN vreg
    BY <1>3, <1>4
  <2> HIDE DEF pieces, new
  <2> QED BY <1>8, <2>1, <2>4, <2>5, <2>6
<1> QED BY <1>9, <1>10, <1>11, <1>12

(* Colouring the top of the heap. *)
LEMMA ColourRoom ==
  ASSUME AInv, RoomOK(vreg, intf), YieldOK(vreg, intf, heap),
         NEW v \in DOMAIN vreg, NEW found, found = Find(v), found.reg # None,
         vreg' = [vreg EXCEPT ![v].base = found.reg, ![v].rclass = found.rclass],
         intf' = intf, prog' = prog, NEW todo, todo \subseteq heap \ {v},
         \A w \in heap : vreg[w].priority <= vreg[v].priority
  PROVE  RoomOK(vreg', intf') /\ YieldOK(vreg', intf', todo)
<1> DEFINE vr2 == vreg'
<1>1. /\ heap \subseteq DOMAIN vreg
      /\ \A w \in DOMAIN vreg : intf[w] \subseteq DOMAIN vreg
      /\ \A w, x \in DOMAIN vreg : x \in intf[w] <=> w \in intf[x]
  BY DEF AInv, QueueOK, GraphOK
<1>2. /\ DOMAIN vr2 = DOMAIN vreg
      /\ vr2[v].spilled = vreg[v].spilled /\ vr2[v].live = vreg[v].live
      /\ vr2[v].priority = vreg[v].priority /\ vr2[v].benefit = vreg[v].benefit
      /\ \A w \in DOMAIN vreg : w # v => vr2[w] = vreg[w]
  BY ColourKeepsColours
<1> HIDE DEF vr2
<1>3. \A w \in DOMAIN vreg :
        /\ vr2[w].spilled = vreg[w].spilled /\ vr2[w].live = vreg[w].live
        /\ vr2[w].priority = vreg[w].priority /\ vr2[w].benefit = vreg[w].benefit
  BY <1>2
<1>4. RoomOK(vr2, intf)
  BY <1>1, <1>2, <1>3, SameRoom
<1>5. ASSUME NEW w \in todo, NEW x \in intf[w] PROVE Yields(vr2[w], vr2[x])
  <2>1. w \in heap /\ w # v /\ w \in DOMAIN vreg /\ x \in DOMAIN vreg
    BY <1>1
  <2>2. vr2[w] = vreg[w] /\ Yields(vreg[w], vreg[x])
    BY <1>2, <2>1 DEF YieldOK
  <2>3. CASE x # v
    BY <1>2, <2>1, <2>2, <2>3
  <2>4. CASE x = v
    <3> SUFFICES ASSUME vreg[w].spilled, ~ vreg[v].spilled PROVE FALSE
      BY <1>2, <2>2, <2>4 DEF Yields
    <3>1. Pressed(vreg[w], vreg[v])
      BY <2>1, <2>4 DEF RoomOK
    <3>2. vreg[v].priority < vreg[w].priority
      BY <3>1 DEF Pressed
    <3>3. vreg[w].priority <= vreg[v].priority
      BY <2>1
    <3>4. vreg[v].priority \in Int /\ vreg[w].priority \in Int
      BY <2>1 DEF RoomOK
    <3> QED BY ONLY <3>2, <3>3, <3>4
  <2> QED BY <2>3, <2>4
<1>6. YieldOK(vr2, intf, todo)
  BY <1>5 DEF YieldOK
<1> QED BY <1>4, <1>6 DEF vr2

(* A new pass begins with no register in a place. *)
LEMMA RestartRoom ==
  ASSUME AInv, RoomOK(vreg, intf), Restart
  PROVE  RoomOK(vreg', intf') /\ YieldOK(vreg', intf', heap')
<1>1. /\ \A v \in DOMAIN vreg : VregOK(prog, vreg[v]) /\ intf[v] \subseteq DOMAIN vreg
      /\ DOMAIN vreg = shadow
  BY DEF AInv, GraphOK, QueueOK, Restart
<1> DEFINE cls(v) == IF vreg[v].benefit.caller >= vreg[v].benefit.callee
                     THEN "caller" ELSE "callee"
           vr2 == vreg'
<1>2. vr2 = [v \in DOMAIN vreg |->
               IF v \in shadow THEN Placed(vreg[v], None, cls(v)) ELSE vreg[v]]
  BY DEF Restart, Placed
<1>3. \A v \in DOMAIN vreg : cls(v) \in Classes
  BY DEF Classes
<1> HIDE DEF cls, vr2
<1>4. \A v \in DOMAIN vreg : LET q == Placed(vreg[v], None, cls(v))
                             IN  /\ q.base = None
                                 /\ q.spilled = vreg[v].spilled /\ q.live = vreg[v].live
                                 /\ q.priority = vreg[v].priority
                                 /\ q.benefit = vreg[v].benefit
  BY ONLY <1>1, <1>3, WithPlace
<1>5. /\ DOMAIN vr2 = DOMAIN vreg
      /\ \A v \in DOMAIN vreg :
           /\ vr2[v].base = None
           /\ vr2[v].spilled = vreg[v].spilled /\ vr2[v].live = vreg[v].live
           /\ vr2[v].priority = vreg[v].priority /\ vr2[v].benefit = vreg[v].benefit
  BY ONLY <1>1, <1>2, <1>4
<1>6. RoomOK(vr2, intf)
  BY <1>1, <1>5, SameRoom
<1>7. intf' = intf /\ heap' = DOMAIN vreg
  BY <1>1 DEF Restart
<1>8. YieldOK(vr2, intf, DOMAIN vreg)
  BY <1>1, <1>5 DEF YieldOK, Yields
<1> QED BY <1>6, <1>7, <1>8 DEF vr2

(* The registers that an operation refers to are as many as its operands,  *)
(* whatever pieces they have been split into.                              *)
LEMMA OnePiecePerOperand ==
  ASSUME AInv, NEW v \in DOMAIN vreg, NEW i, i \in vreg[v].ref, NEW N,
         N \subseteq DOMAIN vreg \ {v}, \A x \in N : i \in vreg[x].ref,
         NEW O, O = {r \in DOMAIN prog.def : i \in RefInstr(prog, r)}
  PROVE  /\ vreg[v].root \in O
         /\ IsFiniteSet(N) /\ IsFiniteSet(O \ {vreg[v].root})
         /\ Cardinality(N) <= Cardinality(O \ {vreg[v].root})
<1>1. /\ \A x \in DOMAIN vreg : VregOK(prog, vreg[x])
      /\ \A x, y \in DOMAIN vreg : x # y => Apart(vreg[x], vreg[y])
      /\ IsFiniteSet(DOMAIN prog.def)
  BY DEF AInv, GraphOK, IsFunctionToCompile
<1>2. \A x \in DOMAIN vreg : i \in vreg[x].ref => vreg[x].root \in O
  BY <1>1 DEF VregOK
<1>3. \A x, y \in DOMAIN vreg : x # y /\ i \in vreg[x].ref /\ i \in vreg[y].ref =>
                                  vreg[x].root # vreg[y].root
  BY <1>1 DEF Apart
<1> DEFINE T == O \ {vreg[v].root}
           f == [x \in N |-> vreg[x].root]
<1>4. IsFiniteSet(T)
  <2>1. T \subseteq DOMAIN prog.def
    OBVIOUS
  <2> QED BY <1>1, <2>1, FS_Subset
<1>5. f \in [N -> T] /\ \A x, y \in N : f[x] = f[y] => x = y
  BY <1>2, <1>3
<1> HIDE DEF f, T
<1>6. f \in Injection(N, T)
  BY <1>5 DEF Injection, IsInjective
<1>7. IsFiniteSet(N) /\ Cardinality(N) <= Cardinality(T)
  BY <1>4, <1>6, FS_Injection
<1> QED BY <1>2, <1>4, <1>7 DEF T

(* A register for one operation finds a place: its neighbours that have    *)
(* one are operands of the same operation.                                 *)
LEMMA RoomIsMade ==
  ASSUME SizesAreOneOrTwo, AInv, RInv, OperandsFit, NEW v \in heap, Insufficient(v)
  PROVE  Find(v).reg # None
<1> DEFINE r == vreg[v]
           N == {x \in intf[v] : vreg[x].base # None}
<1>1. /\ v \in DOMAIN vreg /\ VregOK(prog, r) /\ intf[v] \subseteq DOMAIN vreg \ {v}
      /\ \A x \in DOMAIN vreg : VregOK(prog, vreg[x])
      /\ IsFunctionToCompile(prog)
  BY DEF AInv, GraphOK, QueueOK
<1>2. /\ r.root \in DOMAIN prog.def /\ r.type = prog.type[r.root] /\ r.type \in Types
      /\ r.illegal = prog.illegal[r.root] /\ r.spilled /\ r.live = r.ref
      /\ r.ref \subseteq RefInstr(prog, r.root)
      /\ r.rclass \in Classes \/ r.benefit["caller"] < 0
  BY <1>1 DEF VregOK, Insufficient
<1>3. r.ref \subseteq Ops
  BY <1>1, <1>2 DEF RefInstr, IsFunctionToCompile
<1>4. PICK i : r.live = {i}
  <2>1. IsFiniteSet(r.live) /\ Cardinality(r.live) = 1
    BY <1>2, <1>3, OpsFacts, FS_Subset DEF Insufficient
  <2> QED BY <2>1, FS_Singleton
<1>5. i \in r.ref /\ i \in Ops
  BY <1>2, <1>3, <1>4
<1>6. \A x \in N : i \in vreg[x].ref
  <2> SUFFICES ASSUME NEW x \in N PROVE i \in vreg[x].ref
    OBVIOUS
  <2>1. Yields(r, vreg[x]) /\ Pressed(r, vreg[x])
    BY <1>1 DEF RInv, YieldOK, RoomOK
  <2>2. vreg[x].spilled /\ i \in vreg[x].live
    BY <1>2, <1>4, <2>1 DEF Yields, Pressed
  <2> QED BY <1>1, <2>2 DEF VregOK
<1> DEFINE O == {q \in DOMAIN prog.def : i \in RefInstr(prog, q)}
<1>7. N \subseteq DOMAIN vreg \ {v}
  BY <1>1
<1> HIDE DEF N, O
<1>8. /\ r.root \in O /\ IsFiniteSet(N) /\ IsFiniteSet(O \ {r.root})
      /\ Cardinality(N) <= Cardinality(O \ {r.root})
  BY <1>1, <1>5, <1>6, <1>7, OnePiecePerOperand DEF O
<1>9. /\ Size[r.type] = 1 \/ r.illegal = {}
      /\ Cardinality(r.illegal) + MaxSize * Cardinality(O \ {r.root}) < TotalUnits
  <2>1. /\ Size[prog.type[r.root]] = 1 \/ prog.illegal[r.root] = {}
        /\ Cardinality(prog.illegal[r.root]) + MaxSize * Cardinality(O \ {r.root}) < TotalUnits
    <3> HIDE DEF r
    <3> QED BY <1>5, <1>8 DEF OperandsFit, O
  <2> QED BY <1>2, <2>1
<1>10. IsFiniteSet(r.illegal)
  BY <1>1, <1>2 DEF IsFunctionToCompile
<1>11. Cardinality(r.illegal) + MaxSize * Cardinality(N) < Units["caller"] + Units["callee"]
  BY <1>2, <1>8, <1>9, <1>10, FewerNeighbours DEF TotalUnits
<1>12. r.benefit = SpillBenefit
  BY <1>1, <1>2 DEF RInv, RoomOK
<1>13. r.rclass \in Classes /\ ~ (r.benefit[Other(r.rclass)] < 0)
  <2>1. SpillBenefit["caller"] = 1 /\ SpillBenefit["callee"] = 0
    BY DEF SpillBenefit
  <2>2. r.rclass \in Classes
    BY <1>2, <1>12, <2>1
  <2>3. Other(r.rclass) = "caller" \/ Other(r.rclass) = "callee"
    BY <2>2 DEF Other, Classes
  <2>4. r.benefit[Other(r.rclass)] = 1 \/ r.benefit[Other(r.rclass)] = 0
    BY <1>12, <2>1, <2>3
  <2> QED BY <2>2, <2>4
<1> QED BY <1>1, <1>8, <1>9, <1>10, <1>11, <1>13, FindsAColour DEF N

(* The punt "INSUFFICIENT REGISTERS!!!!" (r_regspill.c:447) is never met   *)
(* by a function whose operations' operands fit in the registers together: *)
(* what is spilled is above its neighbours, so the next pass colours it    *)
(* against other operands of the same operation only.                      *)
THEOREM SpillsAlwaysMakeRoom ==
  ASSUME SizesAreOneOrTwo
  PROVE  Spec => []SpillsMakeRoom
<1>1. Init => RInv
  <2> SUFFICES ASSUME Init PROVE RInv
    OBVIOUS
  <2>1. IsFunctionToCompile(prog)
    BY RegAllocAssumption DEF Init
  <2>2. /\ DOMAIN vreg = DOMAIN prog.def
        /\ \A v \in DOMAIN vreg : /\ ~ vreg[v].spilled
                                  /\ vreg[v].priority = prog.priority[v]
    BY DEF Init, NewVreg
  <2>3. \A v \in DOMAIN vreg : vreg[v].priority \in Int
    BY <2>1, <2>2 DEF IsFunctionToCompile
  <2>4. RoomOK(vreg, intf)
    BY <2>2, <2>3 DEF RoomOK, Pressed
  <2>5. heap = DOMAIN vreg /\ phase = "prune"
    BY DEF Init
  <2>6. YieldOK(vreg, intf, heap)
    BY <2>2, <2>5 DEF YieldOK, Yields
  <2> QED BY <2>4, <2>5, <2>6 DEF RInv, SpillsMakeRoom
<1>2. AInv /\ RInv /\ [Next]_vars => RInv'
  <2> SUFFICES ASSUME AInv, RInv, [Next]_vars PROVE RInv'
    OBVIOUS
  <2>1. RoomOK(vreg, intf) /\ YieldOK(vreg, intf, heap)
    BY DEF RInv
  <2>2. CASE ColourNext
    <3>1. PICK v \in HeapTop :
            /\ phase = "colour"
            /\ \/ SkipUnconstrained(v)
               \/ Colour(v, Find(v)) \/ Spill(v, Find(v)) \/ MarkCbSplit(v, Find(v))
               \/ CbSplit(v, Find(v)) \/ InstrSplit(v, Find(v))
               \/ PuntInsufficient(v, Find(v))
      BY <2>2 DEF ColourNext
    <3>2. /\ v \in heap /\ v \in DOMAIN vreg
          /\ \A w \in heap : vreg[w].priority <= vreg[v].priority
      BY DEF HeapTop, AInv, QueueOK
    <3>3. CASE PuntInsufficient(v, Find(v))
      <4>1. /\ Find(v).reg = None /\ Insufficient(v) /\ heap' = heap \ {v}
            /\ prog' = prog /\ vreg' = vreg /\ intf' = intf /\ phase' = "insufficient registers"
        BY <3>3 DEF PuntInsufficient, Unallocatable, Extract, graph
      <4>2. ~ OperandsFit
        BY <3>2, <4>1, RoomIsMade
      <4>3. ~ OperandsFit'
        BY <4>1, <4>2 DEF OperandsFit
      <4>4. YieldOK(vreg, intf, heap \ {v})
        BY <2>1 DEF YieldOK
      <4> QED BY <2>1, <4>1, <4>3, <4>4 DEF RInv, SpillsMakeRoom
    <3>4. CASE SkipUnconstrained(v)
      <4>1. heap' = heap \ {v} /\ vreg' = vreg /\ intf' = intf /\ phase' = "colour"
        BY <3>1, <3>4 DEF SkipUnconstrained, Extract, graph
      <4>2. YieldOK(vreg, intf, heap \ {v})
        BY <2>1 DEF YieldOK
      <4> QED BY <2>1, <4>1, <4>2 DEF RInv, SpillsMakeRoom
    <3>5. CASE Colour(v, Find(v))
      <4>1. /\ Find(v).reg # None /\ heap' = heap \ {v} /\ phase' = "colour"
            /\ vreg' = [vreg EXCEPT ![v].base = Find(v).reg, ![v].rclass = Find(v).rclass]
            /\ prog' = prog /\ intf' = intf
        BY <3>1, <3>5 DEF Colour, Extract
      <4>2. RoomOK(vreg', intf') /\ YieldOK(vreg', intf', heap')
        BY <2>1, <3>2, <4>1, ColourRoom
      <4> QED BY <4>1, <4>2 DEF RInv, SpillsMakeRoom
    <3>6. CASE \/ Spill(v, Find(v)) \/ MarkCbSplit(v, Find(v)) \/ CbSplit(v, Find(v))
               \/ InstrSplit(v, Find(v))
      <4>1. phase' = "colour"
        BY <3>1, <3>6 DEF Spill, MarkCbSplit, CbSplit, InstrSplit
      <4>2. RoomOK(vreg', intf') /\ YieldOK(vreg', intf', heap')
        BY <3>2, <3>6, UnallocatableRoom
      <4> QED BY <4>1, <4>2 DEF RInv, SpillsMakeRoom
    <3> QED BY <3>1, <3>3, <3>4, <3>5, <3>6
  <2>3. CASE Restart
    <3>1. RoomOK(vreg', intf') /\ YieldOK(vreg', intf', heap') /\ phase' = "prune"
      BY <2>1, <2>3, RestartRoom DEF Restart
    <3> QED BY <3>1 DEF RInv, SpillsMakeRoom
  <2>4. CASE ColourUnconstrained
    <3> DEFINE v == Last(unconstrained)
    <3>1. /\ phase = "unconstrained" /\ unconstrained # <<>> /\ heap' = heap
          /\ prog' = prog /\ intf' = intf
          /\ phase' # "insufficient registers"
          /\ \/ /\ Find(v).reg # None
                /\ vreg' = [vreg EXCEPT ![v].base = Find(v).reg, ![v].rclass = Find(v).rclass]
             \/ vreg' = vreg
      BY <2>4 DEF ColourUnconstrained
    <3>2. v \in DOMAIN vreg /\ heap = {}
      BY <3>1, FrontFacts DEF AInv, QueueOK, RInv
    <3> HIDE DEF v
    <3>3. RoomOK(vreg', intf') /\ YieldOK(vreg', intf', {})
      BY <2>1, <3>1, <3>2, ColourRoom DEF YieldOK
    <3> QED BY <3>1, <3>2, <3>3 DEF RInv, SpillsMakeRoom
  <2>5. CASE PruneGraph \/ AllColoured \/ Finish
    BY <2>1, <2>5 DEF PruneGraph, AllColoured, Finish, graph, RInv, SpillsMakeRoom
  <2>6. CASE Stop \/ UNCHANGED vars
    BY <2>1, <2>6 DEF Stop, vars, RInv, SpillsMakeRoom, OperandsFit
  <2> QED BY <2>2, <2>3, <2>4, <2>5, <2>6 DEF Next
<1>3. RInv => SpillsMakeRoom
  BY DEF RInv
<1> QED BY <1>1, <1>2, <1>3, AllocatorInvariant, PTL DEF Spec
=============================================================================
