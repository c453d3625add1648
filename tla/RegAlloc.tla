------------------------------ MODULE RegAlloc -------------------------------
(***************************************************************************)
(* The register allocator of the code generators: r_regalloc.c and the     *)
(* spilling half of r_regspill.c.  A pass colours the virtual registers in *)
(* the order of their priorities, against an interference graph from which *)
(* the unconstrained ones may have been pruned.  A register that finds no  *)
(* colour is spilled, then split at control block boundaries, then split   *)
(* within its control block, and the pass is run again from nothing until  *)
(* a pass colours everything; the pruned registers are coloured last.      *)
(*                                                                         *)
(* The function being compiled is straight-line code whose virtual         *)
(* registers have one definition each, as L_rename_disjoint_virtual_-      *)
(* registers leaves it; priorities and benefits, which come from profile   *)
(* weights, are inputs.                                                    *)
(***************************************************************************)
EXTENDS RegBank

CONSTANTS
  Programs,   \* the functions to compile
  LastOp,     \* the last operation of each control block, in order
  MaxPass     \* bound: passes after which the model stops following

VARIABLES
  prog,       \* the function: def, use, type, benefit, priority, illegal,
              \* and prune, the parameter R_Prune_Interference_Graph
  vreg,       \* R_vreg: the virtual registers by index
  intf,       \* intf[v]: the arcs of v's interfere list
  stacks,     \* the stacks of the register banks
  heap,       \* registers still to colour in this pass
  shadow,     \* shadow_stack: registers to colour again if the pass fails
  unconstrained,  \* the stack of pruned registers
  uncolored,  \* some register of this pass found no colour
  pass,
  phase

vars == <<prog, vreg, intf, stacks, heap, shadow, unconstrained, uncolored,
          pass, phase>>

graph == <<vreg, intf>>

Ops == 1..Last(LastOp)

(* A function to compile: an operation defines at most one register, and   *)
(* registers are read after they are defined.                              *)
IsFunctionToCompile(p) ==
  LET D == DOMAIN p.def
  IN  /\ IsFiniteSet(D) /\ D = 1..Cardinality(D)
      /\ p.def \in [D -> Ops]
      /\ \A v, w \in D : p.def[v] = p.def[w] => v = w
      /\ p.use \in [D -> SUBSET Ops]
      /\ \A v \in D : \A u \in p.use[v] : p.def[v] < u
      /\ p.type \in [D -> Types]
      /\ p.benefit \in [D -> [Classes -> Int]]
      /\ p.priority \in [D -> Int]
      /\ p.illegal \in [D -> SUBSET Nat]
      /\ \A v \in D : IsFiniteSet(p.illegal[v])
      /\ p.prune \in BOOLEAN

ASSUME RegAllocAssumption ==
  /\ LastOp \in Seq(Nat \ {0}) /\ LastOp # <<>>
  /\ MaxPass \in Nat \ {0}
  /\ \A p \in Programs : IsFunctionToCompile(p)

(* How many of S come before n. *)
Rank(S, n) == Cardinality({m \in S : m < n})

Cb(i) == CHOOSE n \in DOMAIN LastOp :
           /\ i <= LastOp[n]
           /\ \A m \in 1..(n - 1) : LastOp[m] < i

-----------------------------------------------------------------------------
(* Live ranges and the interference graph *)

LiveIn(p, v, i)  == p.def[v] < i /\ \E u \in p.use[v] : i <= u
LiveOut(p, v, i) == p.def[v] <= i /\ \E u \in p.use[v] : i < u

RefInstr(p, v) == {p.def[v]} \cup p.use[v]

(* R_process_cb and R_compute_live_ranges: the operations a register is    *)
(* live into, its definition if it ends a control block, and a definition  *)
(* that nothing uses but that may not be deleted.                          *)
LiveRange(p, v) ==
  {i \in Ops : \/ LiveIn(p, v, i)
               \/ i = p.def[v] /\ (i \in ToSet(LastOp) \/ p.use[v] = {})}

(* R_construct_interference_graph: r1 and r2 interfere if one is live out  *)
(* of the definition of the other.                                         *)
Interferes(p, v, w) ==
  v # w /\ (LiveOut(p, w, p.def[v]) \/ LiveOut(p, v, p.def[w]))

(* R_register_saving_convention_selection, from the signs of the benefits. *)
PreferredClass(b) ==
  IF b.caller < 0 /\ b.callee < 0 THEN "prefer_spill"
  ELSE IF b.caller >= b.callee THEN "caller" ELSE "callee"

NewVreg(p, v) ==
  [root |-> v, type |-> p.type[v], benefit |-> p.benefit[v],
   rclass |-> PreferredClass(p.benefit[v]), illegal |-> p.illegal[v],
   base |-> None, priority |-> p.priority[v], spilled |-> FALSE,
   split |-> "no", ref |-> RefInstr(p, v), live |-> LiveRange(p, v)]

Init ==
  /\ prog \in Programs
  /\ vreg = [v \in DOMAIN prog.def |-> NewVreg(prog, v)]
  /\ intf = [v \in DOMAIN prog.def |->
               {w \in DOMAIN prog.def : Interferes(prog, v, w)}]
  /\ stacks = EmptyStacks
  /\ heap = DOMAIN prog.def
  /\ shadow = {}
  /\ unconstrained = <<>>
  /\ uncolored = FALSE
  /\ pass = 1
  /\ phase = "prune"

-----------------------------------------------------------------------------
(* Pruning *)

(* The list R_vreg: the pieces made by splits, newest first, then the      *)
(* registers of the function in the order of their indices.                *)
VregList ==
  LET n == Cardinality(DOMAIN vreg)
      new == n - Cardinality(DOMAIN prog.def)
  IN  [k \in 1..n |-> IF k <= new THEN n + 1 - k ELSE k - new]

TotalUnits == Units["caller"] + Units["callee"]

(* Mutant: an off-by-one in the count that prunes. *)
PrunesTo_OffByOne(v, pruned) ==
  /\ v \notin ToSet(pruned)
  /\ \A c \in Classes : vreg[v].benefit[c] >= 0
  /\ Cardinality(vreg[v].illegal)
       + MaxSize * Cardinality(intf[v] \ ToSet(pruned)) <= TotalUnits

(* A register is unconstrained when its remaining neighbours and illegal   *)
(* registers cannot take every register of its type.                       *)
PrunesTo(v, pruned) ==
  /\ v \notin ToSet(pruned)
  /\ \A c \in Classes : vreg[v].benefit[c] >= 0
  /\ Cardinality(vreg[v].illegal)
       + MaxSize * Cardinality(intf[v] \ ToSet(pruned)) < TotalUnits

(* R_prune_interference_graph: sweeps over the list until one changes      *)
(* nothing, which is at most one sweep per register.                       *)
Pruned ==
  LET n == Len(VregList)
      after[k \in 0..(n * n)] ==
        IF k = 0 THEN <<>>
        ELSE LET s == after[k - 1]
                 v == VregList[((k - 1) % n) + 1]
             IN  IF PrunesTo(v, s) THEN Append(s, v) ELSE s
  IN  after[n * n]

PruneGraph ==
  /\ phase = "prune"
  /\ unconstrained' = IF prog.prune THEN Pruned ELSE <<>>
  /\ phase' = "colour"
  /\ UNCHANGED <<prog, graph, stacks, heap, shadow, uncolored, pass>>

-----------------------------------------------------------------------------
(* Colouring *)

(* Mutant: only the first unit of a neighbour is reserved. *)
Reserved_FirstUnit(v, arcs) ==
  {vreg[w].base : w \in {x \in arcs : vreg[x].base # None}}
    \cup vreg[v].illegal

(* R_determine_reserved_registers *)
Reserved(v, arcs) ==
  (UNION {UnitsOf(vreg[w].type, vreg[w].base) :
            w \in {x \in arcs : vreg[x].base # None}})
    \cup vreg[v].illegal

Find(v) == R_find_free_register(stacks, vreg[v], Reserved(v, intf[v]))

(* What Heap_ExtractTop may return: equal priorities come in any order. *)
HeapTop == {v \in heap : \A w \in heap : vreg[w].priority <= vreg[v].priority}

(* The register extracted goes on the shadow stack, with the registers new *)
(* that a split makes of it.                                               *)
Extract(v, new) ==
  /\ heap' = heap \ {v}
  /\ shadow' = shadow \cup {v} \cup new
  /\ UNCHANGED <<prog, unconstrained, pass>>

SkipUnconstrained(v) ==
  /\ v \in ToSet(unconstrained)
  /\ Extract(v, {})
  /\ UNCHANGED <<graph, stacks, uncolored, phase>>

(* found is what R_find_free_register returned for v. *)
Colour(v, found) ==
  /\ found.reg # None
  /\ Extract(v, {})
  /\ vreg' = [vreg EXCEPT ![v].base = found.reg, ![v].rclass = found.rclass]
  /\ stacks' = found.stacks
  /\ UNCHANGED <<intf, uncolored, phase>>

-----------------------------------------------------------------------------
(* R_handle_unallocatable_vreg *)

Unallocatable(v, found, new) ==
  /\ found.reg = None
  /\ Extract(v, new)
  /\ uncolored' = TRUE

(* Mutant: the neighbours' priorities are not looked at. *)
Raised_Own(v) == vreg[v].priority

(* The priority that puts a register above its neighbours. *)
Raised(v) == 1 + Max({vreg[w].priority : w \in intf[v] \cup {v}})

(* Mutant: the references of the neighbour instead of its live range. *)
Meets_References(range, w) == range \cap vreg[w].ref # {}

Meets(range, w) == range \cap vreg[w].live # {}

SpillBenefit == [caller |-> 1, callee |-> 0]

(* A part of v that holds range, all of it references. *)
Part(v, range, split, priority) ==
  [vreg[v] EXCEPT !.ref = range, !.live = range, !.spilled = TRUE,
                  !.split = split, !.rclass = "caller", !.base = None,
                  !.benefit = SpillBenefit, !.priority = priority]

(* v is replaced by pieces, itself among them.  Each piece keeps the arcs  *)
(* of v to the registers whose live ranges it meets.                       *)
Replace(v, pieces) ==
  /\ vreg' = [w \in DOMAIN vreg \cup DOMAIN pieces |->
                IF w \in DOMAIN pieces THEN pieces[w] ELSE vreg[w]]
  /\ intf' = [w \in DOMAIN vreg' |->
       IF w \in DOMAIN pieces
       THEN {x \in intf[v] : Meets(vreg'[w].live, x)}
       ELSE (intf[w] \ {v}) \cup
            {p \in DOMAIN pieces : w \in intf[v] /\ Meets(vreg'[p].live, w)}]

(* Case 1: the register lives in memory, and in a register only where an   *)
(* operation refers to it.                                                 *)
Spill(v, found) ==
  /\ Unallocatable(v, found, {})
  /\ ~ vreg[v].spilled
  /\ Replace(v, [w \in {v} |-> Part(v, vreg[v].ref, "no", Raised(v))])
  /\ stacks' = found.stacks
  /\ UNCHANGED phase

(* Case 2: R_cbsplit_spilled_live_range.  A range within one control block *)
(* is only marked.                                                         *)
CbsOf(v) == {Cb(i) : i \in vreg[v].live}

(* Mutant: the flag R_CB_SPLIT is not set when there is nothing to split.  *)
MarkCbSplit_Forgets(v, found) ==
  /\ Unallocatable(v, found, {})
  /\ vreg[v].spilled /\ vreg[v].split = "no"
  /\ Cardinality(CbsOf(v)) = 1
  /\ stacks' = found.stacks
  /\ UNCHANGED <<graph, phase>>

MarkCbSplit(v, found) ==
  /\ Unallocatable(v, found, {})
  /\ vreg[v].spilled /\ vreg[v].split = "no"
  /\ Cardinality(CbsOf(v)) = 1
  /\ vreg' = [vreg EXCEPT ![v].split = "cb"]
  /\ stacks' = found.stacks
  /\ UNCHANGED <<intf, phase>>

(* The first control block stays with v, each other one gets a register.   *)
CbSplit(v, found) ==
  LET rest  == Cardinality(CbsOf(v)) - 1
      top   == Max(DOMAIN vreg)
      new   == (top + 1)..(top + rest)
      In(n) == {i \in vreg[v].live : Rank(CbsOf(v), Cb(i)) = n}
  IN  /\ Unallocatable(v, found, new)
      /\ vreg[v].spilled /\ vreg[v].split = "no"
      /\ rest > 0
      /\ Replace(v, [p \in {v} \cup new |->
                       IF p = v THEN Part(v, In(0), "cb", Raised(v))
                       ELSE Part(v, In(p - top), "cb", Raised(v) + 1)])
      /\ stacks' = found.stacks
      /\ UNCHANGED phase

(* Cases 3 and 4: R_isplit_spilled_live_range.  The references are added   *)
(* one by one for as long as a register is free for v, whose arcs have     *)
(* been taken away; each trial moves the stacks.  The first one is taken   *)
(* even if no register is.                                                 *)
Portion(v, found) ==
  LET refs == Cardinality(vreg[v].ref)
      after[k \in 0..refs] ==
        IF k = 0 THEN [size |-> 0, full |-> FALSE, rclass |-> vreg[v].rclass,
                       stacks |-> found.stacks]
        ELSE LET s == after[k - 1]
                 trial == R_find_free_register(s.stacks,
                            [vreg[v] EXCEPT !.rclass = s.rclass], Reserved(v, {}))
             IN  IF s.full THEN s
                 ELSE [size |-> IF trial.reg # None \/ k = 1 THEN k ELSE k - 1,
                       full |-> trial.reg = None, rclass |-> trial.rclass,
                       stacks |-> trial.stacks]
  IN  [range  |-> {i \in vreg[v].ref : Rank(vreg[v].ref, i) < after[refs].size},
       stacks |-> after[refs].stacks]

(* Not one register for one operation: the compiler stops. *)
Insufficient(v) ==
  vreg[v].split = "instr" /\ Cardinality(vreg[v].live) = 1

InstrSplit(v, found) ==
  LET new == Max(DOMAIN vreg) + 1
      range == Portion(v, found).range
  IN  /\ Unallocatable(v, found, {new})
      /\ vreg[v].split # "no"
      /\ ~ Insufficient(v)
      /\ Replace(v, [p \in {v, new} |->
                       Part(v, IF p = v THEN range ELSE vreg[v].ref \ range,
                            "instr", Raised(v))])
      /\ stacks' = Portion(v, found).stacks
      /\ UNCHANGED phase

PuntInsufficient(v, found) ==
  /\ Unallocatable(v, found, {})
  /\ Insufficient(v)
  /\ phase' = "insufficient registers"
  /\ UNCHANGED <<graph, stacks>>

-----------------------------------------------------------------------------
(* The end of a pass *)

Restart ==
  /\ phase = "colour" /\ heap = {}
  /\ uncolored
  /\ pass < MaxPass
  /\ vreg' = [v \in DOMAIN vreg |->
                IF v \in shadow
                THEN [vreg[v] EXCEPT !.base = None,
                        !.rclass = IF vreg[v].benefit.caller
                                        >= vreg[v].benefit.callee
                                   THEN "caller" ELSE "callee"]
                ELSE vreg[v]]
  /\ heap' = shadow
  /\ shadow' = {}
  /\ stacks' = EmptyStacks
  /\ uncolored' = FALSE
  /\ pass' = pass + 1
  /\ phase' = "prune"
  /\ UNCHANGED <<prog, intf, unconstrained>>

AllColoured ==
  /\ phase = "colour" /\ heap = {}
  /\ ~ uncolored
  /\ phase' = "unconstrained"
  /\ UNCHANGED <<prog, graph, stacks, heap, shadow, unconstrained, uncolored,
                 pass>>

(* R_allocate_unconstrained_virtual_registers: the last register pruned is *)
(* coloured first.                                                         *)
ColourUnconstrained ==
  LET v == Last(unconstrained)
  IN  /\ phase = "unconstrained"
      /\ unconstrained # <<>>
      /\ unconstrained' = Front(unconstrained)
      /\ IF Find(v).reg # None
         THEN /\ vreg' = [vreg EXCEPT ![v].base = Find(v).reg,
                                      ![v].rclass = Find(v).rclass]
              /\ stacks' = Find(v).stacks
              /\ UNCHANGED phase
         ELSE /\ phase' = "no register for unconstrained"
              /\ UNCHANGED <<vreg, stacks>>
      /\ UNCHANGED <<prog, intf, heap, shadow, uncolored, pass>>

Finish ==
  /\ phase = "unconstrained" /\ unconstrained = <<>>
  /\ phase' = "done"
  /\ UNCHANGED <<prog, graph, stacks, heap, shadow, unconstrained, uncolored,
                 pass>>

Punts == {"insufficient registers", "no register for unconstrained"}

(* The allocator has returned or punted, or the bound on passes is met. *)
Stop ==
  /\ \/ phase \in Punts \cup {"done"}
     \/ phase = "colour" /\ heap = {} /\ uncolored /\ pass = MaxPass
  /\ UNCHANGED vars

ColourNext ==
  /\ phase = "colour"
  /\ \E v \in HeapTop :
    \/ SkipUnconstrained(v)
    \/ /\ v \notin ToSet(unconstrained)
       /\ \E found \in {Find(v)} :
         \/ Colour(v, found)
         \/ Spill(v, found)
         \/ MarkCbSplit(v, found)
         \/ CbSplit(v, found)
         \/ InstrSplit(v, found)
         \/ PuntInsufficient(v, found)

Next ==
  \/ PruneGraph
  \/ ColourNext
  \/ Restart
  \/ AllColoured
  \/ ColourUnconstrained
  \/ Finish
  \/ Stop

Spec == Init /\ [][Next]_vars
-----------------------------------------------------------------------------
(* Properties *)

(* What a register holds just before and just after an operation: a        *)
(* register that was not spilled holds its value wherever it is live, a    *)
(* spilled one is filled before each use and stored after its definition.  *)
HeldBefore(v, i) ==
  \/ ~ vreg[v].spilled /\ LiveIn(prog, vreg[v].root, i)
  \/ i \in vreg[v].ref \cap prog.use[vreg[v].root]
HeldAfter(v, i) ==
  \/ ~ vreg[v].spilled /\ LiveOut(prog, vreg[v].root, i)
  \/ i \in vreg[v].ref /\ i = prog.def[vreg[v].root]

Conflict(v, w) ==
  \E i \in Ops : \/ HeldBefore(v, i) /\ HeldBefore(w, i)
                 \/ HeldAfter(v, i) /\ HeldAfter(w, i)

(* Spills and splits take arcs away (r_regspill.c:480), but never one      *)
(* between two registers that still hold values at the same moment; arcs   *)
(* stay in both lists.                                                     *)
ConflictsAreArcs ==
  \A v, w \in DOMAIN vreg :
    /\ w \in intf[v] <=> v \in intf[w]
    /\ v # w /\ Conflict(v, w) => w \in intf[v]

(* When the allocator returns, each reference belongs to one register,     *)
(* every register has a place in a bank of its class, and no two that hold *)
(* values at the same moment share a unit: the code computes what it did.  *)
AllocationIsCorrect ==
  phase = "done" =>
    /\ \A r \in DOMAIN prog.def : \A i \in RefInstr(prog, r) :
         Cardinality({v \in DOMAIN vreg : vreg[v].root = r
                                           /\ i \in vreg[v].ref}) = 1
    /\ \A v \in DOMAIN vreg :
         /\ vreg[v].base \in ToSet(Registers(vreg[v].type, vreg[v].rclass))
         /\ UnitsOf(vreg[v].type, vreg[v].base) \cap vreg[v].illegal = {}
    /\ \A v, w \in DOMAIN vreg : v # w /\ Conflict(v, w) =>
         UnitsOf(vreg[v].type, vreg[v].base)
           \cap UnitsOf(vreg[w].type, vreg[w].base) = {}

(* "RA: No free register for unconstrained vreg!!!!": the count that       *)
(* prunes a register leaves it a colour whatever its neighbours got.  An   *)
(* illegal register counts as one unit (r_regalloc.c:2810), so this is for *)
(* functions in which only registers of one unit have illegal ones.        *)
UnconstrainedAreColoured ==
  (\A v \in DOMAIN prog.def :
     Size[prog.type[v]] = 1 \/ prog.illegal[v] = {}) =>
    phase # "no register for unconstrained"

(* "INSUFFICIENT REGISTERS!!!!" is only for an operation one of whose      *)
(* operands finds no register beside the others, by the count that prunes. *)
OperandsFit ==
  \A i \in Ops :
    LET operands == {r \in DOMAIN prog.def : i \in RefInstr(prog, r)}
    IN  \A r \in operands :
          /\ Size[prog.type[r]] = 1 \/ prog.illegal[r] = {}
          /\ Cardinality(prog.illegal[r])
               + MaxSize * Cardinality(operands \ {r}) < TotalUnits
SpillsMakeRoom == OperandsFit => phase # "insufficient registers"

(* The search of a bank (R_find_free_register_in_bank) finds a register    *)
(* whenever one is free, whatever has been moved between the stacks of the *)
(* bank and of the banks that overlap it; no register is lost or doubled.  *)
SearchIsComplete ==
  \A t \in Types, c \in Classes :
    LET all == stacks.alloc[<<t, c>>] \o stacks.avail[<<t, c>>]
    IN  /\ Len(all) = Len(Registers(t, c))
        /\ ToSet(all) = ToSet(Registers(t, c))
        /\ \A reserved \in SUBSET (BaseIndex(c)..(BaseIndex(c) + Units[c] - 1)) :
             LET found == R_find_free_register_in_bank(stacks, t, c, reserved).reg
             IN  IF \E r \in ToSet(Registers(t, c)) :
                        UnitsOf(t, r) \cap reserved = {}
                 THEN /\ found \in ToSet(Registers(t, c))
                      /\ UnitsOf(t, found) \cap reserved = {}
                 ELSE found = None

(* A pass that fails moves a register on, from unspilled to spilled to     *)
(* split at control blocks, and nothing moves one back: before the first   *)
(* split within a control block at most two passes fail for each register  *)
(* of the function, so the loop over passes ends or gets there.            *)
PassesAreBounded ==
  (\A v \in DOMAIN vreg : vreg[v].split # "instr") =>
    pass <= 1 + 2 * Cardinality(DOMAIN prog.def)

(* "identify the largest allocatable portion of the live range"            *)
(* (r_regspill.c:292): the split of a range within its control block       *)
(* leaves references on both sides, so that repeated splits come to an end. *)
InstrSplitsDivide ==
  \A v \in DOMAIN vreg : vreg[v].split = "instr" => vreg[v].ref # {}
=============================================================================
