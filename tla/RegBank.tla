------------------------------ MODULE RegBank --------------------------------
(***************************************************************************)
(* The physical register banks of the register allocator, r_regbank.c.     *)
(* Registers of the types in Types share one register file: Size[t] units  *)
(* of the file make a register of type t, and Units[c] units are saved by  *)
(* the caller or by the callee.  A bank is a type and a class.             *)
(*                                                                         *)
(* A bank keeps two stacks: alloc, the registers the function already      *)
(* uses, and avail, the ones it does not use yet.  The search prefers      *)
(* alloc, and the stacks of the overlapping banks follow each move.  The   *)
(* module is the round-robin allocation (every target but the X86),        *)
(* without macro, rotating and region registers.                           *)
(***************************************************************************)
EXTENDS Integers, Sequences, FiniteSets, SequencesExt, FiniteSetsExt, SeqFilter

CONSTANTS
  Types,      \* overlapping register types
  Size,       \* Size[t]: reg_size, the units of a register of type t
  Units,      \* Units[c]: the units of the banks of class c
  Slots       \* mdes_total_slots: the issue slots of the machine

Classes == {"caller", "callee"}

ASSUME BankAssumption ==
  /\ IsFiniteSet(Types)
  /\ Size \in [Types -> Nat \ {0}]
  /\ Units \in [Classes -> Nat]
  /\ \A c \in Classes, t \in Types : Units[c] % Size[t] = 0
  /\ Slots \in Nat \ {0}

(* No register was found. *)
None == -1

Other(c) == IF c = "caller" THEN "callee" ELSE "caller"

MaxSize == Max({Size[t] : t \in Types})

(* base_index of the banks of a class: the callee's follow the caller's, at *)
(* an even index.                                                          *)
BaseIndex(c) == IF c = "caller" THEN 0 ELSE 2 * ((Units["caller"] + 1) \div 2)

(* The registers of a bank, in the order the stacks are filled. *)
Registers(t, c) ==
  [j \in 1..(Units[c] \div Size[t]) |-> BaseIndex(c) + (j - 1) * Size[t]]

UnitsOf(t, r) == r..(r + Size[t] - 1)

OverlapCnt(t, o) == Max({Size[t] \div Size[o], 1})

(* The registers that move from avail to alloc at a time. *)
AllocInit(t) == (MaxSize \div Size[t]) * Slots

EmptyStacks ==
  [alloc |-> [b \in Types \X Classes |-> <<>>],
   avail |-> [b \in Types \X Classes |-> Registers(b[1], b[2])]]

(* The first register of a stack none of whose units is reserved, 0 if none. *)
FirstFree(stack, t, reserved) ==
  SelectInSeq(stack, LAMBDA r : UnitsOf(t, r) \cap reserved = {})

(* The registers of a stack that are in set, in their order. *)
Keep(stack, set) == Only(stack, set)

Sharing(stack, t, units) == {r \in ToSet(stack) : UnitsOf(t, r) \cap units # {}}

(* Mutant: the overlapping registers are deleted and not pushed again. *)
Rotate_Lost(stack, t, units) ==
  Keep(stack, ToSet(stack) \ Sharing(stack, t, units))

(* Registers that share a unit with r go to the bottom of their stacks. *)
Rotate(stack, t, units) ==
  LET shares == Sharing(stack, t, units)
  IN  Keep(stack, ToSet(stack) \ shares) \o Keep(stack, shares)

Reuse(st, t, c, r) ==
  [st EXCEPT !.alloc = [b \in DOMAIN @ |->
     IF b[2] = c THEN Rotate(@[b], b[1], UnitsOf(t, r)) ELSE @[b]]]

(* batches groups of registers leave avail, in this bank and in the ones   *)
(* that overlap it.                                                        *)
Fetch(st, t, c, batches) ==
  LET Step(o) == IF o = t THEN AllocInit(t)
                 ELSE (AllocInit(o) \div OverlapCnt(t, o)) * OverlapCnt(t, o)
      Moved(b) == IF b[2] # c THEN 0
                  ELSE Min({batches * Step(b[1]), Len(st.avail[b])})
  IN  [alloc |-> [b \in DOMAIN st.alloc |->
                    st.alloc[b] \o SubSeq(st.avail[b], 1, Moved(b))],
       avail |-> [b \in DOMAIN st.avail |->
                    SubSeq(st.avail[b], Moved(b) + 1, Len(st.avail[b]))]]

(* R_find_free_register_in_bank: the register found and the stacks after.  *)
R_find_free_register_in_bank(st, t, c, reserved) ==
  LET used  == st.alloc[<<t, c>>]
      fresh == st.avail[<<t, c>>]
      k     == FirstFree(used, t, reserved)
      n     == FirstFree(fresh, t, reserved)
      BatchesFor(m) == (m + AllocInit(t) - 1) \div AllocInit(t)
  IN  IF k # 0 THEN [reg |-> used[k], stacks |-> Reuse(st, t, c, used[k])]
      ELSE IF n # 0
      THEN [reg |-> fresh[n], stacks |-> Fetch(st, t, c, BatchesFor(n))]
      ELSE [reg |-> None,
            stacks |-> Fetch(st, t, c, Max({1, BatchesFor(Len(fresh))}))]

(* R_find_free_register: the preferred bank, then the other one if it costs *)
(* nothing to use it.  The class of the register becomes the bank's.       *)
R_find_free_register(st, v, reserved) ==
  LET first  == R_find_free_register_in_bank(st, v.type, v.rclass, reserved)
      second == R_find_free_register_in_bank(first.stacks, v.type,
                                             Other(v.rclass), reserved)
      none   == [reg |-> None, rclass |-> v.rclass, stacks |-> st]
  IN  IF v.rclass = "prefer_spill" THEN none
      ELSE IF first.reg # None \/ v.benefit[Other(v.rclass)] < 0
      THEN [none EXCEPT !.reg = first.reg, !.stacks = first.stacks]
      ELSE IF second.reg # None
      THEN [reg |-> second.reg, rclass |-> Other(v.rclass),
            stacks |-> second.stacks]
      ELSE [none EXCEPT !.stacks = second.stacks]
=============================================================================
