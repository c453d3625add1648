---------------------------- MODULE MC_Pipeline ----------------------------
(***************************************************************************)
(* Programs of two to four instruction types, in any order, on a machine   *)
(* that is two wide.                                                       *)
(***************************************************************************)
EXTENDS Pipeline

PostIncrement(type, reads, dest, others, addr, size) ==
  [type |-> type, reads |-> reads, first_dest |-> dest,
   dests |-> ({dest} \cup others) \ {NoReg}, addr |-> addr, size |-> size,
   latency |-> [r \in Regs |-> r]]

Op(type, reads, dest, addr, size) == PostIncrement(type, reads, dest, {}, addr, size)

Add == Op("ialu", {1, 2}, 1, 0, 0)
Branch == Op("branch", {}, NoReg, 0, 0)
BranchOn == Op("branch", {1}, NoReg, 0, 0)
BranchOnAddress == Op("branch", {2}, NoReg, 0, 0)
Jsr == Op("jsr", {}, NoReg, 0, 0)
Load == Op("load", {}, 1, 4, 4)
LoadPost == PostIncrement("load", {}, 1, {2}, 4, 4)
StoreWord == Op("store", {1, 2}, NoReg, 4, 4)
StorePost == PostIncrement("store", {}, 2, {}, 4, 1)
Prefetch == Op("prefetch", {}, NoReg, 4, 4)
Check == Op("mem_copy_check", {}, 1, 0, 0)

MCOps == {Add, Branch, BranchOn, BranchOnAddress, Jsr, Load, LoadPost, StoreWord, StorePost,
          Prefetch, Check}

MCUnits == [t \in OpTypes |-> IF t = "ialu" THEN 2 ELSE 1]

Parm(d, s, a, n, p) ==
  [delay_stores |-> d, squash_off_path |-> s, aggressive |-> a, sample_size |-> n,
   program |-> p]

MCParms ==
  {Parm(TRUE, FALSE, FALSE, 2, {Add, Branch, LoadPost}),
   Parm(TRUE, FALSE, FALSE, 3, {Add, LoadPost}),
   Parm(TRUE, TRUE, TRUE, 2, {BranchOn, Load, StoreWord, StorePost}),
   Parm(FALSE, FALSE, TRUE, 2, {Branch, Load, StoreWord}),
   Parm(TRUE, FALSE, TRUE, 2, {BranchOn, Jsr, Prefetch, Check}),
   Parm(TRUE, FALSE, TRUE, 3, {BranchOnAddress, LoadPost, StorePost})}

MCParmsPostIncrement == {Parm(d, FALSE, TRUE, 2, {Load, StorePost}) : d \in BOOLEAN}
=============================================================================
