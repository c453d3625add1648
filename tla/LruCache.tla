------------------------------ MODULE LruCache ------------------------------
(***************************************************************************)
(* What the cache library of Lsim promises its clients (instruction cache, *)
(* data cache, TLBs, BTB, buffer pages): NumSets independent sets of Assoc *)
(* slots, each kept in order of recency, and an associative lookup.        *)
(* Scache.tla, the pointer level model of s_cache.c, implements this.      *)
(***************************************************************************)
EXTENDS LruOps

CONSTANT Addrs       \* the block numbers clients use

VARIABLES lines,     \* the contents, a value of LruOps
          found,     \* the answer of the last lookup
          call       \* the operation just performed

lruVars == <<lines, found, call>>

Init == lines = EmptyLines /\ found = FALSE /\ call = "create"

Lookup(a) == found' = Has(lines, a)

(* A hit moves the block to the front; a miss sacrifices the least         *)
(* recently used slot.                                                     *)
Access(a) ==
  /\ call' = "access" /\ Lookup(a)
  /\ lines' = IF Has(lines, a) THEN Promote(lines, a) ELSE Fill(lines, a)

(* An access whose hint asks that a resident block be the next victim.     *)
AccessAndDemote(a) ==
  /\ call' = "demote" /\ Lookup(a)
  /\ lines' = IF Has(lines, a) THEN Demote(lines, a) ELSE lines

(* A completed prefetch must not look like a use of the block.             *)
Prefetch(a) ==
  /\ call' = "prefetch" /\ Lookup(a)
  /\ lines' = IF Has(lines, a) THEN lines ELSE FillInPlace(lines, a)

Invalidate(a) ==
  /\ call' = "invalidate" /\ Lookup(a)
  /\ lines' = IF Has(lines, a) THEN Drop(lines, a) ELSE lines

Next ==
  \E a \in Addrs :
    Access(a) \/ AccessAndDemote(a) \/ Prefetch(a) \/ Invalidate(a)

Spec == Init /\ [][Next]_lruVars
=============================================================================
