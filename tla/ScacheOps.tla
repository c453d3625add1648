----------------------------- MODULE ScacheOps -----------------------------
(***************************************************************************)
(* The cache library of Lsim (s_cache.c), operation by operation, at the   *)
(* level of its pointers.  A cache is a record: for every set the head and *)
(* the tail of a doubly linked list of blocks (tag_next, tag_prev) in      *)
(* order of recency, and a hash table of doubly linked chains (hash_next,  *)
(* hash_prev) that finds the block of an address.  An operation is an      *)
(* operator from caches to caches (or to the block it returns).            *)
(*                                                                         *)
(* Blocks are 1 .. n, NULL is 0.  Addresses are block numbers of an        *)
(* address space of MaxId + 1 blocks (a power of two).                     *)
(***************************************************************************)
EXTENDS Integers, Sequences, FiniteSets

CONSTANT MaxId       \* number of the highest block, the one address -1 is in

ASSUME MaxIdAssumption == MaxId \in Nat

NULL    == 0
UNLINKED == -1       \* pointer value -1: the block is in no hash chain

Bit(n, k) == (n \div 2^k) % 2

(* The two helpers on sizes; both look for the rightmost 1 bit.            *)
S_log_base_two(number) ==
  CHOOSE shift \in 0 .. 30 : /\ Bit(number, shift) = 1
                             /\ \A k \in 0 .. shift - 1 : Bit(number, k) = 0

S_is_power_of_two(number) ==
  number > 0 /\ number = 2^S_log_base_two(number)

HashTabSize(num_of_blocks) ==
  IF S_is_power_of_two(num_of_blocks)
  THEN num_of_blocks
  ELSE 2^(S_log_base_two(num_of_blocks) + 1)

(* Set s is filled with blocks s*assoc+1, ..., (s+1)*assoc, each added at  *)
(* the head, and no block is in a hash chain.                              *)
S_create_cache(num_of_sets, assoc) ==
  LET blocks == 1 .. num_of_sets * assoc
      sets   == 0 .. num_of_sets - 1
  IN [sets       |-> num_of_sets,
      hsize      |-> HashTabSize(num_of_sets * assoc),
      head       |-> [s \in sets |-> (s + 1) * assoc],
      tail       |-> [s \in sets |-> s * assoc + 1],
      tag_next   |-> [b \in blocks |-> IF b % assoc = 1 % assoc THEN NULL ELSE b - 1],
      tag_prev   |-> [b \in blocks |-> IF b % assoc = 0 THEN NULL ELSE b + 1],
      hash       |-> [h \in 0 .. HashTabSize(num_of_sets * assoc) - 1 |-> NULL],
      hash_next  |-> [b \in blocks |-> UNLINKED],
      hash_prev  |-> [b \in blocks |-> UNLINKED],
      start_addr |-> [b \in blocks |-> MaxId]]

(* (addr >> block_id_shift) & mask, for the two masks of a cache.          *)
TagIndex(c, addr)  == addr % c.sets
HashIndex(c, addr) == addr % c.hsize

BlocksOf(c) == DOMAIN c.start_addr
Valid(c, block) == c.hash_next[block] # UNLINKED

(* The blocks met from first along next, as the code's loops meet them.    *)
Chain(next, first) ==
  LET n == Cardinality(DOMAIN next)
      at[k \in 0 .. n] == IF k = 0 THEN first
                          ELSE IF at[k - 1] \in DOMAIN next THEN next[at[k - 1]]
                          ELSE NULL
      len == Cardinality({k \in 0 .. n : at[k] \in DOMAIN next})
  IN [k \in 1 .. len |-> at[k - 1]]

(* First block of the hash chain with that address, NULL if there is none. *)
S_cache_find_addr(c, addr) ==
  LET chain == Chain(c.hash_next, c.hash[HashIndex(c, addr)])
      hits  == {k \in DOMAIN chain : c.start_addr[chain[k]] = addr}
  IN IF hits = {} THEN NULL
     ELSE chain[CHOOSE k \in hits : \A j \in hits : k <= j]

S_cache_find_LRU(c, for_addr) == c.tail[TagIndex(c, for_addr)]

(* Take block out of the hash chain of its address.                        *)
HashUnlink(c, block) ==
  LET h == HashIndex(c, c.start_addr[block])
      p == c.hash_prev[block]
      n == c.hash_next[block]
  IN [c EXCEPT !.hash      = IF p = NULL THEN [@ EXCEPT ![h] = n] ELSE @,
               !.hash_next = IF p # NULL THEN [@ EXCEPT ![p] = n] ELSE @,
               !.hash_prev = IF n # NULL THEN [@ EXCEPT ![n] = p] ELSE @]

(* Mutant: the rest of the chain is forgotten.                             *)
HashLink_DropsChain(c, block, new_addr) ==
  LET h == HashIndex(c, new_addr)
  IN [c EXCEPT !.hash[h] = block,
               !.hash_prev[block]  = NULL,
               !.hash_next[block]  = NULL,
               !.start_addr[block] = new_addr]

(* Put block at the front of the hash chain of new_addr.                   *)
HashLink(c, block, new_addr) ==
  LET h == HashIndex(c, new_addr)
      n == c.hash[h]
  IN [c EXCEPT !.hash[h]   = block,
               !.hash_prev = IF n # NULL
                             THEN [@ EXCEPT ![n] = block, ![block] = NULL]
                             ELSE [@ EXCEPT ![block] = NULL],
               !.hash_next[block]  = n,
               !.start_addr[block] = new_addr]

S_cache_change_addr(c, block, new_addr) ==
  IF Valid(c, block) THEN HashLink(HashUnlink(c, block), block, new_addr)
  ELSE HashLink(c, block, new_addr)

(* Mutant: the tail of the list still names the block that left.           *)
ToHead_KeepsTail(c, t, block) ==
  LET p == c.tag_prev[block]
      n == c.tag_next[block]
      u == [c EXCEPT !.tag_next[p] = n,
                     !.tag_prev    = IF n # NULL THEN [@ EXCEPT ![n] = p] ELSE @]
  IN [u EXCEPT !.tag_prev = [@ EXCEPT ![u.head[t]] = block, ![block] = NULL],
               !.tag_next[block] = u.head[t],
               !.head[t] = block]

(* Take a block with a predecessor out of the recency list of set t and    *)
(* put it at the head.                                                     *)
ToHead(c, t, block) ==
  LET p == c.tag_prev[block]
      n == c.tag_next[block]
      u == [c EXCEPT !.tag_next[p] = n,
                     !.tail        = IF n = NULL THEN [@ EXCEPT ![t] = p] ELSE @,
                     !.tag_prev    = IF n # NULL THEN [@ EXCEPT ![n] = p] ELSE @]
  IN [u EXCEPT !.tag_prev = [@ EXCEPT ![u.head[t]] = block, ![block] = NULL],
               !.tag_next[block] = u.head[t],
               !.head[t] = block]

(* Take a block with a successor out of the list and put it at the tail.   *)
ToTail(c, t, block) ==
  LET p == c.tag_prev[block]
      n == c.tag_next[block]
      u == [c EXCEPT !.tag_prev[n] = p,
                     !.head        = IF p = NULL THEN [@ EXCEPT ![t] = n] ELSE @,
                     !.tag_next    = IF p # NULL THEN [@ EXCEPT ![p] = n] ELSE @]
  IN [u EXCEPT !.tag_next = [@ EXCEPT ![u.tail[t]] = block, ![block] = NULL],
               !.tag_prev[block] = u.tail[t],
               !.tail[t] = block]

S_cache_make_MRU(c, block) ==
  IF c.tag_prev[block] # NULL
  THEN ToHead(c, TagIndex(c, c.start_addr[block]), block) ELSE c

(* Mutant: the guard of S_cache_make_MRU, copied.                          *)
S_cache_make_LRU_GuardOfMRU(c, block) ==
  IF c.tag_prev[block] # NULL
  THEN ToTail(c, TagIndex(c, c.start_addr[block]), block) ELSE c

S_cache_make_LRU(c, block) ==
  IF c.tag_next[block] # NULL
  THEN ToTail(c, TagIndex(c, c.start_addr[block]), block) ELSE c

(* Mutant: the block is marked but stays in its hash chain.                *)
S_cache_invalidate_StaysLinked(c, block) ==
  IF ~ Valid(c, block) THEN c
  ELSE LET t == TagIndex(c, c.start_addr[block])
           u == [c EXCEPT !.hash_next[block] = UNLINKED,
                          !.hash_prev[block] = UNLINKED]
           v == IF u.tag_next[block] # NULL THEN ToTail(u, t, block) ELSE u
       IN [v EXCEPT !.start_addr[block] = MaxId]

S_cache_invalidate(c, block) ==
  IF ~ Valid(c, block) THEN c
  ELSE LET t == TagIndex(c, c.start_addr[block])
           u == [HashUnlink(c, block) EXCEPT !.hash_next[block] = UNLINKED,
                                             !.hash_prev[block] = UNLINKED]
           v == IF u.tag_next[block] # NULL THEN ToTail(u, t, block) ELSE u
       IN [v EXCEPT !.start_addr[block] = MaxId]
=============================================================================
