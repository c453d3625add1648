------------------------------- MODULE Dcache -------------------------------
(***************************************************************************)
(* Where a store's data is in Lsim's data cache (s_dcache.c): in a dirty   *)
(* block of the first level cache, in a dirty block of the victim cache    *)
(* that takes the blocks the first level replaces, or in the write buffer  *)
(* on its way to memory.  The caches are those of s_cache.c, pointers and  *)
(* all (ScacheOps); addresses are block numbers.                           *)
(*                                                                         *)
(* An access may name a target cache (Playdoh hints): C1 makes a store     *)
(* miss allocate, C3 asks that the block be replaced soon.                 *)
(*                                                                         *)
(* A prefetch claims the least recently used block of its set with the     *)
(* PREFETCH_BIT and waits in prefetch_request_buffer until the bus manager *)
(* asks memory for it.  It looks in the first level only, and so may bring *)
(* in a block that the victim cache has.                                   *)
(*                                                                         *)
(* Left out: the prefetch cache, the TLB, the timing of the bus (a write   *)
(* may be sent, a block may arrive, at any time; memory answers in the     *)
(* order it was asked), and stores combined with one in the write buffer,  *)
(* which leave no trace here.                                              *)
(***************************************************************************)
EXTENDS ScacheOps, SequencesExt

CONSTANTS NumSets, Assoc,   \* geometry of the first level cache
          VictimBlocks,     \* size of the victim cache, fully associative
          Addrs,            \* blocks the program accesses
          Stored,           \* blocks it stores to
          Prefetched,       \* blocks it prefetches
          S_dcache_write_allocate,   \* do all store misses fetch the block?
          S_dcache_prefetch_buf_size,
          S_dcache_ignore_prefetch_bit,   \* install cancelled prefetches too?
          MaxWrites,        \* bound on the write buffer, but for one write-back
          MaxRequests       \* bound on what memory is asked for at a time

ASSUME DcacheAssumption ==
  /\ NumSets \in Nat \ {0} /\ Assoc \in Nat \ {0} /\ VictimBlocks \in Nat \ {0}
  /\ Addrs \subseteq 0 .. MaxId - 1 /\ Stored \cup Prefetched \subseteq Addrs
  /\ {S_dcache_write_allocate, S_dcache_ignore_prefetch_bit} \subseteq BOOLEAN

VARIABLES S_victim_cache,  \* parameter: is there a victim cache?
          dcache,          \* first level cache
          dirty,           \* DIRTY_BLOCK flag of its blocks
          prefetch_bit,    \* PREFETCH_BIT flag of its blocks
          vcache, vdirty,  \* the victim cache and its dirty flags
          prefetch_request_buffer,   \* prefetches memory was not asked for
          requests,        \* [addr, kind]: what memory was asked for, in
                           \* order; kind is "miss" (miss_buffer), or
                           \* "prefetch" or "taken over" (pending_prefetches)
          write_buffer,    \* [addr, whole]: write-backs are whole blocks
          absorbed,        \* blocks holding stores memory lacks (history)
          twice            \* blocks a prefetch brought in while the victim
                           \* cache had them (history)

l1 == <<dcache, dirty, prefetch_bit>>
victim == <<vcache, vdirty>>
waiting == <<prefetch_request_buffer, requests>>
vars == <<S_victim_cache, l1, victim, waiting, write_buffer, absorbed, twice>>

Init ==
  /\ S_victim_cache \in BOOLEAN
  /\ dcache = S_create_cache(NumSets, Assoc)
  /\ dirty = [b \in BlocksOf(dcache) |-> FALSE]
  /\ vcache = S_create_cache(1, VictimBlocks)
  /\ vdirty = [b \in BlocksOf(vcache) |-> FALSE]
  /\ prefetch_bit = [b \in BlocksOf(dcache) |-> FALSE]
  /\ prefetch_request_buffer = << >> /\ requests = << >>
  /\ write_buffer = << >>
  /\ absorbed = {} /\ twice = {}

InL1(a) == S_cache_find_addr(dcache, a) # NULL
InVictim(a) == S_victim_cache /\ S_cache_find_addr(vcache, a) # NULL

WriteBackPending(a) ==
  \E i \in DOMAIN write_buffer : write_buffer[i] = [addr |-> a, whole |-> TRUE]

(* S_find_outstanding_request: prefetches in the request buffer, for which *)
(* memory was not asked yet, are not looked at.                            *)
Outstanding(a) == \E i \in DOMAIN requests : requests[i].addr = a

(* A load or an allocating store that misses: a prefetch on its way is     *)
(* taken over, a request on its way is shared, otherwise one is made.      *)
Requested(a) ==
  IF Outstanding(a)
  THEN [i \in DOMAIN requests |->
          IF requests[i] = [addr |-> a, kind |-> "prefetch"]
          THEN [requests[i] EXCEPT !.kind = "taken over"] ELSE requests[i]]
  ELSE Append(requests, [addr |-> a, kind |-> "miss"])

(* cancel_prefetch, for an access to a that finds block: the oldest        *)
(* prefetch for the same set that memory was not asked for is dropped.     *)
SameSet(a) == SelectInSeq(prefetch_request_buffer,
                          LAMBDA p : TagIndex(dcache, p) = TagIndex(dcache, a))

CancelPrefetch(block, a) ==
  /\ prefetch_bit' = [prefetch_bit EXCEPT ![block] = FALSE]
  /\ prefetch_request_buffer' =
       IF prefetch_bit[block] /\ SameSet(a) # 0
       THEN RemoveAt(prefetch_request_buffer, SameSet(a))
       ELSE prefetch_request_buffer
-----------------------------------------------------------------------------
(* Mutant: the block of the victim cache keeps its address.                *)
Exchange_OneWay(a) ==
  LET block2 == S_cache_find_LRU(dcache, a)
  IN [l1 |-> S_cache_change_addr(dcache, block2, a),
      victim |-> vcache, block |-> block2]

(* A hit in the victim cache exchanges the addresses of its block and of   *)
(* the first level block in whose place it goes; the data of a block, its  *)
(* flags, stay where they are.                                             *)
Exchange(a) ==
  LET block2 == S_cache_find_LRU(dcache, a)
      addr2  == dcache.start_addr[block2]
  IN [l1 |-> S_cache_change_addr(dcache, block2, a),
      victim |-> S_cache_change_addr(vcache, S_cache_find_addr(vcache, a), addr2),
      block |-> block2]

(* Loads.  A hit makes the block most recently used and then, if the       *)
(* target is C3, least recently used.  A load that misses is served from   *)
(* the write buffer if it can be, otherwise the block is requested.        *)
AfterLoad(c, block, c3) ==
  IF c3 THEN S_cache_make_LRU(S_cache_make_MRU(c, block), block)
  ELSE S_cache_make_MRU(c, block)

LoadHit(a, c3) ==
  /\ InL1(a)
  /\ LET block == S_cache_find_addr(dcache, a)
     IN /\ dcache' = AfterLoad(dcache, block, c3)
        /\ CancelPrefetch(block, a)
  /\ UNCHANGED <<S_victim_cache, dirty, victim, requests, write_buffer,
                 absorbed, twice>>

LoadVictimHit(a, c3) ==
  /\ ~ InL1(a) /\ InVictim(a)
  /\ LET new == Exchange(a)
     IN /\ dcache' = AfterLoad(new.l1, new.block, c3)
        /\ vcache' = new.victim
        /\ CancelPrefetch(new.block, a)
  /\ UNCHANGED <<S_victim_cache, dirty, vdirty, requests, write_buffer,
                 absorbed, twice>>

LoadMiss(a) ==
  /\ ~ InL1(a) /\ ~ InVictim(a)
  /\ ~ WriteBackPending(a)
  /\ Len(Requested(a)) <= MaxRequests
  /\ requests' = Requested(a)
  /\ UNCHANGED <<S_victim_cache, l1, victim, prefetch_request_buffer, write_buffer,
                 absorbed, twice>>

(* Stores.  A hit marks the block dirty and makes it, for target C3, least *)
(* recently used, and then, in any case, most recently used.  A miss goes  *)
(* to the write buffer and, with write allocate or target C1, also         *)
(* requests the block.                                                     *)
AfterStore(c, block, c3) ==
  S_cache_make_MRU(IF c3 THEN S_cache_make_LRU(c, block) ELSE c, block)

StoreHit(a, c3) ==
  /\ InL1(a)
  /\ LET block == S_cache_find_addr(dcache, a)
     IN /\ dcache' = AfterStore(dcache, block, c3)
        /\ dirty' = [dirty EXCEPT ![block] = TRUE]
        /\ CancelPrefetch(block, a)
  /\ absorbed' = absorbed \cup {a}
  /\ UNCHANGED <<S_victim_cache, victim, requests, write_buffer, twice>>

StoreVictimHit(a, c3) ==
  /\ ~ InL1(a) /\ InVictim(a)
  /\ LET new == Exchange(a)
     IN /\ dcache' = AfterStore(new.l1, new.block, c3)
        /\ dirty' = [dirty EXCEPT ![new.block] = TRUE]
        /\ vcache' = new.victim
        /\ CancelPrefetch(new.block, a)
  /\ absorbed' = absorbed \cup {a}
  /\ UNCHANGED <<S_victim_cache, vdirty, requests, write_buffer, twice>>

StoreMiss(a, c1) ==
  /\ ~ InL1(a) /\ ~ InVictim(a)
  /\ Len(write_buffer) < MaxWrites
  /\ write_buffer' = Append(write_buffer, [addr |-> a, whole |-> FALSE])
  /\ IF S_dcache_write_allocate \/ c1
     THEN /\ Len(Requested(a)) <= MaxRequests
          /\ requests' = Requested(a)
          /\ IF Outstanding(a)
             THEN UNCHANGED <<prefetch_bit, prefetch_request_buffer>>
             ELSE CancelPrefetch(S_cache_find_LRU(dcache, a), a)
     ELSE UNCHANGED <<prefetch_bit, waiting>>
  /\ UNCHANGED <<S_victim_cache, dcache, dirty, victim, absorbed, twice>>

(* A prefetch that misses in the first level, whose set has no prefetch    *)
(* yet, for which there is room and nothing on its way.  Any other one is  *)
(* dropped and changes nothing.                                            *)
Prefetch(a) ==
  /\ ~ InL1(a) /\ ~ Outstanding(a)
  /\ Len(prefetch_request_buffer) < S_dcache_prefetch_buf_size
  /\ LET block == S_cache_find_LRU(dcache, a)
     IN /\ ~ prefetch_bit[block]
        /\ prefetch_bit' = [prefetch_bit EXCEPT ![block] = TRUE]
  /\ prefetch_request_buffer' = Append(prefetch_request_buffer, a)
  /\ UNCHANGED <<S_victim_cache, dcache, dirty, victim, requests,
                 write_buffer, absorbed, twice>>

(* The bus manager asks memory for the oldest prefetch, or sends it the    *)
(* oldest write.  (Misses go before either, and are in requests at once.)  *)
SendPrefetch ==
  /\ prefetch_request_buffer # << >> /\ Len(requests) < MaxRequests
  /\ requests' = Append(requests, [addr |-> Head(prefetch_request_buffer),
                                   kind |-> "prefetch"])
  /\ prefetch_request_buffer' = Tail(prefetch_request_buffer)
  /\ UNCHANGED <<S_victim_cache, l1, victim, write_buffer, absorbed, twice>>

SendWrite ==
  /\ write_buffer # << >>
  /\ write_buffer' = Tail(write_buffer)
  /\ UNCHANGED <<S_victim_cache, l1, victim, waiting, absorbed, twice>>
-----------------------------------------------------------------------------
(* Mutant: the DIRTY_BLOCK flag of the block that leaves is not looked at. *)
Replaced_NoWriteBack(a) ==
  LET block == S_cache_find_LRU(dcache, a)
  IN [block |-> block,
      l1 |-> S_cache_change_addr(dcache, block, a),
      dirty |-> [dirty EXCEPT ![block] = FALSE],
      victim |-> vcache, vdirty |-> vdirty, written |-> {}]

(* replace_dcache_block: the block that leaves (the victim cache's, if     *)
(* there is one) is written back when it is valid and dirty; the first     *)
(* level block moves to the victim cache, with its flag.                   *)
Replaced(a) ==
  LET block == S_cache_find_LRU(dcache, a)
      old   == dcache.start_addr[block]
      out   == S_cache_find_LRU(vcache, old)
      leaves == IF S_victim_cache
                THEN [valid |-> Valid(vcache, out), dirty |-> vdirty[out],
                      addr |-> vcache.start_addr[out]]
                ELSE [valid |-> Valid(dcache, block), dirty |-> dirty[block],
                      addr |-> old]
  IN [block |-> block,
      l1 |-> S_cache_change_addr(dcache, block, a),
      dirty |-> [dirty EXCEPT ![block] = FALSE],
      victim |-> IF S_victim_cache THEN S_cache_change_addr(vcache, out, old) ELSE vcache,
      vdirty |-> IF S_victim_cache THEN [vdirty EXCEPT ![out] = dirty[block]] ELSE vdirty,
      written |-> IF leaves.valid /\ leaves.dirty THEN {leaves.addr} ELSE {}]

(* write_buffer_to_block: the writes for the block that came are merged    *)
(* into it, and it is dirty if there were any.                             *)
Merged(wb, a) == SelectSeq(wb, LAMBDA w : w.addr # a)

(* replace_dcache_block when the block a comes from memory, and the        *)
(* write-back it makes.                                                    *)
WriteBuffer(new) ==
  write_buffer \o SetToSeq({[addr |-> w, whole |-> TRUE] : w \in new.written})

(* bus_data_to_cache for the block of a miss, unless the block is there    *)
(* already.                                                                *)
BlockArrives ==
  /\ requests # << >> /\ Head(requests).kind = "miss"
  /\ Len(write_buffer) <= MaxWrites
  /\ requests' = Tail(requests)
  /\ LET a == Head(requests).addr
         new == Replaced(a)
         wb  == WriteBuffer(new)
         merge == Merged(wb, a) # wb
     IN IF InL1(a)
        THEN UNCHANGED <<l1, victim, write_buffer, absorbed>>
        ELSE /\ dcache' = S_cache_make_MRU(new.l1, new.block)
             /\ dirty' = [new.dirty EXCEPT ![new.block] = merge]
             /\ prefetch_bit' = [prefetch_bit EXCEPT ![new.block] = FALSE]
             /\ vcache' = new.victim
             /\ vdirty' = new.vdirty
             /\ write_buffer' = Merged(wb, a)
             /\ absorbed' = (absorbed \ new.written) \cup (IF merge THEN {a} ELSE {})
  /\ UNCHANGED <<S_victim_cache, prefetch_request_buffer, twice>>

(* The same for a prefetch.  One a load or store took over goes where a    *)
(* miss would, but takes no writes from the write buffer; another one      *)
(* needs the PREFETCH_BIT of the block it replaces, and stays the next to  *)
(* be replaced; without the bit (it was cancelled) it is thrown away.      *)
PrefetchArrives ==
  /\ requests # << >> /\ Head(requests).kind # "miss"
  /\ Len(write_buffer) <= MaxWrites
  /\ requests' = Tail(requests)
  /\ LET a == Head(requests).addr
         used_by_load == Head(requests).kind = "taken over"
         new == Replaced(a)
         wanted == \/ prefetch_bit[new.block]
                   \/ S_dcache_ignore_prefetch_bit
                   \/ used_by_load
     IN IF InL1(a) \/ ~ wanted
        THEN UNCHANGED <<l1, victim, write_buffer, absorbed, twice>>
        ELSE /\ dcache' = IF used_by_load THEN S_cache_make_MRU(new.l1, new.block)
                          ELSE new.l1
             /\ dirty' = new.dirty
             /\ prefetch_bit' = [prefetch_bit EXCEPT ![new.block] = ~ used_by_load]
             /\ vcache' = new.victim
             /\ vdirty' = new.vdirty
             /\ write_buffer' = WriteBuffer(new)
             /\ absorbed' = absorbed \ new.written
             /\ twice' = IF InVictim(a) THEN twice \cup {a} ELSE twice
  /\ UNCHANGED <<S_victim_cache, prefetch_request_buffer>>

Next ==
  \/ \E a \in Addrs : LoadMiss(a)
  \/ \E a \in Prefetched : Prefetch(a)
  \/ \E a \in Addrs, hint \in BOOLEAN : LoadHit(a, hint) \/ LoadVictimHit(a, hint)
  \/ \E a \in Stored, hint \in BOOLEAN :
       \/ StoreHit(a, hint) \/ StoreVictimHit(a, hint) \/ StoreMiss(a, hint)
  \/ SendPrefetch \/ SendWrite \/ BlockArrives \/ PrefetchArrives

Spec == Init /\ [][Next]_vars
-----------------------------------------------------------------------------
DirtyIn(c, flag, a) ==
  \E b \in BlocksOf(c) : Valid(c, b) /\ c.start_addr[b] = a /\ flag[b]

Marked(a) == DirtyIn(dcache, dirty, a) \/ DirtyIn(vcache, vdirty, a)

(* A hit in the victim cache: its block comes to the first level without   *)
(* anything from memory.                                                   *)
Exchanges(a) == ~ InL1(a) /\ InVictim(a) /\ InL1(a)' /\ UNCHANGED requests

(* No store is forgotten: a block that takes a store is marked dirty in    *)
(* the cache it is in, and as long as memory does not have the store no    *)
(* step loses the mark, so that the block will be written back.  The one   *)
(* exception is the exchange with the victim cache, which leaves the marks *)
(* of two blocks where they were.  Without a victim cache there is none.   *)
OnlyExchangesLoseStores ==
  [][\/ \A a \in absorbed' : (a \in absorbed => Marked(a)) => Marked(a)'
     \/ \E a \in Addrs : Exchanges(a)]_vars

(* There is one copy of a block to update: it is in one block of one of    *)
(* the two caches, unless a prefetch, which does not look in the victim    *)
(* cache, once brought it in although the victim cache had it.             *)
OnlyPrefetchesDuplicate ==
  \A a \in Addrs \ twice :
    LET Copies(c) == {b \in BlocksOf(c) : Valid(c, b) /\ c.start_addr[b] = a}
    IN Cardinality(Copies(dcache)) + Cardinality(Copies(vcache)) <= 1
=============================================================================
