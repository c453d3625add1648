------------------------------- MODULE Scache -------------------------------
(***************************************************************************)
(* A cache of s_cache.c driven the way its clients drive it: an icache or  *)
(* dcache access (find, then make_MRU on a hit; find_LRU, change_addr and  *)
(* make_MRU on a fill), a C3 hinted access (make_LRU after a hit), a       *)
(* completed prefetch (change_addr without make_MRU) and an invalidation.  *)
(* The specification implements LruCache.                                  *)
(***************************************************************************)
EXTENDS ScacheOps

CONSTANTS NumSets, Assoc, Addrs

ASSUME ScacheAssumption ==
  /\ NumSets \in Nat \ {0} /\ S_is_power_of_two(NumSets)
  /\ Assoc \in Nat \ {0}
  /\ Addrs \subseteq 0 .. MaxId

VARIABLES cache,     \* the cache, a record of ScacheOps
          found,     \* whether the last S_cache_find_addr returned a block
          call       \* what the client did last (history)

vars == <<cache, found, call>>

Init ==
  /\ cache = S_create_cache(NumSets, Assoc)
  /\ found = FALSE
  /\ call = "create"

Found(a) == S_cache_find_addr(cache, a)

(* s_icache.c 271-305 and 401-413, s_dcache.c 2294-2346: on a miss the     *)
(* block that comes back takes the LRU slot and becomes MRU.               *)
Access(a) ==
  LET hit == Found(a) # NULL
      block == IF hit THEN Found(a) ELSE S_cache_find_LRU(cache, a)
      filled == IF hit THEN cache ELSE S_cache_change_addr(cache, block, a)
  IN /\ call' = "access" /\ found' = hit
     /\ cache' = S_cache_make_MRU(filled, block)

(* s_dcache.c 3397-3413: a hit is made MRU and, for a C3 target, LRU.      *)
AccessAndDemote(a) ==
  /\ call' = "demote" /\ found' = (Found(a) # NULL)
  /\ cache' = IF Found(a) = NULL THEN cache
              ELSE S_cache_make_LRU(S_cache_make_MRU(cache, Found(a)), Found(a))

(* s_dcache.c 2294-2374: a prefetched block stays in LRU position.         *)
Prefetch(a) ==
  /\ call' = "prefetch" /\ found' = (Found(a) # NULL)
  /\ cache' = IF Found(a) # NULL THEN cache
              ELSE S_cache_change_addr(cache, S_cache_find_LRU(cache, a), a)

(* s_dcache.c 4040-4050: a block written in the other cache is dropped.    *)
Invalidate(a) ==
  /\ call' = "invalidate" /\ found' = (Found(a) # NULL)
  /\ cache' = IF Found(a) = NULL THEN cache ELSE S_cache_invalidate(cache, Found(a))

Next ==
  \E a \in Addrs :
    Access(a) \/ AccessAndDemote(a) \/ Prefetch(a) \/ Invalidate(a)

Spec == Init /\ [][Next]_vars

-----------------------------------------------------------------------------
Blocks == 1 .. NumSets * Assoc
Sets   == 0 .. NumSets - 1

RecencyList(s) == Chain(cache.tag_next, cache.head[s])

(* A set never loses, gains or repeats a block: its recency list read from *)
(* the head and read backwards from the tail are the same Assoc blocks,    *)
(* and every valid block is in the set its address maps to.  (Whatever mix *)
(* of S_cache_make_MRU, _make_LRU, _invalidate and _change_addr came       *)
(* before.)                                                                *)
SetsKeepTheirBlocks ==
  \A s \in Sets :
    LET down == RecencyList(s)
        up   == Chain(cache.tag_prev, cache.tail[s])
        own  == {down[i] : i \in DOMAIN down}
    IN /\ Len(down) = Assoc /\ Len(up) = Assoc
       /\ \A i \in 1 .. Assoc : up[Assoc + 1 - i] = down[i]
       /\ own = s * Assoc + 1 .. (s + 1) * Assoc
       /\ \A b \in own : Valid(cache, b) => TagIndex(cache, cache.start_addr[b]) = s

(* The hash chains and the valid blocks agree: S_cache_find_addr of the    *)
(* address of a valid block returns that very block, so a valid block can  *)
(* always be found and no address is held by two blocks.                   *)
EveryValidBlockIsFound ==
  \A b \in Blocks : Valid(cache, b) => Found(cache.start_addr[b]) = b

(* No chain of the hash table leads to a block marked UNLINKED, which the  *)
(* loop of S_cache_find_addr would follow to the pointer value -1.         *)
NoChainReachesAnUnlinkedBlock ==
  \A h \in DOMAIN cache.hash :
    LET chain == Chain(cache.hash_next, cache.hash[h])
    IN \A i \in DOMAIN chain :
         /\ Valid(cache, chain[i])
         /\ HashIndex(cache, cache.start_addr[chain[i]]) = h

(* The hand-made lists stay lists: whatever mix of fills, demotions,       *)
(* prefetches and invalidations came before, recency lists hold the blocks *)
(* of their sets and hash chains the valid blocks.                         *)
ListsAreSound ==
  /\ SetsKeepTheirBlocks
  /\ EveryValidBlockIsFound
  /\ NoChainReachesAnUnlinkedBlock

-----------------------------------------------------------------------------
(* The slots of a set as LruCache sees them.                               *)
AbsLines ==
  [s \in Sets |->
     LET list == RecencyList(s)
         slot(b) == IF Valid(cache, b) THEN cache.start_addr[b] ELSE -1
     IN [i \in DOMAIN list |-> slot(list[i])]]

Lru == INSTANCE LruCache WITH lines <- AbsLines

(* Every sequence of calls on the linked lists and hash chains is a        *)
(* behaviour of the set associative LRU cache, lookups answered alike.     *)
ImplementsLruCache == Lru!Spec
=============================================================================
