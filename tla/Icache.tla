------------------------------- MODULE Icache -------------------------------
(***************************************************************************)
(* The instruction cache of Lsim (s_icache.c).  It serves one miss at a    *)
(* time: icache_busy from the cycle of the miss until the last segment of  *)
(* the block, sent_request once the request is on the bus.  The processor  *)
(* and the cache talk through icache_addr_requested (0 is no request) and  *)
(* icache_bytes_returned.                                                  *)
(***************************************************************************)
EXTENDS BusMem, LruOps

CONSTANT S_icache_block_size   \* bytes in a block

ASSUME IcacheAssumption ==
  /\ S_icache_block_size \in Nat /\ S_icache_block_size >= 4
  /\ NumSets \in Nat \ {0} /\ Assoc \in Nat \ {0}

VARIABLES S_icache_model,          \* parameter of the simulation
          icache,                  \* busy, sent_request, request_addr
          icache_addr_requested,   \* address asked for, or delivered
          icache_bytes_returned,   \* bytes usable from that address on
          ilines                   \* the blocks the cache holds

icacheVars == <<icache, icache_addr_requested, icache_bytes_returned, ilines>>

BlockOf(addr) == addr \div S_icache_block_size
StartAddr(addr) == BlockOf(addr) * S_icache_block_size

IcacheModels == {"PERFECT", "STANDARD", "SPLIT_BLOCK"}

IcacheInit ==
  /\ S_icache_model \in IcacheModels
  /\ icache = [busy |-> FALSE, sent_request |-> FALSE, request_addr |-> 0]
  /\ icache_addr_requested = 0
  /\ icache_bytes_returned = 0
  /\ ilines = EmptyLines

(* The perfect cache answers every request with a whole block.             *)
IcachePerfect ==
  /\ S_icache_model = "PERFECT"
  /\ icache_bytes_returned' =
       IF icache_addr_requested # 0 THEN S_icache_block_size ELSE 0
  /\ UNCHANGED <<S_bus, punted, icache, icache_addr_requested, ilines>>

(* Mutant: the request is sent whether or not the bus is free.             *)
IcacheSendsRequest_BusyBus ==
  /\ S_icache_model # "PERFECT"
  /\ icache.busy
  /\ IF ~ icache.sent_request
     THEN /\ Transaction("READ_REQUEST", "ICACHE", "MEMORY",
                         StartAddr(icache.request_addr), S_icache_block_size)
          /\ icache' = [icache EXCEPT !.sent_request = TRUE]
     ELSE UNCHANGED <<S_bus, punted, icache>>
  /\ UNCHANGED <<icache_addr_requested, icache_bytes_returned, ilines>>

(* A miss is being served: put the request on the bus when it is free.     *)
IcacheSendsRequest ==
  /\ S_icache_model # "PERFECT"
  /\ icache.busy
  /\ IF ~ icache.sent_request /\ S_bus.avail
     THEN /\ Transaction("READ_REQUEST", "ICACHE", "MEMORY",
                         StartAddr(icache.request_addr), S_icache_block_size)
          /\ icache' = [icache EXCEPT !.sent_request = TRUE]
     ELSE UNCHANGED <<S_bus, punted, icache>>
  /\ UNCHANGED <<icache_addr_requested, icache_bytes_returned, ilines>>

(* Mutant: sent_request keeps its value from the last miss.                *)
IcacheMiss_KeepsSent ==
  /\ S_icache_model # "PERFECT"
  /\ ~ icache.busy /\ icache_addr_requested # 0
  /\ ~ Has(ilines, BlockOf(icache_addr_requested))
  /\ icache' = [icache EXCEPT !.busy = TRUE, !.request_addr = icache_addr_requested]
  /\ icache_addr_requested' = 0
  /\ icache_bytes_returned' = 0
  /\ UNCHANGED <<S_bus, punted, ilines>>

(* A request for a block that is not there starts a miss; nothing is       *)
(* returned to the processor.                                              *)
IcacheMiss ==
  /\ S_icache_model # "PERFECT"
  /\ ~ icache.busy /\ icache_addr_requested # 0
  /\ ~ Has(ilines, BlockOf(icache_addr_requested))
  /\ icache' = [busy |-> TRUE, sent_request |-> FALSE,
                request_addr |-> icache_addr_requested]
  /\ icache_addr_requested' = 0
  /\ icache_bytes_returned' = 0
  /\ UNCHANGED <<S_bus, punted, ilines>>

(* A hit returns the rest of the block; the split block cache adds half of *)
(* the next block when less than half of this one is left.                 *)
IcacheHit ==
  LET block  == BlockOf(icache_addr_requested)
      useful == StartAddr(icache_addr_requested) + S_icache_block_size
                  - icache_addr_requested
      made   == Promote(ilines, block)
      split  == /\ useful <= S_icache_block_size \div 2
                /\ S_icache_model = "SPLIT_BLOCK"
                /\ Has(made, block + 1)
  IN /\ S_icache_model # "PERFECT"
     /\ ~ icache.busy /\ icache_addr_requested # 0
     /\ Has(ilines, block)
     /\ ilines' = IF split THEN Promote(made, block + 1) ELSE made
     /\ icache_bytes_returned' =
          IF split THEN useful + S_icache_block_size \div 2 ELSE useful
     /\ UNCHANGED <<S_bus, punted, icache, icache_addr_requested>>

(* Not busy and nothing asked for: icache_bytes_returned keeps its value.  *)
IcacheIdle ==
  /\ S_icache_model # "PERFECT"
  /\ ~ icache.busy /\ icache_addr_requested = 0
  /\ UNCHANGED <<S_bus, punted, icacheVars>>

IcacheFirstHalf ==
  \/ IcachePerfect
  \/ IcacheSendsRequest
  \/ IcacheMiss
  \/ IcacheHit
  \/ IcacheIdle

(* S_sim_icache_second_half_cycle: the last segment of a block for the     *)
(* instruction cache completes the miss.                                   *)
IcacheReceives ==
  /\ S_icache_model # "PERFECT"
  /\ icache.busy
  /\ S_bus.dest = "ICACHE" /\ AtLastSegment

IcacheSecondHalf ==
  \/ /\ ~ IcacheReceives
     /\ UNCHANGED <<icacheVars, punted>>
  \/ /\ IcacheReceives
     /\ IF StartAddr(icache.request_addr) = S_bus.addr
        THEN /\ ilines' = Fill(ilines, BlockOf(icache.request_addr))
             /\ icache_addr_requested' = icache.request_addr
             /\ icache_bytes_returned' =
                  S_bus.addr + S_icache_block_size - icache.request_addr
             /\ icache' = [icache EXCEPT !.busy = FALSE]
             /\ UNCHANGED punted
        ELSE /\ punted' = "incorrect block returned to icache"
             /\ UNCHANGED icacheVars
=============================================================================
