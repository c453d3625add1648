----------------------------- MODULE MemSystem -----------------------------
(***************************************************************************)
(* One simulated cycle of Lsim's superscalar processor, seen from the      *)
(* memory system: the loop of S_sim_superscalar_scoreboard calls the bus,  *)
(* memory, instruction cache and data cache handlers in a fixed order, in  *)
(* two half cycles, and that order is the arbitration of the bus.  A step  *)
(* of this specification is one of those calls.                            *)
(*                                                                         *)
(* The data cache is represented by the requests it puts on the bus and    *)
(* the results it takes off; what its buffers hold is left open.  The      *)
(* processor is represented by its fetch unit: where it fetches, whether   *)
(* fetch is enabled, and how a misprediction, an untraced call or the end  *)
(* of a sample redirects it.  There is no second level cache.              *)
(***************************************************************************)
EXTENDS Icache

CONSTANTS FetchAddrs,       \* addresses of instructions
          DcacheRequests,   \* [type, addr, size] the data cache may send
          MaxPending        \* bound on the reads outstanding at memory

ASSUME MemSystemAssumption ==
  /\ FetchAddrs \subseteq Nat \ {0}
  /\ DcacheRequests \subseteq [type : ReadRequests \cup WriteRequests,
                               addr : Nat, size : Nat \ {0}]
  /\ MaxPending \in Nat

VARIABLES phase,     \* the call of the cycle loop that comes next
          proc,      \* the fetch unit of the processor
          fetched,   \* what the fetch stage took in the last cycle (history)
          owed       \* reads on their way, oldest first (history)

parms == <<S_bus_model, S_icache_model>>
vars == <<parms, S_bus, pending, punted, icacheVars, phase, proc, fetched, owed>>

NothingFetched == [addr |-> 0, num |-> 0]

Init ==
  /\ BusInit
  /\ IcacheInit
  /\ phase = "bus"
  /\ proc \in [ifetch_addr : FetchAddrs, ifetch_enabled : {TRUE},
               enable_ifetch_next_cycle : {FALSE}, halting : {FALSE}]
  /\ fetched = NothingFetched
  /\ owed = << >>

(* The next call of the loop; the parameters keep their values.            *)
At(p, q) == punted = "no" /\ phase = p /\ phase' = q /\ UNCHANGED parms

(* A read that is put on the bus is owed an answer.                        *)
Owing(bus) == [type |-> bus.type, src |-> bus.src, addr |-> bus.addr]

-----------------------------------------------------------------------------
Bus ==
  /\ At("bus", "mem1")
  /\ SimBus
  /\ fetched' = NothingFetched
  /\ UNCHANGED <<icacheVars, proc, owed>>

Memory1 ==
  /\ At("mem1", "request")
  /\ MemoryFirstHalf
  /\ UNCHANGED <<icacheVars, proc, fetched, owed>>

(* Fetch is re-enabled the cycle after a misprediction was fixed, and the  *)
(* processor asks the instruction cache for the block at ifetch_addr       *)
(* unless the cache is busy or the instruction buffer is full enough.      *)
Request ==
  LET enabled == IF proc.enable_ifetch_next_cycle /\ ~ proc.halting
                 THEN TRUE ELSE proc.ifetch_enabled
  IN /\ At("request", "icache1")
     /\ proc' = [proc EXCEPT !.ifetch_enabled = enabled,
                             !.enable_ifetch_next_cycle = FALSE]
     /\ \E room \in BOOLEAN :
          icache_addr_requested' =
            IF enabled /\ ~ icache.busy /\ room THEN proc.ifetch_addr ELSE 0
     /\ UNCHANGED <<S_bus, pending, punted, icache, icache_bytes_returned,
                    ilines, fetched, owed>>

Icache1 ==
  /\ At("icache1", "dcache1")
  /\ IcacheFirstHalf
  /\ owed' = IF icache'.sent_request /\ ~ icache.sent_request
             THEN Append(owed, Owing(S_bus')) ELSE owed
  /\ UNCHANGED <<pending, proc, fetched>>

(* S_sim_dcache_first_half_cycle: with the bus idle, at most one of the    *)
(* read, prefetch, memory copy and write requests it has is sent.          *)
Dcache1 ==
  /\ At("dcache1", "mem2")
  /\ \/ UNCHANGED <<S_bus, punted, owed>>
     \/ /\ S_bus.avail
        /\ Len(owed) < MaxPending
        /\ \E r \in DcacheRequests :
             /\ Transaction(r.type, "DCACHE", "MEMORY", r.addr, r.size)
             /\ owed' = IF r.type \in ReadRequests
                        THEN Append(owed, Owing(S_bus')) ELSE owed
  /\ UNCHANGED <<pending, icacheVars, proc, fetched>>

Memory2 ==
  /\ At("mem2", "icache2")
  /\ MemorySecondHalf
  /\ UNCHANGED <<icacheVars, proc, fetched, owed>>

Icache2 ==
  /\ At("icache2", "dcache2")
  /\ IcacheSecondHalf
  /\ owed' = IF icache.busy /\ ~ icache'.busy THEN Tail(owed) ELSE owed
  /\ UNCHANGED <<S_bus, pending, proc, fetched>>

(* S_sim_dcache_second_half_cycle takes the last segment of a result.      *)
Dcache2 ==
  /\ At("dcache2", "exec")
  /\ owed' = IF S_bus.dest = "DCACHE" /\ AtLastSegment THEN Tail(owed) ELSE owed
  /\ UNCHANGED <<S_bus, pending, punted, icacheVars, proc, fetched>>

(* The retire and exec stages, which may find a mispredicted branch: then  *)
(* everything younger is squashed and fetch restarts at the right address, *)
(* but only from the next cycle on.                                        *)
Execute ==
  /\ At("exec", "ifetch")
  /\ UNCHANGED <<S_bus, pending, punted, icacheVars, proc, fetched, owed>>

(* Mutant: the squash also cancels the miss of the instruction cache.      *)
FixMispredictedBranch_CancelsMiss ==
  /\ At("exec", "ifetch")
  /\ \E a \in FetchAddrs \cup {0} :
       proc' = [proc EXCEPT !.ifetch_addr = a, !.ifetch_enabled = FALSE,
                            !.enable_ifetch_next_cycle = TRUE]
  /\ icache' = [icache EXCEPT !.busy = FALSE]
  /\ UNCHANGED <<S_bus, pending, punted, icache_addr_requested,
                 icache_bytes_returned, ilines, fetched, owed>>

FixMispredictedBranch ==
  /\ At("exec", "ifetch")
  /\ \E a \in FetchAddrs \cup {0} :
       proc' = [proc EXCEPT !.ifetch_addr = a, !.ifetch_enabled = FALSE,
                            !.enable_ifetch_next_cycle = TRUE]
  /\ UNCHANGED <<S_bus, pending, punted, icacheVars, fetched, owed>>

(* Mutant: the address of what was returned is not compared.               *)
NumAvail_AnyAddress ==
  IF proc.ifetch_enabled THEN icache_bytes_returned \div 4 ELSE 0

(* Instructions the fetch stage may take: those the instruction cache      *)
(* returned, if they are for the address wanted now.                       *)
NumAvail ==
  IF proc.ifetch_enabled /\ icache_addr_requested = proc.ifetch_addr
  THEN icache_bytes_returned \div 4 ELSE 0

(* S_superscalar_ifetch_stage: take some of them (a full buffer, a taken   *)
(* branch or a pc beyond max_pc may stop it early) and go on at the        *)
(* predicted address, 0 if that is no instruction; an untraced call that   *)
(* flushes the pipe stops fetch.                                           *)
Fetch ==
  /\ At("ifetch", "halt")
  /\ \E n \in 0 .. NumAvail :
       /\ fetched' = [addr |-> proc.ifetch_addr, num |-> n]
       /\ \/ n = 0 /\ UNCHANGED proc
          \/ n > 0 /\ \E a \in FetchAddrs \cup {0} :
                        proc' = [proc EXCEPT !.ifetch_addr = a]
          \/ n > 0 /\ proc' = [proc EXCEPT !.ifetch_addr = 0,
                                           !.ifetch_enabled = FALSE]
  /\ UNCHANGED <<S_bus, pending, punted, icacheVars, owed>>

(* The end of the loop body: go on, or (the sample is over) stop fetching  *)
(* and let the processor drain.                                            *)
Continue ==
  /\ At("halt", "bus")
  /\ UNCHANGED <<S_bus, pending, punted, icacheVars, proc, fetched, owed>>

Halt ==
  /\ At("halt", "bus")
  /\ proc' = [proc EXCEPT !.ifetch_enabled = FALSE, !.halting = TRUE]
  /\ UNCHANGED <<S_bus, pending, punted, icacheVars, fetched, owed>>

(* The processor is empty: the loop ends, and the next sample starts it    *)
(* again with the bus, memory and caches as they are.                      *)
NextSample ==
  /\ At("halt", "bus")
  /\ \E a \in FetchAddrs :
       proc' = [ifetch_addr |-> a, ifetch_enabled |-> TRUE,
                enable_ifetch_next_cycle |-> FALSE, halting |-> FALSE]
  /\ UNCHANGED <<S_bus, pending, punted, icacheVars, fetched, owed>>

Next ==
  \/ Bus \/ Memory1 \/ Request \/ Icache1 \/ Dcache1
  \/ Memory2 \/ Icache2 \/ Dcache2
  \/ Execute \/ FixMispredictedBranch \/ Fetch
  \/ Continue \/ Halt \/ NextSample

Spec == Init /\ [][Next]_vars

(* The cycle loop is sequential code that runs until the simulation halts. *)
FairSpec == Spec /\ WF_vars(Next)
-----------------------------------------------------------------------------
Phases == {"bus", "mem1", "request", "icache1", "dcache1", "mem2", "icache2",
           "dcache2", "exec", "ifetch", "halt"}

Agents == {"NO_ONE", "MEMORY", "ICACHE", "DCACHE"}

Buses == [avail : BOOLEAN, mem_only : BOOLEAN,
          type : ReadRequests \cup WriteRequests \cup ReadResults \cup {"NONE"},
          src : Agents, dest : Agents, addr : Nat, size : Nat,
          length : Nat, segment : Nat]

Requests == [type : ReadRequests, src : Agents, addr : Nat, size : Nat,
             wait : 0 .. S_memory_latency]

Procs == [ifetch_addr : FetchAddrs \cup {0}, ifetch_enabled : BOOLEAN,
          enable_ifetch_next_cycle : BOOLEAN, halting : BOOLEAN]

Misses == [busy : BOOLEAN, sent_request : BOOLEAN,
           request_addr : FetchAddrs \cup {0}]

(* The type invariant, as the inductive invariant needs it.                *)
MachineTypeOK ==
  /\ phase \in Phases
  /\ S_bus \in Buses
  /\ pending \in Seq(Requests)
  /\ proc \in Procs
  /\ icache \in Misses
  /\ icache_addr_requested \in FetchAddrs \cup {0}

(* The simulator never stops on one of its own sanity checks: nobody       *)
(* starts a transaction on a bus in use, and the block that comes back to  *)
(* the instruction cache is the one of the miss it is serving, whatever    *)
(* mispredictions and new samples redirected fetch to in the meantime.     *)
NeverPunts == punted = "no"

(* Has memory taken in the request on the bus, or the cache the result?    *)
RequestTaken ==
  AtLastSegment /\ phase \notin {"mem1", "request", "icache1", "dcache1", "mem2"}
ResultTaken ==
  AtLastSegment /\ \/ phase \in {"exec", "ifetch", "halt", "bus"}
                   \/ phase = "dcache2" /\ S_bus.dest = "ICACHE"

(* Why the right block comes back: every read of the instruction cache     *)
(* that is on the bus or at memory is the one of the miss it is serving,   *)
(* and there is only one.                                                  *)
OfMiss(addr) ==
  icache.busy /\ icache.sent_request /\ addr = StartAddr(icache.request_addr)

NoneAtMemory == \A i \in DOMAIN pending : pending[i].src # "ICACHE"

OneMissInFlight ==
  /\ S_bus.avail \/ S_bus.mem_only => S_bus.src = "NO_ONE" /\ S_bus.dest = "NO_ONE"
  /\ \A i \in DOMAIN pending :
       pending[i].src = "ICACHE" =>
         /\ OfMiss(pending[i].addr)
         /\ \A j \in DOMAIN pending : pending[j].src = "ICACHE" => i = j
  /\ S_bus.src = "ICACHE" => /\ S_bus.dest = "MEMORY" /\ OfMiss(S_bus.addr)
                             /\ RequestTaken \/ NoneAtMemory
  /\ S_bus.dest = "ICACHE" => ResultTaken \/ (OfMiss(S_bus.addr) /\ NoneAtMemory)

(* A read request on the bus that memory has not yet taken in.             *)
RequestOnBus ==
  IF S_bus.dest = "MEMORY" /\ S_bus.type \in ReadRequests /\ ~ RequestTaken
  THEN << Owing(S_bus) >> ELSE << >>

(* A result on the bus whose last segment has not yet been taken.          *)
ResultOnBus ==
  LET request == CHOOSE t \in ReadRequests : ResultOf(t) = S_bus.type
  IN IF S_bus.dest \in {"ICACHE", "DCACHE"} /\ ~ ResultTaken
     THEN << [type |-> request, src |-> S_bus.dest, addr |-> S_bus.addr] >>
     ELSE << >>

AtMemory ==
  [i \in DOMAIN pending |-> [type |-> pending[i].type, src |-> pending[i].src,
                             addr |-> pending[i].addr]]

(* Every read is answered exactly once, to the cache that sent it and in   *)
(* the order the reads went out: the reads still owed are, oldest first,   *)
(* the result on the bus, the requests queued at memory and the request on *)
(* the bus; nothing is lost or doubled as a read moves between them.       *)
ReadsAreConserved == owed = ResultOnBus \o AtMemory \o RequestOnBus

(* What the fetch stage takes is in the cache: an address changed by a     *)
(* misprediction, a late answer to an old miss or a count left from an     *)
(* earlier cycle never lets it take instructions of an absent block.       *)
(* Address 0 stands for a pc with no instruction; there the stage relies   *)
(* on its test of max_pc and not on the cache.                             *)
FetchedInstructionsAreCached ==
  S_icache_model # "PERFECT" /\ fetched.addr # 0 =>
    \A k \in 0 .. fetched.num - 1 : Has(ilines, BlockOf(fetched.addr + 4 * k))

(* A miss is always completed, however many requests the data cache sends: *)
(* the instruction cache asks for the bus before the data cache does.      *)
MissesComplete == icache.busy ~> ~ icache.busy
=============================================================================
