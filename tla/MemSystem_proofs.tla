-------------------------- MODULE MemSystem_proofs --------------------------
(***************************************************************************)
(* The cycle loop never stops on a sanity check of the bus or of the       *)
(* instruction cache: for both bus models, every instruction cache model,  *)
(* block size, bandwidth and latency, whatever the data cache sends.       *)
(***************************************************************************)
EXTENDS MemSystem, SequenceTheorems, TLAPS

(* The inductive invariant.  That the bus is free when a transaction       *)
(* starts follows from the guards; that the block which arrives is the one *)
(* of the miss needs OneMissInFlight.                                      *)
IInv == MachineTypeOK /\ OneMissInFlight /\ NeverPunts

(* The addresses fetched from are addresses.                               *)
LEMMA AddrFacts ==
  ASSUME NEW a \in FetchAddrs \cup {0}
  PROVE  a \in Nat /\ StartAddr(a) \in Nat
BY MemSystemAssumption, IcacheAssumption DEF StartAddr, BlockOf

(* A transaction on a bus the source may use succeeds, and puts a          *)
(* well-formed transaction on it.                                          *)
LEMMA TransactionFacts ==
  ASSUME NEW type \in ReadRequests \cup WriteRequests \cup ReadResults,
         NEW src \in Agents, NEW dest \in Agents,
         NEW addr \in Nat, NEW size \in Nat,
         S_bus.avail \/ (S_bus.mem_only /\ src = "MEMORY"),
         Transaction(type, src, dest, addr, size)
  PROVE  /\ punted' = punted
         /\ S_bus' \in Buses
         /\ ~ S_bus'.avail /\ ~ S_bus'.mem_only
         /\ S_bus'.src = src /\ S_bus'.dest = dest /\ S_bus'.addr = addr
         /\ S_bus'.type = type
<1>1. Segments(size) \in Nat
  BY BusMemAssumption DEF Segments
<1> DEFINE len == IF type \in ReadRequests THEN 1 ELSE Segments(size)
<1>2. /\ S_bus' = [avail |-> FALSE, mem_only |-> FALSE, type |-> type,
                   src |-> src, dest |-> dest, addr |-> addr, size |-> size,
                   length |-> len, segment |-> 1]
      /\ punted' = punted
  BY DEF Transaction
<1>3. len \in Nat
  BY <1>1
<1> HIDE DEF len
<1>4. S_bus' \in Buses
  BY <1>2, <1>3 DEF Buses
<1> QED
  BY <1>2, <1>4

(* OneMissInFlight after a step, in terms of the primed variables.         *)
NextMiss(addr) ==
  icache'.busy /\ icache'.sent_request /\ addr = StartAddr(icache'.request_addr)

(* What has to be shown of a step that preserves OneMissInFlight.          *)
LEMMA OneMissNext ==
  ASSUME S_bus'.avail \/ S_bus'.mem_only =>
           S_bus'.src = "NO_ONE" /\ S_bus'.dest = "NO_ONE",
         \A i \in DOMAIN pending' :
           pending'[i].src = "ICACHE" =>
             /\ NextMiss(pending'[i].addr)
             /\ \A j \in DOMAIN pending' : pending'[j].src = "ICACHE" => i = j,
         S_bus'.src = "ICACHE" => /\ S_bus'.dest = "MEMORY" /\ NextMiss(S_bus'.addr)
                                  /\ RequestTaken' \/ NoneAtMemory',
         S_bus'.dest = "ICACHE" => ResultTaken' \/ (NextMiss(S_bus'.addr) /\ NoneAtMemory')
  PROVE  OneMissInFlight'
BY DEF OneMissInFlight, OfMiss, NextMiss, StartAddr, BlockOf

(* S_init_bus, S_create_icache and the start of the first sample.          *)
LEMMA InitIInv == Init => IInv
<1> SUFFICES ASSUME Init PROVE IInv
  OBVIOUS
<1>1. MachineTypeOK
  <2>1. S_bus \in Buses /\ pending \in Seq(Requests)
    BY DEF Init, BusInit, Buses, Agents
  <2>2. icache \in Misses /\ icache_addr_requested \in FetchAddrs \cup {0}
    BY DEF Init, IcacheInit, Misses
  <2>3. proc \in Procs /\ phase \in Phases
    BY DEF Init, Procs, Phases
  <2> QED
    BY <2>1, <2>2, <2>3 DEF MachineTypeOK
<1>2. OneMissInFlight
  BY DEF Init, BusInit, OneMissInFlight
<1>3. NeverPunts
  BY DEF Init, BusInit, NeverPunts
<1> QED
  BY <1>1, <1>2, <1>3 DEF IInv

-----------------------------------------------------------------------------
(* S_sim_bus: a transaction whose last segment was taken leaves the bus.   *)
LEMMA BusIInv == ASSUME IInv, Bus PROVE IInv'
<1>1. /\ S_bus \in Buses /\ pending \in Seq(Requests)
      /\ phase = "bus" /\ phase' = "mem1"
      /\ UNCHANGED <<icache, icache_addr_requested, proc, punted>>
  BY DEF IInv, MachineTypeOK, Bus, At, SimBus, icacheVars
<1>2. S_bus' = BusAfterCycle(S_bus)
  BY DEF Bus, SimBus
<1>3. /\ DOMAIN pending' = DOMAIN pending
      /\ pending' \in Seq(Requests)
      /\ \A i \in DOMAIN pending : /\ pending'[i].src = pending[i].src
                                    /\ pending'[i].addr = pending[i].addr
  <2>1. pending' = [i \in DOMAIN pending |->
                      [pending[i] EXCEPT !.wait = IF @ > 0 THEN @ - 1 ELSE 0]]
    BY DEF Bus, SimBus
  <2>2. \A i \in DOMAIN pending : pending[i] \in Requests
    BY <1>1
  <2>3. \A i \in DOMAIN pending :
          /\ pending'[i] = [pending[i] EXCEPT !.wait = IF @ > 0 THEN @ - 1 ELSE 0]
          /\ pending'[i] \in Requests
    BY <2>1, <2>2, BusMemAssumption DEF Requests
  <2>4. DOMAIN pending' = 1 .. Len(pending) /\ Len(pending) \in Nat
    BY <1>1, <2>1
  <2>5. pending' \in Seq(Requests)
    BY <2>1, <2>3, <2>4, IsASeq
  <2> QED
    BY <2>1, <2>2, <2>3, <2>5 DEF Requests
<1>4. /\ S_bus' \in Buses
      /\ \/ S_bus' = S_bus /\ (S_bus.avail \/ S_bus.mem_only)
         \/ /\ ~ S_bus.avail /\ ~ S_bus.mem_only /\ ~ AtLastSegment
            /\ ~ S_bus'.avail /\ ~ S_bus'.mem_only
            /\ S_bus'.src = S_bus.src /\ S_bus'.dest = S_bus.dest
            /\ S_bus'.addr = S_bus.addr
         \/ S_bus'.src = "NO_ONE" /\ S_bus'.dest = "NO_ONE"
  <2>1. CASE S_bus.avail \/ S_bus.mem_only
    BY <1>1, <1>2, <2>1 DEF BusAfterCycle
  <2>2. CASE ~ (S_bus.avail \/ S_bus.mem_only) /\ S_bus.segment # S_bus.length
    <3>1. S_bus' = [S_bus EXCEPT !.segment = @ + 1]
      BY <1>2, <2>2 DEF BusAfterCycle
    <3> QED
      BY <1>1, <2>2, <3>1 DEF Buses, AtLastSegment
  <2>3. CASE ~ (S_bus.avail \/ S_bus.mem_only) /\ S_bus.segment = S_bus.length
    <3> DEFINE held == /\ S_bus.type \in {"READ_REQUEST", "PREFETCH_REQUEST"}
                       /\ S_bus_model = "SINGLE"
    <3>1. S_bus' = [S_bus EXCEPT !.mem_only = held, !.avail = ~ held,
                                 !.src = "NO_ONE", !.dest = "NO_ONE"]
      BY <1>2, <2>3 DEF BusAfterCycle
    <3>2. held \in BOOLEAN /\ (~ held) \in BOOLEAN
      OBVIOUS
    <3> HIDE DEF held
    <3> QED
      BY <1>1, <3>1, <3>2 DEF Buses, Agents
  <2> QED
    BY <2>1, <2>2, <2>3
<1>5. MachineTypeOK'
  BY <1>1, <1>3, <1>4 DEF IInv, MachineTypeOK, Phases
<1>6. OneMissInFlight'
  <2>1. NoneAtMemory => NoneAtMemory'
    BY <1>3 DEF NoneAtMemory
  <2>2. \A a : OfMiss(a) => NextMiss(a)
    BY <1>1 DEF OfMiss, NextMiss
  <2>3. ~ AtLastSegment => ~ RequestTaken /\ ~ ResultTaken
    BY DEF RequestTaken, ResultTaken
  <2>4. \A i \in DOMAIN pending' :
          pending'[i].src = "ICACHE" =>
            /\ NextMiss(pending'[i].addr)
            /\ \A j \in DOMAIN pending' : pending'[j].src = "ICACHE" => i = j
    BY <1>3, <2>2 DEF IInv, OneMissInFlight
  <2>5. S_bus'.avail \/ S_bus'.mem_only => S_bus'.src = "NO_ONE" /\ S_bus'.dest = "NO_ONE"
    BY <1>4 DEF IInv, OneMissInFlight
  <2>6. S_bus'.src = "ICACHE" => /\ S_bus'.dest = "MEMORY" /\ NextMiss(S_bus'.addr)
                                 /\ NoneAtMemory'
    BY <1>4, <2>1, <2>2, <2>3 DEF IInv, OneMissInFlight
  <2>7. S_bus'.dest = "ICACHE" => NextMiss(S_bus'.addr) /\ NoneAtMemory'
    BY <1>4, <2>1, <2>2, <2>3 DEF IInv, OneMissInFlight
  <2> QED
    BY <2>4, <2>5, <2>6, <2>7, OneMissNext
<1> QED
  BY <1>1, <1>5, <1>6 DEF IInv, NeverPunts

(* S_sim_memory_first_half_cycle: the answer to the miss leaves the queue  *)
(* for the bus.                                                            *)
LEMMA Memory1IInv == ASSUME IInv, Memory1 PROVE IInv'
<1>1. /\ S_bus \in Buses /\ pending \in Seq(Requests)
      /\ phase = "mem1" /\ phase' = "request" /\ punted = "no"
      /\ UNCHANGED <<icache, icache_addr_requested, proc>>
  BY DEF IInv, MachineTypeOK, Memory1, At, icacheVars
<1>2. ~ RequestTaken /\ ~ ResultTaken /\ ~ RequestTaken' /\ ~ ResultTaken'
  BY <1>1 DEF RequestTaken, ResultTaken
<1>3. \A a : OfMiss(a) => NextMiss(a)
  BY <1>1 DEF OfMiss, NextMiss
<1>4. CASE MemoryMayAnswer
  <2> DEFINE request == Head(pending)
  <2>1. /\ Transaction(ResultOf(request.type), "MEMORY", request.src,
                       request.addr, request.size)
        /\ pending' = Tail(pending)
    BY <1>4 DEF Memory1, MemoryFirstHalf
  <2>2. /\ S_bus.avail \/ S_bus.mem_only
        /\ pending # << >>
    BY <1>4 DEF MemoryMayAnswer
  <2>3. request \in Requests /\ request = pending[1] /\ 1 \in DOMAIN pending
    BY <1>1, <2>2
  <2>4. /\ ResultOf(request.type) \in ReadResults /\ request.src \in Agents
        /\ request.addr \in Nat /\ request.size \in Nat
    BY <2>3 DEF Requests, ResultOf, ReadRequests, ReadResults
  <2>5. /\ punted' = "no" /\ S_bus' \in Buses
        /\ ~ S_bus'.avail /\ ~ S_bus'.mem_only
        /\ S_bus'.src = "MEMORY" /\ S_bus'.dest = request.src
        /\ S_bus'.addr = request.addr
    <3>1. "MEMORY" \in Agents
      BY DEF Agents
    <3> HIDE DEF request
    <3> QED
      BY <1>1, <2>1, <2>2, <2>4, <3>1, TransactionFacts
  <2>6. /\ pending' \in Seq(Requests)
        /\ DOMAIN pending' = 1 .. Len(pending) - 1
        /\ \A i \in DOMAIN pending' : i + 1 \in DOMAIN pending /\ pending'[i] = pending[i + 1]
    BY <1>1, <2>1, <2>2
  <2>7. MachineTypeOK'
    BY <1>1, <2>5, <2>6 DEF IInv, MachineTypeOK, Phases
  <2>8. \A i \in DOMAIN pending' :
          pending'[i].src = "ICACHE" =>
            /\ NextMiss(pending'[i].addr)
            /\ \A j \in DOMAIN pending' : pending'[j].src = "ICACHE" => i = j
    <3> SUFFICES ASSUME NEW i \in DOMAIN pending', pending'[i].src = "ICACHE"
                 PROVE  /\ NextMiss(pending'[i].addr)
                        /\ \A j \in DOMAIN pending' : pending'[j].src = "ICACHE" => i = j
      OBVIOUS
    <3>1. i + 1 \in DOMAIN pending /\ pending[i + 1].src = "ICACHE" /\ i \in Nat
      BY <1>1, <2>6
    <3>2. OfMiss(pending[i + 1].addr)
      BY <3>1 DEF IInv, OneMissInFlight
    <3>3. ASSUME NEW j \in DOMAIN pending', pending'[j].src = "ICACHE" PROVE i = j
      <4>1. j + 1 \in DOMAIN pending /\ pending[j + 1].src = "ICACHE" /\ j \in Nat
        BY <1>1, <2>6, <3>3
      <4>2. i + 1 = j + 1
        BY <3>1, <4>1 DEF IInv, OneMissInFlight
      <4> QED
        BY <3>1, <4>1, <4>2
    <3> QED
      BY <1>3, <2>6, <3>2, <3>3
  <2>9. S_bus'.dest = "ICACHE" => NextMiss(S_bus'.addr) /\ NoneAtMemory'
    <3> SUFFICES ASSUME pending[1].src = "ICACHE"
                 PROVE  NextMiss(pending[1].addr) /\ NoneAtMemory'
      BY <2>3, <2>5
    <3>1. OfMiss(pending[1].addr) /\ \A j \in DOMAIN pending : pending[j].src = "ICACHE" => 1 = j
      BY <2>3 DEF IInv, OneMissInFlight
    <3>2. ASSUME NEW i \in DOMAIN pending' PROVE pending'[i].src # "ICACHE"
      <4>1. i + 1 \in DOMAIN pending /\ i + 1 # 1
        BY <1>1, <2>6
      <4> QED
        BY <2>6, <3>1, <4>1
    <3> QED
      BY <1>3, <3>1, <3>2 DEF NoneAtMemory
  <2>10. OneMissInFlight'
    BY <2>5, <2>8, <2>9, OneMissNext
  <2> QED
    BY <2>5, <2>7, <2>10 DEF IInv, NeverPunts
<1>5. CASE ~ MemoryMayAnswer
  <2>1. UNCHANGED <<S_bus, pending, punted>>
    BY <1>5 DEF Memory1, MemoryFirstHalf
  <2>2. MachineTypeOK'
    BY <1>1, <2>1 DEF IInv, MachineTypeOK, Phases
  <2>3. OneMissInFlight'
    BY <1>2, <1>3, <2>1, OneMissNext DEF IInv, OneMissInFlight, NoneAtMemory
  <2> QED
    BY <1>1, <2>1, <2>2, <2>3 DEF IInv, NeverPunts
<1> QED
  BY <1>4, <1>5

(* S_sim_icache_first_half_cycle: a miss starts only when none is in       *)
(* flight, and its request is sent once.                                   *)
LEMMA Icache1IInv == ASSUME IInv, Icache1 PROVE IInv'
<1>1. /\ S_bus \in Buses /\ pending \in Seq(Requests) /\ icache \in Misses
      /\ icache_addr_requested \in FetchAddrs \cup {0}
      /\ phase = "icache1" /\ phase' = "dcache1" /\ punted = "no"
      /\ UNCHANGED <<pending, proc>>
  BY DEF IInv, MachineTypeOK, Icache1, At
<1>2. ~ RequestTaken /\ ~ ResultTaken /\ ~ RequestTaken' /\ ~ ResultTaken'
  BY <1>1 DEF RequestTaken, ResultTaken
<1>3. ASSUME icache' = icache, S_bus' = S_bus, punted' = punted,
             icache_addr_requested' = icache_addr_requested
      PROVE  IInv'
  <2>1. MachineTypeOK'
    BY <1>1, <1>3 DEF IInv, MachineTypeOK, Phases
  <2>2. OneMissInFlight'
    BY <1>1, <1>2, <1>3, OneMissNext
    DEF IInv, OneMissInFlight, NoneAtMemory, OfMiss, NextMiss
  <2> QED
    BY <1>1, <1>3, <2>1, <2>2 DEF IInv, NeverPunts
<1>4. CASE IcacheSendsRequest /\ ~ icache.sent_request /\ S_bus.avail
  <2> DEFINE a == StartAddr(icache.request_addr)
  <2>1. /\ Transaction("READ_REQUEST", "ICACHE", "MEMORY", a, S_icache_block_size)
        /\ icache' = [icache EXCEPT !.sent_request = TRUE]
        /\ icache_addr_requested' = icache_addr_requested
        /\ icache.busy
    BY <1>4 DEF IcacheSendsRequest
  <2>2. a \in Nat /\ S_icache_block_size \in Nat
    BY <1>1, AddrFacts, IcacheAssumption DEF Misses
  <2>3. "READ_REQUEST" \in ReadRequests /\ "ICACHE" \in Agents /\ "MEMORY" \in Agents
    BY DEF ReadRequests, Agents
  <2>4. /\ punted' = "no" /\ S_bus' \in Buses
        /\ ~ S_bus'.avail /\ ~ S_bus'.mem_only
        /\ S_bus'.src = "ICACHE" /\ S_bus'.dest = "MEMORY" /\ S_bus'.addr = a
    <3> HIDE DEF a
    <3> QED
      BY <1>1, <1>4, <2>1, <2>2, <2>3, TransactionFacts
  <2>5. /\ icache' \in Misses /\ icache'.busy /\ icache'.sent_request
        /\ icache'.request_addr = icache.request_addr
    BY <1>1, <2>1 DEF Misses
  <2>6. NoneAtMemory'
    BY <1>1, <1>4 DEF IInv, OneMissInFlight, OfMiss, NoneAtMemory
  <2>7. MachineTypeOK'
    BY <1>1, <2>1, <2>4, <2>5 DEF IInv, MachineTypeOK, Phases
  <2>8. NextMiss(S_bus'.addr)
    BY <2>4, <2>5 DEF NextMiss
  <2>9. OneMissInFlight'
    BY <2>4, <2>6, <2>8, OneMissNext DEF NoneAtMemory
  <2> QED
    BY <2>4, <2>7, <2>9 DEF IInv, NeverPunts
<1>5. CASE IcacheMiss
  <2>1. /\ icache' = [busy |-> TRUE, sent_request |-> FALSE,
                      request_addr |-> icache_addr_requested]
        /\ icache_addr_requested' = 0 /\ UNCHANGED <<S_bus, punted>>
        /\ ~ icache.busy
    BY <1>5 DEF IcacheMiss
  <2>2. NoneAtMemory /\ S_bus.src # "ICACHE" /\ S_bus.dest # "ICACHE"
    BY <1>2, <2>1 DEF IInv, OneMissInFlight, OfMiss, NoneAtMemory
  <2>3. MachineTypeOK'
    <3>1. icache' \in Misses
      BY <1>1, <2>1 DEF Misses
    <3> QED
      BY <1>1, <2>1, <3>1 DEF IInv, MachineTypeOK, Phases
  <2>4. OneMissInFlight'
    BY <1>1, <2>1, <2>2, OneMissNext DEF IInv, OneMissInFlight, NoneAtMemory
  <2> QED
    BY <1>1, <2>1, <2>3, <2>4 DEF IInv, NeverPunts
<1> QED
  BY <1>3, <1>4, <1>5 DEF Icache1, IcacheFirstHalf, IcachePerfect,
     IcacheSendsRequest, IcacheHit, IcacheIdle, icacheVars

(* The data cache uses the bus only when it is free, so no read of the     *)
(* instruction cache is on it.                                             *)
LEMMA Dcache1IInv == ASSUME IInv, Dcache1 PROVE IInv'
<1>1. /\ S_bus \in Buses
      /\ phase = "dcache1" /\ phase' = "mem2" /\ punted = "no"
      /\ UNCHANGED <<pending, proc, icache, icache_addr_requested>>
  BY DEF IInv, MachineTypeOK, Dcache1, At, icacheVars
<1>2. ~ RequestTaken /\ ~ ResultTaken /\ ~ RequestTaken' /\ ~ ResultTaken'
  BY <1>1 DEF RequestTaken, ResultTaken
<1>3. \A a : OfMiss(a) => NextMiss(a)
  BY <1>1 DEF OfMiss, NextMiss
<1>4. CASE UNCHANGED <<S_bus, punted>>
  <2>1. MachineTypeOK'
    BY <1>1, <1>4 DEF IInv, MachineTypeOK, Phases
  <2>2. OneMissInFlight'
    BY <1>1, <1>2, <1>3, <1>4, OneMissNext DEF IInv, OneMissInFlight, NoneAtMemory
  <2> QED
    BY <1>1, <1>4, <2>1, <2>2 DEF IInv, NeverPunts
<1>5. ASSUME NEW r \in DcacheRequests, S_bus.avail,
             Transaction(r.type, "DCACHE", "MEMORY", r.addr, r.size)
      PROVE  IInv'
  <2>1. /\ r.type \in ReadRequests \cup WriteRequests
        /\ r.addr \in Nat /\ r.size \in Nat
    BY MemSystemAssumption
  <2>2. "DCACHE" \in Agents /\ "MEMORY" \in Agents
    BY DEF Agents
  <2>3. /\ punted' = "no" /\ S_bus' \in Buses
        /\ ~ S_bus'.avail /\ ~ S_bus'.mem_only
        /\ S_bus'.src = "DCACHE" /\ S_bus'.dest = "MEMORY"
    BY <1>1, <1>5, <2>1, <2>2, TransactionFacts
  <2>4. MachineTypeOK'
    BY <1>1, <2>3 DEF IInv, MachineTypeOK, Phases
  <2>5. OneMissInFlight'
    BY <1>1, <1>3, <2>3, OneMissNext DEF IInv, OneMissInFlight
  <2> QED
    BY <2>3, <2>4, <2>5 DEF IInv, NeverPunts
<1> QED
  BY <1>4, <1>5 DEF Dcache1

(* S_sim_memory_second_half_cycle: the request of the miss joins the queue *)
(* exactly when the bus is done with it.                                   *)
LEMMA Memory2IInv == ASSUME IInv, Memory2 PROVE IInv'
<1>1. /\ S_bus \in Buses /\ pending \in Seq(Requests)
      /\ phase = "mem2" /\ phase' = "icache2" /\ punted = "no"
      /\ UNCHANGED <<S_bus, punted, proc, icache, icache_addr_requested>>
  BY DEF IInv, MachineTypeOK, Memory2, MemorySecondHalf, At, icacheVars
<1>2. ~ RequestTaken /\ ~ ResultTaken /\ ~ ResultTaken'
      /\ (AtLastSegment => RequestTaken')
  BY <1>1 DEF RequestTaken, ResultTaken, AtLastSegment
<1>3. \A a : OfMiss(a) => NextMiss(a)
  BY <1>1 DEF OfMiss, NextMiss
<1>4. CASE MemoryAccepts
  <2> DEFINE new == [type |-> S_bus.type, src |-> S_bus.src, addr |-> S_bus.addr,
                     size |-> S_bus.size, wait |-> S_memory_latency]
  <2>1. pending' = Append(pending, new) /\ S_bus.type \in ReadRequests
        /\ AtLastSegment /\ S_bus.dest = "MEMORY"
    BY <1>4 DEF Memory2, MemorySecondHalf, MemoryAccepts
  <2>2. new \in Requests /\ new.src = S_bus.src /\ new.addr = S_bus.addr
    BY <1>1, <2>1, BusMemAssumption DEF Requests, Buses
  <2> HIDE DEF new
  <2>3. /\ pending' \in Seq(Requests)
        /\ Len(pending) \in Nat /\ DOMAIN pending = 1 .. Len(pending)
        /\ DOMAIN pending' = 1 .. Len(pending) + 1
        /\ \A i \in DOMAIN pending : pending'[i] = pending[i]
        /\ pending'[Len(pending) + 1] = new
    BY <1>1, <2>1, <2>2, AppendProperties, LenProperties
  <2>4. MachineTypeOK'
    BY <1>1, <2>3 DEF IInv, MachineTypeOK, Phases
  <2>5. S_bus.src = "ICACHE" => NoneAtMemory /\ OfMiss(S_bus.addr)
    BY <1>2 DEF IInv, OneMissInFlight
  <2>6. ASSUME NEW i \in DOMAIN pending', pending'[i].src = "ICACHE"
        PROVE  /\ NextMiss(pending'[i].addr)
               /\ \A j \in DOMAIN pending' : pending'[j].src = "ICACHE" => i = j
    <3>1. CASE S_bus.src = "ICACHE"
      <4>1. \A j \in DOMAIN pending' : pending'[j].src = "ICACHE" => j = Len(pending) + 1
        BY <2>3, <2>5, <3>1 DEF NoneAtMemory
      <4> QED
        BY <1>3, <2>2, <2>3, <2>5, <2>6, <3>1, <4>1
    <3>2. CASE S_bus.src # "ICACHE"
      <4>1. \A j \in DOMAIN pending' :
              pending'[j].src = "ICACHE" => j \in DOMAIN pending /\ pending'[j] = pending[j]
        BY <2>2, <2>3, <3>2
      <4> QED
        BY <1>3, <2>6, <4>1 DEF IInv, OneMissInFlight
    <3> QED
      BY <3>1, <3>2
  <2>7. OneMissInFlight'
    BY <1>1, <1>2, <1>3, <2>1, <2>6, OneMissNext DEF IInv, OneMissInFlight
  <2> QED
    BY <1>1, <2>4, <2>7 DEF IInv, NeverPunts
<1>5. CASE ~ MemoryAccepts
  <2>1. pending' = pending
    BY <1>5 DEF Memory2, MemorySecondHalf
  <2>2. MachineTypeOK'
    BY <1>1, <2>1 DEF IInv, MachineTypeOK, Phases
  <2>3. OneMissInFlight'
    BY <1>1, <1>2, <1>3, <2>1, OneMissNext DEF IInv, OneMissInFlight, NoneAtMemory
  <2> QED
    BY <1>1, <2>2, <2>3 DEF IInv, NeverPunts
<1> QED
  BY <1>4, <1>5

(* S_sim_icache_second_half_cycle: the block that arrives is the one of    *)
(* the miss, and with it nothing of the miss is left in flight.            *)
LEMMA Icache2IInv == ASSUME IInv, Icache2 PROVE IInv'
<1>1. /\ S_bus \in Buses /\ icache \in Misses
      /\ phase = "icache2" /\ phase' = "dcache2" /\ punted = "no"
      /\ UNCHANGED <<S_bus, pending, proc>>
  BY DEF IInv, MachineTypeOK, Icache2, At
<1>2. /\ ~ ResultTaken
      /\ (RequestTaken => RequestTaken')
      /\ (AtLastSegment /\ S_bus.dest = "ICACHE" => ResultTaken')
  BY <1>1 DEF RequestTaken, ResultTaken, AtLastSegment
<1>3. CASE ~ IcacheReceives
  <2>1. UNCHANGED <<icache, icache_addr_requested, punted>>
    BY <1>3 DEF Icache2, IcacheSecondHalf, icacheVars
  <2>2. MachineTypeOK'
    BY <1>1, <2>1 DEF IInv, MachineTypeOK, Phases
  <2>3. OneMissInFlight'
    BY <1>1, <1>2, <2>1, OneMissNext
    DEF IInv, OneMissInFlight, NoneAtMemory, OfMiss, NextMiss
  <2> QED
    BY <1>1, <2>1, <2>2, <2>3 DEF IInv, NeverPunts
<1>4. CASE IcacheReceives
  <2>1. icache.busy /\ S_bus.dest = "ICACHE" /\ AtLastSegment
    BY <1>4 DEF IcacheReceives
  <2>2. OfMiss(S_bus.addr) /\ NoneAtMemory /\ S_bus.src # "ICACHE"
    BY <1>2, <2>1 DEF IInv, OneMissInFlight
  <2>3. /\ icache_addr_requested' = icache.request_addr
        /\ icache' = [icache EXCEPT !.busy = FALSE]
        /\ punted' = punted
    BY <1>4, <2>2 DEF Icache2, IcacheSecondHalf, OfMiss
  <2>4. MachineTypeOK'
    <3>1. icache' \in Misses /\ icache.request_addr \in FetchAddrs \cup {0}
      BY <1>1, <2>3 DEF Misses
    <3> QED
      BY <1>1, <2>3, <3>1 DEF IInv, MachineTypeOK, Phases
  <2>5. OneMissInFlight'
    BY <1>1, <1>2, <2>1, <2>2, OneMissNext DEF IInv, OneMissInFlight, NoneAtMemory
  <2> QED
    BY <1>1, <2>3, <2>4, <2>5 DEF IInv, NeverPunts
<1> QED
  BY <1>3, <1>4

(* The steps of the processor and of the data cache's second half leave    *)
(* the bus, memory and the miss alone; a request or result that was taken  *)
(* stays taken until the next cycle.                                       *)
LEMMA ProcessorIInv ==
  ASSUME IInv,
         UNCHANGED <<S_bus, pending, punted, icache>>,
         proc' \in Procs, icache_addr_requested' \in FetchAddrs \cup {0},
         \/ phase = "request" /\ phase' = "icache1"
         \/ phase = "dcache2" /\ phase' = "exec"
         \/ phase = "exec" /\ phase' = "ifetch"
         \/ phase = "ifetch" /\ phase' = "halt"
         \/ phase = "halt" /\ phase' = "bus"
  PROVE  IInv'
<1>1. MachineTypeOK'
  BY DEF IInv, MachineTypeOK, Phases
<1>2. (RequestTaken => RequestTaken') /\ (ResultTaken => ResultTaken')
  BY DEF RequestTaken, ResultTaken, AtLastSegment
<1>3. OneMissInFlight'
  BY <1>2, OneMissNext DEF IInv, OneMissInFlight, NoneAtMemory, OfMiss, NextMiss
<1> QED
  BY <1>1, <1>3 DEF IInv, NeverPunts

(* Every step of the cycle loop preserves the invariant.                   *)
LEMMA NextIInv == IInv /\ [Next]_vars => IInv'
<1> SUFFICES ASSUME IInv, [Next]_vars PROVE IInv'
  OBVIOUS
<1>1. proc \in Procs /\ icache_addr_requested \in FetchAddrs \cup {0}
  BY DEF IInv, MachineTypeOK
<1>2. CASE Request
  <2>1. proc' \in Procs
    BY <1>1, <1>2 DEF Request, Procs
  <2>2. icache_addr_requested' \in FetchAddrs \cup {0}
    BY <1>1, <1>2 DEF Request, Procs
  <2> QED
    BY <1>2, <2>1, <2>2, ProcessorIInv DEF Request, At
<1>3. CASE Dcache2
  BY <1>1, <1>3, ProcessorIInv DEF Dcache2, At, icacheVars
<1>4. CASE Execute
  BY <1>1, <1>4, ProcessorIInv DEF Execute, At, icacheVars
<1>5. CASE FixMispredictedBranch
  <2>1. proc' \in Procs
    BY <1>1, <1>5 DEF FixMispredictedBranch, Procs
  <2> QED
    BY <1>1, <1>5, <2>1, ProcessorIInv DEF FixMispredictedBranch, At, icacheVars
<1>6. CASE Fetch
  <2>1. proc' \in Procs
    BY <1>1, <1>6 DEF Fetch, Procs
  <2> QED
    BY <1>1, <1>6, <2>1, ProcessorIInv DEF Fetch, At, icacheVars
<1>7. CASE Continue
  BY <1>1, <1>7, ProcessorIInv DEF Continue, At, icacheVars
<1>8. CASE Halt
  <2>1. proc' \in Procs
    BY <1>1, <1>8 DEF Halt, Procs
  <2> QED
    BY <1>1, <1>8, <2>1, ProcessorIInv DEF Halt, At, icacheVars
<1>9. CASE NextSample
  <2>1. proc' \in Procs
    BY <1>1, <1>9 DEF NextSample, Procs
  <2> QED
    BY <1>1, <1>9, <2>1, ProcessorIInv DEF NextSample, At, icacheVars
<1>10. CASE UNCHANGED vars
  BY <1>10 DEF vars, icacheVars, IInv, MachineTypeOK, OneMissInFlight, NeverPunts,
     OfMiss, NoneAtMemory, RequestTaken, ResultTaken, AtLastSegment
<1> QED
  BY <1>2, <1>3, <1>4, <1>5, <1>6, <1>7, <1>8, <1>9, <1>10, BusIInv, Memory1IInv,
     Icache1IInv, Dcache1IInv, Memory2IInv, Icache2IInv DEF Next

(* The simulation never stops on "accessing bus when in use" or on         *)
(* "incorrect block returned to icache", for every configuration of the    *)
(* bus, memory and instruction cache and every stream of data requests.    *)
THEOREM NoPuntInTheMemorySystem == Spec => []NeverPunts
<1>1. IInv => NeverPunts
  BY DEF IInv
<1> QED
  BY <1>1, InitIInv, NextIInv, PTL DEF Spec

(* The reason: the bus and memory hold at most one read of the instruction *)
(* cache, and it is the one of the miss being served.                      *)
THEOREM OnlyTheMissIsInFlight == Spec => []OneMissInFlight
<1>1. IInv => OneMissInFlight
  BY DEF IInv
<1> QED
  BY <1>1, InitIInv, NextIInv, PTL DEF Spec

-----------------------------------------------------------------------------
(* Conservation of the reads.  It needs that only the caches send requests *)
(* and get results, and that a perfect instruction cache never waits.      *)
CachesAsk ==
  /\ S_bus.dest = "MEMORY" => S_bus.src \in {"ICACHE", "DCACHE"}
  /\ S_bus.dest \in {"ICACHE", "DCACHE"} => S_bus.type \in ReadResults
  /\ \A i \in DOMAIN pending : pending[i].src \in {"ICACHE", "DCACHE"}
  /\ S_icache_model = "PERFECT" => ~ icache.busy

Conserved == IInv /\ CachesAsk /\ ReadsAreConserved

Owings == [type : ReadRequests, src : Agents, addr : Nat]

(* How a read moves along the reads still owed: memory answers the oldest, *)
(* a request goes onto the bus, memory takes it in, a result is taken.     *)
LEMMA QueueFacts ==
  ASSUME NEW S, NEW r \in Seq(S), NEW m \in Seq(S), NEW q \in Seq(S), NEW x \in S
  PROVE  /\ m # << >> => (<< >> \o m) \o << >> = (<< Head(m) >> \o Tail(m)) \o << >>
         /\ Append((<< >> \o m) \o << >>, x) = (<< >> \o m) \o << x >>
         /\ (r \o m) \o << x >> = (r \o Append(m, x)) \o << >>
         /\ Tail((<< x >> \o m) \o q) = (<< >> \o m) \o q
<1>1. ASSUME m # << >> PROVE (<< >> \o m) \o << >> = (<< Head(m) >> \o Tail(m)) \o << >>
  BY <1>1
<1>2. Append((<< >> \o m) \o << >>, x) = (<< >> \o m) \o << x >>
  OBVIOUS
<1>3. (r \o m) \o << x >> = (r \o Append(m, x)) \o << >>
  <2>1. Append(m, x) = m \o << x >> /\ << x >> \in Seq(S) /\ Append(m, x) \in Seq(S)
    BY AppendIsConcat
  <2>2. (r \o m) \o << x >> = r \o Append(m, x)
    BY <2>1, ConcatAssociative
  <2>3. (r \o Append(m, x)) \o << >> = r \o Append(m, x)
    BY <2>1, ConcatProperties, ConcatEmptySeq
  <2> QED
    BY <2>2, <2>3
<1>4. Tail((<< x >> \o m) \o q) = (<< >> \o m) \o q
  OBVIOUS
<1> QED
  BY <1>1, <1>2, <1>3, <1>4

ReadsOf(p) == [i \in DOMAIN p |-> [type |-> p[i].type, src |-> p[i].src,
                                   addr |-> p[i].addr]]

(* What is owed for the requests of a queue, in their order. *)
LEMMA ReadsOfFacts ==
  ASSUME NEW p \in Seq(Requests)
  PROVE  /\ ReadsOf(p) \in Seq(Owings) /\ Len(ReadsOf(p)) = Len(p) /\ Len(p) \in Nat
         /\ \A i \in 1 .. Len(p) :
              ReadsOf(p)[i] = [type |-> p[i].type, src |-> p[i].src, addr |-> p[i].addr]
<1>1. DOMAIN p = 1 .. Len(p) /\ Len(p) \in Nat
  OBVIOUS
<1>2. ASSUME NEW i \in 1 .. Len(p)
      PROVE  [type |-> p[i].type, src |-> p[i].src, addr |-> p[i].addr] \in Owings
  <2>1. p[i] \in Requests
    BY <1>1
  <2> QED
    BY <2>1 DEF Requests, Owings
<1>3. ReadsOf(p) = [i \in 1 .. Len(p) |->
                      [type |-> p[i].type, src |-> p[i].src, addr |-> p[i].addr]]
  BY <1>1 DEF ReadsOf
<1> QED
  BY <1>1, <1>2, <1>3, IsASeq

(* The reads in flight are reads.                                          *)
LEMMA ReadsFacts ==
  ASSUME MachineTypeOK, CachesAsk
  PROVE  /\ AtMemory = ReadsOf(pending) /\ AtMemory \in Seq(Owings)
         /\ ResultOnBus \in Seq(Owings) /\ RequestOnBus \in Seq(Owings)
<1>1. pending \in Seq(Requests) /\ S_bus \in Buses
  BY DEF MachineTypeOK
<1>2. AtMemory = ReadsOf(pending) /\ AtMemory \in Seq(Owings)
  BY <1>1, ReadsOfFacts DEF AtMemory, ReadsOf
<1>6. RequestOnBus \in Seq(Owings)
  <2>1. CASE S_bus.dest = "MEMORY" /\ S_bus.type \in ReadRequests /\ ~ RequestTaken
    <3>1. Owing(S_bus) \in Owings
      BY <1>1, <2>1 DEF Owing, Owings, Buses
    <3> QED
      BY <2>1, <3>1 DEF RequestOnBus
  <2> QED
    BY <2>1 DEF RequestOnBus
<1>7. ResultOnBus \in Seq(Owings)
  <2> DEFINE request == CHOOSE u \in ReadRequests : ResultOf(u) = S_bus.type
             x == [type |-> request, src |-> S_bus.dest, addr |-> S_bus.addr]
  <2>1. CASE S_bus.dest \in {"ICACHE", "DCACHE"} /\ ~ ResultTaken
    <3>1. S_bus.type \in ReadResults
      BY <2>1 DEF CachesAsk
    <3>2. \E u \in ReadRequests : ResultOf(u) = S_bus.type
      BY <3>1 DEF ReadResults, ReadRequests, ResultOf
    <3>3. request \in ReadRequests
      BY <3>2
    <3>4. ResultOnBus = << x >>
      BY <2>1 DEF ResultOnBus
    <3> HIDE DEF request
    <3>5. x \in Owings
      BY <1>1, <3>3 DEF Owings, Buses
    <3> QED
      BY <3>4, <3>5
  <2>2. CASE ~ (S_bus.dest \in {"ICACHE", "DCACHE"} /\ ~ ResultTaken)
    BY <2>2 DEF ResultOnBus
  <2> QED
    BY <2>1, <2>2
<1> QED
  BY <1>2, <1>6, <1>7

(* A step that leaves the reads in flight where they are.                  *)
LEMMA ReadsStay ==
  ASSUME Conserved, owed' = owed, AtMemory' = AtMemory,
         ResultOnBus' = ResultOnBus, RequestOnBus' = RequestOnBus
  PROVE  ReadsAreConserved'
BY DEF Conserved, ReadsAreConserved

(* A read request is put on a free bus.                                    *)
LEMMA ReadStarts ==
  ASSUME Conserved, S_bus.avail, MachineTypeOK', CachesAsk', pending' = pending,
         phase' \in {"dcache1", "mem2"},
         S_bus'.dest = "MEMORY" /\ S_bus'.type \in ReadRequests,
         owed' = Append(owed, Owing(S_bus'))
  PROVE  ReadsAreConserved'
<1>1. S_bus.dest = "NO_ONE" /\ AtMemory' = AtMemory
  BY DEF Conserved, IInv, OneMissInFlight, AtMemory
<1>2. ResultOnBus = << >> /\ RequestOnBus = << >> /\ ResultOnBus' = << >>
  BY <1>1 DEF ResultOnBus, RequestOnBus
<1>3. RequestOnBus' = << Owing(S_bus') >>
  BY DEF RequestOnBus, RequestTaken, Owing
<1>4. AtMemory \in Seq(Owings) /\ Owing(S_bus') \in Owings
  <2>1. S_bus' \in Buses
    BY DEF MachineTypeOK
  <2>2. Owing(S_bus') \in Owings
    BY <2>1 DEF Owing, Owings, Buses
  <2> QED
    BY <2>2, ReadsFacts DEF Conserved, IInv
<1>5. owed = (<< >> \o AtMemory) \o << >>
  BY <1>2 DEF Conserved, ReadsAreConserved
<1>6. owed' = (<< >> \o AtMemory) \o << Owing(S_bus') >>
  <2> DEFINE m == AtMemory
             x == Owing(S_bus')
  <2>1. m \in Seq(Owings) /\ x \in Owings /\ owed' = Append((<< >> \o m) \o << >>, x)
    BY <1>4, <1>5
  <2> HIDE DEF m, x
  <2>2. owed' = (<< >> \o m) \o << x >>
    BY <2>1, QueueFacts
  <2> QED
    BY <2>2 DEF m, x
<1> QED
  BY <1>1, <1>2, <1>3, <1>6 DEF ReadsAreConserved

(* A result is taken off the bus.                                          *)
LEMMA ResultIsTaken ==
  ASSUME Conserved, S_bus.dest \in {"ICACHE", "DCACHE"}, ~ ResultTaken, ResultTaken',
         UNCHANGED <<S_bus, pending>>, owed' = Tail(owed)
  PROVE  ReadsAreConserved'
<1>1. AtMemory' = AtMemory /\ ResultOnBus' = << >>
  BY DEF AtMemory, ResultOnBus
<1>2. RequestOnBus = << >> /\ RequestOnBus' = << >>
  BY DEF RequestOnBus
<1>3. PICK x : ResultOnBus = << x >>
  BY DEF ResultOnBus
<1>4. AtMemory \in Seq(Owings) /\ << x >> \in Seq(Owings)
  BY <1>3, ReadsFacts DEF Conserved, IInv
<1>5. x \in Owings
  BY <1>4, ElementOfSeq
<1>6. owed' = Tail((<< x >> \o AtMemory) \o << >>)
  BY <1>2, <1>3 DEF Conserved, ReadsAreConserved
<1>7. owed' = (<< >> \o AtMemory) \o << >>
  <2> DEFINE m == AtMemory
  <2>1. m \in Seq(Owings) /\ owed' = Tail((<< x >> \o m) \o << >>)
    BY <1>4, <1>6
  <2> DEFINE q == << >>
  <2>2. q \in Seq(Owings)
    OBVIOUS
  <2> HIDE DEF m, q
  <2>3. Tail((<< x >> \o m) \o q) = (<< >> \o m) \o q
    BY <1>5, <2>1, <2>2, QueueFacts
  <2> QED
    BY <2>1, <2>3 DEF m, q
<1> QED
  BY <1>1, <1>2, <1>7 DEF ReadsAreConserved

(* S_sim_bus: what leaves the bus has been taken, the rest stays.          *)
LEMMA BusReads == ASSUME Conserved, IInv', Bus PROVE Conserved'
<1>1. /\ S_bus \in Buses /\ pending \in Seq(Requests) /\ phase = "bus" /\ phase' = "mem1"
      /\ S_bus' = BusAfterCycle(S_bus) /\ owed' = owed
      /\ UNCHANGED <<icache, S_icache_model>>
  BY DEF Conserved, IInv, MachineTypeOK, Bus, At, SimBus, icacheVars, parms
<1>2. /\ RequestTaken <=> AtLastSegment
      /\ ResultTaken <=> AtLastSegment
      /\ ~ RequestTaken' /\ ~ ResultTaken'
  BY <1>1 DEF RequestTaken, ResultTaken
<1>3. /\ DOMAIN pending' = DOMAIN pending
      /\ \A i \in DOMAIN pending : /\ pending'[i].src = pending[i].src
                                    /\ pending'[i].addr = pending[i].addr
                                    /\ pending'[i].type = pending[i].type
  <2>1. pending' = [i \in DOMAIN pending |->
                      [pending[i] EXCEPT !.wait = IF @ > 0 THEN @ - 1 ELSE 0]]
    BY DEF Bus, SimBus
  <2>2. \A i \in DOMAIN pending : pending[i] \in Requests
    BY <1>1
  <2> QED
    BY <2>1, <2>2 DEF Requests
<1>4. AtMemory' = AtMemory
  BY <1>3 DEF AtMemory
<1>5. \/ S_bus' = S_bus /\ S_bus.dest = "NO_ONE"
      \/ /\ ~ AtLastSegment
         /\ S_bus'.src = S_bus.src /\ S_bus'.dest = S_bus.dest
         /\ S_bus'.addr = S_bus.addr /\ S_bus'.type = S_bus.type
      \/ AtLastSegment /\ S_bus'.dest = "NO_ONE"
  <2>1. CASE S_bus.avail \/ S_bus.mem_only
    BY <1>1, <2>1 DEF BusAfterCycle, Conserved, IInv, OneMissInFlight
  <2>2. CASE ~ (S_bus.avail \/ S_bus.mem_only) /\ S_bus.segment # S_bus.length
    <3>1. S_bus' = [S_bus EXCEPT !.segment = @ + 1]
      BY <1>1, <2>2 DEF BusAfterCycle
    <3> QED
      BY <1>1, <2>2, <3>1 DEF Buses, AtLastSegment
  <2>3. CASE ~ (S_bus.avail \/ S_bus.mem_only) /\ S_bus.segment = S_bus.length
    <3> DEFINE held == /\ S_bus.type \in {"READ_REQUEST", "PREFETCH_REQUEST"}
                       /\ S_bus_model = "SINGLE"
    <3>1. S_bus' = [S_bus EXCEPT !.mem_only = held, !.avail = ~ held,
                                 !.src = "NO_ONE", !.dest = "NO_ONE"]
      BY <1>1, <2>3 DEF BusAfterCycle
    <3> HIDE DEF held
    <3> QED
      BY <1>1, <2>3, <3>1 DEF Buses, AtLastSegment
  <2> QED
    BY <2>1, <2>2, <2>3
<1>6. ResultOnBus' = ResultOnBus /\ RequestOnBus' = RequestOnBus
  <2>1. CASE S_bus' = S_bus /\ S_bus.dest = "NO_ONE"
    BY <2>1 DEF ResultOnBus, RequestOnBus
  <2>2. CASE AtLastSegment /\ S_bus'.dest = "NO_ONE"
    BY <1>2, <2>2 DEF ResultOnBus, RequestOnBus
  <2>3. CASE /\ ~ AtLastSegment
             /\ S_bus'.src = S_bus.src /\ S_bus'.dest = S_bus.dest
             /\ S_bus'.addr = S_bus.addr /\ S_bus'.type = S_bus.type
    BY <1>2, <2>3 DEF ResultOnBus, RequestOnBus, Owing
  <2> QED
    BY <1>5, <2>1, <2>2, <2>3
<1>7. CachesAsk'
  BY <1>1, <1>3, <1>5 DEF Conserved, CachesAsk
<1> QED
  BY <1>1, <1>4, <1>6, <1>7, ReadsStay DEF Conserved

(* S_sim_memory_first_half_cycle: the oldest read is the one answered.     *)
LEMMA Memory1Reads == ASSUME Conserved, IInv', Memory1 PROVE Conserved'
<1>1. /\ MachineTypeOK /\ pending \in Seq(Requests)
      /\ phase = "mem1" /\ phase' = "request" /\ owed' = owed
      /\ UNCHANGED <<icache, S_icache_model>>
  BY DEF Conserved, IInv, MachineTypeOK, Memory1, At, icacheVars, parms
<1>2. ~ RequestTaken /\ ~ ResultTaken /\ ~ RequestTaken' /\ ~ ResultTaken'
  BY <1>1 DEF RequestTaken, ResultTaken
<1>3. CASE MemoryMayAnswer
  <2> DEFINE request == Head(pending)
  <2>1. /\ Transaction(ResultOf(request.type), "MEMORY", request.src,
                       request.addr, request.size)
        /\ pending' = Tail(pending) /\ pending # << >>
        /\ S_bus.avail \/ S_bus.mem_only
    BY <1>3 DEF Memory1, MemoryFirstHalf, MemoryMayAnswer
  <2>2. request \in Requests /\ request = pending[1] /\ 1 \in DOMAIN pending
    BY <1>1, <2>1
  <2>3. /\ ResultOf(request.type) \in ReadResults
        /\ request.src \in {"ICACHE", "DCACHE"} /\ request.src \in Agents
        /\ request.addr \in Nat /\ request.size \in Nat
        /\ request.type \in ReadRequests
    BY <2>2 DEF Requests, ResultOf, ReadRequests, ReadResults, Conserved, CachesAsk
  <2>4. /\ S_bus'.dest = request.src /\ S_bus'.addr = request.addr
        /\ S_bus'.type = ResultOf(request.type)
    <3>1. "MEMORY" \in Agents
      BY DEF Agents
    <3> HIDE DEF request
    <3> QED
      BY <1>1, <2>1, <2>3, <3>1, TransactionFacts
  <2>5. /\ Len(pending') = Len(pending) - 1 /\ Len(pending) \in Nat
        /\ DOMAIN pending' = 1 .. Len(pending) - 1
        /\ \A i \in 1 .. Len(pending) - 1 : pending'[i] = pending[i + 1]
        /\ DOMAIN pending = 1 .. Len(pending)
    BY <1>1, <2>1
  <2>6. CachesAsk'
    <3>1. \A i \in DOMAIN pending' : pending'[i].src \in {"ICACHE", "DCACHE"}
      <4> SUFFICES ASSUME NEW i \in 1 .. Len(pending) - 1
                   PROVE  pending[i + 1].src \in {"ICACHE", "DCACHE"}
        BY <2>5
      <4>1. i + 1 \in DOMAIN pending
        BY <2>5
      <4> QED
        BY <4>1 DEF Conserved, CachesAsk
    <3> QED
      BY <1>1, <2>3, <2>4, <3>1 DEF Conserved, CachesAsk
  <2>7. ResultOnBus = << >> /\ RequestOnBus = << >> /\ RequestOnBus' = << >>
    BY <2>1, <2>3, <2>4
    DEF ResultOnBus, RequestOnBus, Conserved, IInv, OneMissInFlight
  <2> DEFINE m == AtMemory
  <2>8. /\ m = ReadsOf(pending) /\ m \in Seq(Owings) /\ Len(m) = Len(pending)
        /\ \A i \in 1 .. Len(pending) :
             m[i] = [type |-> pending[i].type, src |-> pending[i].src,
                     addr |-> pending[i].addr]
    BY <1>1, ReadsFacts, ReadsOfFacts DEF Conserved
  <2>9. m # << >> /\ Head(m) = m[1] /\ Tail(m) \in Seq(Owings) /\ Len(Tail(m)) = Len(m) - 1
        /\ \A i \in 1 .. Len(m) - 1 : Tail(m)[i] = m[i + 1]
    <3> HIDE DEF m
    <3>1. Len(m) > 0
      BY <2>2, <2>5, <2>8
    <3> QED
      BY <2>8, <3>1
  <2>10. ResultOnBus' = << Head(m) >>
    <3>1. (CHOOSE u \in ReadRequests : ResultOf(u) = ResultOf(request.type)) = request.type
      <4>1. \A u, v \in ReadRequests : ResultOf(u) = ResultOf(v) => u = v
        BY DEF ReadRequests, ResultOf
      <4> QED
        BY <2>3, <4>1
    <3>2. ResultOnBus' = << [type |-> CHOOSE u \in ReadRequests : ResultOf(u) = S_bus'.type,
                             src |-> S_bus'.dest, addr |-> S_bus'.addr] >>
      BY <1>2, <2>3, <2>4 DEF ResultOnBus, ResultOf
    <3>3. ResultOnBus' = << [type |-> request.type, src |-> request.src,
                             addr |-> request.addr] >>
      BY <2>4, <3>1, <3>2
    <3> QED
      BY <2>2, <2>5, <2>8, <2>9, <3>3
  <2>11. AtMemory' = Tail(m)
    <3> DEFINE p == pending'
    <3>1. p \in Seq(Requests) /\ AtMemory' = ReadsOf(p)
      BY DEF IInv, MachineTypeOK, AtMemory, ReadsOf
    <3>2. /\ Len(p) = Len(pending) - 1
          /\ \A i \in 1 .. Len(pending) - 1 : p[i] = pending[i + 1]
      BY <2>5
    <3> HIDE DEF m, p, request
    <3>3. /\ ReadsOf(p) \in Seq(Owings) /\ Len(ReadsOf(p)) = Len(p)
          /\ \A i \in 1 .. Len(p) :
               ReadsOf(p)[i] = [type |-> p[i].type, src |-> p[i].src, addr |-> p[i].addr]
      BY <3>1, ReadsOfFacts
    <3>4. ASSUME NEW i \in 1 .. Len(p) PROVE ReadsOf(p)[i] = Tail(m)[i]
      <4>1. i \in 1 .. Len(m) - 1 /\ i + 1 \in 1 .. Len(pending)
        BY <2>5, <2>8, <3>2
      <4>2. Tail(m)[i] = m[i + 1] /\ p[i] = pending[i + 1]
        BY <2>8, <2>9, <3>2, <4>1
      <4> QED
        BY <2>8, <3>3, <4>1, <4>2
    <3>5. Len(Tail(m)) = Len(p)
      BY <2>8, <2>9, <3>2
    <3>6. ReadsOf(p) = Tail(m)
      BY <2>9, <3>3, <3>4, <3>5, SeqEqual
    <3> QED
      BY <3>1, <3>6
  <2>12. owed' = (<< Head(m) >> \o Tail(m)) \o << >>
    <3>1. owed' = (<< >> \o m) \o << >>
      BY <1>1, <2>7 DEF Conserved, ReadsAreConserved
    <3> HIDE DEF m
    <3> QED
      BY <2>8, <2>9, <3>1
  <2>13. ReadsAreConserved'
    BY <2>7, <2>10, <2>11, <2>12 DEF ReadsAreConserved
  <2> QED
    BY <2>6, <2>13 DEF Conserved
<1>4. CASE ~ MemoryMayAnswer
  <2>1. UNCHANGED <<S_bus, pending>>
    BY <1>4 DEF Memory1, MemoryFirstHalf
  <2>2. /\ AtMemory' = AtMemory /\ ResultOnBus' = ResultOnBus
        /\ RequestOnBus' = RequestOnBus
    BY <1>2, <2>1 DEF AtMemory, ResultOnBus, RequestOnBus, Owing
  <2>3. CachesAsk'
    BY <1>1, <2>1 DEF Conserved, CachesAsk
  <2> QED
    BY <1>1, <2>2, <2>3, ReadsStay DEF Conserved
<1> QED
  BY <1>3, <1>4

(* S_sim_icache_first_half_cycle: the request of a miss is owed an answer. *)
LEMMA Icache1Reads == ASSUME Conserved, IInv', Icache1 PROVE Conserved'
<1>1. /\ MachineTypeOK /\ MachineTypeOK' /\ icache \in Misses
      /\ phase = "icache1" /\ phase' = "dcache1" /\ UNCHANGED <<pending, S_icache_model>>
      /\ owed' = IF icache'.sent_request /\ ~ icache.sent_request
                 THEN Append(owed, Owing(S_bus')) ELSE owed
  BY DEF Conserved, IInv, MachineTypeOK, Icache1, At, parms
<1>2. ~ RequestTaken /\ ~ ResultTaken /\ ~ RequestTaken' /\ ~ ResultTaken'
  BY <1>1 DEF RequestTaken, ResultTaken
<1>3. ASSUME S_bus' = S_bus, icache' = icache \/ ~ icache'.sent_request,
             S_icache_model = "PERFECT" => icache' = icache
      PROVE  Conserved'
  <2>1. owed' = owed
    BY <1>1, <1>3
  <2>2. /\ AtMemory' = AtMemory /\ ResultOnBus' = ResultOnBus
        /\ RequestOnBus' = RequestOnBus
    BY <1>1, <1>2, <1>3 DEF AtMemory, ResultOnBus, RequestOnBus, Owing
  <2>3. CachesAsk'
    BY <1>1, <1>3 DEF Conserved, CachesAsk
  <2> QED
    BY <2>1, <2>2, <2>3, ReadsStay DEF Conserved
<1>4. CASE IcacheSendsRequest /\ ~ icache.sent_request /\ S_bus.avail
  <2> DEFINE a == StartAddr(icache.request_addr)
  <2>1. /\ Transaction("READ_REQUEST", "ICACHE", "MEMORY", a, S_icache_block_size)
        /\ icache' = [icache EXCEPT !.sent_request = TRUE]
        /\ S_icache_model # "PERFECT"
    BY <1>4 DEF IcacheSendsRequest
  <2>2. a \in Nat /\ S_icache_block_size \in Nat
    BY <1>1, AddrFacts, IcacheAssumption DEF Misses
  <2>3. "READ_REQUEST" \in ReadRequests /\ "ICACHE" \in Agents /\ "MEMORY" \in Agents
    BY DEF ReadRequests, Agents
  <2>4. S_bus'.src = "ICACHE" /\ S_bus'.dest = "MEMORY" /\ S_bus'.type = "READ_REQUEST"
    <3> HIDE DEF a
    <3> QED
      BY <1>4, <2>1, <2>2, <2>3, TransactionFacts
  <2>5. owed' = Append(owed, Owing(S_bus'))
    BY <1>1, <1>4, <2>1 DEF Misses
  <2>6. CachesAsk'
    BY <1>1, <2>1, <2>4 DEF Conserved, CachesAsk
  <2>7. ReadsAreConserved'
    BY <1>1, <1>4, <2>3, <2>4, <2>5, <2>6, ReadStarts
  <2> QED
    BY <2>6, <2>7 DEF Conserved
<1> QED
  BY <1>3, <1>4 DEF Icache1, IcacheFirstHalf, IcachePerfect, IcacheSendsRequest,
     IcacheMiss, IcacheHit, IcacheIdle, icacheVars

(* The data cache's requests: reads are owed an answer, writes are not.    *)
LEMMA Dcache1Reads == ASSUME Conserved, IInv', Dcache1 PROVE Conserved'
<1>1. /\ MachineTypeOK /\ MachineTypeOK'
      /\ phase = "dcache1" /\ phase' = "mem2"
      /\ UNCHANGED <<pending, icache, S_icache_model>>
  BY DEF Conserved, IInv, MachineTypeOK, Dcache1, At, icacheVars, parms
<1>2. ~ RequestTaken /\ ~ ResultTaken /\ ~ RequestTaken' /\ ~ ResultTaken'
  BY <1>1 DEF RequestTaken, ResultTaken
<1>3. CASE UNCHANGED <<S_bus, owed>>
  <2>1. /\ AtMemory' = AtMemory /\ ResultOnBus' = ResultOnBus
        /\ RequestOnBus' = RequestOnBus
    BY <1>1, <1>2, <1>3 DEF AtMemory, ResultOnBus, RequestOnBus, Owing
  <2>2. CachesAsk'
    BY <1>1, <1>3 DEF Conserved, CachesAsk
  <2> QED
    BY <1>3, <2>1, <2>2, ReadsStay DEF Conserved
<1>4. ASSUME NEW r \in DcacheRequests, S_bus.avail,
             Transaction(r.type, "DCACHE", "MEMORY", r.addr, r.size),
             owed' = IF r.type \in ReadRequests THEN Append(owed, Owing(S_bus')) ELSE owed
      PROVE  Conserved'
  <2>1. /\ r.type \in ReadRequests \cup WriteRequests
        /\ r.addr \in Nat /\ r.size \in Nat
    BY MemSystemAssumption
  <2>2. "DCACHE" \in Agents /\ "MEMORY" \in Agents
    BY DEF Agents
  <2>3. S_bus'.src = "DCACHE" /\ S_bus'.dest = "MEMORY" /\ S_bus'.type = r.type
    BY <1>4, <2>1, <2>2, TransactionFacts
  <2>4. CachesAsk'
    BY <1>1, <2>3 DEF Conserved, CachesAsk
  <2>5. CASE r.type \in ReadRequests
    <3>1. ReadsAreConserved'
      BY <1>1, <1>4, <2>3, <2>4, <2>5, ReadStarts
    <3> QED
      BY <2>4, <3>1 DEF Conserved
  <2>6. CASE r.type \notin ReadRequests
    <3>1. S_bus.dest = "NO_ONE"
      BY <1>4 DEF Conserved, IInv, OneMissInFlight
    <3>2. /\ AtMemory' = AtMemory /\ ResultOnBus' = ResultOnBus
          /\ RequestOnBus' = RequestOnBus
      BY <1>1, <2>3, <2>6, <3>1 DEF AtMemory, ResultOnBus, RequestOnBus
    <3> QED
      BY <1>4, <2>4, <2>6, <3>2, ReadsStay DEF Conserved
  <2> QED
    BY <2>5, <2>6
<1> QED
  BY <1>3, <1>4 DEF Dcache1

(* S_sim_memory_second_half_cycle: the request moves from the bus to the   *)
(* end of memory's queue.                                                  *)
LEMMA Memory2Reads == ASSUME Conserved, IInv', Memory2 PROVE Conserved'
<1>1. /\ MachineTypeOK /\ S_bus \in Buses /\ pending \in Seq(Requests)
      /\ phase = "mem2" /\ phase' = "icache2"
      /\ UNCHANGED <<S_bus, icache, owed, S_icache_model>>
  BY DEF Conserved, IInv, MachineTypeOK, Memory2, MemorySecondHalf, At, icacheVars, parms
<1>2. ~ RequestTaken /\ ~ ResultTaken /\ ~ ResultTaken' /\ (RequestTaken' <=> AtLastSegment)
  BY <1>1 DEF RequestTaken, ResultTaken, AtLastSegment
<1>3. ResultOnBus' = ResultOnBus
  BY <1>1, <1>2 DEF ResultOnBus
<1>4. CASE MemoryAccepts
  <2> DEFINE new == [type |-> S_bus.type, src |-> S_bus.src, addr |-> S_bus.addr,
                     size |-> S_bus.size, wait |-> S_memory_latency]
  <2>1. pending' = Append(pending, new) /\ S_bus.type \in ReadRequests
        /\ AtLastSegment /\ S_bus.dest = "MEMORY"
    BY <1>4 DEF Memory2, MemorySecondHalf, MemoryAccepts
  <2>2. /\ new \in Requests
        /\ new.src = S_bus.src /\ new.addr = S_bus.addr /\ new.type = S_bus.type
        /\ new.src \in {"ICACHE", "DCACHE"}
    BY <1>1, <2>1, BusMemAssumption DEF Requests, Buses, Conserved, CachesAsk
  <2> HIDE DEF new
  <2>3. RequestOnBus = << Owing(S_bus) >> /\ RequestOnBus' = << >>
    BY <1>1, <1>2, <2>1 DEF RequestOnBus
  <2>4. Owing(S_bus) = [type |-> new.type, src |-> new.src, addr |-> new.addr]
        /\ Owing(S_bus) \in Owings
    BY <1>1, <2>1, <2>2 DEF Owing, Owings, Buses
  <2> DEFINE m == AtMemory
             p == pending'
             r == ResultOnBus
             x == Owing(S_bus)
  <2>5. /\ m = ReadsOf(pending) /\ m \in Seq(Owings) /\ r \in Seq(Owings)
    BY <1>1, ReadsFacts DEF Conserved
  <2>6. AtMemory' = ReadsOf(p) /\ p = Append(pending, new)
    BY <2>1 DEF AtMemory, ReadsOf
  <2>7. owed' = (r \o m) \o << x >>
    BY <1>1, <2>3 DEF Conserved, ReadsAreConserved
  <2> HIDE DEF m, p, r
  <2>8. /\ p \in Seq(Requests) /\ Len(p) = Len(pending) + 1
        /\ \A i \in 1 .. Len(pending) : p[i] = pending[i]
        /\ p[Len(pending) + 1] = new /\ Len(pending) \in Nat
    BY <1>1, <2>2, <2>6, AppendProperties
  <2>9. ReadsOf(p) = Append(m, x)
    <3>1. Append(m, x) \in Seq(Owings) /\ Len(Append(m, x)) = Len(m) + 1
          /\ (\A i \in 1 .. Len(m) : Append(m, x)[i] = m[i])
          /\ Append(m, x)[Len(m) + 1] = x
      <4> HIDE DEF x
      <4> QED
        BY <2>4, <2>5, AppendProperties DEF x
    <3>2. /\ Len(m) = Len(pending)
          /\ \A i \in 1 .. Len(pending) :
               m[i] = [type |-> pending[i].type, src |-> pending[i].src,
                       addr |-> pending[i].addr]
      BY <1>1, <2>5, ReadsOfFacts
    <3>3. /\ ReadsOf(p) \in Seq(Owings) /\ Len(ReadsOf(p)) = Len(p)
          /\ \A i \in 1 .. Len(p) :
               ReadsOf(p)[i] = [type |-> p[i].type, src |-> p[i].src, addr |-> p[i].addr]
      BY <2>8, ReadsOfFacts
    <3>4. ASSUME NEW i \in 1 .. Len(p) PROVE ReadsOf(p)[i] = Append(m, x)[i]
      <4>1. CASE i <= Len(pending)
        BY <2>8, <3>1, <3>2, <3>3, <4>1
      <4>2. CASE i = Len(pending) + 1
        BY <2>4, <2>8, <3>1, <3>2, <3>3, <4>2
      <4>3. i <= Len(pending) \/ i = Len(pending) + 1
        BY <2>8
      <4> QED
        BY <4>1, <4>2, <4>3
    <3> HIDE DEF x
    <3> QED
      BY <2>8, <3>1, <3>2, <3>3, <3>4, SeqEqual
  <2>10. owed' = (r \o Append(m, x)) \o << >>
    <3>1. x \in Owings
      BY <2>4
    <3> HIDE DEF x
    <3> QED
      BY <2>5, <2>7, <3>1, QueueFacts
  <2>11. ReadsAreConserved'
    BY <1>3, <2>3, <2>6, <2>9, <2>10 DEF ReadsAreConserved, r
  <2>12. CachesAsk'
    <3>1. \A i \in DOMAIN pending' : pending'[i].src \in {"ICACHE", "DCACHE"}
      <4>1. DOMAIN pending' = 1 .. Len(pending) + 1 /\ DOMAIN pending = 1 .. Len(pending)
        BY <1>1, <2>8 DEF p
      <4>2. \A i \in 1 .. Len(pending) : pending[i].src \in {"ICACHE", "DCACHE"}
        BY <4>1 DEF Conserved, CachesAsk
      <4> QED
        BY <2>2, <2>8, <4>1, <4>2 DEF p
    <3> QED
      BY <1>1, <3>1 DEF Conserved, CachesAsk
  <2> QED
    BY <2>11, <2>12 DEF Conserved
<1>5. CASE ~ MemoryAccepts
  <2>1. pending' = pending
    BY <1>5 DEF Memory2, MemorySecondHalf
  <2>2. RequestOnBus' = RequestOnBus /\ AtMemory' = AtMemory
    BY <1>1, <1>2, <1>5, <2>1 DEF RequestOnBus, AtMemory, MemoryAccepts
  <2>3. CachesAsk'
    BY <1>1, <2>1 DEF Conserved, CachesAsk
  <2> QED
    BY <1>1, <1>3, <2>2, <2>3, ReadsStay DEF Conserved
<1> QED
  BY <1>4, <1>5

(* S_sim_icache_second_half_cycle: the block that is taken is the oldest   *)
(* read owed.                                                              *)
LEMMA Icache2Reads == ASSUME Conserved, IInv', Icache2 PROVE Conserved'
<1>1. /\ icache \in Misses /\ phase = "icache2" /\ phase' = "dcache2"
      /\ UNCHANGED <<S_bus, pending, S_icache_model>>
      /\ owed' = IF icache.busy /\ ~ icache'.busy THEN Tail(owed) ELSE owed
  BY DEF Conserved, IInv, MachineTypeOK, Icache2, At, parms
<1>2. /\ ~ ResultTaken
      /\ ResultTaken' <=> AtLastSegment /\ S_bus.dest = "ICACHE"
      /\ RequestTaken' <=> RequestTaken
  BY <1>1 DEF RequestTaken, ResultTaken, AtLastSegment
<1>3. S_bus.dest = "ICACHE" => icache.busy /\ OfMiss(S_bus.addr)
  BY <1>2 DEF Conserved, IInv, OneMissInFlight, OfMiss
<1>4. CASE IcacheReceives
  <2>1. S_bus.dest = "ICACHE" /\ icache.busy /\ AtLastSegment
    BY <1>4 DEF IcacheReceives
  <2>2. icache' = [icache EXCEPT !.busy = FALSE]
    BY <1>3, <1>4, <2>1 DEF Icache2, IcacheSecondHalf, OfMiss
  <2>3. ~ icache'.busy /\ owed' = Tail(owed)
    BY <1>1, <2>1, <2>2 DEF Misses
  <2>4. ReadsAreConserved'
    BY <1>1, <1>2, <2>1, <2>3, ResultIsTaken
  <2>5. CachesAsk'
    BY <1>1, <2>3 DEF Conserved, CachesAsk
  <2> QED
    BY <2>4, <2>5 DEF Conserved
<1>5. CASE ~ IcacheReceives
  <2>1. icache' = icache /\ owed' = owed
    BY <1>1, <1>5 DEF Icache2, IcacheSecondHalf, icacheVars
  <2>2. ~ ResultTaken'
    BY <1>2, <1>3, <1>5 DEF IcacheReceives, Conserved, CachesAsk
  <2>3. /\ AtMemory' = AtMemory /\ ResultOnBus' = ResultOnBus
        /\ RequestOnBus' = RequestOnBus
    BY <1>1, <1>2, <2>2 DEF AtMemory, ResultOnBus, RequestOnBus
  <2>4. CachesAsk'
    BY <1>1, <2>1 DEF Conserved, CachesAsk
  <2> QED
    BY <2>1, <2>3, <2>4, ReadsStay DEF Conserved
<1> QED
  BY <1>4, <1>5

(* S_sim_dcache_second_half_cycle.                                         *)
LEMMA Dcache2Reads == ASSUME Conserved, IInv', Dcache2 PROVE Conserved'
<1>1. /\ phase = "dcache2" /\ phase' = "exec"
      /\ UNCHANGED <<S_bus, pending, icache, S_icache_model>>
      /\ owed' = IF S_bus.dest = "DCACHE" /\ AtLastSegment THEN Tail(owed) ELSE owed
  BY DEF Dcache2, At, parms, icacheVars
<1>2. /\ ResultTaken <=> AtLastSegment /\ S_bus.dest = "ICACHE"
      /\ ResultTaken' <=> AtLastSegment
      /\ RequestTaken' <=> RequestTaken
  BY <1>1 DEF RequestTaken, ResultTaken, AtLastSegment
<1>3. CachesAsk'
  BY <1>1 DEF Conserved, CachesAsk
<1>4. CASE S_bus.dest = "DCACHE" /\ AtLastSegment
  <2>1. ReadsAreConserved'
    BY <1>1, <1>2, <1>4, ResultIsTaken
  <2> QED
    BY <1>3, <2>1 DEF Conserved
<1>5. CASE ~ (S_bus.dest = "DCACHE" /\ AtLastSegment)
  <2>1. /\ AtMemory' = AtMemory /\ ResultOnBus' = ResultOnBus
        /\ RequestOnBus' = RequestOnBus
    BY <1>1, <1>2, <1>5 DEF AtMemory, ResultOnBus, RequestOnBus
  <2> QED
    BY <1>1, <1>3, <1>5, <2>1, ReadsStay DEF Conserved
<1> QED
  BY <1>4, <1>5

(* The steps of the processor.                                             *)
LEMMA ProcessorReads ==
  ASSUME Conserved, IInv', UNCHANGED <<S_bus, pending, icache, owed, S_icache_model>>,
         \/ phase = "request" /\ phase' = "icache1"
         \/ phase = "exec" /\ phase' = "ifetch"
         \/ phase = "ifetch" /\ phase' = "halt"
         \/ phase = "halt" /\ phase' = "bus"
         \/ phase' = phase
  PROVE  Conserved'
<1>1. (RequestTaken' <=> RequestTaken) /\ (ResultTaken' <=> ResultTaken)
  BY DEF RequestTaken, ResultTaken, AtLastSegment
<1>2. /\ AtMemory' = AtMemory /\ ResultOnBus' = ResultOnBus
      /\ RequestOnBus' = RequestOnBus
  BY <1>1 DEF AtMemory, ResultOnBus, RequestOnBus
<1>3. CachesAsk'
  BY DEF Conserved, CachesAsk
<1> QED
  BY <1>2, <1>3, ReadsStay DEF Conserved

(* Every read is answered exactly once, in order and to the cache that     *)
(* sent it: no call of the cycle loop loses or doubles a read as it moves  *)
(* from the bus to memory's queue and back.                                *)
THEOREM EveryReadIsAnsweredOnce == Spec => []ReadsAreConserved
<1>1. Init => Conserved
  <2> SUFFICES ASSUME Init PROVE CachesAsk /\ ReadsAreConserved
    BY InitIInv DEF Conserved
  <2>1. CachesAsk
    BY DEF Init, BusInit, IcacheInit, CachesAsk
  <2>2. AtMemory = << >> /\ ResultOnBus = << >> /\ RequestOnBus = << >>
    BY DEF Init, BusInit, AtMemory, ResultOnBus, RequestOnBus
  <2>3. owed = << >>
    BY DEF Init
  <2> QED
    BY <2>1, <2>2, <2>3 DEF ReadsAreConserved
<1>2. Conserved /\ [Next]_vars => Conserved'
  <2> SUFFICES ASSUME Conserved, [Next]_vars PROVE Conserved'
    OBVIOUS
  <2>1. IInv'
    BY NextIInv DEF Conserved
  <2>2. CASE Request \/ Execute \/ FixMispredictedBranch \/ Fetch \/ Continue \/ Halt
               \/ NextSample \/ UNCHANGED vars
    BY <2>1, <2>2, ProcessorReads
    DEF Request, Execute, FixMispredictedBranch, Fetch, Continue, Halt, NextSample, vars,
        At, parms, icacheVars
  <2> QED
    BY <2>1, <2>2, BusReads, Memory1Reads, Icache1Reads, Dcache1Reads, Memory2Reads,
       Icache2Reads, Dcache2Reads DEF Next
<1>3. Conserved => ReadsAreConserved
  BY DEF Conserved
<1> QED
  BY <1>1, <1>2, <1>3, PTL DEF Spec

-----------------------------------------------------------------------------
(* The contents of the cache.  A value of LruOps:                          *)
Contents == [0 .. NumSets - 1 -> Seq(Int)]

(* An address falls into one of the sets. *)
LEMMA SetOfFacts == ASSUME NEW a \in Nat PROVE SetOf(a) \in 0 .. NumSets - 1
BY IcacheAssumption DEF SetOf

(* Where the elements of a concatenation come from.                        *)
LEMMA ConcatFacts ==
  ASSUME NEW S, NEW s \in Seq(S), NEW t \in Seq(S)
  PROVE  /\ s \o t \in Seq(S) /\ Len(s \o t) = Len(s) + Len(t)
         /\ \A i \in 1 .. Len(s) : (s \o t)[i] = s[i]
         /\ \A i \in 1 .. Len(t) : (s \o t)[Len(s) + i] = t[i]
OBVIOUS

(* A sequence without the element at position p.                           *)
LEMMA RemoveAtFacts ==
  ASSUME NEW S, NEW s \in Seq(S), NEW p \in 1 .. Len(s)
  PROVE  /\ RemoveAt(s, p) \in Seq(S) /\ Len(RemoveAt(s, p)) = Len(s) - 1
         /\ \A i \in 1 .. Len(s) - 1 : RemoveAt(s, p)[i] = IF i < p THEN s[i] ELSE s[i + 1]
<1> DEFINE u == SubSeq(s, 1, p - 1)
           v == SubSeq(s, p + 1, Len(s))
           z == u \o v
<1>1. Len(s) \in Nat /\ p \in Nat /\ p >= 1 /\ p <= Len(s)
  OBVIOUS
<1>2. /\ u \in Seq(S) /\ Len(u) = p - 1 /\ \A i \in 1 .. p - 1 : u[i] = s[i]
  BY <1>1
<1>3. /\ v \in Seq(S) /\ Len(v) = Len(s) - p /\ \A i \in 1 .. Len(s) - p : v[i] = s[p + i]
  BY <1>1
<1> HIDE DEF u, v
<1>4. /\ z \in Seq(S) /\ Len(z) = Len(u) + Len(v)
      /\ \A i \in 1 .. Len(u) : z[i] = u[i]
      /\ \A i \in 1 .. Len(v) : z[Len(u) + i] = v[i]
  <2>1. u \in Seq(S) /\ v \in Seq(S)
    BY <1>2, <1>3
  <2> QED
    BY ONLY <2>1, ConcatFacts DEF z
<1> HIDE DEF z
<1>5. ASSUME NEW i \in 1 .. Len(s) - 1 PROVE z[i] = IF i < p THEN s[i] ELSE s[i + 1]
  <2>1. CASE i < p
    BY <1>1, <1>2, <1>4, <2>1
  <2>2. CASE i >= p
    <3>1. i - (p - 1) \in 1 .. Len(s) - p /\ Len(u) + (i - (p - 1)) = i /\ p + (i - (p - 1)) = i + 1
      BY <1>1, <1>2, <2>2
    <3>2. z[i] = v[i - (p - 1)]
      BY <1>3, <1>4, <3>1
    <3>3. v[i - (p - 1)] = s[i + 1]
      BY <1>3, <3>1
    <3> QED
      BY <2>2, <3>2, <3>3
  <2> QED
    BY <1>1, <2>1, <2>2
<1>6. RemoveAt(s, p) = z
  BY DEF RemoveAt, u, v, z
<1>7. Len(z) = Len(s) - 1
  BY <1>1, <1>2, <1>3, <1>4
<1> QED
  BY <1>4, <1>5, <1>6, <1>7

(* Moving a block to the front keeps every block of the set.               *)
LEMMA WithoutFacts ==
  ASSUME NEW s \in Seq(Int), NEW a \in Int, Contains(s, a)
  PROVE  /\ << a >> \o Without(s, a) \in Seq(Int)
         /\ \A b \in Int : Contains(s, b) => Contains(<< a >> \o Without(s, a), b)
<1> DEFINE p == CHOOSE i \in DOMAIN s : s[i] = a
           z == RemoveAt(s, p)
           w == << a >> \o z
<1>1. p \in 1 .. Len(s) /\ s[p] = a /\ Len(s) \in Nat
  <2>1. DOMAIN s = 1 .. Len(s) /\ \E i \in DOMAIN s : s[i] = a
    BY DEF Contains
  <2> QED
    BY <2>1
<1>2. << a >> \o Without(s, a) = w
  BY DEF Without
<1> HIDE DEF p
<1>3. /\ z \in Seq(Int) /\ Len(z) = Len(s) - 1
      /\ \A i \in 1 .. Len(s) - 1 : z[i] = IF i < p THEN s[i] ELSE s[i + 1]
  BY <1>1, RemoveAtFacts
<1> HIDE DEF z
<1>4. /\ w \in Seq(Int) /\ Len(w) = Len(s) /\ w[1] = a
      /\ \A i \in 1 .. Len(s) - 1 : w[i + 1] = z[i]
  BY <1>1, <1>3
<1> HIDE DEF w
<1>5. ASSUME NEW b \in Int, Contains(s, b) PROVE Contains(w, b)
  <2>1. PICK i \in 1 .. Len(s) : s[i] = b
    BY <1>5 DEF Contains
  <2>2. CASE i < p
    <3>1. i \in 1 .. Len(s) - 1 /\ i + 1 \in 1 .. Len(w)
      BY <1>1, <1>4, <2>2
    <3>2. w[i + 1] = b
      BY <1>3, <1>4, <2>1, <2>2, <3>1
    <3> QED
      BY <3>1, <3>2 DEF Contains
  <2>3. CASE i = p
    <3>1. 1 \in 1 .. Len(w) /\ w[1] = b
      BY <1>1, <1>4, <2>1, <2>3
    <3> QED
      BY <3>1 DEF Contains
  <2>4. CASE i > p
    <3>1. i - 1 \in 1 .. Len(s) - 1 /\ ~ (i - 1 < p) /\ (i - 1) + 1 = i /\ i \in 1 .. Len(w)
      BY <1>1, <1>4, <2>4
    <3>2. w[i] = z[i - 1] /\ z[i - 1] = s[i]
      BY <1>3, <1>4, <3>1
    <3> QED
      BY <2>1, <3>1, <3>2 DEF Contains
  <2> QED
    BY <1>1, <2>2, <2>3, <2>4
<1> QED
  BY <1>2, <1>4, <1>5

(* After a hit every block is still there. *)
LEMMA PromoteFacts ==
  ASSUME NEW l \in Contents, NEW a \in Nat, Has(l, a)
  PROVE  /\ Promote(l, a) \in Contents
         /\ \A b \in Nat : Has(l, b) => Has(Promote(l, a), b)
<1> DEFINE s == l[SetOf(a)]
           t == << a >> \o Without(s, a)
<1>1. s \in Seq(Int) /\ Contains(s, a) /\ SetOf(a) \in 0 .. NumSets - 1
  BY SetOfFacts DEF Contents, Has
<1>2. Promote(l, a) = [l EXCEPT ![SetOf(a)] = t]
  BY DEF Promote
<1> HIDE DEF s
<1>3. t \in Seq(Int) /\ \A b \in Nat : Contains(s, b) => Contains(t, b)
  <2>1. a \in Int
    OBVIOUS
  <2>2. t \in Seq(Int) /\ \A b \in Int : Contains(s, b) => Contains(t, b)
    BY ONLY <1>1, <2>1, WithoutFacts DEF t
  <2> QED
    BY <2>2
<1> HIDE DEF t
<1>4. ASSUME NEW b \in Nat, Has(l, b) PROVE Has(Promote(l, a), b)
  <2>1. SetOf(b) \in 0 .. NumSets - 1 /\ Contains(l[SetOf(b)], b)
    BY <1>4, SetOfFacts DEF Has
  <2>2. CASE SetOf(b) = SetOf(a)
    <3>1. Promote(l, a)[SetOf(b)] = t /\ Contains(t, b)
      BY <1>1, <1>2, <1>3, <2>1, <2>2 DEF Contents, s
    <3> QED
      BY <3>1 DEF Has
  <2>3. CASE SetOf(b) # SetOf(a)
    <3>1. Promote(l, a)[SetOf(b)] = l[SetOf(b)]
      BY <1>1, <1>2, <2>1, <2>3 DEF Contents
    <3> QED
      BY <2>1, <3>1 DEF Has
  <2> QED
    BY <2>2, <2>3
<1> QED
  BY <1>1, <1>2, <1>3, <1>4 DEF Contents

(* After a fill the block is there. *)
LEMMA FillFacts ==
  ASSUME NEW l \in Contents, NEW a \in Nat
  PROVE  Fill(l, a) \in Contents /\ Has(Fill(l, a), a)
<1> DEFINE s == l[SetOf(a)]
           t == << a >> \o Front(s)
<1>1. s \in Seq(Int) /\ SetOf(a) \in 0 .. NumSets - 1
  BY SetOfFacts DEF Contents
<1>2. Fill(l, a) = [l EXCEPT ![SetOf(a)] = t]
  BY DEF Fill
<1>3. t \in Seq(Int) /\ 1 \in 1 .. Len(t) /\ t[1] = a
  <2> DEFINE f == Front(s)
  <2> HIDE DEF s
  <2>1. f \in Seq(Int)
    BY <1>1 DEF Front
  <2> HIDE DEF f
  <2>2. << a >> \o f \in Seq(Int) /\ 1 \in 1 .. Len(<< a >> \o f) /\ (<< a >> \o f)[1] = a
    BY <2>1
  <2> QED
    BY <2>2 DEF f
<1>4. Contains(t, a)
  BY <1>3 DEF Contains
<1> HIDE DEF t
<1>5. Fill(l, a)[SetOf(a)] = t
  BY <1>1, <1>2 DEF Contents
<1> QED
  BY <1>1, <1>2, <1>3, <1>4, <1>5 DEF Contents, Has

(* Which addresses are in a block.                                         *)
LEMMA BlockFacts ==
  ASSUME NEW a \in Nat
  PROVE  /\ BlockOf(a) \in Nat /\ StartAddr(a) \in Nat
         /\ StartAddr(a) <= a /\ a < StartAddr(a) + S_icache_block_size
         /\ \A x \in Nat :
              /\ StartAddr(a) <= x /\ x < StartAddr(a) + S_icache_block_size =>
                   BlockOf(x) = BlockOf(a)
              /\ /\ StartAddr(a) + S_icache_block_size <= x
                 /\ x < StartAddr(a) + 2 * S_icache_block_size
                 => BlockOf(x) = BlockOf(a) + 1
<1> DEFINE z == S_icache_block_size
           q == a \div z
<1>1. z \in Nat /\ z >= 4 /\ q \in Nat /\ q * z \in Nat /\ q * z <= a /\ a < q * z + z
  BY IcacheAssumption
<1>2. ASSUME NEW x \in Nat, NEW r \in Nat, r * z <= x, x < r * z + z PROVE x \div z = r
  BY <1>1, <1>2
<1>3. (q + 1) * z = q * z + z /\ q + 1 \in Nat
  BY <1>1
<1>4. q * z + z + z = q * z + 2 * z
  BY <1>1
<1> HIDE DEF z, q
<1>5. ASSUME NEW x \in Nat, q * z + z <= x, x < q * z + 2 * z PROVE x \div z = q + 1
  BY <1>1, <1>2, <1>3, <1>4, <1>5
<1> QED
  BY <1>1, <1>2, <1>5 DEF BlockOf, StartAddr, z, q

-----------------------------------------------------------------------------
(* The instructions the instruction cache says it returned are in it.  In  *)
(* phase icache1 the count may be one of an earlier cycle.                 *)
Returned ==
  S_icache_model # "PERFECT" /\ icache_addr_requested # 0 =>
    \A k \in 0 .. (icache_bytes_returned \div 4) - 1 :
      Has(ilines, BlockOf(icache_addr_requested + 4 * k))

FetchInv ==
  /\ ilines \in Contents
  /\ icache_bytes_returned \in Nat
  /\ phase = "icache1" /\ icache.busy => icache_addr_requested = 0
  /\ phase # "icache1" => Returned
  /\ phase \notin {"halt", "bus"} => fetched = NothingFetched
  /\ FetchedInstructionsAreCached

(* The rest of a block, and half of the next one.                          *)
LEMMA RestOfBlock ==
  ASSUME NEW a \in Nat, NEW l \in Contents, NEW n \in Nat, Has(l, BlockOf(a)),
         \/ n = StartAddr(a) + S_icache_block_size - a
         \/ /\ n = StartAddr(a) + S_icache_block_size - a + (S_icache_block_size \div 2)
            /\ Has(l, BlockOf(a) + 1)
  PROVE  \A k \in 0 .. (n \div 4) - 1 : Has(l, BlockOf(a + 4 * k))
<1> DEFINE z == S_icache_block_size
           st == StartAddr(a)
<1> SUFFICES ASSUME NEW k \in 0 .. (n \div 4) - 1 PROVE Has(l, BlockOf(a + 4 * k))
  OBVIOUS
<1>1. /\ z \in Nat /\ z \div 2 \in Nat /\ z \div 2 <= z
      /\ k \in Nat /\ 4 * k < n /\ a + 4 * k \in Nat
  BY IcacheAssumption
<1>2. /\ st \in Nat /\ st <= a /\ a < st + z
      /\ \A x \in Nat :
           /\ st <= x /\ x < st + z => BlockOf(x) = BlockOf(a)
           /\ st + z <= x /\ x < st + 2 * z => BlockOf(x) = BlockOf(a) + 1
  BY BlockFacts
<1>3. a + 4 * k < st + z \/ (a + 4 * k < st + 2 * z /\ Has(l, BlockOf(a) + 1))
  <2> HIDE DEF z, st
  <2>1. CASE n = st + z - a
    BY <1>1, <1>2, <2>1
  <2>2. CASE n = st + z - a + (z \div 2) /\ Has(l, BlockOf(a) + 1)
    <3> DEFINE h == z \div 2
    <3>1. h \in Nat /\ h <= z /\ n = st + z - a + h
      BY <1>1, <2>2
    <3> HIDE DEF h
    <3>2. a + 4 * k < st + 2 * z
      BY <1>1, <1>2, <3>1
    <3> QED
      BY <2>2, <3>2
  <2> QED
    BY <2>1, <2>2 DEF z, st
<1>4. st <= a + 4 * k
  BY <1>1, <1>2
<1>5. CASE a + 4 * k < st + z
  BY <1>1, <1>2, <1>4, <1>5
<1>6. CASE ~ (a + 4 * k < st + z)
  <2>1. st + z <= a + 4 * k /\ a + 4 * k < st + 2 * z /\ Has(l, BlockOf(a) + 1)
    BY <1>1, <1>2, <1>3, <1>6
  <2> QED
    BY <1>1, <1>2, <2>1
<1> QED
  BY <1>5, <1>6

(* S_sim_icache_first_half_cycle.                                          *)
LEMMA Icache1Fetch == ASSUME IInv, FetchInv, Icache1 PROVE FetchInv'
<1>1. /\ icache \in Misses /\ icache_addr_requested \in FetchAddrs \cup {0}
      /\ phase = "icache1" /\ phase' = "dcache1"
      /\ UNCHANGED <<S_icache_model, fetched>>
      /\ ilines \in Contents /\ icache_bytes_returned \in Nat
      /\ icache.busy => icache_addr_requested = 0
      /\ fetched = NothingFetched
  BY DEF IInv, MachineTypeOK, FetchInv, Icache1, At, parms
<1>2. ASSUME ilines' = ilines, icache_bytes_returned' \in Nat,
             S_icache_model = "PERFECT" \/ icache_addr_requested' = 0
      PROVE  FetchInv'
  BY <1>1, <1>2 DEF FetchInv, Returned, FetchedInstructionsAreCached, NothingFetched
<1>3. CASE IcachePerfect
  BY <1>1, <1>2, <1>3, IcacheAssumption DEF IcachePerfect
<1>4. CASE IcacheSendsRequest \/ IcacheMiss \/ IcacheIdle
  BY <1>1, <1>2, <1>4 DEF IcacheSendsRequest, IcacheMiss, IcacheIdle, icacheVars
<1>5. CASE IcacheHit
  <2> DEFINE a == icache_addr_requested
             block == BlockOf(a)
             useful == StartAddr(a) + S_icache_block_size - a
             made == Promote(ilines, block)
             split == /\ useful <= S_icache_block_size \div 2
                      /\ S_icache_model = "SPLIT_BLOCK"
                      /\ Has(made, block + 1)
  <2>1. /\ Has(ilines, block)
        /\ ilines' = IF split THEN Promote(made, block + 1) ELSE made
        /\ icache_bytes_returned' =
             IF split THEN useful + (S_icache_block_size \div 2) ELSE useful
        /\ icache_addr_requested' = a
    BY <1>5 DEF IcacheHit
  <2>2. a \in Nat /\ block \in Nat /\ useful \in Nat /\ S_icache_block_size \div 2 \in Nat
    <3>1. a \in Nat
      BY <1>1, AddrFacts
    <3>2. /\ block \in Nat /\ StartAddr(a) \in Nat
          /\ StartAddr(a) <= a /\ a < StartAddr(a) + S_icache_block_size
      BY <3>1, BlockFacts
    <3> QED
      BY <3>1, <3>2, IcacheAssumption
  <2>3. made \in Contents /\ \A b \in Nat : Has(ilines, b) => Has(made, b)
    <3> HIDE DEF block
    <3> QED
      BY <1>1, <2>1, <2>2, PromoteFacts
  <2>4. /\ ilines' \in Contents
        /\ \A b \in Nat : Has(ilines, b) => Has(ilines', b)
        /\ split => Has(ilines', block + 1)
    <3>1. CASE split
      <4>1. /\ Promote(made, block + 1) \in Contents
            /\ \A b \in Nat : Has(made, b) => Has(Promote(made, block + 1), b)
        <5>1. block + 1 \in Nat /\ Has(made, block + 1)
          BY <2>2, <3>1
        <5> HIDE DEF made, block
        <5> QED
          BY <2>3, <5>1, PromoteFacts
      <4>2. ilines' = Promote(made, block + 1)
        BY <2>1, <3>1
      <4>3. Has(made, block + 1) /\ block + 1 \in Nat
        BY <2>2, <3>1
      <4> HIDE DEF made, block
      <4> QED
        BY <2>3, <4>1, <4>2, <4>3
    <3>2. CASE ~ split
      <4>1. ilines' = made
        BY <2>1, <3>2
      <4> HIDE DEF made
      <4> QED
        BY <2>3, <3>2, <4>1
    <3> QED
      BY <3>1, <3>2
  <2> DEFINE l == ilines'
             n == icache_bytes_returned'
  <2>5. n \in Nat /\ (n = useful \/ (n = useful + (S_icache_block_size \div 2) /\ split))
    <3> HIDE DEF useful
    <3> QED
      BY <2>1, <2>2
  <2>6. Has(l, block)
    BY <2>1, <2>2, <2>4
  <2>7. \A k \in 0 .. (n \div 4) - 1 : Has(l, BlockOf(a + 4 * k))
    <3>1. \/ n = StartAddr(a) + S_icache_block_size - a
          \/ /\ n = StartAddr(a) + S_icache_block_size - a + (S_icache_block_size \div 2)
             /\ Has(l, BlockOf(a) + 1)
      BY <2>4, <2>5
    <3>2. l \in Contents /\ n \in Nat /\ a \in Nat /\ Has(l, BlockOf(a))
      BY <2>2, <2>4, <2>5, <2>6
    <3> HIDE DEF a, l, n
    <3> QED
      BY <3>1, <3>2, RestOfBlock
  <2>8. Returned'
    BY <2>1, <2>7 DEF Returned, BlockOf
  <2>9. FetchedInstructionsAreCached'
    BY <1>1 DEF FetchedInstructionsAreCached, NothingFetched
  <2> QED
    BY <1>1, <2>4, <2>5, <2>8, <2>9 DEF FetchInv
<1> QED
  BY <1>3, <1>4, <1>5 DEF Icache1, IcacheFirstHalf

(* S_sim_icache_second_half_cycle.                                         *)
LEMMA Icache2Fetch == ASSUME IInv, FetchInv, Icache2 PROVE FetchInv'
<1>1. /\ icache \in Misses /\ phase = "icache2" /\ phase' = "dcache2"
      /\ UNCHANGED <<S_icache_model, fetched>>
      /\ ilines \in Contents /\ icache_bytes_returned \in Nat
      /\ Returned /\ fetched = NothingFetched
  BY DEF IInv, MachineTypeOK, FetchInv, Icache2, At, parms
<1>2. FetchedInstructionsAreCached'
  BY <1>1 DEF FetchedInstructionsAreCached, NothingFetched
<1>3. CASE ~ IcacheReceives
  <2>1. UNCHANGED <<icache_addr_requested, icache_bytes_returned, ilines>>
    BY <1>3 DEF Icache2, IcacheSecondHalf, icacheVars
  <2>2. Returned'
    BY <1>1, <2>1 DEF Returned
  <2> QED
    BY <1>1, <1>2, <2>1, <2>2 DEF FetchInv
<1>4. CASE IcacheReceives
  <2> DEFINE a == icache.request_addr
             l == ilines'
             n == icache_bytes_returned'
  <2>1. S_bus.addr = StartAddr(a)
    <3>1. S_bus.dest = "ICACHE" /\ ~ ResultTaken
      BY <1>1, <1>4 DEF IcacheReceives, ResultTaken
    <3> QED
      BY <3>1 DEF IInv, OneMissInFlight, OfMiss
  <2>2. /\ l = Fill(ilines, BlockOf(a))
        /\ icache_addr_requested' = a
        /\ n = StartAddr(a) + S_icache_block_size - a
    BY <1>4, <2>1 DEF Icache2, IcacheSecondHalf
  <2>3. a \in Nat
    BY <1>1, AddrFacts DEF Misses
  <2>4. /\ BlockOf(a) \in Nat /\ StartAddr(a) \in Nat
        /\ StartAddr(a) <= a /\ a < StartAddr(a) + S_icache_block_size
    BY <2>3, BlockFacts
  <2>5. n \in Nat
    BY <2>2, <2>3, <2>4, IcacheAssumption
  <2>6. l \in Contents /\ Has(l, BlockOf(a))
    BY <1>1, <2>2, <2>4, FillFacts
  <2>7. \A k \in 0 .. (n \div 4) - 1 : Has(l, BlockOf(a + 4 * k))
    <3> HIDE DEF a, l, n
    <3> QED
      BY <2>2, <2>3, <2>5, <2>6, RestOfBlock
  <2>8. Returned'
    BY <2>2, <2>7 DEF Returned, BlockOf
  <2> QED
    BY <1>1, <1>2, <2>5, <2>6, <2>8 DEF FetchInv
<1> QED
  BY <1>3, <1>4

(* S_superscalar_ifetch_stage: the count is used only with its address.    *)
LEMMA FetchFetch == ASSUME IInv, FetchInv, Fetch PROVE FetchInv'
<1>1. /\ phase = "ifetch" /\ phase' = "halt" /\ Returned
      /\ UNCHANGED <<S_icache_model, icache_addr_requested, icache_bytes_returned, ilines>>
      /\ icache_bytes_returned \in Nat
  BY DEF FetchInv, Fetch, At, parms, icacheVars
<1>2. PICK n \in 0 .. NumAvail : fetched' = [addr |-> proc.ifetch_addr, num |-> n]
  BY DEF Fetch
<1>3. fetched'.addr = proc.ifetch_addr /\ fetched'.num = n
  BY <1>2
<1>4. FetchedInstructionsAreCached'
  <2>1. CASE proc.ifetch_enabled /\ icache_addr_requested = proc.ifetch_addr
    <3>1. n \in 0 .. (icache_bytes_returned \div 4)
      BY <2>1 DEF NumAvail
    <3>2. icache_bytes_returned \div 4 \in Nat
      BY <1>1
    <3>3. \A k \in 0 .. n - 1 : k \in 0 .. (icache_bytes_returned \div 4) - 1
      BY <3>1, <3>2
    <3> QED
      BY <1>1, <1>3, <2>1, <3>3 DEF FetchedInstructionsAreCached, Returned, BlockOf
  <2>2. CASE ~ (proc.ifetch_enabled /\ icache_addr_requested = proc.ifetch_addr)
    <3>1. n = 0
      BY <2>2 DEF NumAvail
    <3> QED
      BY <1>3, <3>1 DEF FetchedInstructionsAreCached
  <2> QED
    BY <2>1, <2>2
<1>5. Returned'
  BY <1>1 DEF Returned
<1> QED
  BY <1>1, <1>4, <1>5 DEF FetchInv

(* The other steps; Bus starts a cycle in which nothing is fetched yet.    *)
LEMMA OtherFetch ==
  ASSUME FetchInv, UNCHANGED <<S_icache_model, ilines, icache_bytes_returned>>,
         \/ fetched' = NothingFetched
         \/ fetched' = fetched /\ (phase' \in {"halt", "bus"} \/ phase \notin {"halt", "bus"}),
         \/ phase' # "icache1" /\ phase # "icache1"
              /\ icache_addr_requested' = icache_addr_requested
         \/ /\ phase' = "icache1"
            /\ icache'.busy => icache_addr_requested' = 0
  PROVE  FetchInv'
<1>1. FetchedInstructionsAreCached'
  BY DEF FetchInv, FetchedInstructionsAreCached, NothingFetched
<1>2. phase' # "icache1" => Returned'
  BY DEF FetchInv, Returned
<1>3. phase' \notin {"halt", "bus"} => fetched' = NothingFetched
  BY DEF FetchInv
<1> QED
  BY <1>1, <1>2, <1>3 DEF FetchInv

(* Fetch takes only instructions of blocks the cache holds, for every      *)
(* geometry, block size and cache model, although the request it answers   *)
(* may be of an earlier cycle, of another address or of a cancelled path.  *)
THEOREM OnlyCachedInstructionsAreFetched == Spec => []FetchedInstructionsAreCached
<1>1. Init => FetchInv
  <2> SUFFICES ASSUME Init PROVE FetchInv
    OBVIOUS
  <2>1. ilines \in Contents
    <3>1. ASSUME NEW s \in 0 .. NumSets - 1
          PROVE  [i \in 1 .. Assoc |-> NoBlock] \in Seq(Int)
      BY IcacheAssumption DEF NoBlock
    <3> QED
      BY <3>1 DEF Init, IcacheInit, EmptyLines, Contents
  <2> QED
    BY <2>1 DEF Init, IcacheInit, FetchInv, Returned, FetchedInstructionsAreCached,
                NothingFetched
<1>2. IInv /\ FetchInv /\ [Next]_vars => FetchInv'
  <2> SUFFICES ASSUME IInv, FetchInv, [Next]_vars PROVE FetchInv'
    OBVIOUS
  <2>1. CASE Bus \/ Memory1 \/ Dcache1 \/ Memory2 \/ Dcache2 \/ Execute
               \/ FixMispredictedBranch \/ Continue \/ Halt \/ NextSample
    BY <2>1, OtherFetch
    DEF Bus, Memory1, Dcache1, Memory2, Dcache2, Execute, FixMispredictedBranch, Continue,
        Halt, NextSample, At, parms, icacheVars
  <2>2. CASE Request
    BY <2>2, OtherFetch DEF Request, At, parms
  <2>3. CASE UNCHANGED vars
    BY <2>3
    DEF vars, parms, icacheVars, FetchInv, Returned, FetchedInstructionsAreCached
  <2> QED
    BY <2>1, <2>2, <2>3, Icache1Fetch, Icache2Fetch, FetchFetch DEF Next
<1>3. FetchInv => FetchedInstructionsAreCached
  BY DEF FetchInv
<1> QED
  BY <1>1, <1>2, <1>3, InitIInv, NextIInv, PTL DEF Spec
=============================================================================
