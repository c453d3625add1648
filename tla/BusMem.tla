------------------------------- MODULE BusMem -------------------------------
(***************************************************************************)
(* The memory bus and the main memory of Lsim (s_mem.c).                   *)
(*                                                                         *)
(* The bus carries one transaction at a time, S_bus.length segments of one *)
(* cycle each.  The split transaction bus is free again after a request;   *)
(* the single transaction bus is then kept for memory (mem_only).  Memory  *)
(* queues every read it sees in the last segment of a request and answers  *)
(* in order, S_memory_latency cycles later at the earliest.                *)
(*                                                                         *)
(* The handlers below are the building blocks of the steps of MemSystem.   *)
(***************************************************************************)
EXTENDS Integers, Sequences

CONSTANTS S_bus_bandwidth,   \* bytes a segment carries
          S_memory_latency   \* cycles from request to earliest answer

ASSUME BusMemAssumption ==
  /\ S_bus_bandwidth \in Nat \ {0}
  /\ S_memory_latency \in Nat

VARIABLES S_bus_model,   \* parameter of the simulation, "SINGLE" or "SPLIT"
          S_bus,         \* the bus: the transaction it carries, who may use it
          pending,       \* S_memory: requests to be answered, oldest first
          punted         \* the S_punt that stopped the simulation, or "no"

ReadRequests == {"READ_REQUEST", "PREFETCH_REQUEST", "MC_READ_REQUEST"}
WriteRequests == {"WRITE_REQUEST", "MC_WRITE_REQUEST"}
ReadResults == {"READ_RESULT", "PREFETCH_RESULT", "MC_READ_RESULT"}

ResultOf(type) ==
  CASE type = "READ_REQUEST"     -> "READ_RESULT"
    [] type = "PREFETCH_REQUEST" -> "PREFETCH_RESULT"
    [] type = "MC_READ_REQUEST"  -> "MC_READ_RESULT"

BusModels == {"SINGLE", "SPLIT"}

BusInit ==
  /\ S_bus_model \in BusModels
  /\ S_bus = [avail |-> TRUE, mem_only |-> FALSE, type |-> "NONE",
              src |-> "NO_ONE", dest |-> "NO_ONE", addr |-> 0, size |-> 0,
              length |-> 0, segment |-> 0]
  /\ pending = << >>
  /\ punted = "no"

AtLastSegment == S_bus.segment = S_bus.length

(* (size + size_offset) >> size_shift, for a power of two bandwidth.       *)
Segments(size) == (size + S_bus_bandwidth - 1) \div S_bus_bandwidth

(* S_sim_bus: one cycle of the transaction in progress, if there is one.   *)
BusAfterCycle(bus) ==
  IF bus.avail \/ bus.mem_only THEN bus
  ELSE IF bus.segment # bus.length THEN [bus EXCEPT !.segment = @ + 1]
  ELSE LET held == /\ bus.type \in {"READ_REQUEST", "PREFETCH_REQUEST"}
                   /\ S_bus_model = "SINGLE"
       IN [bus EXCEPT !.mem_only = held, !.avail = ~ held,
                      !.src = "NO_ONE", !.dest = "NO_ONE"]

(* S_sim_cycle++ followed by S_sim_bus.  A pending request records the     *)
(* cycles left until its complete_time instead of that time.               *)
SimBus ==
  /\ S_bus' = BusAfterCycle(S_bus)
  /\ pending' = [i \in DOMAIN pending |->
                   [pending[i] EXCEPT !.wait = IF @ > 0 THEN @ - 1 ELSE 0]]
  /\ UNCHANGED punted

(* S_sim_bus_transaction: start a transaction; the bus must be free.       *)
Transaction(type, src, dest, addr, size) ==
  IF S_bus.avail \/ (S_bus.mem_only /\ src = "MEMORY")
  THEN /\ S_bus' = [avail |-> FALSE, mem_only |-> FALSE, type |-> type,
                    src |-> src, dest |-> dest, addr |-> addr, size |-> size,
                    length |-> IF type \in ReadRequests THEN 1 ELSE Segments(size),
                    segment |-> 1]
       /\ UNCHANGED punted
  ELSE /\ punted' = "accessing bus when in use"
       /\ UNCHANGED S_bus

(* S_sim_memory_first_half_cycle: answer the oldest request once it is due *)
(* and the bus can be had.                                                 *)
MemoryMayAnswer ==
  /\ S_bus.avail \/ S_bus.mem_only
  /\ pending # << >>
  /\ Head(pending).wait = 0

MemoryFirstHalf ==
  IF MemoryMayAnswer
  THEN LET request == Head(pending)
       IN /\ Transaction(ResultOf(request.type), "MEMORY", request.src,
                         request.addr, request.size)
          /\ pending' = Tail(pending)
  ELSE UNCHANGED <<S_bus, pending, punted>>

(* Mutant: only plain reads are taken in.                                  *)
MemoryAccepts_PlainReads ==
  S_bus.dest = "MEMORY" /\ AtLastSegment /\ S_bus.type = "READ_REQUEST"

(* S_sim_memory_second_half_cycle: take in a read request in its last      *)
(* segment; writes need no answer.                                         *)
MemoryAccepts ==
  S_bus.dest = "MEMORY" /\ AtLastSegment /\ S_bus.type \in ReadRequests

MemorySecondHalf ==
  /\ pending' = IF MemoryAccepts
                THEN Append(pending, [type |-> S_bus.type, src |-> S_bus.src,
                                      addr |-> S_bus.addr, size |-> S_bus.size,
                                      wait |-> S_memory_latency])
                ELSE pending
  /\ UNCHANGED <<S_bus, punted>>
=============================================================================
