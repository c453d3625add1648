# TLA+ models of OpenIMPACT: Lsim and parts of the compiler

OpenIMPACT is a research compiler: a C front end (Pcode), an intermediate
representation with its optimisers, schedulers and code generators (Lcode), and
tools to measure the code it makes. Most of it is sequential code over
large data structures. The part with real state machines, several agents that
act on shared state in an order that matters, is **Lsim**
(`src/src/Lcode/performance/Lsim`), the trace-driven simulator, together with the
run time library of the instrumented programs that feed it
(`src/platform/x86lin_gcc/impact_lemul_lib.c`). Most of these models are about Lsim. The
others take from the compiler the algorithms that everything else stands on and that are
easy to get wrong: the integer sets of every dataflow analysis, both dominator analyses, and the
register allocator.

Contents: 1 inventory, 2 modules and code, 3 the runs, 4 findings, 5 proofs,
6 what is not modelled, 7 plan.

## 1. Inventory

### 1.1 Parts, their state and operations

| part | source | state | operations |
|---|---|---|---|
| cache library | `s_cache.c` | blocks with recency list (next, prev), hash chains, start address | create, find_addr, find_LRU, change_addr, make_MRU, make_LRU, invalidate |
| bus and memory | `s_mem.c` | `S_bus` (available, memory_only, type, src, dest, addr, segment), memory's request queue | S_sim_bus, S_sim_bus_transaction, memory first and second half cycle |
| instruction cache | `s_icache.c` | busy, sent_request, request_addr, the blocks; the "mailbox" `icache_addr_requested`, `icache_bytes_returned` | first and second half cycle |
| data cache | `s_dcache.c` | first level cache, victim cache, prefetch cache, write buffer, read and prefetch queues, memory copies | first and second half cycle, one access at a time |
| processor | `s_super.c` (also `s_playdoh_vliw.c`) | fetch address, fetch enabled, on path or not, fetch stages, decode, execution and reorder queues, pending stores, register scoreboard | the cycle loop; retire, execute, decode and issue, fetch; repair of a misprediction; halt and next sample |
| conflict buffer | `s_mcb.c` | entries in lines, age order, conflict flag per register, `reg_entry` | load, store, branch check, load verify, taken branch, context switch |
| queues | `s_queue.c`, `s_mqueue.c` | doubly linked lists; per instruction a list of its entries | enqueue, enqueue before, dequeue, dequeue from all, move |
| trace pipe | `s_main.c`, `s_trace.c`, `impact_lemul_lib.c`, the probe macros of `l_emul_trace.c` | a named pipe and a link, the pipe's words, the program's trace buffer, the simulator's trace block | open, read, close, time-out; fill, flush, finish |
| second level cache, BTB, ALAT, profiler, statistics | `s_scache.c`, `s_btb.c`, `s_alat.c`, `s_profile.c`, `s_stats.c` | not modelled, see section 6 | |
| integer sets | `src/src/library/libflow/set.c` | per set and sign an array of bit vectors, grown by granules, vectors allocated on demand | add, delete, union, intersect, subtract and their accumulating forms, copy, compress, queries, enumeration |
| dominator analyses | `src/src/Lcode/Lcode/l_dom.c`, `l_dominator.c` | depth first numbers, semidominators, a forest with path compression, buckets, dominator tree, frontiers; a set of blocks per block | number, delete unreachable code, semidominators, immediate dominators, frontiers, their closure; sweeps |
| register allocator | `src/src/Lcode/codegen/Regalloc/r_regalloc.c`, `r_regbank.c`, `r_regspill.c` | virtual registers with live ranges and priorities, interference graph, heap, shadow stack, stacks of the register banks | prune, colour, search the banks, spill, split at control blocks, split within one, restart, colour the pruned |

### 1.2 How the parts interact

One simulated cycle is one pass of the loop in `S_sim_superscalar_scoreboard`
(`s_super.c:2655-2838`). It calls, in this order: the bus; the first half cycle of
memory, (the fetch unit's request,) the instruction cache and the data cache; the
second half cycle of memory, the instruction cache and the data cache; then
retire, execute and fetch. There is no arbiter: whoever is called first and finds
`S_bus->available` takes the bus, so the order of the calls *is* the arbitration.
A read lives in several places in turn (request on the bus, queue at memory,
result on the bus) and several handlers of different files move it on.
Instruction cache and fetch unit talk through two variables in which 0 has two
meanings (no request, no instruction).

Simulator and traced program are two processes. Both create the named pipe if it
is not there, both remove it when their open has returned, and they are only
synchronised by the opens themselves, an alarm in the simulator, and the pipe.

In the compiler the interaction is by shared data structures: dataflow and dominators keep
their results in the integer sets, and the allocator reads live ranges from dataflow, edits an
interference graph while it colours it, and starts again from nothing when a pass fails.

### 1.3 What is hard here

* The order of half cycles and the age of what they read: a claim on a bus in use,
  an answer for a miss that fetch no longer wants, a count left from an earlier cycle.
* A read that is lost, doubled, or answered to the wrong agent between the bus,
  memory and the caches; a cache that waits for the bus for ever.
* Hand-written linked lists (recency lists, hash chains, queues, lines of the
  conflict buffer) under rare sequences of calls.
* Limits: a full line of the conflict buffer, a cache whose size is no power of two,
  a victim cache in which victims replace each other, a full pipe, the trace buffer beyond its mark.
* Speculation: operations fetched from a wrong path execute, wait for registers and sit in the
  data cache when the branch is repaired; the scoreboard is rebuilt from what is left.
* A graph that is edited by the algorithm that colours it; a loop over passes whose end depends
  on every failure making progress; register banks that overlap and must move together.
* Set representations: arrays of different length, absent vectors, vectors without bits.
* Two processes that race to create, open and remove the same names; a time-out, a
  crash, an early stop or a forked child in the middle.

`PROJECT.json` lists each hazard at its line with the properties that are about it.

### 1.4 What makes each part correct

* Cache library: the lists hold every block of a set once, every valid block is
  found, and the whole behaves as a set associative LRU cache.
* Bus, memory, instruction cache, fetch: no internal sanity check ever fails; every
  read is answered once, in order, to its sender; what is fetched is in the cache; a
  miss completes.
* Conflict buffer: it may report a conflict that did not happen, never miss one. (The Playdoh model keeps to
  this until a line is full.)
* Queues: pointer structures behave as sequences.
* Data cache: no store is forgotten; a block is in one place, unless a prefetch puts it in two.
* Pipeline: no sanity check fails; the scoreboard is what in-order history gives; every record of
  the trace is simulated once; a sample leaves a clean machine; every trace is simulated to its end.
* Integer sets: every operation is the mathematical one, whatever the representation.
* Dominators: what the analyses compute is what the paths of the graph define, and they end.
* Register allocator: no two values that are held at the same time share a unit; nothing that can be
  coloured is refused; the passes end.
* Trace pipe: the two processes always meet, the trace arrives whole and in order, an
  each error that is reported has its cause, and both end.

## 2. Modules and the code they model

Every module follows the C routines: names are those of the source where TLA+
allows it, an action is a whole handler, and `PROJECT.json` ("map") gives the
lines of every definition. Definitions commented "Mutant:" are variants of the
definition that follows, with a plausible mistake. They are not part of any
specification; each is there to show that a property is able to fail.

| module | models | state |
|---|---|---|
| `ScacheOps` | the routines of `s_cache.c`, as functions from cache to cache, pointer by pointer | (none; a cache is a record of functions) |
| `Scache` | a cache used the way its clients use it | `cache`, `found`, `call` |
| `LruOps`, `LruCache` | the promise: per set a sequence of addresses, most recent first | `lines`, `found`, `call` |
| `BusMem` | `s_mem.c`: bus and memory handlers | `S_bus`, `pending`, `punted` |
| `Icache` | `s_icache.c`, with the contents of the cache as in `LruOps` | `icache`, `icache_addr_requested`, `icache_bytes_returned`, `ilines` |
| `MemSystem` | the cycle loop: composes `BusMem` and `Icache` with the fetch unit and the data cache's bus traffic | adds `phase`, `proc`, histories `fetched`, `owed` |
| `Dcache` | where a store's data is: first level, victim cache, write buffer, with prefetches; on top of `ScacheOps` | `dcache`, `dirty`, `prefetch_bit`, `vcache`, `vdirty`, `prefetch_request_buffer`, `requests`, `write_buffer`, histories `absorbed`, `twice` |
| `Mcb` | `s_mcb.c` for both processor models | `entry`, `age`, `conflict`, `reg_entry`, `punted`, histories `preload`, `true_conflict`, `overflowed` |
| `QueueOps` | the linking and unlinking shared by both kinds of queue | (none) |
| `Squeue`, `Mqueue` | `s_queue.c`, `s_mqueue.c` | `heap`, `sints` or `request`, `call` |
| `Queues` | the promise: sequences of entries | `content`, `owner`, `call` |
| `TracePipe` | both processes, the file system names, the pipe | see the module |
| `Pipeline` | the stages of `s_super.c` over a traced program, one instruction at a time | `sint`, `rf`, `proc`, the queues, `outstanding`, `phase`, `traced`, histories `finished`, `punt` |
| `SetLib` | `set.c` on its arrays of vectors | `sets`, two sets that go through every sequence of calls |
| `FlowGraph` | flow graphs and dominance by paths, the reference for the next two | (none) |
| `LDom` | `l_dom.c`, one node at a time | `dfn`, `sdom`, `forest`, `bucket`, `idom`, `tree`, `df`, ... |
| `LDominator` | `l_dominator.c`, one block of a sweep at a time | `dom`, `cb`, `change` |
| `RegBank` | `r_regbank.c`: the search of overlapping register banks | (none; stacks are a record) |
| `RegAlloc` | `r_regalloc.c` and the spilling half of `r_regspill.c` | `vreg`, `intf`, `stacks`, `heap`, `shadow`, `unconstrained`, `pass`, `phase` |
| `MC_Mcb`, `MC_Queues`, `MC_Dominators` | runs of two related specifications in one: a behaviour is of one of them | adds `processor`, `kind`, `analysis` |
| `MC_Scache`, `MC_MemSystem`, `MC_Pipeline`, `MC_SetLib`, `MC_RegAlloc` | constants of the runs | |
| `MemSystem_proofs`, `Mcb_proofs`, `TracePipe_proofs`, `Pipeline_proofs`, `LDominator_proofs`, `RegAlloc_proofs` | theorems | |
| `RegBank_proofs` | lemmas on the search of register banks, for `RegAlloc_proofs` | |
| `SeqFilter` | a sequence without some of its elements, for `Pipeline` and `RegBank` | (none) |
| `Induction` | what the proofs share: induction over the naturals in the form the provers can use, maxima, `SeqFilter` | |

### 2.1 Cache library

`ScacheOps` keeps the two recency pointers, the two hash pointers and the address
of each block as functions, with the C routines as operators on that record. The code
gives an empty block the address -1, an unsigned number, so it lies in the highest block
of the address space (`MaxId`), which a program may use too; that a block is empty shows
only in its hash pointers, which are then -1 (`UNLINKED`). The recursive part, following a chain, is a recursive
function with a bound, so that a broken chain shows up as a wrong result and not as
a computation that does not end. `Scache` drives the routines as the clients in
`s_icache.c` and `s_dcache.c` do: access, access with demotion (C3 hint), prefetch
(filled but left in LRU position) and invalidation. The variable `call` records
which of them ran, so that the refinement compares each operation with its own
promise.

### 2.2 Bus, memory, instruction cache, fetch

Each call of the cycle loop is one action; `phase` is the program counter of the
loop. A pending request at memory holds the cycles that are left (`wait`) instead of
an absolute time: `S_sim_cycle` is unbounded and only differences are ever used. The parameters
`S_bus_model` and `S_icache_model`, globals read at start-up, are variables that the initial state
chooses and no step changes, so one run and one proof are about all six machines.
`punted` is set where the code calls `S_punt`. `FixMispredictedBranch`, the untraced
call in `Fetch`, `Halt` and `NextSample` move the fetch address or stop fetch at
exactly the place in the cycle where the code does. Which branch is mispredicted,
where a prediction leads and whether the instruction buffer has room come from the
traced program and the predictor; they are free choices.

The data cache appears here only as its bus traffic: if the bus is available it may
send any request of `DcacheRequests`, and it takes every result addressed to it.
`MaxPending` bounds the reads outstanding at a time for TLC. It is a bound on the
environment, and the theorems hold for every value of it.

`owed` is a history of the reads that have gone out and not come back;
`ReadsAreConserved` compares it with what the registers really hold.

### 2.3 Data cache

`Dcache` has the caches pointer by pointer (on `ScacheOps`) and asks a single
question of the data cache: where is the data of a store? Loads and stores follow
the branches of `S_sim_dcache_first_half_cycle` for first level hit, victim cache hit
and miss; `BlockArrives` follows `bus_data_to_cache` with `replace_dcache_block`
and `write_buffer_to_block` inside one step, as in the code.

A prefetch goes its own way. It looks for its block in the first level cache only
(`s_dcache.c:3735`), marks the block it will replace with the PREFETCH_BIT and waits in
`prefetch_request_buffer`; the bus manager moves it to `pending_prefetches` when it asks memory
(`SendPrefetch`). An access to the marked block cancels it (`CancelPrefetch`), a miss of the same block
takes over one that memory was asked for (`Requested`), and what comes back is installed or thrown away
accordingly (`PrefetchArrives`). `requests` is the order in which memory was asked: the miss buffer and
the pending prefetches in one queue, whose members say which of the two they are on.

Bus timing is left open: a write or a prefetch may be sent and a block may arrive at any time, but memory
answers in the order in which it was asked, as `BusMem` does. `absorbed` records the blocks
that hold stores memory lacks, `twice` those a prefetch brought in while the victim cache had them.
Whether there is a victim cache is a parameter the initial state chooses.

### 2.4 Conflict buffer

A line is a linked list in the code; the model keeps the rank of each slot (`age`),
which has the same information. The hash matrix is a constant function from 8 byte
words to line and checksum, so every matrix is covered by the theorems. `preload` and
`true_conflict` are histories: the load that a register's next check guards, and
whether a store since touched one of its bytes, which is what the running program
itself sees; `overflowed` records that a Playdoh preload has found its line full. The superscalar model (`SuperSpec`) checks with a branch and ignores
`reg_entry`; the Playdoh model (`PlaydohSpec`) checks with a load verify and uses it.

`Sampling` says whether the simulation skips instructions. If it does, a context
switch comes before the first instruction and sets `reg_entry`; if not, the array
is what `malloc` returned, because the loop that should clear it is the body of the
test for a failed `malloc`. The model then starts with an arbitrary choice between
NULL and a wild pointer for each register.

### 2.5 Queues

`QueueOps` works on a heap of entries with `next_entry`, `prev_entry` and `queue`, and
queues with `head`, `tail` and `size`. A freed entry is filled with a value of its own
(`Freed`), so a use after free cannot go unnoticed. `Squeue` adds the second list every entry
is on, that of its instruction, and the loop of `S_dequeue_from_all` that runs along
that list while it frees its elements.

### 2.6 Trace pipe

The program's actions are the system calls of `_TR_DUMP_TRACE` in order, the
simulator's those of `S_init_trace_fd` and of the reads. Opening a fifo is two steps:
a process comes to it (`Arrive`) and goes on when the other has come too (`met`). A fifo has
a number, so removing the name and making a new one is visible. Words are integers;
the header and trailer words are negative; byte swapping is an involution without a
fixed point that maps no word of the trace to another. The trace flags of the header are those the simulator
expects or others (`flags`, chosen at the start: how the program was instrumented), and its machine has the byte order of the simulator's or the other (`reversed`). The checks of the first words are
in order those of `S_init_trace_fd` (format, flags, start of sample) and of `S_start_first_fn_trace`, which
stops at a trace that ends before it has begun. The kernel's part (fifo open, end
of file, SIGPIPE) is external, modelled from what the code relies on.

### 2.7 Pipeline

A cycle runs its stages from last to first, as the code does, and a stage visits its queue one
instruction per step. An instruction of the trace is known by its position, which is its pc; all
pcs of wrong paths are one value. Which instruction follows, whether a branch is mispredicted and
taken, when the data cache answers and is busy, and how many instructions the instruction cache
has returned are free choices; everything else (issue limits, scoreboard, forwarding from pending
stores, the order of loads and stores, squash, scoreboard repair, retirement, the drain at the end of a
sample, the skip to the next one) follows the code. An operation has any number of destination registers, each with a latency of its
own (`real_complete_time[S_first_dest..S_last_dest]`): the data cache sets the time of the first, the others, such as the address a
post-increment load writes, are there at the time the machine description says, and an operation is done when all of them are. `Memory` is the whole of the memory system as the
processor sees it. The initial state chooses one of the parameter sets (stores delayed to retirement or not,
wrong path requests squashed or not, aggressive or not, and the program's instructions).
`PipelineAssumption` asks that widths and latencies are positive and that latencies are bounded; `Never` stands for the unsigned -1
that an instruction waits for until the data cache sets its time.

### 2.8 Integer sets

A vector is the set of its bit positions, an array a sequence of vectors or `NoVector`, a set the
pair of its arrays; word size, vector size and granule are constants. Two sets go through every sequence of calls of
all operations, so that every pair of representations that calls can produce is reached, and the properties
compare every operation on that pair with mathematics. `ScanWord` follows the iterator, which keeps its
position between calls.

### 2.9 Dominators

`LDom` is `LD_setup` to `LD_dom_front` and `LD_df_plus`. The recursion of `LD_visit` is a current node
and the parents of the depth first tree; the order of successors is free. `LDominator` is `L_compute_dominator` and its
mirror image for post dominators, for any finite graph (`IsFlowGraph`). Both are compared with `FlowGraph`, which defines dominance
by paths, and phi places by pairs of disjoint paths.

### 2.10 Register allocator

The function is straight-line code in control blocks, each virtual register with one
definition, which is what the renaming of disjoint ranges leaves. `IsFunctionToCompile` says
what that is; the proofs are about all such functions. Priorities and benefits, which come from
profile weights, are inputs. `Interferes` follows `R_construct_interference_graph`, `LiveRange` follows
`R_compute_live_ranges` (they are not the same relation, which is what makes spilling delicate), `Spill`, `CbSplit` and `InstrSplit`
are the cases of `R_handle_unallocatable_vreg` with all their edits of the graph. `Find` is the search of the banks,
which changes their stacks even when it fails; `RegBank` has it with the lockstep moves of the banks
that overlap. Correctness is stated by `Conflict`, from what a register holds before and after an
operation, not from the allocator's own live ranges.

## 3. The runs

Each passing run is exhaustive for its constants and takes at most about three minutes.

### 3.1 Passing

| run | checks | shows |
|---|---|---|
| `Scache` | `ListsAreSound`, `ImplementsLruCache` | four addresses that compete for a set of three blocks and share hash chains, one of them the block of address -1: the lists stay sound, implement LRU, and leave the other set alone. Six blocks are no power of two, so the hash table has only four chains (`s_cache.c:127`), and the cache still works |
| `MemSystem` | `NeverPunts`, `OneMissInFlight`, `ReadsAreConserved`, `FetchedInstructionsAreCached`, `MissesComplete` | single and split transaction bus, each with perfect, standard and split block instruction cache, and reads, prefetches and writes of the data cache |
| `Pipeline` | `PipelineNeverPunts`, `ScoreboardIsExact`, `WrongPathStartsAtItsBranch`, `TraceIsConserved`, `CompletedRequestsHaveReturned`, `SampleEndsClean`, `TraceIsSimulated` | every short program of six instruction mixes, with post-increment loads and stores: speculation and its repair, results of one operation at different times, out of order completion, in order retirement, samples and skips |
| `Mcb` | `TypeOK`, `PreloadsAreTracked`, `TrueConflictsAreReported`, `ChecksNeverPunt` | conflict buffer under the superscalar and the Playdoh model, accesses of 4 and 8 bytes, preloads that push each other out of a full line; under Playdoh nothing is missed and no check fails until the first preload that finds its line full |
| `Queues` | `QueuesAreWellFormed`, `ImplementsQueues` | instruction queues, and memory request queues moved the way their only caller moves them (the head of one queue to the end of another), both against the same abstract queues |
| `Dcache` | `OnlyExchangesLoseStores`, `OnlyPrefetchesDuplicate` | data cache with and without victim cache, stores that allocate and stores that do not, prefetches sent, cancelled, taken over and thrown away |
| `TracePipe` | `RendezvousSucceeds`, `TraceArrivesInOrder`, `EveryComplaintHasItsCause`, `SimulationEnds`, `ProgramIsReleased` | the two processes in all interleavings, with crash, fork, early stop, time-out, an empty trace, a program instrumented with other flags and one of the other byte order |
| `Dominators` | `IdomsAreExact`, `PhisAreWhereDefinitionsMeet`, `DomSetsAreExact`, `SweepsEnd` | both analyses on every graph of three nodes and families of four and five, in every depth first order |
| `SetLib` | `OperationsAreRight`, `QueriesAreRight`, `EnumerationsAreRight` | all operations on all pairs of representations |
| `RegAlloc` | `ConflictsAreArcs`, `AllocationIsCorrect`, `UnconstrainedAreColoured`, `SpillsMakeRoom`, `SearchIsComplete`, `PassesAreBounded` | the allocator over a register file shared by floats and doubles, with and without pruning, all signs of benefits, illegal registers, operands that do not fit |

### 3.2 Bounds, and why they are enough

* `Scache`: a recency list of three has a first, a middle and a last element, which are
  all the cases its code distinguishes; two blocks in one hash chain give a first and a
  last link.
* `MemSystem`: blocks of two instructions and a bus of half a block, so that results take two
  segments and requests one; three blocks for a set of two, so that a block is evicted
  between miss and use; latency 2, so that a request goes out while another waits; two
  outstanding reads (`MaxPending`, to which the instruction cache's own may be added),
  enough for a queue at memory.
* `Mcb`: one line, since lines do not interact; two slots, two registers and accesses of two words with different
  checksums are enough for a full line, for a preload that pushes another register's entry out, and for one that takes the entry of
  its own register.
* `Queues`: three entries in two queues, so an entry is first, middle or last;
  two owners, so the lists of two instructions are interleaved.
* `Dcache`: three blocks compete for one set of two, and for a victim cache of one; two of them are stored to, one is prefetched. Two requests at
  memory (`MaxRequests`) let a miss and a prefetch of the same block be on their way together; a store miss waits
  while the write buffer is not empty (`MaxWrites`); write-backs are not held up, as in the
  code, so the buffer gets longer than that.
* `TracePipe`: a buffer of 3 words with the mark at 1, a pipe of 3, blocks of 2, 4 words of
  trace: several flushes, a full pipe, reads that cut the trace at other places than
  writes do.
* `Pipeline`: two wide, two fetch stages, four instructions in flight and a trace of four: enough for an instruction
  before the branch, the branch, and wrong path instructions in the reorder buffer, the decode queue and
  the fetch stages at once. The six mixes of operations (`MCParms`) pair up what interacts: two results of a load with operations that wait for them, with and without
  branches, loads with stores of two sizes, stores that do not wait, calls with prefetches, post-increment loads with stores that write the same
  register. Latencies are 1 and 2, so that the second result of a load can come before or after the first.
  Samples are of two instructions, of three in two of the mixes, so a trace has two.
* `SetLib`: words of 2 bits, vectors of 2 words, granules of 2 vectors: the five elements lie in two words of a vector,
  in a vector of the second granule, and on the negative side in both granules.
* `Dominators`: a chain of five nodes is the shortest on which a path is compressed twice.
* `RegAlloc`: two units per class hold one double or two floats each. Four registers and operations that read pairs
  of them make neighbours compete for two doubles; three registers take every choice of benefits; floats may not be in some units; doubles
  may not be in one of the pairs (which only `UnconstrainedAreColoured` and `SpillsMakeRoom` except); three doubles that one operation reads do not fit. Up to ten passes (`MaxPass`) are followed,
  more than any behaviour needs before it first splits within a control block.

### 3.3 Fairness

* `MemSystem`: weak fairness of the next-state relation as a whole. The loop is
  sequential code: it runs on until the simulation is over. In particular no fairness of a
  single action is assumed; whether the data cache ever leaves the bus alone is its own choice.
* `TracePipe`: weak fairness of each process, which the operating system's scheduler
  gives; of the alarm, which goes off if it is not cancelled; and of the exit of a
  forked child and of the program itself (the words it traces are finite). Crash, fork and the
  early stop of the simulator are never forced.

* `Pipeline`: weak fairness of the next-state relation, as for `MemSystem`; and strong fairness of two steps
  of the memory system: that a cycle comes in which the data cache is idle and has answered everything (`DcacheServes`), and
  one in which the instruction cache returns a full block. For the instruction cache that is what
  `MissesComplete` shows; for the data cache it is an assumption on a part not modelled in full.
* `Dominators`: weak fairness of `Sweep`: the analysis is sequential code that runs until it returns.
* `RegAlloc` has no fairness: that the loop over passes ends is not true of the code (section 4). `PassesAreBounded` is the safety
  property that says how far it is.

### 3.4 Deadlock

Deadlock is checked everywhere except in the `TracePipe` run, where both processes
really end, and in the `Mcb` run, where a failed sanity check ends the Playdoh simulation. `Pipeline`, `Dominators` and `RegAlloc` end too; they have an explicit step for having ended, so any other
stop is an error.

## 4. Findings

Each of these runs ends in a counterexample to something the code's own comments say. The findings
in `PROJECT.json` quote them.

| run | violated | what happens |
|---|---|---|
| `RegAlloc_split` | `InstrSplitsDivide` | the split of a range within its control block takes away the arcs of the range before it looks for the largest part that can be allocated (`r_regspill.c:286`), so that part is always the whole; the new register is empty and the next pass meets the same range again, without end |
| `Pipeline_stores` | `NoRegisterWaitsForAStore` | the comment says that destinations of post-increment stores are not marked unavailable when stores do not wait for retirement; the test does the opposite (`s_super.c:2376`), and the register waits for ever for a store that has left the processor |

The models contain, as the code has them, more places where code and comments do
not agree, for which no run is kept; where it says so, a change of a run shows them:

* `s_mem.c:371`: the single transaction bus is kept for memory after reads and prefetches, not after
  the reads of a memory copy, though the comment says "just did a read request".
* `s_mcb.c:607`, `959`: under Playdoh a preload pushed out of a full line leaves `reg_entry` of its register behind, and the load verify of that
  register finds a conflict and an entry ("Better not have an entry") and stops the simulation; at `s_mcb.c:643` a preload that takes its
  register's own entry is dropped at once and a later conflict is missed. These are the states `overflowed` excepts: without that disjunct
  `ChecksNeverPunt`, `TrueConflictsAreReported` and `PreloadsAreTracked` are all violated in the `Mcb` run.
* `s_mcb.c:231`: the loop that clears `reg_entry` ("Initialize reg_entry array with no entries") is the body of the test for a failed
  malloc; without sampling the first preload of a register follows what `malloc` left there (`Init` of `Mcb`; the last disjunct of
  `ChecksNeverPunt`).
* `s_dcache.c:3391`: the exchange with the victim cache exchanges the addresses of two blocks and not their dirty flags, so a block that took a
  store may be in a cache unmarked, and is then replaced without a write back (the exception of `OnlyExchangesLoseStores`: without it, that
  property is violated with a victim cache).
* `s_main.c:1078`: the test for a trace of the other byte order looks at an array that nothing was read into, so such a trace,
  which the comment at line 1071 means to accept, is refused (`SimFormat`; the last conjunct of `EveryComplaintHasItsCause`).
* `s_super.c:2099`: a load is marked as forwarded before the limit of loads per cycle is tested and keeps the mark; it may issue later without going to
  the data cache, though no pending store has its data any more (`value_forwarded` in `Pipeline`).
* `set.c:998`: `Set_intersect_acc` skips a sign for which its second operand has no array, and keeps the elements of the first operand there. The
  array of a new set always has the elements >= 0, so only negative elements are concerned. The Lcode dataflow numbers registers and macros
  with indices >= 0 (`L_REG_MAC_INDEX`, `l_dataflow.h:112`) and is not affected by it; a caller with negative elements would be. `Kept` of `SetLib` is what
  stays, and `OperationsAreRight` says that nothing else does.
* `s_super.c:1649`: a mispredicted branch is repaired before it is marked completed, so if it has a destination register that a
  squashed instruction also writes, the register is given back to the branch as unavailable and stays so for ever. Branches
  have no destinations in Lcode (`Pipeline` with a branch and a load that write the same register: `ScoreboardIsExact`).
* `s_super.c:1631`: an instruction without destination registers completes in the cycle after its issue, even if its request is still at the
  data cache; a load without one would be freed there (`Pipeline` with such a load: `CompletedRequestsHaveReturned`).
* `s_super.c:1709`: the search for a conflicting store also returns squashed ones.
* `r_regalloc.c:2810`: illegal registers are counted one unit each, neighbours by their largest size. One illegal unit takes a whole pair from a
  double, so a pruned double may find no colour; `UnconstrainedAreColoured` and `SpillsMakeRoom` are for functions in which
  only registers of one unit have illegal ones. No code generator in the repository makes doubles illegal.
* `r_regspill.c:481`: outside hyperblocks a live range lacks its defining operation, so for an operation with two
  destinations the spill of one drops its arc to the other. Operations of the model have one destination.
* `r_regbank.c:178`: the mask of a bank is right for sizes 1 and 2, not for 4.
* `l_dominator.c:96`: a function whose entry has a predecessor starts with every set full and keeps them so
  (`DomSetsAreExact` states what is computed: paths from the blocks without predecessors).
* `s_mqueue.c:191`: moving an entry that is not the head leaves its predecessor pointing at
  it (`MoveUnlink`); no present caller does.
* `s_dcache.c:1682`, `1624`: an empty slot is moved to the victim cache as a valid block, and
  victims are not made most recently used, so they replace each other (`Replaced`).
* `s_dcache.c:4076`, `4241`: for a store hit with target C3 make_LRU is followed by make_MRU
  (`AfterStore`); loads call them in the other order.
* `s_dcache.c:3735`: a prefetch does not look in the victim cache and may bring in a block that is there; the two copies then age
  independently (`twice` of `Dcache`; `OnlyPrefetchesDuplicate` says that nothing else makes copies).
* `s_dcache.c:2348`: a prefetch that a store miss has taken over does not take the store from the write buffer when it arrives, as
  a miss would (`PrefetchArrives`).
* `s_main.c:597`: "Remove trace fifo if used"; after a time-out the fifo and the link stay.
* `s_super.c:817`: with fetch address 0 (no instruction) the comparison of addresses succeeds
  on two zeros and the count of an earlier hit is used; only the test of `max_pc` stands
  between this and a fetch, which is why `FetchedInstructionsAreCached` excepts address 0.

In the simulator most of these bend the statistics and do not break anything else; the load
verify and the uninitialised pointer stop it, and so does, after 1000 cycles, a register that waits for a store.

## 5. Proofs

The proof modules are checked by TLAPS to the last step, with the SMT backend, Zenon
and LS4. Each theorem about a run's property names the same definition that TLC checks, and holds
for every value of the constants that satisfies the named assumptions.

The library's induction rules take an operator as a parameter, which the provers cannot
instantiate. `Induction` derives from the well-foundedness of the naturals the rule for a *set*:
one that holds 0 and the successor of each of its members holds every natural. With it the proofs show that the
recursive functions of the models exist and what they compute, that a finite set of numbers has
a greatest element, what a filter leaves of a sequence, and bounds on cardinalities.

### 5.1 `MemSystem_proofs`

`NoPuntInTheMemorySystem` (`NeverPunts`), `OnlyTheMissIsInFlight` (`OneMissInFlight`),
`EveryReadIsAnsweredOnce` (`ReadsAreConserved`) and `OnlyCachedInstructionsAreFetched`
(`FetchedInstructionsAreCached`), from `BusMemAssumption`, `IcacheAssumption` and
`MemSystemAssumption`: for each bus and cache model, any bandwidth, latency, block size of at
least an instruction, any sets of addresses and requests. No restriction to powers of
two is needed.

`NeverPunts` is not inductive. That a block which comes back is the one of the miss
depends on what is on the bus and what is queued at memory, many cycles earlier. The
inductive invariant is

    IInv == MachineTypeOK /\ OneMissInFlight /\ NeverPunts

`OneMissInFlight` says that an idle bus has no agents; that every instruction
cache request at memory, and the instruction cache's transaction on the bus, if there
is one, belong to the miss being served; and that there is one of them at a time. When in the
cycle a transaction counts as over depends on `phase`: memory and caches take the last
segment in their second half cycle while the bus lets go of it only in the next
cycle. There is one lemma for each action that touches bus, memory or instruction cache,
and one (`ProcessorIInv`) for all the others. TLC checks the same definitions in the
`MemSystem` run.

`Conserved` and `FetchInv` stand on `IInv`. Conservation needs that only the caches send requests and get results (`CachesAsk`),
and in which phases a transaction on the bus still counts as owed; a step then moves a read from one of the three places to the next, which
is an equation between concatenations. What fetch takes is cached because the count of instructions
returned is set only for the block of the address requested, and in every phase
after that the blocks it counts are in the cache (`Returned`): lemmas on `LruOps` say what a look-up and a fill leave in a set.

### 5.2 `Mcb_proofs`

`McbLinesStayLists` (`TypeOK`), `McbMissesNoConflict` (`TrueConflictsAreReported`),
`McbTracksEveryPreload` (`PreloadsAreTracked`) and `SuperscalarChecksNeverPunt` (`ChecksNeverPunt`), all for `SuperSpec`, which never sets `overflowed` (the theorems say so, so that the exception made for Playdoh is none here), from
`McbAssumption`: accesses are aligned and of 1, 2, 4 or 8 bytes; any geometry, hash
function, register set.

    IInv == TypeOK /\ Tracked /\ Reported

with the two properties without the exception. The argument: as long as a register's flag is clear, its preload is in the buffer
(`Tracked`), because an entry leaves only with its register's flag being set or with
no preload to guard; and a store that overlaps it then goes to the same line with the same
checksum and passes the comparison of the upper address bits (`OverlapIsSeen`,
arithmetic about aligned accesses). The type invariant is needed for the age
ranks: that there always is an oldest slot (`OldestIsASlot`) and that a load leaves a
permutation (`AsNewestIsAges`). For the store no such lemma is needed, as the step itself picks a
permutation.

`PlaydohIsSafeUntilALineIsFull` (`PreloadsAreTracked`, `TrueConflictsAreReported` and `ChecksNeverPunt`, each of which excepts the states after a
preload has found its line full) is for `PlaydohSpec`, from the same assumption and nothing else:

    PInv == IInv /\ EntriesAndRegistersAgree /\ FreeIsLast(entry, age)
            /\ (punted = "no" \/ (punted = "wild pointer" /\ ~ Sampling))

is an invariant as long as `overflowed` is false, and the theorem says what follows from it. No bound on the number of registers is assumed: a
program may fill a line, and the theorem then promises nothing more, because nothing more is true (section 4). The argument: an entry in
use and the `reg_entry` of its register name each other (`EntriesAndRegistersAgree`); free entries are at the end of their line
(`FreeIsLast`: that is what moving dropped entries to the end is for); so in a line that is not full the oldest entry, which a preload takes, is
free (`OldestIsFree`), and nobody's pointer to an entry outlives it.

### 5.3 `TracePipe_proofs`

`TheTwoMeet` (`RendezvousSucceeds`), `TheTraceIsUnbroken` (`TraceArrivesInOrder`) and
`ComplaintsHaveACause` (`EveryComplaintHasItsCause`, for programs of either byte order), for every size of trace buffer, pipe and block, and every length of trace.

    IInv == PipeTypeOK /\ Rendezvous /\ Stream

`Rendezvous` relates the program counters of the two processes to the names in the file system: which of the two names
exist, and to which fifo they lead, at every point between one's creating them and the other's removing
them. `Stream` is the conservation of words: received, block being decoded, pipe, write in progress and trace
buffer, put end to end, are the header, the words traced so far in order, and the end marks if the program left
through its exit handler. A complaint that the trace is cut then needs an end of file before the end marks, and only a crash
closes the pipe before it has been written out; the first word after the header is an end mark only if nothing was traced; and the words of the
header are the ones that were sent.

### 5.4 `LDominator_proofs`

`SweepsComputeDominators` (`DomSetsAreExact`): on every finite flow graph, when a sweep changes nothing, the set of
each block is exactly the blocks on all paths to it from the blocks without predecessors.

    IInv == SweepTypeOK /\ SetsAreLargeEnough /\ SettledAreSolved

`SetsAreLargeEnough`: no sweep removes a block that is on all paths. `SettledAreSolved`: while nothing has changed in
a sweep, the blocks it has passed satisfy their equations. That a solution of all the equations contains only
blocks that are on all paths is by induction on the length of a path.

### 5.5 `RegBank_proofs`, `RegAlloc_proofs`

Every property of the `RegAlloc` run is a theorem, for every function of straight-line code whose operations have one destination each (section 4 says
what a spill does with two), any number of control blocks and
of registers, any sizes and banks that satisfy `BankAssumption`, and any number of passes: `NoArcIsLost`
(`ConflictsAreArcs`), `ReturnedAllocationsAreCorrect` (`AllocationIsCorrect`), `SearchesAreComplete` (`SearchIsComplete`),
`PassesEnd` (`PassesAreBounded`), and, if registers take one or two units (`SizesAreOneOrTwo`, true of every code generator
in the repository), `UnconstrainedGetColours` (`UnconstrainedAreColoured`) and `SpillsAlwaysMakeRoom` (`SpillsMakeRoom`).

    AInv == IsFunctionToCompile(prog) /\ GraphOK /\ ColoursOK /\ StacksOK /\ QueueOK

* `GraphOK`: the pieces of a register share out its references; a register that is not spilled has all of them and its whole live range, a spilled
  one lives in its references; and registers that hold values at the same moment (`Clash`, the `Conflict` of the model for any two
  records) have an arc. The first facts are what the last one needs: an arc may go only if the live ranges are disjoint, and these leave
  out a defining operation, so the key lemma (`ClashMeets`) is that a spilled register and a neighbour held at the same moment meet
  all the same, since an operation defines one register. One lemma (`DivisionKeepsGraph`) is about any replacement of a
  register by pieces; spill and the two splits are instances of it.
* `StacksOK`: the two stacks of a bank together are a permutation of its registers. A search moves
  one register of its bank and rotates those of overlapping banks; `Rotate` and `Keep`, recursive functions, are
  shown by induction to lose and double nothing.
* `QueueOK`: the registers of the pass are in the heap or on the shadow stack, and what has left the heap has a
  colour or waits on the stack of the unconstrained.

`PassesAreBounded` adds `PInv`: each pass that fails spills a register of the function or makes one split, and neither is ever
undone, so the number of passes is bounded by two finite sets.

`UnconstrainedAreColoured` adds `UInv`: the stack is as pruning left it, and nothing on it has a place. The last of the stack then
competes with neighbours that were counted when it was pruned. That fewer units than there are leave a free *register*, not only
free units, is arithmetic on pairs (`SomeRegisterIsFree`); this is where sizes 1 and 2 are needed.

`SpillsMakeRoom` adds `RInv`: a spilled register has a higher priority than any neighbour that is not spilled, and shares
an operation with each neighbour. When a register for one operation is at the top of the heap, its neighbours that have
colours are therefore spilled, refer to that operation, and are pieces of different operands. The proof showed that the property must count
the illegal registers of an operand; `OperandsFit` does, by the count that pruning uses.

### 5.6 `Pipeline_proofs`

Every invariant of the `Pipeline` run is a theorem, for any number of fetch stages, any issue, fetch and retirement widths, any pool of
instructions, trace, program, parameter set and behaviour of the caches: `PipelineNeverPuntsHolds`, `ScoreboardIsExactHolds`,
`WrongPathStartsAtItsBranchHolds`, `TraceIsConservedHolds`, `CompletedRequestsHaveReturnedHolds`, `SampleEndsCleanHolds`. They are
proved from `PipelineAssumption` and one hypothesis on the programs, which those of the run satisfy:

    OnlyResultsAreWritten: prefetches, branches and calls have no destination register; loads and memory copy checks have one or more;
                           stores have none in a program that is simulated without delaying stores until retirement

Operations may have several destinations, and post-increment loads are covered without restriction. The first half is true of Lcode (a call has its results
in an attribute: `jsr [] ... <(ret ...)>`, `l_emul_emit_builtin.c:305`). The second is not: Lcode has post-increment stores
(`Lop_ST_POST_*`, `l_opc.h:231`). With `S_delay_stores_until_retirement` they are covered too: they are not tagged, and the scoreboard takes no notice of
them, except that a repair may find one as the nearest older writer. Without it the properties are false of the code, as `Pipeline_stores`
shows, and the theorems say nothing. The code tests none of this, and the proof needs all of it. Each part is a place where the pipeline goes
wrong without it, listed in section 4: prefetches with a result are tagged and dropped like the stores; branches with a
result (`s_super.c:1649`); loads and memory copy checks without one (`s_super.c:1631`).

    IInv == TypeOK /\ Placed /\ Requested /\ Visiting /\ Paths /\ Conserved /\ Scored /\ Idle /\ punt = "none"

None of the six properties is inductive, and they are not independent: the repair frees what is behind a branch, which is safe only if
nothing there is in another queue; that is so only if a wrong path is exactly what is behind its branch; and that the branch is the only one
depends on the order in which decode leaves instructions behind. The argument is about one relation, `Before(q, i, j)`: i is ahead of j in q.

* `Placed`: every Sint in use is in the processor, once, or at the dcache; what executes is in the reorder buffer and not done; what waits
  for issue is neither done nor squashed.
* `Requested`: a request at the dcache is the last trace of a store or a prefetch, or an instruction in the reorder buffer waits for it.
* `Visiting`: what a stage has yet to visit is in its queue. Decode may pass by off path stores that then stay where they are, so later
  instructions overtake them; `Visiting` says that whatever is passed by is off the path, and `DecodeVisits` that then so is what overtakes it.
* `Paths`: off the correct path there is one unresolved mispredicted branch of the trace, with only off path instructions behind it, and only squashed
  ones or the trace ahead of it. On it there is none.
* `Conserved`: instructions of the trace are in trace order, and their positions are what is read and not finished.
* `Scored`: the tag of a register is an unsquashed writer with none but delayed stores behind it, and its value is available only when its own time has come. `RepairedIsExact` shows this of the two loops of the repair,
  for any squash and any scoreboard that was exact before.
* `Idle`: a halted processor is empty.

There is one lemma per action, for `ExecOne` and `DecodeOne` one per case. The fetch stages are put in a row by a recursive function; that advancing
them (`AdvanceStages`, another recursion, from the last stage to the first) and filling decode leave that row as it is, whatever their number,
is by induction (`AdvanceFacts`, `FetchOfLast`). That what is in the processor is of the program simulated (`Programmed`) is a separate invariant on top of `IInv`. TLC has checked `IInv` on an
instance with post-increment loads and stores.

### 5.7 What is only model checked

* Liveness and enabledness, which are beyond the prover: `MissesComplete`, `SimulationEnds`, `ProgramIsReleased`, `TraceIsSimulated`, `SweepsEnd`.
* Not yet proved: the LRU refinement and `ListsAreSound` of `Scache`, the queues, `Dcache` (pointer structures,
  for which lemmas about paths along a field are missing), the Lengauer-Tarjan half of `Dominators` and `SetLib`.
* `InstrSplitsDivide` and `NoRegisterWaitsForAStore` are false (section 4). `PassesAreBounded` stops counting at the first split within a control
  block for the same reason.

## 6. What is not modelled

* Parts of modelled files: the second level bus and the second level path of the
  caches; TLBs; prefetch cache, miss bypass limits and memory
  copies inside the data cache; in the processor predicated destinations, the adjustment of latencies (`adjust`), the fixup of untraced conflict checks, operations that take no
  space, the ALAT, force_sim and calls that do not flush; statistics; trace files instead of pipes; the Windows code.
* In the set library: memory pools, the record of freed ids, printing. In the dominator analysis: control nodes split by predicates.
* In the register allocator: how priorities and benefits are computed, loops and several definitions of a register, the insertion of spill code, regions, macro and
  rotating registers, the special cases of HPPA, X86 and of conflict buffer preloads, `R_spill_all_virtual_registers`.
* One write past the end of an array (`s_mcb.c:244`, `s_alat.c:276`) and the division by
  a zero associativity (`s_mcb.c:184`) are hazards without a property: memory outside the
  arrays is not modelled, and configuration values are assumed positive.
* Parts of Lsim not started: second level cache, BTB and return stack, ALAT, Playdoh and
  VLIW pipelines, profiler, X86 trace generator, code loader.
* The rest of the compiler: Pcode, Lcode's optimisations and other dataflow, schedulers, code generators, libraries, driver. This is most of the
  repository by size. It is sequential, and mostly functions of a whole program or of generated tables
  (`phase1_imult_tab.h` and its like are data); a model of it would repeat it. What remains worth an
  algorithmic model is named in the plan.

## 7. Plan

Done: cache library, bus, memory and fetch, conflict buffer, queues, data cache core, trace pipe; the processor pipeline, the integer
sets, both dominator analyses and the register allocator; theorems on the memory system, the
conflict buffer, the trace pipe, the pipeline, the dominator sets and the register allocator.
In order of importance, what follows:

1. Proofs: `QueuesAreWellFormed` and the refinement of
   `Queues`, then `ListsAreSound` and the LRU refinement with the same lemmas about linked lists; `OnlyPrefetchesDuplicate` of `Dcache`.
2. `Dcache`: read and write queues with their limits, miss bypass, the prefetch
   cache and memory copies; then composed with `BusMem`, in place of the free environment of `MemSystem`,
   with the progress of loads as its liveness property, which `Pipeline` assumes.
3. Second level cache and bus (`s_scache.c`, `S_sim_L2_bus`), reusing `BusMem` by instantiation.
4. BTB with the return stack, and the ALAT as a sibling of `Mcb`.
5. The schedule manager's resource map (`src/src/Lcode/sched/SM/sm_rmap.c`) and the insertion of spill code.
