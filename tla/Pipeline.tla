------------------------------ MODULE Pipeline ------------------------------
(***************************************************************************)
(* The superscalar pipeline of Lsim (s_super.c): trace driven, fetching    *)
(* down predicted paths, in order issue against a scoreboard, out of order *)
(* completion, in order retirement, and recovery from mispredictions.      *)
(* A cycle runs its stages last to first; a stage visits its queue one     *)
(* instruction per step.  An on path instruction is known by its position  *)
(* in the trace, and that is its pc; OffPath stands for every pc a wrong   *)
(* prediction leads to.                                                    *)
(***************************************************************************)
EXTENDS Integers, SequencesExt, FiniteSetsExt, SeqFilter

CONSTANTS Ids,             \* instructions in flight (bound of Sint_pool)
          Regs, Ops,       \* registers, instructions a program is made of
          NumFetchStages, IssueWidth, FetchWidth, FetchBufSize, RetireWidth,
          DcachePorts,
          Units,           \* opcode type -> instructions issued per cycle
          MaxSkip,         \* bound of the sample skip size
          TraceLength,     \* bound of the traced program
          Parms            \* parameter files and programs to check

OpTypes == {"ialu", "branch", "jsr", "load", "store", "prefetch", "mem_copy_check"}
NoReg == 0
NULL == 0
NoSint == << >>
OffPath == -1
NullPc == 0

(* Operations with up to three destinations, each with its latency: a post *)
(* increment load writes what it loads and its address.  A load's data and *)
(* the answer to a check go to the first destination.                      *)
OpRecords ==
  [type : OpTypes, reads : SUBSET Regs, first_dest : Regs \cup {NoReg},
   dests : SUBSET Regs, addr : Nat, size : Nat, latency : [Regs -> Nat \ {0}]]

Parameters ==
  [delay_stores : BOOLEAN, squash_off_path : BOOLEAN, aggressive : BOOLEAN,
   sample_size : Nat \ {0}, program : SUBSET Ops]

ASSUME PipelineAssumption ==
  /\ Ids \subseteq Nat \ {0} /\ Regs \subseteq Nat \ {0}
  /\ Ops \subseteq OpRecords /\ Parms \subseteq Parameters
  /\ \A o \in Ops : o.dests # {} => o.first_dest \in o.dests
  /\ \E o \in Ops, r \in Regs : \A p \in Ops, q \in Regs : p.latency[q] <= o.latency[r]
  /\ {NumFetchStages, IssueWidth, FetchWidth, FetchBufSize, RetireWidth,
      DcachePorts} \subseteq Nat \ {0}
  /\ MaxSkip \in Nat /\ TraceLength \in Nat
  /\ Units \in [OpTypes -> Nat \ {0}]

Stages == 1 .. NumFetchStages
MaxLatency == Max({o.latency[r] : o \in Ops, r \in Regs})
Never == MaxLatency + 1     \* (unsigned) -1: the dcache will set the time

VARIABLES
  parm,            \* the parameter file and program of this simulation
  sint,            \* Ids -> instruction, NoSint if the Sint is free
  rf,              \* Regs -> [tag, value_avail]: the scoreboard
  proc,            \* the scalar fields of the processor
  fetch_stage, decode_queue, exec_queue, reorder_queue, pending_stores,
  dcache_request,  \* requests of this cycle
  outstanding,     \* requests inside the dcache that will be answered
  dcache_busy,
  phase, todo,     \* stage of the cycle, entries its loop has yet to visit
  count,           \* counters local to a stage
  traced,          \* trace records consumed
  finished,        \* trace positions simulated to the end (history)
  punt             \* the sanity check that failed

queues == <<fetch_stage, decode_queue, exec_queue, reorder_queue, pending_stores>>
dcache == <<dcache_request, outstanding, dcache_busy>>
vars == <<parm, sint, rf, proc, queues, dcache, phase, todo, count, traced,
          finished, punt>>

Free == {i \in Ids : sint[i] = NoSint}
Live == Ids \ Free
Fetched == UNION {Range(fetch_stage[s]) : s \in Stages}
IsStore(i) == sint[i].op.type = "store"

(* On path prefetches only: the guess routines set no trace flags.         *)
IsDirective(i) == sint[i].op.type = "prefetch" /\ ~sint[i].off_path
(* Leaves the processor for the dcache at issue, and never retires.        *)
Unretired(i) == IsDirective(i) \/ (IsStore(i) /\ ~parm.delay_stores)

Available == [tag |-> NULL, value_avail |-> TRUE]
Without(q, S) == Only(q, Ids \ S)
Counters == OpTypes \cup {"retired", "num_avail"}
NoCount == [u \in Counters |-> 0]

Init ==
  /\ parm \in Parms
  /\ sint = [i \in Ids |-> NoSint]
  /\ rf = [r \in Regs |-> Available]
  /\ proc = [ifetch_pc |-> 1, on_path_pc |-> 1, on_correct_path |-> TRUE,
             ifetch_enabled |-> TRUE, enable_ifetch_next_cycle |-> FALSE,
             icache_addr_requested |-> NullPc, halt_point |-> parm.sample_size,
             halting |-> FALSE]
  /\ fetch_stage = [s \in Stages |-> << >>]
  /\ decode_queue = << >> /\ exec_queue = << >> /\ reorder_queue = << >>
  /\ pending_stores = << >>
  /\ dcache_request = << >> /\ outstanding = {} /\ dcache_busy = FALSE
  /\ phase = "memory" /\ todo = << >> /\ count = NoCount
  /\ traced = 0 /\ finished = {} /\ punt = "none"

-----------------------------------------------------------------------------
(* Start of a cycle: time passes, fetching resumes after a repaired branch *)
(* and the icache is asked for the next block if the buffer will run low.  *)

(* Every destination has its own time to wait for.                         *)
Tick(s) ==
  IF s = NoSint THEN s
  ELSE [s EXCEPT !.wait = [r \in Regs |-> IF s.wait[r] \in 1 .. MaxLatency
                                          THEN s.wait[r] - 1 ELSE s.wait[r]]]

(* The dcache sets the time of the first destination.                      *)
Answered(s) ==
  [Tick(s) EXCEPT !.wait[s.op.first_dest] = s.op.latency[s.op.first_dest] - 1]

FetchMark == IF parm.aggressive THEN IssueWidth ELSE 0

(* Mutant: fetching resumes only if the repair left it enabled.            *)
IfetchEnabled_Stale == proc.ifetch_enabled

BufferRunsLow ==
  LET max_consume == IF \E s \in 2 .. NumFetchStages : fetch_stage[s] = << >>
                     THEN IssueWidth ELSE IssueWidth - Len(decode_queue)
  IN Len(fetch_stage[1]) - max_consume <= FetchMark

IfetchEnabled ==
  IF proc.enable_ifetch_next_cycle /\ ~proc.halting THEN TRUE ELSE proc.ifetch_enabled

RequestFetch ==
  proc' = [proc EXCEPT !.ifetch_enabled = IfetchEnabled,
                       !.enable_ifetch_next_cycle = FALSE,
                       !.icache_addr_requested =
                         IF IfetchEnabled /\ BufferRunsLow
                         THEN proc.ifetch_pc ELSE NullPc]

(* The dcache takes the requests unless it is busy, answers some of those  *)
(* outstanding, and drops stores and prefetches, which do not return.      *)
Memory(answered, busy) ==
  LET taken == IF dcache_busy THEN {} ELSE Range(dcache_request)
      returning == {i \in taken : ~(IsStore(i) \/ IsDirective(i))}
  IN /\ phase = "memory"
     /\ RequestFetch
     /\ answered \subseteq outstanding \cup returning
     /\ sint' = [i \in Ids |->
                   IF i \in taken \ returning THEN NoSint
                   ELSE IF i \in answered THEN Answered(sint[i])
                   ELSE Tick(sint[i])]
     /\ outstanding' = (outstanding \cup returning) \ answered
     /\ dcache_request' = Without(dcache_request, taken)
     /\ dcache_busy' = busy
     /\ phase' = "retire" /\ count' = NoCount
     /\ UNCHANGED <<parm, rf, queues, todo, traced, finished, punt>>

-----------------------------------------------------------------------------
(* Retirement: completed instructions leave from the head, in order.       *)

Retirable ==
  /\ reorder_queue # << >> /\ sint[Head(reorder_queue)].completed
  /\ count["retired"] < RetireWidth

(* A store that finds no port stops retirement until the next cycle.       *)
StoreMustWait ==
  LET i == Head(reorder_queue)
  IN IsStore(i) /\ ~sint[i].squashed
       /\ (dcache_busy \/ Len(dcache_request) >= DcachePorts)

RetireOne ==
  LET i == Head(reorder_queue)
      s == sint[i]
      stored == IsStore(i) /\ ~s.squashed
  IN /\ phase = "retire" /\ punt = "none" /\ Retirable /\ ~StoreMustWait
     /\ punt' = IF ~s.squashed /\ s.off_path THEN "Off path sint unsquashed"
                ELSE IF s.squashed /\ ~s.off_path THEN "On path sint squashed"
                ELSE punt
     /\ rf' = IF s.squashed THEN rf
              ELSE [r \in Regs |-> IF r \in s.op.dests /\ rf[r].tag = i
                                   THEN [rf[r] EXCEPT !.tag = NULL] ELSE rf[r]]
     /\ reorder_queue' = Tail(reorder_queue)
     /\ exec_queue' = Without(exec_queue, {i})
     /\ pending_stores' = Without(pending_stores, {i})
     /\ dcache_request' = IF stored THEN Append(dcache_request, i)
                          ELSE Without(dcache_request, {i})
     /\ outstanding' = outstanding \ {i}
     /\ sint' = IF stored THEN sint ELSE [sint EXCEPT ![i] = NoSint]
     /\ finished' = IF s.off_path THEN finished ELSE finished \cup {s.position}
     /\ count' = [count EXCEPT !["retired"] = @ + 1]
     /\ UNCHANGED <<parm, proc, fetch_stage, decode_queue, dcache_busy, phase,
                    todo, traced>>

RetireDone ==
  /\ phase = "retire" /\ punt = "none" /\ (Retirable => StoreMustWait)
  /\ phase' = "exec" /\ todo' = exec_queue
  /\ UNCHANGED <<parm, sint, rf, proc, queues, dcache, count, traced, finished, punt>>

-----------------------------------------------------------------------------
(* Execution: instructions whose time has come complete, in issue order; a *)
(* result is available when its own time has come.                         *)

(* Where the entry of b is in the reorder buffer (reorder_queue_entry).     *)
Place(b) == CHOOSE k \in DOMAIN reorder_queue : reorder_queue[k] = b

(* Mutant: the entry behind the branch is spared.                          *)
After_SkipsOne(b) == {reorder_queue[k] : k \in Place(b) + 2 .. Len(reorder_queue)}

After(b) == {reorder_queue[k] : k \in Place(b) + 1 .. Len(reorder_queue)}

(* Mutant: the registers are freed and not given back to older writers.    *)
Repaired_NotRebuilt(b, squash, rfNow) ==
  [r \in Regs |-> IF r \in UNION {sint[i].op.dests : i \in squash} THEN Available ELSE rfNow[r]]

(* The scoreboard as the unsquashed instructions up to the branch left it: *)
(* registers with a squashed writer are cleared, then an empty tag takes   *)
(* the nearest writer met walking back from the branch.                    *)
Repaired(b, squash, rfNow) ==
  LET cleared == UNION {sint[i].op.dests : i \in squash}
      older(r) == {k \in 1 .. Place(b) : /\ r \in sint[reorder_queue[k]].op.dests
                                        /\ ~sint[reorder_queue[k]].squashed}
      nearest(r) == reorder_queue[Max(older(r))]
  IN [r \in Regs |->
        IF r \notin cleared /\ rfNow[r].tag # NULL THEN rfNow[r]
        ELSE IF older(r) # {}
             THEN [tag |-> nearest(r), value_avail |-> sint[nearest(r)].completed]
        ELSE IF r \in cleared THEN Available ELSE rfNow[r]]

(* S_superscalar_fix_mispredicted_branch.                                  *)
FixMispredictedBranch(b, sintNow, rfNow) ==
  LET discarded == Fetched \cup Range(decode_queue)
      squash == After(b)
  IN /\ fetch_stage' = [s \in Stages |-> << >>]
     /\ decode_queue' = << >>
     /\ sint' = [i \in Ids |-> IF i \in discarded THEN NoSint
                               ELSE IF i \in squash
                               THEN [sintNow[i] EXCEPT !.squashed = TRUE]
                               ELSE sintNow[i]]
     /\ rf' = Repaired(b, squash, rfNow)
     /\ proc' = [proc EXCEPT !.ifetch_pc = proc.on_path_pc,
                             !.on_correct_path = TRUE,
                             !.ifetch_enabled = FALSE,
                             !.enable_ifetch_next_cycle = TRUE]
     /\ punt' = IF discarded \cap (Range(exec_queue) \cup Range(reorder_queue)
                                      \cup Range(dcache_request)) # {}
                THEN "Sint still in queues" ELSE punt

Completes(i) == \A r \in sint[i].op.dests : sint[i].wait[r] = 0

(* Mutant: the results are available when the first one is.                *)
Written_AllAtOnce(i) ==
  [r \in Regs |->
     IF r \in sint[i].op.dests /\ sint[i].wait[sint[i].op.first_dest] = 0 /\ rf[r].tag = i
     THEN [rf[r] EXCEPT !.value_avail = TRUE] ELSE rf[r]]

(* The results of i whose time has come, if they are still to be i's.      *)
Written(i) ==
  [r \in Regs |-> IF r \in sint[i].op.dests /\ sint[i].wait[r] = 0 /\ rf[r].tag = i
                  THEN [rf[r] EXCEPT !.value_avail = TRUE] ELSE rf[r]]

ExecOne ==
  LET i == Head(todo)
      s == sint[i]
      done == [sint EXCEPT ![i].completed = TRUE]
  IN /\ phase = "exec" /\ punt = "none" /\ todo # << >>
     /\ todo' = Tail(todo)
     /\ \/ /\ Completes(i) /\ s.mispredicted /\ ~s.off_path
           /\ FixMispredictedBranch(i, done, Written(i))
           /\ exec_queue' = Without(exec_queue, {i})
           /\ UNCHANGED <<reorder_queue, pending_stores>>
        \/ /\ Completes(i) /\ ~(s.mispredicted /\ ~s.off_path)
           /\ sint' = done
           /\ rf' = Written(i)
           /\ exec_queue' = Without(exec_queue, {i})
           /\ UNCHANGED <<proc, fetch_stage, decode_queue, reorder_queue,
                          pending_stores, punt>>
        \/ /\ ~Completes(i)
           /\ rf' = Written(i)
           /\ UNCHANGED <<sint, proc, queues, punt>>
     /\ UNCHANGED <<parm, dcache, phase, count, traced, finished>>

(* Then the decode queue is filled from the last fetch stage.              *)
Filled ==
  LET last == fetch_stage[NumFetchStages]
      room == IF parm.aggressive \/ decode_queue = << >>
              THEN Max({0, IssueWidth - Len(decode_queue)}) ELSE 0
  IN Min({room, Len(last)})

ExecDone ==
  LET last == fetch_stage[NumFetchStages]
      q == decode_queue \o SubSeq(last, 1, Filled)
  IN /\ phase = "exec" /\ punt = "none" /\ todo = << >>
     /\ decode_queue' = q
     /\ fetch_stage' = [fetch_stage EXCEPT ![NumFetchStages] =
                          SubSeq(last, Filled + 1, Len(last))]
     /\ phase' = "decode" /\ todo' = q /\ count' = NoCount
     /\ UNCHANGED <<parm, sint, rf, proc, exec_queue, reorder_queue,
                    pending_stores, dcache, traced, finished, punt>>

-----------------------------------------------------------------------------
(* Decode: instructions issue in order until one is blocked.               *)

ConflictingStores(i) ==
  SelectSeq(pending_stores, LAMBDA st : sint[st].op.addr = sint[i].op.addr)

(* The youngest pending store to the address forwards if it is as wide as  *)
(* the load, and blocks the load if it is not.                             *)
BlockedByStore(i) ==
  LET c == ConflictingStores(i)
  IN sint[i].op.type = "load" /\ c # << >> /\ sint[Last(c)].op.size < sint[i].op.size

Forwards(i) ==
  sint[i].op.type = "load" /\ ConflictingStores(i) # << >> /\ ~BlockedByStore(i)

(* The flag outlives the cycle it was set in.                              *)
Forwarded(i) == sint[i].value_forwarded \/ Forwards(i)

NeedsDcache(i) ==
  \/ sint[i].op.type = "load" /\ ~Forwarded(i)
  \/ sint[i].op.type = "prefetch"
  \/ sint[i].op.type = "mem_copy_check" /\ ~sint[i].off_path
  \/ IsStore(i) /\ ~parm.delay_stores

SourcesReady(i) == \A r \in sint[i].op.reads : rf[r].value_avail

UnitOf(i) == IF sint[i].op.type = "jsr" THEN "branch"
             ELSE IF sint[i].op.type = "mem_copy_check" THEN "prefetch"
             ELSE sint[i].op.type
Unclassified(i) == sint[i].op.type = "mem_copy_check" /\ sint[i].off_path
HasUnit(i) == Unclassified(i) \/ count[UnitOf(i)] < Units[UnitOf(i)]

Issues(i) ==
  /\ SourcesReady(i)
  /\ ~BlockedByStore(i)
  /\ NeedsDcache(i) => ~dcache_busy /\ Len(dcache_request) < DcachePorts
  /\ HasUnit(i)

(* The registers tagged at issue: those of a post increment store exactly  *)
(* when it does not wait for retirement.                                   *)
Tags(i) == IF IsStore(i) /\ parm.delay_stores THEN {} ELSE sint[i].op.dests

(* Off path, a load may be kept from the dcache; it then costs a hit.      *)
GoesToDcache(i) ==
  \/ sint[i].op.type = "load"
       /\ ~Forwarded(i) /\ ~(sint[i].off_path /\ parm.squash_off_path)
  \/ sint[i].op.type = "mem_copy_check" /\ ~sint[i].off_path
  \/ IsDirective(i)
  \/ IsStore(i) /\ ~parm.delay_stores /\ ~sint[i].off_path

(* Mutant: off path, a load costs a hit even if it went to the dcache.     *)
Returns_NotOffPath(i) == GoesToDcache(i) /\ ~Unretired(i) /\ ~sint[i].off_path

Returns(i) == GoesToDcache(i) /\ ~Unretired(i)

(* When the results will be there; only the first one comes from the       *)
(* dcache.                                                                 *)
Latencies(i) ==
  [r \in Regs |-> IF r \notin sint[i].op.dests THEN 0
                  ELSE IF Returns(i) /\ r = sint[i].op.first_dest THEN Never
                  ELSE sint[i].op.latency[r]]

DecodeOne ==
  LET i == Head(todo)
      s == sint[i]
  IN /\ phase = "decode" /\ punt = "none" /\ todo # << >> /\ Issues(i)
     /\ todo' = Tail(todo)
     /\ count' = IF Unclassified(i) THEN count ELSE [count EXCEPT ![UnitOf(i)] = @ + 1]
     /\ rf' = [r \in Regs |-> IF r \in Tags(i) THEN [tag |-> i, value_avail |-> FALSE]
                              ELSE rf[r]]
     /\ sint' = [sint EXCEPT ![i].value_forwarded = Forwarded(i), ![i].wait = Latencies(i)]
     /\ reorder_queue' = IF Unretired(i) THEN reorder_queue ELSE Append(reorder_queue, i)
     /\ dcache_request' = IF GoesToDcache(i) THEN Append(dcache_request, i)
                          ELSE dcache_request
     /\ pending_stores' = IF IsStore(i) /\ parm.delay_stores
                          THEN Append(pending_stores, i) ELSE pending_stores
     /\ exec_queue' = IF Unretired(i) THEN exec_queue ELSE Append(exec_queue, i)
     \* an off path store that does not wait for retirement stays where it is
     /\ decode_queue' = IF Unretired(i) /\ ~GoesToDcache(i) THEN decode_queue
                        ELSE Without(decode_queue, {i})
     /\ finished' = IF Unretired(i) /\ ~s.off_path
                    THEN finished \cup {s.position} ELSE finished
     /\ UNCHANGED <<parm, proc, fetch_stage, outstanding, dcache_busy, phase,
                    traced, punt>>

(* Moved[s]: instructions that pass from fetch stage s - 1 to stage s; the *)
(* later stages move first, and make room.                                 *)
Moved ==
  LET m[s \in 1 .. NumFetchStages + 1] ==
        IF s = NumFetchStages + 1 \/ s = 1 THEN 0
        ELSE LET left == Len(fetch_stage[s]) - m[s + 1]
             IN Min({Len(fetch_stage[s - 1]), Max({0, IssueWidth - left})})
  IN m

(* Mutant: those that advance overtake those that were there.              *)
AdvanceStages_Overtake ==
  fetch_stage' =
    [s \in Stages |->
       LET stay == SubSeq(fetch_stage[s], 1 + (IF s = NumFetchStages THEN 0 ELSE Moved[s + 1]),
                          Len(fetch_stage[s]))
       IN IF s = 1 THEN stay ELSE SubSeq(fetch_stage[s - 1], 1, Moved[s]) \o stay]

AdvanceStages ==
  fetch_stage' =
    [s \in Stages |->
       LET stay == SubSeq(fetch_stage[s], 1 + (IF s = NumFetchStages THEN 0 ELSE Moved[s + 1]),
                          Len(fetch_stage[s]))
       IN IF s = 1 THEN stay ELSE stay \o SubSeq(fetch_stage[s - 1], 1, Moved[s])]

(* Decode ends at the first instruction that cannot issue; then the fetch  *)
(* stages advance and the icache's answer says how many can be fetched.    *)
DecodeDone(returned) ==
  /\ phase = "decode" /\ punt = "none" /\ (todo # << >> => ~Issues(Head(todo)))
  /\ sint' = IF todo = << >> \/ ~SourcesReady(Head(todo)) THEN sint
             ELSE [sint EXCEPT ![Head(todo)].value_forwarded = Forwarded(Head(todo))]
  /\ AdvanceStages
  /\ returned \in 0 .. FetchWidth
  /\ (proc.icache_addr_requested = NullPc \/ ~proc.ifetch_enabled
        \/ proc.icache_addr_requested # proc.ifetch_pc) => returned = 0
  /\ count' = [NoCount EXCEPT !["num_avail"] =
                 Min({returned, Max({0, FetchBufSize - Len(fetch_stage'[1])})})]
  /\ phase' = "fetch" /\ todo' = << >>
  /\ UNCHANGED <<parm, rf, proc, decode_queue, exec_queue, reorder_queue,
                 pending_stores, dcache, traced, finished, punt>>

-----------------------------------------------------------------------------
(* Fetch: S_gen_sint takes the next trace record on the correct path and   *)
(* makes an instruction up off it.                                         *)

FetchOne(op, mispredicted, predicted_taken) ==
  LET i == Min(Free)
      on == proc.on_correct_path
      flush == op.type = "jsr" /\ on
      branch == op.type \in {"branch", "jsr"} /\ ~flush
  IN /\ phase = "fetch" /\ punt = "none"
     /\ count["num_avail"] > 0 /\ traced < TraceLength /\ Free # {}
     /\ (mispredicted \/ predicted_taken) => branch
     /\ sint' = [sint EXCEPT ![i] =
                   [op |-> op, off_path |-> ~on, mispredicted |-> mispredicted \/ flush,
                    completed |-> FALSE, squashed |-> FALSE, value_forwarded |-> FALSE,
                    wait |-> [r \in Regs |-> 0],
                    position |-> IF on THEN traced + 1 ELSE 0]]
     /\ punt' = IF on /\ proc.ifetch_pc # traced + 1 THEN "Trace out of step" ELSE punt
     /\ traced' = IF on THEN traced + 1 ELSE traced
     /\ fetch_stage' = [fetch_stage EXCEPT ![1] = Append(@, i)]
     /\ proc' = [proc EXCEPT
                   !.on_path_pc = IF on THEN proc.ifetch_pc + 1 ELSE @,
                   !.ifetch_pc = IF flush THEN NullPc
                                 ELSE IF on /\ ~mispredicted THEN @ + 1 ELSE OffPath,
                   !.on_correct_path = on /\ ~mispredicted /\ ~flush,
                   !.ifetch_enabled = @ /\ ~flush]
     /\ count' = [count EXCEPT !["num_avail"] = IF flush \/ predicted_taken THEN 0 ELSE @ - 1]
     /\ UNCHANGED <<parm, rf, decode_queue, exec_queue, reorder_queue, pending_stores,
                    dcache, phase, todo, finished>>

(* Mutant: the fetch stages are not looked at (the code before JWS         *)
(* 20000221).                                                              *)
InFlight_NotFetched ==
  decode_queue # << >> \/ exec_queue # << >> \/ reorder_queue # << >>

(* End of the cycle: at the end of the sample, or of the trace, fetching   *)
(* stops, and the sample ends when nothing is left in the processor.       *)
EndOfSample == traced >= proc.halt_point \/ traced = TraceLength

InFlight ==
  \/ decode_queue # << >> \/ exec_queue # << >> \/ reorder_queue # << >>
  \/ \E s \in Stages : fetch_stage[s] # << >>

FetchDone ==
  /\ phase = "fetch" /\ punt = "none"
  /\ count["num_avail"] = 0 \/ traced = TraceLength \/ Free = {}
  /\ proc' = [proc EXCEPT !.halting = @ \/ EndOfSample,
                          !.ifetch_enabled = @ /\ ~EndOfSample]
  /\ phase' = IF proc'.halting /\ ~InFlight THEN "halted" ELSE "memory"
  /\ UNCHANGED <<parm, sint, rf, queues, dcache, todo, count, traced, finished, punt>>

(* Mutant: the pc after the skip is the one before it.                     *)
NextSample_StalePc(skip) ==
  LET now == Min({traced + skip, TraceLength})
      pc == proc.on_path_pc
  IN /\ phase = "halted" /\ traced < TraceLength
     /\ traced' = now
     /\ finished' = finished \cup (traced + 1 .. now)
     /\ proc' = [proc EXCEPT !.ifetch_pc = pc, !.on_path_pc = pc, !.ifetch_enabled = TRUE,
                             !.halt_point = now + parm.sample_size, !.halting = FALSE]
     /\ phase' = IF now = TraceLength THEN "halted" ELSE "memory"
     /\ UNCHANGED <<parm, sint, rf, queues, dcache, todo, count, punt>>

(* S_skip consumes trace records without simulating them; the next sample  *)
(* starts where it stopped.                                                *)
NextSample(skip) ==
  LET now == Min({traced + skip, TraceLength})
      pc == proc.on_path_pc + (now - traced)
  IN /\ phase = "halted" /\ traced < TraceLength
     /\ traced' = now
     /\ finished' = finished \cup (traced + 1 .. now)
     /\ proc' = [ifetch_pc |-> pc, on_path_pc |-> pc, on_correct_path |-> TRUE,
                 ifetch_enabled |-> TRUE, enable_ifetch_next_cycle |-> FALSE,
                 icache_addr_requested |-> NullPc, halt_point |-> now + parm.sample_size,
                 halting |-> FALSE]
     /\ phase' = IF now = TraceLength THEN "halted" ELSE "memory"
     /\ UNCHANGED <<parm, sint, rf, queues, dcache, todo, count, punt>>

Finished == phase = "halted" /\ traced = TraceLength /\ UNCHANGED vars

Next ==
  \/ \E answered \in SUBSET Ids, busy \in BOOLEAN : Memory(answered, busy)
  \/ RetireOne \/ RetireDone
  \/ ExecOne \/ ExecDone
  \/ DecodeOne \/ \E n \in 0 .. FetchWidth : DecodeDone(n)
  \/ \E op \in parm.program, m, t \in BOOLEAN : FetchOne(op, m, t)
  \/ FetchDone
  \/ \E n \in 0 .. MaxSkip : NextSample(n)
  \/ Finished

(* The caches work: again and again a cycle finds the dcache idle with     *)
(* every request answered, and one finds the icache's block returned.      *)
DcacheServes == Memory(outstanding \cup {i \in Range(dcache_request) : ~dcache_busy
                                        /\ ~(IsStore(i) \/ IsDirective(i))}, FALSE)
Fairness ==
  /\ WF_vars(Next)
  /\ SF_vars(DcacheServes)
  /\ SF_vars(DecodeDone(FetchWidth))

Spec == Init /\ [][Next]_vars /\ Fairness

-----------------------------------------------------------------------------
(* The instructions in the processor, oldest first.                        *)
InFetch ==
  LET f[s \in 0 .. NumFetchStages] == IF s = 0 THEN << >> ELSE fetch_stage[s] \o f[s - 1]
  IN f[NumFetchStages]

InOrder == reorder_queue \o decode_queue \o InFetch

(* S_punt is never reached: no wrong path instruction retires, none of the *)
(* trace is squashed, no Sint is freed while it is in a queue, and the     *)
(* trace is read for the pc that is fetched.                               *)
PipelineNeverPunts == punt = "none"

(* Where the unsquashed writers of r are in the reorder buffer.             *)
Writers(r) ==
  {k \in DOMAIN reorder_queue : /\ r \in sint[reorder_queue[k]].op.dests
                                /\ ~sint[reorder_queue[k]].squashed}

(* The scoreboard agrees with the reorder buffer, through renaming,        *)
(* squashing and repair: a register's tag is an unsquashed writer with     *)
(* none but delayed stores behind it, whose value is not available before  *)
(* its time and is once the writer is done; without a tag the value is     *)
(* available and none but delayed stores will write it.                    *)
ScoreboardIsExact ==
  \A r \in Regs :
    LET t == rf[r].tag
    IN IF t = NULL
       THEN rf[r].value_avail /\ \A k \in Writers(r) : IsStore(reorder_queue[k])
       ELSE /\ \E k \in Writers(r) :
                 /\ reorder_queue[k] = t
                 /\ \A n \in Writers(r) : n > k => IsStore(reorder_queue[n])
            /\ rf[r].value_avail => sint[t].wait[r] = 0
            /\ sint[t].completed => rf[r].value_avail

(* Off the correct path there is one unresolved mispredicted branch to     *)
(* blame, with the trace before it and the wrong path behind it; on the    *)
(* correct path no unsquashed wrong path instruction is left, and fetch    *)
(* is where the trace is.                                                  *)
WrongPathStartsAtItsBranch ==
  LET q == InOrder
      Unsquashed == {k \in DOMAIN q : ~sint[q[k]].squashed}
  IN IF proc.on_correct_path
     THEN /\ \A k \in Unsquashed : ~sint[q[k]].off_path
          /\ proc.ifetch_pc = proc.on_path_pc
     ELSE \E n \in Unsquashed :
            /\ sint[q[n]].mispredicted /\ ~sint[q[n]].completed
            /\ \A k \in Unsquashed : sint[q[k]].off_path <=> k > n

(* Every trace record taken is in the pipeline once or done, never both,   *)
(* and those in the pipeline are in trace order: nothing is lost to a      *)
(* squash, simulated twice after a repair, or retired out of order.        *)
TraceIsConserved ==
  LET q == InOrder
      OnPath == {k \in DOMAIN q : ~sint[q[k]].off_path}
  IN /\ \A m, n \in OnPath : m < n => sint[q[m]].position < sint[q[n]].position
     /\ {sint[q[n]].position : n \in OnPath} = (1 .. traced) \ finished

(* When a load is done the dcache has forgotten it: retiring it frees a    *)
(* Sint that only processor queues can still hold.                         *)
CompletedRequestsHaveReturned ==
  \A i \in Live : sint[i].completed /\ ~IsStore(i) =>
    i \notin outstanding \cup Range(dcache_request)

(* A sample that has ended leaves no instruction behind and no register    *)
(* waiting, so the next one starts on a clean machine.                     *)
SampleEndsClean ==
  phase = "halted" =>
    /\ finished = 1 .. traced
    /\ \A i \in Live : i \in Range(dcache_request)
    /\ \A r \in Regs : rf[r].value_avail

(* Every simulation comes to the end of its trace: no instruction waits    *)
(* for ever on a register, a port or a store.                              *)
TraceIsSimulated == <>(phase = "halted" /\ traced = TraceLength)

(* The comment at the tagging of destinations: stores that do not wait for *)
(* retirement do not return, so no register waits for one.                 *)
NoRegisterWaitsForAStore ==
  ~parm.delay_stores =>
    \A r \in Regs : rf[r].value_avail \/ (rf[r].tag \in Live /\ ~IsStore(rf[r].tag))
=============================================================================
