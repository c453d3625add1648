----------------------------- MODULE TracePipe -----------------------------
(***************************************************************************)
(* How the simulator gets its trace: S_init_trace_fd (s_main.c) starts the *)
(* instrumented program, the two meet at a named pipe each of them tries   *)
(* to create and to remove, and the program's library (_TR_DUMP_TRACE,     *)
(* impact_lemul_lib.c) sends the words its probes put into a buffer.  The  *)
(* simulator reads them in blocks (S_get_trace_block, s_trace.c).          *)
(*                                                                         *)
(* Two processes, a file system with the fifo and a link to it, and the    *)
(* pipe.  The program may fork, exit or, at any time, crash; the simulator *)
(* may stop early, or time out before the pipe is open.  A word is an      *)
(* integer: probes send 1, 2, 3...                                         *)
(***************************************************************************)
EXTENDS Integers, SequencesExt

CONSTANTS MaxWords,           \* words the program traces (bound)
          MaxBlock,           \* words traced between two checks of the buffer
          BUF_MARK, BUF_SIZE, \* the trace buffer: when to flush, and its size
          PipeSize,           \* words a pipe holds
          TRACE_BLOCK_SIZE    \* words read at once

ASSUME TracePipeAssumption ==
  /\ MaxWords \in Nat /\ MaxBlock \in Nat \ {0}
  /\ BUF_MARK \in Nat /\ BUF_SIZE \in Nat /\ BUF_MARK + MaxBlock <= BUF_SIZE
  /\ PipeSize \in Nat /\ PipeSize >= 3
  /\ TRACE_BLOCK_SIZE \in Nat \ {0}

VARIABLES fifo, link,   \* the names: number of the fifo (0 none), link there?
          sim, why,     \* simulator: next call, and why it punted
          prog, flags,  \* program: next call, and what its probes trace
          reversed,     \* is its machine of the other byte order?
          finishing,    \* program is in its exit handler
          child,        \* a forked child that inherits the pipe
          ino,          \* fifo each process has open or is opening, 0 for none
          met,          \* both have come to the same fifo
          pipe,         \* words in the pipe
          buf, traced,  \* trace buffer, number of words traced so far
          block,        \* words of the trace block not yet used
          received      \* trace words the simulator used (history)

names == <<fifo, link, ino, met>>
simVars == <<sim, why, block, received>>
progVars == <<prog, flags, reversed, finishing, child, buf, traced>>
vars == <<names, simVars, progVars, pipe>>

FORMAT3 == -1
FLAGS == -2
OTHER_FLAGS == -6
SAMPLE_START == -3
SAMPLE_END == -4
END == -5

SWAP_BYTES(w) == IF w < 100 THEN w + 200 ELSE w - 200
AsSent(s) == [i \in DOMAIN s |-> IF reversed THEN SWAP_BYTES(s[i]) ELSE s[i]]

Init ==
  /\ fifo = 0 /\ link = FALSE /\ ino = [sim |-> 0, prog |-> 0] /\ met = FALSE
  /\ sim = "mknod" /\ why = "no" /\ block = << >> /\ received = << >>
  /\ prog = "run" /\ flags \in {FLAGS, OTHER_FLAGS} /\ reversed \in BOOLEAN
  /\ finishing = FALSE /\ child = "none" /\ buf = << >> /\ traced = 0
  /\ pipe = << >>

(* mknod and symlink succeed whether or not the name exists already.  A    *)
(* new fifo is none that a process has open.                               *)
Mknod ==
  /\ fifo' = IF fifo = 0 THEN ino.sim + ino.prog + 1 ELSE fifo
  /\ UNCHANGED <<link, ino, met>>
Symlink == link' = TRUE /\ UNCHANGED <<fifo, ino, met>>

(* A process comes to the fifo: both opens return once the other is there. *)
Arrive(p, q) ==
  /\ ino' = [ino EXCEPT ![p] = fifo]
  /\ met' = (met \/ ino[q] = fifo)
  /\ UNCHANGED <<fifo, link>>

Leave(p) == ino' = [ino EXCEPT ![p] = 0] /\ UNCHANGED <<fifo, link, met>>

(* S_punt closes the trace and exits.                                      *)
Punt(reason) == sim' = "punt" /\ why' = reason /\ Leave("sim")
-----------------------------------------------------------------------------
(* Mutant: a fifo that is there already is replaced.                       *)
SimMknod_Fresh ==
  /\ sim = "mknod" /\ sim' = "symlink"
  /\ fifo' = fifo + 1
  /\ UNCHANGED <<link, ino, met, why, block, received, progVars, pipe>>

(* The simulator: S_init_trace_fd.                                         *)
SimMknod ==
  /\ sim = "mknod" /\ sim' = "symlink" /\ Mknod
  /\ UNCHANGED <<why, block, received, progVars, pipe>>

SimSymlink ==
  /\ sim = "symlink" /\ sim' = "open" /\ Symlink
  /\ UNCHANGED <<why, block, received, progVars, pipe>>

SimOpen ==
  /\ sim = "open"
  /\ IF link /\ fifo # 0 THEN Arrive("sim", "prog") /\ sim' = "opening" /\ UNCHANGED why
     ELSE Punt("Unable to open fifo")
  /\ UNCHANGED <<block, received, progVars, pipe>>

SimOpened ==
  /\ sim = "opening" /\ met /\ sim' = "unlink link"
  /\ UNCHANGED <<names, why, block, received, progVars, pipe>>

(* S_trace_time_out: the alarm goes off before the open has returned.      *)
SimTimeOut ==
  /\ sim \in {"mknod", "symlink", "open", "opening"}
  /\ Punt("TIMEOUT")
  /\ UNCHANGED <<block, received, progVars, pipe>>

SimUnlinkLink ==
  /\ sim = "unlink link" /\ sim' = "unlink fifo" /\ link' = FALSE
  /\ UNCHANGED <<fifo, ino, met, why, block, received, progVars, pipe>>

SimUnlinkFifo ==
  /\ sim = "unlink fifo" /\ sim' = "format" /\ fifo' = 0
  /\ UNCHANGED <<link, ino, met, why, block, received, progVars, pipe>>

EndOfFile == pipe = << >> /\ ino.prog = 0 /\ child # "holds"

(* read_trace of the three words before the trace.  A first word that is   *)
(* not FORMAT3 is compared byte-swapped, but what is compared is an array  *)
(* never assigned; and the switch that follows uses the word as it came,   *)
(* which is no format.                                                     *)
SimFormat ==
  /\ sim = "format" /\ pipe # << >> /\ pipe' = Tail(pipe)
  /\ \/ Head(pipe) = FORMAT3 /\ sim' = "flags" /\ UNCHANGED <<why, names>>
     \/ Head(pipe) # FORMAT3 /\ \/ Punt("Trace corrupt")
                                \/ Punt("Unknown trace format")
  /\ UNCHANGED <<block, received, progVars>>

(* The flags have to be those the simulator needs, and the sample to start. *)
SimHeader(at, word, next, complaint) ==
  /\ sim = at /\ pipe # << >> /\ pipe' = Tail(pipe)
  /\ IF Head(pipe) = word THEN sim' = next /\ UNCHANGED <<why, names>>
     ELSE Punt(complaint)
  /\ UNCHANGED <<block, received, progVars>>

SimHeaderCut ==
  /\ sim \in {"format", "flags", "sample"} /\ EndOfFile
  /\ Punt("Error during first read of trace")
  /\ UNCHANGED <<block, received, progVars, pipe>>

(* S_get_trace_block: a read returns what there is, at least a word.       *)
SimReadBlock ==
  /\ sim \in {"run", "ending"} /\ block = << >> /\ pipe # << >>
  /\ \E n \in 1 .. TRACE_BLOCK_SIZE :
       /\ n <= Len(pipe)
       /\ block' = SubSeq(pipe, 1, n)
       /\ pipe' = SubSeq(pipe, n + 1, Len(pipe))
  /\ UNCHANGED <<sim, why, received, progVars, names>>

SimPastEnd ==
  /\ sim \in {"run", "ending"} /\ block = << >> /\ EndOfFile
  /\ Punt("Read past end of trace")
  /\ UNCHANGED <<block, received, progVars, pipe>>

(* S_get_trace_word.  S_start_first_fn_trace takes the first word, which   *)
(* must not be the end of the sample already; later that leads to          *)
(* S_trace_exit_point.                                                     *)
SimGetWord ==
  /\ sim = "run" /\ block # << >> /\ block' = Tail(block)
  /\ \/ /\ Head(block) # SAMPLE_END /\ received' = Append(received, Head(block))
        /\ UNCHANGED <<sim, why, names>>
     \/ /\ Head(block) = SAMPLE_END /\ received = << >>
        /\ Punt("Empty trace") /\ UNCHANGED received
     \/ /\ Head(block) = SAMPLE_END /\ received # << >>
        /\ sim' = "ending" /\ UNCHANGED <<why, names, received>>
  /\ UNCHANGED <<progVars, pipe>>

SimExitPoint ==
  /\ sim = "ending" /\ block # << >> /\ block' = Tail(block)
  /\ IF Head(block) = END THEN sim' = "close" /\ UNCHANGED <<why, names>>
     ELSE Punt("Expecting L_TRACE_END")
  /\ UNCHANGED <<received, progVars, pipe>>

(* max_sample_count is reached, or a stop_sim marker.                      *)
SimStopsEarly ==
  /\ sim = "run" /\ received # << >> /\ sim' = "close"
  /\ UNCHANGED <<names, why, block, received, progVars, pipe>>

(* Mutant: the pipe stays open while the simulator waits for the program.  *)
SimClose_KeepsOpen ==
  /\ sim = "close" /\ sim' = "waitpid"
  /\ UNCHANGED <<names, why, block, received, progVars, pipe>>

SimClose ==
  /\ sim = "close" /\ sim' = "waitpid" /\ Leave("sim")
  /\ UNCHANGED <<why, block, received, progVars, pipe>>

Ended == {"exited", "crashed", "killed", "failed"}

SimWait ==
  /\ sim = "waitpid" /\ prog \in Ended /\ sim' = "exit"
  /\ UNCHANGED <<names, why, block, received, progVars, pipe>>
-----------------------------------------------------------------------------
(* The program: probes put words into the buffer, which is flushed at the  *)
(* next check when it is beyond its mark.                                  *)
Trace ==
  /\ prog = "run" /\ Len(buf) <= BUF_MARK
  /\ \E k \in 1 .. MaxBlock :
       /\ traced + k <= MaxWords /\ traced' = traced + k
       /\ buf' = buf \o [i \in 1 .. k |-> traced + i]
  /\ UNCHANGED <<prog, flags, reversed, finishing, child, names, simVars, pipe>>

(* _TR_DUMP_TRACE opens the pipe the first time.                           *)
Dump == prog' = IF ino.prog = 0 THEN "mknod" ELSE "write"

Flush ==
  /\ prog = "run" /\ Len(buf) > BUF_MARK /\ Dump
  /\ UNCHANGED <<flags, reversed, finishing, child, buf, traced, names, simVars, pipe>>

(* exit, which calls _TR_TRACE_FINISHED.                                   *)
Exit ==
  /\ prog = "run" /\ finishing' = TRUE /\ Dump
  /\ UNCHANGED <<flags, reversed, child, buf, traced, names, simVars, pipe>>

(* A signal kills the program, in its own code or in the library.          *)
Crash ==
  /\ prog \notin Ended /\ prog' = "crashed" /\ Leave("prog")
  /\ UNCHANGED <<flags, reversed, finishing, child, buf, traced, simVars, pipe>>

(* A forked child keeps the pipe open but traces nothing (_TR_IN_PARENT).  *)
Fork ==
  /\ prog = "run" /\ child = "none" /\ ino.prog # 0 /\ child' = "holds"
  /\ UNCHANGED <<prog, flags, reversed, finishing, buf, traced, names, simVars, pipe>>

ChildExits ==
  /\ child = "holds" /\ child' = "gone"
  /\ UNCHANGED <<prog, flags, reversed, finishing, buf, traced, names, simVars, pipe>>

ProgMknod ==
  /\ prog = "mknod" /\ prog' = "symlink" /\ Mknod
  /\ UNCHANGED <<flags, reversed, finishing, child, buf, traced, simVars, pipe>>

ProgSymlink ==
  /\ prog = "symlink" /\ prog' = "open" /\ Symlink
  /\ UNCHANGED <<flags, reversed, finishing, child, buf, traced, simVars, pipe>>

ProgOpen ==
  /\ prog = "open"
  /\ IF fifo # 0 THEN Arrive("prog", "sim") /\ prog' = "opening"
     ELSE prog' = "failed" /\ UNCHANGED names
  /\ UNCHANGED <<flags, reversed, finishing, child, buf, traced, simVars, pipe>>

ProgOpened ==
  /\ prog = "opening" /\ met /\ prog' = "unlink fifo"
  /\ UNCHANGED <<flags, reversed, finishing, child, buf, traced, names, simVars, pipe>>

ProgUnlinkFifo ==
  /\ prog = "unlink fifo" /\ prog' = "unlink link" /\ fifo' = 0
  /\ UNCHANGED <<flags, reversed, finishing, child, buf, traced, link, ino, met,
                 simVars, pipe>>

ProgUnlinkLink ==
  /\ prog = "unlink link" /\ prog' = "header" /\ link' = FALSE
  /\ UNCHANGED <<flags, reversed, finishing, child, buf, traced, fifo, ino, met,
                 simVars, pipe>>

(* A write waits for room; with nobody left to read it kills the program.  *)
Write(words) ==
  /\ ino.sim # 0 /\ Len(pipe) + Len(words) <= PipeSize
  /\ pipe' = pipe \o AsSent(words)

ProgKilled ==
  /\ prog \in {"header", "write", "trailer"} /\ ino.sim = 0
  /\ prog # "write" \/ buf # << >>
  /\ prog' = "killed" /\ Leave("prog")
  /\ UNCHANGED <<flags, reversed, finishing, child, buf, traced, simVars, pipe>>

ProgHeader ==
  /\ prog = "header" /\ Write(<<FORMAT3, flags, SAMPLE_START>>) /\ prog' = "write"
  /\ UNCHANGED <<flags, reversed, finishing, child, buf, traced, names, simVars>>

(* Mutant: a write that was only begun counts as done.                     *)
ProgWrite_Partial ==
  /\ prog = "write" /\ buf # << >> /\ Write(<<Head(buf)>>)
  /\ buf' = << >>
  /\ UNCHANGED <<prog, flags, reversed, finishing, child, traced, names, simVars>>

(* The words of the buffer get into the pipe as there is room for them.    *)
ProgWrite ==
  /\ prog = "write" /\ buf # << >> /\ Write(<<Head(buf)>>)
  /\ buf' = Tail(buf)
  /\ UNCHANGED <<prog, flags, reversed, finishing, child, traced, names, simVars>>

ProgWritten ==
  /\ prog = "write" /\ buf = << >>
  /\ prog' = IF finishing THEN "trailer" ELSE "run"
  /\ UNCHANGED <<flags, reversed, finishing, child, buf, traced, names, simVars, pipe>>

(* Mutant: the end of the trace is not marked.                             *)
ProgTrailer_NoEnd ==
  /\ prog = "trailer" /\ Write(<<SAMPLE_END>>)
  /\ prog' = "exited" /\ Leave("prog")
  /\ UNCHANGED <<flags, reversed, finishing, child, buf, traced, simVars>>

ProgTrailer ==
  /\ prog = "trailer" /\ Write(<<SAMPLE_END, END>>)
  /\ prog' = "exited" /\ Leave("prog")
  /\ UNCHANGED <<flags, reversed, finishing, child, buf, traced, simVars>>
-----------------------------------------------------------------------------
SimNext ==
  \/ SimMknod \/ SimSymlink \/ SimOpen \/ SimOpened
  \/ SimUnlinkLink \/ SimUnlinkFifo
  \/ SimFormat \/ SimHeader("flags", FLAGS, "sample", "Unexpected trace flags")
  \/ SimHeader("sample", SAMPLE_START, "run", "Trace corrupt") \/ SimHeaderCut
  \/ SimReadBlock \/ SimPastEnd \/ SimGetWord \/ SimExitPoint
  \/ SimClose \/ SimWait

(* What the program does by itself; when it ends is its own business, but  *)
(* it does end.                                                            *)
ProgNext ==
  \/ Trace \/ Flush \/ Exit
  \/ ProgMknod \/ ProgSymlink \/ ProgOpen \/ ProgOpened
  \/ ProgUnlinkFifo \/ ProgUnlinkLink
  \/ ProgHeader \/ ProgWrite \/ ProgWritten \/ ProgTrailer \/ ProgKilled

Next ==
  \/ SimNext \/ SimTimeOut \/ SimStopsEarly
  \/ ProgNext \/ Crash \/ Fork \/ ChildExits

Spec == Init /\ [][Next]_vars

(* Both processes and the child are scheduled, the alarm goes off.         *)
FairSpec ==
  /\ Spec
  /\ WF_vars(SimNext) /\ WF_vars(SimTimeOut)
  /\ WF_vars(ProgNext) /\ WF_vars(ChildExits)
-----------------------------------------------------------------------------
(* The two find each other: no open finds the name gone, and they never    *)
(* wait at two different fifos, although each creates the names if it      *)
(* comes first and removes them when its open has returned.                *)
RendezvousSucceeds ==
  /\ why # "Unable to open fifo" /\ prog # "failed"
  /\ ino.sim # 0 /\ ino.prog # 0 => ino.sim = ino.prog

(* The simulator sees the words the probes produced, in order and without  *)
(* a gap, however they were cut into flushes, writes and blocks.           *)
TraceArrivesInOrder ==
  received = [i \in 1 .. Len(received) |-> i] /\ Len(received) <= traced

(* Every complaint has its cause: a trace that is cut means a crash, since *)
(* the end marks arrive before the end of file does; one called empty is   *)
(* of a program that ran to its end and traced nothing; wrong flags were   *)
(* sent; and only words of the other byte order look corrupt.  (All those  *)
(* do, though the code means to accept them.)                              *)
EveryComplaintHasItsCause ==
  /\ why \in {"Error during first read of trace", "Read past end of trace",
              "Expecting L_TRACE_END"} => prog = "crashed"
  /\ why = "Empty trace" => prog = "exited" /\ traced = 0
  /\ why = "Unexpected trace flags" => flags # FLAGS
  /\ why \in {"Trace corrupt", "Unknown trace format"} => reversed

(* The simulator ends, even if the program never comes, crashes, or is     *)
(* blocked writing words nobody will read.                                 *)
SimulationEnds == <>(sim \in {"exit", "punt"})

(* A program that has been connected is not left hanging, whatever the     *)
(* simulator does.                                                         *)
ProgramIsReleased == met ~> prog \in Ended
=============================================================================
