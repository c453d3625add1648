-------------------------- MODULE TracePipe_proofs --------------------------
(***************************************************************************)
(* The simulator and the program meet at one fifo, and the trace arrives   *)
(* unbroken: for every trace length, buffer, pipe and block size, and      *)
(* whatever crashes, forks, time-outs and early stops happen.              *)
(***************************************************************************)
EXTENDS TracePipe, SequenceTheorems, TLAPS

Waiting == {"mknod", "symlink", "open", "opening"}
Unlinking == {"unlink link", "unlink fifo"}
InHeader == {"format", "flags", "sample"}
InTrace == {"run", "ending"}

(* The type invariant: the names, where the processes are, the words.      *)
NamesTypeOK ==
  /\ fifo \in Nat /\ link \in BOOLEAN /\ met \in BOOLEAN
  /\ ino \in [sim : Nat, prog : Nat]

PlacesTypeOK ==
  /\ sim \in Waiting \cup Unlinking \cup InHeader \cup InTrace
               \cup {"close", "waitpid", "exit", "punt"}
  /\ prog \in Waiting \cup Unlinking \cup {"run", "header", "write", "trailer"} \cup Ended

WordsTypeOK ==
  /\ pipe \in Seq(Int) /\ block \in Seq(Int) /\ buf \in Seq(Int)
  /\ received \in Seq(Int) /\ traced \in Nat /\ flags \in Int /\ reversed \in BOOLEAN

PipeTypeOK == NamesTypeOK /\ PlacesTypeOK /\ WordsTypeOK

(* Before the two have met, nobody removes the names and a process that    *)
(* waits does so at the fifo that is there.                                *)
NotMet ==
  /\ sim \in Waiting \cup {"punt"}
  /\ prog \in Waiting \cup {"run", "crashed"}
  /\ ino.sim \in {0, fifo} /\ ino.prog \in {0, fifo}
  /\ ino.sim = 0 \/ ino.prog = 0
  /\ prog # "opening" => ino.prog = 0
  /\ sim \in {"symlink", "open", "opening"} => fifo # 0
  /\ prog \in {"symlink", "open", "opening"} => fifo # 0
  /\ sim = "open" => link

(* Once they have, neither comes back to create them.                      *)
Met ==
  /\ sim \notin {"mknod", "symlink", "open"}
  /\ prog \notin {"mknod", "symlink", "open", "failed"}
  /\ prog \notin Ended => ino.prog # 0
  /\ ino.sim # 0 /\ ino.prog # 0 => ino.sim = ino.prog
  /\ prog = "killed" => ino.sim = 0

Rendezvous ==
  /\ IF met THEN Met ELSE NotMet
  /\ sim \in {"mknod", "symlink", "open", "waitpid", "exit", "punt"} => ino.sim = 0
  /\ sim \in {"opening", "close"} \cup Unlinking \cup InHeader \cup InTrace => ino.sim # 0
  /\ why # "Unable to open fifo"

(* The k-th word the program sends, and how many the simulator has used.   *)
Word(k) ==
  IF k = 2 THEN flags ELSE IF k <= 3 THEN -k
  ELSE IF k <= traced + 3 THEN k - 3 ELSE traced - k
AsWritten(w) == IF reversed THEN SWAP_BYTES(w) ELSE w

Used ==
  IF sim = "flags" THEN 1 ELSE IF sim = "sample" THEN 2
  ELSE IF sim = "run" THEN 3 + Len(received)
  ELSE IF sim = "ending" THEN 4 + Len(received) ELSE 0

Sent == Used + Len(block) + Len(pipe)

(* The words on their way continue the stream where the simulator is ...   *)
WordsInOrder ==
  /\ \A i \in 1 .. Len(block) : block[i] = AsWritten(Word(Used + i))
  /\ \A i \in 1 .. Len(pipe) : pipe[i] = AsWritten(Word(Used + Len(block) + i))

(* ... and end where the program is; the end marks are only there if it    *)
(* left through its exit handler.                                          *)
SentSoFar ==
  /\ prog \in Waiting \cup Unlinking \cup {"header"} => Sent = 0 /\ Len(buf) = traced
  /\ prog = "run" /\ ~ met => Sent = 0 /\ Len(buf) = traced
  /\ prog \in {"write", "trailer"} => Sent = traced + 3 - Len(buf)
  /\ prog = "run" /\ met => Sent = traced + 3 - Len(buf)
  /\ prog = "trailer" => buf = << >>
  /\ prog = "exited" => Sent = traced + 5
  /\ prog \in {"crashed", "killed"} => Sent <= traced + 3

Reading == sim \in Waiting \cup Unlinking \cup InHeader \cup InTrace

StreamInOrder == Reading => WordsInOrder /\ SentSoFar

(* The buffer holds the last words traced.                                 *)
BufferInOrder ==
  /\ Len(buf) <= traced
  /\ \A i \in 1 .. Len(buf) : buf[i] = traced - Len(buf) + i

ReceivedInOrder ==
  /\ Len(received) <= traced
  /\ \A i \in 1 .. Len(received) : received[i] = i
  /\ sim \in Waiting \cup Unlinking \cup InHeader => block = << >> /\ received = << >>
  /\ sim = "ending" => Len(received) = traced

(* A trace of the other byte order is given up at its first word.          *)
Complaints ==
  /\ reversed => sim \notin {"flags", "sample", "close", "waitpid", "exit"} \cup InTrace
  /\ EveryComplaintHasItsCause

Stream == StreamInOrder /\ BufferInOrder /\ ReceivedInOrder /\ Complaints

IInv == PipeTypeOK /\ Rendezvous /\ Stream

-----------------------------------------------------------------------------
(* What goes into the pipe is the words written, each as the other machine *)
(* sees it.                                                                *)
LEMMA AsSentFacts ==
  ASSUME NEW s \in Seq(Int)
  PROVE  /\ AsSent(s) \in Seq(Int) /\ Len(AsSent(s)) = Len(s)
         /\ \A i \in 1 .. Len(s) : AsSent(s)[i] = AsWritten(s[i])
<1>1. DOMAIN s = 1 .. Len(s) /\ Len(s) \in Nat /\ \A i \in 1 .. Len(s) : s[i] \in Int
  OBVIOUS
<1>2. \A i \in 1 .. Len(s) : AsWritten(s[i]) \in Int
  BY <1>1 DEF AsWritten, SWAP_BYTES
<1>3. AsSent(s) = [i \in 1 .. Len(s) |-> AsWritten(s[i])]
  BY <1>1 DEF AsSent, AsWritten
<1> QED
  BY <1>1, <1>2, <1>3

(* The words of a block of probes.                                         *)
LEMMA TracedWords ==
  ASSUME NEW n \in Nat, NEW k \in Nat
  PROVE  LET w == [i \in 1 .. k |-> n + i]
         IN w \in Seq(Int) /\ Len(w) = k /\ \A i \in 1 .. k : w[i] = n + i
OBVIOUS

(* The invariant holds at the start. *)
LEMMA InitIInv == Init => IInv
<1> SUFFICES ASSUME Init PROVE IInv
  OBVIOUS
<1>1. PipeTypeOK
  <2>1. link \in BOOLEAN /\ met \in BOOLEAN
    BY DEF Init
  <2>2. ino \in [sim : Nat, prog : Nat]
    BY DEF Init
  <2> QED
    BY <2>1, <2>2 DEF Init, PipeTypeOK, NamesTypeOK, PlacesTypeOK, WordsTypeOK, Waiting,
                        FLAGS, OTHER_FLAGS
<1>2. Rendezvous
  BY DEF Init, Rendezvous, NotMet, Waiting, Unlinking, InHeader, InTrace
<1>3. Stream
  BY DEF Init, Stream, StreamInOrder, BufferInOrder, ReceivedInOrder, Complaints,
         WordsInOrder, SentSoFar, Sent, Used, Waiting, Unlinking, InHeader, InTrace,
         EveryComplaintHasItsCause
<1> QED
  BY <1>1, <1>2, <1>3 DEF IInv

-----------------------------------------------------------------------------
(* What the actions do, for the three parts of the type invariant.         *)
LEMMA NamesNext == ASSUME NamesTypeOK, [Next]_vars PROVE NamesTypeOK'
<1>1. CASE Mknod
  BY <1>1 DEF NamesTypeOK, Mknod
<1>2. CASE Symlink
  BY <1>2 DEF NamesTypeOK, Symlink
<1>3. CASE Arrive("sim", "prog") \/ Arrive("prog", "sim")
  <2>1. met' \in BOOLEAN /\ link' \in BOOLEAN /\ fifo' \in Nat
    BY <1>3 DEF NamesTypeOK, Arrive
  <2>2. ino' \in [sim : Nat, prog : Nat]
    BY <1>3 DEF NamesTypeOK, Arrive
  <2> QED
    BY <2>1, <2>2 DEF NamesTypeOK
<1>4. CASE Leave("sim") \/ Leave("prog")
  <2>1. ino' \in [sim : Nat, prog : Nat]
    BY <1>4 DEF NamesTypeOK, Leave
  <2> QED
    BY <1>4, <2>1 DEF NamesTypeOK, Leave
<1>5. CASE SimUnlinkLink \/ SimUnlinkFifo \/ ProgUnlinkFifo \/ ProgUnlinkLink
  <2>1. /\ link' = FALSE \/ link' = link
        /\ fifo' = 0 \/ fifo' = fifo
        /\ ino' = ino /\ met' = met
    BY <1>5 DEF SimUnlinkLink, SimUnlinkFifo, ProgUnlinkFifo, ProgUnlinkLink
  <2>2. link' \in BOOLEAN
    BY <2>1 DEF NamesTypeOK
  <2> QED
    BY <2>1, <2>2 DEF NamesTypeOK
<1>6. CASE UNCHANGED names
  BY <1>6 DEF NamesTypeOK, names
<1> QED
  BY <1>1, <1>2, <1>3, <1>4, <1>5, <1>6
  DEF Next, SimNext, ProgNext, SimMknod, SimSymlink, SimOpen, SimOpened, SimTimeOut,
      SimFormat, SimHeader, SimHeaderCut, SimReadBlock, SimPastEnd, SimGetWord,
      SimExitPoint, SimStopsEarly, SimClose, SimWait, Punt, Trace, Flush, Exit, Crash,
      Fork, ChildExits, ProgMknod, ProgSymlink, ProgOpen, ProgOpened, ProgKilled,
      ProgHeader, ProgWrite, ProgWritten, ProgTrailer, vars

(* Every step keeps the places the two programs are at. *)
LEMMA PlacesNext == ASSUME PlacesTypeOK, [Next]_vars PROVE PlacesTypeOK'
<1> USE DEF Waiting, Unlinking, InHeader, InTrace, Ended
<1>1. CASE SimNext \/ SimTimeOut \/ SimStopsEarly
  <2>1. prog' = prog
    BY <1>1
    DEF SimNext, SimMknod, SimSymlink, SimOpen, SimOpened, SimUnlinkLink, SimUnlinkFifo,
        SimTimeOut, SimFormat, SimHeader, SimHeaderCut, SimReadBlock, SimPastEnd,
        SimGetWord, SimExitPoint, SimStopsEarly, SimClose, SimWait, progVars
  <2> QED
    BY <1>1, <2>1
    DEF PlacesTypeOK, SimNext, SimMknod, SimSymlink, SimOpen, SimOpened, SimUnlinkLink,
        SimUnlinkFifo, SimTimeOut, SimFormat, SimHeader, SimHeaderCut, SimReadBlock,
        SimPastEnd, SimGetWord, SimExitPoint, SimStopsEarly, SimClose, SimWait, Punt
<1>2. CASE ProgNext \/ Crash \/ Fork \/ ChildExits
  <2>1. sim' = sim
    BY <1>2
    DEF ProgNext, Trace, Flush, Exit, Crash, Fork, ChildExits, ProgMknod, ProgSymlink,
        ProgOpen, ProgOpened, ProgUnlinkFifo, ProgUnlinkLink, ProgKilled, ProgHeader,
        ProgWrite, ProgWritten, ProgTrailer, simVars
  <2> QED
    BY <1>2, <2>1
    DEF PlacesTypeOK, ProgNext, Trace, Flush, Exit, Crash, Fork, ChildExits, ProgMknod,
        ProgSymlink, ProgOpen, ProgOpened, ProgUnlinkFifo, ProgUnlinkLink, ProgKilled,
        ProgHeader, ProgWrite, ProgWritten, ProgTrailer, Dump
<1>3. CASE UNCHANGED vars
  BY <1>3 DEF PlacesTypeOK, vars, simVars, progVars
<1> QED
  BY <1>1, <1>2, <1>3 DEF Next
(* Where the words of a concatenation come from.                           *)
LEMMA ConcatFacts ==
  ASSUME NEW s \in Seq(Int), NEW t \in Seq(Int)
  PROVE  /\ s \o t \in Seq(Int) /\ Len(s \o t) = Len(s) + Len(t)
         /\ \A i \in 1 .. Len(s) : (s \o t)[i] = s[i]
         /\ \A i \in 1 .. Len(t) : (s \o t)[Len(s) + i] = t[i]
OBVIOUS

(* The header, a word of the buffer, the trailer.                          *)
LEMMA WriteFacts ==
  ASSUME WordsTypeOK, NEW w \in Seq(Int), Write(w)
  PROVE  /\ pipe' \in Seq(Int) /\ Len(pipe') = Len(pipe) + Len(w)
         /\ \A i \in 1 .. Len(pipe) : pipe'[i] = pipe[i]
         /\ \A i \in 1 .. Len(w) : pipe'[Len(pipe) + i] = AsWritten(w[i])
<1> DEFINE a == AsSent(w)
<1>1. a \in Seq(Int) /\ Len(a) = Len(w) /\ \A i \in 1 .. Len(w) : a[i] = AsWritten(w[i])
  BY AsSentFacts
<1>2. pipe' = pipe \o a /\ pipe \in Seq(Int)
  BY DEF WordsTypeOK, Write
<1> HIDE DEF a
<1>3. /\ pipe' \in Seq(Int) /\ Len(pipe') = Len(pipe) + Len(a)
      /\ \A i \in 1 .. Len(pipe) : pipe'[i] = pipe[i]
      /\ \A i \in 1 .. Len(a) : pipe'[Len(pipe) + i] = a[i]
  BY <1>1, <1>2, ConcatFacts
<1> QED
  BY <1>1, <1>3

(* Every step keeps the types of what is in flight. *)
LEMMA WordsNext == ASSUME WordsTypeOK, [Next]_vars PROVE WordsTypeOK'
<1>1. CASE SimFormat \/ SimHeader("flags", FLAGS, "sample", "Unexpected trace flags")
             \/ SimHeader("sample", SAMPLE_START, "run", "Trace corrupt")
  <2>1. pipe # << >> /\ pipe' = Tail(pipe) /\ UNCHANGED <<block, received, buf, traced, flags, reversed>>
    BY <1>1 DEF SimFormat, SimHeader, progVars
  <2> QED
    BY <2>1 DEF WordsTypeOK
<1>2. CASE SimReadBlock
  <2>1. PICK n \in 1 .. TRACE_BLOCK_SIZE :
          /\ n <= Len(pipe)
          /\ block' = SubSeq(pipe, 1, n)
          /\ pipe' = SubSeq(pipe, n + 1, Len(pipe))
    BY <1>2 DEF SimReadBlock
  <2>2. block' \in Seq(Int) /\ pipe' \in Seq(Int)
    BY <2>1 DEF WordsTypeOK
  <2> QED
    BY <1>2, <2>2 DEF WordsTypeOK, SimReadBlock, progVars
<1>3. CASE SimGetWord
  <2>0. block # << >> /\ block \in Seq(Int)
    BY <1>3 DEF WordsTypeOK, SimGetWord
  <2>1. Head(block) \in Int /\ Tail(block) \in Seq(Int)
    BY <2>0
  <2>2. /\ received' = received \/ received' = Append(received, Head(block))
        /\ block' = Tail(block) /\ UNCHANGED <<pipe, buf, traced, flags, reversed>>
    <3>1. received' = received \/ received' = Append(received, Head(block))
      BY <1>3 DEF SimGetWord
    <3> QED
      BY <1>3, <3>1 DEF SimGetWord, progVars
  <2>3. received \in Seq(Int) /\ Append(received, Head(block)) \in Seq(Int)
    BY <2>1 DEF WordsTypeOK
  <2> QED
    BY <2>1, <2>2, <2>3 DEF WordsTypeOK
<1>4. CASE SimExitPoint
  <2>1. block # << >> /\ block' = Tail(block) /\ UNCHANGED <<pipe, received, buf, traced, flags, reversed>>
    BY <1>4 DEF SimExitPoint, progVars
  <2> QED
    BY <2>1 DEF WordsTypeOK
<1>5. CASE Trace
  <2>1. PICK k \in 1 .. MaxBlock :
          /\ traced' = traced + k
          /\ buf' = buf \o [i \in 1 .. k |-> traced + i]
    BY <1>5 DEF Trace
  <2> DEFINE w == [i \in 1 .. k |-> traced + i]
  <2>2. k \in Nat /\ traced \in Nat /\ buf \in Seq(Int)
    BY TracePipeAssumption DEF WordsTypeOK
  <2>3. w \in Seq(Int)
    BY <2>2, TracedWords
  <2>4. buf' = buf \o w
    BY <2>1
  <2> HIDE DEF w
  <2>5. traced' \in Nat /\ buf' \in Seq(Int)
    BY <2>1, <2>2, <2>3, <2>4
  <2> QED
    BY <1>5, <2>5 DEF Trace, WordsTypeOK, simVars
<1>6. CASE ProgHeader
  <2>1. <<FORMAT3, flags, SAMPLE_START>> \in Seq(Int)
    BY DEF FORMAT3, SAMPLE_START, WordsTypeOK
  <2>2. pipe' \in Seq(Int)
    BY <1>6, <2>1, WriteFacts DEF ProgHeader
  <2> QED
    BY <1>6, <2>2 DEF ProgHeader, WordsTypeOK, simVars
<1>7. CASE ProgWrite
  <2>1. <<Head(buf)>> \in Seq(Int) /\ Tail(buf) \in Seq(Int)
    BY <1>7 DEF ProgWrite, WordsTypeOK
  <2>2. pipe' \in Seq(Int)
    BY <1>7, <2>1, WriteFacts DEF ProgWrite
  <2> QED
    BY <1>7, <2>1, <2>2 DEF ProgWrite, WordsTypeOK, simVars
<1>8. CASE ProgTrailer
  <2>1. <<SAMPLE_END, END>> \in Seq(Int)
    BY DEF SAMPLE_END, END
  <2>2. pipe' \in Seq(Int)
    BY <1>8, <2>1, WriteFacts DEF ProgTrailer
  <2> QED
    BY <1>8, <2>2 DEF ProgTrailer, WordsTypeOK, simVars
<1>9. CASE UNCHANGED <<pipe, block, buf, received, traced, flags, reversed>>
  BY <1>9 DEF WordsTypeOK
<1> QED
  BY <1>1, <1>2, <1>3, <1>4, <1>5, <1>6, <1>7, <1>8, <1>9
  DEF Next, SimNext, ProgNext, SimMknod, SimSymlink, SimOpen, SimOpened, SimTimeOut,
      SimUnlinkLink, SimUnlinkFifo, SimHeaderCut, SimPastEnd, SimStopsEarly, SimClose,
      SimWait, Flush, Exit, Crash, Fork, ChildExits, ProgMknod, ProgSymlink, ProgOpen,
      ProgOpened, ProgUnlinkFifo, ProgUnlinkLink, ProgKilled, ProgWritten, vars,
      simVars, progVars

(* Every step keeps the types. *)
LEMMA TypeNext == ASSUME PipeTypeOK, [Next]_vars PROVE PipeTypeOK'
BY NamesNext, PlacesNext, WordsNext DEF PipeTypeOK
-----------------------------------------------------------------------------
(* Making the names again changes nothing while they are there; the fifo   *)
(* made by the one that comes first is the one both use.                   *)
LEMMA RendezvousNext ==
  ASSUME PipeTypeOK, Rendezvous, [Next]_vars
  PROVE  Rendezvous'
<1> USE DEF Waiting, Unlinking, InHeader, InTrace, Ended
<1>0. NamesTypeOK /\ PlacesTypeOK
  BY DEF PipeTypeOK
<1>1. CASE SimMknod
  <2>1. ~ met /\ NotMet
    BY <1>1 DEF SimMknod, Rendezvous, Met
  <2>2. fifo = 0 => ino.sim = 0 /\ ino.prog = 0
    BY <1>0, <2>1 DEF NotMet, NamesTypeOK
  <2>3. fifo' # 0 /\ (fifo # 0 => fifo' = fifo) /\ UNCHANGED <<link, ino, met>>
    BY <1>0, <1>1 DEF SimMknod, Mknod, NamesTypeOK
  <2>4. NotMet'
    BY <1>1, <2>1, <2>2, <2>3 DEF SimMknod, NotMet, progVars
  <2> QED
    BY <1>1, <2>1, <2>3, <2>4 DEF SimMknod, Rendezvous, progVars
<1>2. CASE SimSymlink
  <2>1. ~ met /\ NotMet
    BY <1>2 DEF SimSymlink, Rendezvous, Met
  <2> QED
    BY <1>0, <1>2, <2>1
    DEF NamesTypeOK, SimSymlink, Symlink, Rendezvous, NotMet, progVars
<1>3. CASE SimOpen
  <2>1. ~ met /\ NotMet
    BY <1>3 DEF SimOpen, Rendezvous, Met
  <2>2. Arrive("sim", "prog") /\ sim' = "opening" /\ why' = why /\ prog' = prog
    BY <1>3, <2>1 DEF SimOpen, NotMet, progVars
  <2>3. /\ ino'.sim = fifo /\ ino'.prog = ino.prog /\ fifo' = fifo
        /\ met' <=> ino.prog = fifo
    BY <1>0, <2>1, <2>2 DEF NamesTypeOK, Arrive
  <2> QED
    BY <1>0, <1>3, <2>1, <2>2, <2>3
    DEF NamesTypeOK, SimOpen, Rendezvous, NotMet, Met
<1>4. CASE ProgMknod
  <2>1. ~ met /\ NotMet
    BY <1>4 DEF ProgMknod, Rendezvous, Met
  <2>2. fifo = 0 => ino.sim = 0 /\ ino.prog = 0
    BY <1>0, <2>1 DEF NotMet, NamesTypeOK
  <2>3. fifo' # 0 /\ (fifo # 0 => fifo' = fifo) /\ UNCHANGED <<link, ino, met>>
    BY <1>0, <1>4 DEF ProgMknod, Mknod, NamesTypeOK
  <2>4. NotMet'
    BY <1>4, <2>1, <2>2, <2>3 DEF ProgMknod, NotMet, simVars
  <2> QED
    BY <1>4, <2>1, <2>3, <2>4 DEF ProgMknod, Rendezvous, simVars
<1>5. CASE ProgSymlink
  <2>1. ~ met /\ NotMet
    BY <1>5 DEF ProgSymlink, Rendezvous, Met
  <2> QED
    BY <1>0, <1>5, <2>1
    DEF NamesTypeOK, ProgSymlink, Symlink, Rendezvous, NotMet, simVars
<1>6. CASE ProgOpen
  <2>1. ~ met /\ NotMet
    BY <1>6 DEF ProgOpen, Rendezvous, Met
  <2>2. Arrive("prog", "sim") /\ prog' = "opening" /\ why' = why /\ sim' = sim
    BY <1>6, <2>1 DEF ProgOpen, NotMet, simVars
  <2>3. /\ ino'.prog = fifo /\ ino'.sim = ino.sim /\ fifo' = fifo
        /\ met' <=> ino.sim = fifo
    BY <1>0, <2>1, <2>2 DEF NamesTypeOK, Arrive
  <2> QED
    BY <1>0, <1>6, <2>1, <2>2, <2>3
    DEF NamesTypeOK, ProgOpen, Arrive, Rendezvous, NotMet, Met
<1>7. ASSUME sim' = "punt" \/ (sim = "close" /\ sim' = "waitpid"), Leave("sim"),
             prog' = prog, why' # "Unable to open fifo"
      PROVE  Rendezvous'
  <2>1. ino'.sim = 0 /\ ino'.prog = ino.prog /\ fifo' = fifo /\ link' = link /\ met' = met
    BY <1>0, <1>7 DEF NamesTypeOK, Leave
  <2> QED
    BY <1>7, <2>1 DEF Rendezvous, Met, NotMet
<1>8. ASSUME Leave("prog"), sim' = sim, why' = why,
             \/ prog \notin Ended /\ prog' = "crashed"
             \/ prog \in {"header", "write", "trailer"} /\ prog' = "exited"
             \/ prog \in {"header", "write", "trailer"} /\ prog' = "killed" /\ ino.sim = 0
      PROVE  Rendezvous'
  <2>1. ino'.prog = 0 /\ ino'.sim = ino.sim /\ fifo' = fifo /\ link' = link /\ met' = met
    BY <1>0, <1>8 DEF NamesTypeOK, Leave
  <2> QED
    BY <1>8, <2>1 DEF Rendezvous, Met, NotMet
<1>8a. ASSUME UNCHANGED <<ino, met, sim, why>>, met, prog \notin Ended,
              prog' \in Unlinking \cup {"run", "header", "write", "trailer"}
       PROVE  Rendezvous'
  BY <1>8a DEF Rendezvous, Met
<1>9. CASE SimOpened \/ SimUnlinkLink \/ SimUnlinkFifo
  <2>1. met /\ Met
    BY <1>9 DEF SimOpened, SimUnlinkLink, SimUnlinkFifo, Rendezvous, NotMet
  <2> QED
    BY <1>9, <2>1
    DEF SimOpened, SimUnlinkLink, SimUnlinkFifo, Rendezvous, Met, progVars, names
<1>10. CASE ProgOpened \/ ProgUnlinkFifo \/ ProgUnlinkLink
  <2>1. met /\ Met
    BY <1>10 DEF ProgOpened, ProgUnlinkFifo, ProgUnlinkLink, Rendezvous, NotMet
  <2> QED
    BY <1>8a, <1>10, <2>1 DEF ProgOpened, ProgUnlinkFifo, ProgUnlinkLink, simVars, names
<1>11. ASSUME UNCHANGED names, prog' = prog, why' = why,
              \/ sim' = sim
              \/ sim \in {"format", "flags", "sample"} /\ sim' \in {"flags", "sample", "run"}
              \/ sim \in InTrace /\ sim' \in {"ending", "close"}
              \/ sim = "waitpid" /\ sim' = "exit"
       PROVE  Rendezvous'
  BY <1>11 DEF Rendezvous, Met, NotMet, names
<1>12. CASE ProgHeader \/ ProgWrite \/ ProgWritten
  <2>1. met
    BY <1>12 DEF ProgHeader, ProgWrite, ProgWritten, Rendezvous, NotMet
  <2> QED
    BY <1>8a, <1>12, <2>1 DEF ProgHeader, ProgWrite, ProgWritten, simVars, names
<1>13. CASE Flush \/ Exit
  <2>1. prog = "run" /\ UNCHANGED <<fifo, link, ino, met, sim, why>>
        /\ prog' = IF ino.prog = 0 THEN "mknod" ELSE "write"
    BY <1>13 DEF Flush, Exit, Dump, simVars, names
  <2>2. CASE met
    BY <1>8a, <2>1, <2>2 DEF Rendezvous, Met
  <2>3. CASE ~ met
    BY <2>1, <2>3 DEF Rendezvous, NotMet
  <2> QED
    BY <2>2, <2>3
<1>14. CASE SimNext \/ SimTimeOut \/ SimStopsEarly
  BY <1>1, <1>2, <1>3, <1>7, <1>9, <1>11, <1>14
  DEF SimNext, SimTimeOut, SimFormat, SimHeader, SimHeaderCut, SimReadBlock, SimPastEnd,
      SimGetWord, SimExitPoint, SimStopsEarly, SimClose, SimWait, Punt, progVars, Rendezvous
<1>15. CASE ProgNext \/ Crash \/ Fork \/ ChildExits
  BY <1>4, <1>5, <1>6, <1>8, <1>10, <1>11, <1>12, <1>13, <1>15
  DEF ProgNext, Trace, Crash, Fork, ChildExits, ProgKilled, ProgTrailer, simVars
<1>16. CASE UNCHANGED vars
  BY <1>11, <1>16 DEF vars, simVars, progVars
<1> QED
  BY <1>14, <1>15, <1>16 DEF Next
-----------------------------------------------------------------------------
(* How far the simulator is, by where it is.                               *)
LEMMA UsedFacts ==
  ASSUME PipeTypeOK
  PROVE  /\ sim \in Waiting \cup Unlinking \cup {"format"} => Used = 0
         /\ sim = "flags" => Used = 1
         /\ sim = "sample" => Used = 2
         /\ sim = "run" => Used = 3 + Len(received)
         /\ sim = "ending" => Used = 4 + Len(received)
         /\ Used \in Nat
         /\ Len(pipe) \in Nat /\ Len(block) \in Nat /\ Len(buf) \in Nat
         /\ Len(received) \in Nat /\ traced \in Nat
<1>1. /\ Len(pipe) \in Nat /\ Len(block) \in Nat /\ Len(buf) \in Nat
      /\ Len(received) \in Nat /\ traced \in Nat
  BY DEF PipeTypeOK, WordsTypeOK
<1>2. sim \in Waiting \cup Unlinking \cup {"format"} => Used = 0
  BY DEF Used, Waiting, Unlinking
<1>3. sim = "flags" => Used = 1
  BY DEF Used
<1>4. sim = "sample" => Used = 2
  BY DEF Used
<1>5. sim = "run" => Used = 3 + Len(received)
  BY DEF Used
<1>6. sim = "ending" => Used = 4 + Len(received)
  BY DEF Used
<1>7. sim \notin {"flags", "sample", "run", "ending"} => Used = 0
  BY DEF Used
<1>8. Used \in Nat
  BY <1>1, <1>3, <1>4, <1>5, <1>6, <1>7
<1> QED
  BY <1>1, <1>2, <1>3, <1>4, <1>5, <1>6, <1>8

(* How many words the simulator has taken, by where it is. *)
LEMMA UsedNext ==
  ASSUME PipeTypeOK'
  PROVE  /\ sim' \in Waiting \cup Unlinking \cup {"format"} => Used' = 0
         /\ sim' = "flags" => Used' = 1
         /\ sim' = "sample" => Used' = 2
         /\ sim' = "run" => Used' = 3 + Len(received')
         /\ sim' = "ending" => Used' = 4 + Len(received')
         /\ Used' \in Nat
         /\ Len(pipe') \in Nat /\ Len(block') \in Nat /\ Len(buf') \in Nat
         /\ Len(received') \in Nat /\ traced' \in Nat
<1>1. /\ Len(pipe') \in Nat /\ Len(block') \in Nat /\ Len(buf') \in Nat
      /\ Len(received') \in Nat /\ traced' \in Nat
  BY DEF PipeTypeOK, WordsTypeOK
<1>2. sim' \in Waiting \cup Unlinking \cup {"format"} => Used' = 0
  BY DEF Used, Waiting, Unlinking
<1>3. sim' = "flags" => Used' = 1
  BY DEF Used
<1>4. sim' = "sample" => Used' = 2
  BY DEF Used
<1>5. sim' = "run" => Used' = 3 + Len(received')
  BY DEF Used
<1>6. sim' = "ending" => Used' = 4 + Len(received')
  BY DEF Used
<1>7. sim' \notin {"flags", "sample", "run", "ending"} => Used' = 0
  BY DEF Used
<1>8. Used' \in Nat
  BY <1>1, <1>3, <1>4, <1>5, <1>6, <1>7
<1> QED
  BY <1>1, <1>2, <1>3, <1>4, <1>5, <1>6, <1>8

(* Steps that move no words and do not advance the simulator in the trace. *)
LEMMA QuietStep ==
  ASSUME PipeTypeOK, PipeTypeOK', Stream,
         UNCHANGED <<pipe, block, buf, received, traced, flags, reversed>>,
         Reading' => Reading /\ Used' = Used,
         sim' \in Waiting \cup Unlinking \cup InHeader =>
           sim \in Waiting \cup Unlinking \cup InHeader,
         sim' = "ending" => sim = "ending",
         Reading' => SentSoFar', Complaints'
  PROVE  Stream'
<1>1. StreamInOrder'
  <2> SUFFICES ASSUME Reading' PROVE WordsInOrder'
    BY DEF StreamInOrder
  <2>1. WordsInOrder /\ Used' = Used
    BY DEF Stream, StreamInOrder
  <2> QED
    BY <2>1 DEF WordsInOrder, Word, AsWritten
<1>2. BufferInOrder'
  BY DEF Stream, BufferInOrder
<1>3. ReceivedInOrder'
  BY DEF Stream, ReceivedInOrder
<1> QED
  BY <1>1, <1>2, <1>3 DEF Stream

(* The simulator gives up, with cause.                                     *)
LEMMA PuntStep ==
  ASSUME PipeTypeOK, PipeTypeOK', Stream, UNCHANGED progVars, UNCHANGED received,
         NEW reason, Punt(reason), EveryComplaintHasItsCause'
  PROVE  Stream'
<1>1. sim' = "punt" /\ why' = reason
  BY DEF Punt
<1>2. StreamInOrder'
  BY <1>1 DEF StreamInOrder, Reading, Waiting, Unlinking, InHeader, InTrace
<1>3. BufferInOrder'
  BY DEF Stream, BufferInOrder, progVars
<1>4. ReceivedInOrder'
  BY <1>1 DEF Stream, ReceivedInOrder, progVars, Waiting, Unlinking, InHeader
<1>5. Complaints'
  BY <1>1 DEF Complaints, InTrace
<1> QED
  BY <1>2, <1>3, <1>4, <1>5 DEF Stream

(* The simulator on its way to the trace: nothing has been sent that it    *)
(* has used, and the program is not writing while it makes the two meet.   *)
LEMMA SimWaits ==
  ASSUME PipeTypeOK, PipeTypeOK', Stream,
         UNCHANGED <<why, block, received, progVars, pipe>>,
         sim \in Waiting \cup Unlinking, sim' \in Waiting \cup Unlinking \cup {"format"},
         met' = met \/ prog # "run"
  PROVE  Stream'
<1>1. UNCHANGED <<why, block, received, pipe, prog, buf, traced, flags, reversed>>
  BY DEF progVars
<1>2. Used = 0 /\ Used' = 0
  BY UsedFacts, UsedNext
<1>3. Reading /\ SentSoFar
  BY DEF Stream, StreamInOrder, Reading
<1>4. Sent' = Sent
  BY <1>1, <1>2 DEF Sent
<1>5. SentSoFar'
  BY <1>1, <1>3, <1>4 DEF SentSoFar
<1>6. Complaints'
  BY <1>1 DEF Stream, Complaints, EveryComplaintHasItsCause, Waiting, Unlinking, InTrace
<1>7. /\ sim' \in Waiting \cup Unlinking \cup InHeader
      /\ sim' # "ending"
  BY DEF Waiting, Unlinking, InHeader
<1> QED
  BY <1>1, <1>2, <1>3, <1>5, <1>6, <1>7, QuietStep

(* The simulator stops reading for good.                                   *)
LEMMA SimLeaves ==
  ASSUME PipeTypeOK, PipeTypeOK', Stream, UNCHANGED <<why, received, progVars>>,
         sim \in InTrace \cup {"close", "waitpid"}, sim' \in {"close", "waitpid", "exit"}
  PROVE  Stream'
<1>2. StreamInOrder'
  BY DEF StreamInOrder, Reading, Waiting, Unlinking, InHeader, InTrace
<1>3. BufferInOrder'
  BY DEF Stream, BufferInOrder, progVars
<1>4. ReceivedInOrder'
  BY DEF Stream, ReceivedInOrder, progVars, Waiting, Unlinking, InHeader
<1>5. Complaints'
  BY DEF Stream, Complaints, EveryComplaintHasItsCause, progVars, InTrace
<1> QED
  BY <1>2, <1>3, <1>4, <1>5 DEF Stream

(* The next word of the pipe, when the block is used up.                   *)
LEMMA NextOfPipe ==
  ASSUME PipeTypeOK, WordsInOrder, block = << >>, pipe # << >>
  PROVE  /\ Head(pipe) = AsWritten(Word(Used + 1))
         /\ Tail(pipe) \in Seq(Int) /\ Len(Tail(pipe)) = Len(pipe) - 1
         /\ \A i \in 1 .. Len(pipe) - 1 :
              Tail(pipe)[i] = AsWritten(Word(Used + 1 + i))
<1>1. /\ pipe \in Seq(Int) /\ Used \in Nat /\ Len(pipe) \in Nat /\ Len(pipe) >= 1
      /\ Len(block) = 0
  BY UsedFacts DEF PipeTypeOK, WordsTypeOK
<1>2. /\ Head(pipe) = pipe[1] /\ Tail(pipe) \in Seq(Int) /\ Len(Tail(pipe)) = Len(pipe) - 1
      /\ \A i \in 1 .. Len(pipe) - 1 : Tail(pipe)[i] = pipe[i + 1]
  BY <1>1
<1>3. \A i \in 1 .. Len(pipe) : pipe[i] = AsWritten(Word(Used + i))
  BY <1>1 DEF WordsInOrder
<1>4. ASSUME NEW i \in 1 .. Len(pipe) - 1
      PROVE  Tail(pipe)[i] = AsWritten(Word(Used + 1 + i))
  <2>1. i + 1 \in 1 .. Len(pipe) /\ Used + (i + 1) = Used + 1 + i
    BY <1>1
  <2> QED
    BY <1>2, <1>3, <2>1
<1> QED
  BY <1>1, <1>2, <1>3, <1>4

(* The next word of the block.                                             *)
LEMMA NextOfBlock ==
  ASSUME PipeTypeOK, WordsInOrder, block # << >>
  PROVE  /\ Head(block) = AsWritten(Word(Used + 1))
         /\ Tail(block) \in Seq(Int) /\ Len(Tail(block)) = Len(block) - 1
         /\ \A i \in 1 .. Len(block) - 1 :
              Tail(block)[i] = AsWritten(Word(Used + 1 + i))
<1>1. block \in Seq(Int) /\ Used \in Nat /\ Len(block) \in Nat /\ Len(block) >= 1
  BY UsedFacts DEF PipeTypeOK, WordsTypeOK
<1>2. /\ Head(block) = block[1] /\ Tail(block) \in Seq(Int)
      /\ Len(Tail(block)) = Len(block) - 1
      /\ \A i \in 1 .. Len(block) - 1 : Tail(block)[i] = block[i + 1]
  BY <1>1
<1>3. \A i \in 1 .. Len(block) : block[i] = AsWritten(Word(Used + i))
  BY DEF WordsInOrder
<1>4. ASSUME NEW i \in 1 .. Len(block) - 1
      PROVE  Tail(block)[i] = AsWritten(Word(Used + 1 + i))
  <2>1. i + 1 \in 1 .. Len(block) /\ Used + (i + 1) = Used + 1 + i
    BY <1>1
  <2> QED
    BY <1>2, <1>3, <2>1
<1> QED
  BY <1>1, <1>2, <1>3, <1>4

(* A word of the header is what it should be.                              *)
LEMMA HeaderStep ==
  ASSUME PipeTypeOK, PipeTypeOK', Stream, ~ reversed,
         UNCHANGED <<why, met, block, received, progVars>>,
         pipe # << >>, pipe' = Tail(pipe),
         sim \in InHeader, sim' \in {"flags", "sample", "run"}, Used' = Used + 1
  PROVE  Stream'
<1>1. UNCHANGED <<why, met, block, received, prog, buf, traced, flags, reversed>>
  BY DEF progVars
<1>2. WordsInOrder /\ SentSoFar /\ block = << >> /\ received = << >>
  BY DEF Stream, StreamInOrder, ReceivedInOrder, Reading
<1>3. /\ Len(pipe') = Len(pipe) - 1
      /\ \A i \in 1 .. Len(pipe) - 1 : pipe'[i] = AsWritten(Word(Used + 1 + i))
  BY <1>2, NextOfPipe
<1>4. Used \in Nat /\ Len(pipe) \in Nat /\ Len(block) = 0 /\ Len(block') = 0
  BY <1>1, <1>2, UsedFacts
<1>5. WordsInOrder'
  <2>1. \A i \in 1 .. Len(pipe') : pipe'[i] = AsWritten(Word(Used' + Len(block') + i))
    BY <1>3, <1>4
  <2> QED
    BY <1>1, <1>4, <2>1 DEF WordsInOrder, Word, AsWritten
<1>6. Sent' = Sent
  BY <1>3, <1>4 DEF Sent
<1>7. SentSoFar'
  BY <1>1, <1>2, <1>6 DEF SentSoFar
<1>8. BufferInOrder'
  BY <1>1 DEF Stream, BufferInOrder
<1>9. ReceivedInOrder'
  BY <1>1, <1>2 DEF Stream, ReceivedInOrder
<1>10. Complaints'
  BY <1>1 DEF Stream, Complaints, EveryComplaintHasItsCause
<1> QED
  BY <1>5, <1>7, <1>8, <1>9, <1>10 DEF Stream, StreamInOrder

(* Words move from the pipe to the block.                                  *)
LEMMA ReadBlockStep ==
  ASSUME PipeTypeOK, PipeTypeOK', Stream, SimReadBlock
  PROVE  Stream'
<1>1. /\ UNCHANGED <<sim, why, met, received, prog, buf, traced, flags, reversed>>
      /\ sim \in InTrace /\ block = << >>
  BY DEF SimReadBlock, progVars, names, InTrace
<1>2. WordsInOrder /\ SentSoFar
  BY <1>1 DEF Stream, StreamInOrder, Reading
<1>3. PICK n \in 1 .. TRACE_BLOCK_SIZE :
        /\ n <= Len(pipe)
        /\ block' = SubSeq(pipe, 1, n)
        /\ pipe' = SubSeq(pipe, n + 1, Len(pipe))
  BY DEF SimReadBlock
<1>4. /\ pipe \in Seq(Int) /\ n \in Nat /\ n >= 1 /\ Used \in Nat /\ Len(pipe) \in Nat
      /\ Len(block) = 0 /\ Used' = Used
  BY <1>1, UsedFacts, TracePipeAssumption DEF PipeTypeOK, WordsTypeOK, Used
<1>5. /\ Len(block') = n /\ \A i \in 1 .. n : block'[i] = pipe[i]
      /\ Len(pipe') = Len(pipe) - n /\ \A i \in 1 .. Len(pipe) - n : pipe'[i] = pipe[n + i]
  <2>1. Len(block') = n /\ \A i \in 1 .. n : block'[i] = pipe[i]
    BY <1>3, <1>4
  <2>2. Len(pipe') = Len(pipe) - n /\ \A i \in 1 .. Len(pipe) - n : pipe'[i] = pipe[n + i]
    BY <1>3, <1>4
  <2> QED
    BY <2>1, <2>2
<1>6. \A i \in 1 .. Len(pipe) : pipe[i] = AsWritten(Word(Used + i))
  BY <1>2, <1>4 DEF WordsInOrder
<1>7. \A i \in 1 .. Len(block') : block'[i] = AsWritten(Word(Used' + i))
  BY <1>3, <1>4, <1>5, <1>6
<1>8. ASSUME NEW i \in 1 .. Len(pipe')
      PROVE  pipe'[i] = AsWritten(Word(Used' + Len(block') + i))
  <2>1. n + i \in 1 .. Len(pipe) /\ Used + (n + i) = Used' + Len(block') + i
    BY <1>3, <1>4, <1>5
  <2> QED
    BY <1>3, <1>4, <1>5, <1>6, <2>1
<1>9. WordsInOrder'
  BY <1>1, <1>7, <1>8 DEF WordsInOrder, Word, AsWritten
<1>10. Sent' = Sent
  BY <1>4, <1>5 DEF Sent
<1>11. SentSoFar'
  BY <1>1, <1>2, <1>10 DEF SentSoFar
<1>12. BufferInOrder'
  BY <1>1 DEF Stream, BufferInOrder
<1>13. ReceivedInOrder'
  BY <1>1 DEF Stream, ReceivedInOrder, InTrace, Waiting, Unlinking, InHeader
<1>14. Complaints'
  BY <1>1 DEF Stream, Complaints, EveryComplaintHasItsCause
<1> QED
  BY <1>9, <1>11, <1>12, <1>13, <1>14 DEF Stream, StreamInOrder

(* A word of the block is used: the trace's words one after the other, and *)
(* then the mark of its end.  If that is the first word, the program has   *)
(* run to its end and traced nothing.                                      *)
LEMMA GetWordStep ==
  ASSUME PipeTypeOK, PipeTypeOK', Rendezvous, Stream, SimGetWord
  PROVE  Stream'
<1>1. /\ UNCHANGED <<pipe, prog, buf, traced, flags, reversed>>
      /\ sim = "run" /\ block # << >> /\ block' = Tail(block)
  BY DEF SimGetWord, progVars
<1>2. WordsInOrder /\ SentSoFar /\ ~ reversed
  BY <1>1 DEF Stream, StreamInOrder, Complaints, Reading, InTrace
<1>3. /\ Used = 3 + Len(received) /\ Len(received) \in Nat /\ Len(pipe) \in Nat
      /\ Len(block) \in Nat /\ traced \in Nat /\ received \in Seq(Int)
      /\ Len(received) <= traced
  BY <1>1, UsedFacts DEF PipeTypeOK, WordsTypeOK, Stream, ReceivedInOrder
<1>4. /\ Len(block') = Len(block) - 1
      /\ \A i \in 1 .. Len(block) - 1 : block'[i] = AsWritten(Word(Used + 1 + i))
      /\ Head(block) = Word(Used + 1)
  BY <1>1, <1>2, NextOfBlock DEF AsWritten
<1>5. Word(Used + 1) = IF Len(received) < traced THEN Len(received) + 1 ELSE -4
  BY <1>3 DEF Word
<1>5a. CASE received = << >> /\ traced = 0
  <2>1. Head(block) = SAMPLE_END
    BY <1>3, <1>4, <1>5, <1>5a DEF SAMPLE_END
  <2>2. Punt("Empty trace") /\ received' = received
    BY <1>5a, <2>1 DEF SimGetWord
  <2>3. Len(received) = 0 /\ Len(block) >= 1
    BY <1>1, <1>3, <1>5a DEF PipeTypeOK, WordsTypeOK
  <2>4. Sent >= traced + 4
    BY <1>3, <1>5a, <2>3 DEF Sent
  <2>5. prog # "failed"
    BY DEF Rendezvous, Met, NotMet, Waiting
  <2>5a. Len(buf) \in Nat /\ Sent \in Nat
    BY UsedFacts DEF Sent
  <2>6. prog \in Waiting \cup Unlinking \cup {"header"} => Sent = 0
    BY <1>2 DEF SentSoFar
  <2>7. prog = "run" => Sent = 0 \/ Sent = traced + 3 - Len(buf)
    BY <1>2 DEF SentSoFar
  <2>8. prog \in {"write", "trailer"} => Sent = traced + 3 - Len(buf)
    BY <1>2 DEF SentSoFar
  <2>9. prog \in {"crashed", "killed"} => Sent <= traced + 3
    BY <1>2 DEF SentSoFar
  <2>10. prog = "exited"
    BY <1>3, <2>4, <2>5, <2>5a, <2>6, <2>7, <2>8, <2>9 DEF PipeTypeOK, PlacesTypeOK, Ended
  <2>11. EveryComplaintHasItsCause'
    BY <1>1, <1>5a, <2>2, <2>10 DEF Punt, EveryComplaintHasItsCause
  <2>12. UNCHANGED progVars
    BY DEF SimGetWord
  <2> QED
    BY <2>2, <2>11, <2>12, PuntStep
<1> SUFFICES ASSUME received # << >> \/ traced # 0 PROVE Stream'
  BY <1>5a
<1>5b. UNCHANGED <<why, met>>
  <2>1. Len(received) = traced => received # << >>
    BY <1>3
  <2>2. CASE Head(block) # SAMPLE_END
    BY <2>2 DEF SimGetWord, names
  <2>3. CASE Head(block) = SAMPLE_END
    <3>1. Len(received) = traced
      BY <1>3, <1>4, <1>5, <2>3 DEF SAMPLE_END
    <3> QED
      BY <2>1, <2>3, <3>1 DEF SimGetWord, names
  <2> QED
    BY <2>2, <2>3
<1>6. ASSUME Len(received) < traced PROVE ReceivedInOrder' /\ Used' = Used + 1
  <2>1. Head(block) # SAMPLE_END /\ Head(block) = Len(received) + 1
    BY <1>3, <1>4, <1>5, <1>6 DEF SAMPLE_END
  <2>2. sim' = "run" /\ received' = Append(received, Len(received) + 1)
    BY <1>1, <2>1 DEF SimGetWord
  <2>3. /\ Len(received') = Len(received) + 1 /\ received'[Len(received) + 1] = Len(received) + 1
        /\ \A i \in 1 .. Len(received) : received'[i] = received[i]
    BY <1>3, <2>2
  <2>4. ReceivedInOrder'
    BY <1>1, <1>3, <1>6, <2>2, <2>3
    DEF Stream, ReceivedInOrder, InHeader, Waiting, Unlinking
  <2>5. Used' = Used + 1
    BY <1>3, <2>2, <2>3, UsedNext
  <2> QED
    BY <2>2, <2>4, <2>5
<1>7. ASSUME Len(received) = traced PROVE ReceivedInOrder' /\ Used' = Used + 1
  <2>0. received # << >> /\ Head(block) = SAMPLE_END
    BY <1>3, <1>4, <1>5, <1>7 DEF SAMPLE_END
  <2>1. sim' = "ending" /\ received' = received
    BY <1>1, <2>0 DEF SimGetWord
  <2>2. Used' = Used + 1
    BY <1>3, <2>1, UsedNext
  <2>3. ReceivedInOrder'
    BY <1>1, <1>7, <2>1 DEF Stream, ReceivedInOrder, InHeader, Waiting, Unlinking
  <2> QED
    BY <2>1, <2>2, <2>3
<1>8. ReceivedInOrder' /\ Used' = Used + 1
  BY <1>3, <1>6, <1>7
<1>9. WordsInOrder'
  <2>1. \A i \in 1 .. Len(block') : block'[i] = AsWritten(Word(Used' + i))
    BY <1>4, <1>8
  <2>2. \A i \in 1 .. Len(pipe') : pipe'[i] = AsWritten(Word(Used' + Len(block') + i))
    <3>1. Used' + Len(block') = Used + Len(block)
      BY <1>3, <1>4, <1>8
    <3> QED
      BY <1>1, <1>2, <3>1 DEF WordsInOrder
  <2> QED
    BY <1>1, <2>1, <2>2 DEF WordsInOrder, Word, AsWritten
<1>10. Sent' = Sent
  BY <1>1, <1>3, <1>4, <1>8 DEF Sent
<1>11. SentSoFar'
  BY <1>1, <1>2, <1>5b, <1>10 DEF SentSoFar
<1>12. BufferInOrder'
  BY <1>1 DEF Stream, BufferInOrder
<1>13. Complaints'
  BY <1>1, <1>2, <1>5b DEF Stream, Complaints, EveryComplaintHasItsCause
<1> QED
  BY <1>8, <1>9, <1>11, <1>12, <1>13 DEF Stream, StreamInOrder

(* What the simulator finds when it looks for the end of the trace.        *)
LEMMA ExitPointFacts ==
  ASSUME PipeTypeOK, Stream, sim = "ending", block # << >>
  PROVE  Head(block) = END
<1>1. WordsInOrder /\ ~ reversed /\ Len(received) = traced
  BY DEF Stream, StreamInOrder, ReceivedInOrder, Complaints, Reading, InTrace
<1>2. Used = 4 + traced /\ traced \in Nat
  BY <1>1, UsedFacts
<1>3. Head(block) = Word(Used + 1)
  BY <1>1, NextOfBlock DEF AsWritten
<1> QED
  BY <1>2, <1>3 DEF Word, END

(* And what it finds in the header.                                        *)
LEMMA HeaderFacts ==
  ASSUME PipeTypeOK, Stream, sim \in InHeader, pipe # << >>
  PROVE  /\ block = << >>
         /\ sim = "format" => (Head(pipe) = FORMAT3 <=> ~ reversed)
         /\ sim = "flags" => Head(pipe) = flags /\ ~ reversed
         /\ sim = "sample" => Head(pipe) = SAMPLE_START /\ ~ reversed
<1>1. /\ WordsInOrder /\ block = << >>
      /\ sim \in {"flags", "sample"} => ~ reversed
  BY DEF Stream, StreamInOrder, ReceivedInOrder, Complaints, Reading
<1>2. Head(pipe) = AsWritten(Word(Used + 1))
  BY <1>1, NextOfPipe
<1>3. CASE sim = "format"
  <2>1. Word(Used + 1) = -1
    BY <1>3, UsedFacts DEF Word
  <2> QED
    BY <1>1, <1>2, <1>3, <2>1, TracePipeAssumption DEF AsWritten, SWAP_BYTES, FORMAT3
<1>4. CASE sim = "flags"
  <2>1. Word(Used + 1) = flags
    BY <1>4, UsedFacts DEF Word
  <2> QED
    BY <1>1, <1>2, <1>4, <2>1 DEF AsWritten
<1>5. CASE sim = "sample"
  <2>1. Word(Used + 1) = -3
    BY <1>5, UsedFacts DEF Word
  <2> QED
    BY <1>1, <1>2, <1>5, <2>1 DEF AsWritten, SAMPLE_START
<1> QED
  BY <1>3, <1>4, <1>5 DEF InHeader

(* End of file before the end marks: the program did not leave by itself.  *)
LEMMA EndOfFileFacts ==
  ASSUME PipeTypeOK, Rendezvous, Stream, sim \in InHeader \cup InTrace, block = << >>,
         EndOfFile
  PROVE  prog = "crashed"
<1>1. met /\ Met /\ ino.sim # 0 /\ ino.prog = 0 /\ pipe = << >>
  BY DEF Rendezvous, NotMet, EndOfFile, Waiting, Unlinking, InHeader, InTrace
<1>2. prog \in {"exited", "crashed"}
  BY <1>1 DEF Met, Ended
<1>3. Used <= traced + 4 /\ traced \in Nat
  <2>1. /\ sim = "format" => Used = 0
        /\ sim = "flags" => Used = 1
        /\ sim = "sample" => Used = 2
        /\ sim = "run" => Used = 3 + Len(received)
        /\ sim = "ending" => Used = 4 + Len(received)
        /\ traced \in Nat /\ Len(received) \in Nat /\ Len(received) <= traced
    BY UsedFacts DEF Stream, ReceivedInOrder
  <2> QED
    BY <2>1 DEF InHeader, InTrace
<1>4. Used \in Nat /\ Sent = Used
  <2>1. Len(block) = 0 /\ Len(pipe) = 0
    BY <1>1
  <2> QED
    BY <2>1, UsedFacts DEF Sent
<1>5. prog = "exited" => Sent = traced + 5
  BY DEF Stream, StreamInOrder, SentSoFar, Reading
<1> QED
  BY <1>2, <1>3, <1>4, <1>5

(* What a step of the simulator does to the stream.                        *)
LEMMA SimStream ==
  ASSUME PipeTypeOK, PipeTypeOK', Rendezvous, Rendezvous', Stream,
         SimNext \/ SimTimeOut \/ SimStopsEarly
  PROVE  Stream'
<1>1. CASE SimMknod \/ SimSymlink \/ SimOpened \/ SimUnlinkLink \/ SimUnlinkFifo
  <2>1. /\ sim \in Waiting \cup Unlinking /\ sim' \in Waiting \cup Unlinking \cup {"format"}
        /\ UNCHANGED <<why, block, received, progVars, pipe>> /\ met' = met
    BY <1>1
    DEF SimMknod, SimSymlink, SimOpened, SimUnlinkLink, SimUnlinkFifo, Mknod, Symlink,
        names, Waiting, Unlinking
  <2> QED
    BY <2>1, SimWaits
<1>2. CASE SimOpen
  <2>1. /\ Arrive("sim", "prog") /\ sim = "open" /\ sim' = "opening"
        /\ UNCHANGED <<why, block, received, progVars, pipe>>
    BY <1>2 DEF SimOpen, Rendezvous, Punt
  <2>2. prog = "run" => met' = met
    <3>1. ~ met /\ NotMet /\ fifo # 0
      BY <2>1 DEF Rendezvous, Met, NotMet
    <3>2. prog = "run" => ino.prog = 0
      BY <3>1 DEF NotMet
    <3>3. met' <=> ino.prog = fifo
      BY <2>1, <3>1 DEF Arrive
    <3>4. met' \in BOOLEAN /\ met \in BOOLEAN
      BY DEF PipeTypeOK, NamesTypeOK
    <3> QED
      BY <3>1, <3>2, <3>3, <3>4
  <2>3. sim \in Waiting \cup Unlinking /\ sim' \in Waiting \cup Unlinking \cup {"format"}
    BY <2>1 DEF Waiting
  <2> QED
    BY <2>1, <2>2, <2>3, SimWaits
<1>3. CASE SimTimeOut
  <2>1. Punt("TIMEOUT") /\ UNCHANGED <<received, progVars>>
    BY <1>3 DEF SimTimeOut
  <2>2. EveryComplaintHasItsCause'
    BY <2>1 DEF Punt, EveryComplaintHasItsCause
  <2> QED
    BY <2>1, <2>2, PuntStep
<1>4. CASE SimFormat
  <2>1. sim = "format" /\ pipe # << >> /\ pipe' = Tail(pipe)
        /\ UNCHANGED <<block, received, progVars>>
    BY <1>4 DEF SimFormat
  <2>2. sim \in InHeader /\ (Head(pipe) = FORMAT3 <=> ~ reversed)
    BY <2>1, HeaderFacts DEF InHeader
  <2>3. CASE Head(pipe) = FORMAT3
    <3>1. sim' = "flags" /\ UNCHANGED <<why, met>>
      BY <1>4, <2>3 DEF SimFormat, names
    <3>2. Used' = Used + 1
      BY <2>1, <3>1, UsedFacts, UsedNext
    <3> QED
      BY <2>1, <2>2, <2>3, <3>1, <3>2, HeaderStep
  <2>4. CASE Head(pipe) # FORMAT3
    <3>1. Punt("Trace corrupt") \/ Punt("Unknown trace format")
      BY <1>4, <2>4 DEF SimFormat
    <3>2. EveryComplaintHasItsCause'
      BY <2>1, <2>2, <2>4, <3>1 DEF Punt, EveryComplaintHasItsCause, progVars
    <3> QED
      BY <2>1, <3>1, <3>2, PuntStep
  <2> QED
    BY <2>3, <2>4
<1>5. CASE SimHeader("flags", FLAGS, "sample", "Unexpected trace flags")
  <2>1. sim = "flags" /\ pipe # << >> /\ pipe' = Tail(pipe)
        /\ UNCHANGED <<block, received, progVars>>
    BY <1>5 DEF SimHeader
  <2>2. sim \in InHeader /\ Head(pipe) = flags /\ ~ reversed
    BY <2>1, HeaderFacts DEF InHeader
  <2>3. CASE flags = FLAGS
    <3>1. sim' = "sample" /\ UNCHANGED <<why, met>>
      BY <1>5, <2>2, <2>3 DEF SimHeader, names
    <3>2. Used' = Used + 1
      BY <2>1, <3>1, UsedFacts, UsedNext
    <3> QED
      BY <2>1, <2>2, <3>1, <3>2, HeaderStep
  <2>4. CASE flags # FLAGS
    <3>1. Punt("Unexpected trace flags") /\ UNCHANGED <<flags, reversed>>
      BY <1>5, <2>2, <2>4 DEF SimHeader, progVars
    <3>2. EveryComplaintHasItsCause'
      BY <2>4, <3>1 DEF Punt, EveryComplaintHasItsCause
    <3> QED
      BY <2>1, <3>1, <3>2, PuntStep
  <2> QED
    BY <2>3, <2>4
<1>6. CASE SimHeader("sample", SAMPLE_START, "run", "Trace corrupt")
  <2>1. sim = "sample" /\ pipe # << >> /\ pipe' = Tail(pipe)
        /\ UNCHANGED <<block, received, progVars>>
    BY <1>6 DEF SimHeader
  <2>2. sim \in InHeader /\ Head(pipe) = SAMPLE_START /\ ~ reversed
    BY <2>1, HeaderFacts DEF InHeader
  <2>3. sim' = "run" /\ UNCHANGED <<why, met>>
    BY <1>6, <2>2 DEF SimHeader, names
  <2>4. Used' = Used + 1
    <3>1. received' = << >>
      BY <2>1, <2>2 DEF Stream, ReceivedInOrder
    <3>2. Used' = 3 /\ Used = 2
      BY <2>1, <2>3, <3>1, UsedFacts, UsedNext
    <3> QED
      BY <3>2
  <2> QED
    BY <2>1, <2>2, <2>3, <2>4, HeaderStep
<1>7. CASE SimHeaderCut \/ SimPastEnd
  <2>1. /\ sim \in InHeader \cup InTrace /\ EndOfFile
        /\ sim \in InTrace => block = << >>
        /\ UNCHANGED <<received, progVars>>
        /\ Punt("Error during first read of trace") \/ Punt("Read past end of trace")
    BY <1>7 DEF SimHeaderCut, SimPastEnd, InHeader, InTrace
  <2>2. block = << >>
    BY <2>1 DEF Stream, ReceivedInOrder
  <2>3. prog = "crashed"
    BY <2>1, <2>2, EndOfFileFacts
  <2>4. EveryComplaintHasItsCause'
    BY <2>1, <2>3 DEF Punt, EveryComplaintHasItsCause, progVars
  <2> QED
    BY <2>1, <2>4, PuntStep
<1>8. CASE SimExitPoint \/ SimStopsEarly \/ SimClose \/ SimWait
  <2>1. /\ UNCHANGED <<why, received, progVars>>
        /\ sim \in InTrace \cup {"close", "waitpid"} /\ sim' \in {"close", "waitpid", "exit"}
    BY <1>8, ExitPointFacts DEF SimExitPoint, SimStopsEarly, SimClose, SimWait, InTrace
  <2> QED
    BY <2>1, SimLeaves
<1> QED
  BY <1>1, <1>2, <1>3, <1>4, <1>5, <1>6, <1>7, <1>8, ReadBlockStep, GetWordStep DEF SimNext
-----------------------------------------------------------------------------
(* The program makes no word and sends none.                               *)
LEMMA ProgQuiet ==
  ASSUME PipeTypeOK, PipeTypeOK', Stream, UNCHANGED simVars,
         UNCHANGED <<buf, traced, pipe, flags, reversed>>,
         prog = "crashed" => prog' = "crashed", prog = "exited" => prog' = "exited",
         Reading /\ Sent' = Sent => SentSoFar'
  PROVE  Stream'
<1>1. UNCHANGED <<sim, why, block, received>>
  BY DEF simVars
<1>2. Used' = Used /\ Sent' = Sent
  BY <1>1 DEF Used, Sent
<1>3. Reading' = Reading
  BY <1>1 DEF Reading
<1>4. Complaints'
  BY <1>1 DEF Stream, Complaints, EveryComplaintHasItsCause
<1> QED
  BY <1>1, <1>2, <1>3, <1>4, QuietStep

(* Words are written: they are the next ones of the stream.                *)
LEMMA WriteStep ==
  ASSUME PipeTypeOK, PipeTypeOK', Stream, UNCHANGED simVars,
         UNCHANGED <<traced, flags, reversed>>,
         prog \notin {"crashed", "exited"}, BufferInOrder',
         NEW w \in Seq(Int), Write(w),
         Reading => \A i \in 1 .. Len(w) : w[i] = Word(Sent + i),
         Reading /\ Sent' = Sent + Len(w) => SentSoFar'
  PROVE  Stream'
<1>1. UNCHANGED <<sim, why, block, received>>
  BY DEF simVars
<1>2. Used' = Used /\ Used \in Nat /\ Len(block) \in Nat /\ Len(pipe) \in Nat /\ Len(w) \in Nat
  BY <1>1, UsedFacts DEF Used
<1>3. /\ Len(pipe') = Len(pipe) + Len(w)
      /\ \A i \in 1 .. Len(pipe) : pipe'[i] = pipe[i]
      /\ \A i \in 1 .. Len(w) : pipe'[Len(pipe) + i] = AsWritten(w[i])
  BY WriteFacts DEF PipeTypeOK
<1>4. Sent' = Sent + Len(w)
  BY <1>1, <1>2, <1>3 DEF Sent
<1>5. StreamInOrder'
  <2> SUFFICES ASSUME Reading PROVE WordsInOrder' /\ SentSoFar'
    BY <1>1 DEF StreamInOrder, Reading
  <2>1. WordsInOrder
    BY DEF Stream, StreamInOrder
  <2>2. ASSUME NEW i \in 1 .. Len(pipe')
        PROVE  pipe'[i] = AsWritten(Word(Used + Len(block) + i))
    <3>1. CASE i <= Len(pipe)
      BY <1>2, <1>3, <2>1, <3>1 DEF WordsInOrder
    <3>2. CASE i > Len(pipe)
      <4>1. i - Len(pipe) \in 1 .. Len(w) /\ Len(pipe) + (i - Len(pipe)) = i
        BY <1>2, <1>3, <3>2
      <4>2. Sent + (i - Len(pipe)) = Used + Len(block) + i
        BY <1>2, <4>1 DEF Sent
      <4> QED
        BY <1>3, <4>1, <4>2
    <3> QED
      BY <1>2, <1>3, <3>1, <3>2
  <2>3. WordsInOrder'
    BY <1>1, <1>2, <2>1, <2>2 DEF WordsInOrder, Word, AsWritten
  <2> QED
    BY <1>4, <2>3
<1>6. ReceivedInOrder'
  BY <1>1 DEF Stream, ReceivedInOrder
<1>7. Complaints'
  BY <1>1 DEF Stream, Complaints, EveryComplaintHasItsCause
<1> QED
  BY <1>5, <1>6, <1>7 DEF Stream

(* A block of probes: the words before it stay what they were, and the end *)
(* marks, whose place in the stream moves, have not been sent.             *)
LEMMA TraceStep ==
  ASSUME PipeTypeOK, PipeTypeOK', Stream, Trace
  PROVE  Stream'
<1>1. UNCHANGED <<sim, why, block, received, prog, met, pipe, flags, reversed>> /\ prog = "run"
  BY DEF Trace, simVars, names
<1>2. PICK k \in 1 .. MaxBlock :
        /\ traced' = traced + k
        /\ buf' = buf \o [i \in 1 .. k |-> traced + i]
  BY DEF Trace
<1>3. /\ k \in Nat /\ k >= 1 /\ buf \in Seq(Int) /\ Used \in Nat /\ Len(block) \in Nat
      /\ Len(pipe) \in Nat /\ Len(buf) \in Nat /\ Len(received) \in Nat /\ traced \in Nat
      /\ Used' = Used
  BY <1>1, UsedFacts, TracePipeAssumption DEF PipeTypeOK, WordsTypeOK, Used
<1>4. /\ Len(buf') = Len(buf) + k
      /\ \A i \in 1 .. Len(buf) : buf'[i] = buf[i]
      /\ \A i \in 1 .. k : buf'[Len(buf) + i] = traced + i
  <2> DEFINE w == [i \in 1 .. k |-> traced + i]
  <2>1. w \in Seq(Int) /\ Len(w) = k /\ \A i \in 1 .. k : w[i] = traced + i
    BY <1>3, TracedWords
  <2>2. buf' = buf \o w
    BY <1>2
  <2> HIDE DEF w
  <2> QED
    BY <1>3, <2>1, <2>2, ConcatFacts
<1>5. BufferInOrder'
  <2>1. Len(buf) <= traced /\ \A i \in 1 .. Len(buf) : buf[i] = traced - Len(buf) + i
    BY DEF Stream, BufferInOrder
  <2>2. ASSUME NEW i \in 1 .. Len(buf') PROVE buf'[i] = traced' - Len(buf') + i
    <3>1. traced' - Len(buf') = traced - Len(buf)
      BY <1>2, <1>3, <1>4
    <3>2. CASE i <= Len(buf)
      BY <1>3, <1>4, <2>1, <3>1, <3>2
    <3>3. CASE i > Len(buf)
      <4>1. i - Len(buf) \in 1 .. k /\ Len(buf) + (i - Len(buf)) = i
        BY <1>3, <1>4, <3>3
      <4>2. buf'[i] = traced + (i - Len(buf))
        BY <1>4, <4>1
      <4> QED
        BY <1>3, <3>1, <4>2
    <3> QED
      BY <1>3, <1>4, <3>2, <3>3
  <2> QED
    BY <1>2, <1>3, <1>4, <2>1, <2>2 DEF BufferInOrder
<1>6. Sent' = Sent /\ Sent = Used + Len(block) + Len(pipe)
  BY <1>1, <1>3 DEF Sent
<1>7. Reading => WordsInOrder /\ SentSoFar /\ Sent <= traced + 3
  <2>1. Reading => WordsInOrder /\ SentSoFar
    BY DEF Stream, StreamInOrder
  <2>2. SentSoFar => Sent = 0 \/ Sent = traced + 3 - Len(buf)
    BY <1>1 DEF SentSoFar
  <2> QED
    BY <1>3, <2>1, <2>2
<1>8. StreamInOrder'
  <2> SUFFICES ASSUME Reading PROVE WordsInOrder' /\ SentSoFar'
    BY <1>1 DEF StreamInOrder, Reading
  <2>1. ASSUME NEW j \in Nat, j <= traced + 3 PROVE Word(j)' = Word(j)
    BY <1>1, <1>2, <1>3, <2>1 DEF Word
  <2>2. ASSUME NEW i \in 1 .. Len(block)
        PROVE  (block[i] = AsWritten(Word(Used + i)))'
    <3>1. Used + i \in Nat /\ Used + i <= traced + 3
      BY <1>3, <1>6, <1>7
    <3>2. Word(Used + i)' = Word(Used + i)
      BY <1>3, <2>1, <3>1 DEF Word
    <3> QED
      BY <1>1, <1>7, <3>2 DEF WordsInOrder, AsWritten
  <2>3. ASSUME NEW i \in 1 .. Len(pipe)
        PROVE  (pipe[i] = AsWritten(Word(Used + Len(block) + i)))'
    <3>1. Used + Len(block) + i \in Nat /\ Used + Len(block) + i <= traced + 3
      BY <1>3, <1>6, <1>7
    <3>2. Word(Used + Len(block) + i)' = Word(Used + Len(block) + i)
      BY <1>1, <1>3, <2>1, <3>1 DEF Word
    <3> QED
      BY <1>1, <1>7, <3>2 DEF WordsInOrder, AsWritten
  <2>4. WordsInOrder'
    BY <1>1, <2>2, <2>3 DEF WordsInOrder
  <2>5. SentSoFar'
    <3>1. met => Sent = traced + 3 - Len(buf)
      BY <1>1, <1>7 DEF SentSoFar
    <3>2. ~ met => Sent = 0 /\ Len(buf) = traced
      BY <1>1, <1>7 DEF SentSoFar
    <3>3. traced' + 3 - Len(buf') = traced + 3 - Len(buf)
      BY <1>2, <1>3, <1>4
    <3>4. Len(buf) = traced => Len(buf') = traced'
      BY <1>2, <1>3, <1>4
    <3>5. met' => Sent' = traced' + 3 - Len(buf')
      BY <1>1, <1>6, <3>1, <3>3
    <3>6. ~ met' => Sent' = 0 /\ Len(buf') = traced'
      BY <1>1, <1>6, <3>2, <3>4
    <3> QED
      BY <1>1, <3>5, <3>6 DEF SentSoFar, Waiting, Unlinking
  <2> QED
    BY <2>4, <2>5
<1>9. sim # "ending"
  <2>1. SUFFICES ASSUME sim = "ending" PROVE FALSE
    OBVIOUS
  <2>2. Reading /\ Len(received) = traced
    BY <2>1 DEF Stream, ReceivedInOrder, Reading, InTrace
  <2>3. Used = 4 + traced
    BY <2>1, <2>2, UsedFacts
  <2> QED
    BY <1>3, <1>6, <1>7, <2>2, <2>3
<1>10. ReceivedInOrder'
  <2>1. traced <= traced' /\ Len(received') = Len(received)
    BY <1>1, <1>2, <1>3
  <2>2. Len(received') <= traced'
    <3>1. Len(received) <= traced
      BY DEF Stream, ReceivedInOrder
    <3> QED
      BY <1>2, <1>3, <2>1, <3>1
  <2> QED
    BY <1>1, <1>9, <2>2 DEF Stream, ReceivedInOrder
<1>11. Complaints'
  BY <1>1 DEF Stream, Complaints, EveryComplaintHasItsCause
<1> QED
  BY <1>5, <1>8, <1>10, <1>11 DEF Stream

(* The program in SentSoFar's terms, when it goes from place to place.     *)
LEMMA ProgStream ==
  ASSUME PipeTypeOK, PipeTypeOK', Rendezvous, Rendezvous', Stream,
         ProgNext \/ Crash \/ Fork \/ ChildExits
  PROVE  Stream'
<1>0. /\ Len(buf) \in Nat /\ traced \in Nat /\ Len(buf) <= traced /\ Sent \in Nat
      /\ Reading => SentSoFar
  <2>1. Len(buf) <= traced /\ (Reading => SentSoFar)
    BY DEF Stream, StreamInOrder, BufferInOrder
  <2> QED
    BY <2>1, UsedFacts DEF Sent
<1>1. CASE Fork \/ ChildExits
  <2>1. UNCHANGED simVars /\ UNCHANGED <<buf, traced, pipe, prog, met, flags, reversed>>
    BY <1>1 DEF Fork, ChildExits, names
  <2>2. Reading /\ Sent' = Sent => SentSoFar'
    BY <1>0, <2>1 DEF SentSoFar
  <2> QED
    BY <2>1, <2>2, ProgQuiet
<1>2. CASE ProgMknod \/ ProgSymlink \/ ProgOpen \/ ProgOpened \/ ProgUnlinkFifo \/ ProgUnlinkLink
  <2>1. /\ UNCHANGED simVars /\ UNCHANGED <<buf, traced, pipe, flags, reversed>>
        /\ prog \in Waiting \cup Unlinking
        /\ prog' \in Waiting \cup Unlinking \cup {"header", "failed"}
    BY <1>2
    DEF ProgMknod, ProgSymlink, ProgOpen, ProgOpened, ProgUnlinkFifo, ProgUnlinkLink,
        Waiting, Unlinking
  <2>2. prog' # "failed"
    BY <2>1 DEF Rendezvous, Met, NotMet, Waiting
  <2>3. Reading /\ Sent' = Sent => SentSoFar'
    BY <1>0, <2>1, <2>2 DEF SentSoFar, Waiting, Unlinking
  <2>4. prog \notin {"crashed", "exited"}
    BY <2>1 DEF Waiting, Unlinking
  <2> QED
    BY <2>1, <2>3, <2>4, ProgQuiet
<1>3. CASE Flush \/ Exit
  <2>1. /\ UNCHANGED simVars /\ UNCHANGED <<buf, traced, pipe, met, flags, reversed>>
        /\ prog = "run" /\ prog' = IF ino.prog = 0 THEN "mknod" ELSE "write"
    BY <1>3 DEF Flush, Exit, Dump, names
  <2>2. met <=> ino.prog # 0
    BY <2>1 DEF Rendezvous, Met, NotMet, Ended
  <2>3. Reading /\ Sent' = Sent => SentSoFar'
    BY <1>0, <2>1, <2>2 DEF SentSoFar, Waiting, Unlinking
  <2> QED
    BY <2>1, <2>3, ProgQuiet
<1>4. CASE Crash \/ ProgKilled
  <2>1. /\ UNCHANGED simVars /\ UNCHANGED <<buf, traced, pipe, flags, reversed>>
        /\ prog \notin Ended /\ prog' \in {"crashed", "killed"}
    BY <1>4 DEF Crash, ProgKilled, Ended
  <2>2. Reading => Sent <= traced + 3
    <3>1. Reading => Sent = 0 \/ Sent = traced + 3 - Len(buf)
      BY <1>0, <2>1 DEF SentSoFar, PipeTypeOK, PlacesTypeOK, Ended
    <3> QED
      BY <1>0, <3>1
  <2>3. Reading /\ Sent' = Sent => SentSoFar'
    BY <2>1, <2>2 DEF SentSoFar, Waiting, Unlinking
  <2> QED
    BY <2>1, <2>3, ProgQuiet DEF Ended
<1>5. CASE ProgWritten
  <2>1. /\ UNCHANGED simVars /\ UNCHANGED <<buf, traced, pipe, met, flags, reversed>>
        /\ prog = "write" /\ buf = << >> /\ prog' \in {"trailer", "run"}
    BY <1>5 DEF ProgWritten, names
  <2>2. met
    BY <2>1 DEF Rendezvous, NotMet, Waiting
  <2>3. Reading /\ Sent' = Sent => SentSoFar'
    BY <1>0, <2>1, <2>2 DEF SentSoFar, Waiting, Unlinking
  <2> QED
    BY <2>1, <2>3, ProgQuiet
<1>6. CASE ProgHeader
  <2> DEFINE w == <<FORMAT3, flags, SAMPLE_START>>
  <2>1. /\ UNCHANGED simVars /\ UNCHANGED <<buf, traced, met, flags, reversed>>
        /\ prog = "header" /\ prog' = "write" /\ Write(w)
    BY <1>6 DEF ProgHeader, names
  <2>2. w \in Seq(Int) /\ Len(w) = 3 /\ w[1] = -1 /\ w[2] = flags /\ w[3] = -3
    BY DEF FORMAT3, SAMPLE_START, PipeTypeOK, WordsTypeOK
  <2>3. Reading => Sent = 0 /\ Len(buf) = traced
    BY <1>0, <2>1 DEF SentSoFar
  <2> HIDE DEF w
  <2>4. Reading => \A i \in 1 .. Len(w) : w[i] = Word(Sent + i)
    BY <2>2, <2>3 DEF Word
  <2>5. Reading /\ Sent' = Sent + Len(w) => SentSoFar'
    BY <1>0, <2>1, <2>2, <2>3 DEF SentSoFar, Waiting, Unlinking
  <2>6. BufferInOrder'
    BY <2>1 DEF Stream, BufferInOrder
  <2> QED
    BY <2>1, <2>2, <2>4, <2>5, <2>6, WriteStep
<1>7. CASE ProgWrite
  <2> DEFINE w == <<Head(buf)>>
  <2>1. /\ UNCHANGED simVars /\ UNCHANGED <<prog, traced, met, flags, reversed>>
        /\ prog = "write" /\ buf # << >> /\ Write(w) /\ buf' = Tail(buf)
    BY <1>7 DEF ProgWrite, names
  <2>2. buf \in Seq(Int) /\ Len(buf) >= 1
    BY <1>0, <2>1 DEF PipeTypeOK, WordsTypeOK
  <2>3. /\ w \in Seq(Int) /\ Len(w) = 1 /\ w[1] = buf[1]
        /\ Len(buf') = Len(buf) - 1 /\ \A i \in 1 .. Len(buf) - 1 : buf'[i] = buf[i + 1]
    BY <2>1, <2>2
  <2>4. \A i \in 1 .. Len(buf) : buf[i] = traced - Len(buf) + i
    BY DEF Stream, BufferInOrder
  <2>5. Reading => Sent = traced + 3 - Len(buf)
    BY <1>0, <2>1 DEF SentSoFar
  <2> HIDE DEF w
  <2>6. Reading => \A i \in 1 .. Len(w) : w[i] = Word(Sent + i)
    <3>1. w[1] = traced - Len(buf) + 1
      BY <1>0, <2>2, <2>3, <2>4
    <3>2. Reading => Word(Sent + 1) = traced - Len(buf) + 1
      BY <1>0, <2>2, <2>5 DEF Word
    <3> QED
      BY <2>3, <3>1, <3>2
  <2>7. Reading /\ Sent' = Sent + Len(w) => SentSoFar'
    <3>1. Reading /\ Sent' = Sent + Len(w) => Sent' = traced' + 3 - Len(buf')
      BY <1>0, <2>1, <2>3, <2>5
    <3> QED
      BY <2>1, <3>1 DEF SentSoFar, Waiting, Unlinking
  <2>8. BufferInOrder'
    <3>1. ASSUME NEW i \in 1 .. Len(buf') PROVE buf'[i] = traced' - Len(buf') + i
      <4>1. i \in 1 .. Len(buf) - 1 /\ i + 1 \in 1 .. Len(buf)
        BY <1>0, <2>3
      <4> QED
        BY <1>0, <2>1, <2>3, <2>4, <4>1
    <3> QED
      BY <1>0, <2>1, <2>3, <3>1 DEF BufferInOrder
  <2> QED
    BY <2>1, <2>3, <2>6, <2>7, <2>8, WriteStep
<1>8. CASE ProgTrailer
  <2> DEFINE w == <<SAMPLE_END, END>>
  <2>1. /\ UNCHANGED simVars /\ UNCHANGED <<buf, traced, flags, reversed>>
        /\ prog = "trailer" /\ prog' = "exited" /\ Write(w)
    BY <1>8 DEF ProgTrailer
  <2>2. w \in Seq(Int) /\ Len(w) = 2 /\ w[1] = -4 /\ w[2] = -5
    BY DEF SAMPLE_END, END
  <2>3. Reading => Sent = traced + 3
    <3>1. Reading => buf = << >> /\ Sent = traced + 3 - Len(buf)
      BY <1>0, <2>1 DEF SentSoFar
    <3> QED
      BY <1>0, <3>1
  <2> HIDE DEF w
  <2>4. Reading => \A i \in 1 .. Len(w) : w[i] = Word(Sent + i)
    <3>1. Reading => Word(Sent + 1) = -4 /\ Word(Sent + 2) = -5
      BY <1>0, <2>3 DEF Word
    <3> QED
      BY <2>2, <3>1
  <2>5. Reading /\ Sent' = Sent + Len(w) => SentSoFar'
    BY <1>0, <2>1, <2>2, <2>3 DEF SentSoFar, Waiting, Unlinking
  <2>6. BufferInOrder'
    BY <2>1 DEF Stream, BufferInOrder
  <2> QED
    BY <2>1, <2>2, <2>4, <2>5, <2>6, WriteStep
<1> QED
  BY <1>1, <1>2, <1>3, <1>4, <1>5, <1>6, <1>7, <1>8, TraceStep DEF ProgNext

(* Every step keeps the invariant. *)
LEMMA NextIInv == IInv /\ [Next]_vars => IInv'
<1> SUFFICES ASSUME IInv, [Next]_vars PROVE IInv'
  OBVIOUS
<1>1. PipeTypeOK /\ PipeTypeOK' /\ Rendezvous /\ Rendezvous' /\ Stream
  BY TypeNext, RendezvousNext DEF IInv
<1>2. CASE UNCHANGED vars
  <2>1. /\ UNCHANGED simVars /\ UNCHANGED <<buf, traced, pipe, flags, reversed>>
        /\ UNCHANGED <<prog, met>>
    BY <1>2 DEF vars, progVars, names
  <2>2. Reading /\ Sent' = Sent => SentSoFar'
    BY <1>1, <2>1 DEF Stream, StreamInOrder, SentSoFar
  <2> QED
    BY <1>1, <2>1, <2>2, ProgQuiet DEF IInv
<1> QED
  BY <1>1, <1>2, SimStream, ProgStream DEF Next, IInv
-----------------------------------------------------------------------------
(* IInv holds in every reachable state: what S_init_trace_fd and           *)
(* _TR_DUMP_TRACE rely on.                                                 *)
THEOREM TracePipeInvariant == Spec => []IInv
<1>1. Init => IInv
  BY InitIInv
<1>2. IInv /\ [Next]_vars => IInv'
  BY NextIInv
<1> QED
  BY <1>1, <1>2, PTL DEF Spec

(* Whoever comes first to the names, and whoever removes them, no open of  *)
(* S_init_trace_fd or _TR_DUMP_TRACE finds them gone and both processes    *)
(* hold the same fifo.                                                     *)
THEOREM TheTwoMeet == Spec => []RendezvousSucceeds
<1>1. IInv => RendezvousSucceeds
  BY DEF IInv, Rendezvous, Met, NotMet, RendezvousSucceeds, PipeTypeOK, NamesTypeOK,
         Waiting, Unlinking
<1> QED
  BY <1>1, TracePipeInvariant, PTL

(* However the words are cut into flushes, writes, reads and blocks, what  *)
(* S_get_trace_word hands on is a prefix of what the probes traced.        *)
THEOREM TheTraceIsUnbroken == Spec => []TraceArrivesInOrder
<1>1. IInv => TraceArrivesInOrder
  <2> SUFFICES ASSUME IInv PROVE TraceArrivesInOrder
    OBVIOUS
  <2>1. /\ received \in Seq(Int) /\ Len(received) <= traced
        /\ \A i \in 1 .. Len(received) : received[i] = i
    BY DEF IInv, PipeTypeOK, WordsTypeOK, Stream, ReceivedInOrder
  <2> QED
    BY <2>1 DEF TraceArrivesInOrder
<1> QED
  BY <1>1, TracePipeInvariant, PTL

(* Each complaint of S_init_trace_fd, S_start_first_fn_trace,              *)
(* S_get_trace_block and S_trace_exit_point has the cause it names: a cut  *)
(* trace a crash of the program, an empty one a program that ended without *)
(* tracing a word.  Killing it by closing the pipe, a forked child that    *)
(* holds it, and an early stop cause none.                                 *)
THEOREM ComplaintsHaveACause == Spec => []EveryComplaintHasItsCause
<1>1. IInv => EveryComplaintHasItsCause
  BY DEF IInv, Stream, Complaints
<1> QED
  BY <1>1, TracePipeInvariant, PTL
=============================================================================
