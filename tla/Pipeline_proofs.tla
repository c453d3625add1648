--------------------------- MODULE Pipeline_proofs ---------------------------
(***************************************************************************)
(* The superscalar pipeline is correct whatever its widths, its trace and  *)
(* its program: the six safety properties of Pipeline, for every value of  *)
(* the constants.  The argument is in terms of which instruction is ahead  *)
(* of which in the processor; positions in the queues come in only where   *)
(* a queue changes and where the properties are read off the invariant.    *)
(***************************************************************************)
EXTENDS Pipeline, Induction, SequenceTheorems

(* What the programs must be like.  In Lcode prefetches and branches have   *)
(* no destination, nor has a jsr (its results are an attribute); loads, and *)
(* the checks that return from the dcache, have one.  s_super.c tests none  *)
(* of it and relies on all of it.  A post increment store has one too: it   *)
(* does no harm when stores wait for retirement.  When they do not, it      *)
(* leaves its register waiting for ever (NoRegisterWaitsForAStore).         *)
OnlyResultsAreWritten ==
  /\ \A o \in Ops :
       /\ o.type \in {"prefetch", "branch", "jsr"} => o.dests = {}
       /\ o.type \in {"load", "mem_copy_check"} => o.dests # {}
  /\ \A p \in Parms : ~ p.delay_stores =>
       \A o \in p.program : o.type = "store" => o.dests = {}

(* i is ahead of j in q. *)
Before(q, i, j) == \E m, n \in DOMAIN q : m < n /\ q[m] = i /\ q[n] = j

(* No instruction is twice in q. *)
Once(q) == \A i \in Range(q) : ~ Before(q, i, i)

Sints ==
  [op : Ops, off_path : BOOLEAN, mispredicted : BOOLEAN, completed : BOOLEAN,
   squashed : BOOLEAN, value_forwarded : BOOLEAN, wait : [Regs -> Nat],
   position : Nat]

Processors ==
  [ifetch_pc : Int, on_path_pc : Nat, on_correct_path : BOOLEAN,
   ifetch_enabled : BOOLEAN, enable_ifetch_next_cycle : BOOLEAN,
   icache_addr_requested : Int, halt_point : Nat, halting : BOOLEAN]

Phases == {"memory", "retire", "exec", "decode", "fetch", "halted"}

TypeOK ==
  /\ parm \in Parms
  /\ sint \in [Ids -> Sints \cup {NoSint}]
  /\ rf \in [Regs -> [tag : Ids \cup {NULL}, value_avail : BOOLEAN]]
  /\ proc \in Processors
  /\ fetch_stage \in [Stages -> Seq(Ids)]
  /\ decode_queue \in Seq(Ids) /\ exec_queue \in Seq(Ids)
  /\ reorder_queue \in Seq(Ids) /\ pending_stores \in Seq(Ids)
  /\ dcache_request \in Seq(Ids) /\ outstanding \in SUBSET Ids
  /\ phase \in Phases /\ todo \in Seq(Ids)
  /\ traced \in Nat /\ finished \in SUBSET (1 .. traced)

Waiting == Range(decode_queue) \cup Range(InFetch)
InPipe == Range(InOrder)

(* A Sint is in use while an instruction is in the processor or has left   *)
(* it for the dcache; no queue holds it twice; what is executing has been  *)
(* issued and is not done; what has not been issued is neither done nor    *)
(* squashed.                                                               *)
Placed ==
  /\ Live = InPipe \cup Range(dcache_request)
  /\ Once(InOrder) /\ Once(exec_queue)
  /\ Range(exec_queue) \subseteq Range(reorder_queue)
  /\ \A i \in Range(exec_queue) : ~ sint[i].completed
  /\ \A i \in Waiting : ~ sint[i].completed /\ ~ sint[i].squashed

(* The dcache is to set the time of i. *)
Waits(i) ==
  /\ i \in Range(reorder_queue) /\ ~ sint[i].completed
  /\ sint[i].wait[sint[i].op.first_dest] = Never
  /\ sint[i].op.type \in {"load", "mem_copy_check"}

(* A request is the last that is left of a store or a prefetch, or an      *)
(* instruction waits for its answer.                                       *)
Requested ==
  /\ \A i \in Range(dcache_request) :
       IF IsStore(i) \/ IsDirective(i)
       THEN i \notin InPipe /\ (IsDirective(i) => ~ sint[i].completed)
       ELSE Waits(i)
  /\ \A i \in outstanding : Waits(i) /\ i \notin Range(dcache_request)

(* What a stage has yet to visit is still in its queue; what decode has    *)
(* passed by, and left where it was, is off the path.                      *)
Visiting ==
  /\ phase = "exec" => Once(todo) /\ Range(todo) \subseteq Range(exec_queue)
  /\ phase = "decode" =>
       /\ Once(todo) /\ Range(todo) \subseteq Range(decode_queue)
       /\ \A i \in Range(decode_queue), j \in Range(todo) :
            Before(decode_queue, i, j) => sint[i].off_path \/ Before(todo, i, j)

(* A mispredicted branch of the trace that has not been resolved. *)
Unresolved(i) == sint[i].mispredicted /\ ~ sint[i].off_path /\ ~ sint[i].completed

(* b is the only one, with the trace ahead of it and the wrong path behind.*)
Blamed(b) ==
  /\ b \in InPipe /\ Unresolved(b)
  /\ \A i \in InPipe :
       /\ Unresolved(i) => i = b
       /\ Before(InOrder, b, i) => sint[i].off_path
       /\ Before(InOrder, i, b) => sint[i].squashed \/ ~ sint[i].off_path

Paths ==
  /\ \A i \in InPipe : /\ sint[i].squashed => sint[i].off_path
                       /\ sint[i].mispredicted => sint[i].op.type \in {"branch", "jsr"}
  /\ proc.on_correct_path =>
       \A i \in InPipe : /\ ~ Unresolved(i)
                         /\ sint[i].squashed \/ ~ sint[i].off_path
  /\ ~ proc.on_correct_path => \E b \in Ids : Blamed(b)
  /\ proc.on_path_pc = traced + 1
  /\ proc.on_correct_path => proc.ifetch_pc = proc.on_path_pc

OnPath == {i \in InPipe : ~ sint[i].off_path}

Conserved ==
  /\ \A i, j \in OnPath : Before(InOrder, i, j) => sint[i].position < sint[j].position
  /\ {sint[i].position : i \in OnPath} = (1 .. traced) \ finished

(* The unsquashed instructions of the reorder buffer that write r. *)
WritersOf(r) ==
  {i \in Range(reorder_queue) : r \in sint[i].op.dests /\ ~ sint[i].squashed}

(* The tag of r, if it has one, has nothing but delayed stores behind it    *)
(* that write r; its value is there no sooner than its time and no later    *)
(* than its writer is done.                                                 *)
Tagged(r) ==
  LET t == rf[r].tag
  IN /\ t = NULL => rf[r].value_avail /\ \A j \in WritersOf(r) : IsStore(j)
     /\ t # NULL =>
          /\ t \in WritersOf(r)
          /\ \A j \in WritersOf(r) : Before(reorder_queue, t, j) => IsStore(j)
          /\ rf[r].value_avail => sint[t].wait[r] = 0
          /\ sint[t].completed => rf[r].value_avail

(* What is done has had the time of each of its results. *)
Settled(i) == sint[i].completed => \A r \in sint[i].op.dests : sint[i].wait[r] = 0

Scored ==
  /\ \A r \in Regs : Tagged(r)
  /\ \A i \in Range(reorder_queue) : Settled(i)

Idle == phase = "halted" => ~ InFlight

IInv ==
  /\ TypeOK /\ Placed /\ Requested /\ Visiting /\ Paths /\ Conserved /\ Scored
  /\ Idle /\ punt = "none"

(* What is in the processor is of the program that is simulated. *)
Programmed == \A i \in Ids : sint[i] # NoSint => sint[i].op \in parm.program

-----------------------------------------------------------------------------
(* Sequences: what is in them and what is ahead of what.                   *)

(* What is ahead of something, and what it is ahead of, is in the sequence.*)
LEMMA BeforeRange ==
  ASSUME NEW q, NEW i, NEW j, Before(q, i, j)
  PROVE  i \in Range(q) /\ j \in Range(q)
BY DEF Before, Range

(* The elements of a sequence. *)
LEMMA InRange ==
  ASSUME NEW S, NEW q \in Seq(S)
  PROVE  /\ \A i \in Range(q) : i \in S /\ \E n \in 1 .. Len(q) : q[n] = i
         /\ \A n \in 1 .. Len(q) : q[n] \in Range(q)
         /\ q # << >> => Range(q) # {}
BY DEF Range

(* Nothing is in the empty sequence. *)
LEMMA EmptyFacts ==
  /\ Range(<< >>) = {}
  /\ \A i, j : ~ Before(<< >>, i, j)
  /\ Once(<< >>)
BY DEF Range, Before, Once

(* A sequence with nothing in it is empty. *)
LEMMA EmptyRange ==
  ASSUME NEW S, NEW q \in Seq(S), Range(q) = {}
  PROVE  q = << >>
BY InRange

(* Two sequences in a row. *)
LEMMA BeforeConcat ==
  ASSUME NEW S, NEW p \in Seq(S), NEW q \in Seq(S), NEW i, NEW j
  PROVE  /\ p \o q \in Seq(S)
         /\ Range(p \o q) = Range(p) \cup Range(q)
         /\ Before(p \o q, i, j) <=> \/ Before(p, i, j) \/ Before(q, i, j)
                                     \/ i \in Range(p) /\ j \in Range(q)
<1> DEFINE z == p \o q
<1>1. z \in Seq(S) /\ Range(z) = Range(p) \cup Range(q)
  BY RangeConcatenation
<1>2. /\ Len(z) = Len(p) + Len(q) /\ Len(p) \in Nat /\ Len(q) \in Nat
      /\ \A n \in 1 .. Len(p) : z[n] = p[n]
      /\ \A n \in 1 .. Len(q) : z[Len(p) + n] = q[n]
  OBVIOUS
<1>3. \A n \in 1 .. Len(z) : \/ n \in 1 .. Len(p) /\ z[n] = p[n]
                             \/ n - Len(p) \in 1 .. Len(q) /\ z[n] = q[n - Len(p)]
  OBVIOUS
<1>4. DOMAIN p = 1 .. Len(p) /\ DOMAIN q = 1 .. Len(q) /\ DOMAIN z = 1 .. Len(z)
  BY <1>1
<1> HIDE DEF z
<1>5. ASSUME Before(z, i, j)
      PROVE  Before(p, i, j) \/ Before(q, i, j) \/ (i \in Range(p) /\ j \in Range(q))
  <2>1. PICK m \in 1 .. Len(z), n \in 1 .. Len(z) : m < n /\ z[m] = i /\ z[n] = j
    BY <1>4, <1>5 DEF Before
  <2>2. CASE n \in 1 .. Len(p)
    BY <1>2, <1>4, <2>1, <2>2 DEF Before
  <2>3. CASE m \in 1 .. Len(p) /\ n \notin 1 .. Len(p)
    BY <1>2, <1>3, <1>4, <2>1, <2>3 DEF Range
  <2>4. CASE m \notin 1 .. Len(p)
    <3>1. m - Len(p) \in 1 .. Len(q) /\ n - Len(p) \in 1 .. Len(q)
      BY <1>2, <2>1, <2>4
    <3>2. q[m - Len(p)] = i /\ q[n - Len(p)] = j /\ m - Len(p) < n - Len(p)
      <4>1. n \notin 1 .. Len(p)
        BY <1>2, <2>1, <2>4
      <4>2. q[m - Len(p)] = i /\ q[n - Len(p)] = j
        BY <1>3, <2>1, <2>4, <4>1
      <4> QED BY <4>2, <2>1, <1>2
    <3> QED BY <1>4, <3>1, <3>2 DEF Before
  <2> QED BY <2>1, <2>2, <2>3, <2>4, <1>2
<1>6. Before(p, i, j) => Before(z, i, j)
  <2>1. \A n \in 1 .. Len(p) : n \in 1 .. Len(z)
    BY <1>2
  <2> QED BY <1>2, <1>4, <2>1 DEF Before
<1>7. ASSUME Before(q, i, j) PROVE Before(z, i, j)
  <2>1. PICK m \in 1 .. Len(q), n \in 1 .. Len(q) : m < n /\ q[m] = i /\ q[n] = j
    BY <1>4, <1>7 DEF Before
  <2>2. /\ Len(p) + m \in 1 .. Len(z) /\ Len(p) + n \in 1 .. Len(z)
        /\ Len(p) + m < Len(p) + n
    BY <1>2, <2>1
  <2>3. z[Len(p) + m] = i /\ z[Len(p) + n] = j
    BY <1>2, <2>1
  <2> QED BY <1>4, <2>2, <2>3 DEF Before
<1>8. ASSUME i \in Range(p), j \in Range(q) PROVE Before(z, i, j)
  <2>1. PICK m \in 1 .. Len(p), n \in 1 .. Len(q) : p[m] = i /\ q[n] = j
    BY <1>4, <1>8 DEF Range
  <2>2. m \in 1 .. Len(z) /\ Len(p) + n \in 1 .. Len(z) /\ m < Len(p) + n
    BY <1>2, <2>1
  <2>3. z[m] = i /\ z[Len(p) + n] = j
    BY <1>2, <2>1
  <2> QED BY <1>4, <2>2, <2>3 DEF Before
<1>9. Before(z, i, j) <=> \/ Before(p, i, j) \/ Before(q, i, j)
                          \/ i \in Range(p) /\ j \in Range(q)
  BY <1>5, <1>6, <1>7, <1>8
<1> QED BY <1>1, <1>9 DEF z

(* It does not matter where three in a row are divided. *)
LEMMA Associates ==
  ASSUME NEW p \in Seq(Ids), NEW q \in Seq(Ids), NEW r \in Seq(Ids)
  PROVE  (p \o q) \o r = p \o (q \o r)
BY ConcatAssociative

(* A sequence of one, and a sequence with one more. *)
LEMMA BeforeAppend ==
  ASSUME NEW S, NEW q \in Seq(S), NEW e \in S, NEW i, NEW j
  PROVE  /\ Append(q, e) \in Seq(S)
         /\ Range(Append(q, e)) = Range(q) \cup {e}
         /\ Before(Append(q, e), i, j) <=> Before(q, i, j) \/ (i \in Range(q) /\ j = e)
<1>1. Append(q, e) = q \o <<e>> /\ <<e>> \in Seq(S)
  BY AppendIsConcat
<1>2. Range(<<e>>) = {e} /\ ~ Before(<<e>>, i, j)
  BY DEF Range, Before
<1> QED BY <1>1, <1>2, BeforeConcat

(* A sequence that is not empty is its head and then its tail. *)
LEMMA BeforeTail ==
  ASSUME NEW S, NEW q \in Seq(S), q # << >>, NEW i, NEW j
  PROVE  /\ Head(q) \in S /\ Tail(q) \in Seq(S) /\ q = <<Head(q)>> \o Tail(q)
         /\ Range(q) = {Head(q)} \cup Range(Tail(q))
         /\ Before(q, i, j) <=> \/ Before(Tail(q), i, j)
                                \/ i = Head(q) /\ j \in Range(Tail(q))
<1>1. Head(q) \in S /\ Tail(q) \in Seq(S) /\ <<Head(q)>> \in Seq(S)
  OBVIOUS
<1>2. q = <<Head(q)>> \o Tail(q)
  OBVIOUS
<1>3. Range(<<Head(q)>>) = {Head(q)} /\ ~ Before(<<Head(q)>>, i, j)
  BY DEF Range, Before
<1> HIDE <1>2
<1> DEFINE h == <<Head(q)>>
           t == Tail(q)
<1> HIDE DEF h, t
<1>4. /\ Range(h \o t) = Range(h) \cup Range(t)
      /\ Before(h \o t, i, j) <=> \/ Before(h, i, j) \/ Before(t, i, j)
                                  \/ i \in Range(h) /\ j \in Range(t)
  BY <1>1, BeforeConcat DEF h, t
<1> QED BY <1>1, <1>2, <1>3, <1>4 DEF h, t

(* Where nothing is twice, "ahead of" is a total order. *)
LEMMA BeforeIsTotal ==
  ASSUME NEW S, NEW q \in Seq(S), NEW i \in Range(q), NEW j \in Range(q), i # j
  PROVE  Before(q, i, j) \/ Before(q, j, i)
<1>1. PICK m \in 1 .. Len(q), n \in 1 .. Len(q) : q[m] = i /\ q[n] = j
  BY InRange
<1>2. m < n \/ n < m
  BY <1>1
<1> QED BY <1>1, <1>2 DEF Before

(* There, too, what is ahead of what is ahead of k is ahead of k. *)
LEMMA BeforeIsTransitive ==
  ASSUME NEW S, NEW q \in Seq(S), Once(q), NEW i, NEW j, NEW k,
         Before(q, i, j), Before(q, j, k)
  PROVE  Before(q, i, k)
<1>1. PICK m, n \in DOMAIN q : m < n /\ q[m] = i /\ q[n] = j
  BY DEF Before
<1>2. PICK x, y \in DOMAIN q : x < y /\ q[x] = j /\ q[y] = k
  BY DEF Before
<1>3. m \in Int /\ n \in Int /\ x \in Int /\ y \in Int
  BY <1>1, <1>2
<1>4. j \in Range(q) /\ ~ Before(q, j, j)
  BY BeforeRange DEF Once
<1>5. n = x
  BY <1>1, <1>2, <1>3, <1>4 DEF Before
<1>6. m < y
  BY <1>1, <1>2, <1>3, <1>5
<1> QED BY <1>1, <1>2, <1>6 DEF Before

(* Nothing is ahead of the head. *)
LEMMA HeadIsFirst ==
  ASSUME NEW S, NEW q \in Seq(S), q # << >>, Once(q), NEW i
  PROVE  /\ ~ Before(q, i, Head(q)) /\ Head(q) \notin Range(Tail(q)) /\ Once(Tail(q))
         /\ Head(q) \in Range(q) /\ Range(Tail(q)) = Range(q) \ {Head(q)}
<1>1. \A x, y : Before(q, x, y) <=> \/ Before(Tail(q), x, y)
                                    \/ x = Head(q) /\ y \in Range(Tail(q))
  BY BeforeTail
<1>2. Range(q) = {Head(q)} \cup Range(Tail(q))
  BY BeforeTail
<1>3. Head(q) \notin Range(Tail(q))
  BY <1>1, <1>2 DEF Once
<1>4. ~ Before(q, i, Head(q))
  BY <1>1, <1>3, BeforeRange
<1>5. Once(Tail(q))
  BY <1>1, <1>2 DEF Once
<1> QED BY <1>2, <1>3, <1>4, <1>5

(* A filter takes the elements of its set and leaves them in their order. *)
LEMMA BeforeOnly ==
  ASSUME NEW S, NEW q \in Seq(S), NEW set
  PROVE  /\ Only(q, set) \in Seq(S)
         /\ Range(Only(q, set)) = Range(q) \cap set
         /\ \A i, j : Before(Only(q, set), i, j) => Before(q, i, j)
<1>1. PICK f : IsKept(f, q, set, Len(q)) /\ Only(q, set) = f[Len(q)]
  BY OnlyIsKept
<1>2. PICK N \in Nat : N = Len(q) /\ \A n \in 1 .. N : q[n] \in S
  OBVIOUS
<1>3. Kept(f, q, set, N)
  <2>1. IsKept(f, q, set, N)
    BY <1>1, <1>2
  <2> QED BY ONLY <2>1, N \in Nat, KeptFacts
<1> DEFINE Upto(n) == {q[m] : m \in 1 .. n}
           Good(n) == /\ f[n] \in Seq(S)
                      /\ Range(f[n]) = Upto(n) \cap set
                      /\ \A i, j : Before(f[n], i, j) => Before(q, i, j)
           T == {n \in Nat : n <= N => Good(n)}
<1>4. 0 \in T
  <2>1. f[0] = << >> /\ << >> \in Seq(S) /\ Upto(0) = {}
    BY <1>3 DEF Kept
  <2>2. Good(0)
    BY <2>1, EmptyFacts
  <2> QED BY <2>2
<1>5. ASSUME NEW n \in T PROVE n + 1 \in T
  <2> SUFFICES ASSUME n + 1 <= N PROVE Good(n + 1)
    OBVIOUS
  <2>1. n \in Nat /\ n \in 0 .. N - 1 /\ Good(n) /\ n + 1 \in 1 .. N
    OBVIOUS
  <2>2. Upto(n + 1) = Upto(n) \cup {q[n + 1]}
    <3>1. 1 .. n + 1 = (1 .. n) \cup {n + 1}
      BY <2>1
    <3> QED BY <3>1
  <2>3. q[n + 1] \in S
    BY <1>2, <2>1
  <2>4. /\ q[n + 1] \in set => f[n + 1] = Append(f[n], q[n + 1])
        /\ q[n + 1] \notin set => f[n + 1] = f[n]
    BY <1>3, <2>1 DEF Kept
  <2>5. \A i \in Upto(n) : Before(q, i, q[n + 1])
    <3>1. ASSUME NEW m \in 1 .. n PROVE Before(q, q[m], q[n + 1])
      <4>1. m \in DOMAIN q /\ n + 1 \in DOMAIN q /\ m < n + 1
        BY <1>2, <2>1
      <4> QED BY <4>1 DEF Before
    <3> QED BY <3>1
  <2> HIDE DEF T, Upto
  <2>6. CASE q[n + 1] \notin set
    BY <2>1, <2>2, <2>4, <2>6
  <2>7. CASE q[n + 1] \in set
    <3> DEFINE p == f[n]
               e == q[n + 1]
    <3>1. f[n + 1] = Append(p, e) /\ p \in Seq(S) /\ e \in S /\ Range(p) = Upto(n) \cap set
      BY <2>1, <2>3, <2>4, <2>7
    <3> HIDE DEF p, e
    <3>2. /\ Append(p, e) \in Seq(S) /\ Range(Append(p, e)) = Range(p) \cup {e}
          /\ \A i, j : Before(Append(p, e), i, j) <=> Before(p, i, j) \/ (i \in Range(p) /\ j = e)
      BY <3>1, BeforeAppend
    <3>3. \A i, j : Before(p, i, j) => Before(q, i, j)
      BY <2>1 DEF p
    <3>4. \A i \in Range(p) : Before(q, i, e)
      BY <2>5, <3>1 DEF e
    <3>5. Range(Append(p, e)) = Upto(n + 1) \cap set
      BY <2>2, <2>7, <3>1, <3>2 DEF e
    <3> QED BY <3>1, <3>2, <3>3, <3>4, <3>5
  <2> QED BY <2>6, <2>7
<1>6. T = Nat
  <2>1. T \in SUBSET Nat
    OBVIOUS
  <2> HIDE DEF T
  <2> QED BY <1>4, <1>5, <2>1, SetInduction
<1>7. Upto(N) = Range(q)
  BY <1>2 DEF Range
<1>8. Good(N)
  <2>1. N \in T
    BY <1>6
  <2> HIDE DEF Good
  <2> QED BY <2>1
<1> QED BY <1>1, <1>2, <1>7, <1>8

-----------------------------------------------------------------------------
(* The fetch stages in a row.                                              *)

FetchOf(fs) ==
  LET f[s \in 0 .. NumFetchStages] == IF s = 0 THEN << >> ELSE fs[s] \o f[s - 1]
  IN f[NumFetchStages]

(* The recursive function of InFetch up to n, as an equation. *)
IsRow(f, fs, n) == f = [s \in 0 .. n |-> IF s = 0 THEN << >> ELSE fs[s] \o f[s - 1]]

(* The same, step by step. *)
Row(f, fs) ==
  f[0] = << >> /\ \A s \in Stages : f[s] = fs[s] \o f[s - 1]

(* There is such a function: by induction on the number of stages. *)
LEMMA RowExists ==
  ASSUME NEW fs, NEW n \in Nat
  PROVE  \E f : IsRow(f, fs, n)
<1> DEFINE T == {m \in Nat : \E f : IsRow(f, fs, m)}
<1>1. 0 \in T
  <2>1. IsRow([s \in 0 .. 0 |-> << >>], fs, 0)
    BY DEF IsRow
  <2> QED BY <2>1
<1>2. ASSUME NEW m \in T PROVE m + 1 \in T
  <2>1. PICK f : IsRow(f, fs, m)
    OBVIOUS
  <2> DEFINE e == fs[m + 1] \o f[m]
             h == [s \in 0 .. m + 1 |-> IF s = m + 1 THEN e ELSE f[s]]
  <2>2. \A s \in 0 .. m : f[s] = IF s = 0 THEN << >> ELSE fs[s] \o f[s - 1]
    BY <2>1 DEF IsRow
  <2>3. h[m + 1] = e /\ h[m] = f[m] /\ \A s \in 0 .. m : h[s] = f[s]
    OBVIOUS
  <2>4. ASSUME NEW s \in 0 .. m + 1
        PROVE  h[s] = IF s = 0 THEN << >> ELSE fs[s] \o h[s - 1]
    <3>1. CASE s = m + 1
      BY <2>3, <3>1
    <3>2. CASE s \in 0 .. m
      <4>1. s # 0 => h[s - 1] = f[s - 1]
        BY <2>3, <3>2
      <4> HIDE DEF h
      <4> QED BY <2>2, <2>3, <3>2, <4>1
    <3> QED BY <3>1, <3>2
  <2>5. h = [s \in 0 .. m + 1 |-> h[s]]
    OBVIOUS
  <2> HIDE DEF h
  <2>6. IsRow(h, fs, m + 1)
    BY <2>4, <2>5 DEF IsRow
  <2> QED BY <2>6
<1>3. T = Nat
  <2>1. T \in SUBSET Nat
    OBVIOUS
  <2> HIDE DEF T
  <2> QED BY <1>1, <1>2, <2>1, SetInduction
<1> QED BY <1>3

(* There is a fetch stage. *)
LEMMA NumFetchStagesIsPositive ==
  NumFetchStages \in Nat /\ NumFetchStages > 0 /\ 1 \in Stages /\ NumFetchStages \in Stages
BY PipelineAssumption DEF Stages

(* FetchOf is the last value of a function that goes step by step. *)
LEMMA FetchOfIsRow ==
  ASSUME NEW fs
  PROVE  \E f : Row(f, fs) /\ FetchOf(fs) = f[NumFetchStages]
<1> DEFINE f == CHOOSE f : IsRow(f, fs, NumFetchStages)
<1>1. IsRow(f, fs, NumFetchStages)
  BY RowExists, NumFetchStagesIsPositive
<1>2. FetchOf(fs) = f[NumFetchStages]
  BY DEF FetchOf, IsRow
<1> HIDE DEF f
<1>3. \A s \in 0 .. NumFetchStages : f[s] = IF s = 0 THEN << >> ELSE fs[s] \o f[s - 1]
  BY <1>1 DEF IsRow
<1>4. Row(f, fs)
  <2>1. f[0] = << >>
    BY <1>3, NumFetchStagesIsPositive
  <2>2. ASSUME NEW s \in Stages PROVE f[s] = fs[s] \o f[s - 1]
    <3>1. s \in 0 .. NumFetchStages /\ s # 0
      BY NumFetchStagesIsPositive DEF Stages
    <3> QED BY <1>3, <3>1
  <2> QED BY <2>1, <2>2 DEF Row
<1> QED BY <1>2, <1>4

(* What has been fetched is what the fetch stages hold in a row. *)
LEMMA InFetchIsFetchOf ==
  InFetch = FetchOf(fetch_stage) /\ InFetch' = FetchOf(fetch_stage')
BY DEF InFetch, FetchOf

(* A row holds what its stages hold. *)
LEMMA RowFacts ==
  ASSUME NEW fs \in [Stages -> Seq(Ids)], NEW f, Row(f, fs), NEW n \in 0 .. NumFetchStages
  PROVE  f[n] \in Seq(Ids) /\ Range(f[n]) = UNION {Range(fs[s]) : s \in 1 .. n}
<1> DEFINE Held(m) == UNION {Range(fs[s]) : s \in 1 .. m}
           T == {m \in Nat : m <= NumFetchStages =>
                               f[m] \in Seq(Ids) /\ Range(f[m]) = Held(m)}
<1>1. 0 \in T
  <2>1. f[0] = << >> /\ Held(0) = {} /\ << >> \in Seq(Ids)
    BY DEF Row
  <2> QED BY <2>1, EmptyFacts
<1>2. ASSUME NEW m \in T PROVE m + 1 \in T
  <2> SUFFICES ASSUME m + 1 <= NumFetchStages
               PROVE  f[m + 1] \in Seq(Ids) /\ Range(f[m + 1]) = Held(m + 1)
    OBVIOUS
  <2>1. m \in Nat /\ m + 1 \in Stages /\ f[m] \in Seq(Ids) /\ Range(f[m]) = Held(m)
    BY NumFetchStagesIsPositive DEF Stages
  <2>2. f[m + 1] = fs[m + 1] \o f[m] /\ fs[m + 1] \in Seq(Ids)
    <3>1. (m + 1) - 1 = m
      BY <2>1
    <3>2. f[m + 1] = fs[m + 1] \o f[(m + 1) - 1]
      BY <2>1 DEF Row
    <3> QED BY <2>1, <3>1, <3>2
  <2>3. Held(m + 1) = Held(m) \cup Range(fs[m + 1])
    <3>1. 1 .. m + 1 = (1 .. m) \cup {m + 1}
      BY <2>1
    <3> QED BY <3>1
  <2> HIDE DEF T, Held
  <2>4. /\ fs[m + 1] \o f[m] \in Seq(Ids)
        /\ Range(fs[m + 1] \o f[m]) = Range(fs[m + 1]) \cup Range(f[m])
    BY <2>1, <2>2, BeforeConcat
  <2> QED BY <2>1, <2>2, <2>3, <2>4
<1>3. T = Nat
  <2>1. T \in SUBSET Nat
    OBVIOUS
  <2> HIDE DEF T
  <2> QED BY <1>1, <1>2, <2>1, SetInduction
<1>4. n \in T /\ n <= NumFetchStages
  <2> HIDE DEF T
  <2> QED BY <1>3, NumFetchStagesIsPositive
<1> QED BY <1>4

(* In a row the fetch stages hold what each of them holds. *)
LEMMA FetchOfFacts ==
  ASSUME NEW fs \in [Stages -> Seq(Ids)]
  PROVE  FetchOf(fs) \in Seq(Ids) /\ Range(FetchOf(fs)) = UNION {Range(fs[s]) : s \in Stages}
<1>1. PICK f : Row(f, fs) /\ FetchOf(fs) = f[NumFetchStages]
  BY FetchOfIsRow
<1>2. NumFetchStages \in 0 .. NumFetchStages
  BY NumFetchStagesIsPositive
<1>3. /\ f[NumFetchStages] \in Seq(Ids)
      /\ Range(f[NumFetchStages]) = UNION {Range(fs[s]) : s \in 1 .. NumFetchStages}
  BY <1>1, <1>2, RowFacts
<1> QED BY <1>1, <1>3 DEF Stages

(* The last stage is the first of the row. *)
LEMMA FetchOfLast ==
  ASSUME NEW fs \in [Stages -> Seq(Ids)], NEW x \in Seq(Ids)
  PROVE  \E rest \in Seq(Ids) :
           /\ FetchOf(fs) = fs[NumFetchStages] \o rest
           /\ FetchOf([fs EXCEPT ![NumFetchStages] = x]) = x \o rest
<1> DEFINE gs == [fs EXCEPT ![NumFetchStages] = x]
<1>1. PICK f : Row(f, fs) /\ FetchOf(fs) = f[NumFetchStages]
  BY FetchOfIsRow
<1>2. PICK g : Row(g, gs) /\ FetchOf(gs) = g[NumFetchStages]
  BY FetchOfIsRow
<1>3. /\ gs[NumFetchStages] = x
      /\ \A s \in Stages : s # NumFetchStages => gs[s] = fs[s]
  BY NumFetchStagesIsPositive
<1> HIDE DEF gs
<1> DEFINE T == {n \in Nat : n < NumFetchStages => g[n] = f[n]}
<1>4. 0 \in T
  BY <1>1, <1>2 DEF Row
<1>5. ASSUME NEW n \in T PROVE n + 1 \in T
  <2> SUFFICES ASSUME n + 1 < NumFetchStages PROVE g[n + 1] = f[n + 1]
    OBVIOUS
  <2>1. /\ n \in Nat /\ n + 1 \in Stages /\ n + 1 # NumFetchStages /\ (n + 1) - 1 = n
        /\ g[n] = f[n]
    BY NumFetchStagesIsPositive DEF Stages
  <2>2. g[n + 1] = gs[n + 1] \o g[(n + 1) - 1] /\ f[n + 1] = fs[n + 1] \o f[(n + 1) - 1]
    BY <1>1, <1>2, <2>1 DEF Row
  <2> QED BY <1>3, <2>1, <2>2
<1>6. T = Nat
  <2>1. T \in SUBSET Nat
    OBVIOUS
  <2> HIDE DEF T
  <2> QED BY <1>4, <1>5, <2>1, SetInduction
<1> DEFINE rest == f[NumFetchStages - 1]
<1>7. g[NumFetchStages - 1] = rest
  <2>1. NumFetchStages - 1 \in T /\ NumFetchStages - 1 < NumFetchStages
    <3> HIDE DEF T
    <3> QED BY <1>6, NumFetchStagesIsPositive
  <2> QED BY <2>1
<1>8. rest \in Seq(Ids)
  <2>1. NumFetchStages - 1 \in 0 .. NumFetchStages
    BY NumFetchStagesIsPositive
  <2> QED BY <1>1, <2>1, RowFacts
<1>9. FetchOf(fs) = fs[NumFetchStages] \o rest /\ FetchOf(gs) = x \o rest
  BY <1>1, <1>2, <1>3, <1>7, NumFetchStagesIsPositive DEF Row
<1> QED BY <1>8, <1>9 DEF gs

(* The first stage is the end of the row. *)
LEMMA FetchOfAppend ==
  ASSUME NEW fs \in [Stages -> Seq(Ids)], NEW i \in Ids
  PROVE  FetchOf([fs EXCEPT ![1] = Append(@, i)]) = Append(FetchOf(fs), i)
<1> DEFINE gs == [fs EXCEPT ![1] = Append(@, i)]
<1>1. PICK f : Row(f, fs) /\ FetchOf(fs) = f[NumFetchStages]
  BY FetchOfIsRow
<1>2. PICK g : Row(g, gs) /\ FetchOf(gs) = g[NumFetchStages]
  BY FetchOfIsRow
<1>3. /\ gs[1] = Append(fs[1], i)
      /\ \A s \in Stages : s # 1 => gs[s] = fs[s]
  BY NumFetchStagesIsPositive
<1> HIDE DEF gs
<1> DEFINE T == {n \in Nat : n + 1 <= NumFetchStages => g[n + 1] = Append(f[n + 1], i)}
<1>4. 0 \in T
  <2>1. 1 \in Stages /\ 1 - 1 = 0 /\ 0 + 1 = 1
    BY NumFetchStagesIsPositive
  <2>2. g[1] = gs[1] \o g[1 - 1] /\ f[1] = fs[1] \o f[1 - 1]
    BY <1>1, <1>2, <2>1 DEF Row
  <2>3. f[0] = << >> /\ g[0] = << >>
    BY <1>1, <1>2 DEF Row
  <2>4. fs[1] \in Seq(Ids) /\ Append(fs[1], i) \in Seq(Ids)
    BY <2>1
  <2>5. g[1] = Append(fs[1], i) /\ f[1] = fs[1]
    <3>1. g[1] = Append(fs[1], i) \o << >> /\ f[1] = fs[1] \o << >>
      BY <1>3, <2>1, <2>2, <2>3
    <3> QED BY <3>1, <2>4, ConcatEmptySeq
  <2> QED BY <2>1, <2>5
<1>5. ASSUME NEW n \in T PROVE n + 1 \in T
  <2> SUFFICES ASSUME (n + 1) + 1 <= NumFetchStages
               PROVE  g[(n + 1) + 1] = Append(f[(n + 1) + 1], i)
    OBVIOUS
  <2> DEFINE s == (n + 1) + 1
  <2>1. n \in Nat /\ s \in Stages /\ s # 1 /\ s - 1 = n + 1 /\ n + 1 \in 0 .. NumFetchStages
    BY NumFetchStagesIsPositive DEF Stages
  <2>2. g[s - 1] = Append(f[s - 1], i)
    BY <2>1
  <2> HIDE DEF s, T
  <2>3. g[s] = gs[s] \o g[s - 1] /\ f[s] = fs[s] \o f[s - 1]
    BY <1>1, <1>2, <2>1 DEF Row
  <2>4. fs[s] \in Seq(Ids) /\ f[s - 1] \in Seq(Ids) /\ gs[s] = fs[s]
    BY <1>1, <1>3, <2>1, RowFacts
  <2>5. fs[s] \o Append(f[s - 1], i) = Append(fs[s] \o f[s - 1], i)
    <3>1. fs[s] \o f[s - 1] \in Seq(Ids) /\ <<i>> \in Seq(Ids)
      BY <2>4
    <3>2. /\ Append(f[s - 1], i) = f[s - 1] \o <<i>>
          /\ Append(fs[s] \o f[s - 1], i) = (fs[s] \o f[s - 1]) \o <<i>>
      BY <2>4, <3>1, AppendIsConcat
    <3> DEFINE a == fs[s]
               b == f[s - 1]
               c == <<i>>
    <3>3. (a \o b) \o c = a \o (b \o c)
      <4>1. a \in Seq(Ids) /\ b \in Seq(Ids) /\ c \in Seq(Ids)
        BY <2>4, <3>1
      <4> HIDE DEF a, b, c
      <4> QED BY <4>1, Associates
    <3> QED BY <3>2, <3>3
  <2> QED BY <2>2, <2>3, <2>4, <2>5 DEF s
<1>6. T = Nat
  <2>1. T \in SUBSET Nat
    OBVIOUS
  <2> HIDE DEF T
  <2> QED BY <1>4, <1>5, <2>1, SetInduction
<1>7. g[NumFetchStages] = Append(f[NumFetchStages], i)
  <2>1. NumFetchStages - 1 \in T /\ (NumFetchStages - 1) + 1 = NumFetchStages
    <3> HIDE DEF T
    <3> QED BY <1>6, NumFetchStagesIsPositive
  <2>2. (NumFetchStages - 1) + 1 <= NumFetchStages
    BY NumFetchStagesIsPositive
  <2> QED BY <2>1, <2>2
<1> QED BY <1>1, <1>2, <1>7 DEF gs

-----------------------------------------------------------------------------
(* The advance of the fetch stages.                                        *)

(* Room for instructions where some are to leave. *)
LEMMA MoveFacts ==
  ASSUME NEW a \in Nat, NEW b \in Int
  PROVE  Min({a, Max({0, b})}) \in 0 .. a
<1>1. Max({0, b}) \in Nat
  <2>1. CASE b >= 0
    BY <2>1 DEF Max
  <2>2. CASE b < 0
    BY <2>2 DEF Max
  <2> QED BY <2>1, <2>2
<1>2. Min({a, Max({0, b})}) \in Nat /\ Min({a, Max({0, b})}) <= a
  <2> HIDE DEF Max
  <2> QED BY <1>1, MinOfTwo
<1> QED BY <1>2

(* What passes into stage s when x leave it for the next. *)
MovesInto(fs, s, x) ==
  IF s = NumFetchStages + 1 \/ s = 1 THEN 0
  ELSE LET left == Len(fs[s]) - x
       IN Min({Len(fs[s - 1]), Max({0, IssueWidth - left})})

(* The recursive function Moved, as an equation, from stage n on. *)
IsMoved(m, fs, n) ==
  m = [s \in n .. NumFetchStages + 1 |-> MovesInto(fs, s, m[s + 1])]

(* No more pass on than there are. *)
LEMMA MovesIntoFacts ==
  ASSUME NEW fs \in [Stages -> Seq(Ids)], NEW s \in 1 .. NumFetchStages + 1, NEW x \in Int
  PROVE  /\ MovesInto(fs, s, x) \in Nat
         /\ s \in 2 .. NumFetchStages => MovesInto(fs, s, x) \in 0 .. Len(fs[s - 1])
         /\ s \in {1, NumFetchStages + 1} => MovesInto(fs, s, x) = 0
<1>1. CASE s \in {1, NumFetchStages + 1}
  <2>1. s \notin 2 .. NumFetchStages
    BY <1>1, NumFetchStagesIsPositive
  <2> QED BY <1>1, <2>1 DEF MovesInto
<1>2. CASE s \notin {1, NumFetchStages + 1}
  <2>1. s \in Stages /\ s - 1 \in Stages
    BY <1>2, NumFetchStagesIsPositive DEF Stages
  <2>2. Len(fs[s - 1]) \in Nat /\ Len(fs[s]) \in Nat /\ IssueWidth \in Nat
    BY <2>1, PipelineAssumption
  <2>3. IssueWidth - (Len(fs[s]) - x) \in Int
    BY <2>2
  <2>4. MovesInto(fs, s, x) = Min({Len(fs[s - 1]), Max({0, IssueWidth - (Len(fs[s]) - x)})})
    BY <1>2 DEF MovesInto
  <2>5. MovesInto(fs, s, x) \in 0 .. Len(fs[s - 1])
    <3> DEFINE a == Len(fs[s - 1])
               b == IssueWidth - (Len(fs[s]) - x)
    <3>1. a \in Nat /\ b \in Int
      BY <2>2, <2>3
    <3> HIDE DEF a, b
    <3>2. Min({a, Max({0, b})}) \in 0 .. a
      BY <3>1, MoveFacts
    <3> QED BY <2>4, <3>2 DEF a, b
  <2>6. MovesInto(fs, s, x) \in Nat
    BY <2>2, <2>5
  <2> QED BY <1>2, <2>5, <2>6
<1> QED BY <1>1, <1>2

(* There is such a function: by induction from the last stage down. *)
LEMMA MovedExists ==
  ASSUME NEW fs \in [Stages -> Seq(Ids)]
  PROVE  \E m : /\ IsMoved(m, fs, 1)
                /\ \A s \in 1 .. NumFetchStages + 1 : m[s] \in Nat
<1> DEFINE N == NumFetchStages + 1
           Good(m, n) == IsMoved(m, fs, n) /\ \A s \in n .. N : m[s] \in Nat
           T == {n \in Nat : n < N => \E m : Good(m, N - n)}
<1>0. N \in Nat /\ N > 1
  BY NumFetchStagesIsPositive
<1>1. 0 \in T
  <2> DEFINE m == [s \in N .. N |-> 0]
  <2>1. m = [s \in N .. N |-> MovesInto(fs, s, m[s + 1])]
    <3>1. \A s \in N .. N : MovesInto(fs, s, m[s + 1]) = 0
      BY <1>0 DEF MovesInto
    <3> QED BY <3>1
  <2>2. Good(m, N)
    BY <2>1, <1>0 DEF IsMoved
  <2>3. N - 0 = N
    BY <1>0
  <2> QED BY <2>2, <2>3
<1>2. ASSUME NEW n \in T PROVE n + 1 \in T
  <2> SUFFICES ASSUME n + 1 < N PROVE \E m : Good(m, N - (n + 1))
    OBVIOUS
  <2> DEFINE k == N - (n + 1)
  <2>1. n \in Nat /\ n < N /\ k \in 1 .. N /\ N - n = k + 1 /\ k < N
    BY <1>0
  <2>2. PICK m : Good(m, k + 1)
    BY <2>1
  <2> HIDE DEF k
  <2> DEFINE e == MovesInto(fs, k, m[k + 1])
             h == [s \in k .. N |-> IF s = k THEN e ELSE m[s]]
  <2>3. \A s \in k + 1 .. N : m[s] = MovesInto(fs, s, m[s + 1]) /\ m[s] \in Nat
    BY <2>2 DEF IsMoved
  <2>4. e \in Nat
    <3>1. k \in 1 .. NumFetchStages + 1 /\ m[k + 1] \in Int
      BY <2>1, <2>3, <1>0
    <3> QED BY <3>1, MovesIntoFacts
  <2> HIDE DEF e
  <2>5. h[k] = e /\ \A s \in k + 1 .. N : h[s] = m[s]
    BY <2>1, <1>0
  <2>6. \A s \in k .. N : h[s] \in Nat
    BY <2>1, <2>3, <2>4, <2>5
  <2>7. ASSUME NEW s \in k .. N PROVE h[s] = MovesInto(fs, s, h[s + 1])
    <3>1. CASE s = k
      <4>1. h[s + 1] = m[k + 1]
        BY <2>1, <2>5, <3>1, <1>0
      <4> HIDE DEF h
      <4> QED BY <2>5, <3>1, <4>1 DEF e
    <3>2. CASE s # k /\ s # N
      <4>1. s \in k + 1 .. N /\ s + 1 \in k + 1 .. N
        BY <2>1, <3>2, <1>0
      <4> HIDE DEF h
      <4> QED BY <2>3, <2>5, <4>1
    <3>3. CASE s = N
      <4>1. s \in k + 1 .. N /\ s # k
        BY <2>1, <3>3, <1>0
      <4>2. m[s] = 0
        BY <2>3, <3>3, <4>1 DEF MovesInto
      <4>3. MovesInto(fs, s, h[s + 1]) = 0
        BY <3>3 DEF MovesInto
      <4> HIDE DEF h
      <4> QED BY <2>5, <4>1, <4>2, <4>3
    <3> QED BY <3>1, <3>2, <3>3
  <2>8. h = [s \in k .. N |-> h[s]]
    OBVIOUS
  <2> HIDE DEF h
  <2>9. Good(h, k)
    BY <2>6, <2>7, <2>8 DEF IsMoved
  <2> QED BY <2>9 DEF k
<1>3. T = Nat
  <2>1. T \in SUBSET Nat
    OBVIOUS
  <2> HIDE DEF T
  <2> QED BY <1>1, <1>2, <2>1, SetInduction
<1>4. NumFetchStages \in T /\ NumFetchStages < N /\ N - NumFetchStages = 1
  <2>1. NumFetchStages \in Nat
    BY NumFetchStagesIsPositive
  <2> HIDE DEF T
  <2> QED BY <1>3, <2>1
<1>5. \E m : Good(m, 1)
  BY <1>4
<1> QED BY <1>5

(* No stage gives away more than it has. *)
LEMMA MovedFacts ==
  ASSUME fetch_stage \in [Stages -> Seq(Ids)]
  PROVE  /\ \A s \in 1 .. NumFetchStages + 1 : Moved[s] \in Nat
         /\ \A s \in 2 .. NumFetchStages : Moved[s] \in 0 .. Len(fetch_stage[s - 1])
         /\ Moved[1] = 0 /\ Moved[NumFetchStages + 1] = 0
<1> DEFINE N == NumFetchStages + 1
           m == CHOOSE m : IsMoved(m, fetch_stage, 1)
<1>0. NumFetchStages \in Nat /\ N \in Nat /\ N > 1
  BY NumFetchStagesIsPositive
<1>1. Moved = m
  BY DEF Moved, IsMoved, MovesInto
<1>2. PICK h : IsMoved(h, fetch_stage, 1) /\ \A s \in 1 .. NumFetchStages + 1 : h[s] \in Nat
  BY MovedExists
<1>3. IsMoved(m, fetch_stage, 1)
  BY <1>2
<1> HIDE DEF m
<1>4. \A s \in 1 .. N : m[s] = MovesInto(fetch_stage, s, m[s + 1])
  BY <1>3 DEF IsMoved
<1> DEFINE T == {n \in Nat : n < N => m[N - n] \in Nat}
<1>5. 0 \in T
  <2>1. N - 0 = N /\ N \in 1 .. N
    BY <1>0
  <2>2. m[N] = MovesInto(fetch_stage, N, m[N + 1])
    BY <1>4, <2>1
  <2>3. m[N] = 0
    BY <2>2 DEF MovesInto
  <2> QED BY <2>1, <2>3
<1>6. ASSUME NEW n \in T PROVE n + 1 \in T
  <2> SUFFICES ASSUME n + 1 < N PROVE m[N - (n + 1)] \in Nat
    OBVIOUS
  <2> DEFINE k == N - (n + 1)
  <2>1. n \in Nat /\ n < N /\ k \in 1 .. N /\ N - n = k + 1 /\ k \in 1 .. NumFetchStages + 1
    BY <1>0
  <2>2. m[k + 1] \in Nat
    BY <2>1
  <2> HIDE DEF k
  <2>3. m[k] = MovesInto(fetch_stage, k, m[k + 1])
    BY <1>4, <2>1
  <2>4. m[k + 1] \in Int
    BY <2>2
  <2> QED BY <2>1, <2>3, <2>4, MovesIntoFacts DEF k
<1>7. T = Nat
  <2>1. T \in SUBSET Nat
    OBVIOUS
  <2> HIDE DEF T
  <2> QED BY <1>5, <1>6, <2>1, SetInduction
<1>8. ASSUME NEW s \in 1 .. N PROVE m[s] \in Nat
  <2>1. N - s \in Nat /\ N - s < N /\ N - (N - s) = s
    BY <1>0
  <2>2. N - s \in T
    <3> HIDE DEF T
    <3> QED BY <1>7, <2>1
  <2> QED BY <2>1, <2>2
<1>9. ASSUME NEW s \in 1 .. N
      PROVE  /\ s \in 2 .. NumFetchStages => m[s] \in 0 .. Len(fetch_stage[s - 1])
             /\ s \in {1, NumFetchStages + 1} => m[s] = 0
  <2>1. m[s] = MovesInto(fetch_stage, s, m[s + 1])
    BY <1>4
  <2>2. CASE s = N
    <3>1. m[s] = 0
      BY <2>1, <2>2 DEF MovesInto
    <3> QED BY <1>0, <2>2, <3>1
  <2>3. CASE s # N
    <3>1. s + 1 \in 1 .. N
      BY <1>0, <2>3
    <3>2. m[s + 1] \in Int /\ s \in 1 .. NumFetchStages + 1
      BY <1>8, <3>1
    <3> QED BY <2>1, <3>2, MovesIntoFacts
  <2> QED BY <2>2, <2>3
<1>10. \A s \in 2 .. NumFetchStages : s \in 1 .. N
  BY <1>0
<1>11. 1 \in 1 .. N /\ N \in 1 .. N
  BY <1>0
<1> QED BY <1>1, <1>8, <1>9, <1>10, <1>11

(* A sequence is what is taken from its front and what is left. *)
LEMMA Divided ==
  ASSUME NEW S, NEW q \in Seq(S), NEW n \in 0 .. Len(q)
  PROVE  /\ SubSeq(q, 1, n) \in Seq(S) /\ SubSeq(q, n + 1, Len(q)) \in Seq(S)
         /\ SubSeq(q, 1, n) \o SubSeq(q, n + 1, Len(q)) = q
<1>1. SubSeq(q, 1, n) \in Seq(S) /\ SubSeq(q, n + 1, Len(q)) \in Seq(S)
  OBVIOUS
<1>2. /\ 1 \in 1 .. Len(q) + 1 /\ n \in 1 - 1 .. Len(q) /\ Len(q) \in n .. Len(q)
  OBVIOUS
<1>3. SubSeq(q, 1, n) \o SubSeq(q, n + 1, Len(q)) = SubSeq(q, 1, Len(q))
  BY <1>2, ConcatAdjacentSubSeq
<1> QED BY <1>1, <1>3, SubSeqFull

(* The stages advance, and the row stays as it is. *)
LEMMA AdvanceFacts ==
  ASSUME fetch_stage \in [Stages -> Seq(Ids)], AdvanceStages
  PROVE  fetch_stage' \in [Stages -> Seq(Ids)] /\ InFetch' = InFetch
<1> DEFINE N == NumFetchStages
           pre == [s \in Stages |-> SubSeq(fetch_stage[s], 1, Moved[s + 1])]
           stay == [s \in Stages |->
                     SubSeq(fetch_stage[s], Moved[s + 1] + 1, Len(fetch_stage[s]))]
<1>0. N \in Nat /\ N > 0
  BY NumFetchStagesIsPositive
<1>1. ASSUME NEW s \in Stages PROVE Moved[s + 1] \in 0 .. Len(fetch_stage[s])
  <2>1. s = N \/ s + 1 \in 2 .. N
    BY <1>0 DEF Stages
  <2>2. CASE s = N
    <3>1. Moved[s + 1] = 0
      BY <2>2, MovedFacts
    <3> QED BY <3>1
  <2>3. CASE s + 1 \in 2 .. N
    <3>1. (s + 1) - 1 = s
      BY <1>0 DEF Stages
    <3> QED BY <2>3, <3>1, MovedFacts
  <2> QED BY <2>1, <2>2, <2>3
<1>2. ASSUME NEW s \in Stages
      PROVE  /\ pre[s] \in Seq(Ids) /\ stay[s] \in Seq(Ids)
             /\ pre[s] \o stay[s] = fetch_stage[s]
  <2> DEFINE q == fetch_stage[s]
             k == Moved[s + 1]
  <2>1. q \in Seq(Ids) /\ k \in 0 .. Len(q)
    BY <1>1
  <2> HIDE DEF q, k
  <2>2. /\ SubSeq(q, 1, k) \in Seq(Ids) /\ SubSeq(q, k + 1, Len(q)) \in Seq(Ids)
        /\ SubSeq(q, 1, k) \o SubSeq(q, k + 1, Len(q)) = q
    BY <2>1, Divided
  <2> QED BY <2>2 DEF q, k
<1>3. ASSUME NEW s \in Stages
      PROVE  fetch_stage'[s] = IF s = 1 THEN stay[s] ELSE stay[s] \o pre[s - 1]
  <2>1. (IF s = N THEN 0 ELSE Moved[s + 1]) = Moved[s + 1]
    BY MovedFacts
  <2>2. Moved[s + 1] \in Int
    BY <1>1
  <2>3. 1 + Moved[s + 1] = Moved[s + 1] + 1 /\ (s - 1) + 1 = s
    BY <1>0, <2>2 DEF Stages
  <2>4. fetch_stage'[s] =
          IF s = 1 THEN SubSeq(fetch_stage[s], 1 + (IF s = N THEN 0 ELSE Moved[s + 1]),
                               Len(fetch_stage[s]))
          ELSE SubSeq(fetch_stage[s], 1 + (IF s = N THEN 0 ELSE Moved[s + 1]),
                      Len(fetch_stage[s])) \o SubSeq(fetch_stage[s - 1], 1, Moved[s])
    BY DEF AdvanceStages
  <2>5. s # 1 => s - 1 \in Stages
    BY <1>0 DEF Stages
  <2> QED BY <2>1, <2>3, <2>4, <2>5
<1>4. \A s \in Stages : s # 1 => s - 1 \in Stages
  BY <1>0 DEF Stages
<1> HIDE DEF pre, stay
<1>5. fetch_stage' \in [Stages -> Seq(Ids)]
  <2>1. \A s \in Stages : fetch_stage'[s] \in Seq(Ids)
    <3> SUFFICES ASSUME NEW s \in Stages PROVE fetch_stage'[s] \in Seq(Ids)
      OBVIOUS
    <3>1. CASE s = 1
      BY <1>2, <1>3, <3>1
    <3>2. CASE s # 1
      <4>1. stay[s] \in Seq(Ids) /\ pre[s - 1] \in Seq(Ids)
        BY <1>2, <1>4, <3>2
      <4>2. stay[s] \o pre[s - 1] \in Seq(Ids)
        BY <4>1
      <4> QED BY <1>3, <3>2, <4>2
    <3> QED BY <3>1, <3>2
  <2>2. fetch_stage' = [s \in Stages |-> fetch_stage'[s]]
    BY DEF AdvanceStages
  <2> QED BY <2>1, <2>2
<1>6. PICK f : Row(f, fetch_stage) /\ InFetch = f[N]
  BY FetchOfIsRow, InFetchIsFetchOf
<1>7. PICK g : Row(g, fetch_stage') /\ InFetch' = g[N]
  BY FetchOfIsRow, InFetchIsFetchOf
<1>8. \A s \in 0 .. N : f[s] \in Seq(Ids) /\ g[s] \in Seq(Ids)
  BY <1>5, <1>6, <1>7, RowFacts
<1> DEFINE joined == [s \in Stages |-> pre[s] \o g[s]]
           T == {n \in Nat : n + 1 <= N => joined[n + 1] = f[n + 1]}
<1>9. 0 \in T
  <2>1. 1 \in Stages /\ 1 - 1 = 0 /\ 0 + 1 = 1
    BY NumFetchStagesIsPositive
  <2>2. g[1] = fetch_stage'[1] \o g[1 - 1] /\ f[1] = fetch_stage[1] \o f[1 - 1]
    BY <1>6, <1>7, <2>1 DEF Row
  <2>3. f[0] = << >> /\ g[0] = << >>
    BY <1>6, <1>7 DEF Row
  <2>4. fetch_stage'[1] = stay[1] /\ stay[1] \in Seq(Ids) /\ fetch_stage[1] \in Seq(Ids)
    BY <1>2, <1>3, <2>1
  <2>5. g[1] = stay[1] /\ f[1] = fetch_stage[1]
    BY <2>1, <2>2, <2>3, <2>4, ConcatEmptySeq
  <2>6. pre[1] \o g[1] = f[1]
    BY <1>2, <2>1, <2>5
  <2> QED BY <2>1, <2>6, joined[1] = pre[1] \o g[1]
<1>10. ASSUME NEW n \in T PROVE n + 1 \in T
  <2> SUFFICES ASSUME (n + 1) + 1 <= N
               PROVE  joined[(n + 1) + 1] = f[(n + 1) + 1]
    <3> HIDE DEF joined
    <3> QED OBVIOUS
  <2> DEFINE s == (n + 1) + 1
  <2>1. /\ n \in Nat /\ s \in Stages /\ s # 1 /\ s - 1 = n + 1 /\ s - 1 \in 0 .. N
        /\ s - 1 \in Stages
    BY <1>0 DEF Stages
  <2>2. pre[s - 1] \o g[s - 1] = f[s - 1]
    <3>1. joined[s - 1] = f[s - 1]
      <4> HIDE DEF joined
      <4> QED BY <2>1
    <3>2. joined[s - 1] = pre[s - 1] \o g[s - 1]
      BY <2>1
    <3> QED BY <3>1, <3>2
  <2> HIDE DEF T
  <2>3. g[s] = fetch_stage'[s] \o g[s - 1] /\ f[s] = fetch_stage[s] \o f[s - 1]
    BY <1>6, <1>7, <2>1 DEF Row
  <2>4. fetch_stage'[s] = stay[s] \o pre[s - 1]
    BY <1>3, <2>1
  <2>5. /\ pre[s] \in Seq(Ids) /\ stay[s] \in Seq(Ids) /\ pre[s - 1] \in Seq(Ids)
        /\ pre[s] \o stay[s] = fetch_stage[s]
        /\ g[s - 1] \in Seq(Ids) /\ f[s - 1] \in Seq(Ids)
    BY <1>2, <1>8, <2>1
  <2>6. g[s] = stay[s] \o f[s - 1]
    <3> DEFINE a == stay[s]
               b == pre[s - 1]
               c == g[s - 1]
    <3>1. a \in Seq(Ids) /\ b \in Seq(Ids) /\ c \in Seq(Ids)
      BY <2>5
    <3>2. g[s] = (a \o b) \o c /\ b \o c = f[s - 1]
      BY <2>2, <2>3, <2>4
    <3> HIDE DEF a, b, c
    <3>3. (a \o b) \o c = a \o (b \o c)
      BY <3>1, Associates
    <3>4. g[s] = a \o f[s - 1]
      BY <3>2, <3>3
    <3> QED BY <3>4 DEF a
  <2>7. pre[s] \o (stay[s] \o f[s - 1]) = fetch_stage[s] \o f[s - 1]
    <3> DEFINE a == pre[s]
               b == stay[s]
               c == f[s - 1]
    <3>1. a \in Seq(Ids) /\ b \in Seq(Ids) /\ c \in Seq(Ids) /\ a \o b = fetch_stage[s]
      BY <2>5
    <3> HIDE DEF a, b, c
    <3>2. a \o (b \o c) = (a \o b) \o c
      BY <3>1, Associates
    <3> QED BY <3>1, <3>2 DEF a, b, c
  <2>8. joined[s] = pre[s] \o g[s]
    BY <2>1
  <2> QED BY <2>3, <2>6, <2>7, <2>8
<1>11. T = Nat
  <2>1. T \in SUBSET Nat
    OBVIOUS
  <2> HIDE DEF T
  <2> QED BY <1>9, <1>10, <2>1, SetInduction
<1>12. pre[N] \o g[N] = f[N]
  <2>1. N - 1 \in T /\ (N - 1) + 1 = N
    <3> HIDE DEF T
    <3> QED BY <1>0, <1>11
  <2>2. (N - 1) + 1 <= N
    BY <1>0
  <2>3. joined[N] = f[N]
    <3> HIDE DEF joined
    <3> QED BY <2>1, <2>2
  <2> QED BY <2>3, NumFetchStagesIsPositive
<1>13. pre[N] = << >>
  <2>1. Moved[N + 1] = 0
    BY MovedFacts
  <2>2. 1 \in Int /\ 0 \in Int /\ 0 < 1
    OBVIOUS
  <2>3. SubSeq(fetch_stage[N], 1, 0) = << >>
    BY <2>2, SubSeqEmpty
  <2> QED BY <2>1, <2>3, NumFetchStagesIsPositive DEF pre
<1>14. g[N] \in Seq(Ids)
  BY <1>0, <1>8
<1> QED BY <1>5, <1>6, <1>7, <1>12, <1>13, <1>14, ConcatEmptySeq

-----------------------------------------------------------------------------
(* The instructions in the processor.                                      *)

(* Three queues in a row. *)
LEMMA OrderFacts ==
  ASSUME NEW r \in Seq(Ids), NEW d \in Seq(Ids), NEW f \in Seq(Ids)
  PROVE  /\ r \o d \o f \in Seq(Ids)
         /\ Range(r \o d \o f) = Range(r) \cup Range(d) \cup Range(f)
         /\ \A i, j : Before(r \o d \o f, i, j) <=>
              \/ Before(r, i, j) \/ Before(d, i, j) \/ Before(f, i, j)
              \/ i \in Range(r) /\ j \in Range(d) \cup Range(f)
              \/ i \in Range(d) /\ j \in Range(f)
<1> DEFINE rd == r \o d
<1>1. /\ rd \in Seq(Ids) /\ Range(rd) = Range(r) \cup Range(d)
      /\ \A i, j : Before(rd, i, j) <=> \/ Before(r, i, j) \/ Before(d, i, j)
                                        \/ i \in Range(r) /\ j \in Range(d)
  BY BeforeConcat
<1> HIDE DEF rd
<1>2. /\ rd \o f \in Seq(Ids) /\ Range(rd \o f) = Range(rd) \cup Range(f)
      /\ \A i, j : Before(rd \o f, i, j) <=> \/ Before(rd, i, j) \/ Before(f, i, j)
                                             \/ i \in Range(rd) /\ j \in Range(f)
  BY <1>1, BeforeConcat
<1>3. rd \o f = r \o d \o f
  BY DEF rd
<1> HIDE <1>3
<1> DEFINE z == rd \o f
<1>4. /\ z \in Seq(Ids) /\ Range(z) = Range(r) \cup Range(d) \cup Range(f)
      /\ \A i, j : Before(z, i, j) <=>
           \/ Before(r, i, j) \/ Before(d, i, j) \/ Before(f, i, j)
           \/ i \in Range(r) /\ j \in Range(d) \cup Range(f)
           \/ i \in Range(d) /\ j \in Range(f)
  <2>1. z \in Seq(Ids) /\ Range(z) = Range(rd) \cup Range(f)
    BY <1>2
  <2>2. \A i, j : Before(z, i, j) <=> \/ Before(rd, i, j) \/ Before(f, i, j)
                                      \/ i \in Range(rd) /\ j \in Range(f)
    BY <1>2
  <2> HIDE DEF z
  <2> QED BY <1>1, <2>1, <2>2
<1> QED BY <1>3, <1>4

QueuesOK == /\ reorder_queue \in Seq(Ids) /\ decode_queue \in Seq(Ids)
            /\ fetch_stage \in [Stages -> Seq(Ids)]

(* What is ahead of what in the processor. *)
InOrderFacts ==
  /\ InFetch \in Seq(Ids) /\ Range(InFetch) = Fetched
  /\ InOrder \in Seq(Ids)
  /\ InPipe = Range(reorder_queue) \cup Range(decode_queue) \cup Range(InFetch)
  /\ InPipe = Range(reorder_queue) \cup Waiting
  /\ \A i, j : Before(InOrder, i, j) <=>
       \/ Before(reorder_queue, i, j) \/ Before(decode_queue, i, j) \/ Before(InFetch, i, j)
       \/ i \in Range(reorder_queue) /\ j \in Waiting
       \/ i \in Range(decode_queue) /\ j \in Range(InFetch)

(* The order of the processor is that of its queues, and then theirs. *)
LEMMA InOrderIs == QueuesOK => InOrderFacts
<1> SUFFICES ASSUME QueuesOK PROVE InOrderFacts
  OBVIOUS
<1>1. InFetch \in Seq(Ids) /\ Range(InFetch) = Fetched
  BY FetchOfFacts, InFetchIsFetchOf DEF QueuesOK, Fetched
<1>2. InOrder = reorder_queue \o decode_queue \o InFetch
  BY DEF InOrder
<1> DEFINE r == reorder_queue
           d == decode_queue
           f == InFetch
<1>3. r \in Seq(Ids) /\ d \in Seq(Ids) /\ f \in Seq(Ids)
  BY <1>1 DEF QueuesOK
<1> HIDE DEF r, d, f
<1>4. /\ r \o d \o f \in Seq(Ids)
      /\ Range(r \o d \o f) = Range(r) \cup Range(d) \cup Range(f)
      /\ \A i, j : Before(r \o d \o f, i, j) <=>
           \/ Before(r, i, j) \/ Before(d, i, j) \/ Before(f, i, j)
           \/ i \in Range(r) /\ j \in Range(d) \cup Range(f)
           \/ i \in Range(d) /\ j \in Range(f)
  BY <1>3, OrderFacts
<1>5. InOrder = r \o d \o f
  BY <1>2 DEF r, d, f
<1>6. /\ InOrder \in Seq(Ids)
      /\ Range(InOrder) = Range(r) \cup Range(d) \cup Range(f)
      /\ \A i, j : Before(InOrder, i, j) <=>
           \/ Before(r, i, j) \/ Before(d, i, j) \/ Before(f, i, j)
           \/ i \in Range(r) /\ j \in Range(d) \cup Range(f)
           \/ i \in Range(d) /\ j \in Range(f)
  BY <1>4, <1>5
<1> QED BY <1>1, <1>6 DEF InOrderFacts, InPipe, Waiting, r, d, f

(* The same after a step. *)
LEMMA InOrderIsNext == QueuesOK' => InOrderFacts'
BY InOrderIs, PTL

-----------------------------------------------------------------------------
(* What the invariant says of the six properties.                          *)

(* NULL is no instruction and NoReg no register. *)
LEMMA NumbersAreNotZero ==
  NULL \notin Ids /\ NoReg \notin Regs /\ \A o \in Ops : o \in OpRecords
BY PipelineAssumption DEF NULL, NoReg

(* The largest element of a set is the one that is. *)
LEMMA MaxIs ==
  ASSUME NEW S \in SUBSET Int, NEW k \in S, \A x \in S : x <= k
  PROVE  Max(S) = k
<1>1. \A y \in S : (\A x \in S : y >= x) => y = k
  OBVIOUS
<1>2. \A x \in S : k >= x
  OBVIOUS
<1>3. Max(S) \in S /\ \A x \in S : Max(S) >= x
  BY <1>2 DEF Max
<1> QED BY <1>1, <1>3

(* The queues are of the type the lemmas above ask for. *)
LEMMA QueuesAreOK == TypeOK => QueuesOK
BY DEF TypeOK, QueuesOK

(* Positions in the reorder buffer are instructions, and Tagged speaks of  *)
(* them.                                                                   *)
LEMMA ScoreboardFromIInv == IInv => ScoreboardIsExact
<1> SUFFICES ASSUME IInv, NEW r \in Regs
             PROVE  LET t == rf[r].tag
                    IN IF t = NULL
                       THEN rf[r].value_avail /\ \A k \in Writers(r) : IsStore(reorder_queue[k])
                       ELSE /\ \E k \in Writers(r) :
                                 /\ reorder_queue[k] = t
                                 /\ \A n \in Writers(r) : n > k => IsStore(reorder_queue[n])
                            /\ rf[r].value_avail => sint[t].wait[r] = 0
                            /\ sint[t].completed => rf[r].value_avail
  BY DEF ScoreboardIsExact
<1>1. reorder_queue \in Seq(Ids) /\ DOMAIN reorder_queue = 1 .. Len(reorder_queue)
  BY DEF IInv, TypeOK
<1>2. Tagged(r)
  BY DEF IInv, Scored
<1>3. WritersOf(r) = {reorder_queue[k] : k \in Writers(r)}
  BY <1>1 DEF WritersOf, Writers, Range
<1>4. CASE rf[r].tag = NULL
  BY <1>2, <1>3, <1>4 DEF Tagged
<1>5. CASE rf[r].tag # NULL
  <2> DEFINE t == rf[r].tag
  <2>1. /\ t \in WritersOf(r)
        /\ \A j \in WritersOf(r) : Before(reorder_queue, t, j) => IsStore(j)
        /\ rf[r].value_avail => sint[t].wait[r] = 0
        /\ sint[t].completed => rf[r].value_avail
    BY <1>2, <1>5 DEF Tagged
  <2> HIDE DEF t
  <2>2. PICK k \in Writers(r) : reorder_queue[k] = t
    BY <1>3, <2>1
  <2>3. ASSUME NEW n \in Writers(r), n > k PROVE IsStore(reorder_queue[n])
    <3>1. /\ k \in DOMAIN reorder_queue /\ n \in DOMAIN reorder_queue
          /\ k \in Int /\ n \in Int /\ k < n
      BY <1>1, <2>3 DEF Writers
    <3>2. Before(reorder_queue, t, reorder_queue[n])
      BY <2>2, <3>1 DEF Before
    <3> QED BY <1>3, <2>1, <3>2
  <2> QED BY <1>5, <2>1, <2>2, <2>3 DEF t
<1> QED BY <1>4, <1>5

(* The branch that is blamed is the one of the property. *)
LEMMA WrongPathFromIInv == IInv => WrongPathStartsAtItsBranch
<1> SUFFICES ASSUME IInv PROVE WrongPathStartsAtItsBranch
  OBVIOUS
<1> DEFINE q == InOrder
           U == {k \in DOMAIN q : ~ sint[q[k]].squashed}
<1>1. Paths /\ \A k \in DOMAIN q : q[k] \in InPipe
  BY DEF IInv, InPipe, Range
<1>2. CASE proc.on_correct_path
  BY <1>1, <1>2 DEF WrongPathStartsAtItsBranch, Paths
<1>3. CASE ~ proc.on_correct_path
  <2>1. PICK b : Blamed(b)
    BY <1>1, <1>3 DEF Paths
  <2>2. PICK n \in DOMAIN q : q[n] = b
    BY <2>1 DEF Blamed, InPipe, Range
  <2>3. q \in Seq(Ids)
    BY QueuesAreOK, InOrderIs DEF IInv, InOrderFacts
  <2>4. n \in U /\ sint[q[n]].mispredicted /\ ~ sint[q[n]].completed
    BY <1>1, <2>1, <2>2 DEF Blamed, Unresolved, Paths
  <2>5. ASSUME NEW k \in U PROVE sint[q[k]].off_path <=> k > n
    <3>1. k \in Int /\ n \in Int /\ k \in DOMAIN q
      BY <2>3
    <3>2. CASE k > n
      <4>1. Before(q, b, q[k])
        BY <2>2, <3>1, <3>2 DEF Before
      <4> QED BY <1>1, <2>1, <3>1, <3>2, <4>1 DEF Blamed
    <3>3. CASE k = n
      <4>1. ~ (k > n) /\ q[k] = b
        BY <2>2, <3>1, <3>3
      <4>2. ~ sint[b].off_path
        BY <2>1 DEF Blamed, Unresolved
      <4> QED BY <4>1, <4>2
    <3>4. CASE k < n
      <4>1. Before(q, q[k], b)
        BY <2>2, <3>1, <3>4 DEF Before
      <4> QED BY <1>1, <2>1, <3>1, <3>4, <4>1 DEF Blamed
    <3> QED BY <3>1, <3>2, <3>3, <3>4
  <2> HIDE DEF q
  <2>6. \E m \in U : /\ sint[q[m]].mispredicted /\ ~ sint[q[m]].completed
                     /\ \A k \in U : sint[q[k]].off_path <=> k > m
    BY <2>4, <2>5
  <2> QED BY <1>3, <2>6 DEF WrongPathStartsAtItsBranch, q
<1> QED BY <1>2, <1>3

(* Positions in the order are instructions, each of them once. *)
LEMMA TraceFromIInv == IInv => TraceIsConserved
<1> SUFFICES ASSUME IInv PROVE TraceIsConserved
  OBVIOUS
<1> DEFINE q == InOrder
           P == {k \in DOMAIN q : ~ sint[q[k]].off_path}
<1>1. OnPath = {q[k] : k \in P}
  BY DEF OnPath, InPipe, Range
<1>2. ASSUME NEW m \in P, NEW n \in P, m < n
      PROVE  sint[q[m]].position < sint[q[n]].position
  <2>1. Before(InOrder, q[m], q[n])
    BY <1>2 DEF Before
  <2> QED BY <1>1, <2>1 DEF IInv, Conserved
<1>3. {sint[q[n]].position : n \in P} = {sint[i].position : i \in OnPath}
  BY <1>1
<1>4. {sint[q[n]].position : n \in P} = (1 .. traced) \ finished
  BY <1>3 DEF IInv, Conserved
<1> QED BY <1>2, <1>4 DEF TraceIsConserved

(* What the dcache holds waits, or is a store or a prefetch. *)
LEMMA RequestsFromIInv == IInv => CompletedRequestsHaveReturned
BY DEF IInv, Requested, Waits, CompletedRequestsHaveReturned

(* An empty processor holds no instruction and no register waits. *)
LEMMA SampleFromIInv == IInv => SampleEndsClean
<1> SUFFICES ASSUME IInv, phase = "halted" PROVE SampleEndsClean
  BY DEF SampleEndsClean
<1>1. InOrderFacts
  BY QueuesAreOK, InOrderIs DEF IInv
<1>2. /\ decode_queue = << >> /\ reorder_queue = << >>
      /\ \A s \in Stages : fetch_stage[s] = << >>
  BY DEF IInv, Idle, InFlight
<1>3. InPipe = {} /\ Range(reorder_queue) = {}
  BY <1>1, <1>2, EmptyFacts DEF InOrderFacts, Fetched
<1>4. finished = 1 .. traced
  <2>1. OnPath = {}
    BY <1>3 DEF OnPath
  <2>2. (1 .. traced) \ finished = {} /\ finished \subseteq 1 .. traced
    BY <2>1 DEF IInv, Conserved, TypeOK
  <2> QED BY <2>2
<1>5. \A i \in Live : i \in Range(dcache_request)
  BY <1>3 DEF IInv, Placed
<1>6. \A r \in Regs : rf[r].value_avail
  BY <1>3 DEF IInv, Scored, Tagged, WritersOf
<1> QED BY <1>4, <1>5, <1>6 DEF SampleEndsClean

-----------------------------------------------------------------------------
(* The invariant holds at the start.                                       *)

(* A Sint in use is not a free one. *)
LEMMA SintIsNotFree ==
  \A s \in Sints : s # NoSint
<1> SUFFICES ASSUME NEW s \in Sints, s = NoSint PROVE FALSE
  OBVIOUS
<1>1. "op" \in DOMAIN s
  BY DEF Sints
<1>2. DOMAIN NoSint = {}
  BY DEF NoSint
<1> QED BY <1>1, <1>2

(* The invariant holds of the empty processor. *)
LEMMA InitIInv == Init => IInv
<1> SUFFICES ASSUME Init PROVE IInv
  OBVIOUS
<1>1. TypeOK
  <2>1. parm \in Parms /\ parm.sample_size \in Nat
    BY PipelineAssumption DEF Init, Parameters
  <2>2. proc \in Processors
    BY <2>1 DEF Init, Processors, NullPc
  <2>3. rf \in [Regs -> [tag : Ids \cup {NULL}, value_avail : BOOLEAN]]
    BY DEF Init, Available
  <2> QED BY <2>1, <2>2, <2>3 DEF Init, TypeOK, Phases
<1>2. /\ reorder_queue = << >> /\ decode_queue = << >> /\ exec_queue = << >>
      /\ dcache_request = << >> /\ outstanding = {}
      /\ \A s \in Stages : fetch_stage[s] = << >>
  BY DEF Init
<1>3. InOrderFacts
  BY <1>1, QueuesAreOK, InOrderIs
<1>4. InPipe = {} /\ Waiting = {} /\ Range(InOrder) = {}
  BY <1>2, <1>3, EmptyFacts DEF InOrderFacts, Fetched, Waiting, InPipe
<1>5. Placed
  <2>1. Live = {}
    BY DEF Live, Free, Init
  <2> QED BY <1>2, <1>4, <2>1, EmptyFacts DEF Placed, Once
<1>6. Requested /\ Visiting /\ Idle
  BY <1>2, EmptyFacts DEF Init, Requested, Visiting, Idle
<1>7. Paths
  BY <1>4 DEF Init, Paths
<1>8. Conserved
  <2>1. OnPath = {}
    BY <1>4 DEF OnPath
  <2>2. (1 .. traced) \ finished = {}
    BY DEF Init
  <2> QED BY <2>1, <2>2 DEF Conserved
<1>9. Scored
  BY <1>2, EmptyFacts DEF Init, Scored, Tagged, WritersOf, Available
<1> QED BY <1>1, <1>5, <1>6, <1>7, <1>8, <1>9 DEF IInv, Init

-----------------------------------------------------------------------------
(* Steps that move no instruction past another: what they leave alone.     *)

(* What is in the reorder buffer has a Sint, and its results are registers. *)
LEMMA LiveDests ==
  ASSUME IInv, NEW i \in Range(reorder_queue)
  PROVE  /\ i \in Ids /\ i \in InPipe /\ i \in Live
         /\ sint[i] \in Sints /\ sint[i].op \in Ops /\ sint[i].op.dests \subseteq Regs
<1>1. i \in InPipe
  BY QueuesAreOK, InOrderIs DEF IInv, InOrderFacts
<1>2. i \in Live /\ i \in Ids
  BY <1>1 DEF IInv, Placed, Live
<1>3. sint[i] \in Sints
  BY <1>2 DEF IInv, TypeOK, Live, Free
<1>4. sint[i].op \in Ops /\ sint[i].op \in OpRecords
  BY <1>3, NumbersAreNotZero DEF Sints
<1> QED BY <1>1, <1>2, <1>3, <1>4 DEF OpRecords

SameFlags(i) ==
  /\ sint'[i].op = sint[i].op /\ sint'[i].position = sint[i].position
  /\ sint'[i].off_path = sint[i].off_path /\ sint'[i].mispredicted = sint[i].mispredicted
  /\ sint'[i].completed = sint[i].completed /\ sint'[i].squashed = sint[i].squashed

(* A result that is there does not go away. *)
TimeStays(i) == \A r \in Regs : sint[i].wait[r] = 0 => sint'[i].wait[r] = 0

(* A register keeps its tag while its writer is there, if every writer that *)
(* is new, or new behind it, is a store.                                    *)
LEMMA TagStays ==
  ASSUME NEW r \in Regs, NEW t, Tagged(r), t = rf[r].tag, rf'[r].tag = t,
         t = NULL => rf'[r].value_avail,
         t # NULL => /\ t \in WritersOf(r)'
                     /\ rf'[r].value_avail => sint'[t].wait[r] = 0
                     /\ sint'[t].completed => rf'[r].value_avail,
         \A j \in WritersOf(r)' :
           \/ IsStore(j)'
           \/ /\ j \in WritersOf(r) /\ ~ IsStore(j)
              /\ Before(reorder_queue', t, j) => Before(reorder_queue, t, j)
  PROVE  Tagged(r)'
<1>1. CASE t = NULL
  <2>1. \A j \in WritersOf(r) : IsStore(j)
    BY <1>1 DEF Tagged
  <2>2. \A j \in WritersOf(r)' : IsStore(j)'
    BY <2>1
  <2> QED BY <1>1, <2>2 DEF Tagged
<1>2. CASE t # NULL
  <2>1. \A j \in WritersOf(r) : Before(reorder_queue, t, j) => IsStore(j)
    BY <1>2 DEF Tagged
  <2>2. \A j \in WritersOf(r)' : Before(reorder_queue', t, j) => IsStore(j)'
    BY <2>1
  <2> QED BY <1>2, <2>2 DEF Tagged, Before
<1> QED BY <1>1, <1>2

(* A step that leaves the scoreboard, the reorder buffer and its flags. *)
LEMMA ScoredStays ==
  ASSUME IInv, UNCHANGED <<reorder_queue, rf>>,
         \A i \in Range(reorder_queue) : SameFlags(i) /\ TimeStays(i)
  PROVE  Scored'
<1>1. \A r \in Regs : WritersOf(r)' = WritersOf(r)
  BY DEF WritersOf, SameFlags
<1>2. ASSUME NEW r \in Regs PROVE Tagged(r)'
  <2>1. PICK t : t = rf[r].tag
    OBVIOUS
  <2>2. Tagged(r) /\ rf'[r].tag = t /\ rf'[r].value_avail = rf[r].value_avail
    BY <2>1 DEF IInv, Scored
  <2>3. \A j \in WritersOf(r) : SameFlags(j) /\ TimeStays(j) /\ (IsStore(j)' <=> IsStore(j))
    BY DEF WritersOf, IsStore, SameFlags
  <2>4. \A j \in WritersOf(r)' :
          \/ IsStore(j)'
          \/ /\ j \in WritersOf(r) /\ ~ IsStore(j)
             /\ Before(reorder_queue', t, j) => Before(reorder_queue, t, j)
    BY <1>1, <2>3 DEF Before
  <2>5. CASE t = NULL
    <3>1. rf'[r].value_avail
      BY <2>1, <2>2, <2>5 DEF Tagged
    <3> QED BY <2>1, <2>2, <2>4, <2>5, <3>1, TagStays
  <2>6. CASE t # NULL
    <3>1. /\ t \in WritersOf(r) /\ (rf[r].value_avail => sint[t].wait[r] = 0)
          /\ sint[t].completed => rf[r].value_avail
      BY <2>1, <2>2, <2>6 DEF Tagged
    <3>2. /\ t \in WritersOf(r)' /\ (rf'[r].value_avail => sint'[t].wait[r] = 0)
          /\ sint'[t].completed => rf'[r].value_avail
      BY <1>1, <2>2, <2>3, <3>1 DEF SameFlags, TimeStays
    <3> QED BY <2>1, <2>2, <2>4, <2>6, <3>2, TagStays
  <2> QED BY <2>5, <2>6
<1>3. ASSUME NEW i \in Range(reorder_queue) PROVE Settled(i)'
  <2>1. sint[i].op.dests \subseteq Regs
    BY LiveDests
  <2>2. Settled(i) /\ SameFlags(i) /\ TimeStays(i)
    BY DEF IInv, Scored
  <2> QED BY <2>1, <2>2 DEF Settled, SameFlags, TimeStays
<1>4. Range(reorder_queue)' = Range(reorder_queue)
  OBVIOUS
<1> QED BY <1>2, <1>3, <1>4 DEF Scored

(* A step that leaves the order and the flags alone keeps what is about them. *)
LEMMA QuietOrder ==
  ASSUME IInv, InOrder' = InOrder, UNCHANGED <<traced, finished>>,
         proc'.on_correct_path = proc.on_correct_path,
         proc'.ifetch_pc = proc.ifetch_pc, proc'.on_path_pc = proc.on_path_pc,
         \A i \in InPipe : SameFlags(i)
  PROVE  Paths' /\ Conserved' /\ Once(InOrder)'
<1>1. InPipe' = InPipe
  BY DEF InPipe
<1>2. \A i, j : Before(InOrder, i, j)' <=> Before(InOrder, i, j)
  BY DEF Before
<1>3. \A i \in InPipe : Unresolved(i)' <=> Unresolved(i)
  BY DEF Unresolved, SameFlags
<1>4. Paths'
  <2>1. \A b : Blamed(b) => Blamed(b)'
    BY <1>1, <1>2, <1>3 DEF Blamed, SameFlags
  <2>2. Paths
    BY DEF IInv
  <2> QED BY <1>1, <1>3, <2>1, <2>2 DEF Paths, SameFlags
<1>5. Conserved'
  <2>1. OnPath' = OnPath
    BY <1>1 DEF OnPath, SameFlags
  <2>2. \A i \in OnPath : sint'[i].position = sint[i].position
    BY DEF OnPath, SameFlags
  <2>3. {sint'[i].position : i \in OnPath'} = {sint[i].position : i \in OnPath}
    BY <2>1, <2>2
  <2> QED BY <1>2, <2>1, <2>2, <2>3 DEF IInv, Conserved
<1>6. Once(InOrder)'
  BY DEF IInv, Placed, Once, Before
<1> QED BY <1>4, <1>5, <1>6

(* One that leaves the scoreboard alone as well keeps that, too. *)
LEMMA Quiet ==
  ASSUME IInv, InOrder' = InOrder, UNCHANGED <<reorder_queue, rf, traced, finished>>,
         proc'.on_correct_path = proc.on_correct_path,
         proc'.ifetch_pc = proc.ifetch_pc, proc'.on_path_pc = proc.on_path_pc,
         \A i \in InPipe : SameFlags(i),
         \A i \in Range(reorder_queue) : TimeStays(i)
  PROVE  Paths' /\ Conserved' /\ Scored' /\ Once(InOrder)'
<1>1. Scored'
  <2>1. \A i \in Range(reorder_queue) : SameFlags(i)
    BY QueuesAreOK, InOrderIs DEF IInv, InOrderFacts
  <2> QED BY <2>1, ScoredStays
<1>2. Paths' /\ Conserved' /\ Once(InOrder)'
  BY QuietOrder
<1> QED BY <1>1, <1>2

(* It keeps every instruction in its place, too. *)
LEMMA QuietPlaces ==
  ASSUME IInv, InOrder' = InOrder, UNCHANGED <<exec_queue, reorder_queue>>,
         Waiting' \subseteq Waiting, Live' = InPipe' \cup Range(dcache_request'),
         \A i \in InPipe : SameFlags(i), Once(InOrder)'
  PROVE  Placed'
<1>1. Placed /\ InOrderFacts
  BY QueuesAreOK, InOrderIs DEF IInv
<1>2. Range(exec_queue) \subseteq InPipe /\ Waiting \subseteq InPipe
  BY <1>1 DEF Placed, InOrderFacts
<1>3. \A i \in Range(exec_queue)' : ~ sint'[i].completed
  BY <1>1, <1>2 DEF Placed, SameFlags
<1>4. \A i \in Waiting' : ~ sint'[i].completed /\ ~ sint'[i].squashed
  BY <1>1, <1>2 DEF Placed, SameFlags
<1>5. Once(exec_queue)' /\ Range(exec_queue)' \subseteq Range(reorder_queue)'
  BY <1>1 DEF Placed, Once, Before
<1> QED BY <1>3, <1>4, <1>5 DEF Placed

(* Nothing but the stage changes. *)
LEMMA RetireDoneIInv == ASSUME IInv, RetireDone PROVE IInv'
<1>1. /\ UNCHANGED <<parm, sint, rf, proc, queues, dcache, count, traced, finished, punt>>
      /\ phase' = "exec" /\ todo' = exec_queue
  BY DEF RetireDone
<1>2. InOrder' = InOrder /\ Waiting' = Waiting /\ InPipe' = InPipe /\ Live' = Live
  BY <1>1 DEF queues, InOrder, InFetch, Waiting, InPipe, Live, Free
<1>3. (\A i \in InPipe : SameFlags(i)) /\ \A i \in Range(reorder_queue) : TimeStays(i)
  BY <1>1 DEF SameFlags, TimeStays
<1>4. Paths' /\ Conserved' /\ Scored' /\ Once(InOrder)'
  BY <1>1, <1>2, <1>3, Quiet DEF queues
<1>5. Placed'
  <2>1. Live = InPipe \cup Range(dcache_request)
    BY DEF IInv, Placed
  <2> QED BY <1>1, <1>2, <1>3, <1>4, <2>1, QuietPlaces DEF queues, dcache
<1>6. Requested'
  BY <1>1, <1>2 DEF IInv, Requested, Waits, IsStore, IsDirective, queues, dcache
<1>7. Visiting'
  BY <1>1 DEF IInv, Placed, Visiting, queues, Once, Before
<1>8. TypeOK'
  BY <1>1 DEF IInv, TypeOK, Phases, queues, dcache
<1>9. Idle' /\ punt' = "none"
  BY <1>1 DEF IInv, Idle
<1> QED BY <1>4, <1>5, <1>6, <1>7, <1>8, <1>9 DEF IInv

(* Nor at the end of a cycle. *)
LEMMA FetchDoneIInv == ASSUME IInv, FetchDone PROVE IInv'
<1>1. /\ UNCHANGED <<parm, sint, rf, queues, dcache, todo, count, traced, finished, punt>>
      /\ phase' = IF proc'.halting /\ ~InFlight THEN "halted" ELSE "memory"
      /\ proc' = [proc EXCEPT !.halting = @ \/ EndOfSample,
                              !.ifetch_enabled = @ /\ ~EndOfSample]
  BY DEF FetchDone
<1>2. InOrder' = InOrder /\ Waiting' = Waiting /\ InPipe' = InPipe /\ Live' = Live
  BY <1>1 DEF queues, InOrder, InFetch, Waiting, InPipe, Live, Free
<1>3. (\A i \in InPipe : SameFlags(i)) /\ \A i \in Range(reorder_queue) : TimeStays(i)
  BY <1>1 DEF SameFlags, TimeStays
<1>4. proc \in Processors
  BY DEF IInv, TypeOK
<1>5. /\ proc' \in Processors /\ proc'.on_correct_path = proc.on_correct_path
      /\ proc'.ifetch_pc = proc.ifetch_pc /\ proc'.on_path_pc = proc.on_path_pc
  BY <1>1, <1>4 DEF Processors
<1>6. Paths' /\ Conserved' /\ Scored' /\ Once(InOrder)'
  BY <1>1, <1>2, <1>3, <1>5, Quiet DEF queues
<1>7. Placed'
  <2>1. Live = InPipe \cup Range(dcache_request)
    BY DEF IInv, Placed
  <2> QED BY <1>1, <1>2, <1>3, <1>6, <2>1, QuietPlaces DEF queues, dcache
<1>8. Requested'
  BY <1>1, <1>2 DEF IInv, Requested, Waits, IsStore, IsDirective, queues, dcache
<1>9. Visiting'
  BY <1>1 DEF Visiting
<1>10. TypeOK'
  BY <1>1, <1>5 DEF IInv, TypeOK, Phases, queues, dcache
<1>11. Idle' /\ punt' = "none"
  BY <1>1 DEF IInv, Idle, InFlight, queues
<1> QED BY <1>6, <1>7, <1>8, <1>9, <1>10, <1>11 DEF IInv

(* No time that passes reaches Never. *)
LEMMA NeverIsLater ==
  MaxLatency \in Nat /\ Never \in Nat /\ Never \notin 1 .. MaxLatency /\ Never # 0
<1>1. PICK o \in Ops, r \in Regs : \A p \in Ops, q \in Regs : p.latency[q] <= o.latency[r]
  BY PipelineAssumption
<1>2. \A p \in Ops, q \in Regs : p.latency[q] \in Nat
  BY NumbersAreNotZero DEF OpRecords
<1> DEFINE L == {p.latency[q] : p \in Ops, q \in Regs}
           m == o.latency[r]
<1>3. L \in SUBSET Int /\ m \in L /\ m \in Nat /\ \A x \in L : x <= m
  BY <1>1, <1>2
<1> HIDE DEF L, m
<1>4. Max(L) = m
  BY <1>3, MaxIs
<1>5. MaxLatency \in Nat
  BY <1>3, <1>4 DEF MaxLatency, L
<1> QED BY <1>5 DEF Never

(* Time passes for an instruction: nothing else about it changes. *)
LEMMA TickFacts ==
  ASSUME NEW s \in Sints
  PROVE  /\ Tick(s) \in Sints
         /\ Tick(s).op = s.op /\ Tick(s).position = s.position
         /\ Tick(s).off_path = s.off_path /\ Tick(s).mispredicted = s.mispredicted
         /\ Tick(s).completed = s.completed /\ Tick(s).squashed = s.squashed
         /\ Tick(s).wait \in [Regs -> Nat]
         /\ \A r \in Regs : /\ s.wait[r] = Never => Tick(s).wait[r] = Never
                            /\ s.wait[r] = 0 => Tick(s).wait[r] = 0
<1> DEFINE w == [r \in Regs |-> IF s.wait[r] \in 1 .. MaxLatency
                                THEN s.wait[r] - 1 ELSE s.wait[r]]
<1>1. s.wait \in [Regs -> Nat] /\ s # NoSint
  BY SintIsNotFree DEF Sints
<1>2. Tick(s) = [s EXCEPT !.wait = w]
  BY <1>1 DEF Tick
<1>3. \A r \in Regs : /\ w[r] \in Nat
                      /\ s.wait[r] = Never => w[r] = Never
                      /\ s.wait[r] = 0 => w[r] = 0
  BY <1>1, NeverIsLater
<1>4. w \in [Regs -> Nat]
  BY <1>3
<1> HIDE DEF w
<1> QED BY <1>2, <1>3, <1>4 DEF Sints

(* The answer sets one time of it. *)
LEMMA AnsweredFacts ==
  ASSUME NEW s \in Sints
  PROVE  /\ Answered(s) \in Sints
         /\ Answered(s).op = s.op /\ Answered(s).position = s.position
         /\ Answered(s).off_path = s.off_path
         /\ Answered(s).mispredicted = s.mispredicted
         /\ Answered(s).completed = s.completed /\ Answered(s).squashed = s.squashed
         /\ \A r \in Regs : r # s.op.first_dest /\ s.wait[r] = 0 => Answered(s).wait[r] = 0
<1> DEFINE t == Tick(s)
           d == s.op.first_dest
           l == s.op.latency[d] - 1
           w == [t.wait EXCEPT ![d] = l]
<1>1. /\ t \in Sints /\ t.op = s.op /\ t.position = s.position
      /\ t.off_path = s.off_path /\ t.mispredicted = s.mispredicted
      /\ t.completed = s.completed /\ t.squashed = s.squashed
      /\ t.wait \in [Regs -> Nat]
      /\ \A r \in Regs : s.wait[r] = 0 => t.wait[r] = 0
  BY TickFacts
<1>2. d \in Regs => l \in Nat
  <2>1. s.op \in OpRecords
    BY NumbersAreNotZero DEF Sints
  <2> QED BY <2>1 DEF OpRecords
<1>3. Answered(s) = [t EXCEPT !.wait = w]
  BY <1>1 DEF Answered
<1> HIDE DEF t, l
<1>4. \A r \in Regs : w[r] \in Nat /\ (r # d /\ s.wait[r] = 0 => w[r] = 0)
  BY <1>1, <1>2
<1>5. w \in [Regs -> Nat]
  BY <1>1, <1>4
<1> HIDE DEF w
<1> QED BY <1>1, <1>3, <1>4, <1>5 DEF Sints

(* What waits for the dcache waits for one of its results. *)
LEMMA WaitsForResult ==
  ASSUME OnlyResultsAreWritten, IInv, NEW i, Waits(i)
  PROVE  sint[i].op.first_dest \in sint[i].op.dests /\ sint[i].op.first_dest \in Regs
<1>1. i \in Range(reorder_queue) /\ sint[i].op.type \in {"load", "mem_copy_check"}
  BY DEF Waits
<1>2. sint[i].op \in Ops /\ sint[i].op.dests \subseteq Regs
  BY <1>1, LiveDests
<1>3. sint[i].op.dests # {}
  BY <1>1, <1>2 DEF OnlyResultsAreWritten
<1> QED BY <1>2, <1>3, PipelineAssumption

(* The dcache frees what does not return, which no queue holds, and sets   *)
(* the time of what does.                                                  *)
LEMMA MemoryIInv ==
  ASSUME OnlyResultsAreWritten, IInv, NEW answered \in SUBSET Ids, NEW busy \in BOOLEAN, Memory(answered, busy)
  PROVE  IInv'
<1> DEFINE taken == IF dcache_busy THEN {} ELSE Range(dcache_request)
           returning == {i \in taken : ~(IsStore(i) \/ IsDirective(i))}
           freed == taken \ returning
<1>1. /\ answered \subseteq outstanding \cup returning
      /\ sint' = [i \in Ids |->
                    IF i \in freed THEN NoSint
                    ELSE IF i \in answered THEN Answered(sint[i])
                         ELSE Tick(sint[i])]
      /\ outstanding' = (outstanding \cup returning) \ answered
      /\ dcache_request' = Without(dcache_request, taken)
      /\ phase' = "retire"
      /\ UNCHANGED <<parm, rf, queues, todo, traced, finished, punt>>
  BY DEF Memory
<1>2. RequestFetch
  BY DEF Memory
<1>3. TypeOK /\ Placed /\ Requested /\ InOrderFacts
  BY QueuesAreOK, InOrderIs DEF IInv
<1>4. InOrder' = InOrder /\ Waiting' = Waiting /\ InPipe' = InPipe
  BY <1>1 DEF queues, InOrder, InFetch, Waiting, InPipe
<1>5. /\ Range(dcache_request) \subseteq Ids /\ InPipe \subseteq Ids
      /\ Range(reorder_queue) \subseteq InPipe
  BY <1>3, InRange DEF TypeOK, InOrderFacts, InPipe
<1>6. \A i \in Live : sint[i] \in Sints /\ i \in Ids
  BY <1>3 DEF TypeOK, Live, Free
<1>7. /\ InPipe \subseteq Live /\ Range(dcache_request) \subseteq Live
      /\ taken \subseteq Range(dcache_request)
  BY <1>3 DEF Placed
<1>8. /\ \A i \in freed : i \notin InPipe
      /\ \A i \in returning : Waits(i)
      /\ \A i \in outstanding : Waits(i) /\ i \notin Range(dcache_request)
  BY <1>3, <1>7 DEF Requested
<1>9. /\ returning \subseteq InPipe /\ outstanding \subseteq InPipe
      /\ \A i \in freed : i \notin answered
  BY <1>1, <1>5, <1>8 DEF Waits
<1> HIDE DEF taken, returning, freed
<1>10. ASSUME NEW i \in Live, i \notin freed
       PROVE  /\ SameFlags(i) /\ sint'[i] \in Sints /\ TimeStays(i)
              /\ \A r \in Regs : i \notin answered /\ sint[i].wait[r] = Never
                                 => sint'[i].wait[r] = Never
  <2>1. sint[i] \in Sints /\ i \in Ids
    BY <1>6
  <2>2. CASE i \in answered
    <3>1. sint'[i] = Answered(sint[i])
      BY <1>1, <1>10, <2>1, <2>2
    <3>2. SameFlags(i) /\ sint'[i] \in Sints
      BY <2>1, <3>1, AnsweredFacts DEF SameFlags
    <3>3. sint[i].wait[sint[i].op.first_dest] # 0
      <4>1. Waits(i)
        BY <1>1, <1>8, <2>2
      <4> QED BY <4>1, NeverIsLater DEF Waits
    <3>4. TimeStays(i)
      BY <2>1, <3>1, <3>3, AnsweredFacts DEF TimeStays
    <3> QED BY <2>2, <3>2, <3>4
  <2>3. CASE i \notin answered
    <3>1. sint'[i] = Tick(sint[i])
      BY <1>1, <1>10, <2>1, <2>3
    <3> QED BY <2>1, <3>1, TickFacts DEF SameFlags, TimeStays
  <2> QED BY <2>2, <2>3
<1>11. \A i \in InPipe : SameFlags(i) /\ TimeStays(i) /\ i \in Live /\ i \notin freed
  BY <1>7, <1>8, <1>10
<1>12. ASSUME NEW i \in Ids, i \notin Live PROVE sint'[i] = NoSint
  <2>1. sint[i] = NoSint /\ i \notin answered
    BY <1>1, <1>7, <1>9, <1>12 DEF Live, Free
  <2>2. Tick(sint[i]) = NoSint
    BY <2>1 DEF Tick
  <2> QED BY <1>1, <2>1, <2>2
<1>13. Live' = Live \ freed
  <2>1. \A i \in Ids : i \in Live' <=> sint'[i] # NoSint
    BY DEF Live, Free
  <2>2. \A i \in Live \ freed : i \in Live'
    BY <1>6, <1>10, <2>1, SintIsNotFree
  <2>3. \A i \in Ids : i \in freed => i \notin Live'
    BY <1>1, <2>1
  <2>4. \A i \in Ids : i \notin Live => i \notin Live'
    BY <1>12, <2>1
  <2>5. Live' \subseteq Ids
    BY DEF Live
  <2> QED BY <1>6, <2>2, <2>3, <2>4, <2>5
<1>14. dcache_request' \in Seq(Ids) /\ Range(dcache_request') = Range(dcache_request) \ taken
  <2>1. dcache_request \in Seq(Ids)
    BY <1>3 DEF TypeOK
  <2>2. /\ Only(dcache_request, Ids \ taken) \in Seq(Ids)
        /\ Range(Only(dcache_request, Ids \ taken)) = Range(dcache_request) \cap (Ids \ taken)
    BY <2>1, BeforeOnly
  <2> QED BY <1>1, <1>5, <2>2 DEF Without
<1>15. /\ proc' \in Processors /\ proc'.on_correct_path = proc.on_correct_path
       /\ proc'.ifetch_pc = proc.ifetch_pc /\ proc'.on_path_pc = proc.on_path_pc
  <2>1. proc \in Processors
    BY <1>3 DEF TypeOK
  <2>2. IfetchEnabled \in BOOLEAN
    BY <2>1 DEF IfetchEnabled, Processors
  <2> DEFINE a == IF IfetchEnabled /\ BufferRunsLow THEN proc.ifetch_pc ELSE NullPc
  <2>3. a \in Int
    BY <2>1 DEF Processors, NullPc
  <2>4. proc' = [proc EXCEPT !.ifetch_enabled = IfetchEnabled,
                             !.enable_ifetch_next_cycle = FALSE,
                             !.icache_addr_requested = a]
    BY <1>2 DEF RequestFetch
  <2> HIDE DEF a
  <2> QED BY <2>1, <2>2, <2>3, <2>4 DEF Processors
<1>16. Paths' /\ Conserved' /\ Scored' /\ Once(InOrder)'
  <2>1. \A i \in Range(reorder_queue) : TimeStays(i)
    BY <1>5, <1>11
  <2> QED BY <1>1, <1>4, <1>11, <1>15, <2>1, Quiet DEF queues
<1>17. Placed'
  <2>1. Live' = InPipe' \cup Range(dcache_request')
    <3>1. Live = InPipe \cup Range(dcache_request)
      BY <1>3 DEF Placed
    <3>2. taken = returning \cup freed
      BY DEF taken, returning, freed
    <3> QED BY <1>4, <1>9, <1>11, <1>13, <1>14, <3>1, <3>2
  <2> QED BY <1>1, <1>4, <1>11, <1>16, <2>1, QuietPlaces DEF queues
<1>18. Requested'
  <2>1. ASSUME NEW i \in InPipe, Waits(i), i \notin answered PROVE Waits(i)'
    <3>1. SameFlags(i) /\ sint'[i].wait[sint[i].op.first_dest] = Never
      <4>1. sint[i].op.first_dest \in Regs
        BY <2>1, WaitsForResult
      <4> QED BY <1>10, <1>11, <2>1, <4>1 DEF Waits
    <3> QED BY <1>1, <2>1, <3>1 DEF Waits, SameFlags, queues, Never
  <2>2. ASSUME NEW i \in outstanding'
        PROVE  Waits(i)' /\ i \notin Range(dcache_request')
    <3>1. i \notin answered /\ i \in outstanding \cup returning
      BY <1>1
    <3>2. Waits(i) /\ i \in InPipe
      BY <1>8, <1>9, <3>1
    <3>3. i \notin Range(dcache_request')
      BY <1>8, <1>14, <3>1 DEF returning
    <3> QED BY <2>1, <3>1, <3>2, <3>3
  <2>3. ASSUME NEW i \in Range(dcache_request')
        PROVE  IF IsStore(i)' \/ IsDirective(i)'
               THEN i \notin InPipe' /\ (IsDirective(i)' => ~ sint'[i].completed)
               ELSE Waits(i)'
    <3>1. i \in Range(dcache_request) /\ i \notin taken /\ i \notin freed /\ i \in Live
      BY <1>7, <1>14 DEF freed
    <3>2. SameFlags(i)
      BY <1>10, <3>1
    <3>3. (IsStore(i)' <=> IsStore(i)) /\ (IsDirective(i)' <=> IsDirective(i))
      BY <3>2 DEF IsStore, IsDirective, SameFlags
    <3>4. i \notin answered
      BY <1>1, <1>8, <3>1 DEF returning
    <3>5. CASE IsStore(i) \/ IsDirective(i)
      BY <1>3, <1>4, <3>1, <3>2, <3>3, <3>5 DEF Requested, SameFlags
    <3>6. CASE ~ (IsStore(i) \/ IsDirective(i))
      <4>1. Waits(i) /\ i \in InPipe
        BY <1>3, <1>5, <3>1, <3>6 DEF Requested, Waits
      <4> QED BY <2>1, <3>3, <3>4, <3>6, <4>1
    <3> QED BY <3>5, <3>6
  <2> QED BY <2>2, <2>3 DEF Requested
<1>19. TypeOK'
  <2>1. sint' \in [Ids -> Sints \cup {NoSint}]
    <3>1. \A i \in Ids : sint'[i] \in Sints \cup {NoSint}
      BY <1>1, <1>10, <1>12
    <3>2. sint' = [i \in Ids |-> sint'[i]]
      BY <1>1
    <3> QED BY <3>1, <3>2
  <2>2. outstanding' \in SUBSET Ids
    BY <1>1, <1>5, <1>9
  <2> QED BY <1>1, <1>3, <1>14, <1>15, <2>1, <2>2 DEF TypeOK, queues, Phases
<1>20. Visiting' /\ Idle' /\ punt' = "none"
  BY <1>1 DEF IInv, Visiting, Idle
<1> QED BY <1>16, <1>17, <1>18, <1>19, <1>20 DEF IInv

(* No queue of the processor holds an instruction twice, no two hold it. *)
OnceEach ==
  /\ Once(reorder_queue) /\ Once(decode_queue) /\ Once(InFetch)
  /\ Range(reorder_queue) \cap Waiting = {}
  /\ Range(decode_queue) \cap Range(InFetch) = {}

(* An instruction that is once in the processor is in one queue. *)
LEMMA OnceFacts == InOrderFacts /\ Once(InOrder) => OnceEach
<1> SUFFICES ASSUME InOrderFacts, Once(InOrder) PROVE OnceEach
  OBVIOUS
<1>1. \A i : ~ Before(InOrder, i, i)
  BY BeforeRange DEF Once
<1> QED BY <1>1 DEF InOrderFacts, OnceEach, Once, Waiting

(* The same after a step. *)
LEMMA OnceFactsNext == InOrderFacts' /\ Once(InOrder)' => OnceEach'
BY OnceFacts, PTL

(* Concatenation, under a name of its own. *)
Join(p, q) == p \o q

(* It does not matter where three in a row are divided. *)
LEMMA JoinFacts ==
  /\ \A p, q \in Seq(Ids) : Join(p, q) \in Seq(Ids)
  /\ \A p, q, r \in Seq(Ids) : Join(Join(p, q), r) = Join(p, Join(q, r))
<1>1. \A p, q \in Seq(Ids) : Join(p, q) \in Seq(Ids)
  BY DEF Join
<1>2. ASSUME NEW p \in Seq(Ids), NEW q \in Seq(Ids), NEW r \in Seq(Ids)
      PROVE  Join(Join(p, q), r) = Join(p, Join(q, r))
  BY Associates DEF Join
<1> QED BY <1>1, <1>2

(* What passes from the front of one queue to the end of the next stays in *)
(* its order.                                                              *)
LEMMA PassOn ==
  ASSUME NEW r \in Seq(Ids), NEW d \in Seq(Ids), NEW a \in Seq(Ids), NEW b \in Seq(Ids),
         NEW c \in Seq(Ids)
  PROVE  Join(Join(r, Join(d, a)), Join(b, c)) = Join(Join(r, d), Join(Join(a, b), c))
<1>1. Join(r, Join(d, a)) = Join(Join(r, d), a) /\ Join(r, d) \in Seq(Ids)
  BY JoinFacts
<1>2. Join(Join(a, b), c) = Join(a, Join(b, c)) /\ Join(b, c) \in Seq(Ids)
  BY JoinFacts
<1>3. Join(Join(Join(r, d), a), Join(b, c)) = Join(Join(r, d), Join(a, Join(b, c)))
  BY <1>1, <1>2, JoinFacts
<1> QED BY <1>1, <1>2, <1>3

(* Decode takes no more than the last fetch stage holds. *)
LEMMA FilledFacts ==
  ASSUME TypeOK
  PROVE  Filled \in 0 .. Len(fetch_stage[NumFetchStages])
<1> DEFINE last == fetch_stage[NumFetchStages]
           b == IssueWidth - Len(decode_queue)
           room == IF parm.aggressive \/ decode_queue = << >> THEN Max({0, b}) ELSE 0
<1>1. Len(last) \in Nat /\ b \in Int
  BY NumFetchStagesIsPositive, PipelineAssumption DEF TypeOK
<1> HIDE DEF b
<1>2. Max({0, b}) \in Nat
  <2>1. CASE b >= 0
    BY <1>1, <2>1 DEF Max
  <2>2. CASE b < 0
    BY <1>1, <2>2 DEF Max
  <2> QED BY <1>1, <2>1, <2>2
<1>3. room \in Nat
  <2>1. CASE parm.aggressive \/ decode_queue = << >>
    <3>1. room = Max({0, b})
      BY <2>1
    <3> QED BY <1>2, <3>1
  <2>2. CASE ~ (parm.aggressive \/ decode_queue = << >>)
    BY <2>2
  <2> QED BY <2>1, <2>2
<1>4. Filled = Min({room, Len(last)})
  BY DEF Filled, b
<1> HIDE DEF room, last
<1>5. Min({room, Len(last)}) \in Nat /\ Min({room, Len(last)}) <= Len(last)
  BY <1>1, <1>3, MinOfTwo
<1> QED BY <1>1, <1>4, <1>5 DEF last

(* Decode is filled from the last fetch stage. *)
LEMMA ExecDoneIInv == ASSUME IInv, ExecDone PROVE IInv'
<1> DEFINE last == fetch_stage[NumFetchStages]
           a == SubSeq(last, 1, Filled)
           b == SubSeq(last, Filled + 1, Len(last))
<1>1. /\ decode_queue' = decode_queue \o a
      /\ fetch_stage' = [fetch_stage EXCEPT ![NumFetchStages] = b]
      /\ phase' = "decode" /\ todo' = decode_queue'
      /\ UNCHANGED <<parm, sint, rf, proc, exec_queue, reorder_queue,
                     pending_stores, dcache, traced, finished, punt>>
  BY DEF ExecDone
<1>2. TypeOK /\ InOrderFacts /\ Placed
  BY QueuesAreOK, InOrderIs DEF IInv
<1>3. last \in Seq(Ids) /\ Filled \in 0 .. Len(last)
  BY <1>2, FilledFacts, NumFetchStagesIsPositive DEF TypeOK
<1>4. a \in Seq(Ids) /\ b \in Seq(Ids) /\ a \o b = last
  <2> HIDE DEF last
  <2> QED BY <1>3, Divided
<1> HIDE DEF a, b
<1>5. PICK rest \in Seq(Ids) : InFetch = last \o rest /\ InFetch' = b \o rest
  <2>1. fetch_stage \in [Stages -> Seq(Ids)]
    BY <1>2 DEF TypeOK
  <2> QED BY <1>1, <1>4, <2>1, FetchOfLast, InFetchIsFetchOf
<1>6. reorder_queue \in Seq(Ids) /\ decode_queue \in Seq(Ids) /\ decode_queue' \in Seq(Ids)
  BY <1>1, <1>2, <1>4 DEF TypeOK
<1>7. fetch_stage' \in [Stages -> Seq(Ids)]
  BY <1>1, <1>2, <1>4 DEF TypeOK
<1>8. InOrder' = InOrder
  <2>1. /\ InOrder' = Join(Join(reorder_queue, decode_queue'), InFetch')
        /\ InOrder = Join(Join(reorder_queue, decode_queue), InFetch)
    BY <1>1 DEF InOrder, Join
  <2>2. /\ decode_queue' = Join(decode_queue, a) /\ InFetch' = Join(b, rest)
        /\ last = Join(a, b) /\ InFetch = Join(last, rest)
    BY <1>1, <1>4, <1>5 DEF Join
  <2> QED BY <1>4, <1>6, <2>1, <2>2, PassOn
<1>9. InPipe' = InPipe /\ Live' = Live /\ \A i \in InPipe : SameFlags(i)
  BY <1>1, <1>8 DEF InPipe, Live, Free, SameFlags
<1>10. Waiting' = Waiting
  <2> HIDE DEF last
  <2>1. /\ Range(decode_queue') = Range(decode_queue) \cup Range(a)
        /\ Range(InFetch') = Range(b) \cup Range(rest)
        /\ Range(InFetch) = Range(last) \cup Range(rest)
        /\ Range(last) = Range(a) \cup Range(b)
    BY <1>1, <1>3, <1>4, <1>5, <1>6, BeforeConcat
  <2> QED BY <2>1 DEF Waiting
<1>11. Paths' /\ Conserved' /\ Scored' /\ Once(InOrder)'
  <2>1. \A i \in Range(reorder_queue) : TimeStays(i)
    BY <1>1 DEF TimeStays
  <2> QED BY <1>1, <1>8, <1>9, <2>1, Quiet
<1>12. Placed'
  <2>1. Live = InPipe \cup Range(dcache_request)
    BY <1>2 DEF Placed
  <2> QED BY <1>1, <1>8, <1>9, <1>10, <1>11, <2>1, QuietPlaces DEF dcache
<1>13. Requested'
  BY <1>1, <1>9 DEF IInv, Requested, Waits, IsStore, IsDirective, dcache
<1>14. TypeOK'
  BY <1>1, <1>2, <1>6, <1>7 DEF TypeOK, Phases, dcache
<1>15. Visiting'
  <2>1. InOrderFacts'
    BY <1>14, InOrderIsNext DEF TypeOK, QueuesOK
  <2>2. Once(decode_queue)'
    BY <1>11, <2>1, OnceFactsNext DEF OnceEach
  <2>3. \A i, j : Before(decode_queue, i, j)' <=> Before(todo, i, j)'
    BY <1>1 DEF Before
  <2>4. Once(todo)'
    BY <1>1, <2>2, <2>3 DEF Once
  <2> QED BY <1>1, <2>3, <2>4 DEF Visiting
<1>16. Idle' /\ punt' = "none"
  BY <1>1 DEF IInv, Idle
<1> QED BY <1>11, <1>12, <1>13, <1>14, <1>15, <1>16 DEF IInv

(* The fetch stages advance. *)
LEMMA DecodeDoneIInv == ASSUME IInv, NEW n \in 0 .. FetchWidth, DecodeDone(n) PROVE IInv'
<1>1. /\ sint' = IF todo = << >> \/ ~SourcesReady(Head(todo)) THEN sint
                 ELSE [sint EXCEPT ![Head(todo)].value_forwarded = Forwarded(Head(todo))]
      /\ AdvanceStages
      /\ phase = "decode" /\ phase' = "fetch" /\ todo' = << >>
      /\ UNCHANGED <<parm, rf, proc, decode_queue, exec_queue, reorder_queue,
                     pending_stores, dcache, traced, finished, punt>>
  BY DEF DecodeDone
<1>2. TypeOK /\ InOrderFacts /\ Placed
  BY QueuesAreOK, InOrderIs DEF IInv
<1>3. fetch_stage' \in [Stages -> Seq(Ids)] /\ InFetch' = InFetch
  BY <1>1, <1>2, AdvanceFacts DEF TypeOK
<1>4. InOrder' = InOrder /\ Waiting' = Waiting /\ InPipe' = InPipe
  BY <1>1, <1>3 DEF InOrder, Waiting, InPipe
<1>5. /\ sint' \in [Ids -> Sints \cup {NoSint}]
      /\ \A i \in Ids : sint'[i] = NoSint <=> sint[i] = NoSint
      /\ \A i \in Ids : SameFlags(i) /\ sint'[i].wait = sint[i].wait
  <2>1. CASE todo = << >> \/ ~SourcesReady(Head(todo))
    BY <1>1, <1>2, <2>1 DEF TypeOK, SameFlags
  <2>2. CASE ~ (todo = << >> \/ ~SourcesReady(Head(todo)))
    <3> DEFINE h == Head(todo)
               v == Forwarded(h)
    <3>1. sint' = [sint EXCEPT ![h].value_forwarded = v]
      BY <1>1, <2>2
    <3>2. h \in Range(todo)
      BY <1>2, <2>2, BeforeTail DEF TypeOK
    <3>3. h \in Live
      BY <1>1, <1>2, <3>2 DEF IInv, Visiting, InOrderFacts, Placed
    <3>4. sint[h] \in Sints /\ h \in Ids /\ v \in BOOLEAN
      BY <1>2, <3>3 DEF TypeOK, Live, Free, Forwarded
    <3> HIDE DEF h, v
    <3>5. /\ sint'[h] = [sint[h] EXCEPT !.value_forwarded = v]
          /\ \A i \in Ids : i # h => sint'[i] = sint[i]
      BY <1>2, <3>1, <3>4 DEF TypeOK
    <3>6. /\ sint'[h] \in Sints /\ sint'[h] # NoSint
          /\ SameFlags(h) /\ sint'[h].wait = sint[h].wait
      <4>1. sint'[h] \in Sints /\ SameFlags(h) /\ sint'[h].wait = sint[h].wait
        BY <3>4, <3>5 DEF Sints, SameFlags
      <4> QED BY <4>1, SintIsNotFree
    <3>7. sint[h] # NoSint
      BY <3>4, SintIsNotFree
    <3>8. sint' \in [Ids -> Sints \cup {NoSint}]
      <4>1. sint' = [i \in Ids |-> sint'[i]]
        BY <1>2, <3>1 DEF TypeOK
      <4>2. \A i \in Ids : sint'[i] \in Sints \cup {NoSint}
        BY <1>2, <3>5, <3>6 DEF TypeOK
      <4> QED BY <4>1, <4>2
    <3> QED BY <3>5, <3>6, <3>7, <3>8 DEF SameFlags
  <2> QED BY <2>1, <2>2
<1>6. Live' = Live /\ InPipe \subseteq Ids /\ Range(dcache_request) \subseteq Ids
  BY <1>2, <1>5, InRange DEF Live, Free, InOrderFacts, InPipe, TypeOK
<1>7. Paths' /\ Conserved' /\ Scored' /\ Once(InOrder)'
  <2>1. \A i \in Range(reorder_queue) : TimeStays(i)
    BY <1>2, <1>5, <1>6 DEF TimeStays, InOrderFacts
  <2> QED BY <1>1, <1>4, <1>5, <1>6, <2>1, Quiet
<1>8. Placed'
  <2>1. Live = InPipe \cup Range(dcache_request)
    BY <1>2 DEF Placed
  <2> QED BY <1>1, <1>4, <1>5, <1>6, <1>7, <2>1, QuietPlaces DEF dcache
<1>9. Requested'
  <2>1. \A i \in Ids : /\ IsStore(i)' <=> IsStore(i)
                       /\ IsDirective(i)' <=> IsDirective(i)
                       /\ Waits(i)' <=> Waits(i)
    BY <1>1, <1>5 DEF SameFlags, IsStore, IsDirective, Waits, Never
  <2>2. outstanding \subseteq Ids
    BY <1>2 DEF TypeOK
  <2>3. \A i \in Ids : sint'[i].completed = sint[i].completed
    BY <1>5 DEF SameFlags
  <2> QED BY <1>1, <1>4, <1>6, <2>1, <2>2, <2>3 DEF IInv, Requested, dcache
<1>10. TypeOK'
  BY <1>1, <1>2, <1>3, <1>5 DEF TypeOK, Phases, dcache
<1>11. Visiting' /\ Idle' /\ punt' = "none"
  BY <1>1 DEF IInv, Visiting, Idle
<1> QED BY <1>7, <1>8, <1>9, <1>10, <1>11 DEF IInv

(* Between samples the processor is empty and the trace is skipped. *)
LEMMA NextSampleIInv == ASSUME IInv, NEW n \in 0 .. MaxSkip, NextSample(n) PROVE IInv'
<1> DEFINE now == Min({traced + n, TraceLength})
           pc == proc.on_path_pc + (now - traced)
<1>1. /\ phase = "halted" /\ traced < TraceLength
      /\ traced' = now
      /\ finished' = finished \cup (traced + 1 .. now)
      /\ proc' = [ifetch_pc |-> pc, on_path_pc |-> pc, on_correct_path |-> TRUE,
                  ifetch_enabled |-> TRUE, enable_ifetch_next_cycle |-> FALSE,
                  icache_addr_requested |-> NullPc, halt_point |-> now + parm.sample_size,
                  halting |-> FALSE]
      /\ phase' = IF now = TraceLength THEN "halted" ELSE "memory"
      /\ UNCHANGED <<parm, sint, rf, queues, dcache, todo, count, punt>>
  BY DEF NextSample
<1>2. TypeOK /\ InOrderFacts /\ Placed /\ Paths
  BY QueuesAreOK, InOrderIs DEF IInv
<1>3. now \in Nat /\ traced <= now /\ traced \in Nat
  <2>1. traced + n \in Nat /\ TraceLength \in Nat /\ n \in Nat /\ traced \in Nat
    BY <1>2, PipelineAssumption DEF TypeOK
  <2>2. now \in Nat /\ now \in {traced + n, TraceLength}
    BY <2>1, MinOfTwo
  <2> HIDE DEF now
  <2> QED BY <1>1, <2>1, <2>2
<1> HIDE DEF now
<1>4. pc = now + 1
  <2>1. proc.on_path_pc = traced + 1
    BY <1>2 DEF Paths
  <2> QED BY <1>3, <2>1
<1> HIDE DEF pc
<1>5. /\ InOrder' = InOrder /\ Waiting' = Waiting /\ InPipe' = InPipe /\ Live' = Live
  BY <1>1 DEF queues, InOrder, InFetch, Waiting, InPipe, Live, Free
<1>6. InPipe = {} /\ Range(reorder_queue) = {}
  <2>1. /\ decode_queue = << >> /\ reorder_queue = << >>
        /\ \A s \in Stages : fetch_stage[s] = << >>
    BY <1>1 DEF IInv, Idle, InFlight
  <2> QED BY <1>2, <2>1, EmptyFacts DEF InOrderFacts, Fetched
<1>7. finished = 1 .. traced
  <2>1. finished = 1 .. traced
    BY <1>1, SampleFromIInv DEF SampleEndsClean
  <2> QED BY <2>1
<1>8. finished' = 1 .. traced'
  <2>1. 1 .. now = (1 .. traced) \cup (traced + 1 .. now)
    BY <1>3
  <2> QED BY <1>1, <1>7, <2>1
<1>9. TypeOK'
  <2>1. parm.sample_size \in Nat
    BY <1>2, PipelineAssumption DEF TypeOK, Parameters
  <2>2. proc' \in Processors
    BY <1>1, <1>3, <1>4, <2>1 DEF Processors, NullPc
  <2>3. traced' \in Nat /\ finished' \in SUBSET (1 .. traced')
    BY <1>1, <1>3, <1>8
  <2>4. phase' \in Phases
    BY <1>1 DEF Phases
  <2> QED BY <1>1, <1>2, <2>2, <2>3, <2>4 DEF TypeOK, queues, dcache
<1>10. Placed'
  BY <1>1, <1>2, <1>5 DEF Placed, Once, Before, queues, dcache
<1>11. Requested'
  BY <1>1, <1>5 DEF IInv, Requested, Waits, IsStore, IsDirective, queues, dcache
<1>12. Paths'
  BY <1>1, <1>4, <1>5, <1>6 DEF Paths
<1>13. Conserved'
  <2>1. OnPath' = {}
    BY <1>5, <1>6 DEF OnPath
  <2>2. (1 .. traced') \ finished' = {}
    BY <1>8
  <2> QED BY <2>1, <2>2 DEF Conserved
<1>14. Scored'
  BY <1>1, <1>6, ScoredStays DEF queues
<1>15. Visiting' /\ Idle' /\ punt' = "none"
  BY <1>1 DEF IInv, Visiting, Idle, InFlight, queues
<1> QED BY <1>9, <1>10, <1>11, <1>12, <1>13, <1>14, <1>15 DEF IInv

(* The Sint that is taken is a free one. *)
LEMMA FreeFacts == Free # {} => Min(Free) \in Free
<1> SUFFICES ASSUME Free # {} PROVE Min(Free) \in Free
  OBVIOUS
<1>1. Free \in SUBSET Nat
  BY PipelineAssumption DEF Free
<1>2. \E x \in Free : \A y \in Free : x <= y
  BY <1>1, LeastNatural
<1> QED BY <1>2 DEF Min

(* A fetched instruction is behind everything in the processor.            *)
LEMMA FetchOneIInv ==
  ASSUME IInv, NEW op \in parm.program, NEW m \in BOOLEAN, NEW t \in BOOLEAN,
         FetchOne(op, m, t)
  PROVE  IInv'
<1>0. PICK i \in Free : i = Min(Free)
  BY FreeFacts DEF FetchOne
<1> DEFINE on == proc.on_correct_path
           flush == op.type = "jsr" /\ on
           wrong == m \/ flush
           new == [op |-> op, off_path |-> ~on, mispredicted |-> m \/ flush,
                   completed |-> FALSE, squashed |-> FALSE, value_forwarded |-> FALSE,
                   wait |-> [r \in Regs |-> 0],
                   position |-> IF on THEN traced + 1 ELSE 0]
<1>1. /\ phase = "fetch" /\ Free # {}
      /\ m => op.type \in {"branch", "jsr"} /\ ~ flush
      /\ sint' = [sint EXCEPT ![i] = new]
      /\ punt' = IF on /\ proc.ifetch_pc # traced + 1 THEN "Trace out of step" ELSE punt
      /\ traced' = IF on THEN traced + 1 ELSE traced
      /\ fetch_stage' = [fetch_stage EXCEPT ![1] = Append(@, i)]
      /\ proc' = [proc EXCEPT
                    !.on_path_pc = IF on THEN proc.ifetch_pc + 1 ELSE @,
                    !.ifetch_pc = IF flush THEN NullPc
                                  ELSE IF on /\ ~m THEN @ + 1 ELSE OffPath,
                    !.on_correct_path = on /\ ~m /\ ~flush,
                    !.ifetch_enabled = @ /\ ~flush]
      /\ UNCHANGED <<parm, rf, decode_queue, exec_queue, reorder_queue, pending_stores,
                     dcache, phase, todo, finished>>
  BY <1>0 DEF FetchOne
<1>2. TypeOK /\ InOrderFacts /\ Placed /\ Paths /\ Requested
  BY QueuesAreOK, InOrderIs DEF IInv
<1>3. i \in Ids /\ i \notin Live /\ i \in Free
  BY DEF Free, Live
<1>4. /\ i \notin InPipe /\ i \notin Range(dcache_request) /\ i \notin Range(reorder_queue)
      /\ i \notin Range(exec_queue) /\ i \notin outstanding
  BY <1>2, <1>3 DEF Placed, InOrderFacts, Requested, Waits
<1>5. new \in Sints /\ on \in BOOLEAN /\ proc \in Processors
  <2>1. op \in Ops
    BY <1>2, PipelineAssumption DEF TypeOK, Parameters
  <2>2. (IF on THEN traced + 1 ELSE 0) \in Nat
    BY <1>2 DEF TypeOK
  <2>3. on \in BOOLEAN /\ proc \in Processors
    BY <1>2 DEF TypeOK, Processors
  <2> QED BY <2>1, <2>2, <2>3 DEF Sints
<1>6. /\ sint'[i] = new /\ \A j \in Ids : j # i => sint'[j] = sint[j]
      /\ sint' \in [Ids -> Sints \cup {NoSint}]
  <2> HIDE DEF new
  <2> QED BY <1>1, <1>2, <1>3, <1>5 DEF TypeOK
<1>7. /\ new.off_path = ~on /\ (new.mispredicted <=> wrong) /\ new.op = op
      /\ new.completed = FALSE /\ new.squashed = FALSE
      /\ on => new.position = traced + 1
  OBVIOUS
<1>8. /\ proc' \in Processors
      /\ proc'.on_correct_path <=> on /\ ~ wrong
      /\ proc'.on_path_pc = traced' + 1
      /\ proc'.on_correct_path => proc'.ifetch_pc = proc'.on_path_pc
      /\ punt' = "none"
  <2>1. /\ proc.on_path_pc = traced + 1 /\ (on => proc.ifetch_pc = traced + 1)
        /\ traced \in Nat /\ proc.ifetch_pc \in Int /\ punt = "none"
    BY <1>2, <1>5 DEF Paths, TypeOK, Processors, IInv
  <2>2. /\ proc'.on_path_pc = IF on THEN proc.ifetch_pc + 1 ELSE proc.on_path_pc
        /\ proc'.ifetch_pc = IF flush THEN NullPc
                             ELSE IF on /\ ~m THEN proc.ifetch_pc + 1 ELSE OffPath
        /\ proc'.on_correct_path = (on /\ ~m /\ ~flush)
        /\ proc'.ifetch_enabled = (proc.ifetch_enabled /\ ~flush)
        /\ proc'.enable_ifetch_next_cycle = proc.enable_ifetch_next_cycle
        /\ proc'.icache_addr_requested = proc.icache_addr_requested
        /\ proc'.halt_point = proc.halt_point /\ proc'.halting = proc.halting
    BY <1>1, <1>5 DEF Processors
  <2>3. proc'.on_path_pc = traced' + 1 /\ proc'.on_path_pc \in Nat
    <3>1. CASE on
      <4>1. proc'.on_path_pc = proc.ifetch_pc + 1 /\ traced' = traced + 1
        BY <1>1, <2>2, <3>1
      <4> QED BY <2>1, <3>1, <4>1
    <3>2. CASE ~ on
      <4>1. proc'.on_path_pc = proc.on_path_pc /\ traced' = traced
        BY <1>1, <2>2, <3>2
      <4> QED BY <2>1, <4>1
    <3> QED BY <3>1, <3>2
  <2>4. proc'.ifetch_pc \in Int
    BY <2>1, <2>2 DEF NullPc, OffPath
  <2>5. proc' \in Processors
    <3>1. proc' = [proc EXCEPT !.on_path_pc = proc'.on_path_pc,
                               !.ifetch_pc = proc'.ifetch_pc,
                               !.on_correct_path = proc'.on_correct_path,
                               !.ifetch_enabled = proc'.ifetch_enabled]
      BY <1>1, <1>5, <2>2 DEF Processors
    <3>2. proc'.on_correct_path \in BOOLEAN /\ proc'.ifetch_enabled \in BOOLEAN
      BY <2>2
    <3> QED BY <1>5, <2>3, <2>4, <3>1, <3>2 DEF Processors
  <2>6. proc'.on_correct_path <=> on /\ ~ wrong
    BY <2>2
  <2>7. proc'.on_correct_path => proc'.ifetch_pc = proc'.on_path_pc
    BY <1>1, <2>1, <2>2
  <2>8. punt' = "none"
    BY <1>1, <2>1
  <2> QED BY <2>3, <2>5, <2>6, <2>7, <2>8
<1> HIDE DEF new
<1>9. fetch_stage' \in [Stages -> Seq(Ids)] /\ InFetch' = Append(InFetch, i)
  <2>1. fetch_stage \in [Stages -> Seq(Ids)] /\ Append(fetch_stage[1], i) \in Seq(Ids)
    BY <1>2, <1>3, NumFetchStagesIsPositive DEF TypeOK
  <2>2. FetchOf([fetch_stage EXCEPT ![1] = Append(@, i)]) = Append(FetchOf(fetch_stage), i)
    BY <1>3, <2>1, FetchOfAppend
  <2> QED BY <1>1, <2>1, <2>2, InFetchIsFetchOf
<1>10. TypeOK'
  <2>1. traced' \in Nat /\ finished' \in SUBSET (1 .. traced')
    <3>1. traced \in Nat /\ finished \in SUBSET (1 .. traced)
      BY <1>2 DEF TypeOK
    <3>2. traced' \in Nat /\ traced <= traced'
      <4>1. traced' = traced + 1 \/ traced' = traced
        BY <1>1
      <4> QED BY <3>1, <4>1
    <3>3. 1 .. traced \subseteq 1 .. traced'
      BY <3>1, <3>2
    <3> QED BY <1>1, <3>1, <3>2, <3>3
  <2> QED BY <1>1, <1>2, <1>6, <1>8, <1>9, <2>1 DEF TypeOK, dcache
<1>11. InOrderFacts'
  BY <1>10, InOrderIsNext DEF TypeOK, QueuesOK
<1>12. /\ InPipe' = InPipe \cup {i} /\ Waiting' = Waiting \cup {i}
       /\ \A x, y : Before(InOrder, x, y)' <=>
                      Before(InOrder, x, y) \/ (x \in InPipe /\ y = i)
  <2>1. /\ Range(InFetch') = Range(InFetch) \cup {i}
        /\ \A x, y : Before(InFetch', x, y) <=>
                       Before(InFetch, x, y) \/ (x \in Range(InFetch) /\ y = i)
    BY <1>2, <1>3, <1>9, BeforeAppend DEF InOrderFacts
  <2>2. Waiting' = Waiting \cup {i}
    BY <1>1, <2>1 DEF Waiting
  <2>3. InPipe' = InPipe \cup {i}
    BY <1>1, <1>2, <1>11, <2>2 DEF InOrderFacts
  <2>4. \A x, y : /\ Before(InFetch, x, y)' <=> Before(InFetch', x, y)
                  /\ Before(reorder_queue, x, y)' <=> Before(reorder_queue, x, y)
                  /\ Before(decode_queue, x, y)' <=> Before(decode_queue, x, y)
    BY <1>1 DEF Before
  <2>5. \A x, y : Before(InOrder, x, y)' <=>
                    Before(InOrder, x, y) \/ (x \in InPipe /\ y = i)
    BY <1>1, <1>2, <1>11, <2>1, <2>2, <2>4 DEF InOrderFacts, Waiting
  <2> QED BY <2>2, <2>3, <2>5
<1>13. InPipe \subseteq Ids /\ Range(dcache_request) \subseteq Ids /\ Waiting \subseteq InPipe
  BY <1>2, InRange DEF InOrderFacts, InPipe, TypeOK
<1>14. \A j \in InPipe : sint'[j] = sint[j] /\ j # i
  BY <1>4, <1>6, <1>13
<1>15. \A x, y \in InPipe : Before(InOrder, x, y)' <=> Before(InOrder, x, y)
  BY <1>12, <1>14
<1>16. \A x : ~ Before(InOrder, i, x) /\ ~ Before(InOrder, i, x)'
  <2>1. \A x : ~ Before(InOrder, i, x)
    BY <1>4, BeforeRange DEF InPipe
  <2> QED BY <1>4, <1>12, <2>1
<1>17. Placed'
  <2>1. Once(InOrder)'
    <3>1. \A x \in InPipe' : ~ Before(InOrder, x, x)'
      <4>1. \A x \in InPipe : ~ Before(InOrder, x, x)
        BY <1>2 DEF Placed, Once, InPipe
      <4> QED BY <1>12, <1>15, <1>16, <4>1
    <3> QED BY <3>1 DEF Once, InPipe
  <2>2. Live' = Live \cup {i}
    <3>1. \A j \in Ids : j # i => (j \in Live' <=> j \in Live)
      BY <1>6 DEF Live, Free
    <3>2. i \in Live'
      BY <1>3, <1>5, <1>6, SintIsNotFree DEF Live, Free
    <3>3. Live \subseteq Ids /\ Live' \subseteq Ids
      BY DEF Live
    <3> QED BY <1>3, <3>1, <3>2, <3>3
  <2>3. Live' = InPipe' \cup Range(dcache_request)'
    BY <1>1, <1>2, <1>12, <2>2 DEF Placed, dcache
  <2>4. Once(exec_queue)' /\ Range(exec_queue)' \subseteq Range(reorder_queue)'
    BY <1>1, <1>2 DEF Placed, Once, Before
  <2>5. \A j \in Range(exec_queue)' : ~ sint'[j].completed
    BY <1>1, <1>2, <1>14 DEF Placed, InOrderFacts
  <2>6. \A j \in Waiting' : ~ sint'[j].completed /\ ~ sint'[j].squashed
    BY <1>2, <1>6, <1>7, <1>12, <1>13, <1>14 DEF Placed
  <2> QED BY <2>1, <2>3, <2>4, <2>5, <2>6 DEF Placed
<1>18. Requested'
  <2>1. \A j \in Range(dcache_request) \cup outstanding : sint'[j] = sint[j] /\ j # i
    BY <1>2, <1>4, <1>6, <1>13 DEF TypeOK
  <2> QED BY <1>1, <1>2, <1>12, <2>1 DEF Requested, Waits, IsStore, IsDirective, Never, dcache
<1>19. Paths'
  <2>1. \A j \in InPipe' : /\ sint'[j].squashed => sint'[j].off_path
                           /\ sint'[j].mispredicted => sint'[j].op.type \in {"branch", "jsr"}
    BY <1>1, <1>2, <1>6, <1>7, <1>12, <1>14 DEF Paths
  <2>2. \A j \in InPipe : Unresolved(j)' <=> Unresolved(j)
    BY <1>14 DEF Unresolved
  <2>3. Unresolved(i)' <=> wrong /\ on
    BY <1>6, <1>7 DEF Unresolved
  <2>4. ASSUME proc'.on_correct_path
        PROVE  \A j \in InPipe' : ~ Unresolved(j)' /\ (sint'[j].squashed \/ ~ sint'[j].off_path)
    <3>1. on /\ ~ wrong
      BY <1>8, <2>4
    <3>2. ~ Unresolved(i)' /\ ~ sint'[i].off_path
      BY <1>6, <1>7, <2>3, <3>1
    <3>3. \A j \in InPipe : ~ Unresolved(j)' /\ (sint'[j].squashed \/ ~ sint'[j].off_path)
      BY <1>2, <1>14, <2>2, <3>1 DEF Paths
    <3> QED BY <1>12, <3>2, <3>3
  <2>5. ASSUME ~ proc'.on_correct_path PROVE \E b \in Ids : Blamed(b)'
    <3>1. CASE on
      <4>1. wrong
        BY <1>8, <2>5, <3>1
      <4>2. \A j \in InPipe : ~ Unresolved(j) /\ (sint[j].squashed \/ ~ sint[j].off_path)
        BY <1>2, <3>1 DEF Paths
      <4>3. Blamed(i)'
        BY <1>12, <1>14, <1>16, <2>2, <2>3, <3>1, <4>1, <4>2 DEF Blamed
      <4> QED BY <1>3, <4>3
    <3>2. CASE ~ on
      <4>1. PICK b \in Ids : Blamed(b)
        BY <1>2, <3>2 DEF Paths
      <4>2. b \in InPipe /\ Unresolved(b)'
        BY <2>2, <4>1 DEF Blamed
      <4>3. ~ Unresolved(i)' /\ sint'[i].off_path
        BY <1>6, <1>7, <2>3, <3>2
      <4>4. ASSUME NEW j \in InPipe
            PROVE  /\ Unresolved(j)' => j = b
                   /\ Before(InOrder, b, j)' => sint'[j].off_path
                   /\ Before(InOrder, j, b)' => sint'[j].squashed \/ ~ sint'[j].off_path
        BY <1>14, <1>15, <2>2, <4>1, <4>2 DEF Blamed
      <4>5. Blamed(b)'
        BY <1>12, <1>16, <4>2, <4>3, <4>4 DEF Blamed
      <4> QED BY <4>5
    <3> QED BY <3>1, <3>2
  <2> QED BY <1>8, <2>1, <2>4, <2>5 DEF Paths
<1>20. Conserved'
  <2>1. OnPath' = IF on THEN OnPath \cup {i} ELSE OnPath
    BY <1>6, <1>7, <1>12, <1>14 DEF OnPath
  <2>2. {sint[j].position : j \in OnPath} = (1 .. traced) \ finished
    BY DEF IInv, Conserved
  <2>3. \A j \in OnPath : sint'[j].position = sint[j].position /\ j \in InPipe
    BY <1>14 DEF OnPath
  <2>4. \A x, y \in OnPath : Before(InOrder, x, y)' => sint'[x].position < sint'[y].position
    BY <1>15, <2>3 DEF IInv, Conserved
  <2>5. traced \in Nat /\ finished \in SUBSET (1 .. traced)
    BY <1>2 DEF TypeOK
  <2>6. CASE on
    <3>1. traced' = traced + 1 /\ sint'[i].position = traced + 1
      BY <1>1, <1>6, <1>7, <2>6
    <3>2. \A x \in OnPath : sint'[x].position < sint'[i].position
      <4>1. \A x \in OnPath : sint[x].position \in 1 .. traced
        BY <2>2
      <4> QED BY <2>3, <2>5, <3>1, <4>1
    <3>3. {sint'[j].position : j \in OnPath'} = {sint[j].position : j \in OnPath} \cup {traced + 1}
      BY <2>1, <2>3, <2>6, <3>1
    <3>4. (1 .. traced + 1) \ finished = ((1 .. traced) \ finished) \cup {traced + 1}
      BY <2>5
    <3>5. {sint'[j].position : j \in OnPath'} = (1 .. traced') \ finished'
      BY <1>1, <2>2, <3>1, <3>3, <3>4
    <3>6. \A x, y \in OnPath' : Before(InOrder, x, y)' => sint'[x].position < sint'[y].position
      BY <1>16, <2>1, <2>4, <2>6, <3>2
    <3> QED BY <3>5, <3>6 DEF Conserved
  <2>7. CASE ~ on
    <3>1. {sint'[j].position : j \in OnPath'} = {sint[j].position : j \in OnPath}
      BY <2>1, <2>3, <2>7
    <3> QED BY <1>1, <2>1, <2>2, <2>4, <2>7, <3>1 DEF Conserved
  <2> QED BY <2>6, <2>7
<1>21. Scored'
  <2>1. \A j \in Range(reorder_queue) : sint'[j] = sint[j]
    BY <1>2, <1>14 DEF InOrderFacts
  <2>2. \A j \in Range(reorder_queue) : SameFlags(j) /\ TimeStays(j)
    BY <2>1 DEF SameFlags, TimeStays
  <2> QED BY <1>1, <2>2, ScoredStays
<1>22. Visiting' /\ Idle'
  BY <1>1 DEF Visiting, Idle
<1> QED BY <1>8, <1>10, <1>17, <1>18, <1>19, <1>20, <1>21, <1>22 DEF IInv

-----------------------------------------------------------------------------
(* Retirement.                                                             *)

(* A queue without an instruction. *)
LEMMA WithoutFacts ==
  ASSUME NEW q \in Seq(Ids), NEW S
  PROVE  /\ Without(q, S) \in Seq(Ids) /\ Range(Without(q, S)) = Range(q) \ S
         /\ \A i, j : Before(Without(q, S), i, j) => Before(q, i, j)
         /\ Once(q) => Once(Without(q, S))
<1>1. Range(q) \subseteq Ids
  BY InRange
<1>2. /\ Only(q, Ids \ S) \in Seq(Ids) /\ Range(Only(q, Ids \ S)) = Range(q) \cap (Ids \ S)
      /\ \A i, j : Before(Only(q, Ids \ S), i, j) => Before(q, i, j)
  BY BeforeOnly
<1>3. /\ Without(q, S) \in Seq(Ids) /\ Range(Without(q, S)) = Range(q) \ S
      /\ \A i, j : Before(Without(q, S), i, j) => Before(q, i, j)
  BY <1>1, <1>2 DEF Without
<1> QED BY <1>3 DEF Once

(* Of what has been issued nothing is on the wrong path and unsquashed     *)
(* when it is at the head.                                                 *)
LEMMA HeadIsRight ==
  ASSUME IInv, reorder_queue # << >>, NEW i, i = Head(reorder_queue), sint[i].completed
  PROVE  /\ i \in InPipe /\ i \in Range(reorder_queue)
         /\ \A j \in InPipe : j # i => Before(InOrder, i, j)
         /\ sint[i].squashed <=> sint[i].off_path
<1>1. TypeOK /\ InOrderFacts /\ Placed /\ Paths
  BY QueuesAreOK, InOrderIs DEF IInv
<1>2. reorder_queue \in Seq(Ids) /\ Once(reorder_queue)
  BY <1>1, OnceFacts DEF TypeOK, Placed, OnceEach
<1>3. i \in Range(reorder_queue) /\ Range(Tail(reorder_queue)) = Range(reorder_queue) \ {i}
  BY <1>2, HeadIsFirst
<1>4. \A j \in Range(reorder_queue) : j # i => Before(reorder_queue, i, j)
  BY <1>2, <1>3, BeforeTail
<1>5. i \in InPipe /\ \A j \in InPipe : j # i => Before(InOrder, i, j)
  BY <1>1, <1>3, <1>4 DEF InOrderFacts
<1>6. sint[i].squashed => sint[i].off_path
  BY <1>1, <1>5 DEF Paths
<1>7. ASSUME ~ sint[i].squashed PROVE ~ sint[i].off_path
  <2>1. CASE proc.on_correct_path
    BY <1>1, <1>5, <1>7, <2>1 DEF Paths
  <2>2. CASE ~ proc.on_correct_path
    <3>1. PICK b : Blamed(b)
      BY <1>1, <2>2 DEF Paths
    <3>2. b # i /\ b \in InPipe
      BY <3>1 DEF Blamed, Unresolved
    <3> QED BY <1>5, <1>7, <3>1, <3>2 DEF Blamed
  <2> QED BY <2>1, <2>2
<1> QED BY <1>3, <1>5, <1>6, <1>7

(* The oldest instruction leaves; a store goes to the dcache.              *)
LEMMA RetireOneIInv == ASSUME IInv, RetireOne PROVE IInv'
<1>0. PICK i : i = Head(reorder_queue)
  OBVIOUS
<1> DEFINE stored == IsStore(i) /\ ~ sint[i].squashed
<1>1. /\ phase = "retire" /\ reorder_queue # << >> /\ sint[i].completed
      /\ punt' = IF ~ sint[i].squashed /\ sint[i].off_path THEN "Off path sint unsquashed"
                 ELSE IF sint[i].squashed /\ ~ sint[i].off_path THEN "On path sint squashed"
                 ELSE punt
      /\ rf' = IF sint[i].squashed THEN rf
               ELSE [r \in Regs |-> IF r \in sint[i].op.dests /\ rf[r].tag = i
                                    THEN [rf[r] EXCEPT !.tag = NULL] ELSE rf[r]]
      /\ reorder_queue' = Tail(reorder_queue)
      /\ exec_queue' = Without(exec_queue, {i})
      /\ pending_stores' = Without(pending_stores, {i})
      /\ dcache_request' = IF stored THEN Append(dcache_request, i)
                           ELSE Without(dcache_request, {i})
      /\ outstanding' = outstanding \ {i}
      /\ sint' = IF stored THEN sint ELSE [sint EXCEPT ![i] = NoSint]
      /\ finished' = IF sint[i].off_path THEN finished ELSE finished \cup {sint[i].position}
      /\ UNCHANGED <<parm, proc, fetch_stage, decode_queue, dcache_busy, phase,
                     todo, traced>>
  BY <1>0 DEF RetireOne, Retirable
<1>2. TypeOK /\ InOrderFacts /\ Placed /\ Paths /\ Requested /\ Conserved /\ OnceEach
  BY QueuesAreOK, InOrderIs, OnceFacts DEF IInv, Placed
<1>3. /\ i \in InPipe /\ i \in Range(reorder_queue)
      /\ \A j \in InPipe : j # i => Before(InOrder, i, j)
      /\ sint[i].squashed <=> sint[i].off_path
  BY <1>0, <1>1, HeadIsRight
<1>4. /\ reorder_queue' \in Seq(Ids) /\ Range(reorder_queue') = Range(reorder_queue) \ {i}
      /\ \A x, y : Before(reorder_queue', x, y) => Before(reorder_queue, x, y)
  BY <1>0, <1>1, <1>2, HeadIsFirst, BeforeTail DEF TypeOK, OnceEach
<1>5. InPipe \subseteq Live /\ Live \subseteq Ids /\ sint[i] \in Sints /\ i \in Ids
  BY <1>2, <1>3 DEF Placed, TypeOK, Live, Free
<1>6. /\ dcache_request' \in Seq(Ids)
      /\ Range(dcache_request') = IF stored THEN Range(dcache_request) \cup {i}
                                  ELSE Range(dcache_request) \ {i}
  <2>1. dcache_request \in Seq(Ids)
    BY <1>2 DEF TypeOK
  <2> HIDE DEF stored
  <2>2. CASE stored
    BY <1>1, <1>5, <2>1, <2>2, BeforeAppend
  <2>3. CASE ~ stored
    BY <1>1, <2>1, <2>3, WithoutFacts
  <2> QED BY <2>2, <2>3
<1>7. /\ \A j \in Ids : j # i => sint'[j] = sint[j]
      /\ stored => sint' = sint
      /\ ~ stored => sint'[i] = NoSint
      /\ sint' \in [Ids -> Sints \cup {NoSint}]
  <2> HIDE DEF stored
  <2> QED BY <1>1, <1>2, <1>5 DEF TypeOK
<1>8. /\ exec_queue' \in Seq(Ids) /\ Range(exec_queue') = Range(exec_queue) \ {i}
      /\ Once(exec_queue) => Once(exec_queue')
      /\ pending_stores' \in Seq(Ids)
  BY <1>1, <1>2, WithoutFacts DEF TypeOK
<1>9. /\ \A x \in OnPath : sint[x].position \in 1 .. traced /\ sint[x].position \in Nat
      /\ {sint[x].position : x \in OnPath} = (1 .. traced) \ finished
      /\ finished \in SUBSET (1 .. traced)
  <2>1. {sint[x].position : x \in OnPath} = (1 .. traced) \ finished /\ traced \in Nat
    BY <1>2 DEF Conserved, TypeOK
  <2>2. \A x \in OnPath : sint[x].position \in 1 .. traced
    BY <2>1
  <2> QED BY <1>2, <2>1, <2>2 DEF TypeOK
<1>10. TypeOK'
  <2>1. rf' \in [Regs -> [tag : Ids \cup {NULL}, value_avail : BOOLEAN]]
    <3>1. rf \in [Regs -> [tag : Ids \cup {NULL}, value_avail : BOOLEAN]]
      BY <1>2 DEF TypeOK
    <3>2. CASE sint[i].squashed
      BY <1>1, <3>1, <3>2
    <3>3. CASE ~ sint[i].squashed
      <4>1. \A r \in Regs : [rf[r] EXCEPT !.tag = NULL] \in [tag : Ids \cup {NULL}, value_avail : BOOLEAN]
        BY <3>1
      <4> QED BY <1>1, <3>1, <3>3, <4>1
    <3> QED BY <3>2, <3>3
  <2>2. finished' \in SUBSET (1 .. traced')
    <3>1. ~ sint[i].off_path => sint[i].position \in 1 .. traced
      BY <1>3, <1>9 DEF OnPath
    <3> QED BY <1>1, <1>9, <3>1
  <2>3. outstanding' \in SUBSET Ids
    BY <1>1, <1>2 DEF TypeOK
  <2> QED BY <1>1, <1>2, <1>4, <1>6, <1>7, <1>8, <2>1, <2>2, <2>3 DEF TypeOK
<1>11. InOrderFacts'
  BY <1>10, InOrderIsNext DEF TypeOK, QueuesOK
<1>12. /\ Waiting' = Waiting /\ InPipe' = InPipe \ {i}
       /\ \A x, y : Before(InOrder, x, y)' => Before(InOrder, x, y)
  <2>1. InFetch' = InFetch
    BY <1>1 DEF InFetch
  <2>2. Waiting' = Waiting
    BY <1>1, <2>1 DEF Waiting
  <2>3. i \notin Waiting
    BY <1>2, <1>3 DEF OnceEach
  <2>4. InPipe' = InPipe \ {i}
    BY <1>2, <1>4, <1>11, <2>2, <2>3 DEF InOrderFacts
  <2>5. \A x, y : /\ Before(InFetch, x, y)' <=> Before(InFetch, x, y)
                  /\ Before(decode_queue, x, y)' <=> Before(decode_queue, x, y)
                  /\ Before(reorder_queue, x, y)' <=> Before(reorder_queue', x, y)
    BY <1>1, <2>1 DEF Before
  <2>6. \A x, y : Before(InOrder, x, y)' => Before(InOrder, x, y)
    BY <1>1, <1>2, <1>4, <1>11, <2>1, <2>2, <2>5 DEF InOrderFacts
  <2> QED BY <2>2, <2>4, <2>6
<1>13. \A j \in InPipe' : sint'[j] = sint[j] /\ j \in InPipe /\ j # i
  BY <1>5, <1>7, <1>12
<1>14. Placed'
  <2>1. Once(InOrder)'
    BY <1>2, <1>12 DEF Placed, Once, InPipe
  <2>2. Live' = IF stored THEN Live ELSE Live \ {i}
    <3> HIDE DEF stored
    <3>1. \A j \in Ids : j # i => (j \in Live' <=> j \in Live)
      BY <1>7 DEF Live, Free
    <3>2. Live \subseteq Ids /\ Live' \subseteq Ids /\ i \in Live
      BY <1>3, <1>5 DEF Live
    <3>3. stored => i \in Live'
      BY <1>7, <3>2 DEF Live, Free
    <3>4. ~ stored => i \notin Live'
      BY <1>7 DEF Live, Free
    <3> QED BY <3>1, <3>2, <3>3, <3>4
  <2>3. Live' = InPipe' \cup Range(dcache_request')
    <3> HIDE DEF stored
    <3> QED BY <1>2, <1>3, <1>6, <1>12, <2>2 DEF Placed
  <2>4. /\ Once(exec_queue)' /\ Range(exec_queue') \subseteq Range(reorder_queue')
    BY <1>2, <1>4, <1>8 DEF Placed, Once, Before
  <2>5. \A j \in Range(exec_queue') : ~ sint'[j].completed
    <3>1. \A j \in Range(exec_queue') : j \in InPipe'
      BY <1>11, <2>4 DEF InOrderFacts
    <3> QED BY <1>2, <1>8, <1>13, <3>1 DEF Placed
  <2>6. \A j \in Waiting' : ~ sint'[j].completed /\ ~ sint'[j].squashed
    <3>1. \A j \in Waiting' : j \in InPipe'
      BY <1>11 DEF InOrderFacts
    <3> QED BY <1>2, <1>12, <1>13, <3>1 DEF Placed
  <2> QED BY <2>1, <2>3, <2>4, <2>5, <2>6 DEF Placed
<1>15. i \notin Range(dcache_request) /\ i \notin outstanding
  BY <1>1, <1>2, <1>3 DEF Requested, Waits
<1>16. Requested'
  <2>1. ASSUME NEW j, Waits(j) PROVE Waits(j)'
    <3>1. j \in Range(reorder_queue') /\ j # i
      BY <1>1, <1>4, <2>1 DEF Waits
    <3>2. sint'[j] = sint[j]
      BY <1>11, <1>13, <3>1 DEF InOrderFacts
    <3> QED BY <2>1, <3>1, <3>2 DEF Waits, Never
  <2>2. \A j \in outstanding' : Waits(j)' /\ j \notin Range(dcache_request')
    <3> HIDE DEF stored
    <3> QED BY <1>1, <1>2, <1>6, <2>1 DEF Requested
  <2>3. ASSUME NEW j \in Range(dcache_request')
        PROVE  IF IsStore(j)' \/ IsDirective(j)'
               THEN j \notin InPipe' /\ (IsDirective(j)' => ~ sint'[j].completed)
               ELSE Waits(j)'
    <3>1. CASE j = i
      <4>1. stored
        BY <1>6, <3>1
      <4>2. IsStore(i)' /\ ~ IsDirective(i)'
        BY <1>7, <4>1 DEF IsStore, IsDirective
      <4> QED BY <1>12, <3>1, <4>2
    <3>2. CASE j # i
      <4>1. j \in Range(dcache_request)
        <5> HIDE DEF stored
        <5> QED BY <1>6, <3>2
      <4>2. sint'[j] = sint[j]
        BY <1>2, <1>7, <3>2, <4>1, InRange DEF TypeOK
      <4>3. (IsStore(j)' <=> IsStore(j)) /\ (IsDirective(j)' <=> IsDirective(j))
        BY <4>2 DEF IsStore, IsDirective
      <4>4. CASE IsStore(j) \/ IsDirective(j)
        BY <1>2, <1>12, <4>1, <4>2, <4>3, <4>4 DEF Requested
      <4>5. CASE ~ (IsStore(j) \/ IsDirective(j))
        BY <1>2, <2>1, <4>1, <4>3, <4>5 DEF Requested
      <4> QED BY <4>4, <4>5
    <3> QED BY <3>1, <3>2
  <2> QED BY <2>2, <2>3 DEF Requested
<1>17. Paths'
  <2>1. \A j \in InPipe' : Unresolved(j)' <=> Unresolved(j)
    BY <1>13 DEF Unresolved
  <2>2. ASSUME ~ proc.on_correct_path PROVE \E b \in Ids : Blamed(b)'
    <3>1. PICK b \in Ids : Blamed(b)
      BY <1>2, <2>2 DEF Paths
    <3>2. b # i
      BY <1>1, <3>1 DEF Blamed, Unresolved
    <3>3. b \in InPipe'
      BY <1>12, <3>1, <3>2 DEF Blamed
    <3>4. Blamed(b)'
      BY <1>12, <1>13, <2>1, <3>1, <3>3 DEF Blamed
    <3> QED BY <3>4
  <2> QED BY <1>1, <1>2, <1>13, <2>1, <2>2 DEF Paths
<1>18. Conserved'
  <2>1. OnPath' = OnPath \ {i}
    BY <1>12, <1>13 DEF OnPath
  <2>2. \A x \in OnPath' : sint'[x].position = sint[x].position /\ x \in OnPath /\ x \in InPipe
    BY <1>13, <2>1 DEF OnPath
  <2>3. \A x, y \in OnPath' : Before(InOrder, x, y)' => sint'[x].position < sint'[y].position
    BY <1>2, <1>12, <2>2 DEF Conserved
  <2>4. {sint'[x].position : x \in OnPath'} = {sint[x].position : x \in OnPath \ {i}}
    BY <2>1, <2>2
  <2>5. CASE sint[i].off_path
    <3>1. OnPath \ {i} = OnPath
      BY <2>5 DEF OnPath
    <3> QED BY <1>1, <1>9, <2>3, <2>4, <2>5, <3>1 DEF Conserved
  <2>6. CASE ~ sint[i].off_path
    <3>1. i \in OnPath
      BY <1>3, <2>6 DEF OnPath
    <3>2. \A x \in OnPath \ {i} : sint[i].position # sint[x].position
      <4>1. \A x \in OnPath \ {i} : sint[i].position < sint[x].position
        BY <1>2, <1>3, <3>1 DEF Conserved, OnPath
      <4> QED BY <1>9, <3>1, <4>1
    <3>3. {sint[x].position : x \in OnPath \ {i}}
            = {sint[x].position : x \in OnPath} \ {sint[i].position}
      BY <3>1, <3>2
    <3>4. {sint'[x].position : x \in OnPath'} = (1 .. traced') \ finished'
      BY <1>1, <1>9, <2>4, <2>6, <3>3
    <3> QED BY <2>3, <3>4 DEF Conserved
  <2> QED BY <2>5, <2>6
<1>19. Scored'
  <2>1. \A j \in Range(reorder_queue') : sint'[j] = sint[j] /\ j # i /\ j \in Range(reorder_queue)
    BY <1>4, <1>11, <1>13 DEF InOrderFacts
  <2>2. \A r \in Regs : WritersOf(r)' = WritersOf(r) \ {i}
    BY <1>4, <2>1 DEF WritersOf
  <2>3. \A x, y : Before(reorder_queue, x, y)' => Before(reorder_queue, x, y)
    BY <1>4 DEF Before
  <2>4. ASSUME NEW r \in Regs PROVE Tagged(r)'
    <3>1. Tagged(r) /\ rf[r] \in [tag : Ids \cup {NULL}, value_avail : BOOLEAN]
      BY <1>2 DEF IInv, Scored, TypeOK
    <3>2. \A j \in WritersOf(r)' : IsStore(j)' <=> IsStore(j)
      BY <2>1 DEF WritersOf, IsStore
    <3>3. CASE rf[r].tag = i
      <4>1. /\ i # NULL /\ i \in WritersOf(r) /\ rf[r].value_avail
            /\ \A j \in WritersOf(r) : Before(reorder_queue, i, j) => IsStore(j)
        BY <1>1, <1>5, <3>1, <3>3, NumbersAreNotZero DEF Tagged
      <4>2. \A j \in WritersOf(r) : j # i => Before(reorder_queue, i, j)
        BY <1>0, <1>1, <1>2, BeforeTail DEF WritersOf, TypeOK
      <4>3. \A j \in WritersOf(r)' : IsStore(j)'
        BY <2>2, <3>2, <4>1, <4>2
      <4>4. rf'[r] = [rf[r] EXCEPT !.tag = NULL]
        BY <1>1, <3>3, <4>1 DEF WritersOf
      <4>5. rf'[r].tag = NULL /\ rf'[r].value_avail
        BY <3>1, <4>1, <4>4
      <4> QED BY <4>3, <4>5 DEF Tagged
    <3>4. CASE rf[r].tag # i
      <4>1. rf'[r] = rf[r]
        BY <1>1, <3>4
      <4>2. PICK t : t = rf[r].tag
        OBVIOUS
      <4>3. \A j \in WritersOf(r)' :
              \/ IsStore(j)'
              \/ /\ j \in WritersOf(r) /\ ~ IsStore(j)
                 /\ Before(reorder_queue', t, j) => Before(reorder_queue, t, j)
        BY <1>4, <2>2, <3>2
      <4>4. CASE t = NULL
        <5>1. rf'[r].value_avail
          BY <3>1, <4>1, <4>2, <4>4 DEF Tagged
        <5> QED BY <3>1, <4>1, <4>2, <4>3, <4>4, <5>1, TagStays
      <4>5. CASE t # NULL
        <5>1. /\ t \in WritersOf(r) /\ (rf[r].value_avail => sint[t].wait[r] = 0)
              /\ sint[t].completed => rf[r].value_avail
          BY <3>1, <4>2, <4>5 DEF Tagged
        <5>2. t \in WritersOf(r)'
          BY <2>2, <3>4, <4>2, <5>1
        <5>3. sint'[t] = sint[t]
          BY <2>1, <5>2 DEF WritersOf
        <5> QED BY <3>1, <4>1, <4>2, <4>3, <4>5, <5>1, <5>2, <5>3, TagStays
      <4> QED BY <4>4, <4>5
    <3> QED BY <3>3, <3>4
  <2>5. \A j \in Range(reorder_queue)' : Settled(j)'
    BY <2>1 DEF IInv, Scored, Settled
  <2> QED BY <2>4, <2>5 DEF Scored
<1>20. Visiting' /\ Idle' /\ punt' = "none"
  BY <1>1, <1>3 DEF IInv, Visiting, Idle
<1> QED BY <1>10, <1>14, <1>16, <1>17, <1>18, <1>19, <1>20 DEF IInv

-----------------------------------------------------------------------------
(* Execution.                                                              *)

(* What execution visits next has been issued and is not done. *)
LEMMA ExecVisits ==
  ASSUME IInv, phase = "exec", todo # << >>, NEW i, i = Head(todo)
  PROVE  /\ i \in Range(exec_queue) /\ i \in Range(reorder_queue) /\ i \in InPipe
         /\ i \in Ids /\ sint[i] \in Sints /\ ~ sint[i].completed
         /\ Tail(todo) \in Seq(Ids) /\ Once(Tail(todo))
         /\ Range(Tail(todo)) \subseteq Range(exec_queue) \ {i}
<1>1. TypeOK /\ InOrderFacts /\ Placed /\ Visiting
  BY QueuesAreOK, InOrderIs DEF IInv
<1>2. todo \in Seq(Ids) /\ Once(todo) /\ Range(todo) \subseteq Range(exec_queue)
  BY <1>1 DEF TypeOK, Visiting
<1>3. /\ Tail(todo) \in Seq(Ids) /\ Once(Tail(todo)) /\ i \in Range(todo)
      /\ Range(Tail(todo)) = Range(todo) \ {i}
  BY <1>2, HeadIsFirst, BeforeTail
<1>4. i \in Range(exec_queue) /\ i \in Range(reorder_queue) /\ ~ sint[i].completed
  BY <1>1, <1>2, <1>3 DEF Placed
<1>5. i \in InPipe /\ i \in Live
  BY <1>1, <1>4 DEF InOrderFacts, Placed
<1>6. i \in Ids /\ sint[i] \in Sints
  BY <1>1, <1>5 DEF TypeOK, Live, Free
<1> QED BY <1>2, <1>3, <1>4, <1>5, <1>6

(* What completes does not wait for the dcache: only what writes a         *)
(* register does, and its time has come.                                   *)
LEMMA CompletesIsNotRequested ==
  ASSUME OnlyResultsAreWritten, IInv, NEW i \in InPipe, sint[i] \in Sints, Completes(i)
  PROVE  i \notin Range(dcache_request) /\ i \notin outstanding
<1>1. Requested
  BY DEF IInv
<1>2. ~ Waits(i)
  <2>1. ASSUME Waits(i) PROVE FALSE
    <3>1. sint[i].op.first_dest \in sint[i].op.dests
      BY <2>1, WaitsForResult
    <3> QED BY <2>1, <3>1, NeverIsLater DEF Waits, Completes
  <2> QED BY <2>1
<1> QED BY <1>1, <1>2 DEF Requested

(* The results of i that are there, in the registers that wait for them. *)
LEMMA WrittenFacts ==
  ASSUME rf \in [Regs -> [tag : Ids \cup {NULL}, value_avail : BOOLEAN]], NEW i
  PROVE  /\ Written(i) \in [Regs -> [tag : Ids \cup {NULL}, value_avail : BOOLEAN]]
         /\ \A r \in Regs :
              /\ Written(i)[r].tag = rf[r].tag
              /\ IF r \in sint[i].op.dests /\ sint[i].wait[r] = 0 /\ rf[r].tag = i
                 THEN Written(i)[r].value_avail = TRUE ELSE Written(i)[r] = rf[r]
<1> DEFINE E == [tag : Ids \cup {NULL}, value_avail : BOOLEAN]
           w(r) == IF r \in sint[i].op.dests /\ sint[i].wait[r] = 0 /\ rf[r].tag = i
                   THEN [rf[r] EXCEPT !.value_avail = TRUE] ELSE rf[r]
<1>1. Written(i) = [r \in Regs |-> w(r)]
  BY DEF Written
<1>2. ASSUME NEW r \in Regs
      PROVE  /\ w(r) \in E /\ w(r).tag = rf[r].tag
             /\ IF r \in sint[i].op.dests /\ sint[i].wait[r] = 0 /\ rf[r].tag = i
                THEN w(r).value_avail = TRUE ELSE w(r) = rf[r]
  <2>1. rf[r] \in E
    OBVIOUS
  <2>2. /\ [rf[r] EXCEPT !.value_avail = TRUE] \in E
        /\ [rf[r] EXCEPT !.value_avail = TRUE].tag = rf[r].tag
        /\ [rf[r] EXCEPT !.value_avail = TRUE].value_avail = TRUE
    BY <2>1
  <2> QED BY <2>1, <2>2
<1> HIDE DEF w
<1> QED BY <1>1, <1>2

(* They are scored, whether or not i is done with them. *)
LEMMA WrittenScores ==
  ASSUME IInv, NEW i \in Range(reorder_queue), reorder_queue' = reorder_queue, rf' = Written(i),
         \A j \in Range(reorder_queue) :
           /\ sint'[j].op = sint[j].op /\ sint'[j].squashed = sint[j].squashed
           /\ sint'[j].wait = sint[j].wait
           /\ sint'[j].completed => sint[j].completed \/ (j = i /\ Completes(i))
  PROVE  Scored'
<1>1. /\ \A r \in Regs : rf'[r].tag = rf[r].tag
      /\ \A r \in Regs : IF r \in sint[i].op.dests /\ sint[i].wait[r] = 0 /\ rf[r].tag = i
                          THEN rf'[r].value_avail = TRUE ELSE rf'[r] = rf[r]
  BY WrittenFacts DEF IInv, TypeOK
<1>2. i \in Ids /\ i # NULL
  BY LiveDests, NumbersAreNotZero
<1>3. ASSUME NEW r \in Regs PROVE Tagged(r)'
  <2>1. Tagged(r)
    BY DEF IInv, Scored
  <2>2. WritersOf(r)' = WritersOf(r) /\ WritersOf(r) \subseteq Range(reorder_queue)
    BY DEF WritersOf
  <2>3. PICK t : t = rf[r].tag
    OBVIOUS
  <2>4. \A j \in WritersOf(r)' :
          \/ IsStore(j)'
          \/ /\ j \in WritersOf(r) /\ ~ IsStore(j)
             /\ Before(reorder_queue', t, j) => Before(reorder_queue, t, j)
    BY <2>2 DEF IsStore
  <2>5. rf'[r].tag = t
    BY <1>1, <2>3
  <2>6. CASE t = NULL
    <3>1. rf'[r].value_avail
      BY <1>1, <1>2, <2>1, <2>3, <2>6 DEF Tagged
    <3> QED BY <2>1, <2>3, <2>4, <2>5, <2>6, <3>1, TagStays
  <2>7. CASE t # NULL
    <3>1. /\ t \in WritersOf(r) /\ (rf[r].value_avail => sint[t].wait[r] = 0)
          /\ sint[t].completed => rf[r].value_avail
      BY <2>1, <2>3, <2>7 DEF Tagged
    <3>2. t \in Range(reorder_queue) /\ r \in sint[t].op.dests
      BY <3>1 DEF WritersOf
    <3>3. rf'[r].value_avail => sint'[t].wait[r] = 0
      BY <1>1, <2>3, <3>1, <3>2
    <3>4. sint'[t].completed => rf'[r].value_avail
      <4>1. CASE t = i /\ Completes(i)
        BY <1>1, <2>3, <3>2, <4>1 DEF Completes
      <4>2. CASE ~ (t = i /\ Completes(i))
        BY <1>1, <3>1, <3>2, <4>2
      <4> QED BY <4>1, <4>2
    <3> QED BY <2>1, <2>2, <2>3, <2>4, <2>5, <2>7, <3>1, <3>3, <3>4, TagStays
  <2> QED BY <2>6, <2>7
<1>4. ASSUME NEW j \in Range(reorder_queue) PROVE Settled(j)'
  <2>1. Settled(j)
    BY DEF IInv, Scored
  <2> QED BY <2>1 DEF Settled, Completes
<1>5. Range(reorder_queue)' = Range(reorder_queue)
  OBVIOUS
<1> QED BY <1>3, <1>4, <1>5 DEF Scored

(* An instruction whose time has not come is passed by. *)
LEMMA ExecPassesBy ==
  ASSUME IInv, phase = "exec", todo # << >>, NEW i, i = Head(todo), todo' = Tail(todo),
         rf' = Written(i),
         UNCHANGED <<sint, proc, queues, punt, parm, dcache, phase, count, traced, finished>>
  PROVE  IInv'
<1>1. UNCHANGED <<sint, proc, queues, punt, parm, dcache, phase, count, traced, finished>>
  OBVIOUS
<1>2. InOrder' = InOrder /\ Waiting' = Waiting /\ InPipe' = InPipe /\ Live' = Live
  BY <1>1 DEF queues, InOrder, InFetch, Waiting, InPipe, Live, Free
<1>3. \A j \in InPipe : SameFlags(j)
  BY <1>1 DEF SameFlags
<1>4. Paths' /\ Conserved' /\ Once(InOrder)'
  BY <1>1, <1>2, <1>3, QuietOrder DEF queues
<1>5. Placed'
  <2>1. Live = InPipe \cup Range(dcache_request)
    BY DEF IInv, Placed
  <2> QED BY <1>1, <1>2, <1>3, <1>4, <2>1, QuietPlaces DEF queues, dcache
<1>6. Requested'
  BY <1>1, <1>2 DEF IInv, Requested, Waits, IsStore, IsDirective, queues, dcache
<1>7. /\ Tail(todo) \in Seq(Ids) /\ Once(Tail(todo)) /\ i \in Range(reorder_queue)
      /\ Range(Tail(todo)) \subseteq Range(exec_queue) \ {i}
  BY ExecVisits
<1>8. Visiting'
  BY <1>1, <1>7 DEF Visiting, queues, Once, Before
<1>9. TypeOK'
  <2>1. rf' \in [Regs -> [tag : Ids \cup {NULL}, value_avail : BOOLEAN]]
    BY WrittenFacts DEF IInv, TypeOK
  <2> QED BY <1>1, <1>7, <2>1 DEF IInv, TypeOK, Phases, queues, dcache
<1>10. Idle' /\ punt' = "none"
  BY <1>1 DEF IInv, Idle
<1>11. Scored'
  BY <1>1, <1>7, WrittenScores DEF queues
<1> QED BY <1>4, <1>5, <1>6, <1>8, <1>9, <1>10, <1>11 DEF IInv

(* An instruction whose time has come is done, and the register that waits *)
(* for it has its value.                                                   *)
LEMMA ExecCompletes ==
  ASSUME OnlyResultsAreWritten, IInv, phase = "exec", todo # << >>,
         NEW i, i = Head(todo), Completes(i), ~ (sint[i].mispredicted /\ ~ sint[i].off_path),
         todo' = Tail(todo), sint' = [sint EXCEPT ![i].completed = TRUE],
         rf' = Written(i),
         exec_queue' = Without(exec_queue, {i}),
         UNCHANGED <<proc, fetch_stage, decode_queue, reorder_queue, pending_stores, punt,
                     parm, dcache, phase, count, traced, finished>>
  PROVE  IInv'
<1>1. /\ todo' = Tail(todo) /\ sint' = [sint EXCEPT ![i].completed = TRUE]
      /\ exec_queue' = Without(exec_queue, {i})
      /\ UNCHANGED <<proc, fetch_stage, decode_queue, reorder_queue, pending_stores, punt,
                     parm, dcache, phase, count, traced, finished>>
  OBVIOUS
<1>2. TypeOK /\ InOrderFacts /\ Placed /\ Paths /\ Requested /\ Conserved /\ OnceEach
  BY QueuesAreOK, InOrderIs, OnceFacts DEF IInv, Placed
<1>3. /\ i \in Range(exec_queue) /\ i \in Range(reorder_queue) /\ i \in InPipe
      /\ i \in Ids /\ sint[i] \in Sints /\ ~ sint[i].completed
      /\ Tail(todo) \in Seq(Ids) /\ Once(Tail(todo))
      /\ Range(Tail(todo)) \subseteq Range(exec_queue) \ {i}
  BY ExecVisits
<1>4. i \notin Range(dcache_request) /\ i \notin outstanding
  BY <1>3, CompletesIsNotRequested
<1>5. InOrder' = InOrder /\ InPipe' = InPipe /\ Waiting' = Waiting
  BY <1>1 DEF InOrder, InPipe, InFetch, Waiting
<1>6. /\ \A j \in Ids : j # i => sint'[j] = sint[j]
      /\ sint'[i] = [sint[i] EXCEPT !.completed = TRUE]
      /\ sint' \in [Ids -> Sints \cup {NoSint}]
  <2>1. [sint[i] EXCEPT !.completed = TRUE] \in Sints
    BY <1>3 DEF Sints
  <2> QED BY <1>1, <1>2, <1>3, <2>1 DEF TypeOK
<1>7. /\ sint'[i] \in Sints /\ sint'[i].completed = TRUE
      /\ sint'[i].op = sint[i].op /\ sint'[i].position = sint[i].position
      /\ sint'[i].off_path = sint[i].off_path
      /\ sint'[i].mispredicted = sint[i].mispredicted
      /\ sint'[i].squashed = sint[i].squashed /\ sint'[i].wait = sint[i].wait
  BY <1>3, <1>6 DEF Sints
<1>8. \A j \in Ids : /\ sint'[j].op = sint[j].op /\ sint'[j].position = sint[j].position
                     /\ sint'[j].off_path = sint[j].off_path
                     /\ sint'[j].mispredicted = sint[j].mispredicted
                     /\ sint'[j].squashed = sint[j].squashed
                     /\ sint'[j].wait = sint[j].wait
                     /\ j # i => sint'[j].completed = sint[j].completed
  BY <1>6, <1>7
<1>9. InPipe \subseteq Ids /\ Range(dcache_request) \subseteq Ids /\ outstanding \subseteq Ids
      /\ Range(reorder_queue) \subseteq Ids
  BY <1>2, InRange DEF InOrderFacts, InPipe, TypeOK
<1>10. /\ exec_queue' \in Seq(Ids) /\ Range(exec_queue') = Range(exec_queue) \ {i}
       /\ Once(exec_queue) => Once(exec_queue')
  BY <1>1, <1>2, WithoutFacts DEF TypeOK
<1>11. Placed'
  <2>1. Live' = Live
    <3>1. \A j \in Ids : sint'[j] = NoSint <=> sint[j] = NoSint
      BY <1>3, <1>6, <1>7, SintIsNotFree
    <3> QED BY <3>1 DEF Live, Free
  <2>2. Once(InOrder)' /\ Once(exec_queue)'
    <3>1. Once(InOrder) /\ Once(exec_queue')
      BY <1>2, <1>10 DEF Placed
    <3>2. Once(InOrder)'
      BY <1>5, <3>1 DEF Once, Before
    <3>3. Once(exec_queue)'
      BY <3>1 DEF Once, Before
    <3> QED BY <3>2, <3>3
  <2>3. \A j \in Range(exec_queue') : ~ sint'[j].completed
    BY <1>2, <1>8, <1>9, <1>10 DEF Placed
  <2>4. \A j \in Waiting' : ~ sint'[j].completed /\ ~ sint'[j].squashed
    <3>1. \A j \in Waiting : j # i /\ j \in Ids
      BY <1>2, <1>3, <1>9 DEF OnceEach, InOrderFacts
    <3> QED BY <1>2, <1>5, <1>8, <3>1 DEF Placed
  <2> QED BY <1>1, <1>2, <1>5, <1>10, <2>1, <2>2, <2>3, <2>4 DEF Placed, dcache
<1>12. Requested'
  <2>1. \A j \in Ids : j # i => /\ IsStore(j)' <=> IsStore(j)
                                /\ IsDirective(j)' <=> IsDirective(j)
                                /\ Waits(j)' <=> Waits(j)
                                /\ sint'[j].completed = sint[j].completed
    BY <1>1, <1>6 DEF IsStore, IsDirective, Waits, Never
  <2> QED BY <1>1, <1>2, <1>4, <1>5, <1>9, <2>1 DEF Requested, dcache
<1>13. Visiting'
  BY <1>1, <1>3, <1>10 DEF Visiting, Once, Before
<1>14. \A x, y : /\ Before(InOrder, x, y)' <=> Before(InOrder, x, y)
                 /\ Before(reorder_queue, x, y)' <=> Before(reorder_queue, x, y)
  BY <1>1, <1>5 DEF Before
<1>15. Paths'
  <2>1. \A j \in InPipe : Unresolved(j)' <=> Unresolved(j)
    <3>1. ~ Unresolved(i) /\ ~ Unresolved(i)'
      BY <1>7 DEF Unresolved
    <3>2. \A j \in Ids : j # i => (Unresolved(j)' <=> Unresolved(j))
      BY <1>6 DEF Unresolved
    <3> QED BY <1>9, <3>1, <3>2
  <2>2. \A b \in Ids : Blamed(b) => Blamed(b)'
    <3> SUFFICES ASSUME NEW b \in Ids, Blamed(b) PROVE Blamed(b)'
      OBVIOUS
    <3> QED BY <1>5, <1>8, <1>9, <1>14, <2>1 DEF Blamed
  <2>3. \A j \in InPipe' : /\ sint'[j].squashed => sint'[j].off_path
                           /\ sint'[j].mispredicted => sint'[j].op.type \in {"branch", "jsr"}
    BY <1>2, <1>5, <1>8, <1>9 DEF Paths
  <2>4. proc'.on_correct_path =>
          \A j \in InPipe' : ~ Unresolved(j)' /\ (sint'[j].squashed \/ ~ sint'[j].off_path)
    BY <1>1, <1>2, <1>5, <1>8, <1>9, <2>1 DEF Paths
  <2> QED BY <1>1, <1>2, <2>2, <2>3, <2>4 DEF Paths
<1>16. Conserved'
  <2>1. OnPath' = OnPath /\ OnPath \subseteq Ids
    BY <1>5, <1>8, <1>9 DEF OnPath
  <2>2. {sint'[j].position : j \in OnPath'} = {sint[j].position : j \in OnPath}
    BY <1>8, <2>1
  <2>3. \A x, y \in OnPath' : Before(InOrder, x, y)' => sint'[x].position < sint'[y].position
    BY <1>2, <1>8, <1>14, <2>1 DEF Conserved
  <2> QED BY <1>1, <1>2, <2>2, <2>3 DEF Conserved
<1>17. rf' \in [Regs -> [tag : Ids \cup {NULL}, value_avail : BOOLEAN]]
  BY <1>2, WrittenFacts DEF TypeOK
<1>18. TypeOK'
  BY <1>1, <1>2, <1>3, <1>6, <1>10, <1>17 DEF TypeOK, dcache
<1>19. Scored'
  <2>1. \A j \in Range(reorder_queue) :
          /\ sint'[j].op = sint[j].op /\ sint'[j].squashed = sint[j].squashed
          /\ sint'[j].wait = sint[j].wait
          /\ sint'[j].completed => sint[j].completed \/ (j = i /\ Completes(i))
    BY <1>8, <1>9
  <2> QED BY <1>1, <1>3, <2>1, WrittenScores
<1>20. Idle' /\ punt' = "none"
  BY <1>1 DEF IInv, Idle
<1> QED BY <1>11, <1>12, <1>13, <1>15, <1>16, <1>18, <1>19, <1>20 DEF IInv

(* What is behind b in the reorder buffer. *)
LEMMA AfterIs ==
  ASSUME reorder_queue \in Seq(Ids), Once(reorder_queue), NEW b \in Range(reorder_queue)
  PROVE  /\ Place(b) \in 1 .. Len(reorder_queue) /\ reorder_queue[Place(b)] = b
         /\ After(b) = {j \in Range(reorder_queue) : Before(reorder_queue, b, j)}
         /\ b \notin After(b)
         /\ \A k \in 1 .. Len(reorder_queue) : k <= Place(b) <=> reorder_queue[k] \notin After(b)
<1>1. PICK n : n = Place(b)
  OBVIOUS
<1>2. PICK q : q = reorder_queue
  OBVIOUS
<1>3. /\ q \in Seq(Ids) /\ DOMAIN q = 1 .. Len(q) /\ Len(q) \in Nat
      /\ b \in Range(q) /\ \A x : ~ Before(q, x, x)
  BY <1>2, BeforeRange DEF Once
<1>4. n \in 1 .. Len(q) /\ q[n] = b
  <2>1. q \in Seq(Ids) /\ b \in Range(q)
    BY <1>3
  <2>2. \E k \in 1 .. Len(q) : q[k] = b
    BY <2>1, InRange
  <2>3. \E k \in DOMAIN q : q[k] = b
    BY <1>3, <2>2
  <2> QED BY <1>1, <1>2, <1>3, <2>3 DEF Place
<1>5. \A m, k \in 1 .. Len(q) : q[m] = q[k] => m = k
  <2> SUFFICES ASSUME NEW m \in 1 .. Len(q), NEW k \in 1 .. Len(q), q[m] = q[k], m # k
               PROVE  FALSE
    OBVIOUS
  <2>1. m < k \/ k < m
    OBVIOUS
  <2> QED BY <1>3, <2>1 DEF Before
<1>6. After(b) = {q[k] : k \in n + 1 .. Len(q)}
  BY <1>1, <1>2 DEF After
<1>7. \A k \in 1 .. Len(q) : Before(q, b, q[k]) <=> n < k
  <2> SUFFICES ASSUME NEW k \in 1 .. Len(q) PROVE Before(q, b, q[k]) <=> n < k
    OBVIOUS
  <2>1. n < k => Before(q, b, q[k])
    BY <1>3, <1>4 DEF Before
  <2>2. ASSUME Before(q, b, q[k]) PROVE n < k
    <3>1. PICK x, y \in 1 .. Len(q) : x < y /\ q[x] = b /\ q[y] = q[k]
      BY <1>3, <2>2 DEF Before
    <3>2. x = n /\ y = k
      BY <1>4, <1>5, <3>1
    <3> QED BY <3>1, <3>2
  <2> QED BY <2>1, <2>2
<1>8. \A k \in 1 .. Len(q) : k <= n <=> q[k] \notin After(b)
  <2> SUFFICES ASSUME NEW k \in 1 .. Len(q) PROVE k <= n <=> q[k] \notin After(b)
    OBVIOUS
  <2>1. CASE k <= n
    <3>1. ASSUME NEW m \in n + 1 .. Len(q), q[m] = q[k] PROVE FALSE
      <4>1. m \in 1 .. Len(q) /\ m # k
        BY <1>3, <1>4, <2>1
      <4> QED BY <1>5, <3>1, <4>1
    <3> QED BY <1>6, <2>1, <3>1
  <2>2. CASE ~ (k <= n)
    <3>1. k \in n + 1 .. Len(q)
      BY <1>3, <1>4, <2>2
    <3> QED BY <1>6, <2>2, <3>1
  <2> QED BY <2>1, <2>2
<1>9. After(b) = {j \in Range(q) : Before(q, b, j)}
  <2>1. \A k \in n + 1 .. Len(q) : k \in 1 .. Len(q) /\ n < k
    BY <1>3, <1>4
  <2>2. ASSUME NEW j \in After(b) PROVE j \in Range(q) /\ Before(q, b, j)
    BY <1>3, <1>6, <1>7, <2>1, InRange
  <2>3. ASSUME NEW j \in Range(q), Before(q, b, j) PROVE j \in After(b)
    <3>1. PICK k \in 1 .. Len(q) : q[k] = j
      BY <1>3, InRange
    <3>2. ~ (k <= n)
      BY <1>3, <1>4, <1>7, <2>3, <3>1
    <3> QED BY <1>8, <3>1, <3>2
  <2> QED BY <2>2, <2>3
<1>10. b \notin After(b)
  BY <1>3, <1>9
<1> QED BY <1>1, <1>2, <1>4, <1>8, <1>9, <1>10

(* The entry e of r is one its writers W are to leave. *)
Agrees(e, r, W) ==
  /\ e \in [tag : Ids \cup {NULL}, value_avail : BOOLEAN]
  /\ e.tag = NULL => e.value_avail /\ \A j \in W : IsStore(j)
  /\ e.tag # NULL => /\ e.tag \in W
                     /\ \A j \in W : Before(reorder_queue, e.tag, j) => IsStore(j)
                     /\ e.value_avail => sint[e.tag].wait[r] = 0
                     /\ sint[e.tag].completed => e.value_avail

(* The scoreboard that the repair builds is the one of the instructions    *)
(* that are left.                                                          *)
LEMMA RepairedIsExact ==
  ASSUME IInv, NEW b \in Range(reorder_queue), NEW r \in Regs
  PROVE  Agrees(Repaired(b, After(b), rf)[r], r, WritersOf(r) \ After(b))
<1> DEFINE left == WritersOf(r) \ After(b)
           e == Repaired(b, After(b), rf)[r]
           q == reorder_queue
           cleared == UNION {sint[i].op.dests : i \in After(b)}
           older == {k \in 1 .. Place(b) : r \in sint[q[k]].op.dests /\ ~ sint[q[k]].squashed}
           nearest == q[Max(older)]
<1>1. TypeOK /\ InOrderFacts /\ Placed /\ OnceEach /\ Tagged(r)
  BY QueuesAreOK, InOrderIs, OnceFacts DEF IInv, Placed, Scored
<1>2. q \in Seq(Ids) /\ Once(q) /\ DOMAIN q = 1 .. Len(q) /\ Len(q) \in Nat
  BY <1>1 DEF TypeOK, OnceEach
<1>3. /\ Place(b) \in 1 .. Len(q) /\ q[Place(b)] = b
      /\ After(b) = {j \in Range(q) : Before(q, b, j)}
      /\ b \notin After(b)
      /\ \A k \in 1 .. Len(q) : k <= Place(b) <=> q[k] \notin After(b)
  BY <1>2, AfterIs
<1>4. e = IF r \notin cleared /\ rf[r].tag # NULL THEN rf[r]
          ELSE IF older # {}
               THEN [tag |-> nearest, value_avail |-> sint[nearest].completed]
          ELSE IF r \in cleared THEN Available ELSE rf[r]
  BY DEF Repaired
<1>5. rf[r] \in [tag : Ids \cup {NULL}, value_avail : BOOLEAN]
  BY <1>1 DEF TypeOK
<1>6. left = {q[k] : k \in older}
  <2>1. ASSUME NEW j \in left PROVE j \in {q[k] : k \in older}
    <3>1. j \in Range(q) /\ r \in sint[j].op.dests /\ ~ sint[j].squashed /\ j \notin After(b)
      BY <2>1 DEF WritersOf
    <3>2. PICK k \in 1 .. Len(q) : q[k] = j
      BY <1>2, <3>1, InRange
    <3>3. k \in 1 .. Place(b)
      BY <1>3, <3>1, <3>2
    <3> QED BY <3>1, <3>2, <3>3
  <2>2. ASSUME NEW k \in older PROVE q[k] \in left
    <3>1. k \in 1 .. Len(q) /\ k <= Place(b)
      BY <1>2, <1>3
    <3>2. q[k] \in Range(q)
      BY <1>2, <3>1, InRange
    <3> QED BY <1>3, <3>1, <3>2 DEF WritersOf
  <2> QED BY <2>1, <2>2
<1>7. \A j \in Range(q) : j \in Ids /\ sint[j].completed \in BOOLEAN
  <2>1. \A j \in Range(q) : j \in Live
    BY <1>1 DEF InOrderFacts, Placed
  <2> QED BY <1>1, <2>1 DEF TypeOK, Live, Free, Sints
<1>8. left \subseteq Range(q)
  BY DEF WritersOf
<1>9. CASE r \notin cleared /\ rf[r].tag # NULL
  <2>1. e = rf[r]
    BY <1>4, <1>9
  <2>2. left = WritersOf(r)
    BY <1>9 DEF WritersOf
  <2> HIDE DEF e, left, cleared, older, nearest
  <2>3. /\ e.tag # NULL /\ e.tag \in left /\ (e.value_avail => sint[e.tag].wait[r] = 0)
        /\ \A j \in left : Before(q, e.tag, j) => IsStore(j)
        /\ sint[e.tag].completed => e.value_avail
    BY <1>1, <1>9, <2>1, <2>2 DEF Tagged
  <2>4. Agrees(e, r, left)
    BY <1>5, <2>1, <2>3 DEF Agrees
  <2> QED BY <2>4 DEF e, left
<1>10. CASE ~ (r \notin cleared /\ rf[r].tag # NULL) /\ older # {}
  <2>1. older \in SUBSET Nat /\ IsFiniteSet(older)
    <3>1. Place(b) \in Nat /\ older \subseteq 1 .. Place(b)
      BY <1>2, <1>3
    <3>2. IsFiniteSet(1 .. Place(b))
      BY <3>1, FS_Interval
    <3> QED BY <3>1, <3>2, FS_Subset
  <2>2. PICK m : m = Max(older)
    OBVIOUS
  <2>3. m \in older /\ \A x \in older : x <= m
    <3> HIDE DEF older
    <3> QED BY <1>10, <2>1, <2>2, FiniteMax
  <2>4. e = [tag |-> q[m], value_avail |-> sint[q[m]].completed]
    BY <1>4, <1>10, <2>2
  <2>5. q[m] \in left
    BY <1>6, <2>3
  <2>6. ASSUME NEW j \in left, Before(q, q[m], j) PROVE FALSE
    <3>1. PICK k \in older : j = q[k]
      BY <1>6, <2>6
    <3>2. m \in 1 .. Len(q) /\ k \in 1 .. Len(q) /\ k <= m
      BY <1>2, <1>3, <2>3, <3>1
    <3>3. CASE k = m
      BY <2>6, <3>1, <3>2, <3>3, <1>2, BeforeRange DEF Once
    <3>4. CASE k < m
      <4>1. Before(q, j, q[m])
        BY <1>2, <3>1, <3>2, <3>4 DEF Before
      <4>2. Before(q, j, j) /\ j \in Range(q)
        BY <1>2, <2>6, <4>1, BeforeIsTransitive, BeforeRange
      <4> QED BY <1>2, <4>2 DEF Once
    <3> QED BY <3>2, <3>3, <3>4
  <2>7. e.tag = q[m] /\ e.value_avail = sint[q[m]].completed /\ q[m] \in Ids
        /\ sint[q[m]].completed \in BOOLEAN
    BY <1>7, <1>8, <2>4, <2>5
  <2>8. e \in [tag : Ids \cup {NULL}, value_avail : BOOLEAN]
    BY <2>4, <2>7
  <2>9. sint[q[m]].completed => sint[q[m]].wait[r] = 0
    <3>1. Settled(q[m]) /\ r \in sint[q[m]].op.dests
      BY <1>8, <2>5 DEF IInv, Scored, WritersOf
    <3> QED BY <3>1 DEF Settled
  <2> HIDE DEF e, left
  <2>10. Agrees(e, r, left)
    BY <2>5, <2>6, <2>7, <2>8, <2>9, NumbersAreNotZero DEF Agrees
  <2> QED BY <2>10 DEF e, left
<1>11. CASE ~ (r \notin cleared /\ rf[r].tag # NULL) /\ older = {}
  <2>1. left = {}
    BY <1>6, <1>11
  <2>2. CASE r \in cleared
    <3> HIDE DEF e, left, cleared, older, nearest
    <3>1. e = Available
      BY <1>4, <1>11, <2>2
    <3>2. Available \in [tag : Ids \cup {NULL}, value_avail : BOOLEAN]
      BY DEF Available
    <3>3. Agrees(e, r, left)
      BY <2>1, <3>1, <3>2 DEF Agrees, Available
    <3> QED BY <3>3 DEF e, left
  <2>3. CASE r \notin cleared
    <3>1. rf[r].tag = NULL /\ e = rf[r]
      BY <1>4, <1>11, <2>3
    <3>2. rf[r].value_avail
      BY <1>1, <3>1 DEF Tagged
    <3> HIDE DEF e, left
    <3>3. Agrees(e, r, left)
      BY <1>5, <2>1, <3>1, <3>2 DEF Agrees
    <3> QED BY <3>3 DEF e, left
  <2> QED BY <2>2, <2>3
<1> QED BY <1>9, <1>10, <1>11

(* A mispredicted branch of the trace is resolved: the wrong path behind   *)
(* it goes, and fetch resumes where the trace is.                          *)
LEMMA ExecRepairs ==
  ASSUME OnlyResultsAreWritten, IInv, phase = "exec", todo # << >>,
         NEW i, i = Head(todo), Completes(i), sint[i].mispredicted, ~ sint[i].off_path,
         todo' = Tail(todo),
         FixMispredictedBranch(i, [sint EXCEPT ![i].completed = TRUE], rf),
         exec_queue' = Without(exec_queue, {i}),
         UNCHANGED <<reorder_queue, pending_stores, parm, dcache, phase, count, traced, finished>>
  PROVE  IInv'
<1> DEFINE gone == Fetched \cup Range(decode_queue)
           squash == After(i)
           done == [sint EXCEPT ![i].completed = TRUE]
<1>1. /\ todo' = Tail(todo) /\ exec_queue' = Without(exec_queue, {i})
      /\ fetch_stage' = [s \in Stages |-> << >>] /\ decode_queue' = << >>
      /\ proc' = [proc EXCEPT !.ifetch_pc = proc.on_path_pc, !.on_correct_path = TRUE,
                              !.ifetch_enabled = FALSE, !.enable_ifetch_next_cycle = TRUE]
      /\ UNCHANGED <<reorder_queue, pending_stores, parm, dcache, phase, count, traced, finished>>
  BY DEF FixMispredictedBranch
<1>a. /\ sint' = [j \in Ids |-> IF j \in gone THEN NoSint
                                ELSE IF j \in squash THEN [done[j] EXCEPT !.squashed = TRUE]
                                ELSE done[j]]
      /\ rf' = Repaired(i, squash, rf)
      /\ punt' = IF gone \cap (Range(exec_queue) \cup Range(reorder_queue)
                                 \cup Range(dcache_request)) # {}
                 THEN "Sint still in queues" ELSE punt
  BY DEF FixMispredictedBranch
<1>2. TypeOK /\ InOrderFacts /\ Placed /\ Paths /\ Requested /\ Conserved /\ OnceEach
  BY QueuesAreOK, InOrderIs, OnceFacts DEF IInv, Placed
<1>3. /\ i \in Range(exec_queue) /\ i \in Range(reorder_queue) /\ i \in InPipe
      /\ i \in Ids /\ sint[i] \in Sints /\ ~ sint[i].completed
      /\ Tail(todo) \in Seq(Ids) /\ Once(Tail(todo))
      /\ Range(Tail(todo)) \subseteq Range(exec_queue) \ {i}
  BY ExecVisits
<1>4. i \notin Range(dcache_request) /\ i \notin outstanding
  BY <1>3, CompletesIsNotRequested
<1>5. ~ proc.on_correct_path /\ Blamed(i)
  <2>1. Unresolved(i)
    BY <1>3 DEF Unresolved
  <2>2. ~ proc.on_correct_path
    BY <1>2, <1>3, <2>1 DEF Paths
  <2> QED BY <1>2, <1>3, <2>1, <2>2 DEF Paths, Blamed
<1>6. sint[i].op.dests = {}
  BY <1>2, <1>3 DEF Paths, OnlyResultsAreWritten, Sints
<1>7. gone = Waiting /\ gone \cap Range(reorder_queue) = {} /\ gone \subseteq InPipe
  BY <1>2 DEF InOrderFacts, Waiting, OnceEach
<1>8. /\ squash = {j \in Range(reorder_queue) : Before(reorder_queue, i, j)}
      /\ i \notin squash
  BY <1>2, <1>3, AfterIs DEF TypeOK, OnceEach
<1> HIDE DEF gone, squash
<1>9. \A j \in gone \cup squash : sint[j].off_path /\ j # i
  <2>1. \A j \in gone \cup squash : j \in InPipe /\ Before(InOrder, i, j)
    BY <1>2, <1>3, <1>7, <1>8 DEF InOrderFacts
  <2> QED BY <1>3, <1>5, <1>7, <1>8, <2>1 DEF Blamed
<1>10. /\ \A j \in Range(reorder_queue) \cup Range(exec_queue) : j \in Live
       /\ Live \subseteq Ids /\ InPipe \subseteq Live
       /\ Range(dcache_request) \subseteq Live
       /\ outstanding \subseteq Range(reorder_queue)
  BY <1>2 DEF Placed, InOrderFacts, Live, Requested, Waits
<1>11. \A j \in Range(dcache_request) : j \notin gone /\ j \notin squash \ Range(reorder_queue)
                                        /\ (j \in Range(reorder_queue) \/ j \notin InPipe)
  <2>1. \A j \in Range(dcache_request) : j \in Range(reorder_queue) \/ j \notin InPipe
    BY <1>2 DEF Requested, Waits
  <2> QED BY <1>7, <1>8, <2>1
<1>12. punt' = "none"
  <2>1. gone \cap (Range(exec_queue) \cup Range(reorder_queue) \cup Range(dcache_request)) = {}
    BY <1>2, <1>7, <1>11 DEF Placed
  <2> QED BY <1>a, <2>1 DEF IInv
<1>13. /\ sint'[i] = [sint[i] EXCEPT !.completed = TRUE]
       /\ \A j \in Ids : j \in gone => sint'[j] = NoSint
       /\ \A j \in Ids : j \in squash => sint'[j] = [sint[j] EXCEPT !.squashed = TRUE]
       /\ \A j \in Ids : j \notin gone \cup squash \cup {i} => sint'[j] = sint[j]
  <2>1. done[i] = [sint[i] EXCEPT !.completed = TRUE] /\ \A j \in Ids : j # i => done[j] = sint[j]
    BY <1>2, <1>3 DEF TypeOK
  <2>2. squash \cap gone = {}
    BY <1>7, <1>8
  <2> HIDE DEF done
  <2> QED BY <1>a, <1>3, <1>8, <1>9, <2>1, <2>2
<1> HIDE DEF done
<1>14. \A j \in Live : sint[j] \in Sints
  BY <1>2 DEF TypeOK, Live, Free
<1>15. ASSUME NEW j \in Live, j \notin gone
       PROVE  /\ sint'[j] \in Sints
              /\ sint'[j].op = sint[j].op /\ sint'[j].position = sint[j].position
              /\ sint'[j].off_path = sint[j].off_path
              /\ sint'[j].mispredicted = sint[j].mispredicted
              /\ sint'[j].wait = sint[j].wait
              /\ j # i => sint'[j].completed = sint[j].completed
              /\ j = i => sint'[j].completed = TRUE
              /\ j \notin squash => sint'[j].squashed = sint[j].squashed
              /\ j \in squash => sint'[j].squashed = TRUE
  <2>1. j \in Ids /\ sint[j] \in Sints
    BY <1>10, <1>14, <1>15
  <2>2. CASE j = i
    BY <1>8, <1>13, <2>1, <2>2 DEF Sints
  <2>3. CASE j \in squash
    <3>1. sint'[j] = [sint[j] EXCEPT !.squashed = TRUE] /\ j # i
      BY <1>8, <1>13, <2>1, <2>3
    <3> QED BY ONLY <2>1, <2>3, <3>1 DEF Sints
  <2>4. CASE j # i /\ j \notin squash
    BY <1>13, <1>15, <2>1, <2>4
  <2> QED BY <2>2, <2>3, <2>4
<1>16. /\ exec_queue' \in Seq(Ids) /\ Range(exec_queue') = Range(exec_queue) \ {i}
       /\ Once(exec_queue) => Once(exec_queue')
  BY <1>1, <1>2, WithoutFacts DEF TypeOK
<1>17. \A r \in Regs : Agrees(rf'[r], r, WritersOf(r) \ squash)
  BY <1>a, <1>3, RepairedIsExact DEF squash
<1>18. TypeOK'
  <2>1. sint' \in [Ids -> Sints \cup {NoSint}]
    <3>1. \A j \in Ids : sint'[j] \in Sints \cup {NoSint}
      <4> SUFFICES ASSUME NEW j \in Ids PROVE sint'[j] \in Sints \cup {NoSint}
        OBVIOUS
      <4>1. CASE j \in Live
        BY <1>13, <1>15, <4>1
      <4>2. CASE j \notin Live
        <5>1. j \notin gone \cup squash \cup {i} /\ sint[j] = NoSint
          BY <1>3, <1>7, <1>8, <1>10, <4>2 DEF Live, Free
        <5> QED BY <1>13, <5>1
      <4> QED BY <4>1, <4>2
    <3>2. sint' = [j \in Ids |-> sint'[j]]
      BY <1>a
    <3> QED BY <3>1, <3>2
  <2>2. rf' \in [Regs -> [tag : Ids \cup {NULL}, value_avail : BOOLEAN]]
    <3>1. rf' = [r \in Regs |-> rf'[r]]
      BY <1>a DEF Repaired
    <3> QED BY <1>17, <3>1 DEF Agrees
  <2>3. proc' \in Processors
    <3>1. proc \in Processors
      BY <1>2 DEF TypeOK
    <3>2. proc' = [proc EXCEPT !.ifetch_pc = proc.on_path_pc, !.on_correct_path = TRUE,
                               !.ifetch_enabled = FALSE, !.enable_ifetch_next_cycle = TRUE]
      BY <1>1
    <3>3. PICK pc \in Int : pc = proc.on_path_pc
      BY <3>1 DEF Processors
    <3>4. proc' = [proc EXCEPT !.ifetch_pc = pc, !.on_correct_path = TRUE,
                               !.ifetch_enabled = FALSE, !.enable_ifetch_next_cycle = TRUE]
      BY <3>2, <3>3
    <3> QED BY ONLY <3>1, <3>4, pc \in Int DEF Processors
  <2>4. fetch_stage' \in [Stages -> Seq(Ids)]
    BY <1>1
  <2> QED BY <1>1, <1>2, <1>3, <1>16, <2>1, <2>2, <2>3, <2>4 DEF TypeOK, dcache
<1>19. InOrderFacts'
  BY <1>18, InOrderIsNext DEF TypeOK, QueuesOK
<1>20. /\ Waiting' = {} /\ InPipe' = Range(reorder_queue)
       /\ \A x, y : Before(InOrder, x, y)' <=> Before(reorder_queue, x, y)
  <2>1. Range(InFetch') = {}
    <3>1. Fetched' = {}
      BY <1>1, EmptyFacts DEF Fetched
    <3> QED BY <1>19, <3>1 DEF InOrderFacts
  <2>2. Range(decode_queue') = {}
    BY <1>1, EmptyFacts
  <2>3. Waiting' = {}
    BY <2>1, <2>2 DEF Waiting
  <2>4. \A x, y : /\ ~ Before(InFetch, x, y)' /\ ~ Before(decode_queue, x, y)'
                  /\ Before(reorder_queue, x, y)' <=> Before(reorder_queue, x, y)
    <3>1. \A x, y : ~ Before(InFetch', x, y) /\ ~ Before(decode_queue', x, y)
      BY <2>1, <2>2, BeforeRange
    <3> QED BY <1>1, <3>1 DEF Before
  <2> QED BY <1>1, <1>19, <2>1, <2>2, <2>3, <2>4 DEF InOrderFacts
<1>21. /\ \A x, y : Before(reorder_queue, x, y) => Before(InOrder, x, y)
       /\ Range(reorder_queue) \subseteq InPipe
       /\ \A j \in Range(reorder_queue) : j \in Live /\ j \notin gone
  BY <1>2, <1>7, <1>10 DEF InOrderFacts
<1>22. Placed'
  <2>1. Live' = Live \ gone
    <3>1. \A j \in Ids : j \in Live' <=> j \in Live /\ j \notin gone
      <4> SUFFICES ASSUME NEW j \in Ids PROVE j \in Live' <=> j \in Live /\ j \notin gone
        OBVIOUS
      <4>1. CASE j \in gone
        BY <1>13, <4>1 DEF Live, Free
      <4>2. CASE j \in Live /\ j \notin gone
        BY <1>15, <4>2, SintIsNotFree DEF Live, Free
      <4>3. CASE j \notin Live
        <5>1. j \notin gone \cup squash \cup {i} /\ sint[j] = NoSint
          BY <1>3, <1>7, <1>8, <1>10, <4>3 DEF Live, Free
        <5> QED BY <1>13, <4>3, <5>1 DEF Live, Free
      <4> QED BY <4>1, <4>2, <4>3
    <3> QED BY <3>1 DEF Live
  <2>2. Live' = InPipe' \cup Range(dcache_request')
    <3>1. InPipe = Range(reorder_queue) \cup gone
      BY <1>2, <1>7 DEF InOrderFacts
    <3>2. Live = InPipe \cup Range(dcache_request) /\ dcache_request' = dcache_request
      BY <1>1, <1>2 DEF Placed, dcache
    <3> QED BY <1>7, <1>11, <1>20, <2>1, <3>1, <3>2
  <2>3. Once(InOrder)' /\ Once(exec_queue)'
    <3>1. \A x : ~ Before(InOrder, x, x)'
      BY <1>2, <1>20, BeforeRange DEF OnceEach, Once
    <3>2. Once(exec_queue')
      BY <1>2, <1>16 DEF Placed
    <3> QED BY <3>1, <3>2 DEF Once, Before
  <2>4. \A j \in Range(exec_queue') : ~ sint'[j].completed
    <3>1. \A j \in Range(exec_queue') : j # i /\ j \in Range(exec_queue) /\ j \in Live /\ j \notin gone
      BY <1>2, <1>16, <1>21 DEF Placed
    <3> QED BY <1>2, <1>15, <3>1 DEF Placed
  <2>5. Range(exec_queue') \subseteq Range(reorder_queue')
    BY <1>1, <1>2, <1>16 DEF Placed
  <2> QED BY <1>20, <2>2, <2>3, <2>4, <2>5 DEF Placed
<1>23. Requested'
  <2>1. ASSUME NEW j, Waits(j), j # i PROVE Waits(j)'
    BY <1>1, <1>15, <1>21, <2>1 DEF Waits, Never
  <2>2. \A j \in outstanding' : Waits(j)' /\ j \notin Range(dcache_request')
    BY <1>1, <1>2, <1>4, <2>1 DEF Requested, dcache
  <2>3. ASSUME NEW j \in Range(dcache_request')
        PROVE  IF IsStore(j)' \/ IsDirective(j)'
               THEN j \notin InPipe' /\ (IsDirective(j)' => ~ sint'[j].completed)
               ELSE Waits(j)'
    <3>1. j \in Range(dcache_request) /\ j # i /\ j \in Live /\ j \notin gone
      BY <1>1, <1>4, <1>10, <1>11, <2>3 DEF dcache
    <3>2. sint'[j].op = sint[j].op /\ sint'[j].off_path = sint[j].off_path
          /\ sint'[j].completed = sint[j].completed
      BY <1>15, <3>1
    <3>3. (IsStore(j)' <=> IsStore(j)) /\ (IsDirective(j)' <=> IsDirective(j))
      BY <3>2 DEF IsStore, IsDirective
    <3>4. CASE IsStore(j) \/ IsDirective(j)
      BY <1>2, <1>20, <1>21, <3>1, <3>2, <3>3, <3>4 DEF Requested
    <3>5. CASE ~ (IsStore(j) \/ IsDirective(j))
      BY <1>2, <2>1, <3>1, <3>3, <3>5 DEF Requested
    <3> QED BY <3>4, <3>5
  <2> QED BY <2>2, <2>3 DEF Requested
<1>24. Visiting'
  BY <1>1, <1>3, <1>16 DEF Visiting, Once, Before
<1>25. proc'.on_correct_path = TRUE /\ proc'.ifetch_pc = proc.on_path_pc
       /\ proc'.on_path_pc = proc.on_path_pc
  BY <1>1, <1>2 DEF TypeOK, Processors
<1>26. Paths'
  <2>1. ASSUME NEW j \in InPipe'
        PROVE  /\ sint'[j].squashed => sint'[j].off_path
               /\ sint'[j].mispredicted => sint'[j].op.type \in {"branch", "jsr"}
               /\ ~ Unresolved(j)' /\ (sint'[j].squashed \/ ~ sint'[j].off_path)
    <3>1. j \in Range(reorder_queue) /\ j \in Live /\ j \notin gone /\ j \in InPipe
      BY <1>20, <1>21, <2>1
    <3>2. sint'[j].squashed => sint'[j].off_path
      BY <1>2, <1>9, <1>15, <3>1 DEF Paths
    <3>3. sint'[j].mispredicted => sint'[j].op.type \in {"branch", "jsr"}
      BY <1>2, <1>15, <3>1 DEF Paths
    <3>4. ~ Unresolved(j)'
      <4>1. CASE j = i
        BY <1>15, <3>1, <4>1 DEF Unresolved
      <4>2. CASE j # i
        <5>1. ~ Unresolved(j)
          BY <1>5, <3>1, <4>2 DEF Blamed
        <5> QED BY <1>15, <3>1, <4>2, <5>1 DEF Unresolved
      <4> QED BY <4>1, <4>2
    <3>5. sint'[j].squashed \/ ~ sint'[j].off_path
      <4>1. CASE j = i
        BY <1>15, <3>1, <4>1
      <4>2. CASE j \in squash
        BY <1>15, <3>1, <4>2
      <4>3. CASE j # i /\ j \notin squash
        <5>1. Before(reorder_queue, j, i)
          BY <1>2, <1>3, <1>8, <3>1, <4>3, BeforeIsTotal DEF TypeOK
        <5>2. sint[j].squashed \/ ~ sint[j].off_path
          BY <1>5, <1>21, <3>1, <5>1 DEF Blamed
        <5> QED BY <1>15, <3>1, <4>3, <5>2
      <4> QED BY <4>1, <4>2, <4>3
    <3> QED BY <3>2, <3>3, <3>4, <3>5
  <2> QED BY <1>1, <1>2, <1>25, <2>1 DEF Paths
<1>27. Conserved'
  <2>1. OnPath' = OnPath
    <3>1. \A j \in OnPath : j \in Range(reorder_queue)
      BY <1>2, <1>7, <1>9 DEF OnPath, InOrderFacts
    <3> QED BY <1>15, <1>20, <1>21, <3>1 DEF OnPath
  <2>2. \A j \in OnPath : sint'[j].position = sint[j].position
    BY <1>15, <1>20, <1>21, <2>1 DEF OnPath
  <2>3. {sint'[j].position : j \in OnPath'} = {sint[j].position : j \in OnPath}
    BY <2>1, <2>2
  <2>4. \A x, y \in OnPath' : Before(InOrder, x, y)' => sint'[x].position < sint'[y].position
    BY <1>2, <1>20, <1>21, <2>1, <2>2 DEF Conserved
  <2> QED BY <1>1, <1>2, <2>3, <2>4 DEF Conserved
<1>28. Scored'
  <2>1. ASSUME NEW r \in Regs PROVE Tagged(r)'
    <3>1. WritersOf(r)' = WritersOf(r) \ squash
      <4>1. ASSUME NEW j \in Range(reorder_queue)
            PROVE  j \in WritersOf(r)' <=> j \in WritersOf(r) /\ j \notin squash
        BY <1>1, <1>15, <1>21, <4>1 DEF WritersOf
      <4>2. WritersOf(r)' \subseteq Range(reorder_queue) /\ WritersOf(r) \subseteq Range(reorder_queue)
        BY <1>1 DEF WritersOf
      <4> QED BY <4>1, <4>2
    <3>2. PICK t : t = rf'[r].tag
      OBVIOUS
    <3>3. /\ t = NULL => rf'[r].value_avail /\ \A j \in WritersOf(r)' : IsStore(j)
          /\ t # NULL => /\ t \in WritersOf(r)'
                         /\ \A j \in WritersOf(r)' : Before(reorder_queue, t, j) => IsStore(j)
                         /\ rf'[r].value_avail => sint[t].wait[r] = 0
                         /\ sint[t].completed => rf'[r].value_avail
      BY <1>17, <3>1, <3>2 DEF Agrees
    <3>4. \A j \in WritersOf(r)' : /\ j \in Range(reorder_queue) /\ r \in sint[j].op.dests
                                    /\ j \in Live /\ j \notin gone
      BY <1>21, <3>1 DEF WritersOf
    <3>5. \A j \in WritersOf(r)' : IsStore(j)' <=> IsStore(j)
      BY <1>15, <3>4 DEF IsStore
    <3>6. CASE t = NULL
      BY <3>2, <3>3, <3>5, <3>6 DEF Tagged
    <3>7. CASE t # NULL
      <4>1. t \in WritersOf(r)' /\ t # i /\ t \in Live /\ t \notin gone
        BY <1>6, <3>3, <3>4, <3>7
      <4>2. sint'[t].completed = sint[t].completed /\ sint'[t].wait = sint[t].wait
        BY <1>15, <4>1
      <4>3. \A j \in WritersOf(r)' : Before(reorder_queue', t, j) => IsStore(j)'
        BY <1>1, <3>3, <3>5, <3>7
      <4>4. /\ rf'[r].value_avail => sint'[t].wait[r] = 0
            /\ sint'[t].completed => rf'[r].value_avail
        BY <3>3, <3>7, <4>2
      <4> QED BY <3>2, <3>7, <4>1, <4>3, <4>4 DEF Tagged, Before
    <3> QED BY <3>6, <3>7
  <2>2. ASSUME NEW j \in Range(reorder_queue) PROVE Settled(j)'
    <3>1. j \in Live /\ j \notin gone /\ Settled(j)
      BY <1>21 DEF IInv, Scored
    <3>2. /\ sint'[j].op = sint[j].op /\ sint'[j].wait = sint[j].wait
          /\ j # i => sint'[j].completed = sint[j].completed
      BY <1>15, <3>1
    <3> QED BY <1>6, <3>1, <3>2 DEF Settled
  <2>3. Range(reorder_queue)' = Range(reorder_queue)
    BY <1>1
  <2> QED BY <2>1, <2>2, <2>3 DEF Scored
<1>29. Idle'
  BY <1>1 DEF Idle
<1> QED BY <1>12, <1>18, <1>22, <1>23, <1>24, <1>26, <1>27, <1>28, <1>29 DEF IInv

(* The three cases of an instruction that execution visits. *)
LEMMA ExecOneIInv == ASSUME OnlyResultsAreWritten, IInv, ExecOne PROVE IInv'
<1>0. PICK i : i = Head(todo)
  OBVIOUS
<1> DEFINE done == [sint EXCEPT ![i].completed = TRUE]
<1>1. /\ phase = "exec" /\ todo # << >> /\ todo' = Tail(todo)
      /\ UNCHANGED <<parm, dcache, phase, count, traced, finished>>
  BY DEF ExecOne
<1>2. \/ /\ Completes(i) /\ sint[i].mispredicted /\ ~ sint[i].off_path
         /\ FixMispredictedBranch(i, done, Written(i))
         /\ exec_queue' = Without(exec_queue, {i})
         /\ UNCHANGED <<reorder_queue, pending_stores>>
      \/ /\ Completes(i) /\ ~ (sint[i].mispredicted /\ ~ sint[i].off_path)
         /\ sint' = done /\ rf' = Written(i)
         /\ exec_queue' = Without(exec_queue, {i})
         /\ UNCHANGED <<proc, fetch_stage, decode_queue, reorder_queue, pending_stores, punt>>
      \/ rf' = Written(i) /\ UNCHANGED <<sint, proc, queues, punt>>
  BY <1>0 DEF ExecOne
<1>3. CASE Completes(i) /\ sint[i].mispredicted /\ ~ sint[i].off_path
             /\ FixMispredictedBranch(i, done, Written(i))
             /\ exec_queue' = Without(exec_queue, {i})
             /\ UNCHANGED <<reorder_queue, pending_stores>>
  <2>1. i \in InPipe /\ sint[i] \in Sints
    BY <1>0, <1>1, ExecVisits
  <2>2. sint[i].op.dests = {}
    BY <1>3, <2>1 DEF IInv, Paths, OnlyResultsAreWritten, Sints
  <2>3. Written(i) = rf
    BY <2>2 DEF Written, IInv, TypeOK
  <2>4. FixMispredictedBranch(i, done, rf)
    BY <1>3, <2>3
  <2> QED BY <1>0, <1>1, <1>3, <2>4, ExecRepairs
<1>4. CASE Completes(i) /\ ~ (sint[i].mispredicted /\ ~ sint[i].off_path)
             /\ sint' = done /\ rf' = Written(i)
             /\ exec_queue' = Without(exec_queue, {i})
             /\ UNCHANGED <<proc, fetch_stage, decode_queue, reorder_queue, pending_stores, punt>>
  BY <1>0, <1>1, <1>4, ExecCompletes
<1>5. CASE rf' = Written(i) /\ UNCHANGED <<sint, proc, queues, punt>>
  BY <1>0, <1>1, <1>5, ExecPassesBy
<1> QED BY <1>2, <1>3, <1>4, <1>5

-----------------------------------------------------------------------------
(* Decode.                                                                 *)

(* What decode visits next waits in its queue, and nowhere else; what is   *)
(* still ahead of it there is on the wrong path, and then so is it.        *)
LEMMA DecodeVisits ==
  ASSUME IInv, phase = "decode", todo # << >>, NEW i, i = Head(todo)
  PROVE  /\ i \in Range(decode_queue) /\ i \in InPipe /\ i \in Waiting /\ i \in Live
         /\ i \in Ids /\ sint[i] \in Sints /\ ~ sint[i].completed /\ ~ sint[i].squashed
         /\ i \notin Range(reorder_queue) /\ i \notin Range(exec_queue)
         /\ i \notin Range(InFetch)
         /\ i \notin Range(dcache_request) /\ i \notin outstanding
         /\ Tail(todo) \in Seq(Ids) /\ Once(Tail(todo))
         /\ Range(Tail(todo)) \subseteq Range(decode_queue) \ {i}
         /\ \A x, y : Before(todo, x, y) => x = i \/ Before(Tail(todo), x, y)
         /\ \A x : Before(decode_queue, x, i) => sint[x].off_path /\ sint[i].off_path
<1>1. TypeOK /\ InOrderFacts /\ Placed /\ Visiting /\ Requested /\ Paths /\ OnceEach
  BY QueuesAreOK, InOrderIs, OnceFacts DEF IInv, Placed
<1>2. todo \in Seq(Ids) /\ Once(todo) /\ Range(todo) \subseteq Range(decode_queue)
  BY <1>1 DEF TypeOK, Visiting
<1>3. /\ Tail(todo) \in Seq(Ids) /\ Once(Tail(todo)) /\ i \in Range(todo)
      /\ Range(Tail(todo)) = Range(todo) \ {i}
      /\ \A x : ~ Before(todo, x, i)
      /\ \A x, y : Before(todo, x, y) => x = i \/ Before(Tail(todo), x, y)
  BY <1>2, HeadIsFirst, BeforeTail
<1>4. i \in Range(decode_queue) /\ i \in Waiting
  BY <1>2, <1>3 DEF Waiting
<1>5. /\ i \in InPipe /\ i \in Live /\ i \notin Range(reorder_queue)
      /\ i \notin Range(exec_queue) /\ i \notin Range(InFetch)
      /\ ~ sint[i].completed /\ ~ sint[i].squashed
  BY <1>1, <1>4 DEF InOrderFacts, Placed, OnceEach
<1>6. i \in Ids /\ sint[i] \in Sints
  BY <1>1, <1>5 DEF TypeOK, Live, Free
<1>7. i \notin Range(dcache_request) /\ i \notin outstanding
  BY <1>1, <1>5 DEF Requested, Waits
<1>8. ASSUME NEW x, Before(decode_queue, x, i) PROVE sint[x].off_path /\ sint[i].off_path
  <2>1. x \in Range(decode_queue) /\ sint[x].off_path
    BY <1>1, <1>3, <1>8, BeforeRange DEF Visiting
  <2>2. x \in Waiting /\ x \in InPipe /\ ~ sint[x].squashed
    BY <1>1, <2>1 DEF Waiting, InOrderFacts, Placed
  <2>3. ~ proc.on_correct_path
    BY <1>1, <2>1, <2>2 DEF Paths
  <2>4. PICK b : Blamed(b)
    BY <1>1, <2>3 DEF Paths
  <2>5. b \in InPipe /\ ~ sint[b].off_path /\ b # x /\ ~ Before(InOrder, x, b)
    BY <2>1, <2>2, <2>4 DEF Blamed, Unresolved
  <2>6. InOrder \in Seq(Ids) /\ Once(InOrder) /\ b \in Range(InOrder) /\ x \in Range(InOrder)
    BY <1>1, <2>2, <2>5 DEF InOrderFacts, Placed, InPipe
  <2>7. Before(InOrder, b, x)
    BY <2>5, <2>6, BeforeIsTotal
  <2>8. Before(InOrder, x, i)
    BY <1>1, <1>8 DEF InOrderFacts
  <2>9. Before(InOrder, b, i)
    BY <2>6, <2>7, <2>8, BeforeIsTransitive
  <2> QED BY <1>5, <2>1, <2>4, <2>9 DEF Blamed
<1> QED BY <1>2, <1>3, <1>4, <1>5, <1>6, <1>7, <1>8

(* Issue sets the times of an instruction, and forwards to it; no register *)
(* waits for what does not retire.                                         *)
LEMMA IssueFacts ==
  ASSUME OnlyResultsAreWritten, IInv, Programmed, DecodeOne, NEW i, i = Head(todo)
  PROVE  /\ sint' \in [Ids -> Sints \cup {NoSint}] /\ Live' = Live
         /\ \A j \in Ids : SameFlags(j) /\ (j # i => sint'[j] = sint[j])
         /\ Returns(i) => sint'[i].wait[sint[i].op.first_dest] = Never
         /\ Unretired(i) => Tags(i) = {}
         /\ Tags(i) \subseteq sint[i].op.dests
         /\ \A r \in sint[i].op.dests : r \in Tags(i) \/ IsStore(i)
<1>1. /\ phase = "decode" /\ todo # << >>
      /\ sint' = [sint EXCEPT ![i].value_forwarded = Forwarded(i),
                              ![i].wait = Latencies(i)]
  BY DEF DecodeOne
<1>2. i \in Ids /\ sint[i] \in Sints /\ TypeOK
  BY <1>1, DecodeVisits DEF IInv
<1>3. sint[i].op \in Ops /\ sint[i].op \in OpRecords
  BY <1>2, NumbersAreNotZero DEF Sints
<1>4. PICK v : v = Forwarded(i)
  OBVIOUS
<1>5. PICK w : w = Latencies(i)
  OBVIOUS
<1>6. v \in BOOLEAN /\ w \in [Regs -> Nat]
  <2>1. \A r \in Regs : Latencies(i)[r] \in Nat
    BY <1>3, NeverIsLater DEF Latencies, OpRecords
  <2>2. Latencies(i) = [r \in Regs |-> Latencies(i)[r]]
    BY DEF Latencies
  <2> QED BY <1>4, <1>5, <2>1, <2>2 DEF Forwarded
<1>7. sint' = [sint EXCEPT ![i].value_forwarded = v, ![i].wait = w]
  BY <1>1, <1>4, <1>5
<1>8. sint \in [Ids -> Sints \cup {NoSint}]
  BY <1>2 DEF TypeOK
<1>9. /\ sint'[i] = [sint[i] EXCEPT !.value_forwarded = v, !.wait = w]
      /\ \A j \in Ids : j # i => sint'[j] = sint[j]
      /\ sint' = [j \in Ids |-> sint'[j]]
  BY ONLY <1>2, <1>7, <1>8
<1>10. /\ sint'[i] \in Sints /\ sint'[i].wait = w /\ SameFlags(i)
  <2>1. PICK s : s = sint[i]
    OBVIOUS
  <2>2. PICK t : t = sint'[i]
    OBVIOUS
  <2>3. t = [s EXCEPT !.value_forwarded = v, !.wait = w] /\ s \in Sints
    BY <1>2, <1>9, <2>1, <2>2
  <2>4. /\ t \in Sints /\ t.wait = w /\ t.op = s.op /\ t.position = s.position
        /\ t.off_path = s.off_path /\ t.mispredicted = s.mispredicted
        /\ t.completed = s.completed /\ t.squashed = s.squashed
    BY ONLY <1>6, <2>3 DEF Sints
  <2> QED BY <2>1, <2>2, <2>4 DEF SameFlags
<1>11. \A j \in Ids : sint'[j] \in Sints \cup {NoSint} /\ SameFlags(j)
  BY <1>8, <1>9, <1>10 DEF SameFlags
<1>12. Live' = Live
  <2>1. \A j \in Ids : sint'[j] = NoSint <=> sint[j] = NoSint
    BY <1>2, <1>9, <1>10, SintIsNotFree
  <2> QED BY <2>1 DEF Live, Free
<1>13. sint' \in [Ids -> Sints \cup {NoSint}]
  BY <1>9, <1>11
<1>14. Returns(i) => sint'[i].wait[sint[i].op.first_dest] = Never
  <2> SUFFICES ASSUME Returns(i) PROVE w[sint[i].op.first_dest] = Never
    BY <1>10
  <2>1. sint[i].op.type \in {"load", "mem_copy_check"}
    BY DEF Returns, GoesToDcache, Unretired, IsStore, IsDirective
  <2>2. sint[i].op.dests # {} /\ sint[i].op.dests \subseteq Regs
    BY <1>3, <2>1 DEF OnlyResultsAreWritten, OpRecords
  <2>3. sint[i].op.first_dest \in sint[i].op.dests /\ sint[i].op.first_dest \in Regs
    BY <1>3, <2>2, PipelineAssumption
  <2> QED BY <1>5, <2>3 DEF Latencies
<1>15. Unretired(i) => Tags(i) = {}
  <2>1. sint[i] # NoSint
    BY <1>2, SintIsNotFree
  <2>2. sint[i].op \in parm.program /\ parm \in Parms
    BY <1>2, <2>1 DEF Programmed, TypeOK
  <2>3. IsDirective(i) => sint[i].op.dests = {}
    BY <1>3 DEF IsDirective, OnlyResultsAreWritten
  <2>4. IsStore(i) /\ ~ parm.delay_stores => sint[i].op.dests = {}
    BY <2>2 DEF IsStore, OnlyResultsAreWritten
  <2> QED BY <2>3, <2>4 DEF Unretired, Tags
<1>16. /\ Tags(i) \subseteq sint[i].op.dests
       /\ \A r \in sint[i].op.dests : r \in Tags(i) \/ IsStore(i)
  BY DEF Tags
<1> QED BY <1>9, <1>11, <1>12, <1>13, <1>14, <1>15, <1>16

(* An off path store that does not wait for retirement stays where it is. *)
LEMMA DecodeLeaves ==
  ASSUME OnlyResultsAreWritten, IInv, Programmed, DecodeOne, NEW i, i = Head(todo),
         Unretired(i), ~ GoesToDcache(i)
  PROVE  IInv'
<1>1. /\ phase = "decode" /\ todo # << >> /\ todo' = Tail(todo)
      /\ rf' = [r \in Regs |-> IF r \in Tags(i) THEN [tag |-> i, value_avail |-> FALSE]
                               ELSE rf[r]]
      /\ finished' = IF Unretired(i) /\ ~ sint[i].off_path
                     THEN finished \cup {sint[i].position} ELSE finished
      /\ pending_stores' = IF IsStore(i) /\ parm.delay_stores
                           THEN Append(pending_stores, i) ELSE pending_stores
      /\ UNCHANGED <<reorder_queue, dcache_request, exec_queue, decode_queue>>
      /\ UNCHANGED <<parm, proc, fetch_stage, outstanding, dcache_busy, phase, traced, punt>>
  BY DEF DecodeOne
<1>2. TypeOK /\ InOrderFacts /\ Placed /\ Visiting
  BY QueuesAreOK, InOrderIs DEF IInv
<1>3. /\ i \in Range(decode_queue) /\ i \in Ids /\ sint[i] \in Sints
      /\ i \notin Range(dcache_request) /\ i \notin outstanding
      /\ Tail(todo) \in Seq(Ids) /\ Once(Tail(todo))
      /\ Range(Tail(todo)) \subseteq Range(decode_queue) \ {i}
      /\ \A x, y : Before(todo, x, y) => x = i \/ Before(Tail(todo), x, y)
  BY <1>1, DecodeVisits
<1>4. /\ sint' \in [Ids -> Sints \cup {NoSint}] /\ Live' = Live
      /\ \A j \in Ids : SameFlags(j) /\ (j # i => sint'[j] = sint[j])
      /\ Tags(i) = {}
  BY IssueFacts
<1>5. sint[i].off_path /\ IsStore(i) /\ ~ parm.delay_stores
  <2>1. ~ IsDirective(i)
    BY DEF GoesToDcache
  <2> QED BY <2>1 DEF Unretired, GoesToDcache
<1>6. UNCHANGED <<rf, finished, pending_stores>>
  <2>1. rf' = rf
    BY <1>1, <1>2, <1>4 DEF TypeOK
  <2> QED BY <1>1, <1>5, <2>1
<1>7. InOrder' = InOrder /\ InPipe' = InPipe /\ Waiting' = Waiting
  BY <1>1 DEF InOrder, InPipe, InFetch, Waiting
<1>8. InPipe \subseteq Ids /\ Range(dcache_request) \subseteq Ids /\ outstanding \subseteq Ids
  BY <1>2, InRange DEF InOrderFacts, InPipe, TypeOK
<1>9. Paths' /\ Conserved' /\ Scored' /\ Once(InOrder)'
  <2>1. \A j \in Range(reorder_queue) : j \in Ids /\ j # i
    BY <1>1, <1>2, <1>8, DecodeVisits DEF InOrderFacts
  <2>2. \A j \in Range(reorder_queue) : TimeStays(j)
    BY <1>4, <2>1 DEF TimeStays
  <2> QED BY <1>1, <1>4, <1>6, <1>7, <1>8, <2>2, Quiet
<1>10. Placed'
  <2>1. Live = InPipe \cup Range(dcache_request)
    BY <1>2 DEF Placed
  <2> QED BY <1>1, <1>4, <1>7, <1>8, <1>9, <2>1, QuietPlaces
<1>11. Requested'
  <2>1. \A j \in Ids : j # i => /\ IsStore(j)' <=> IsStore(j)
                                /\ IsDirective(j)' <=> IsDirective(j)
                                /\ Waits(j)' <=> Waits(j)
                                /\ sint'[j].completed = sint[j].completed
    BY <1>1, <1>4 DEF IsStore, IsDirective, Waits, Never
  <2> QED BY <1>1, <1>3, <1>7, <1>8, <2>1 DEF IInv, Requested
<1>12. TypeOK'
  BY <1>1, <1>2, <1>3, <1>4, <1>6 DEF TypeOK
<1>13. Visiting'
  <2>1. \A x \in Range(decode_queue), y \in Range(Tail(todo)) :
          Before(decode_queue, x, y) => sint[x].off_path \/ Before(Tail(todo), x, y)
    <3>1. \A x \in Range(decode_queue), y \in Range(todo) :
            Before(decode_queue, x, y) => sint[x].off_path \/ Before(todo, x, y)
      BY <1>1, <1>2 DEF Visiting
    <3>2. Range(Tail(todo)) \subseteq Range(todo)
      BY <1>1, <1>2, BeforeTail DEF TypeOK
    <3> QED BY <1>3, <1>5, <3>1, <3>2
  <2>2. \A x \in Range(decode_queue) : sint'[x].off_path = sint[x].off_path
    BY <1>2, <1>4, <1>8 DEF InOrderFacts, SameFlags
  <2>3. \A x, y : /\ Before(decode_queue, x, y)' <=> Before(decode_queue, x, y)
                  /\ Before(todo, x, y)' <=> Before(Tail(todo), x, y)
    BY <1>1 DEF Before
  <2>4. Once(todo)'
    BY <1>1, <1>3 DEF Once, Before
  <2> QED BY <1>1, <1>3, <2>1, <2>2, <2>3, <2>4 DEF Visiting
<1>14. Idle' /\ punt' = "none"
  BY <1>1 DEF IInv, Idle
<1> QED BY <1>9, <1>10, <1>11, <1>12, <1>13, <1>14 DEF IInv

(* What is behind the instruction that leaves decode is still to be        *)
(* visited, in the order in which it waits.                                *)
LEMMA StillVisiting ==
  ASSUME IInv, phase = "decode", todo # << >>, NEW i, i = Head(todo),
         phase' = phase, todo' = Tail(todo), decode_queue' = Without(decode_queue, {i}),
         \A j \in Ids : SameFlags(j)
  PROVE  Visiting'
<1>1. TypeOK /\ InOrderFacts /\ Visiting
  BY QueuesAreOK, InOrderIs DEF IInv
<1>2. /\ Tail(todo) \in Seq(Ids) /\ Once(Tail(todo))
      /\ Range(Tail(todo)) \subseteq Range(decode_queue) \ {i}
      /\ \A x, y : Before(todo, x, y) => x = i \/ Before(Tail(todo), x, y)
  BY DecodeVisits
<1>3. /\ Range(decode_queue') = Range(decode_queue) \ {i} /\ Range(decode_queue) \subseteq Ids
      /\ \A x, y : Before(decode_queue', x, y) => Before(decode_queue, x, y)
  BY <1>1, WithoutFacts, InRange DEF TypeOK
<1>4. Range(Tail(todo)) \subseteq Range(todo)
  BY <1>1, BeforeTail DEF TypeOK
<1>5. \A x \in Range(decode_queue'), y \in Range(Tail(todo)) :
        Before(decode_queue', x, y) => sint'[x].off_path \/ Before(Tail(todo), x, y)
  <2>1. \A x \in Range(decode_queue), y \in Range(todo) :
          Before(decode_queue, x, y) => sint[x].off_path \/ Before(todo, x, y)
    BY <1>1 DEF Visiting
  <2>2. \A x \in Range(decode_queue) : sint'[x].off_path = sint[x].off_path
    BY <1>3 DEF SameFlags
  <2> QED BY <1>2, <1>3, <1>4, <2>1, <2>2
<1>6. \A x, y : /\ Before(decode_queue, x, y)' <=> Before(decode_queue', x, y)
                /\ Before(todo, x, y)' <=> Before(Tail(todo), x, y)
  BY DEF Before
<1>7. Once(todo)'
  BY <1>2 DEF Once, Before
<1> QED BY <1>2, <1>3, <1>5, <1>6, <1>7 DEF Visiting

(* A prefetch, or a store that does not wait for retirement, is done for   *)
(* the processor when it is issued.                                        *)
LEMMA DecodeSends ==
  ASSUME OnlyResultsAreWritten, IInv, Programmed, DecodeOne, NEW i, i = Head(todo),
         Unretired(i), GoesToDcache(i)
  PROVE  IInv'
<1>1. /\ phase = "decode" /\ todo # << >> /\ todo' = Tail(todo)
      /\ rf' = [r \in Regs |-> IF r \in Tags(i) THEN [tag |-> i, value_avail |-> FALSE]
                               ELSE rf[r]]
      /\ finished' = IF Unretired(i) /\ ~ sint[i].off_path
                     THEN finished \cup {sint[i].position} ELSE finished
      /\ pending_stores' = IF IsStore(i) /\ parm.delay_stores
                           THEN Append(pending_stores, i) ELSE pending_stores
      /\ dcache_request' = Append(dcache_request, i)
      /\ decode_queue' = Without(decode_queue, {i})
      /\ UNCHANGED <<reorder_queue, exec_queue>>
      /\ UNCHANGED <<parm, proc, fetch_stage, outstanding, dcache_busy, phase, traced, punt>>
  BY DEF DecodeOne
<1>2. TypeOK /\ InOrderFacts /\ Placed /\ Paths /\ Requested /\ Conserved /\ OnceEach
  BY QueuesAreOK, InOrderIs, OnceFacts DEF IInv, Placed
<1>3. /\ i \in Range(decode_queue) /\ i \in InPipe /\ i \in Waiting /\ i \in Live
      /\ i \in Ids /\ sint[i] \in Sints /\ ~ sint[i].completed /\ ~ sint[i].squashed
      /\ i \notin Range(reorder_queue) /\ i \notin Range(exec_queue)
      /\ i \notin Range(InFetch)
      /\ i \notin Range(dcache_request) /\ i \notin outstanding
      /\ Tail(todo) \in Seq(Ids)
  BY <1>1, DecodeVisits
<1>4. /\ sint' \in [Ids -> Sints \cup {NoSint}] /\ Live' = Live
      /\ \A j \in Ids : SameFlags(j) /\ (j # i => sint'[j] = sint[j])
      /\ Tags(i) = {}
  BY IssueFacts
<1>5. ~ sint[i].off_path /\ (IsStore(i) \/ IsDirective(i))
  BY DEF Unretired, GoesToDcache, IsStore, IsDirective
<1>6. rf' = rf /\ finished' = finished \cup {sint[i].position}
  <2>1. rf' = rf
    BY <1>1, <1>2, <1>4 DEF TypeOK
  <2> QED BY <1>1, <1>5, <2>1
<1>7. /\ decode_queue' \in Seq(Ids) /\ Range(decode_queue') = Range(decode_queue) \ {i}
      /\ \A x, y : Before(decode_queue', x, y) => Before(decode_queue, x, y)
  BY <1>1, <1>2, WithoutFacts DEF TypeOK
<1>8. dcache_request' \in Seq(Ids) /\ Range(dcache_request') = Range(dcache_request) \cup {i}
  <2>1. dcache_request \in Seq(Ids)
    BY <1>2 DEF TypeOK
  <2>2. dcache_request' = Append(dcache_request, i) /\ i \in Ids
    BY <1>1, <1>3
  <2> QED BY ONLY <2>1, <2>2, BeforeAppend
<1>9. pending_stores' \in Seq(Ids)
  <2>1. pending_stores \in Seq(Ids)
    BY <1>2 DEF TypeOK
  <2> QED BY <1>1, <1>3, <2>1, BeforeAppend
<1>10. /\ \A x \in OnPath : sint[x].position \in 1 .. traced /\ sint[x].position \in Nat
       /\ {sint[x].position : x \in OnPath} = (1 .. traced) \ finished
       /\ finished \in SUBSET (1 .. traced) /\ i \in OnPath
  <2>1. {sint[x].position : x \in OnPath} = (1 .. traced) \ finished /\ traced \in Nat
    BY <1>2 DEF Conserved, TypeOK
  <2>2. \A x \in OnPath : sint[x].position \in 1 .. traced
    BY <2>1
  <2> QED BY <1>2, <1>3, <1>5, <2>1, <2>2 DEF TypeOK, OnPath
<1>11. TypeOK'
  <2>1. finished' \in SUBSET (1 .. traced')
    BY <1>1, <1>6, <1>10
  <2> QED BY <1>1, <1>2, <1>3, <1>4, <1>6, <1>7, <1>8, <1>9, <2>1 DEF TypeOK
<1>12. InOrderFacts'
  BY <1>11, InOrderIsNext DEF TypeOK, QueuesOK
<1>13. /\ Waiting' = Waiting \ {i} /\ InPipe' = InPipe \ {i}
       /\ \A x, y : Before(InOrder, x, y)' => Before(InOrder, x, y)
  <2>1. InFetch' = InFetch
    BY <1>1 DEF InFetch
  <2>2. Waiting' = Waiting \ {i}
    BY <1>3, <1>7, <2>1 DEF Waiting
  <2>3. InPipe' = InPipe \ {i}
    BY <1>1, <1>2, <1>3, <1>12, <2>2 DEF InOrderFacts
  <2>4. \A x, y : /\ Before(InFetch, x, y)' <=> Before(InFetch, x, y)
                  /\ Before(decode_queue, x, y)' <=> Before(decode_queue', x, y)
                  /\ Before(reorder_queue, x, y)' <=> Before(reorder_queue, x, y)
    BY <1>1, <2>1 DEF Before
  <2>5. \A x, y : Before(InOrder, x, y)' => Before(InOrder, x, y)
    BY <1>1, <1>2, <1>7, <1>12, <2>1, <2>2, <2>4 DEF InOrderFacts
  <2> QED BY <2>2, <2>3, <2>5
<1>14. InPipe \subseteq Ids /\ Range(dcache_request) \subseteq Ids /\ outstanding \subseteq Ids
       /\ Range(reorder_queue) \subseteq InPipe /\ Range(exec_queue) \subseteq InPipe
       /\ Waiting \subseteq InPipe
  BY <1>2, InRange DEF InOrderFacts, InPipe, TypeOK, Placed
<1>15. \A j \in InPipe' : sint'[j] = sint[j] /\ j \in InPipe /\ j # i
  BY <1>4, <1>13, <1>14
<1>16. Placed'
  <2>1. Once(InOrder)' /\ Once(exec_queue)'
    <3>1. Once(InOrder)'
      BY <1>2, <1>13 DEF Placed, Once, InPipe
    <3>2. Once(exec_queue)'
      BY <1>1, <1>2 DEF Placed, Once, Before
    <3> QED BY <3>1, <3>2
  <2>2. Live' = InPipe' \cup Range(dcache_request')
    BY <1>2, <1>3, <1>4, <1>8, <1>13 DEF Placed
  <2>3. \A j \in Range(exec_queue) : ~ sint'[j].completed
    BY <1>2, <1>3, <1>13, <1>14, <1>15 DEF Placed
  <2>4. \A j \in Waiting' : ~ sint'[j].completed /\ ~ sint'[j].squashed
    BY <1>2, <1>13, <1>14, <1>15 DEF Placed
  <2> QED BY <1>1, <1>2, <2>1, <2>2, <2>3, <2>4 DEF Placed
<1>17. Requested'
  <2>1. \A j \in Ids : j # i => /\ IsStore(j)' <=> IsStore(j)
                                /\ IsDirective(j)' <=> IsDirective(j)
                                /\ Waits(j)' <=> Waits(j)
                                /\ sint'[j].completed = sint[j].completed
    BY <1>1, <1>4 DEF IsStore, IsDirective, Waits, Never
  <2>2. (IsStore(i)' \/ IsDirective(i)') /\ ~ sint'[i].completed /\ i \notin InPipe'
    BY <1>3, <1>4, <1>5, <1>13 DEF IsStore, IsDirective, SameFlags
  <2>3. ASSUME NEW j \in Range(dcache_request')
        PROVE  IF IsStore(j)' \/ IsDirective(j)'
               THEN j \notin InPipe' /\ (IsDirective(j)' => ~ sint'[j].completed)
               ELSE Waits(j)'
    <3>1. CASE j = i
      BY <2>2, <3>1
    <3>2. CASE j # i
      BY <1>2, <1>8, <1>13, <1>14, <2>1, <3>2 DEF Requested
    <3> QED BY <3>1, <3>2
  <2>4. \A j \in outstanding' : Waits(j)' /\ j \notin Range(dcache_request')
    BY <1>1, <1>2, <1>3, <1>8, <1>14, <2>1 DEF Requested
  <2> QED BY <2>3, <2>4 DEF Requested
<1>18. Paths'
  <2>1. \A j \in InPipe' : Unresolved(j)' <=> Unresolved(j)
    BY <1>15 DEF Unresolved
  <2>2. ASSUME ~ proc.on_correct_path PROVE \E b \in Ids : Blamed(b)'
    <3>1. PICK b \in Ids : Blamed(b)
      BY <1>2, <2>2 DEF Paths
    <3>2. b # i
      BY <1>2, <1>3, <1>5, <3>1 DEF Blamed, Unresolved, Paths, IsStore, IsDirective
    <3>3. b \in InPipe'
      BY <1>13, <3>1, <3>2 DEF Blamed
    <3>4. Blamed(b)'
      BY <1>13, <1>15, <2>1, <3>1, <3>3 DEF Blamed
    <3> QED BY <3>4
  <2> QED BY <1>1, <1>2, <1>15, <2>1, <2>2 DEF Paths
<1>19. Conserved'
  <2>1. OnPath' = OnPath \ {i}
    BY <1>13, <1>15 DEF OnPath
  <2>2. \A x \in OnPath' : sint'[x].position = sint[x].position /\ x \in OnPath /\ x \in InPipe
    BY <1>15, <2>1 DEF OnPath
  <2>3. \A x, y \in OnPath' : Before(InOrder, x, y)' => sint'[x].position < sint'[y].position
    BY <1>2, <1>13, <2>2 DEF Conserved
  <2>4. {sint'[x].position : x \in OnPath'} = {sint[x].position : x \in OnPath \ {i}}
    BY <2>1, <2>2
  <2>5. ASSUME NEW x \in OnPath \ {i} PROVE sint[i].position # sint[x].position
    <3>1. Before(InOrder, i, x) \/ Before(InOrder, x, i)
      BY <1>2, <1>3, BeforeIsTotal DEF OnPath, InPipe, InOrderFacts
    <3>2. sint[i].position < sint[x].position \/ sint[x].position < sint[i].position
      BY <1>2, <1>10, <3>1 DEF Conserved
    <3> QED BY <1>10, <3>2
  <2>6. {sint[x].position : x \in OnPath \ {i}}
          = {sint[x].position : x \in OnPath} \ {sint[i].position}
    BY <1>10, <2>5
  <2>7. {sint'[x].position : x \in OnPath'} = (1 .. traced') \ finished'
    BY <1>1, <1>6, <1>10, <2>4, <2>6
  <2> QED BY <2>3, <2>7 DEF Conserved
<1>20. Scored'
  <2>1. \A j \in Range(reorder_queue) : sint'[j] = sint[j]
    BY <1>3, <1>4, <1>14
  <2>2. \A j \in Range(reorder_queue) : SameFlags(j) /\ TimeStays(j)
    BY <2>1 DEF SameFlags, TimeStays
  <2> QED BY <1>1, <1>6, <2>2, ScoredStays
<1>21. Visiting'
  BY <1>1, <1>4, StillVisiting
<1>22. Idle' /\ punt' = "none"
  BY <1>1 DEF IInv, Idle
<1> QED BY <1>11, <1>16, <1>17, <1>18, <1>19, <1>20, <1>21, <1>22 DEF IInv

(* Any other instruction enters the reorder buffer, and the registers it   *)
(* writes wait for it, unless it is a store.                               *)
LEMMA DecodeIssues ==
  ASSUME OnlyResultsAreWritten, IInv, Programmed, DecodeOne, NEW i, i = Head(todo), ~ Unretired(i)
  PROVE  IInv'
<1>1. /\ phase = "decode" /\ todo # << >> /\ todo' = Tail(todo)
      /\ rf' = [r \in Regs |-> IF r \in Tags(i) THEN [tag |-> i, value_avail |-> FALSE]
                               ELSE rf[r]]
      /\ pending_stores' = IF IsStore(i) /\ parm.delay_stores
                           THEN Append(pending_stores, i) ELSE pending_stores
      /\ reorder_queue' = Append(reorder_queue, i) /\ exec_queue' = Append(exec_queue, i)
      /\ decode_queue' = Without(decode_queue, {i})
      /\ UNCHANGED <<parm, proc, fetch_stage, outstanding, dcache_busy, phase, traced, punt,
                     finished>>
  BY DEF DecodeOne
<1>a. dcache_request' = IF GoesToDcache(i) THEN Append(dcache_request, i) ELSE dcache_request
  BY DEF DecodeOne
<1>2. TypeOK /\ InOrderFacts /\ Placed /\ Paths /\ Requested /\ Conserved /\ OnceEach
  BY QueuesAreOK, InOrderIs, OnceFacts DEF IInv, Placed
<1>3. /\ i \in Range(decode_queue) /\ i \in InPipe /\ i \in Waiting /\ i \in Live
      /\ i \in Ids /\ sint[i] \in Sints /\ ~ sint[i].completed /\ ~ sint[i].squashed
      /\ i \notin Range(reorder_queue) /\ i \notin Range(exec_queue)
      /\ i \notin Range(InFetch)
      /\ i \notin Range(dcache_request) /\ i \notin outstanding
      /\ Tail(todo) \in Seq(Ids)
      /\ \A x : Before(decode_queue, x, i) => sint[x].off_path /\ sint[i].off_path
  BY <1>1, DecodeVisits
<1>4. /\ sint' \in [Ids -> Sints \cup {NoSint}] /\ Live' = Live
      /\ \A j \in Ids : SameFlags(j) /\ (j # i => sint'[j] = sint[j])
      /\ Returns(i) => sint'[i].wait[sint[i].op.first_dest] = Never
      /\ Tags(i) \subseteq sint[i].op.dests
      /\ \A r \in sint[i].op.dests : r \in Tags(i) \/ IsStore(i)
  BY IssueFacts
<1>5. /\ decode_queue' \in Seq(Ids) /\ Range(decode_queue') = Range(decode_queue) \ {i}
      /\ \A x, y : Before(decode_queue', x, y) => Before(decode_queue, x, y)
  BY <1>1, <1>2, WithoutFacts DEF TypeOK
<1>6. /\ reorder_queue' \in Seq(Ids) /\ Range(reorder_queue') = Range(reorder_queue) \cup {i}
      /\ \A x, y : Before(reorder_queue', x, y) <=>
                     Before(reorder_queue, x, y) \/ (x \in Range(reorder_queue) /\ y = i)
  <2>1. reorder_queue \in Seq(Ids)
    BY <1>2 DEF TypeOK
  <2> QED BY <1>1, <1>3, <2>1, BeforeAppend
<1>7. /\ exec_queue' \in Seq(Ids) /\ Range(exec_queue') = Range(exec_queue) \cup {i}
      /\ \A x, y : Before(exec_queue', x, y) <=>
                     Before(exec_queue, x, y) \/ (x \in Range(exec_queue) /\ y = i)
  <2>1. exec_queue \in Seq(Ids)
    BY <1>2 DEF TypeOK
  <2> QED BY <1>1, <1>3, <2>1, BeforeAppend
<1>8. /\ dcache_request' \in Seq(Ids)
      /\ Range(dcache_request') = IF GoesToDcache(i) THEN Range(dcache_request) \cup {i}
                                  ELSE Range(dcache_request)
  <2>1. dcache_request \in Seq(Ids)
    BY <1>2 DEF TypeOK
  <2>2. CASE GoesToDcache(i)
    <3>1. dcache_request' = Append(dcache_request, i) /\ i \in Ids
      BY <1>a, <1>3, <2>2
    <3>2. /\ Append(dcache_request, i) \in Seq(Ids)
          /\ Range(Append(dcache_request, i)) = Range(dcache_request) \cup {i}
      BY ONLY <2>1, <3>1, BeforeAppend
    <3> QED BY <2>2, <3>1, <3>2
  <2>3. CASE ~ GoesToDcache(i)
    BY <1>a, <2>1, <2>3
  <2> QED BY <2>2, <2>3
<1>9. pending_stores' \in Seq(Ids)
  <2>1. pending_stores \in Seq(Ids)
    BY <1>2 DEF TypeOK
  <2> QED BY <1>1, <1>3, <2>1, BeforeAppend
<1>10. /\ rf' \in [Regs -> [tag : Ids \cup {NULL}, value_avail : BOOLEAN]]
       /\ \A r \in Regs : r \notin Tags(i) => rf'[r] = rf[r]
       /\ \A r \in Regs : r \in Tags(i) => rf'[r] = [tag |-> i, value_avail |-> FALSE]
  <2>1. rf \in [Regs -> [tag : Ids \cup {NULL}, value_avail : BOOLEAN]]
    BY <1>2 DEF TypeOK
  <2>2. [tag |-> i, value_avail |-> FALSE] \in [tag : Ids \cup {NULL}, value_avail : BOOLEAN]
    BY <1>3
  <2> QED BY <1>1, <2>1, <2>2
<1>11. TypeOK'
  BY <1>1, <1>2, <1>3, <1>4, <1>5, <1>6, <1>7, <1>8, <1>9, <1>10 DEF TypeOK
<1>12. InOrderFacts'
  BY <1>11, InOrderIsNext DEF TypeOK, QueuesOK
<1>13. /\ Waiting' = Waiting \ {i} /\ InPipe' = InPipe
       /\ \A x, y : Before(InOrder, x, y)' =>
            \/ Before(InOrder, x, y)
            \/ x # y /\ sint[x].off_path /\ sint[y].off_path
  <2>1. InFetch' = InFetch
    BY <1>1 DEF InFetch
  <2>2. Waiting' = Waiting \ {i}
    BY <1>3, <1>5, <2>1 DEF Waiting
  <2>3. InPipe' = InPipe
    BY <1>2, <1>3, <1>6, <1>12, <2>2 DEF InOrderFacts
  <2>4. \A x, y : /\ Before(InFetch, x, y)' <=> Before(InFetch, x, y)
                  /\ Before(decode_queue, x, y)' <=> Before(decode_queue', x, y)
                  /\ Before(reorder_queue, x, y)' <=> Before(reorder_queue', x, y)
    BY <1>1, <2>1 DEF Before
  <2>5. ASSUME NEW x, NEW y, Before(InOrder, x, y)'
        PROVE  Before(InOrder, x, y) \/ (x # y /\ sint[x].off_path /\ sint[y].off_path)
    <3>1. \/ Before(reorder_queue', x, y) \/ Before(decode_queue', x, y)
          \/ Before(InFetch, x, y)
          \/ x \in Range(reorder_queue') /\ y \in Waiting'
          \/ x \in Range(decode_queue') /\ y \in Range(InFetch)
      BY <1>12, <2>1, <2>4, <2>5 DEF InOrderFacts
    <3>2. CASE Before(reorder_queue', x, y)
      BY <1>2, <1>3, <1>6, <3>2 DEF InOrderFacts
    <3>3. CASE \/ Before(decode_queue', x, y) \/ Before(InFetch, x, y)
               \/ x \in Range(decode_queue') /\ y \in Range(InFetch)
      BY <1>2, <1>5, <3>3 DEF InOrderFacts
    <3>4. CASE x \in Range(reorder_queue) /\ y \in Waiting'
      BY <1>2, <2>2, <3>4 DEF InOrderFacts
    <3>5. CASE x = i /\ y \in Range(InFetch)
      BY <1>2, <1>3, <3>5 DEF InOrderFacts
    <3>6. CASE x = i /\ y \in Range(decode_queue) /\ y # i
      <4>1. Before(decode_queue, i, y) \/ Before(decode_queue, y, i)
        BY <1>2, <1>3, <3>6, BeforeIsTotal DEF TypeOK
      <4> QED BY <1>2, <1>3, <3>6, <4>1 DEF InOrderFacts
    <3> QED BY <1>6, <2>2, <3>1, <3>2, <3>3, <3>4, <3>5, <3>6 DEF Waiting
  <2> QED BY <2>2, <2>3, <2>5
<1>14. InPipe \subseteq Ids /\ Range(dcache_request) \subseteq Ids /\ outstanding \subseteq Ids
       /\ Range(reorder_queue) \subseteq InPipe /\ Range(exec_queue) \subseteq InPipe
       /\ Waiting \subseteq InPipe
  BY <1>2, InRange DEF InOrderFacts, InPipe, TypeOK, Placed
<1>15. \A j \in InPipe : SameFlags(j)
  BY <1>4, <1>14
<1>16. Placed'
  <2>1. Once(InOrder)'
    <3>1. \A x : ~ Before(InOrder, x, x)
      BY <1>2, BeforeRange DEF Placed, Once
    <3> QED BY <1>13, <3>1 DEF Once
  <2>2. Once(exec_queue)'
    <3>1. \A x : ~ Before(exec_queue, x, x)
      BY <1>2, BeforeRange DEF Placed, Once
    <3>2. \A x : ~ Before(exec_queue', x, x)
      BY <1>3, <1>7, <3>1
    <3> QED BY <3>2 DEF Once, Before
  <2>3. Live' = InPipe' \cup Range(dcache_request')
    BY <1>2, <1>3, <1>4, <1>8, <1>13 DEF Placed
  <2>4. \A j \in Range(exec_queue') : ~ sint'[j].completed
    BY <1>2, <1>3, <1>7, <1>14, <1>15 DEF Placed, SameFlags
  <2>5. \A j \in Waiting' : ~ sint'[j].completed /\ ~ sint'[j].squashed
    BY <1>2, <1>13, <1>14, <1>15 DEF Placed, SameFlags
  <2>6. Range(exec_queue') \subseteq Range(reorder_queue')
    BY <1>2, <1>6, <1>7 DEF Placed
  <2> QED BY <2>1, <2>2, <2>3, <2>4, <2>5, <2>6 DEF Placed
<1>17. Requested'
  <2>1. \A j \in Ids : j # i => /\ IsStore(j)' <=> IsStore(j)
                                /\ IsDirective(j)' <=> IsDirective(j)
                                /\ Waits(j) => Waits(j)'
                                /\ sint'[j].completed = sint[j].completed
    BY <1>4, <1>6 DEF IsStore, IsDirective, Waits, Never
  <2>2. GoesToDcache(i) => ~ IsStore(i)' /\ ~ IsDirective(i)' /\ Waits(i)'
    <3> SUFFICES ASSUME GoesToDcache(i) PROVE ~ IsStore(i)' /\ ~ IsDirective(i)' /\ Waits(i)'
      OBVIOUS
    <3>1. Returns(i)
      BY DEF Returns
    <3>2. sint[i].op.type \in {"load", "mem_copy_check"}
      BY DEF GoesToDcache, Unretired, IsStore, IsDirective
    <3>3. sint'[i].op = sint[i].op /\ sint'[i].completed = sint[i].completed
          /\ sint'[i].wait[sint'[i].op.first_dest] = Never
      BY <1>3, <1>4, <3>1 DEF SameFlags
    <3>4. sint'[i].op.type \in {"load", "mem_copy_check"}
      BY <3>2, <3>3
    <3> QED BY <1>3, <1>6, <3>3, <3>4 DEF IsStore, IsDirective, Waits, Never
  <2>3. ASSUME NEW j \in Range(dcache_request')
        PROVE  IF IsStore(j)' \/ IsDirective(j)'
               THEN j \notin InPipe' /\ (IsDirective(j)' => ~ sint'[j].completed)
               ELSE Waits(j)'
    <3>1. CASE j = i
      BY <1>3, <1>8, <2>2, <3>1
    <3>2. CASE j # i
      <4>1. j \in Range(dcache_request)
        BY <1>8, <3>2
      <4> QED BY <1>2, <1>13, <1>14, <2>1, <3>2, <4>1 DEF Requested
    <3> QED BY <3>1, <3>2
  <2>4. \A j \in outstanding' : Waits(j)' /\ j \notin Range(dcache_request')
    BY <1>1, <1>2, <1>3, <1>8, <1>14, <2>1 DEF Requested
  <2> QED BY <2>3, <2>4 DEF Requested
<1>18. Paths'
  <2>1. \A j \in InPipe : Unresolved(j)' <=> Unresolved(j)
    BY <1>15 DEF Unresolved, SameFlags
  <2>2. ASSUME ~ proc.on_correct_path PROVE \E b \in Ids : Blamed(b)'
    <3>1. PICK b \in Ids : Blamed(b)
      BY <1>2, <2>2 DEF Paths
    <3>2. b \in InPipe /\ ~ sint[b].off_path /\ Unresolved(b)'
      BY <2>1, <3>1 DEF Blamed, Unresolved
    <3>3. ASSUME NEW j \in InPipe'
          PROVE  /\ Unresolved(j)' => j = b
                 /\ Before(InOrder, b, j)' => sint'[j].off_path
                 /\ Before(InOrder, j, b)' => sint'[j].squashed \/ ~ sint'[j].off_path
      <4>1. j \in InPipe /\ SameFlags(j)
        BY <1>13, <1>15, <3>3
      <4> QED BY <1>13, <2>1, <3>1, <3>2, <4>1 DEF Blamed, SameFlags
    <3>4. Blamed(b)'
      BY <1>13, <3>2, <3>3 DEF Blamed
    <3> QED BY <3>4
  <2>3. \A j \in InPipe' : /\ sint'[j].squashed => sint'[j].off_path
                           /\ sint'[j].mispredicted => sint'[j].op.type \in {"branch", "jsr"}
    BY <1>2, <1>13, <1>15 DEF Paths, SameFlags
  <2>4. proc'.on_correct_path =>
          \A j \in InPipe' : ~ Unresolved(j)' /\ (sint'[j].squashed \/ ~ sint'[j].off_path)
    BY <1>1, <1>2, <1>13, <1>15, <2>1 DEF Paths, SameFlags
  <2> QED BY <1>1, <1>2, <2>2, <2>3, <2>4 DEF Paths
<1>19. Conserved'
  <2>1. OnPath' = OnPath
    BY <1>13, <1>15 DEF OnPath, SameFlags
  <2>2. \A j \in OnPath : sint'[j].position = sint[j].position /\ ~ sint[j].off_path
    BY <1>15 DEF OnPath, SameFlags
  <2>3. {sint'[j].position : j \in OnPath'} = {sint[j].position : j \in OnPath}
    BY <2>1, <2>2
  <2>4. \A x, y \in OnPath' : Before(InOrder, x, y)' => sint'[x].position < sint'[y].position
    BY <1>2, <1>13, <2>1, <2>2 DEF Conserved
  <2> QED BY <1>1, <1>2, <2>3, <2>4 DEF Conserved
<1>20. Scored'
  <2>1. \A j \in Range(reorder_queue') : j \in InPipe /\ SameFlags(j)
    BY <1>3, <1>6, <1>14, <1>15
  <2>2. ASSUME NEW r \in Regs PROVE Tagged(r)'
    <3>1. Tagged(r)
      BY DEF IInv, Scored
    <3>2. CASE r \in Tags(i)
      <4>1. rf'[r].tag = i /\ rf'[r].value_avail = FALSE /\ i # NULL
        BY <1>3, <1>10, <3>2, NumbersAreNotZero
      <4>2. i \in WritersOf(r)'
        BY <1>3, <1>4, <1>6, <2>1, <3>2 DEF WritersOf, SameFlags
      <4>3. \A j : ~ Before(reorder_queue', i, j)
        BY <1>3, <1>6, BeforeRange
      <4>4. ~ sint'[i].completed
        BY <1>3, <1>15 DEF SameFlags
      <4> QED BY <4>1, <4>2, <4>3, <4>4 DEF Tagged, Before
    <3>3. CASE r \notin Tags(i)
      <4>1. rf'[r] = rf[r]
        BY <1>10, <3>3
      <4>2. \A j \in WritersOf(r)' : j = i \/ j \in WritersOf(r)
        BY <1>6, <2>1 DEF WritersOf, SameFlags
      <4>3. i \in WritersOf(r)' => IsStore(i)'
        BY <1>4, <1>3, <1>15, <3>3 DEF WritersOf, SameFlags, IsStore
      <4>4. \A j \in WritersOf(r) : j \in WritersOf(r)' /\ j # i /\ sint'[j] = sint[j]
        BY <1>3, <1>4, <1>6, <1>14 DEF WritersOf
      <4>5. PICK t : t = rf[r].tag
        OBVIOUS
      <4>6. \A j \in WritersOf(r)' :
              \/ IsStore(j)'
              \/ /\ j \in WritersOf(r) /\ ~ IsStore(j)
                 /\ Before(reorder_queue', t, j) => Before(reorder_queue, t, j)
        <5> SUFFICES ASSUME NEW j \in WritersOf(r)', j # i, ~ IsStore(j)'
                     PROVE  /\ j \in WritersOf(r) /\ ~ IsStore(j)
                            /\ Before(reorder_queue', t, j) => Before(reorder_queue, t, j)
          BY <4>3
        <5>1. j \in WritersOf(r) /\ sint'[j] = sint[j]
          BY <4>2, <4>4
        <5> QED BY <1>6, <5>1 DEF IsStore
      <4>7. CASE t = NULL
        <5>1. rf'[r].value_avail
          BY <3>1, <4>1, <4>5, <4>7 DEF Tagged
        <5> QED BY <3>1, <4>1, <4>5, <4>6, <4>7, <5>1, TagStays
      <4>8. CASE t # NULL
        <5>1. /\ t \in WritersOf(r) /\ (rf[r].value_avail => sint[t].wait[r] = 0)
              /\ sint[t].completed => rf[r].value_avail
          BY <3>1, <4>5, <4>8 DEF Tagged
        <5>2. t \in WritersOf(r)' /\ sint'[t] = sint[t]
          BY <4>4, <5>1
        <5> QED BY <3>1, <4>1, <4>5, <4>6, <4>8, <5>1, <5>2, TagStays
      <4> QED BY <4>7, <4>8
    <3> QED BY <3>2, <3>3
  <2>3. ASSUME NEW j \in Range(reorder_queue') PROVE Settled(j)'
    <3>1. CASE j = i
      BY <1>3, <1>15, <3>1 DEF Settled, SameFlags
    <3>2. CASE j # i
      <4>1. Settled(j) /\ sint'[j] = sint[j]
        BY <1>4, <1>6, <1>14, <3>2 DEF IInv, Scored
      <4> QED BY <4>1 DEF Settled
    <3> QED BY <3>1, <3>2
  <2> QED BY <2>2, <2>3 DEF Scored
<1>21. Visiting'
  BY <1>1, <1>4, StillVisiting
<1>22. Idle' /\ punt' = "none"
  BY <1>1 DEF IInv, Idle
<1> QED BY <1>11, <1>16, <1>17, <1>18, <1>19, <1>20, <1>21, <1>22 DEF IInv

(* The three cases of an instruction that decode visits. *)
LEMMA DecodeOneIInv ==
  ASSUME OnlyResultsAreWritten, IInv, Programmed, DecodeOne PROVE IInv'
<1>1. PICK i : i = Head(todo)
  OBVIOUS
<1>2. CASE ~ Unretired(i)
  BY <1>1, <1>2, DecodeIssues
<1>3. CASE Unretired(i) /\ GoesToDcache(i)
  BY <1>1, <1>3, DecodeSends
<1>4. CASE Unretired(i) /\ ~ GoesToDcache(i)
  BY <1>1, <1>4, DecodeLeaves
<1> QED BY <1>2, <1>3, <1>4

-----------------------------------------------------------------------------
(* Nothing happens. *)
LEMMA StutterIInv == ASSUME IInv, UNCHANGED vars PROVE IInv'
<1>1. UNCHANGED <<parm, sint, rf, proc, queues, dcache, phase, todo, count, traced,
                  finished, punt>>
  BY DEF vars
<1>2. InOrder' = InOrder /\ Waiting' = Waiting /\ InPipe' = InPipe /\ Live' = Live
  BY <1>1 DEF queues, InOrder, InFetch, Waiting, InPipe, Live, Free
<1>3. (\A i \in InPipe : SameFlags(i)) /\ \A i \in Range(reorder_queue) : TimeStays(i)
  BY <1>1 DEF SameFlags, TimeStays
<1>4. Paths' /\ Conserved' /\ Scored' /\ Once(InOrder)'
  BY <1>1, <1>2, <1>3, Quiet DEF queues
<1>5. Placed'
  <2>1. Live = InPipe \cup Range(dcache_request)
    BY DEF IInv, Placed
  <2> QED BY <1>1, <1>2, <1>3, <1>4, <2>1, QuietPlaces DEF queues, dcache
<1>6. Requested'
  BY <1>1, <1>2 DEF IInv, Requested, Waits, IsStore, IsDirective, queues, dcache
<1>7. Visiting'
  BY <1>1 DEF IInv, Visiting, queues, Once, Before
<1>8. TypeOK'
  BY <1>1 DEF IInv, TypeOK, Phases, queues, dcache
<1>9. Idle' /\ punt' = "none"
  BY <1>1 DEF IInv, Idle, InFlight, queues
<1> QED BY <1>4, <1>5, <1>6, <1>7, <1>8, <1>9 DEF IInv

(* Every step keeps the invariant. *)
LEMMA NextIInv ==
  ASSUME OnlyResultsAreWritten, IInv, Programmed, [Next]_vars PROVE IInv'
<1>1. ASSUME NEW answered \in SUBSET Ids, NEW busy \in BOOLEAN, Memory(answered, busy) PROVE IInv'
  BY <1>1, MemoryIInv
<1>2. CASE RetireOne \/ RetireDone
  BY <1>2, RetireOneIInv, RetireDoneIInv
<1>3. CASE ExecOne \/ ExecDone
  BY <1>3, ExecOneIInv, ExecDoneIInv
<1>4. CASE DecodeOne
  BY <1>4, DecodeOneIInv
<1>5. ASSUME NEW n \in 0 .. FetchWidth, DecodeDone(n) PROVE IInv'
  BY <1>5, DecodeDoneIInv
<1>6. ASSUME NEW op \in parm.program, NEW m \in BOOLEAN, NEW t \in BOOLEAN, FetchOne(op, m, t)
      PROVE  IInv'
  BY <1>6, FetchOneIInv
<1>7. CASE FetchDone
  BY <1>7, FetchDoneIInv
<1>8. ASSUME NEW n \in 0 .. MaxSkip, NextSample(n) PROVE IInv'
  BY <1>8, NextSampleIInv
<1>9. CASE Finished \/ UNCHANGED vars
  BY <1>9, StutterIInv DEF Finished
<1> QED BY <1>1, <1>2, <1>3, <1>4, <1>5, <1>6, <1>7, <1>8, <1>9 DEF Next

(* A step that takes no new operation into the processor. *)
NoNewOps == \A i \in Ids : sint'[i] # NoSint => sint[i] # NoSint /\ sint'[i].op = sint[i].op

(* It leaves those of the program. *)
LEMMA ProgrammedStays == ASSUME Programmed, NoNewOps, parm' = parm PROVE Programmed'
BY DEF Programmed, NoNewOps

(* Only fetch brings instructions, and it takes them from the program. *)
LEMMA ProgrammedNext ==
  ASSUME OnlyResultsAreWritten, IInv, Programmed, [Next]_vars PROVE Programmed'
<1>0. /\ TypeOK /\ sint \in [Ids -> Sints \cup {NoSint}]
      /\ \A i \in Ids : sint[i] # NoSint => sint[i] \in Sints
      /\ \A i \in Ids : i \in Live <=> sint[i] # NoSint
  BY DEF IInv, TypeOK, Live, Free
<1>1. ASSUME NEW answered \in SUBSET Ids, NEW busy \in BOOLEAN, Memory(answered, busy)
      PROVE  Programmed'
  <2>1. /\ parm' = parm
        /\ \A i \in Ids : \/ sint'[i] = NoSint \/ sint'[i] = Answered(sint[i])
                          \/ sint'[i] = Tick(sint[i])
    BY <1>1 DEF Memory
  <2>2. \A i \in Ids : i \in answered => sint[i] # NoSint
    <3>1. answered \subseteq outstanding \cup Range(dcache_request)
      BY <1>1 DEF Memory
    <3>2. outstanding \subseteq InPipe /\ InPipe \cup Range(dcache_request) = Live
      <4>1. Requested /\ Placed /\ InOrderFacts
        BY QueuesAreOK, InOrderIs DEF IInv
      <4> QED BY <4>1 DEF Requested, Waits, Placed, InOrderFacts
    <3> QED BY <1>0, <3>1, <3>2
  <2>3. \A i \in Ids : sint[i] = NoSint => sint'[i] = NoSint
    <3> SUFFICES ASSUME NEW i \in Ids, sint[i] = NoSint PROVE sint'[i] = NoSint
      OBVIOUS
    <3>1. sint'[i] = NoSint \/ sint'[i] = Tick(sint[i])
      BY <1>1, <2>2 DEF Memory
    <3> QED BY <3>1 DEF Tick
  <2>4. NoNewOps
    <3> SUFFICES ASSUME NEW i \in Ids, sint'[i] # NoSint
                 PROVE  sint[i] # NoSint /\ sint'[i].op = sint[i].op
      BY DEF NoNewOps
    <3>1. sint[i] \in Sints
      BY <1>0, <2>3
    <3> QED BY <2>1, <2>3, <3>1, TickFacts, AnsweredFacts
  <2> QED BY <2>1, <2>4, ProgrammedStays
<1>2. CASE RetireOne
  <2>1. NoNewOps /\ parm' = parm
    BY <1>0, <1>2 DEF RetireOne, NoNewOps
  <2> QED BY <2>1, ProgrammedStays
<1>3. CASE ExecOne
  <2> DEFINE done(i) == [sint EXCEPT ![i].completed = TRUE]
  <2>1. PICK i : i = Head(todo)
    OBVIOUS
  <2>2. i \in Ids /\ sint[i] \in Sints
    BY <1>3, <2>1, ExecVisits DEF ExecOne
  <2>3. \A j \in Ids : done(i)[j] # NoSint => sint[j] # NoSint /\ done(i)[j].op = sint[j].op
    <3>1. \A j \in Ids : j # i => done(i)[j] = sint[j]
      BY <1>0
    <3>2. done(i)[i] = [sint[i] EXCEPT !.completed = TRUE] /\ sint[i] # NoSint
      BY <1>0, <2>2, SintIsNotFree
    <3>3. done(i)[i].op = sint[i].op
      BY <2>2, <3>2 DEF Sints
    <3> HIDE DEF done
    <3> QED BY <3>1, <3>2, <3>3
  <2>4. \A j \in Ids : sint[j] # NoSint => [done(i)[j] EXCEPT !.squashed = TRUE].op = sint[j].op
    <3> SUFFICES ASSUME NEW j \in Ids, sint[j] # NoSint
                 PROVE  [done(i)[j] EXCEPT !.squashed = TRUE].op = sint[j].op
      OBVIOUS
    <3>1. done(i)[j] = IF j = i THEN [sint[j] EXCEPT !.completed = TRUE] ELSE sint[j]
      BY <1>0, <2>2
    <3>2. sint[j] \in Sints
      BY <1>0
    <3>3. done(i)[j] \in Sints /\ done(i)[j].op = sint[j].op
      <4> HIDE DEF done
      <4> QED BY <3>1, <3>2 DEF Sints
    <3> HIDE DEF done
    <3> QED BY <3>3 DEF Sints
  <2>5. \/ sint' = sint \/ sint' = done(i)
        \/ FixMispredictedBranch(i, done(i), Written(i))
    BY <1>3, <2>1 DEF ExecOne
  <2>6. parm' = parm
    BY <1>3 DEF ExecOne
  <2> HIDE DEF done
  <2>7. CASE sint' = sint \/ sint' = done(i)
    BY <2>3, <2>6, <2>7, ProgrammedStays DEF NoNewOps
  <2>8. CASE FixMispredictedBranch(i, done(i), Written(i))
    <3>1. \A j \in Ids : \/ sint'[j] = NoSint \/ sint'[j] = done(i)[j]
                        \/ /\ sint'[j] = [done(i)[j] EXCEPT !.squashed = TRUE]
                           /\ j \in After(i)
      BY <2>8 DEF FixMispredictedBranch
    <3>2. \A j \in Ids : j \in After(i) => sint[j] # NoSint
      <4>1. i \in Range(reorder_queue) /\ OnceEach /\ reorder_queue \in Seq(Ids)
        BY <1>0, <1>3, <2>1, ExecVisits, QueuesAreOK, InOrderIs, OnceFacts
          DEF ExecOne, IInv, Placed, TypeOK
      <4>2. After(i) \subseteq Range(reorder_queue)
        BY <4>1, AfterIs DEF OnceEach
      <4> QED BY <1>0, <4>2, LiveDests
    <3>3. NoNewOps
      BY <2>3, <2>4, <3>1, <3>2 DEF NoNewOps
    <3> QED BY <2>6, <3>3, ProgrammedStays
  <2> QED BY <2>5, <2>7, <2>8
<1>4. CASE DecodeOne
  <2>1. PICK i : i = Head(todo)
    OBVIOUS
  <2>2. /\ Live' = Live /\ Live \subseteq Ids
        /\ \A j \in Ids : sint'[j].op = sint[j].op
    BY <1>4, <2>1, IssueFacts DEF SameFlags, Live
  <2>3. \A j \in Ids : sint'[j] # NoSint => sint[j] # NoSint
    BY <2>2 DEF Live, Free
  <2> QED BY <1>4, <2>2, <2>3, ProgrammedStays DEF NoNewOps, DecodeOne
<1>5. ASSUME NEW n \in 0 .. FetchWidth, DecodeDone(n) PROVE Programmed'
  <2>1. PICK h : h = Head(todo)
    OBVIOUS
  <2>2. /\ sint' = sint \/ \E v : sint' = [sint EXCEPT ![h].value_forwarded = v]
        /\ parm' = parm /\ phase = "decode"
    BY <1>5, <2>1 DEF DecodeDone
  <2>3. CASE sint' = sint
    BY <2>2, <2>3, ProgrammedStays DEF NoNewOps
  <2>4. ASSUME NEW v, sint' = [sint EXCEPT ![h].value_forwarded = v], todo # << >>
        PROVE  NoNewOps
    <3>1. h \in Ids /\ sint[h] \in Sints /\ sint[h] # NoSint
      BY <2>1, <2>2, <2>4, DecodeVisits, SintIsNotFree
    <3>2. /\ \A j \in Ids : j # h => sint'[j] = sint[j]
          /\ sint'[h] = [sint[h] EXCEPT !.value_forwarded = v]
      BY ONLY <1>0, <2>4, <3>1
    <3>3. sint'[h].op = sint[h].op
      BY ONLY <3>1, <3>2 DEF Sints
    <3> QED BY <3>1, <3>2, <3>3 DEF NoNewOps
  <2>5. CASE todo = << >>
    BY <1>5, <2>3, <2>5 DEF DecodeDone
  <2> QED BY <2>2, <2>3, <2>4, <2>5, ProgrammedStays
<1>6. ASSUME NEW op \in parm.program, NEW m \in BOOLEAN, NEW t \in BOOLEAN, FetchOne(op, m, t)
      PROVE  Programmed'
  <2> DEFINE on == proc.on_correct_path
             i == Min(Free)
             e == [op |-> op, off_path |-> ~on,
                   mispredicted |-> m \/ (op.type = "jsr" /\ on),
                   completed |-> FALSE, squashed |-> FALSE, value_forwarded |-> FALSE,
                   wait |-> [r \in Regs |-> 0],
                   position |-> IF on THEN traced + 1 ELSE 0]
  <2>1. sint' = [sint EXCEPT ![i] = e] /\ parm' = parm
    BY <1>6 DEF FetchOne
  <2>2. e.op = op
    OBVIOUS
  <2> HIDE DEF e, i
  <2>3. \A j \in Ids : sint'[j] = sint[j] \/ sint'[j] = e
    BY <1>0, <2>1
  <2> QED BY <1>6, <2>1, <2>2, <2>3 DEF Programmed
<1>7. CASE RetireDone \/ ExecDone \/ FetchDone \/ Finished \/ UNCHANGED vars
  <2>1. UNCHANGED <<parm, sint>>
    BY <1>7 DEF RetireDone, ExecDone, FetchDone, Finished, vars
  <2> QED BY <2>1, ProgrammedStays DEF NoNewOps
<1>8. ASSUME NEW n \in 0 .. MaxSkip, NextSample(n) PROVE Programmed'
  BY <1>8, ProgrammedStays DEF NextSample, NoNewOps
<1> QED BY <1>1, <1>2, <1>3, <1>4, <1>5, <1>6, <1>7, <1>8 DEF Next

(* The invariant holds in every state of the pipeline. *)
LEMMA PipelineInvariant == ASSUME OnlyResultsAreWritten PROVE Spec => []IInv
<1>1. Init => IInv /\ Programmed
  BY InitIInv DEF Init, Programmed
<1>2. (IInv /\ Programmed) /\ [Next]_vars => (IInv /\ Programmed)'
  BY NextIInv, ProgrammedNext
<1> QED BY <1>1, <1>2, PTL DEF Spec

-----------------------------------------------------------------------------
(* The properties of the pipeline.                                         *)

(* No sanity check of the simulator ever fails (S_punt): no wrong path     *)
(* instruction retires and none of the trace is squashed                   *)
(* (S_superscalar_retire), no Sint is freed while a queue holds it, and    *)
(* the trace is read for the pc that is fetched.                           *)
THEOREM PipelineNeverPuntsHolds ==
  ASSUME OnlyResultsAreWritten PROVE Spec => []PipelineNeverPunts
<1>1. IInv => PipelineNeverPunts
  BY DEF IInv, PipelineNeverPunts
<1> QED BY <1>1, PipelineInvariant, PTL

(* The register file of S_superscalar_decode agrees with the reorder       *)
(* buffer at every step, through renaming, squashing, and the walk of      *)
(* S_superscalar_fix_mispredicted_branch that rebuilds it.                 *)
THEOREM ScoreboardIsExactHolds ==
  ASSUME OnlyResultsAreWritten PROVE Spec => []ScoreboardIsExact
BY PipelineInvariant, ScoreboardFromIInv, PTL

(* While fetch is down a wrong path there is one unresolved branch to      *)
(* blame for it, exactly the instructions behind it are off the path, and  *)
(* once it is resolved none of them is left unsquashed.                    *)
THEOREM WrongPathStartsAtItsBranchHolds ==
  ASSUME OnlyResultsAreWritten PROVE Spec => []WrongPathStartsAtItsBranch
BY PipelineInvariant, WrongPathFromIInv, PTL

(* No trace record is lost to a squash, simulated twice after a repair or  *)
(* retired out of order, whatever the widths of the machine.               *)
THEOREM TraceIsConservedHolds ==
  ASSUME OnlyResultsAreWritten PROVE Spec => []TraceIsConserved
BY PipelineInvariant, TraceFromIInv, PTL

(* An instruction that completes has no request left in the dcache, so     *)
(* that retirement frees a Sint which nothing else will touch.             *)
THEOREM CompletedRequestsHaveReturnedHolds ==
  ASSUME OnlyResultsAreWritten PROVE Spec => []CompletedRequestsHaveReturned
BY PipelineInvariant, RequestsFromIInv, PTL

(* A sample that ends leaves a clean machine: the trace read so far is     *)
(* simulated, no Sint is in use but in the dcache, no register waits.      *)
THEOREM SampleEndsCleanHolds ==
  ASSUME OnlyResultsAreWritten PROVE Spec => []SampleEndsClean
BY PipelineInvariant, SampleFromIInv, PTL
=============================================================================
