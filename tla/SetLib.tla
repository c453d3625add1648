------------------------------- MODULE SetLib -------------------------------
(***************************************************************************)
(* The integer sets of libflow (set.c), in which every dataflow analysis   *)
(* of the compiler keeps its results.  A set has an array of bit vectors   *)
(* for the elements >= 0 and one for the negative ones; arrays grow by     *)
(* whole granules, a vector is allocated when an element needs it and may  *)
(* be left without bits, and NULL is an empty set.  Operations that        *)
(* accumulate change their first operand, the others make a new set.  Two  *)
(* sets go through every sequence of calls.                                *)
(***************************************************************************)
EXTENDS Integers, FiniteSetsExt, SequencesExt

CONSTANTS WordBits,   \* bits of a word (32)
          Words,      \* words of a vector, Set_VECTOR_SIZE (8)
          Granule,    \* vectors an array grows by, Set_VARRAY_SIZE (8)
          Elements    \* what the callers put into sets

ASSUME SetLibAssumption ==
  /\ WordBits \in Nat \ {0} /\ Words \in Nat \ {0} /\ Granule \in Nat \ {0}
  /\ Elements \subseteq Int

VARIABLE sets   \* the two sets of the callers

VectorLength == Words * WordBits

NULL == << >>
NoVector == {-1}   \* a NULL pointer in an array
(* A set is <<array of the elements >= 0, array of the negative ones>>; an *)
(* array is a sequence of vectors, empty if it is NULL.                    *)
Signs == {1, 2}

Sign(e) == IF e >= 0 THEN 1 ELSE 2
Magnitude(e) == IF e < 0 THEN -e ELSE e
Base(e) == Magnitude(e) \div VectorLength + 1
Index(e) == Magnitude(e) % VectorLength

At(va, k) == IF k <= Len(va) THEN va[k] ELSE NoVector
Bits(v) == IF v = NoVector THEN {} ELSE v

NewVArray(size) == [k \in 1 .. size |-> NoVector]
NewSet == <<NewVArray(Granule), << >>>>

(* The array with room for vector k, the old vectors in it.                *)
EnlargeVArray(va, k) ==
  [n \in 1 .. ((k - 1) \div Granule + 1) * Granule |-> At(va, n)]

Fitting(va, k) == IF k > Len(va) THEN EnlargeVArray(va, k) ELSE va
(* Room for all the vectors in ks.                                         *)
FittingAll(va, ks) == IF ks = {} THEN va ELSE Fitting(va, Max(ks))

(* The elements of a set, as an array of each sign represents them.        *)
Contents(s) ==
  IF s = NULL THEN {}
  ELSE { (k - 1) * VectorLength + n : <<k, n>> \in
           {p \in (1 .. Len(s[1])) \X (0 .. VectorLength - 1) : p[2] \in Bits(s[1][p[1]])} }
       \cup
       { -((k - 1) * VectorLength + n) : <<k, n>> \in
           {p \in (1 .. Len(s[2])) \X (0 .. VectorLength - 1) : p[2] \in Bits(s[2][p[1]])} }
-----------------------------------------------------------------------------
Set_add(set, e) ==
  LET s == IF set = NULL THEN NewSet ELSE set
      va == Fitting(s[Sign(e)], Base(e))
  IN [s EXCEPT ![Sign(e)] = [va EXCEPT ![Base(e)] = Bits(@) \cup {Index(e)}]]

(* A vector that loses its last bit stays allocated.                       *)
Set_delete(set, e) ==
  IF set = NULL \/ At(set[Sign(e)], Base(e)) = NoVector THEN set
  ELSE [set EXCEPT ![Sign(e)][Base(e)] = @ \ {Index(e)}]

Set_copy(set) ==
  IF set = NULL THEN NULL
  ELSE [b \in Signs |->
          IF set[b] = << >> THEN NewSet[b]
          ELSE [k \in 1 .. Len(EnlargeVArray(NewSet[b], Len(set[b]))) |-> At(set[b], k)]]

Array(set, b) == IF set = NULL THEN << >> ELSE set[b]

(* An array with room for n vectors.                                       *)
Sized(b, n) == IF n > Len(NewSet[b]) THEN EnlargeVArray(NewSet[b], n) ELSE NewSet[b]

(* Mutant: the second set is taken to be no longer than the first.         *)
MaxBase_First(s, t, b) == Len(Array(s, b))

MaxBase(s, t, b) == Max({Len(Array(s, b)), Len(Array(t, b))})

(* Both vectors, no vector if neither set has one.                         *)
OrVector(v, w) == IF v = NoVector /\ w = NoVector THEN NoVector ELSE Bits(v) \cup Bits(w)

(* Never NULL, even for two empty sets.                                    *)
Set_union(s, t) ==
  [b \in Signs |-> [k \in 1 .. Len(Sized(b, MaxBase(s, t, b))) |->
                      OrVector(At(Array(s, b), k), At(Array(t, b), k))]]

(* The vectors with a bit.                                                 *)
Occupied(va) == {k \in 1 .. Len(va) : Bits(va[k]) # {}}

(* Vectors without bits are skipped, so that the array grows only as far   *)
(* as it must.                                                             *)
Set_union_acc(s, t) ==
  LET u == IF s = NULL THEN NewSet ELSE s
  IN IF t = NULL THEN u
     ELSE [b \in Signs |->
             LET va == FittingAll(u[b], Occupied(t[b]))
             IN [k \in 1 .. Len(va) |->
                   IF k \in Occupied(t[b]) THEN Bits(va[k]) \cup t[b][k] ELSE va[k]]]

(* Mutant: a new vector is no change.                                      *)
Union_changes_OldVectors(s, t) ==
  t # NULL /\ \E b \in Signs : \E k \in Occupied(t[b]) :
    At(Array(s, b), k) # NoVector /\ ~ t[b][k] \subseteq Array(s, b)[k]

(* *change of Set_union_acc_ch, whose result is that of Set_union_acc.     *)
Union_changes(s, t) ==
  t # NULL /\ \E b \in Signs : \E k \in Occupied(t[b]) :
    At(Array(s, b), k) = NoVector \/ ~ t[b][k] \subseteq Array(s, b)[k]

(* A new set of the vectors of v, an array of them for each sign, that     *)
(* have a bit.                                                             *)
Collected(v) ==
  [b \in Signs |->
     LET ks == {k \in DOMAIN v[b] : v[b][k] # {}}
         va == FittingAll(NewSet[b], ks)
     IN [k \in 1 .. Len(va) |-> IF k \in ks THEN v[b][k] ELSE NoVector]]

Set_intersect(s, t) ==
  IF s = NULL \/ t = NULL THEN NULL
  ELSE Collected([b \in Signs |-> [k \in 1 .. Len(s[b]) |->
                    Bits(s[b][k]) \cap Bits(At(t[b], k))]])

(* A vector with no common bit is freed.  Where t has no array the loop    *)
(* goes on to the next sign and s keeps its vectors.                       *)
Set_intersect_acc(s, t) ==
  IF s = NULL \/ t = NULL THEN NULL
  ELSE [b \in Signs |->
          IF t[b] = << >> THEN s[b]
          ELSE [k \in 1 .. Len(s[b]) |->
                  LET both == Bits(s[b][k]) \cap Bits(At(t[b], k))
                  IN IF both = {} THEN NoVector ELSE both]]

Set_subtract(s, t) ==
  IF s = NULL THEN NULL
  ELSE IF t = NULL THEN Set_union(s, NULL)
  ELSE Collected([b \in Signs |-> [k \in 1 .. Len(s[b]) |->
                    Bits(s[b][k]) \ Bits(At(t[b], k))]])

LessVector(v, w) == IF v = NoVector THEN NoVector ELSE v \ Bits(w)

Set_subtract_acc(s, t) ==
  IF s = NULL \/ t = NULL THEN s
  ELSE [b \in Signs |-> [k \in 1 .. Len(s[b]) |-> LessVector(s[b][k], At(t[b], k))]]

(* (s - t) U u as a new set.  A vector of s that loses all its bits is     *)
(* left out, those of u are all made.                                      *)
Set_subtract_union(s, t, u) ==
  IF s = NULL THEN Set_union(u, NULL)
  ELSE IF u = NULL THEN Set_subtract(s, t)
  ELSE IF t = NULL THEN Set_union(s, u)
  ELSE [b \in Signs |-> [k \in 1 .. Len(Sized(b, MaxBase(s, u, b))) |->
          LET rest == Bits(At(s[b], k)) \ Bits(At(t[b], k))
          IN OrVector(IF rest = {} THEN NoVector ELSE rest, At(u[b], k))]]

Set_subtract_union_acc(s, t, u) ==
  IF s = NULL THEN Set_union(u, NULL)
  ELSE IF u = NULL THEN Set_subtract_acc(s, t)
  ELSE IF t = NULL THEN Set_union_acc(s, u)
  ELSE [b \in Signs |->
          LET va == IF u[b] = << >> THEN s[b] ELSE Fitting(s[b], Len(u[b]))
          IN [k \in 1 .. Len(va) |->
                OrVector(LessVector(va[k], At(t[b], k)), At(u[b], k))]]

(* A copy without the vectors that have no bit.                            *)
Set_compress(set) ==
  IF set = NULL THEN NULL
  ELSE [b \in Signs |-> [k \in 1 .. Len(Set_copy(set)[b]) |->
          IF Bits(At(set[b], k)) = {} THEN NoVector ELSE set[b][k]]]
-----------------------------------------------------------------------------
Set_in(set, e) == set # NULL /\ Index(e) \in Bits(At(set[Sign(e)], Base(e)))

Set_size(set) ==
  IF set = NULL THEN 0
  ELSE LET ones(b) == MapThenSumSet(LAMBDA k : Cardinality(Bits(set[b][k])), 1 .. Len(set[b]))
       IN ones(1) + ones(2)

Set_empty(set) ==
  set = NULL \/ \A b \in Signs : \A k \in 1 .. Len(set[b]) : Bits(set[b][k]) = {}

Set_intersect_empty(s, t) ==
  \/ s = NULL \/ t = NULL
  \/ \A b \in Signs : \A k \in 1 .. Len(s[b]) : Bits(s[b][k]) \cap Bits(At(t[b], k)) = {}

Set_subtract_empty(s, t) ==
  \/ s = NULL
  \/ t = NULL /\ Set_empty(s)
  \/ /\ t # NULL
     /\ \A b \in Signs : \A k \in 1 .. Len(s[b]) : Bits(s[b][k]) \subseteq Bits(At(t[b], k))

(* Every vector of s is in t, bit for bit, or has no bit.                  *)
VectorsMatch(s, t) ==
  \A b \in Signs : \A k \in 1 .. Len(s[b]) :
    \/ s[b][k] = NoVector
    \/ At(t[b], k) = NoVector /\ s[b][k] = {}
    \/ At(t[b], k) = s[b][k]

(* Mutant: only the vectors of the first set are compared.                 *)
Set_same_OneWay(s, t) ==
  IF s = NULL THEN Set_empty(t)
  ELSE IF t = NULL THEN Set_empty(s)
  ELSE VectorsMatch(s, t)

Set_same(s, t) ==
  IF s = NULL THEN Set_empty(t)
  ELSE IF t = NULL THEN Set_empty(s)
  ELSE VectorsMatch(s, t) /\ VectorsMatch(t, s)

Ascending(S) == SetToSortSeq(S, <)
Signed(b, e) == IF b = 1 THEN e ELSE -e

(* Set_2array: sign by sign, vector by vector, bit by bit.                 *)
Set_2array(set) ==
  IF set = NULL THEN << >>
  ELSE LET vector(b, k) == [n \in 1 .. Cardinality(Bits(set[b][k])) |->
                              Signed(b, (k - 1) * VectorLength + Ascending(Bits(set[b][k]))[n])]
           array(b) == FlattenSeq([k \in 1 .. Len(set[b]) |-> vector(b, k)])
       IN array(1) \o array(2)

Word(v, wo) == {n % WordBits : n \in {m \in v : m \div WordBits = wo}}

(* Mutant: the scan of a word starts at its first bit again.               *)
ScanWord_Again(v, st, wo) ==
  LET hits == Word(v, wo)
  IN IF st.found THEN st
     ELSE IF hits # {} THEN [bi |-> wo * WordBits + Min(hits), found |-> TRUE]
     ELSE [bi |-> st.bi + WordBits, found |-> FALSE]

(* One word of the scan of Set_next: a word without bits is passed over    *)
(* whole, in another the scan goes on at the bit position of bi.           *)
ScanWord(v, st, wo) ==
  LET start == st.bi % WordBits
      hits == {n \in Word(v, wo) : n >= start}
  IN IF st.found THEN st
     ELSE IF Word(v, wo) = {} THEN [bi |-> st.bi + WordBits, found |-> FALSE]
     ELSE IF hits # {} THEN [bi |-> st.bi - start + Min(hits), found |-> TRUE]
     ELSE [bi |-> st.bi - start + WordBits, found |-> FALSE]

(* The scan of vector v from bit bi.                                       *)
Scan(v, bi) ==
  FoldLeft(LAMBDA st, wo : ScanWord(v, st, wo), [bi |-> bi, found |-> FALSE],
           [n \in 1 .. Words - bi \div WordBits |-> bi \div WordBits + n - 1])

(* Set_next moves an iterator from bit bi of vector bo of array va to the  *)
(* next element; va = 3 is the end.                                        *)
Set_next(set, it) ==
  LET places == {p \in Signs \X (1 .. Len(set[1]) + Len(set[2])) :
                   /\ p[2] <= Len(set[p[1]])
                   /\ p[1] > it.va \/ (p[1] = it.va /\ p[2] >= it.bo)}
      start(p) == IF p = <<it.va, it.bo>> THEN it.bi ELSE 0
      hits == {p \in places : set[p[1]][p[2]] # NoVector
                              /\ Scan(set[p[1]][p[2]], start(p)).found}
      first == CHOOSE p \in hits : \A q \in hits :
                 p[1] < q[1] \/ (p[1] = q[1] /\ p[2] <= q[2])
      bi == Scan(set[first[1]][first[2]], start(first)).bi
  IN IF hits = {} THEN [va |-> 3, bo |-> 1, bi |-> 1, nxt |-> 0]
     ELSE [va |-> first[1], bo |-> first[2], bi |-> bi + 1,
           nxt |-> Signed(first[1], (first[2] - 1) * VectorLength + bi)]

(* What a loop over an iterator sees: Set_iterator looks for the first     *)
(* element, each Set_next returns it and looks for the one after.          *)
Iterated(set) ==
  LET loop[n \in 0 .. Cardinality(Elements)] ==
        IF n = 0 THEN [it |-> Set_next(set, [va |-> 1, bo |-> 1, bi |-> 0]), seen |-> << >>]
        ELSE LET l == loop[n - 1]
             IN IF l.it.va = 3 THEN l
                ELSE [it |-> Set_next(set, l.it), seen |-> Append(l.seen, l.it.nxt)]
  IN IF set = NULL THEN << >> ELSE loop[Cardinality(Elements)].seen
-----------------------------------------------------------------------------
Init == sets = <<NULL, NULL>>

Other(x) == sets[3 - x]

(* A set of one element, also after that is deleted, and NULL: the third   *)
(* operand.                                                                *)
Thirds ==
  {NULL} \cup {Set_add(NULL, e) : e \in Elements}
         \cup {Set_delete(Set_add(NULL, e), e) : e \in Elements}

Becomes(x, s) == sets' = [sets EXCEPT ![x] = s]

(* A new set takes the place of the old one, which is disposed of.         *)
Next ==
  \E x \in {1, 2} :
    LET s == sets[x]
    IN \/ \E e \in Elements : Becomes(x, Set_add(s, e)) \/ Becomes(x, Set_delete(s, e))
       \/ Becomes(x, Set_copy(s))
       \/ Becomes(x, Set_compress(s))
       \/ Becomes(x, Set_union(s, Other(x)))
       \/ Becomes(x, Set_union_acc(s, Other(x)))
       \/ Becomes(x, Set_intersect(s, Other(x)))
       \/ Becomes(x, Set_intersect_acc(s, Other(x)))
       \/ Becomes(x, Set_subtract(s, Other(x)))
       \/ Becomes(x, Set_subtract_acc(s, Other(x)))
       \/ \E u \in Thirds : \/ Becomes(x, Set_subtract_union(s, Other(x), u))
                            \/ Becomes(x, Set_subtract_union_acc(s, Other(x), u))

Spec == Init /\ [][Next]_sets
-----------------------------------------------------------------------------
(* Whatever the lengths of the arrays and whichever vectors are missing or *)
(* left without bits, every operation that makes a new set makes the one   *)
(* it is named for.                                                        *)
NewSetsAreRight ==
  LET s == sets[1]
      t == sets[2]
      S == Contents(s)
      T == Contents(t)
  IN /\ Contents(Set_copy(s)) = S
     /\ Contents(Set_compress(s)) = S
     /\ Contents(Set_union(s, t)) = S \cup T
     /\ Contents(Set_intersect(s, t)) = S \cap T
     /\ Contents(Set_subtract(s, t)) = S \ T
     /\ \A u \in Thirds : Contents(Set_subtract_union(s, t, u)) = (S \ T) \cup Contents(u)

(* What Set_intersect_acc keeps of s although t does not have it: the      *)
(* elements of a sign for which t has no array.                            *)
Kept(s, t) ==
  IF s = NULL \/ t = NULL THEN {} ELSE {e \in Contents(s) : t[Sign(e)] = << >>}

(* The operations that change their operand leave in it what the others    *)
(* put into a new set, but for what Set_intersect_acc keeps, and report a  *)
(* change exactly when there is one.                                       *)
AccumulationsAreRight ==
  LET s == sets[1]
      t == sets[2]
      S == Contents(s)
      T == Contents(t)
  IN /\ \A e \in Elements : /\ Contents(Set_add(s, e)) = S \cup {e}
                            /\ Contents(Set_delete(s, e)) = S \ {e}
     /\ Contents(Set_union_acc(s, t)) = S \cup T
     /\ Union_changes(s, t) <=> ~ T \subseteq S
     /\ Contents(Set_subtract_acc(s, t)) = S \ T
     /\ \A u \in Thirds : Contents(Set_subtract_union_acc(s, t, u)) = (S \ T) \cup Contents(u)
     /\ Contents(Set_intersect_acc(s, t)) = (S \cap T) \cup Kept(s, t)

(* Every operation on sets is the one it is named for, Set_intersect_acc   *)
(* where the two sets have arrays for the same signs.                      *)
OperationsAreRight == NewSetsAreRight /\ AccumulationsAreRight

(* No query is misled by the representation: two sets with the same        *)
(* elements are the same however they came to have them.                   *)
QueriesAreRight ==
  LET s == sets[1]
      t == sets[2]
      S == Contents(s)
      T == Contents(t)
  IN /\ \A e \in Elements : Set_in(s, e) <=> e \in S
     /\ Set_size(s) = Cardinality(S)
     /\ Set_empty(s) <=> S = {}
     /\ Set_same(s, t) <=> S = T
     /\ Set_intersect_empty(s, t) <=> S \cap T = {}
     /\ Set_subtract_empty(s, t) <=> S \subseteq T

(* A loop over an iterator and Set_2array see every element once, the      *)
(* elements >= 0 first and in order, across words, vectors and signs.      *)
EnumerationsAreRight ==
  LET s == sets[1]
      S == Contents(s)
      inOrder == Ascending({e \in S : e >= 0}) \o Reverse(Ascending({e \in S : e < 0}))
  IN Set_2array(s) = inOrder /\ Iterated(s) = inOrder
=============================================================================
