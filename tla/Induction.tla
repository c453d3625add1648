------------------------------ MODULE Induction ------------------------------
(***************************************************************************)
(* Facts about numbers and sequences that the proofs of the project share. *)
(* Induction over the naturals is stated for sets, which is the form the   *)
(* provers can use: the least element of a set of naturals, and the set    *)
(* that holds 0 and the successor of each of its members.                  *)
(***************************************************************************)
EXTENDS Integers, FiniteSetsExt, SeqFilter, WellFoundedInduction, FiniteSetTheorems,
        TLAPS

Less == {ss \in Nat \X Nat : ss[1] < ss[2]}

(* The order of the naturals is well founded. *)
LEMMA LessIsWellFounded == IsWellFoundedOn(Less, Nat)
BY NatLessThanWellFounded DEF OpToRel, Less

(* A set of naturals that is not empty has a least element. *)
LEMMA LeastNatural ==
  ASSUME NEW T \in SUBSET Nat, T # {}
  PROVE \E x \in T : \A y \in T : x <= y
<1>1. \E x \in T : \A y \in T : ~ (<<y, x>> \in Less)
  BY LessIsWellFounded, WFMin
<1>2. \A x, y \in Nat : x < y => <<x, y>> \in Less
  BY DEF Less
<1>3. PICK x \in T : \A y \in T : ~ (<<y, x>> \in Less)
  BY <1>1
<1>4. \A y \in T : ~ (y < x)
  BY <1>2, <1>3
<1> QED BY <1>4

(* A set that holds 0 and is closed under successor holds every natural. *)
LEMMA SetInduction ==
  ASSUME NEW T \in SUBSET Nat, 0 \in T, \A n \in T : n + 1 \in T
  PROVE T = Nat
<1> SUFFICES ASSUME Nat \ T # {} PROVE FALSE
  OBVIOUS
<1>1. PICK x \in Nat \ T : \A y \in Nat \ T : x <= y
  BY LeastNatural
<1>2. x # 0 /\ x - 1 \in Nat /\ x - 1 \in T
  BY <1>1
<1> QED BY <1>1, <1>2

(* A finite set of naturals that is not empty has a largest element.       *)
LEMMA FiniteMax ==
  ASSUME NEW S \in SUBSET Nat, IsFiniteSet(S), S # {}
  PROVE  Max(S) \in S /\ \A x \in S : x <= Max(S)
<1> DEFINE P(n) == \A R \in SUBSET Nat :
                     IsFiniteSet(R) /\ Cardinality(R) = n /\ R # {} =>
                       \E x \in R : \A y \in R : y <= x
           T == {n \in Nat : P(n)}
<1>1. 0 \in T
  BY FS_EmptySet
<1>2. ASSUME NEW n \in T PROVE n + 1 \in T
  <2> SUFFICES ASSUME NEW R \in SUBSET Nat, IsFiniteSet(R), Cardinality(R) = n + 1,
                      R # {}
               PROVE  \E x \in R : \A y \in R : y <= x
    OBVIOUS
  <2>1. PICK a \in R : TRUE
    OBVIOUS
  <2>2. IsFiniteSet(R \ {a}) /\ Cardinality(R \ {a}) = n
    <3>1. IsFiniteSet(R \ {a}) /\ Cardinality(R \ {a}) = Cardinality(R) - 1
      BY <2>1, FS_RemoveElement
    <3>2. n \in Nat
      OBVIOUS
    <3> QED BY <3>1, <3>2
  <2>3. CASE R \ {a} = {}
    BY <2>1, <2>3
  <2>4. CASE R \ {a} # {}
    <3>1. PICK x \in R \ {a} : \A y \in R \ {a} : y <= x
      BY <2>2, <2>4
    <3>2. CASE x <= a
      BY <2>1, <3>1, <3>2
    <3>3. CASE ~ (x <= a)
      BY <2>1, <3>1, <3>3
    <3> QED BY <3>2, <3>3
  <2> QED BY <2>3, <2>4
<1>3. T = Nat
  <2>1. T \in SUBSET Nat
    OBVIOUS
  <2> HIDE DEF T
  <2> QED BY <1>1, <1>2, <2>1, SetInduction
<1>4. Cardinality(S) \in Nat
  BY FS_CardinalityType
<1>5. \E x \in S : \A y \in S : y <= x
  BY <1>3, <1>4
<1>6. \E x \in S : \A y \in S : x >= y
  BY <1>5
<1> QED BY <1>6 DEF Max

(* The smaller of two numbers. *)
LEMMA MinOfTwo ==
  ASSUME NEW a \in Nat, NEW b \in Nat
  PROVE  /\ Min({a, b}) \in Nat /\ Min({a, b}) <= a /\ Min({a, b}) <= b
         /\ Min({a, b}) \in {a, b}
<1>1. CASE a <= b
  BY <1>1 DEF Min
<1>2. CASE b <= a
  BY <1>2 DEF Min
<1> QED BY <1>1, <1>2

(* The larger of two numbers. *)
LEMMA MaxOfTwo ==
  ASSUME NEW a \in Nat, NEW b \in Nat
  PROVE  Max({a, b}) \in Nat /\ Max({a, b}) >= a /\ Max({a, b}) >= b
<1>1. CASE a <= b
  BY <1>1 DEF Max
<1>2. CASE b <= a
  BY <1>2 DEF Max
<1> QED BY <1>1, <1>2
-----------------------------------------------------------------------------
(* The recursive function of Only, as an equation.                          *)
IsKept(f, stack, set, n) ==
  f = [i \in 0 .. n |->
         IF i = 0 THEN <<>>
         ELSE IF stack[i] \in set THEN Append(f[i - 1], stack[i]) ELSE f[i - 1]]

(* Such a function exists: by induction on its domain. *)
LEMMA KeptExists ==
  ASSUME NEW stack, NEW set, NEW n \in Nat
  PROVE  \E f : IsKept(f, stack, set, n)
<1> DEFINE T == {m \in Nat : \E f : IsKept(f, stack, set, m)}
<1>1. 0 \in T
  <2>1. IsKept([k \in 0 .. 0 |-> <<>>], stack, set, 0)
    BY DEF IsKept
  <2> QED BY <2>1
<1>2. ASSUME NEW m \in T PROVE m + 1 \in T
  <2>1. PICK f : IsKept(f, stack, set, m)
    OBVIOUS
  <2> DEFINE e == IF stack[m + 1] \in set THEN Append(f[m], stack[m + 1]) ELSE f[m]
             h == [k \in 0 .. m + 1 |-> IF k = m + 1 THEN e ELSE f[k]]
  <2>2. \A k \in 0 .. m :
          f[k] = IF k = 0 THEN <<>>
                 ELSE IF stack[k] \in set THEN Append(f[k - 1], stack[k]) ELSE f[k - 1]
    BY <2>1 DEF IsKept
  <2>3. IsKept(h, stack, set, m + 1)
    <3>1. h[m + 1] = e /\ h[m] = f[m] /\ \A k \in 0 .. m : h[k] = f[k]
      OBVIOUS
    <3>2. ASSUME NEW k \in 0 .. m + 1
          PROVE  h[k] = IF k = 0 THEN <<>>
                        ELSE IF stack[k] \in set THEN Append(h[k - 1], stack[k])
                        ELSE h[k - 1]
      <4>1. CASE k = m + 1
        BY <3>1, <4>1
      <4>2. CASE k \in 0 .. m
        <5>1. k # 0 => h[k - 1] = f[k - 1]
          BY <3>1, <4>2
        <5> HIDE DEF h
        <5> QED BY <2>2, <3>1, <4>2, <5>1
      <4> QED BY <4>1, <4>2
    <3>3. h = [k \in 0 .. m + 1 |-> h[k]]
      OBVIOUS
    <3> HIDE DEF h
    <3> QED BY <3>2, <3>3 DEF IsKept
  <2> QED BY <2>3
<1>3. T = Nat
  <2>1. T \in SUBSET Nat
    OBVIOUS
  <2> HIDE DEF T
  <2> QED BY <1>1, <1>2, <2>1, SetInduction
<1> QED BY <1>3

(* The same, step by step. *)
Kept(f, stack, set, n) ==
  /\ f[0] = <<>>
  /\ \A k \in 0 .. n - 1 :
       /\ stack[k + 1] \in set => f[k + 1] = Append(f[k], stack[k + 1])
       /\ stack[k + 1] \notin set => f[k + 1] = f[k]

(* What it returns, step by step. *)
LEMMA KeptFacts ==
  ASSUME NEW stack, NEW set, NEW n \in Nat, NEW f, IsKept(f, stack, set, n)
  PROVE  Kept(f, stack, set, n)
<1>1. \A k \in 0 .. n :
        f[k] = IF k = 0 THEN <<>>
               ELSE IF stack[k] \in set THEN Append(f[k - 1], stack[k]) ELSE f[k - 1]
  BY DEF IsKept
<1>2. ASSUME NEW k \in 0 .. n - 1
      PROVE  /\ stack[k + 1] \in set => f[k + 1] = Append(f[k], stack[k + 1])
             /\ stack[k + 1] \notin set => f[k + 1] = f[k]
  <2>1. k + 1 \in 0 .. n /\ k + 1 # 0 /\ (k + 1) - 1 = k
    OBVIOUS
  <2>2. f[k + 1] = IF stack[k + 1] \in set THEN Append(f[(k + 1) - 1], stack[k + 1])
                   ELSE f[(k + 1) - 1]
    BY <1>1, <2>1
  <2> QED BY <2>1, <2>2
<1>3. f[0] = <<>>
  BY <1>1
<1> QED BY <1>2, <1>3 DEF Kept

(* Only is its last value. *)
LEMMA OnlyIsKept ==
  ASSUME NEW S, NEW q \in Seq(S), NEW set
  PROVE  \E f : IsKept(f, q, set, Len(q)) /\ Only(q, set) = f[Len(q)]
<1> DEFINE f == CHOOSE f : IsKept(f, q, set, Len(q))
<1>1. IsKept(f, q, set, Len(q))
  BY KeptExists
<1>2. Only(q, set) = f[Len(q)]
  BY DEF Only, IsKept
<1> QED BY <1>1, <1>2
=============================================================================
