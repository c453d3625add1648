--------------------------- MODULE RegBank_proofs ---------------------------
(***************************************************************************)
(* The register banks keep their registers: whatever searches have moved   *)
(* between the two stacks of a bank, the stacks hold the registers of the  *)
(* bank, each once, and a search finds a register if and only if one is    *)
(* free.                                                                   *)
(***************************************************************************)
EXTENDS RegBank, Induction, FiniteSetTheorems, SequenceTheorems

(* Keep is the filter of SeqFilter, step by step. *)
LEMMA KeepIsKept ==
  ASSUME NEW stack \in Seq(Int), NEW set
  PROVE  \E f : IsKept(f, stack, set, Len(stack)) /\ Keep(stack, set) = f[Len(stack)]
BY OnlyIsKept DEF Keep

(* Elements of a sequence with one more, of two sequences, and of the two  *)
(* halves of a sequence.                                                   *)
LEMMA AppendFacts ==
  ASSUME NEW s \in Seq(Int), NEW x \in Int
  PROVE  /\ Append(s, x) \in Seq(Int)
         /\ Len(Append(s, x)) = Len(s) + 1
         /\ ToSet(Append(s, x)) = ToSet(s) \cup {x}
<1>1. Append(s, x) \in Seq(Int) /\ Len(Append(s, x)) = Len(s) + 1
  OBVIOUS
<1>2. \A i \in 1 .. Len(s) + 1 : Append(s, x)[i] = IF i <= Len(s) THEN s[i] ELSE x
  OBVIOUS
<1>3. DOMAIN s = 1 .. Len(s) /\ DOMAIN Append(s, x) = 1 .. Len(s) + 1
  BY <1>1
<1> DEFINE a == Append(s, x)
<1>4. \A i \in 1 .. Len(s) : a[i] = s[i]
  BY <1>2
<1>5. a[Len(s) + 1] = x
  BY <1>2
<1> HIDE DEF a
<1>6. DOMAIN a = 1 .. Len(s) + 1
  BY <1>3 DEF a
<1>7. ToSet(a) = ToSet(s) \cup {x}
  <2>1. ToSet(a) \subseteq ToSet(s) \cup {x}
    BY <1>3, <1>4, <1>5, <1>6 DEF ToSet
  <2>2. ToSet(s) \cup {x} \subseteq ToSet(a)
    BY <1>3, <1>4, <1>5, <1>6 DEF ToSet
  <2> QED BY <2>1, <2>2
<1> QED BY <1>1, <1>7 DEF a

(* The elements and the length of two sequences in a row. *)
LEMMA ConcatFacts ==
  ASSUME NEW s \in Seq(Int), NEW t \in Seq(Int)
  PROVE  /\ s \o t \in Seq(Int)
         /\ Len(s \o t) = Len(s) + Len(t)
         /\ ToSet(s \o t) = ToSet(s) \cup ToSet(t)
<1> DEFINE z == s \o t
<1>1. z \in Seq(Int) /\ Len(z) = Len(s) + Len(t)
  OBVIOUS
<1>2. /\ \A i \in 1 .. Len(s) : z[i] = s[i]
      /\ \A i \in 1 .. Len(t) : z[Len(s) + i] = t[i]
  OBVIOUS
<1>3. \A i \in 1 .. Len(s) + Len(t) : i \notin 1 .. Len(s) => z[i] = t[i - Len(s)] /\ i - Len(s) \in 1 .. Len(t)
  OBVIOUS
<1> HIDE DEF z
<1>4. DOMAIN z = 1 .. Len(s) + Len(t) /\ DOMAIN s = 1 .. Len(s) /\ DOMAIN t = 1 .. Len(t)
  BY <1>1
<1>5. \A i \in 1 .. Len(s) : i \in DOMAIN z
  BY <1>4
<1>6. \A i \in 1 .. Len(t) : Len(s) + i \in DOMAIN z
  BY <1>4
<1>7. ToSet(z) \subseteq ToSet(s) \cup ToSet(t)
  BY <1>2, <1>3, <1>4 DEF ToSet
<1>8. ToSet(s) \cup ToSet(t) \subseteq ToSet(z)
  BY <1>2, <1>4, <1>5, <1>6 DEF ToSet
<1> QED BY <1>1, <1>7, <1>8 DEF z

Halves(a, b, s) ==
  /\ a \in Seq(Int) /\ b \in Seq(Int)
  /\ Len(a) + Len(b) = Len(s)
  /\ ToSet(a) \cup ToSet(b) = ToSet(s)

(* A sequence divides into the halves that SubSeq takes. *)
LEMMA SplitFacts ==
  ASSUME NEW s \in Seq(Int), NEW m \in 0 .. Len(s),
         NEW a, a = SubSeq(s, 1, m), NEW b, b = SubSeq(s, m + 1, Len(s))
  PROVE  Halves(a, b, s)
<1>1. a \in Seq(Int) /\ Len(a) = m /\ \A i \in 1 .. m : a[i] = s[i]
  OBVIOUS
<1>2. b \in Seq(Int) /\ Len(b) = Len(s) - m /\ \A i \in 1 .. Len(s) - m : b[i] = s[m + i]
  OBVIOUS
<1>3. DOMAIN a = 1 .. m /\ DOMAIN b = 1 .. Len(s) - m /\ DOMAIN s = 1 .. Len(s)
  BY <1>1, <1>2
<1>4. \A i \in 1 .. Len(s) : i \notin 1 .. m => i - m \in 1 .. Len(s) - m /\ b[i - m] = s[i]
  BY <1>2
<1>5. ToSet(s) \subseteq ToSet(a) \cup ToSet(b)
  BY <1>1, <1>3, <1>4 DEF ToSet
<1>6. \A i \in 1 .. m : i \in 1 .. Len(s)
  OBVIOUS
<1>7. \A i \in 1 .. Len(s) - m : m + i \in 1 .. Len(s)
  OBVIOUS
<1>8. ToSet(a) \subseteq ToSet(s)
  BY <1>1, <1>3, <1>6 DEF ToSet
<1>9. ToSet(b) \subseteq ToSet(s)
  BY <1>2, <1>3, <1>7 DEF ToSet
<1>10. Len(a) + Len(b) = Len(s)
  <2>1. m \in Int /\ Len(s) \in Int
    OBVIOUS
  <2>2. Len(a) = m /\ Len(b) = Len(s) - m
    BY <1>1, <1>2
  <2> QED BY ONLY <2>1, <2>2
<1> QED BY <1>1, <1>2, <1>5, <1>8, <1>9, <1>10 DEF Halves

(* Keep takes the elements of the set.                                     *)
LEMMA KeepFacts ==
  ASSUME NEW stack \in Seq(Int), NEW set
  PROVE  /\ Keep(stack, set) \in Seq(Int)
         /\ ToSet(Keep(stack, set)) = ToSet(stack) \cap set
<1>1. PICK f : IsKept(f, stack, set, Len(stack)) /\ Keep(stack, set) = f[Len(stack)]
  BY KeepIsKept
<1>2. PICK n \in Nat : n = Len(stack) /\ \A i \in 1 .. n : stack[i] \in Int
  OBVIOUS
<1> DEFINE Upto(k) == {stack[i] : i \in 1 .. k}
           T == {k \in Nat : k <= n => f[k] \in Seq(Int) /\ ToSet(f[k]) = Upto(k) \cap set}
<1>3. /\ f[0] = <<>>
      /\ \A k \in 0 .. n - 1 :
           /\ stack[k + 1] \in set => f[k + 1] = Append(f[k], stack[k + 1])
           /\ stack[k + 1] \notin set => f[k + 1] = f[k]
  <2>1. IsKept(f, stack, set, n)
    BY <1>1, <1>2
  <2>2. Kept(f, stack, set, n)
    BY ONLY <2>1, n \in Nat, KeptFacts
  <2> QED BY <2>2 DEF Kept
<1>5. 0 \in T
  <2>1. ToSet(<<>>) = {} /\ <<>> \in Seq(Int) /\ Upto(0) = {}
    BY DEF ToSet
  <2> QED BY <1>3, <2>1
<1>6. ASSUME NEW k \in T PROVE k + 1 \in T
  <2> SUFFICES ASSUME k + 1 <= n
               PROVE  f[k + 1] \in Seq(Int) /\ ToSet(f[k + 1]) = Upto(k + 1) \cap set
    OBVIOUS
  <2>1. /\ k \in Nat /\ k \in 0 .. n - 1
        /\ f[k] \in Seq(Int) /\ ToSet(f[k]) = Upto(k) \cap set
    OBVIOUS
  <2>2. Upto(k + 1) = Upto(k) \cup {stack[k + 1]}
    <3>1. 1 .. k + 1 = (1 .. k) \cup {k + 1}
      BY <2>1
    <3> QED BY <3>1
  <2>4. stack[k + 1] \in Int
    BY <1>2, <2>1
  <2> HIDE DEF Upto, T
  <2>5. CASE stack[k + 1] \in set
    <3>1. f[k + 1] = Append(f[k], stack[k + 1])
      BY <1>3, <2>1, <2>5
    <3>2. ToSet(Append(f[k], stack[k + 1])) = ToSet(f[k]) \cup {stack[k + 1]}
          /\ Append(f[k], stack[k + 1]) \in Seq(Int)
      BY <2>1, <2>4, AppendFacts
    <3> QED BY <2>1, <2>2, <2>5, <3>1, <3>2
  <2>6. CASE stack[k + 1] \notin set
    BY <1>3, <2>1, <2>2, <2>6
  <2> QED BY <2>5, <2>6
<1>7. T = Nat
  <2>1. T \in SUBSET Nat
    OBVIOUS
  <2> HIDE DEF T
  <2> QED BY <1>5, <1>6, <2>1, SetInduction
<1>8. Upto(n) = ToSet(stack)
  BY <1>2 DEF ToSet
<1>9. n \in T
  BY <1>7
<1> QED BY <1>1, <1>2, <1>8, <1>9

(* One more element in one of two sequences.                               *)
LEMMA OneLonger ==
  ASSUME NEW x \in Seq(Int), NEW y \in Seq(Int), NEW c \in Int, NEW k \in Nat,
         Len(x) + Len(y) = k
  PROVE  /\ Len(Append(x, c)) + Len(y) = k + 1
         /\ Len(x) + Len(Append(y, c)) = k + 1
<1>1. Len(x) \in Nat /\ Len(y) \in Nat
  OBVIOUS
<1>2. Len(Append(x, c)) = Len(x) + 1 /\ Len(Append(y, c)) = Len(y) + 1
  BY AppendFacts
<1> QED BY <1>1, <1>2

Divided(x, y, k) == x \in Seq(Int) /\ y \in Seq(Int) /\ Len(x) + Len(y) = k

(* Two sets that divide a stack divide its length.                         *)
LEMMA KeepLengths ==
  ASSUME NEW stack \in Seq(Int), NEW A, NEW B, A \cap B = {}, ToSet(stack) \subseteq A \cup B
  PROVE  Len(Keep(stack, A)) + Len(Keep(stack, B)) = Len(stack)
<1>1. PICK f : IsKept(f, stack, A, Len(stack)) /\ Keep(stack, A) = f[Len(stack)]
  BY KeepIsKept
<1>2. PICK g : IsKept(g, stack, B, Len(stack)) /\ Keep(stack, B) = g[Len(stack)]
  BY KeepIsKept
<1>3. PICK n \in Nat : /\ n = Len(stack)
                       /\ \A i \in 1 .. n : /\ stack[i] \in Int
                                            /\ stack[i] \in A <=> stack[i] \notin B
  BY DEF ToSet
<1> DEFINE T == {k \in Nat : k <= n => Divided(f[k], g[k], k)}
<1>4. /\ f[0] = <<>>
      /\ \A k \in 0 .. n - 1 :
           /\ stack[k + 1] \in A => f[k + 1] = Append(f[k], stack[k + 1])
           /\ stack[k + 1] \notin A => f[k + 1] = f[k]
  <2>1. IsKept(f, stack, A, n)
    BY <1>1, <1>3
  <2>2. Kept(f, stack, A, n)
    BY ONLY <2>1, n \in Nat, KeptFacts
  <2> QED BY <2>2 DEF Kept
<1>5. /\ g[0] = <<>>
      /\ \A k \in 0 .. n - 1 :
           /\ stack[k + 1] \in B => g[k + 1] = Append(g[k], stack[k + 1])
           /\ stack[k + 1] \notin B => g[k + 1] = g[k]
  <2>1. IsKept(g, stack, B, n)
    BY <1>2, <1>3
  <2>2. Kept(g, stack, B, n)
    BY ONLY <2>1, n \in Nat, KeptFacts
  <2> QED BY <2>2 DEF Kept
<1>7. 0 \in T
  <2>1. Divided(<<>>, <<>>, 0)
    BY DEF Divided
  <2> QED BY <1>4, <1>5, <2>1
<1>8. ASSUME NEW k \in T PROVE k + 1 \in T
  <2> SUFFICES ASSUME k + 1 <= n
               PROVE  Divided(f[k + 1], g[k + 1], k + 1)
    OBVIOUS
  <2>1. k \in Nat /\ k \in 0 .. n - 1 /\ Divided(f[k], g[k], k)
    OBVIOUS
  <2>4. stack[k + 1] \in Int /\ (stack[k + 1] \in A <=> stack[k + 1] \notin B)
    BY <1>3, <2>1
  <2> DEFINE x == f[k]
             y == g[k]
             c == stack[k + 1]
  <2>5. /\ Divided(Append(x, c), y, k + 1)
        /\ Divided(x, Append(y, c), k + 1)
    <3>1. x \in Seq(Int) /\ y \in Seq(Int) /\ Len(x) + Len(y) = k /\ c \in Int /\ k \in Nat
      BY <2>1, <2>4 DEF Divided
    <3> HIDE DEF x, y, c
    <3>2. Append(x, c) \in Seq(Int) /\ Append(y, c) \in Seq(Int)
      BY <3>1
    <3>3. Len(Append(x, c)) + Len(y) = k + 1 /\ Len(x) + Len(Append(y, c)) = k + 1
      BY ONLY <3>1, OneLonger
    <3> QED BY <3>1, <3>2, <3>3 DEF Divided
  <2>6. CASE stack[k + 1] \in A
    BY <1>4, <1>5, <2>1, <2>4, <2>5, <2>6
  <2>7. CASE stack[k + 1] \notin A
    BY <1>4, <1>5, <2>1, <2>4, <2>5, <2>7
  <2> QED BY <2>6, <2>7
<1>9. T = Nat
  <2>1. T \in SUBSET Nat
    OBVIOUS
  <2> HIDE DEF T
  <2> QED BY <1>7, <1>8, <2>1, SetInduction
<1>10. n \in T
  BY <1>9
<1>11. Divided(f[n], g[n], n)
  BY <1>10
<1> QED BY <1>1, <1>2, <1>3, <1>11 DEF Divided

(* Rotating a stack neither loses nor doubles a register. *)
LEMMA RotateFacts ==
  ASSUME NEW stack \in Seq(Int), NEW t, NEW units
  PROVE  /\ Rotate(stack, t, units) \in Seq(Int)
         /\ Len(Rotate(stack, t, units)) = Len(stack)
         /\ ToSet(Rotate(stack, t, units)) = ToSet(stack)
<1> DEFINE B == Sharing(stack, t, units)
           A == ToSet(stack) \ B
<1>1. B \subseteq ToSet(stack)
  BY DEF Sharing
<1>2. Rotate(stack, t, units) = Keep(stack, A) \o Keep(stack, B)
  BY DEF Rotate
<1> HIDE DEF B
<1>3. A \cap B = {} /\ ToSet(stack) \subseteq A \cup B
  OBVIOUS
<1> HIDE DEF A
<1>4. Len(Keep(stack, A)) + Len(Keep(stack, B)) = Len(stack)
  BY <1>3, KeepLengths
<1>5. /\ Keep(stack, A) \in Seq(Int) /\ ToSet(Keep(stack, A)) = ToSet(stack) \cap A
      /\ Keep(stack, B) \in Seq(Int) /\ ToSet(Keep(stack, B)) = ToSet(stack) \cap B
  BY KeepFacts
<1>6. /\ Keep(stack, A) \o Keep(stack, B) \in Seq(Int)
      /\ Len(Keep(stack, A) \o Keep(stack, B)) = Len(Keep(stack, A)) + Len(Keep(stack, B))
      /\ ToSet(Keep(stack, A) \o Keep(stack, B)) = ToSet(Keep(stack, A)) \cup ToSet(Keep(stack, B))
  BY <1>5, ConcatFacts
<1> QED BY <1>2, <1>3, <1>4, <1>5, <1>6

-----------------------------------------------------------------------------
(* Sizes, indices and registers are numbers.                               *)
LEMMA SizeFacts ==
  ASSUME NEW t \in Types
  PROVE  /\ Size[t] \in Nat \ {0}
         /\ MaxSize \in Nat /\ Size[t] <= MaxSize
<1> DEFINE S == {Size[o] : o \in Types}
<1>1. Size \in [Types -> Nat \ {0}] /\ IsFiniteSet(Types)
  BY BankAssumption
<1>2. S \in SUBSET Nat /\ S # {}
  BY <1>1
<1>3. IsFiniteSet(S)
  <2>1. Size \in Surjection(Types, S)
    BY <1>1 DEF Surjection
  <2> QED BY <1>1, <2>1, FS_Surjection
<1>4. Max(S) \in S /\ \A x \in S : x <= Max(S)
  <2> HIDE DEF S
  <2> QED BY <1>2, <1>3, FiniteMax
<1> QED BY <1>1, <1>2, <1>4 DEF MaxSize

(* At least one register moves at a time. *)
LEMMA AllocInitFacts ==
  ASSUME NEW t \in Types
  PROVE  AllocInit(t) \in Nat \ {0}
<1>1. /\ Size[t] \in Nat \ {0} /\ MaxSize \in Nat /\ Size[t] <= MaxSize
      /\ Slots \in Nat \ {0}
  BY SizeFacts, BankAssumption
<1> DEFINE q == MaxSize \div Size[t]
<1>2. q \in Nat /\ q >= 1
  BY <1>1
<1> HIDE DEF q
<1>3. q * Slots \in Nat /\ q * Slots # 0
  BY <1>1, <1>2
<1> QED BY <1>3 DEF AllocInit, q

(* A register overlaps at least one of any other bank. *)
LEMMA OverlapFacts ==
  ASSUME NEW t \in Types, NEW o \in Types
  PROVE  OverlapCnt(t, o) \in Nat \ {0}
<1>1. Size[t] \in Nat \ {0} /\ Size[o] \in Nat \ {0}
  BY SizeFacts
<1>2. Size[t] \div Size[o] \in Nat
  BY <1>1
<1> QED BY <1>2, MaxOfTwo DEF OverlapCnt

(* The registers of a bank are a sequence of numbers. *)
LEMMA RegistersFacts ==
  ASSUME NEW t \in Types, NEW c \in Classes
  PROVE  /\ Registers(t, c) \in Seq(Int)
         /\ \A r \in ToSet(Registers(t, c)) : r \in Nat
<1>1. /\ Size[t] \in Nat \ {0} /\ Units[c] \in Nat /\ Units["caller"] \in Nat
  BY SizeFacts, BankAssumption DEF Classes
<1>2. Units[c] \div Size[t] \in Nat
  BY <1>1
<1>3. BaseIndex(c) \in Nat
  BY <1>1 DEF BaseIndex
<1>4. \A j \in 1 .. (Units[c] \div Size[t]) : BaseIndex(c) + (j - 1) * Size[t] \in Nat
  BY <1>1, <1>2, <1>3
<1> QED BY <1>2, <1>4 DEF Registers, ToSet

(* The stacks of a bank hold the registers of the bank. *)
Holds(alloc, avail, regs) ==
  /\ alloc \in Seq(Int) /\ avail \in Seq(Int)
  /\ Len(alloc) + Len(avail) = Len(regs)
  /\ ToSet(alloc) \cup ToSet(avail) = ToSet(regs)

StacksOK(st) ==
  /\ st = [alloc |-> st.alloc, avail |-> st.avail]
  /\ DOMAIN st.alloc = Types \X Classes
  /\ DOMAIN st.avail = Types \X Classes
  /\ \A t \in Types, c \in Classes :
       Holds(st.alloc[<<t, c>>], st.avail[<<t, c>>], Registers(t, c))

(* The stacks a pass begins with. *)
LEMMA EmptyStacksOK == StacksOK(EmptyStacks)
<1>1. \A b \in Types \X Classes : EmptyStacks.alloc[b] = <<>> /\ EmptyStacks.avail[b] = Registers(b[1], b[2])
  BY DEF EmptyStacks
<1>2. ASSUME NEW t \in Types, NEW c \in Classes
      PROVE  Holds(EmptyStacks.alloc[<<t, c>>], EmptyStacks.avail[<<t, c>>], Registers(t, c))
  <2>1. EmptyStacks.alloc[<<t, c>>] = <<>> /\ EmptyStacks.avail[<<t, c>>] = Registers(t, c)
    BY <1>1
  <2>2. Registers(t, c) \in Seq(Int)
    BY RegistersFacts
  <2> DEFINE regs == Registers(t, c)
  <2> HIDE DEF regs
  <2>3. Holds(<<>>, regs, regs)
    BY <2>2 DEF Holds, ToSet, regs
  <2> QED BY <2>1, <2>3 DEF regs
<1>3. /\ EmptyStacks = [alloc |-> EmptyStacks.alloc, avail |-> EmptyStacks.avail]
      /\ DOMAIN EmptyStacks.alloc = Types \X Classes
      /\ DOMAIN EmptyStacks.avail = Types \X Classes
  BY DEF EmptyStacks
<1> QED BY <1>2, <1>3 DEF StacksOK

(* Using a register again keeps the stacks. *)
LEMMA ReuseFacts ==
  ASSUME NEW st, StacksOK(st), NEW t, NEW c, NEW r
  PROVE  StacksOK(Reuse(st, t, c, r))
<1> DEFINE new == Reuse(st, t, c, r)
<1>1. /\ new.avail = st.avail
      /\ new.alloc = [b \in DOMAIN st.alloc |->
                        IF b[2] = c THEN Rotate(st.alloc[b], b[1], UnitsOf(t, r))
                        ELSE st.alloc[b]]
      /\ new = [alloc |-> new.alloc, avail |-> new.avail]
  BY DEF Reuse, StacksOK
<1> HIDE DEF new
<1>2. ASSUME NEW o \in Types, NEW d \in Classes
      PROVE  Holds(new.alloc[<<o, d>>], new.avail[<<o, d>>], Registers(o, d))
  <2>1. Holds(st.alloc[<<o, d>>], st.avail[<<o, d>>], Registers(o, d))
    BY DEF StacksOK
  <2>2. <<o, d>> \in DOMAIN st.alloc /\ <<o, d>>[1] = o /\ <<o, d>>[2] = d
    BY DEF StacksOK
  <2> DEFINE s == st.alloc[<<o, d>>]
             u == UnitsOf(t, r)
  <2>3. s \in Seq(Int)
    BY <2>1 DEF Holds
  <2>4. new.alloc[<<o, d>>] = s \/ new.alloc[<<o, d>>] = Rotate(s, o, u)
    BY <1>1, <2>2
  <2> HIDE DEF s, u
  <2>5. Rotate(s, o, u) \in Seq(Int) /\ Len(Rotate(s, o, u)) = Len(s) /\ ToSet(Rotate(s, o, u)) = ToSet(s)
    BY <2>3, RotateFacts
  <2>6. Holds(s, st.avail[<<o, d>>], Registers(o, d))
    BY <2>1 DEF s
  <2>7. Holds(Rotate(s, o, u), st.avail[<<o, d>>], Registers(o, d))
    BY <2>5, <2>6 DEF Holds
  <2> QED BY <1>1, <2>4, <2>6, <2>7
<1> QED BY <1>1, <1>2 DEF StacksOK, new

(* Moving registers from avail to alloc keeps the stacks. *)
LEMMA MoveFacts ==
  ASSUME NEW alloc, NEW avail, NEW regs, Holds(alloc, avail, regs), NEW m \in 0 .. Len(avail)
  PROVE  Holds(alloc \o SubSeq(avail, 1, m), SubSeq(avail, m + 1, Len(avail)), regs)
<1> DEFINE a == SubSeq(avail, 1, m)
           b == SubSeq(avail, m + 1, Len(avail))
<1>1. alloc \in Seq(Int) /\ avail \in Seq(Int)
  BY DEF Holds
<1>2. /\ a \in Seq(Int) /\ b \in Seq(Int)
      /\ Len(a) + Len(b) = Len(avail)
      /\ ToSet(a) \cup ToSet(b) = ToSet(avail)
  <2>1. a = SubSeq(avail, 1, m) /\ b = SubSeq(avail, m + 1, Len(avail)) /\ m \in 0 .. Len(avail)
    OBVIOUS
  <2> HIDE DEF a, b
  <2>2. Halves(a, b, avail)
    BY ONLY <1>1, <2>1, SplitFacts
  <2> QED BY <2>2 DEF Halves
<1> HIDE DEF a, b
<1> DEFINE z == alloc \o a
<1>3. z \in Seq(Int) /\ Len(z) = Len(alloc) + Len(a) /\ ToSet(z) = ToSet(alloc) \cup ToSet(a)
  BY <1>1, <1>2, ConcatFacts
<1> HIDE DEF z
<1>4. Len(alloc) \in Nat /\ Len(a) \in Nat /\ Len(b) \in Nat
  BY <1>1, <1>2
<1>5. Len(z) + Len(b) = Len(regs)
  <2>1. Len(alloc) + Len(avail) = Len(regs)
    BY DEF Holds
  <2>2. Len(z) + Len(b) = Len(alloc) + Len(avail)
    <3>1. Len(a) + Len(b) = Len(avail) /\ Len(z) = Len(alloc) + Len(a)
      BY <1>2, <1>3
    <3> QED BY ONLY <1>4, <3>1
  <2> QED BY ONLY <2>1, <2>2
<1>6. ToSet(z) \cup ToSet(b) = ToSet(regs)
  BY <1>2, <1>3 DEF Holds
<1>7. Holds(z, b, regs)
  BY <1>2, <1>3, <1>5, <1>6 DEF Holds
<1> QED BY <1>7 DEF z, a, b

(* Fetching moves registers and loses none. *)
LEMMA FetchFacts ==
  ASSUME NEW st, StacksOK(st), NEW t \in Types, NEW c, NEW batches \in Nat
  PROVE  StacksOK(Fetch(st, t, c, batches))
<1> DEFINE new == Fetch(st, t, c, batches)
           Step(o) == IF o = t THEN AllocInit(t)
                      ELSE (AllocInit(o) \div OverlapCnt(t, o)) * OverlapCnt(t, o)
           Moved(b) == IF b[2] # c THEN 0
                       ELSE Min({batches * Step(b[1]), Len(st.avail[b])})
<1>1. /\ new.alloc = [b \in DOMAIN st.alloc |->
                        st.alloc[b] \o SubSeq(st.avail[b], 1, Moved(b))]
      /\ new.avail = [b \in DOMAIN st.avail |->
                        SubSeq(st.avail[b], Moved(b) + 1, Len(st.avail[b]))]
      /\ new = [alloc |-> new.alloc, avail |-> new.avail]
  BY DEF Fetch
<1>2. ASSUME NEW o \in Types PROVE Step(o) \in Nat
  <2>1. AllocInit(t) \in Nat /\ AllocInit(o) \in Nat /\ OverlapCnt(t, o) \in Nat \ {0}
    BY AllocInitFacts, OverlapFacts
  <2> QED BY <2>1
<1> HIDE DEF new, Step
<1>3. ASSUME NEW o \in Types, NEW d \in Classes
      PROVE  Holds(new.alloc[<<o, d>>], new.avail[<<o, d>>], Registers(o, d))
  <2> DEFINE b == <<o, d>>
  <2>1. Holds(st.alloc[b], st.avail[b], Registers(o, d)) /\ b \in DOMAIN st.alloc /\ b \in DOMAIN st.avail
    BY DEF StacksOK
  <2>2. st.avail[b] \in Seq(Int) /\ Len(st.avail[b]) \in Nat
    BY <2>1 DEF Holds
  <2>3. b[1] = o /\ b[2] = d
    OBVIOUS
  <2>4. batches * Step(o) \in Nat
    BY <1>2
  <2>5. Moved(b) \in 0 .. Len(st.avail[b])
    <3> DEFINE x == batches * Step(o)
               y == Len(st.avail[b])
    <3>1. x \in Nat /\ y \in Nat
      BY <2>2, <2>4
    <3> HIDE DEF x, y
    <3>2. Min({x, y}) \in Nat /\ Min({x, y}) <= y
      BY ONLY <3>1, MinOfTwo
    <3>3. Min({x, y}) \in 0 .. y /\ 0 \in 0 .. y
      BY <3>1, <3>2
    <3> QED BY <2>3, <3>3 DEF x, y
  <2> HIDE DEF b, Moved
  <2>6. Holds(st.alloc[b] \o SubSeq(st.avail[b], 1, Moved(b)),
              SubSeq(st.avail[b], Moved(b) + 1, Len(st.avail[b])), Registers(o, d))
    BY <2>1, <2>5, MoveFacts
  <2>7. Holds(new.alloc[b], new.avail[b], Registers(o, d))
    BY <1>1, <2>1, <2>6
  <2> QED BY <2>7 DEF b
<1> QED BY <1>1, <1>3 DEF StacksOK, new

(* FirstFree finds a free register of the stack if there is one. *)
LEMMA FirstFreeFacts ==
  ASSUME NEW stack \in Seq(Int), NEW t, NEW reserved
  PROVE  \/ /\ FirstFree(stack, t, reserved) \in 1 .. Len(stack)
            /\ UnitsOf(t, stack[FirstFree(stack, t, reserved)]) \cap reserved = {}
         \/ /\ FirstFree(stack, t, reserved) = 0
            /\ \A r \in ToSet(stack) : UnitsOf(t, r) \cap reserved # {}
<1> DEFINE I == {i \in 1 .. Len(stack) : UnitsOf(t, stack[i]) \cap reserved = {}}
<1>1. FirstFree(stack, t, reserved) = IF I # {} THEN Min(I) ELSE 0
  BY DEF FirstFree, SelectInSeq
<1>2. CASE I = {}
  BY <1>1, <1>2 DEF ToSet
<1>3. CASE I # {}
  <2>1. I \in SUBSET Nat
    OBVIOUS
  <2>2. Min(I) \in I
    <3> HIDE DEF I
    <3>1. PICK x \in I : \A y \in I : x <= y
      BY <1>3, <2>1, LeastNatural
    <3> QED BY <3>1 DEF Min
  <2> QED BY <1>1, <1>3, <2>2
<1> QED BY <1>2, <1>3

(* What a search of a bank for a register that is not reserved promises.   *)
Searched(found, t, c, reserved) ==
  /\ StacksOK(found.stacks)
  /\ \/ /\ found.reg \in ToSet(Registers(t, c))
        /\ UnitsOf(t, found.reg) \cap reserved = {}
     \/ /\ found.reg = None
        /\ \A r \in ToSet(Registers(t, c)) : UnitsOf(t, r) \cap reserved # {}

(* R_find_free_register_in_bank keeps the promise. *)
LEMMA BankSearch ==
  ASSUME NEW st, StacksOK(st), NEW t \in Types, NEW c \in Classes, NEW reserved
  PROVE  Searched(R_find_free_register_in_bank(st, t, c, reserved), t, c, reserved)
<1> DEFINE used  == st.alloc[<<t, c>>]
           fresh == st.avail[<<t, c>>]
           k     == FirstFree(used, t, reserved)
           n     == FirstFree(fresh, t, reserved)
           BatchesFor(m) == (m + AllocInit(t) - 1) \div AllocInit(t)
           found == R_find_free_register_in_bank(st, t, c, reserved)
<1>1. /\ used \in Seq(Int) /\ fresh \in Seq(Int)
      /\ ToSet(used) \cup ToSet(fresh) = ToSet(Registers(t, c))
  BY DEF StacksOK, Holds
<1>2. \/ k \in 1 .. Len(used) /\ UnitsOf(t, used[k]) \cap reserved = {}
      \/ k = 0 /\ \A r \in ToSet(used) : UnitsOf(t, r) \cap reserved # {}
  BY <1>1, FirstFreeFacts
<1>3. \/ n \in 1 .. Len(fresh) /\ UnitsOf(t, fresh[n]) \cap reserved = {}
      \/ n = 0 /\ \A r \in ToSet(fresh) : UnitsOf(t, r) \cap reserved # {}
  BY <1>1, FirstFreeFacts
<1>4. ASSUME NEW m \in Nat PROVE BatchesFor(m) \in Nat
  BY AllocInitFacts
<1>5. /\ k # 0 => found = [reg |-> used[k], stacks |-> Reuse(st, t, c, used[k])]
      /\ k = 0 /\ n # 0 =>
           found = [reg |-> fresh[n], stacks |-> Fetch(st, t, c, BatchesFor(n))]
      /\ k = 0 /\ n = 0 =>
           found = [reg |-> None,
                    stacks |-> Fetch(st, t, c, Max({1, BatchesFor(Len(fresh))}))]
  BY DEF R_find_free_register_in_bank
<1>6. Len(used) \in Nat /\ Len(fresh) \in Nat
  BY <1>1
<1> HIDE DEF used, fresh, k, n, BatchesFor, found
<1>7. CASE k # 0
  <2>1. used[k] \in ToSet(used) /\ UnitsOf(t, used[k]) \cap reserved = {}
    BY <1>1, <1>2, <1>7 DEF ToSet
  <2>2. StacksOK(Reuse(st, t, c, used[k]))
    BY ReuseFacts
  <2>3. found.reg = used[k] /\ found.stacks = Reuse(st, t, c, used[k])
    BY <1>5, <1>7
  <2>4. Searched(found, t, c, reserved)
    BY <1>1, <2>1, <2>2, <2>3 DEF Searched
  <2> QED BY <2>4 DEF found
<1>8. CASE k = 0 /\ n # 0
  <2>1. fresh[n] \in ToSet(fresh) /\ UnitsOf(t, fresh[n]) \cap reserved = {} /\ n \in Nat
    BY <1>1, <1>3, <1>6, <1>8 DEF ToSet
  <2>2. StacksOK(Fetch(st, t, c, BatchesFor(n)))
    BY <1>4, <2>1, FetchFacts
  <2>3. found.reg = fresh[n] /\ found.stacks = Fetch(st, t, c, BatchesFor(n))
    BY <1>5, <1>8
  <2>4. Searched(found, t, c, reserved)
    BY <1>1, <2>1, <2>2, <2>3 DEF Searched
  <2> QED BY <2>4 DEF found
<1>9. CASE k = 0 /\ n = 0
  <2> DEFINE b == BatchesFor(Len(fresh))
  <2>1. b \in Nat
    BY <1>4, <1>6
  <2> HIDE DEF b
  <2>2. Max({1, b}) \in Nat
    BY <2>1, MaxOfTwo
  <2>3. StacksOK(Fetch(st, t, c, Max({1, b})))
    BY <2>2, FetchFacts
  <2>4. found.reg = None /\ found.stacks = Fetch(st, t, c, Max({1, b}))
    BY <1>5, <1>9 DEF b
  <2>5. \A r \in ToSet(Registers(t, c)) : UnitsOf(t, r) \cap reserved # {}
    BY <1>1, <1>2, <1>3, <1>9
  <2>6. Searched(found, t, c, reserved)
    BY <2>3, <2>4, <2>5 DEF Searched
  <2> QED BY <2>6 DEF found
<1> QED BY <1>7, <1>8, <1>9

(* A register of a bank is not None. *)
LEMMA RegisterIsNotNone ==
  ASSUME NEW t \in Types, NEW c \in Classes, NEW r \in ToSet(Registers(t, c))
  PROVE  r # None
BY RegistersFacts DEF None

(* R_find_free_register: what it finds is a free register of the class it  *)
(* returns, and the stacks keep their registers.                           *)
Found(found, v, reserved) ==
  /\ StacksOK(found.stacks)
  /\ found.rclass \in Classes \cup {"prefer_spill"}
  /\ found.reg # None =>
       /\ found.rclass \in Classes
       /\ found.reg \in ToSet(Registers(v.type, found.rclass))
       /\ UnitsOf(v.type, found.reg) \cap reserved = {}

(* R_find_free_register keeps the promise. *)
LEMMA FindFacts ==
  ASSUME NEW st, StacksOK(st), NEW v, v.type \in Types,
         v.rclass \in Classes \cup {"prefer_spill"}, NEW reserved
  PROVE  Found(R_find_free_register(st, v, reserved), v, reserved)
<1> DEFINE first  == R_find_free_register_in_bank(st, v.type, v.rclass, reserved)
           second == R_find_free_register_in_bank(first.stacks, v.type,
                                                  Other(v.rclass), reserved)
           none   == [reg |-> None, rclass |-> v.rclass, stacks |-> st]
           found  == R_find_free_register(st, v, reserved)
<1>1. \/ v.rclass = "prefer_spill" /\ found = none
      \/ /\ v.rclass \in Classes
         /\ \/ found = [none EXCEPT !.reg = first.reg, !.stacks = first.stacks]
            \/ /\ second.reg # None
               /\ found = [reg |-> second.reg, rclass |-> Other(v.rclass),
                           stacks |-> second.stacks]
            \/ found = [none EXCEPT !.stacks = second.stacks]
  BY DEF R_find_free_register
<1>2. CASE v.rclass = "prefer_spill" /\ found = none
  <2>1. found.reg = None /\ found.rclass = "prefer_spill" /\ found.stacks = st
    BY <1>2
  <2> HIDE DEF found
  <2>2. Found(found, v, reserved)
    BY <2>1 DEF Found
  <2> QED BY <2>2 DEF found
<1>3. CASE v.rclass \in Classes
  <2>1. Other(v.rclass) \in Classes
    BY DEF Other, Classes
  <2>2. Searched(first, v.type, v.rclass, reserved)
    BY <1>3, BankSearch
  <2>3. StacksOK(first.stacks)
    BY <2>2 DEF Searched
  <2>4. Searched(second, v.type, Other(v.rclass), reserved)
    <3> HIDE DEF first
    <3> QED BY <2>1, <2>3, BankSearch
  <2> HIDE DEF first, second
  <2>5. CASE found = [none EXCEPT !.reg = first.reg, !.stacks = first.stacks]
    <3>1. found.reg = first.reg /\ found.rclass = v.rclass /\ found.stacks = first.stacks
      BY <2>5
    <3> HIDE DEF found
    <3>2. Found(found, v, reserved)
      BY <1>3, <2>2, <3>1 DEF Found, Searched
    <3> QED BY <3>2 DEF found
  <2>6. CASE /\ second.reg # None
             /\ found = [reg |-> second.reg, rclass |-> Other(v.rclass),
                         stacks |-> second.stacks]
    <3>1. found.reg = second.reg /\ found.rclass = Other(v.rclass) /\ found.stacks = second.stacks
      BY <2>6
    <3> HIDE DEF found
    <3>2. Found(found, v, reserved)
      BY <2>1, <2>4, <3>1 DEF Found, Searched
    <3> QED BY <3>2 DEF found
  <2>7. CASE found = [none EXCEPT !.stacks = second.stacks]
    <3>1. found.reg = None /\ found.rclass = v.rclass /\ found.stacks = second.stacks
      BY <2>7
    <3> HIDE DEF found
    <3>2. Found(found, v, reserved)
      BY <1>3, <2>4, <3>1 DEF Found, Searched
    <3> QED BY <3>2 DEF found
  <2>8. "prefer_spill" \notin Classes
    BY DEF Classes
  <2> QED BY <1>1, <1>3, <2>5, <2>6, <2>7, <2>8
<1> QED BY <1>1, <1>2, <1>3

(* A register for which either bank may be used finds none only when every *)
(* register of both banks is reserved.                                     *)
LEMMA FindIsComplete ==
  ASSUME NEW st, StacksOK(st), NEW v, v.type \in Types, v.rclass \in Classes,
         ~ (v.benefit[Other(v.rclass)] < 0), NEW reserved,
         R_find_free_register(st, v, reserved).reg = None
  PROVE  \A c \in Classes : \A r \in ToSet(Registers(v.type, c)) :
           UnitsOf(v.type, r) \cap reserved # {}
<1> DEFINE first  == R_find_free_register_in_bank(st, v.type, v.rclass, reserved)
           second == R_find_free_register_in_bank(first.stacks, v.type,
                                                  Other(v.rclass), reserved)
           none   == [reg |-> None, rclass |-> v.rclass, stacks |-> st]
           found  == R_find_free_register(st, v, reserved)
<1>1. v.rclass # "prefer_spill" /\ Other(v.rclass) \in Classes
      /\ \A c \in Classes : c = v.rclass \/ c = Other(v.rclass)
  BY DEF Classes, Other
<1>2. Searched(first, v.type, v.rclass, reserved)
  BY BankSearch
<1>3. StacksOK(first.stacks)
  BY <1>2 DEF Searched
<1>4. Searched(second, v.type, Other(v.rclass), reserved)
  <2> HIDE DEF first
  <2> QED BY <1>1, <1>3, BankSearch
<1>5. found = IF first.reg # None
              THEN [none EXCEPT !.reg = first.reg, !.stacks = first.stacks]
              ELSE IF second.reg # None
              THEN [reg |-> second.reg, rclass |-> Other(v.rclass),
                    stacks |-> second.stacks]
              ELSE [none EXCEPT !.stacks = second.stacks]
  BY <1>1 DEF R_find_free_register
<1>6. found.reg = None
  OBVIOUS
<1> HIDE DEF first, second, found
<1>7. first.reg = None
  <2> SUFFICES ASSUME first.reg # None PROVE FALSE
    OBVIOUS
  <2>1. found.reg = first.reg
    BY <1>5
  <2> QED BY <1>6, <2>1
<1>8. second.reg = None
  <2> SUFFICES ASSUME second.reg # None PROVE FALSE
    OBVIOUS
  <2>1. found.reg = second.reg
    BY <1>5, <1>7
  <2> QED BY <1>6, <2>1
<1>9. \A r \in ToSet(Registers(v.type, v.rclass)) : UnitsOf(v.type, r) \cap reserved # {}
  BY <1>2, <1>7, RegisterIsNotNone DEF Searched
<1>10. \A r \in ToSet(Registers(v.type, Other(v.rclass))) : UnitsOf(v.type, r) \cap reserved # {}
  BY <1>1, <1>4, <1>8, RegisterIsNotNone DEF Searched
<1> QED BY <1>1, <1>9, <1>10

-----------------------------------------------------------------------------
(* Counting units.                                                         *)

(* n sets of at most K elements have at most K * n together.               *)
LEMMA UnionBound ==
  ASSUME NEW K \in Nat, NEW N, IsFiniteSet(N), NEW F,
         \A w \in N : IsFiniteSet(F[w]) /\ Cardinality(F[w]) <= K
  PROVE  /\ IsFiniteSet(UNION {F[w] : w \in N})
         /\ Cardinality(UNION {F[w] : w \in N}) <= K * Cardinality(N)
<1> DEFINE All(M) == UNION {F[w] : w \in M}
           T == {n \in Nat : \A M \in SUBSET N :
                   IsFiniteSet(M) /\ Cardinality(M) = n =>
                     IsFiniteSet(All(M)) /\ Cardinality(All(M)) <= K * n}
<1>1. 0 \in T
  <2> SUFFICES ASSUME NEW M \in SUBSET N, IsFiniteSet(M), Cardinality(M) = 0
               PROVE  IsFiniteSet(All(M)) /\ Cardinality(All(M)) <= K * 0
    OBVIOUS
  <2>1. M = {}
    BY FS_EmptySet
  <2>2. All(M) = {}
    BY <2>1
  <2>3. IsFiniteSet(All(M)) /\ Cardinality(All(M)) = 0
    BY <2>2, FS_EmptySet
  <2> QED BY ONLY <2>3, K \in Nat
<1>2. ASSUME NEW n \in T PROVE n + 1 \in T
  <2>0. n \in Nat
    OBVIOUS
  <2> SUFFICES ASSUME NEW M \in SUBSET N, IsFiniteSet(M), Cardinality(M) = n + 1
               PROVE  IsFiniteSet(All(M)) /\ Cardinality(All(M)) <= K * (n + 1)
    OBVIOUS
  <2>1. PICK a \in M : TRUE
    BY <2>0, FS_EmptySet
  <2> DEFINE L == M \ {a}
  <2>2. IsFiniteSet(L) /\ Cardinality(L) = n
    <3>1. IsFiniteSet(L) /\ Cardinality(L) = Cardinality(M) - 1
      BY <2>1, FS_RemoveElement
    <3> QED BY <2>0, <3>1
  <2>3. L \in SUBSET N
    OBVIOUS
  <2>4. IsFiniteSet(All(L)) /\ Cardinality(All(L)) <= K * n
    BY <2>2, <2>3
  <2>5. All(M) = All(L) \cup F[a]
    BY <2>1
  <2>6. IsFiniteSet(F[a]) /\ Cardinality(F[a]) <= K
    BY <2>1
  <2> HIDE DEF All
  <2>7. /\ IsFiniteSet(All(M))
        /\ Cardinality(All(M)) = Cardinality(All(L)) + Cardinality(F[a])
                                   - Cardinality(All(L) \cap F[a])
    <3> DEFINE A == All(L)
               B == F[a]
    <3>1. IsFiniteSet(A) /\ IsFiniteSet(B)
      BY <2>4, <2>6
    <3> HIDE DEF A, B
    <3>2. /\ IsFiniteSet(A \cup B)
          /\ Cardinality(A \cup B) = Cardinality(A) + Cardinality(B) - Cardinality(A \cap B)
      BY ONLY <3>1, FS_Union
    <3> QED BY <2>5, <3>2 DEF A, B
  <2>8. /\ Cardinality(All(L)) \in Nat /\ Cardinality(F[a]) \in Nat
        /\ Cardinality(All(L) \cap F[a]) \in Nat /\ Cardinality(All(M)) \in Nat
    <3>1. IsFiniteSet(All(L) \cap F[a])
      BY <2>4, FS_Intersection
    <3> QED BY <2>4, <2>6, <2>7, <3>1, FS_CardinalityType
  <2>9. K * (n + 1) = K * n + K /\ K * n \in Nat
    BY <2>0
  <2>10. Cardinality(All(M)) <= K * (n + 1)
    <3> DEFINE x == K * n
               y == K * (n + 1)
    <3>1. y = x + K /\ x \in Nat /\ Cardinality(All(L)) <= x
      BY <2>4, <2>9
    <3> HIDE DEF x, y
    <3>2. Cardinality(All(M)) <= y
      BY ONLY <2>6, <2>7, <2>8, <3>1, K \in Nat
    <3> QED BY <3>2 DEF y
  <2> QED BY <2>7, <2>10
<1>3. T = Nat
  <2>1. T \in SUBSET Nat
    OBVIOUS
  <2> HIDE DEF T
  <2> QED BY <1>1, <1>2, <2>1, SetInduction
<1>4. Cardinality(N) \in Nat
  BY FS_CardinalityType
<1> QED BY <1>3, <1>4

(* The units of the file. *)
BankUnits(c) == BaseIndex(c) .. (BaseIndex(c) + Units[c] - 1)
FileUnits == BankUnits("caller") \cup BankUnits("callee")

(* The two banks together: the register file. *)
LEMMA FileFacts ==
  /\ IsFiniteSet(FileUnits) /\ Cardinality(FileUnits) = Units["caller"] + Units["callee"]
  /\ Units["caller"] \in Nat /\ Units["callee"] \in Nat
  /\ BaseIndex("caller") = 0
  /\ \E h \in Nat : BaseIndex("callee") = 2 * h
<1>1. Units["caller"] \in Nat /\ Units["callee"] \in Nat
  BY BankAssumption DEF Classes
<1> DEFINE a == Units["caller"]
           e == Units["callee"]
           h == (a + 1) \div 2
           b == 2 * h
<1>2. BaseIndex("caller") = 0 /\ BaseIndex("callee") = b
  BY DEF BaseIndex
<1>3. h \in Nat /\ b \in Nat /\ a <= b
  BY <1>1
<1> HIDE DEF h, b, a, e
<1>4. a \in Nat /\ e \in Nat
  BY <1>1 DEF a, e
<1>5. BankUnits("caller") = 0 .. (a - 1) /\ BankUnits("callee") = b .. (b + e - 1)
  <2>1. 0 + a - 1 = a - 1
    BY <1>4
  <2> QED BY <1>2, <2>1 DEF BankUnits, a, e
<1>6. /\ IsFiniteSet(0 .. (a - 1)) /\ Cardinality(0 .. (a - 1)) = a
  BY <1>4, FS_Interval
<1>7. /\ IsFiniteSet(b .. (b + e - 1)) /\ Cardinality(b .. (b + e - 1)) = e
  BY <1>3, <1>4, FS_Interval
<1>8. (0 .. (a - 1)) \cap (b .. (b + e - 1)) = {}
  BY <1>3, <1>4
<1>9. /\ IsFiniteSet(FileUnits)
      /\ Cardinality(FileUnits) = a + e - Cardinality({})
  <2> DEFINE A == 0 .. (a - 1)
             B == b .. (b + e - 1)
  <2>1. /\ IsFiniteSet(A) /\ IsFiniteSet(B) /\ Cardinality(A) = a /\ Cardinality(B) = e
        /\ A \cap B = {} /\ FileUnits = A \cup B
    BY <1>5, <1>6, <1>7, <1>8 DEF FileUnits
  <2> HIDE DEF A, B
  <2>2. /\ IsFiniteSet(A \cup B)
        /\ Cardinality(A \cup B) = Cardinality(A) + Cardinality(B) - Cardinality(A \cap B)
    BY ONLY <2>1, FS_Union
  <2> QED BY ONLY <2>1, <2>2
<1>10. Cardinality(FileUnits) = a + e
  BY <1>4, <1>9, FS_EmptySet
<1> QED BY <1>1, <1>2, <1>3, <1>9, <1>10 DEF b, a, e

(* The sizes that the code generators of the repository define. *)
SizesAreOneOrTwo == \A t \in Types : Size[t] \in {1, 2}

(* A register of two units begins at an even one. *)
LEMMA PairsAreEven ==
  ASSUME NEW t \in Types, Size[t] = 2, NEW c \in Classes, NEW r \in ToSet(Registers(t, c))
  PROVE  \E k \in Nat : r = 2 * k
<1>1. PICK h \in Nat : BaseIndex(c) = 2 * h
  <2>1. c = "caller" \/ c = "callee"
    BY DEF Classes
  <2>2. BaseIndex("caller") = 2 * 0 /\ 0 \in Nat
    BY FileFacts
  <2> QED BY <2>1, <2>2, FileFacts
<1> DEFINE u == Units[c] \div Size[t]
<1>2. u \in Nat
  BY BankAssumption
<1>3. Registers(t, c) = [j \in 1 .. u |-> 2 * h + (j - 1) * 2]
  BY <1>1 DEF Registers
<1> HIDE DEF u
<1>4. PICK j \in 1 .. u : r = 2 * h + (j - 1) * 2
  BY <1>3 DEF ToSet
<1>5. h + (j - 1) \in Nat /\ r = 2 * (h + (j - 1))
  BY <1>2, <1>4
<1> QED BY <1>5

(* Every unit of the file is in a register of each type. *)
LEMMA UnitIsInRegister ==
  ASSUME NEW t \in Types, Size[t] \in {1, 2}, NEW x \in FileUnits
  PROVE  /\ x \in Nat
         /\ \E c \in Classes : \E r \in ToSet(Registers(t, c)) : r \in Nat /\ x \in UnitsOf(t, r)
<1>1. PICK c \in Classes : x \in BankUnits(c)
  BY DEF FileUnits, Classes
<1>2. PICK b \in Nat : BaseIndex(c) = b
  <2>1. c = "caller" \/ c = "callee"
    BY DEF Classes
  <2> QED BY <2>1, FileFacts
<1> DEFINE n == Units[c]
<1>3. n \in Nat /\ n % Size[t] = 0
  BY BankAssumption
<1>4. x \in b .. (b + n - 1)
  BY <1>1, <1>2 DEF BankUnits
<1>5. x \in Nat /\ x >= b /\ x < b + n
  BY <1>2, <1>3, <1>4
<1> HIDE DEF n
<1>6. CASE Size[t] = 1
  <2>1. Registers(t, c) = [j \in 1 .. (n \div 1) |-> b + (j - 1) * 1]
    BY <1>2, <1>6 DEF Registers, n
  <2>2. x - b + 1 \in 1 .. (n \div 1) /\ b + ((x - b + 1) - 1) * 1 = x
    BY <1>2, <1>3, <1>5
  <2>3. x \in ToSet(Registers(t, c))
    BY <2>1, <2>2 DEF ToSet
  <2>4. x \in UnitsOf(t, x)
    BY <1>5, <1>6 DEF UnitsOf
  <2> QED BY <1>5, <2>3, <2>4
<1>7. CASE Size[t] = 2
  <2> DEFINE k == (x - b) \div 2
             r == b + k * 2
  <2>1. Registers(t, c) = [j \in 1 .. (n \div 2) |-> b + (j - 1) * 2]
    BY <1>2, <1>7 DEF Registers, n
  <2>2. n % 2 = 0
    BY <1>3, <1>7
  <2>3. k \in Nat /\ k < n \div 2 /\ n \div 2 \in Nat /\ r \in Nat /\ x \in r .. (r + 2 - 1)
    BY <1>2, <1>3, <1>5, <2>2
  <2> HIDE DEF k
  <2>4. k + 1 \in 1 .. (n \div 2) /\ b + ((k + 1) - 1) * 2 = r
    BY <1>2, <2>3
  <2> HIDE DEF r
  <2>5. r \in ToSet(Registers(t, c))
    BY <2>1, <2>4 DEF ToSet
  <2>6. x \in UnitsOf(t, r)
    BY <1>7, <2>3 DEF UnitsOf
  <2> QED BY <1>5, <2>3, <2>5, <2>6
<1> QED BY <1>6, <1>7

(* The count that prunes a register: when the neighbours that have a       *)
(* place, MaxSize units for each, and the illegal registers are less than  *)
(* the file, some register is free.                                        *)
LEMMA SomeRegisterIsFree ==
  ASSUME SizesAreOneOrTwo, NEW t \in Types, NEW N, IsFiniteSet(N), NEW ty, NEW at,
         \A w \in N : /\ ty[w] \in Types
                      /\ \E c \in Classes : at[w] \in ToSet(Registers(ty[w], c)),
         NEW illegal, IsFiniteSet(illegal), Size[t] = 1 \/ illegal = {},
         NEW reserved,
         \A x \in reserved : x \in illegal \/ \E w \in N : x \in UnitsOf(ty[w], at[w]),
         Cardinality(illegal) + MaxSize * Cardinality(N) < Units["caller"] + Units["callee"]
  PROVE  \E c \in Classes : \E r \in ToSet(Registers(t, c)) :
           UnitsOf(t, r) \cap reserved = {}
<1> SUFFICES ASSUME \A c \in Classes : \A r \in ToSet(Registers(t, c)) :
                      UnitsOf(t, r) \cap reserved # {}
             PROVE  FALSE
  OBVIOUS
<1> DEFINE even(w) == 2 * (at[w] \div 2)
           F == [w \in N |-> IF Size[t] = 1 THEN UnitsOf(ty[w], at[w])
                             ELSE even(w) .. (even(w) + 1)]
           all == UNION {F[w] : w \in N}
<1>1. /\ Size[t] \in {1, 2} /\ MaxSize \in Nat /\ Size[t] <= MaxSize
      /\ \A w \in N : Size[ty[w]] \in {1, 2} /\ Size[ty[w]] <= MaxSize /\ at[w] \in Nat
  BY SizeFacts, RegistersFacts DEF SizesAreOneOrTwo
<1>2. ASSUME NEW w \in N PROVE IsFiniteSet(F[w]) /\ Cardinality(F[w]) <= MaxSize
  <2>1. CASE Size[t] = 1
    <3>1. F[w] = at[w] .. (at[w] + Size[ty[w]] - 1)
      BY <2>1 DEF UnitsOf
    <3>2. /\ at[w] \in Nat /\ at[w] + Size[ty[w]] - 1 \in Int
          /\ (at[w] + Size[ty[w]] - 1) - at[w] + 1 = Size[ty[w]]
          /\ at[w] <= at[w] + Size[ty[w]] - 1
      BY <1>1
    <3> DEFINE a == at[w]
               z == at[w] + Size[ty[w]] - 1
    <3>3. a \in Int /\ z \in Int /\ a <= z /\ F[w] = a .. z /\ z - a + 1 = Size[ty[w]]
      BY <3>1, <3>2
    <3> HIDE DEF a, z, F
    <3>4. IsFiniteSet(F[w]) /\ Cardinality(F[w]) = z - a + 1
      BY ONLY <3>3, FS_Interval
    <3> QED BY <1>1, <3>3, <3>4
  <2>2. CASE Size[t] = 2
    <3> DEFINE a == even(w)
               z == even(w) + 1
    <3>1. at[w] \in Nat
      BY <1>1
    <3>2. a \in Int /\ z \in Int /\ a <= z /\ z - a + 1 = 2
      BY ONLY <3>1
    <3>3. F[w] = a .. z
      BY <2>2
    <3> HIDE DEF a, z, F, even
    <3>4. IsFiniteSet(F[w]) /\ Cardinality(F[w]) = z - a + 1
      BY ONLY <3>2, <3>3, FS_Interval
    <3> QED BY <1>1, <2>2, <3>2, <3>4
  <2> QED BY <1>1, <2>1, <2>2
<1>3. ASSUME NEW x \in FileUnits PROVE x \in illegal \/ \E w \in N : x \in F[w]
  <2>1. x \in Nat
    BY <1>1, UnitIsInRegister
  <2>0. PICK c \in Classes : \E r \in ToSet(Registers(t, c)) : r \in Nat /\ x \in UnitsOf(t, r)
    BY <1>1, UnitIsInRegister
  <2>2. PICK r \in ToSet(Registers(t, c)) : r \in Nat /\ x \in UnitsOf(t, r)
    BY <2>0
  <2>3. PICK y \in UnitsOf(t, r) : y \in reserved
    OBVIOUS
  <2>4. CASE Size[t] = 1
    <3>1. y = x
      BY <2>1, <2>2, <2>3, <2>4 DEF UnitsOf
    <3>2. \A w \in N : F[w] = UnitsOf(ty[w], at[w])
      BY <2>4
    <3> QED BY <2>3, <3>1, <3>2
  <2>5. CASE Size[t] = 2
    <3>1. illegal = {}
      BY <2>5
    <3>2. PICK w \in N : y \in UnitsOf(ty[w], at[w])
      BY <2>3, <3>1
    <3>3. PICK k \in Nat : r = 2 * k
      BY <2>2, <2>5, PairsAreEven
    <3>4. /\ y \in Int /\ (y = r \/ y = r + 1)
          /\ (x = r \/ x = r + 1)
      BY <2>1, <2>2, <2>3, <2>5 DEF UnitsOf
    <3>5. even(w) = r
      <4>1. at[w] \in Nat
        BY <1>1
      <4>2. CASE Size[ty[w]] = 1
        <5>1. y = at[w]
          BY <3>2, <3>4, <4>1, <4>2 DEF UnitsOf
        <5> QED BY ONLY <3>3, <3>4, <4>1, <5>1, k \in Nat
      <4>3. CASE Size[ty[w]] = 2
        <5>1. y = at[w] \/ y = at[w] + 1
          BY <3>2, <3>4, <4>1, <4>3 DEF UnitsOf
        <5>2. PICK i \in Nat : at[w] = 2 * i
          BY <4>3, PairsAreEven
        <5> QED BY ONLY <3>3, <3>4, <5>1, <5>2, k \in Nat, i \in Nat
      <4> QED BY <1>1, <4>2, <4>3
    <3>6. F[w] = r .. (r + 1)
      BY <2>5, <3>5
    <3>7. x \in r .. (r + 1)
      BY ONLY <2>1, <2>2, <3>4
    <3> HIDE DEF F
    <3> QED BY <3>6, <3>7
  <2> QED BY <1>1, <2>4, <2>5
<1>4. IsFiniteSet(all) /\ Cardinality(all) <= MaxSize * Cardinality(N)
  <2> HIDE DEF F
  <2> QED BY <1>1, <1>2, UnionBound
<1>5. FileUnits \subseteq illegal \cup all
  <2> HIDE DEF F
  <2> QED BY <1>3
<1> HIDE DEF all
<1>6. /\ IsFiniteSet(illegal \cup all)
      /\ Cardinality(illegal \cup all) =
           Cardinality(illegal) + Cardinality(all) - Cardinality(illegal \cap all)
  BY <1>4, FS_Union
<1>7. /\ Cardinality(illegal) \in Nat /\ Cardinality(all) \in Nat /\ Cardinality(N) \in Nat
      /\ Cardinality(illegal \cap all) \in Nat /\ Cardinality(illegal \cup all) \in Nat
  BY <1>4, <1>6, FS_Intersection, FS_CardinalityType
<1>8. Cardinality(FileUnits) <= Cardinality(illegal \cup all)
  BY <1>5, <1>6, FS_Subset
<1>9. Cardinality(FileUnits) = Units["caller"] + Units["callee"]
      /\ Units["caller"] \in Nat /\ Units["callee"] \in Nat
  BY FileFacts
<1> DEFINE p == MaxSize * Cardinality(N)
<1>10. p \in Nat /\ Cardinality(all) <= p
       /\ Cardinality(illegal) + p < Units["caller"] + Units["callee"]
  BY <1>1, <1>4, <1>7
<1> HIDE DEF p
<1> QED BY ONLY <1>6, <1>7, <1>8, <1>9, <1>10
=============================================================================
