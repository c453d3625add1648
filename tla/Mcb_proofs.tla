----------------------------- MODULE Mcb_proofs -----------------------------
(***************************************************************************)
(* The memory conflict buffer of the superscalar model misses no conflict: *)
(* for every number of lines, associativity, hash function, set of         *)
(* registers and set of aligned accesses.                                  *)
(* The one of the Playdoh model misses none, and its load verify finds     *)
(* flags and entries in agreement, until a preload finds its line full.    *)
(***************************************************************************)
EXTENDS Mcb, TLAPS

(* Two aligned accesses that share a byte are in the same doubleword, and  *)
(* their addresses agree above the larger of the two sizes: the bit masks  *)
(* of S_sim_MCB_store let no overlap pass.                                 *)
LEMMA OverlapIsSeen ==
  ASSUME NEW a \in Nat, NEW b \in Nat,
         NEW s \in {1, 2, 4, 8}, NEW t \in {1, 2, 4, 8},
         a % s = 0, b % t = 0, a < b + t, b < a + s,
         NEW m, m = IF s >= t THEN s ELSE t
  PROVE  /\ a \div 8 = b \div 8
         /\ (a % 8) \div m = (b % 8) \div m
<1>1. CASE s = 8
  BY <1>1
<1>2. CASE s = 4
  BY <1>2
<1>3. CASE s = 2
  BY <1>3
<1>4. CASE s = 1
  BY <1>4
<1> QED
  BY <1>1, <1>2, <1>3, <1>4

(* The ranks of a line always name an oldest entry.                        *)
LEMMA OldestIsASlot ==
  ASSUME NEW a \in Ages
  PROVE  Oldest(a) \in Slots /\ a[Oldest(a)] = Assoc
<1>1. Assoc \in Slots
  BY McbAssumption DEF Slots
<1>2. \E s \in Slots : a[s] = Assoc
  BY <1>1 DEF Ages, Bijection, Surjection
<1> QED
  BY <1>2 DEF Oldest

(* Moving the oldest entry to the head leaves a permutation.               *)
LEMMA AsNewestIsAges ==
  ASSUME NEW a \in Ages
  PROVE  AsNewest(a) \in Ages
<1> DEFINE b == [s \in Slots |-> IF a[s] = Assoc THEN 1 ELSE a[s] + 1]
<1>1. /\ a \in [Slots -> Slots]
      /\ \A s, t \in Slots : a[s] = a[t] => s = t
      /\ \A t \in Slots : \E s \in Slots : a[s] = t
  BY DEF Ages, Bijection, Injection, Surjection, IsInjective
<1>2. Assoc \in Nat /\ Assoc >= 1 /\ Slots = 1 .. Assoc
  BY McbAssumption DEF Slots
<1>3. ASSUME NEW s \in Slots
      PROVE  /\ a[s] \in 1 .. Assoc /\ b[s] \in Slots
             /\ a[s] = Assoc => b[s] = 1
             /\ a[s] # Assoc => b[s] = a[s] + 1 /\ b[s] # 1
  <2>1. a[s] \in 1 .. Assoc
    BY <1>1, <1>2
  <2>2. b[s] = IF a[s] = Assoc THEN 1 ELSE a[s] + 1
    OBVIOUS
  <2> QED
    BY <1>2, <2>1, <2>2
<1>4. ASSUME NEW s \in Slots, NEW t \in Slots, b[s] = b[t]
      PROVE  s = t
  <2>1. a[s] = a[t]
    BY <1>2, <1>3, <1>4
  <2> QED
    BY <1>1, <2>1
<1>5. ASSUME NEW t \in Slots
      PROVE  \E s \in Slots : b[s] = t
  <2>1. CASE t = 1
    BY <1>1, <1>2, <1>3, <2>1
  <2>2. CASE t # 1
    <3>1. PICK s \in Slots : a[s] = t - 1
      BY <1>1, <1>2, <2>2
    <3>2. b[s] = t
      BY <1>2, <1>3, <2>2, <3>1
    <3> QED
      BY <3>2
  <2> QED
    BY <2>1, <2>2
<1>6. b \in [Slots -> Slots]
  BY <1>3
<1>7. b \in Bijection(Slots, Slots)
  BY <1>4, <1>5, <1>6 DEF Bijection, Injection, Surjection, IsInjective
<1> QED
  BY <1>7 DEF Ages, AsNewest

-----------------------------------------------------------------------------
(* The inductive invariant: Reported needs to know that a  *)
(* preload with a clear flag is still in the buffer, or the next store     *)
(* could pass it unseen.                                                   *)
IInv == TypeOK /\ Tracked /\ Reported

(* An access hashes to a line of the buffer.                               *)
LEMMA AccessFacts ==
  ASSUME NEW x \in Accesses
  PROVE  /\ x.addr \in Nat /\ x.size \in {1, 2, 4, 8}
         /\ x.addr % x.size = 0
         /\ Line(x.addr) \in Lines
         /\ x # None
         /\ x = [addr |-> x.addr, size |-> x.size]
BY McbAssumption DEF Line, None

(* The states S_create_MCB leaves satisfy the invariant.                   *)
LEMMA InitIInv == Init => IInv
<1> SUFFICES ASSUME Init PROVE IInv
  OBVIOUS
<1>1. age \in [Lines -> Ages]
  <2>1. [s \in Slots |-> s] \in Ages
    BY DEF Ages, Bijection, Injection, Surjection, IsInjective
  <2> QED
    BY <2>1 DEF Init
<1>2. entry \in [Ids -> Entries]
  BY DEF Init, Entries
<1>3. conflict \in [Regs -> Flags]
  BY DEF Init, Flags
<1>4. reg_entry \in [Regs -> Ids \cup {NULL, WILD}]
  BY DEF Init
<1>5. preload \in [Regs -> Accesses \cup {None}] /\ true_conflict \in [Regs -> BOOLEAN]
  BY DEF Init
<1>6. Tracked /\ Reported
  BY DEF Init, Tracked, Reported
<1> QED
  BY <1>1, <1>2, <1>3, <1>4, <1>5, <1>6 DEF IInv, TypeOK

(* A preload enters the buffer, and the one it pushes out is flagged.      *)
LEMMA SuperLoadIInv ==
  ASSUME IInv, NEW x \in Accesses, NEW r \in Regs, SuperLoad(x, r)
  PROVE  IInv'
<1> DEFINE l == Line(x.addr)
           e == <<l, Oldest(age[l])>>
           en == [valid |-> TRUE, reg |-> r, addr |-> x.addr, size |-> x.size]
<1>1. l \in Lines /\ x.addr \in Nat /\ x.size \in {1, 2, 4, 8}
  BY AccessFacts
<1>2. age[l] \in Ages
  BY <1>1 DEF IInv, TypeOK
<1>3. Oldest(age[l]) \in Slots /\ AsNewest(age[l]) \in Ages
  BY <1>2, OldestIsASlot, AsNewestIsAges
<1>4. e \in Ids
  BY <1>1, <1>3 DEF Ids
<1>5. /\ entry' = [entry EXCEPT ![e] = en]
      /\ age' = [age EXCEPT ![l] = AsNewest(@)]
      /\ conflict' = FlagsAfterLoad(e, r)
      /\ reg_entry' = [reg_entry EXCEPT ![r] = e]
      /\ preload' = [preload EXCEPT ![r] = x]
      /\ true_conflict' = [true_conflict EXCEPT ![r] = FALSE]
  BY DEF SuperLoad, Loaded, Preloads
<1>6. TypeOK'
  <2>1. en \in Entries
    BY <1>1 DEF Entries
  <2>2. entry' \in [Ids -> Entries]
    BY <1>5, <2>1 DEF IInv, TypeOK
  <2>3. age' \in [Lines -> Ages]
    BY <1>3, <1>5 DEF IInv, TypeOK
  <2>4. conflict' \in [Regs -> Flags]
    BY <1>5 DEF IInv, TypeOK, FlagsAfterLoad, Flags
  <2>5. reg_entry' \in [Regs -> Ids \cup {NULL, WILD}]
    BY <1>4, <1>5 DEF IInv, TypeOK
  <2>6. preload' \in [Regs -> Accesses \cup {None}] /\ true_conflict' \in [Regs -> BOOLEAN]
    BY <1>5 DEF IInv, TypeOK
  <2> QED
    BY <2>2, <2>3, <2>4, <2>5, <2>6 DEF TypeOK
<1>7. Tracked'
  <2> SUFFICES ASSUME NEW q \in Regs, preload'[q] # None,
                      conflict'[q] = "NO_CONFLICT"
               PROVE  \E s \in Slots :
                        entry'[<<Line(preload'[q].addr), s>>] =
                          [valid |-> TRUE, reg |-> q, addr |-> preload'[q].addr,
                           size |-> preload'[q].size]
    BY DEF Tracked
  <2>1. CASE q = r
    <3>1. preload'[q] = x
      BY <1>5, <2>1 DEF IInv, TypeOK
    <3>2. entry'[e] = en
      BY <1>4, <1>5 DEF IInv, TypeOK
    <3> QED
      BY <1>3, <2>1, <3>1, <3>2
  <2>2. CASE q # r
    <3>1. /\ preload'[q] = preload[q] /\ conflict[q] = "NO_CONFLICT"
          /\ ~ (entry[e].valid /\ entry[e].reg = q)
      BY <1>5, <2>2 DEF IInv, TypeOK, FlagsAfterLoad
    <3>2. PICK s \in Slots :
            entry[<<Line(preload[q].addr), s>>] =
              [valid |-> TRUE, reg |-> q, addr |-> preload[q].addr,
               size |-> preload[q].size]
      BY <3>1 DEF IInv, Tracked
    <3>3. <<Line(preload[q].addr), s>> # e
      BY <3>1, <3>2
    <3>4. <<Line(preload[q].addr), s>> \in Ids
      BY <3>1, AccessFacts DEF IInv, TypeOK, Ids
    <3>5. entry'[<<Line(preload[q].addr), s>>] = entry[<<Line(preload[q].addr), s>>]
      BY <1>5, <3>3, <3>4 DEF IInv, TypeOK
    <3> QED
      BY <3>1, <3>2, <3>5
  <2> QED
    BY <2>1, <2>2
<1>8. Reported'
  <2> SUFFICES ASSUME NEW q \in Regs, true_conflict'[q]
               PROVE  conflict'[q] # "NO_CONFLICT"
    BY DEF Reported
  <2>1. q # r /\ true_conflict[q]
    BY <1>5 DEF IInv, TypeOK
  <2> QED
    BY <1>5, <2>1 DEF IInv, TypeOK, Reported, FlagsAfterLoad
<1> QED
  BY <1>6, <1>7, <1>8 DEF IInv

(* A store flags the register of every preload it overlaps.                *)
LEMMA StoreIInv ==
  ASSUME IInv, NEW x \in Accesses, Store(x)
  PROVE  IInv'
<1> DEFINE l == Line(x.addr)
           gone == {s \in Slots : Conflicts(x, entry[<<l, s>>])}
           hit == {entry[<<l, s>>].reg : s \in gone}
<1>1. l \in Lines /\ x.addr \in Nat /\ x.size \in {1, 2, 4, 8} /\ x.addr % x.size = 0
  BY AccessFacts
<1>2. /\ entry' = [e \in Ids |-> IF e[1] = l /\ e[2] \in gone
                                  THEN [entry[e] EXCEPT !.valid = FALSE]
                                  ELSE entry[e]]
      /\ conflict' = [r \in Regs |-> IF r \in hit THEN "LOAD_STORE" ELSE conflict[r]]
      /\ reg_entry' = [r \in Regs |-> IF r \in hit THEN NULL ELSE reg_entry[r]]
      /\ true_conflict' = [r \in Regs |-> \/ true_conflict[r]
                                          \/ preload[r] # None /\ Overlap(x, preload[r])]
      /\ preload' = preload
  BY DEF Store
<1>3. TypeOK'
  <2>1. entry' \in [Ids -> Entries]
    BY <1>2 DEF IInv, TypeOK, Entries
  <2>2. age' \in [Lines -> Ages]
    BY DEF IInv, TypeOK, Store
  <2>3. conflict' \in [Regs -> Flags]
    BY <1>2 DEF IInv, TypeOK, Flags
  <2>4. reg_entry' \in [Regs -> Ids \cup {NULL, WILD}]
    BY <1>2 DEF IInv, TypeOK
  <2>5. true_conflict' \in [Regs -> BOOLEAN]
    BY <1>2 DEF IInv, TypeOK, Overlap
  <2> QED
    BY <1>2, <2>1, <2>2, <2>3, <2>4, <2>5 DEF IInv, TypeOK
<1>4. ASSUME NEW q \in Regs, preload[q] # None, conflict[q] = "NO_CONFLICT"
      PROVE  \E s \in Slots :
               /\ entry[<<Line(preload[q].addr), s>>] =
                    [valid |-> TRUE, reg |-> q, addr |-> preload[q].addr,
                     size |-> preload[q].size]
               /\ <<Line(preload[q].addr), s>> \in Ids
               /\ Line(preload[q].addr) = l /\ s \in gone => q \in hit
  <2>1. PICK s \in Slots :
          entry[<<Line(preload[q].addr), s>>] =
            [valid |-> TRUE, reg |-> q, addr |-> preload[q].addr,
             size |-> preload[q].size]
    BY <1>4 DEF IInv, Tracked
  <2>2. <<Line(preload[q].addr), s>> \in Ids
    BY <1>4, AccessFacts DEF IInv, TypeOK, Ids
  <2>3. Line(preload[q].addr) = l /\ s \in gone => q \in hit
    BY <2>1
  <2> QED
    BY <2>1, <2>2, <2>3
<1>5. Tracked'
  <2> SUFFICES ASSUME NEW q \in Regs, preload[q] # None,
                      conflict'[q] = "NO_CONFLICT"
               PROVE  \E s \in Slots :
                        entry'[<<Line(preload[q].addr), s>>] =
                          [valid |-> TRUE, reg |-> q, addr |-> preload[q].addr,
                           size |-> preload[q].size]
    BY <1>2 DEF Tracked
  <2>1. conflict[q] = "NO_CONFLICT" /\ q \notin hit
    BY <1>2
  <2>2. PICK s \in Slots :
          /\ entry[<<Line(preload[q].addr), s>>] =
               [valid |-> TRUE, reg |-> q, addr |-> preload[q].addr,
                size |-> preload[q].size]
          /\ <<Line(preload[q].addr), s>> \in Ids
          /\ Line(preload[q].addr) = l /\ s \in gone => q \in hit
    BY <1>4, <2>1
  <2>3. entry'[<<Line(preload[q].addr), s>>] = entry[<<Line(preload[q].addr), s>>]
    BY <1>2, <2>1, <2>2
  <2> QED
    BY <2>2, <2>3
<1>6. Reported'
  <2> SUFFICES ASSUME NEW q \in Regs, true_conflict'[q],
                      conflict'[q] = "NO_CONFLICT"
               PROVE  FALSE
    BY DEF Reported
  <2>1. conflict[q] = "NO_CONFLICT" /\ q \notin hit
    BY <1>2
  <2>2. ~ true_conflict[q]
    BY <2>1 DEF IInv, Reported
  <2>3. preload[q] # None /\ Overlap(x, preload[q])
    BY <1>2, <2>2
  <2>4. preload[q] \in Accesses
    BY <2>3 DEF IInv, TypeOK
  <2>5. PICK s \in Slots :
          /\ entry[<<Line(preload[q].addr), s>>] =
               [valid |-> TRUE, reg |-> q, addr |-> preload[q].addr,
                size |-> preload[q].size]
          /\ Line(preload[q].addr) = l /\ s \in gone => q \in hit
    BY <1>4, <2>1, <2>3
  <2> DEFINE p == preload[q]
             m == IF x.size >= p.size THEN x.size ELSE p.size
  <2>6. /\ p.addr \in Nat /\ p.size \in {1, 2, 4, 8} /\ p.addr % p.size = 0
        /\ x.addr < p.addr + p.size /\ p.addr < x.addr + x.size
    BY <2>3, <2>4, AccessFacts DEF Overlap
  <2>7. /\ x.addr \div 8 = p.addr \div 8
        /\ (x.addr % 8) \div m = (p.addr % 8) \div m
    <3> HIDE DEF p
    <3> QED
      BY <1>1, <2>6, OverlapIsSeen
  <2>8. Line(p.addr) = l /\ Checksum(p.addr) = Checksum(x.addr)
    BY <2>7 DEF Line, Checksum
  <2>9. Conflicts(x, entry[<<l, s>>])
    BY <2>5, <2>7, <2>8 DEF Conflicts
  <2> QED
    BY <2>1, <2>5, <2>8, <2>9
<1> QED
  BY <1>3, <1>5, <1>6 DEF IInv

(* The other steps only forget preloads or set flags.                      *)
LEMMA NextIInv == IInv /\ [SuperNext]_vars => IInv'
<1> SUFFICES ASSUME IInv, [SuperNext]_vars PROVE IInv'
  OBVIOUS
<1>1. ASSUME NEW x \in Accesses, NEW r \in Regs, SuperLoad(x, r) PROVE IInv'
  BY <1>1, SuperLoadIInv
<1>2. ASSUME NEW x \in Accesses, Store(x) PROVE IInv'
  BY <1>2, StoreIInv
<1>3. ASSUME NEW r \in Regs, Beq(r) PROVE IInv'
  <2>1. /\ UNCHANGED <<entry, age, conflict, reg_entry>>
        /\ preload' = [preload EXCEPT ![r] = None]
        /\ true_conflict' = [true_conflict EXCEPT ![r] = FALSE]
    BY <1>3 DEF Beq, Checked
  <2>2. TypeOK'
    BY <2>1 DEF IInv, TypeOK
  <2>3. Tracked'
    BY <2>1 DEF IInv, TypeOK, Tracked
  <2>4. Reported'
    BY <2>1 DEF IInv, TypeOK, Reported
  <2> QED
    BY <2>2, <2>3, <2>4 DEF IInv
<1>4. CASE TakenBranch
  <2>1. entry' \in [Ids -> Entries]
    BY <1>4 DEF TakenBranch, Invalidated, IInv, TypeOK, Entries
  <2>2. TypeOK'
    BY <1>4, <2>1 DEF TakenBranch, IInv, TypeOK
  <2>3. Tracked' /\ Reported'
    BY <1>4 DEF TakenBranch, Tracked, Reported
  <2> QED
    BY <2>2, <2>3 DEF IInv
<1>5. CASE ContextSwitch
  <2>1. entry' \in [Ids -> Entries]
    BY <1>5 DEF ContextSwitch, Invalidated, IInv, TypeOK, Entries
  <2>2. TypeOK'
    BY <1>5, <2>1 DEF ContextSwitch, IInv, TypeOK, Flags
  <2>3. Tracked' /\ Reported'
    BY <1>5 DEF ContextSwitch, Tracked, Reported
  <2> QED
    BY <2>2, <2>3 DEF IInv
<1>6. CASE UNCHANGED vars
  BY <1>6 DEF vars, IInv, TypeOK, Tracked, Reported
<1> QED
  BY <1>1, <1>2, <1>3, <1>4, <1>5, <1>6 DEF SuperNext

(* A line of the buffer stays a list of all its entries: reusing the       *)
(* oldest entry and moving it to the head (S_sim_MCB_load) loses and       *)
(* doubles none, so there always is an entry to reuse; entries, flags and  *)
(* reg_entry keep their ranges.                                            *)
THEOREM McbLinesStayLists == SuperSpec => []TypeOK
<1>1. IInv => TypeOK
  BY DEF IInv
<1> QED
  BY <1>1, InitIInv, NextIInv, PTL DEF SuperSpec

(* No step of the superscalar model sets overflowed: the exception of the  *)
(* properties for Playdoh is none here.                                    *)
LEMMA NeverOverflowed ==
  /\ Init => ~ overflowed
  /\ ~ overflowed /\ [SuperNext]_vars => ~ overflowed'
BY DEF Init, SuperNext, SuperLoad, Store, Beq, TakenBranch, ContextSwitch, vars

(* A preload whose check is still to come is in the buffer, in the line    *)
(* S_sim_MCB_store will search, unless the register's flag is set already: *)
(* pushing its entry out (S_sim_MCB_load), dropping it on a conflict or    *)
(* clearing the buffer never goes unnoticed, full lines included.          *)
THEOREM McbTracksEveryPreload == SuperSpec => [](~ overflowed /\ PreloadsAreTracked)
<1>1. IInv => PreloadsAreTracked
  BY DEF IInv, PreloadsAreTracked
<1> QED
  BY <1>1, InitIInv, NextIInv, NeverOverflowed, PTL DEF SuperSpec

(* The memory conflict buffer never misses a conflict: at every moment the *)
(* flag of a register whose guarded preload was overlapped by a store is   *)
(* set, for every geometry, hash function and program, full lines          *)
(* included.                                                               *)
THEOREM McbMissesNoConflict == SuperSpec => [](~ overflowed /\ TrueConflictsAreReported)
<1>1. IInv => TrueConflictsAreReported
  BY DEF IInv, TrueConflictsAreReported
<1> QED
  BY <1>1, InitIInv, NextIInv, NeverOverflowed, PTL DEF SuperSpec

(* So the check of S_sim_MCB_beq that a true conflict was detected (and    *)
(* the one of its caller) never stops the superscalar simulation.          *)
THEOREM SuperscalarChecksNeverPunt == SuperSpec => [](punted = "no" /\ ChecksNeverPunt)
<1> DEFINE P == IInv /\ punted = "no"
<1>1. Init => P
  BY InitIInv DEF Init
<1>2. P /\ [SuperNext]_vars => P'
  <2> SUFFICES ASSUME IInv, punted = "no", [SuperNext]_vars
               PROVE  punted' = "no"
    BY NextIInv
  <2>1. ASSUME NEW r \in Regs, Beq(r) PROVE punted' = "no"
    BY <2>1 DEF Beq, IInv, Reported
  <2> QED
    BY <2>1 DEF SuperNext, SuperLoad, Store, TakenBranch, ContextSwitch, vars
<1>3. P => punted = "no" /\ ChecksNeverPunt
  BY DEF ChecksNeverPunt
<1> QED
  BY <1>1, <1>2, <1>3, PTL DEF SuperSpec

-----------------------------------------------------------------------------
(* The Playdoh model.  The pointer of a register to its entry must not     *)
(* outlive the entry: S_sim_MCB_load reuses the oldest entry of a line     *)
(* without looking whose it is.  It need not while the line has a free     *)
(* entry, if the oldest one then is free.  S_create_MCB leaves reg_entry   *)
(* uninitialized; a simulation with sampling clears it before its first    *)
(* instruction, another one stops when it first follows a wild pointer.    *)

(* Entries and registers name each other, and only for as long as there    *)
(* was no conflict.                                                        *)
EntriesAndRegistersAgree ==
  /\ \A e \in Ids : entry[e].valid => entry[e].reg \in Regs /\ reg_entry[entry[e].reg] = e
  /\ \A r \in Regs :
       \/ reg_entry[r] = NULL
       \/ reg_entry[r] = WILD /\ preload[r] = None /\ ~ Sampling
       \/ /\ reg_entry[r] \in Ids
          /\ entry[reg_entry[r]].valid /\ entry[reg_entry[r]].reg = r
          /\ conflict[r] = "NO_CONFLICT"

(* In every line the entries in use come before the free ones.             *)
FreeIsLast(en, ag) ==
  \A l \in Lines : \A s, t \in Slots :
    en[<<l, s>>].valid /\ ~ en[<<l, t>>].valid => ag[l][s] < ag[l][t]

PInv ==
  /\ IInv /\ EntriesAndRegistersAgree /\ FreeIsLast(entry, age)
  /\ punted = "no" \/ (punted = "wild pointer" /\ ~ Sampling)

(* The pointers that name no entry are no entries.                         *)
LEMMA NullIsNoEntry == NULL \notin Ids /\ WILD \notin Ids /\ NULL # WILD
BY DEF NULL, WILD, Ids

(* What ranks are.                                                         *)
LEMMA AgesFacts ==
  ASSUME NEW a \in Ages
  PROVE  /\ a \in [Slots -> 1 .. Assoc]
         /\ \A s, t \in Slots : a[s] = a[t] => s = t
         /\ \A t \in Slots : \E s \in Slots : a[s] = t
         /\ Assoc \in Nat /\ Assoc >= 1 /\ Slots = 1 .. Assoc
<1>1. /\ a \in [Slots -> Slots]
      /\ \A s, t \in Slots : a[s] = a[t] => s = t
      /\ \A t \in Slots : \E s \in Slots : a[s] = t
  BY DEF Ages, Bijection, Injection, Surjection, IsInjective
<1>2. Assoc \in Nat /\ Assoc >= 1 /\ Slots = 1 .. Assoc
  BY McbAssumption DEF Slots
<1> QED
  BY <1>1, <1>2

(* Moving an entry to the end of its line leaves a permutation, and the    *)
(* order of the others.                                                    *)
LEMMA AsOldestIsAges ==
  ASSUME NEW a \in Ages, NEW s \in Slots
  PROVE  /\ AsOldest(a, s) \in Ages
         /\ AsOldest(a, s)[s] = Assoc
         /\ \A t \in Slots \ {s} : AsOldest(a, s)[t] < Assoc
         /\ \A t, u \in Slots \ {s} : a[t] < a[u] => AsOldest(a, s)[t] < AsOldest(a, s)[u]
<1> DEFINE b == [t \in Slots |-> IF t = s THEN Assoc
                                 ELSE IF a[t] > a[s] THEN a[t] - 1 ELSE a[t]]
<1>1. /\ a \in [Slots -> 1 .. Assoc]
      /\ \A t, u \in Slots : a[t] = a[u] => t = u
      /\ \A t \in Slots : \E u \in Slots : a[u] = t
      /\ Assoc \in Nat /\ Assoc >= 1 /\ Slots = 1 .. Assoc
  BY AgesFacts
<1>2. ASSUME NEW t \in Slots
      PROVE  /\ a[t] \in 1 .. Assoc
             /\ t = s => b[t] = Assoc
             /\ t # s => a[t] # a[s]
             /\ t # s /\ a[t] > a[s] => b[t] = a[t] - 1
             /\ t # s /\ a[t] < a[s] => b[t] = a[t]
  <2>1. /\ a[t] \in 1 .. Assoc /\ a[s] \in 1 .. Assoc
        /\ t # s => a[t] # a[s]
    BY <1>1
  <2>2. b[t] = IF t = s THEN Assoc ELSE IF a[t] > a[s] THEN a[t] - 1 ELSE a[t]
    OBVIOUS
  <2> QED
    BY <2>1, <2>2
<1> HIDE DEF b
<1>3. Assoc \in Nat
  BY <1>1
<1>4. \A t \in Slots : t \in Nat
  BY <1>1
<1>5. ASSUME NEW t \in Slots \ {s} PROVE b[t] \in Slots /\ b[t] < Assoc
  <2>1. a[t] \in 1 .. Assoc /\ a[s] \in 1 .. Assoc /\ a[t] # a[s]
    BY <1>2
  <2>2. (b[t] = a[t] - 1 /\ a[t] > a[s]) \/ (b[t] = a[t] /\ a[t] < a[s])
    BY <1>2, <1>3, <2>1
  <2>3. Slots = 1 .. Assoc
    BY <1>1
  <2> QED
    BY <1>3, <2>1, <2>2, <2>3
<1>6. b[s] = Assoc
  BY <1>2
<1>7. ASSUME NEW t \in Slots \ {s}, NEW u \in Slots \ {s}, a[t] < a[u]
      PROVE  b[t] < b[u]
  <2>1. /\ a[t] \in 1 .. Assoc /\ a[u] \in 1 .. Assoc /\ a[s] \in 1 .. Assoc
        /\ a[t] # a[s] /\ a[u] # a[s]
    BY <1>2
  <2>2. (b[t] = a[t] - 1 /\ a[t] > a[s]) \/ (b[t] = a[t] /\ a[t] < a[s])
    BY <1>2, <1>3, <2>1
  <2>3. (b[u] = a[u] - 1 /\ a[u] > a[s]) \/ (b[u] = a[u] /\ a[u] < a[s])
    BY <1>2, <1>3, <2>1
  <2> QED
    BY <1>7, <1>3, <2>1, <2>2, <2>3
<1>8. b \in [Slots -> Slots]
  <2>1. \A t \in Slots : b[t] \in Slots
    <3>1. Assoc \in Slots
      BY <1>1
    <3> QED
      BY <1>5, <1>6, <3>1
  <2> QED
    BY <2>1 DEF b
<1>9. ASSUME NEW t \in Slots, NEW u \in Slots, b[t] = b[u]
      PROVE  t = u
  <2>1. a[t] \in 1 .. Assoc /\ a[u] \in 1 .. Assoc
    BY <1>2
  <2>2. t = s <=> u = s
    <3>1. ASSUME NEW v \in Slots \ {s} PROVE b[v] # Assoc
      BY <1>5, <1>3, <1>4
    <3> QED
      BY <1>6, <1>9, <3>1
  <2>3. CASE t # s /\ u # s
    <3>1. b[t] \in Nat /\ b[u] \in Nat
      BY <1>5, <1>4, <2>3
    <3>2. ~ (a[t] < a[u]) /\ ~ (a[u] < a[t])
      BY <1>7, <1>9, <2>3, <3>1
    <3> QED
      BY <1>1, <2>1, <3>2
  <2> QED
    BY <2>2, <2>3
<1>10. ASSUME NEW k \in Slots
      PROVE  \E t \in Slots : b[t] = k
  <2>1. CASE k = Assoc
    BY <1>6, <2>1
  <2>2. CASE k # Assoc /\ k < a[s]
    <3>1. PICK t \in Slots : a[t] = k
      BY <1>1
    <3>2. a[t] < a[s] /\ t # s
      BY <1>1, <1>2, <2>2, <3>1
    <3>3. b[t] = k
      BY <1>2, <3>1, <3>2
    <3> QED
      BY <3>3
  <2>3. CASE k # Assoc /\ k >= a[s]
    <3>1. PICK t \in Slots : a[t] = k + 1
      BY <1>1, <2>3
    <3>2. k \in Int /\ a[s] \in Int
      BY <1>1, <1>2
    <3>3. a[t] > a[s] /\ t # s
      BY <2>3, <3>1, <3>2
    <3>4. b[t] = a[t] - 1
      BY <1>2, <3>3
    <3>5. b[t] = k
      BY <3>1, <3>2, <3>4
    <3> QED
      BY <3>5
  <2> QED
    BY <1>1, <1>2, <2>1, <2>2, <2>3
<1>11. b \in Ages
  BY <1>8, <1>9, <1>10 DEF Ages, Bijection, Injection, Surjection, IsInjective
<1>12. AsOldest(a, s) = b
  BY DEF AsOldest, b
<1> QED
  BY <1>5, <1>6, <1>7, <1>11, <1>12

(* Moving the oldest entry to the head leaves the order of the others.     *)
LEMMA AsNewestKeepsOrder ==
  ASSUME NEW a \in Ages, NEW s \in Slots, NEW t \in Slots \ {Oldest(a)},
         s = Oldest(a) \/ a[s] < a[t]
  PROVE  AsNewest(a)[s] < AsNewest(a)[t]
<1>1. /\ a[s] \in 1 .. Assoc /\ a[t] \in 1 .. Assoc /\ Assoc \in Nat
      /\ Oldest(a) \in Slots /\ a[Oldest(a)] = Assoc
      /\ a[t] # Assoc
  BY AgesFacts, OldestIsASlot
<1>2. /\ AsNewest(a)[s] = IF a[s] = Assoc THEN 1 ELSE a[s] + 1
      /\ AsNewest(a)[t] = a[t] + 1
  BY <1>1 DEF AsNewest
<1> QED
  BY <1>1, <1>2

(* The oldest entry of a line that is not full is free.                    *)
LEMMA OldestIsFree ==
  ASSUME PInv, NEW l \in Lines, ~ Full(l)
  PROVE  ~ entry[<<l, Oldest(age[l])>>].valid
<1> DEFINE o == Oldest(age[l])
<1> SUFFICES ASSUME entry[<<l, o>>].valid PROVE FALSE
  OBVIOUS
<1>1. age[l] \in Ages
  BY DEF PInv, IInv, TypeOK
<1>2. o \in Slots /\ age[l][o] = Assoc
  BY <1>1, OldestIsASlot
<1>3. PICK s \in Slots : ~ entry[<<l, s>>].valid
  BY DEF Full
<1>4. age[l][o] < age[l][s]
  BY <1>2, <1>3 DEF PInv, FreeIsLast
<1>5. age[l][s] \in 1 .. Assoc /\ Assoc \in Nat
  BY <1>1, AgesFacts
<1> QED
  BY <1>2, <1>4, <1>5

(* A preload that takes the oldest entry of a line keeps the line sorted.  *)
LEMMA LoadKeepsOrder ==
  ASSUME NEW en \in [Ids -> Entries], NEW ag \in [Lines -> Ages], FreeIsLast(en, ag),
         NEW l \in Lines, NEW new \in Entries, new.valid
  PROVE  FreeIsLast([en EXCEPT ![<<l, Oldest(ag[l])>>] = new],
                    [ag EXCEPT ![l] = AsNewest(@)])
<1> DEFINE o == Oldest(ag[l])
           en2 == [en EXCEPT ![<<l, o>>] = new]
           ag2 == [ag EXCEPT ![l] = AsNewest(@)]
<1>1. ag[l] \in Ages /\ o \in Slots
  BY OldestIsASlot
<1>2. \A k \in Lines, s \in Slots :
        en2[<<k, s>>] = IF k = l /\ s = o THEN new ELSE en[<<k, s>>]
  BY <1>1 DEF Ids
<1>3. \A k \in Lines : ag2[k] = IF k = l THEN AsNewest(ag[l]) ELSE ag[k]
  OBVIOUS
<1> HIDE DEF en2, ag2, o
<1> SUFFICES ASSUME NEW k \in Lines, NEW s \in Slots, NEW t \in Slots,
                    en2[<<k, s>>].valid, ~ en2[<<k, t>>].valid
             PROVE  ag2[k][s] < ag2[k][t]
  BY DEF FreeIsLast, en2, ag2, o
<1>4. CASE k # l
  BY <1>2, <1>3, <1>4 DEF FreeIsLast
<1>5. CASE k = l
  <2>1. t # o /\ ~ en[<<l, t>>].valid
    BY <1>2, <1>5
  <2>2. s = o \/ ag[l][s] < ag[l][t]
    BY <1>2, <1>5, <2>1 DEF FreeIsLast
  <2> QED
    BY <1>1, <1>3, <1>5, <2>1, <2>2, AsNewestKeepsOrder DEF o
<1> QED
  BY <1>4, <1>5

(* The end of the list is where a dropped entry belongs.                   *)
LEMMA DropKeepsOrder ==
  ASSUME NEW en \in [Ids -> Entries], NEW ag \in [Lines -> Ages], FreeIsLast(en, ag),
         NEW l \in Lines, NEW s \in Slots
  PROVE  /\ [en EXCEPT ![<<l, s>>].valid = FALSE] \in [Ids -> Entries]
         /\ [ag EXCEPT ![l] = AsOldest(@, s)] \in [Lines -> Ages]
         /\ FreeIsLast([en EXCEPT ![<<l, s>>].valid = FALSE],
                       [ag EXCEPT ![l] = AsOldest(@, s)])
<1> DEFINE en2 == [en EXCEPT ![<<l, s>>].valid = FALSE]
           ag2 == [ag EXCEPT ![l] = AsOldest(@, s)]
<1>0. <<l, s>> \in Ids
  BY DEF Ids
<1>1. ag[l] \in Ages
  OBVIOUS
<1>2. AsOldest(ag[l], s) \in Ages
  BY <1>1, AsOldestIsAges
<1>3. ag2 \in [Lines -> Ages]
  BY <1>2
<1>4. en2 \in [Ids -> Entries]
  BY <1>0 DEF Entries
<1>5. \A k \in Lines, t \in Slots :
        en2[<<k, t>>].valid = IF k = l /\ t = s THEN FALSE ELSE en[<<k, t>>].valid
  BY <1>0 DEF Ids, Entries
<1>6. \A k \in Lines : ag2[k] = IF k = l THEN AsOldest(ag[l], s) ELSE ag[k]
  OBVIOUS
<1>7. FreeIsLast(en2, ag2)
  <2> HIDE DEF en2, ag2
  <2> SUFFICES ASSUME NEW k \in Lines, NEW t \in Slots, NEW u \in Slots,
                      en2[<<k, t>>].valid, ~ en2[<<k, u>>].valid
               PROVE  ag2[k][t] < ag2[k][u]
    BY DEF FreeIsLast
  <2>1. CASE k # l
    BY <1>5, <1>6, <2>1 DEF FreeIsLast
  <2>2. CASE k = l /\ u = s
    BY <1>1, <1>5, <1>6, <2>2, AsOldestIsAges
  <2>3. CASE k = l /\ u # s
    <3>1. t # s /\ ag[l][t] < ag[l][u]
      BY <1>5, <2>3 DEF FreeIsLast
    <3> QED
      BY <1>1, <1>6, <2>3, <3>1, AsOldestIsAges
  <2> QED
    BY <2>1, <2>2, <2>3
<1> QED
  BY <1>3, <1>4, <1>7

(* A preload under Playdoh: the entry it takes was free, so the entry of   *)
(* the register's previous preload, dropped afterwards, is another one.    *)
LEMMA PlaydohLoadPInv ==
  ASSUME PInv, NEW x \in Accesses, NEW r \in Regs,
         PlaydohLoad(x, r), ~ overflowed'
  PROVE  PInv'
<1> DEFINE l == Line(x.addr)
           e == <<l, Oldest(age[l])>>
           new == [valid |-> TRUE, reg |-> r, addr |-> x.addr, size |-> x.size]
           en1 == [entry EXCEPT ![e] = new]
           ag1 == [age EXCEPT ![l] = AsNewest(@)]
           old == reg_entry[r]
<1>1. l \in Lines /\ x.addr \in Nat /\ x.size \in {1, 2, 4, 8}
  BY AccessFacts
<1>2. TypeOK
  BY DEF PInv, IInv
<1>3. age[l] \in Ages /\ Oldest(age[l]) \in Slots /\ AsNewest(age[l]) \in Ages
  BY <1>1, <1>2, OldestIsASlot, AsNewestIsAges DEF TypeOK
<1>4. e \in Ids /\ ~ entry[e].valid
  BY <1>1, <1>3, OldestIsFree DEF Ids, PlaydohLoad
<1>5. new \in Entries /\ new.valid
  BY <1>1 DEF Entries
<1>6. /\ en1 \in [Ids -> Entries] /\ ag1 \in [Lines -> Ages]
      /\ \A i \in Ids : en1[i] = IF i = e THEN new ELSE entry[i]
  BY <1>2, <1>3, <1>4, <1>5 DEF TypeOK
<1>7. FreeIsLast(en1, ag1)
  BY <1>1, <1>2, <1>5, LoadKeepsOrder DEF PInv, TypeOK
<1>8. /\ RegConflict(en1, ag1, r) /\ punted = "no"
      /\ conflict' = FlagsAfterLoad(e, r)
      /\ reg_entry' = [reg_entry EXCEPT ![r] = e]
      /\ preload' = [preload EXCEPT ![r] = x]
      /\ true_conflict' = [true_conflict EXCEPT ![r] = FALSE]
  BY DEF PlaydohLoad, Loaded, Preloads
<1>9. /\ conflict' = [q \in Regs |-> IF q = r THEN "NO_CONFLICT" ELSE conflict[q]]
      /\ reg_entry' = [q \in Regs |-> IF q = r THEN e ELSE reg_entry[q]]
      /\ preload' = [q \in Regs |-> IF q = r THEN x ELSE preload[q]]
      /\ true_conflict' = [q \in Regs |-> IF q = r THEN FALSE ELSE true_conflict[q]]
  BY <1>2, <1>4, <1>8 DEF FlagsAfterLoad, TypeOK
<1>10. \/ old = NULL
       \/ old = WILD /\ ~ Sampling
       \/ old \in Ids /\ entry[old].valid /\ entry[old].reg = r
  BY DEF PInv, EntriesAndRegistersAgree
<1>11. old # e
  BY <1>4, <1>10, NullIsNoEntry
<1> HIDE DEF l, e, new, en1, ag1, old
<1>12. /\ entry' \in [Ids -> Entries] /\ age' \in [Lines -> Ages]
       /\ FreeIsLast(entry', age')
       /\ punted' = "no" \/ (punted' = "wild pointer" /\ ~ Sampling)
       /\ \A i \in Ids : entry'[i] = IF i = old THEN [en1[i] EXCEPT !.valid = FALSE]
                                     ELSE en1[i]
  <2>1. CASE old = NULL
    <3>1. entry' = en1 /\ age' = ag1 /\ punted' = "no"
      BY <1>8, <2>1, NullIsNoEntry DEF RegConflict, old
    <3> QED
      BY <1>6, <1>7, <2>1, <3>1, NullIsNoEntry
  <2>0. CASE old = WILD /\ ~ Sampling
    <3>1. entry' = en1 /\ age' = ag1 /\ punted' = "wild pointer"
      BY <1>8, <2>0, NullIsNoEntry DEF RegConflict, old
    <3> QED
      BY <1>6, <1>7, <2>0, <3>1, NullIsNoEntry
  <2>2. CASE old \in Ids
    <3>1. old # NULL /\ old # WILD
      BY <2>2, NullIsNoEntry
    <3>2. /\ entry' = [en1 EXCEPT ![old].valid = FALSE]
          /\ age' = [ag1 EXCEPT ![old[1]] = AsOldest(@, old[2])]
          /\ punted' = "no"
      BY <1>8, <2>2, <3>1 DEF RegConflict, old
    <3>3. PICK k \in Lines, s \in Slots : old = <<k, s>>
      BY <2>2 DEF Ids
    <3>4. /\ entry' = [en1 EXCEPT ![<<k, s>>].valid = FALSE]
          /\ age' = [ag1 EXCEPT ![k] = AsOldest(@, s)]
      BY <3>2, <3>3
    <3>5. /\ entry' \in [Ids -> Entries] /\ age' \in [Lines -> Ages]
          /\ FreeIsLast(entry', age')
      BY <1>6, <1>7, <3>4, DropKeepsOrder
    <3> QED
      BY <1>6, <2>2, <3>2, <3>5
  <2> QED
    BY <1>10, <2>0, <2>1, <2>2
<1>13. /\ entry'[e] = new
       /\ \A i \in Ids \ {e, old} : entry'[i] = entry[i]
       /\ old \in Ids => ~ entry'[old].valid
  BY <1>4, <1>6, <1>11, <1>12 DEF Entries
<1>14. TypeOK'
  <2>1. conflict' \in [Regs -> Flags]
    BY <1>2, <1>9 DEF TypeOK, Flags
  <2>2. reg_entry' \in [Regs -> Ids \cup {NULL, WILD}]
    BY <1>2, <1>4, <1>9 DEF TypeOK
  <2>3. preload' \in [Regs -> Accesses \cup {None}] /\ true_conflict' \in [Regs -> BOOLEAN]
    BY <1>2, <1>9 DEF TypeOK
  <2> QED
    BY <1>12, <2>1, <2>2, <2>3 DEF TypeOK
<1>15. EntriesAndRegistersAgree'
  <2>1. ASSUME NEW i \in Ids, entry'[i].valid
        PROVE  entry'[i].reg \in Regs /\ reg_entry'[entry'[i].reg] = i
    <3>1. CASE i = e
      BY <1>9, <1>13, <3>1 DEF new
    <3>2. CASE i # e
      <4>1. i # old /\ entry'[i] = entry[i]
        BY <1>13, <2>1, <3>2
      <4>2. entry[i].reg \in Regs /\ reg_entry[entry[i].reg] = i
        BY <2>1, <4>1 DEF PInv, EntriesAndRegistersAgree
      <4>3. entry[i].reg # r
        BY <4>1, <4>2 DEF old
      <4> QED
        BY <1>9, <4>1, <4>2, <4>3
    <3> QED
      BY <3>1, <3>2
  <2>2. ASSUME NEW q \in Regs, reg_entry'[q] # NULL, reg_entry'[q] # WILD
        PROVE  /\ reg_entry'[q] \in Ids
               /\ entry'[reg_entry'[q]].valid /\ entry'[reg_entry'[q]].reg = q
               /\ conflict'[q] = "NO_CONFLICT"
    <3>1. CASE q = r
      BY <1>4, <1>9, <1>13, <3>1 DEF new
    <3>2. CASE q # r
      <4>1. reg_entry'[q] = reg_entry[q] /\ conflict'[q] = conflict[q]
        BY <1>9, <3>2
      <4>2. /\ reg_entry[q] \in Ids
            /\ entry[reg_entry[q]].valid /\ entry[reg_entry[q]].reg = q
            /\ conflict[q] = "NO_CONFLICT"
        BY <2>2, <4>1 DEF PInv, EntriesAndRegistersAgree
      <4>3. reg_entry[q] # e /\ reg_entry[q] # old
        BY <1>4, <1>10, <3>2, <4>2, NullIsNoEntry
      <4> QED
        BY <1>13, <4>1, <4>2, <4>3
    <3> QED
      BY <3>1, <3>2
  <2>3. ASSUME NEW q \in Regs, reg_entry'[q] = WILD
        PROVE  preload'[q] = None /\ ~ Sampling
    BY <1>4, <1>9, <2>3, NullIsNoEntry DEF PInv, EntriesAndRegistersAgree
  <2> QED
    BY <2>1, <2>2, <2>3 DEF EntriesAndRegistersAgree
<1>16. Tracked'
  <2> SUFFICES ASSUME NEW q \in Regs, preload'[q] # None,
                      conflict'[q] = "NO_CONFLICT"
               PROVE  \E s \in Slots :
                        entry'[<<Line(preload'[q].addr), s>>] =
                          [valid |-> TRUE, reg |-> q, addr |-> preload'[q].addr,
                           size |-> preload'[q].size]
    BY DEF Tracked
  <2>1. CASE q = r
    BY <1>3, <1>9, <1>13, <2>1 DEF e, l, new
  <2>2. CASE q # r
    <3>1. preload'[q] = preload[q] /\ conflict[q] = "NO_CONFLICT"
      BY <1>9, <2>2
    <3>2. PICK s \in Slots :
            entry[<<Line(preload[q].addr), s>>] =
              [valid |-> TRUE, reg |-> q, addr |-> preload[q].addr,
               size |-> preload[q].size]
      BY <3>1 DEF PInv, IInv, Tracked
    <3>3. <<Line(preload[q].addr), s>> \in Ids
      BY <1>2, <3>1, AccessFacts DEF TypeOK, Ids
    <3>4. <<Line(preload[q].addr), s>> # e /\ <<Line(preload[q].addr), s>> # old
      BY <1>4, <1>10, <2>2, <3>2, <3>3, NullIsNoEntry
    <3>5. entry'[<<Line(preload[q].addr), s>>] = entry[<<Line(preload[q].addr), s>>]
      BY <1>13, <3>3, <3>4
    <3> QED
      BY <3>1, <3>2, <3>5
  <2> QED
    BY <2>1, <2>2
<1>17. Reported'
  BY <1>9 DEF PInv, IInv, Reported
<1> QED
  BY <1>12, <1>14, <1>15, <1>16, <1>17 DEF PInv, IInv

(* A load verify: flag and entry agree, and the entry is dropped.          *)
LEMMA VerifyPInv ==
  ASSUME PInv, NEW r \in Regs, Verify(r)
  PROVE  PInv'
<1> DEFINE old == reg_entry[r]
<1>1. TypeOK
  BY DEF PInv, IInv
<1>2. preload[r] # None /\ preload[r] \in Accesses /\ punted = "no"
  BY <1>1 DEF Verify, TypeOK
<1>3. old = NULL \/ (old \in Ids /\ entry[old].valid /\ entry[old].reg = r
                     /\ conflict[r] = "NO_CONFLICT")
  BY <1>2 DEF PInv, EntriesAndRegistersAgree
<1>4. ~ VerifyFails(r)
  <2>1. CASE conflict[r] # "NO_CONFLICT"
    BY <1>3, <2>1 DEF VerifyFails
  <2>2. CASE conflict[r] = "NO_CONFLICT"
    <3>1. PICK s \in Slots :
            entry[<<Line(preload[r].addr), s>>] =
              [valid |-> TRUE, reg |-> r, addr |-> preload[r].addr,
               size |-> preload[r].size]
      BY <1>2, <2>2 DEF PInv, IInv, Tracked
    <3>2. <<Line(preload[r].addr), s>> \in Ids
      BY <1>2, AccessFacts DEF Ids
    <3>0. \A e \in Ids : entry[e].valid => reg_entry[entry[e].reg] = e
      BY DEF PInv, EntriesAndRegistersAgree
    <3>3. old = <<Line(preload[r].addr), s>>
      BY <3>0, <3>1, <3>2
    <3>4. old # NULL /\ entry[old].addr = preload[r].addr
      BY <3>1, <3>2, <3>3, NullIsNoEntry
    <3> QED
      BY <2>2, <3>4 DEF VerifyFails
  <2> QED
    BY <2>1, <2>2
<1>5. /\ RegConflict(entry, age, r)
      /\ reg_entry' = [reg_entry EXCEPT ![r] = NULL]
      /\ preload' = [preload EXCEPT ![r] = None]
      /\ true_conflict' = [true_conflict EXCEPT ![r] = FALSE]
      /\ conflict' = conflict
  BY <1>4 DEF Verify, Checked
<1> HIDE DEF old
<1>6. /\ entry' \in [Ids -> Entries] /\ age' \in [Lines -> Ages]
      /\ FreeIsLast(entry', age') /\ punted' = "no"
      /\ \A i \in Ids \ {old} : entry'[i] = entry[i]
      /\ old \in Ids => ~ entry'[old].valid
  <2>1. CASE old = NULL
    <3>1. entry' = entry /\ age' = age /\ punted' = "no"
      BY <1>2, <1>5, <2>1, NullIsNoEntry DEF RegConflict, old
    <3> QED
      BY <1>1, <2>1, <3>1, NullIsNoEntry DEF PInv, TypeOK
  <2>2. CASE old \in Ids
    <3>1. old # NULL /\ old # WILD
      BY <2>2, NullIsNoEntry
    <3>2. /\ entry' = [entry EXCEPT ![old].valid = FALSE]
          /\ age' = [age EXCEPT ![old[1]] = AsOldest(@, old[2])]
          /\ punted' = "no"
      BY <1>2, <1>5, <2>2, <3>1 DEF RegConflict, old
    <3>3. PICK k \in Lines, s \in Slots : old = <<k, s>>
      BY <2>2 DEF Ids
    <3>4. /\ entry' = [entry EXCEPT ![<<k, s>>].valid = FALSE]
          /\ age' = [age EXCEPT ![k] = AsOldest(@, s)]
      BY <3>2, <3>3
    <3>5. /\ entry' \in [Ids -> Entries] /\ age' \in [Lines -> Ages]
          /\ FreeIsLast(entry', age')
      BY <1>1, <3>4, DropKeepsOrder DEF PInv, TypeOK
    <3>6. /\ \A i \in Ids \ {old} : entry'[i] = entry[i]
          /\ ~ entry'[old].valid
      BY <1>1, <2>2, <3>2 DEF TypeOK, Entries
    <3> QED
      BY <3>2, <3>5, <3>6
  <2> QED
    BY <1>3, <2>1, <2>2
<1>7. /\ reg_entry' = [q \in Regs |-> IF q = r THEN NULL ELSE reg_entry[q]]
      /\ preload' = [q \in Regs |-> IF q = r THEN None ELSE preload[q]]
      /\ true_conflict' = [q \in Regs |-> IF q = r THEN FALSE ELSE true_conflict[q]]
  BY <1>1, <1>5 DEF TypeOK
<1>8. TypeOK'
  BY <1>1, <1>5, <1>6, <1>7 DEF TypeOK
<1>9. EntriesAndRegistersAgree'
  <2>1. ASSUME NEW i \in Ids, entry'[i].valid
        PROVE  entry'[i].reg \in Regs /\ reg_entry'[entry'[i].reg] = i
    <3>1. i # old /\ entry'[i] = entry[i]
      BY <1>6, <2>1
    <3>2. entry[i].reg \in Regs /\ reg_entry[entry[i].reg] = i
      BY <2>1, <3>1 DEF PInv, EntriesAndRegistersAgree
    <3>3. entry[i].reg # r
      BY <3>1, <3>2 DEF old
    <3> QED
      BY <1>7, <3>1, <3>2, <3>3
  <2>2. ASSUME NEW q \in Regs, reg_entry'[q] # NULL, reg_entry'[q] # WILD
        PROVE  /\ reg_entry'[q] \in Ids
               /\ entry'[reg_entry'[q]].valid /\ entry'[reg_entry'[q]].reg = q
               /\ conflict'[q] = "NO_CONFLICT"
    <3>1. q # r /\ reg_entry'[q] = reg_entry[q]
      BY <1>7, <2>2
    <3>2. /\ reg_entry[q] \in Ids
          /\ entry[reg_entry[q]].valid /\ entry[reg_entry[q]].reg = q
          /\ conflict[q] = "NO_CONFLICT"
      BY <2>2, <3>1 DEF PInv, EntriesAndRegistersAgree
    <3>3. reg_entry[q] # old
      BY <1>3, <3>1, <3>2, NullIsNoEntry
    <3> QED
      BY <1>5, <1>6, <3>1, <3>2, <3>3
  <2>3. ASSUME NEW q \in Regs, reg_entry'[q] = WILD
        PROVE  preload'[q] = None /\ ~ Sampling
    BY <1>7, <2>3, NullIsNoEntry DEF PInv, EntriesAndRegistersAgree
  <2> QED
    BY <2>1, <2>2, <2>3 DEF EntriesAndRegistersAgree
<1>10. Tracked'
  <2> SUFFICES ASSUME NEW q \in Regs, preload'[q] # None,
                      conflict'[q] = "NO_CONFLICT"
               PROVE  \E s \in Slots :
                        entry'[<<Line(preload'[q].addr), s>>] =
                          [valid |-> TRUE, reg |-> q, addr |-> preload'[q].addr,
                           size |-> preload'[q].size]
    BY DEF Tracked
  <2>1. q # r /\ preload'[q] = preload[q] /\ conflict[q] = "NO_CONFLICT"
    BY <1>5, <1>7
  <2>2. PICK s \in Slots :
          entry[<<Line(preload[q].addr), s>>] =
            [valid |-> TRUE, reg |-> q, addr |-> preload[q].addr,
             size |-> preload[q].size]
    BY <2>1 DEF PInv, IInv, Tracked
  <2>3. <<Line(preload[q].addr), s>> \in Ids
    BY <1>1, <2>1, AccessFacts DEF TypeOK, Ids
  <2>4. <<Line(preload[q].addr), s>> # old
    BY <1>3, <2>1, <2>2, <2>3, NullIsNoEntry
  <2> QED
    BY <1>6, <2>1, <2>2, <2>3, <2>4
<1>11. Reported'
  BY <1>5, <1>7 DEF PInv, IInv, Reported
<1> QED
  BY <1>6, <1>8, <1>9, <1>10, <1>11 DEF PInv, IInv

(* A store drops the entries it conflicts with, and their registers        *)
(* forget them.                                                            *)
LEMMA StorePInv ==
  ASSUME PInv, NEW x \in Accesses, Store(x)
  PROVE  PInv'
<1> DEFINE l == Line(x.addr)
           gone == {s \in Slots : Conflicts(x, entry[<<l, s>>])}
           hit == {entry[<<l, s>>].reg : s \in gone}
<1>1. l \in Lines /\ TypeOK
  BY AccessFacts DEF PInv, IInv
<1>2. \A s \in gone : s \in Slots /\ entry[<<l, s>>].valid /\ <<l, s>> \in Ids
  BY <1>1 DEF Conflicts, Ids
<1>3. /\ entry' = [e \in Ids |-> IF e[1] = l /\ e[2] \in gone
                                  THEN [entry[e] EXCEPT !.valid = FALSE]
                                  ELSE entry[e]]
      /\ conflict' = [r \in Regs |-> IF r \in hit THEN "LOAD_STORE" ELSE conflict[r]]
      /\ reg_entry' = [r \in Regs |-> IF r \in hit THEN NULL ELSE reg_entry[r]]
  BY DEF Store
<1>4. PICK b \in Ages : MovedToEnd(age[l], b, gone) /\ age' = [age EXCEPT ![l] = b]
  BY DEF Store
<1> HIDE DEF l, gone
<1>5. \A k \in Lines, s \in Slots :
        entry'[<<k, s>>] = IF k = l /\ s \in gone
                           THEN [entry[<<k, s>>] EXCEPT !.valid = FALSE]
                           ELSE entry[<<k, s>>]
  BY <1>3 DEF Ids
<1>6. EntriesAndRegistersAgree'
  <2>1. ASSUME NEW i \in Ids, entry'[i].valid
        PROVE  entry'[i].reg \in Regs /\ reg_entry'[entry'[i].reg] = i
    <3>1. PICK k \in Lines, s \in Slots : i = <<k, s>>
      BY DEF Ids
    <3>2. ~ (k = l /\ s \in gone) /\ entry'[i] = entry[i]
      BY <1>1, <1>5, <2>1, <3>1 DEF TypeOK, Entries
    <3>3. entry[i].reg \in Regs /\ reg_entry[entry[i].reg] = i
      BY <2>1, <3>2 DEF PInv, EntriesAndRegistersAgree
    <3>4. entry[i].reg \notin hit
      <4> SUFFICES ASSUME NEW t \in gone, entry[<<l, t>>].reg = entry[i].reg
                   PROVE  FALSE
        OBVIOUS
      <4>1. reg_entry[entry[i].reg] = <<l, t>>
        BY <1>2 DEF PInv, EntriesAndRegistersAgree
      <4> QED
        BY <3>1, <3>2, <3>3, <4>1
    <3> QED
      BY <1>3, <3>2, <3>3, <3>4
  <2>2. ASSUME NEW q \in Regs, reg_entry'[q] # NULL, reg_entry'[q] # WILD
        PROVE  /\ reg_entry'[q] \in Ids
               /\ entry'[reg_entry'[q]].valid /\ entry'[reg_entry'[q]].reg = q
               /\ conflict'[q] = "NO_CONFLICT"
    <3>1. q \notin hit /\ reg_entry'[q] = reg_entry[q] /\ conflict'[q] = conflict[q]
      BY <1>3, <2>2
    <3>2. /\ reg_entry[q] \in Ids
          /\ entry[reg_entry[q]].valid /\ entry[reg_entry[q]].reg = q
          /\ conflict[q] = "NO_CONFLICT"
      BY <2>2, <3>1 DEF PInv, EntriesAndRegistersAgree
    <3>3. PICK k \in Lines, s \in Slots : reg_entry[q] = <<k, s>>
      BY <3>2 DEF Ids
    <3>4. ~ (k = l /\ s \in gone)
      BY <3>1, <3>2, <3>3
    <3>5. entry'[<<k, s>>] = entry[<<k, s>>]
      BY <1>5, <3>4
    <3>6. entry'[reg_entry'[q]] = entry[reg_entry[q]]
      BY <3>1, <3>3, <3>5
    <3> QED
      BY <3>1, <3>2, <3>6
  <2>3. ASSUME NEW q \in Regs, reg_entry'[q] = WILD
        PROVE  preload'[q] = None /\ ~ Sampling
    BY <1>3, <2>3, NullIsNoEntry DEF PInv, EntriesAndRegistersAgree, Store
  <2> QED
    BY <2>1, <2>2, <2>3 DEF EntriesAndRegistersAgree
<1>7. FreeIsLast(entry', age')
  <2> SUFFICES ASSUME NEW k \in Lines, NEW s \in Slots, NEW t \in Slots,
                      entry'[<<k, s>>].valid, ~ entry'[<<k, t>>].valid
               PROVE  age'[k][s] < age'[k][t]
    BY DEF FreeIsLast
  <2>1. CASE k # l
    BY <1>1, <1>4, <1>5, <2>1 DEF PInv, FreeIsLast, TypeOK
  <2>2. CASE k = l
    <3>1. <<l, s>> \in Ids /\ <<l, t>> \in Ids /\ age'[l] = b
      BY <1>1, <1>4 DEF Ids, TypeOK
    <3>2. s \notin gone /\ entry[<<l, s>>].valid
      BY <1>1, <1>5, <2>2, <3>1 DEF TypeOK, Entries
    <3>3. t \notin gone => age[l][s] < age[l][t]
      BY <1>1, <1>5, <2>2, <3>2 DEF PInv, FreeIsLast
    <3>4. b[s] < b[t]
      BY <1>4, <3>2, <3>3 DEF MovedToEnd
    <3> QED
      BY <2>2, <3>1, <3>4
  <2> QED
    BY <2>1, <2>2
<1> QED
  BY <1>6, <1>7, StoreIInv DEF PInv, Store

(* Until a line is full, PInv is inductive under Playdoh.                  *)
LEMMA PlaydohNextPInv ==
  ASSUME PInv, [PlaydohNext]_vars, ~ overflowed'
  PROVE  PInv'
<1>1. ASSUME NEW x \in Accesses, NEW r \in Regs, PlaydohLoad(x, r)
      PROVE  PInv'
  BY <1>1, PlaydohLoadPInv
<1>2. ASSUME NEW x \in Accesses, Store(x) PROVE PInv'
  BY <1>2, StorePInv
<1>3. ASSUME NEW r \in Regs, Verify(r) PROVE PInv'
  BY <1>3, VerifyPInv
<1>4. CASE ContextSwitch
  <2>1. IInv'
    BY <1>4, NextIInv DEF PInv, SuperNext
  <2>2. \A e \in Ids : ~ entry'[e].valid
    BY <1>4 DEF ContextSwitch, Invalidated, PInv, IInv, TypeOK, Entries
  <2>3. EntriesAndRegistersAgree'
    BY <1>4, <2>2 DEF ContextSwitch, EntriesAndRegistersAgree
  <2>4. FreeIsLast(entry', age')
    BY <2>2 DEF FreeIsLast, Ids
  <2> QED
    BY <1>4, <2>1, <2>3, <2>4 DEF PInv, ContextSwitch
<1>5. CASE UNCHANGED vars
  <2>1. IInv'
    BY <1>5, NextIInv DEF PInv
  <2>2. EntriesAndRegistersAgree'
    BY <1>5 DEF vars, PInv, EntriesAndRegistersAgree
  <2>3. FreeIsLast(entry', age') /\ punted' = punted
    BY <1>5 DEF vars, PInv
  <2> QED
    BY <2>1, <2>2, <2>3 DEF PInv
<1> QED
  BY <1>1, <1>2, <1>3, <1>4, <1>5 DEF PlaydohNext

(* At first the buffer is empty, and no register names an entry.           *)
LEMMA InitPInv ==
  ASSUME Init
  PROVE  PInv
<1>1. \A e \in Ids : ~ entry[e].valid
  BY DEF Init
<1>2. \A r \in Regs : \/ reg_entry[r] = NULL
                      \/ reg_entry[r] = WILD /\ preload[r] = None /\ ~ Sampling
  BY DEF Init
<1>3. EntriesAndRegistersAgree
  BY <1>1, <1>2 DEF EntriesAndRegistersAgree
<1>4. FreeIsLast(entry, age)
  BY <1>1 DEF FreeIsLast, Ids
<1> QED
  BY <1>3, <1>4, InitIInv DEF PInv, Init

(* Until a preload finds its line full, the load verify of the Playdoh     *)
(* model (S_sim_MCB_verify) finds flag, register and entry in agreement,   *)
(* no conflict is missed, and every preload not yet verified is in the     *)
(* buffer or its register flagged: S_sim_MCB_load takes a free entry, and  *)
(* the entry that S_sim_MCB_reg_conflict then drops is another one.  This  *)
(* is so for every geometry, hash function, set of registers and program,  *)
(* with sampling and without; it ends with the first full line.            *)
THEOREM PlaydohIsSafeUntilALineIsFull ==
  PlaydohSpec => [](PreloadsAreTracked /\ TrueConflictsAreReported /\ ChecksNeverPunt)
<1> DEFINE P == ~ overflowed => PInv
<1>1. Init => P
  BY InitPInv
<1>2. P /\ [PlaydohNext]_vars => P'
  <2> SUFFICES ASSUME P, [PlaydohNext]_vars, ~ overflowed'
               PROVE  PInv'
    OBVIOUS
  <2>1. ~ overflowed
    BY DEF PlaydohNext, PlaydohLoad, Store, Verify, ContextSwitch, vars
  <2> QED
    BY <2>1, PlaydohNextPInv
<1>3. P => PreloadsAreTracked /\ TrueConflictsAreReported /\ ChecksNeverPunt
  BY DEF PInv, IInv, PreloadsAreTracked, TrueConflictsAreReported, ChecksNeverPunt
<1> QED
  BY <1>1, <1>2, <1>3, PTL DEF PlaydohSpec
=============================================================================
