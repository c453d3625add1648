-------------------------------- MODULE Mcb --------------------------------
(***************************************************************************)
(* The memory conflict buffer of Lsim (s_mcb.c).  A load moved above       *)
(* stores it may depend on (a preload) enters its address and destination  *)
(* register; a later store to an overlapping address sets the conflict     *)
(* flag of that register; the check that guards the moved load reads the   *)
(* flag.  The buffer is a set associative table of hashed addresses: it    *)
(* may report conflicts that did not happen, it must not miss one that     *)
(* did.                                                                    *)
(*                                                                         *)
(* A check is a branch in the superscalar model (S_sim_MCB_beq) and a load *)
(* verify in the Playdoh model (S_sim_MCB_verify); only Playdoh uses       *)
(* reg_entry, the entry of each register's last preload.                   *)
(***************************************************************************)
EXTENDS Integers, Functions

CONSTANTS NumLines,   \* lines of the buffer
          Assoc,      \* entries in a line
          Hash,       \* Hash[w] = <<line, checksum>> of the 8 byte word w
          Regs,       \* registers
          Accesses,   \* [addr, size] of the loads and stores of the program
          Sampling    \* S_skip_size > 0: every sample is a context switch

Lines == 0 .. NumLines - 1
Slots == 1 .. Assoc
Ids == Lines \X Slots

ASSUME McbAssumption ==
  /\ NumLines \in Nat \ {0} /\ Assoc \in Nat \ {0}
  /\ Accesses \subseteq [addr : Nat, size : {1, 2, 4, 8}]
  /\ \A x \in Accesses : /\ x.addr % x.size = 0
                         /\ Hash[x.addr \div 8] \in Lines \X Nat
  /\ 0 \notin Regs
  /\ Sampling \in BOOLEAN

VARIABLES entry,           \* Ids -> valid, reg, addr, access_size
          age,             \* per line, rank of each entry: 1 newest (head)
          conflict,        \* conflict flag of each register
          reg_entry,       \* entry of each register's last preload
          punted,          \* the S_punt that stopped the simulation, or "no"
          preload,         \* the load a register's next check guards (history)
          true_conflict,   \* has a store since overlapped it?  (history)
          overflowed       \* did a Playdoh preload find no free entry? (history)

vars == <<entry, age, conflict, reg_entry, punted, preload, true_conflict,
          overflowed>>

NULL == <<"NULL">>
WILD == <<"WILD">>   \* what malloc left in reg_entry
None == [addr |-> 0, size |-> 0]

Flags == {"NO_CONFLICT", "LOAD_LOAD", "LOAD_STORE", "CONTEXT_SWITCH"}

Line(addr) == Hash[addr \div 8][1]
Checksum(addr) == Hash[addr \div 8][2]

(* A line is a list; as ranks, a permutation of its slots.                 *)
Ages == Bijection(Slots, Slots)
Oldest(a) == CHOOSE s \in Slots : a[s] = Assoc
(* Mutant: the other entries of the line do not age.                       *)
AsNewest_NoAging(a) == [s \in Slots |-> IF a[s] = Assoc THEN 1 ELSE a[s]]

AsNewest(a) == [s \in Slots |-> IF a[s] = Assoc THEN 1 ELSE a[s] + 1]

AsOldest(a, s) == [t \in Slots |-> IF t = s THEN Assoc
                                   ELSE IF a[t] > a[s] THEN a[t] - 1 ELSE a[t]]

(* Going from tail to head and moving the slots in gone to the end of the  *)
(* list turns the ranks a into b: the others keep their order, and of gone *)
(* the one nearest the tail comes first.                                   *)
MovedToEnd(a, b, gone) ==
  \A s, t \in Slots :
    b[s] < b[t] <=> \/ s \notin gone /\ t \in gone
                    \/ s \notin gone /\ t \notin gone /\ a[s] < a[t]
                    \/ s \in gone /\ t \in gone /\ a[s] > a[t]

(* S_create_MCB.  The loop that sets reg_entry to NULL is the body of the  *)
(* preceding test for a failed malloc, so the array holds whatever was     *)
(* there, unless a context switch precedes the first instruction.          *)
Init ==
  /\ entry = [e \in Ids |-> [valid |-> FALSE, reg |-> 0, addr |-> 0, size |-> 0]]
  /\ age = [l \in Lines |-> [s \in Slots |-> s]]
  /\ conflict = [r \in Regs |-> IF Sampling THEN "CONTEXT_SWITCH" ELSE "NO_CONFLICT"]
  /\ reg_entry \in [Regs -> IF Sampling THEN {NULL} ELSE {NULL, WILD}]
  /\ punted = "no"
  /\ preload = [r \in Regs |-> None]
  /\ true_conflict = [r \in Regs |-> FALSE]
  /\ overflowed = FALSE
-----------------------------------------------------------------------------
(* Mutant: the entry is dropped, and left where it is in its line.         *)
RegConflict_StaysInLine(en, ag, r) ==
  /\ entry' = IF reg_entry[r] \in Ids
              THEN [en EXCEPT ![reg_entry[r]].valid = FALSE] ELSE en
  /\ age' = ag
  /\ punted' = IF reg_entry[r] = WILD THEN "wild pointer" ELSE punted

(* S_sim_MCB_reg_conflict on the buffer (en, ag): drop the entry reg_entry *)
(* names, if any.                                                          *)
RegConflict(en, ag, r) ==
  CASE reg_entry[r] = NULL ->
         entry' = en /\ age' = ag /\ punted' = punted
    [] reg_entry[r] = WILD ->
         entry' = en /\ age' = ag /\ punted' = "wild pointer"
    [] reg_entry[r] \in Ids ->
         LET l == reg_entry[r][1]
             s == reg_entry[r][2]
         IN /\ entry' = [en EXCEPT ![reg_entry[r]].valid = FALSE]
            /\ age' = [ag EXCEPT ![l] = AsOldest(@, s)]
            /\ punted' = punted

(* Mutant: the register whose preload is pushed out is not told.           *)
FlagsAfterLoad_Silent(e, r) == [conflict EXCEPT ![r] = "NO_CONFLICT"]

(* The flags once entry e is reused for a preload to r: the register of a  *)
(* preload that is pushed out has a load-load conflict.                    *)
FlagsAfterLoad(e, r) ==
  [q \in Regs |-> IF q = r THEN "NO_CONFLICT"
                  ELSE IF entry[e].valid /\ entry[e].reg = q THEN "LOAD_LOAD"
                  ELSE conflict[q]]

(* S_sim_MCB_load: the oldest entry of the line takes the preload.         *)
Loaded(x, r) ==
  LET l == Line(x.addr)
      e == <<l, Oldest(age[l])>>
  IN [entry |-> [entry EXCEPT ![e] = [valid |-> TRUE, reg |-> r,
                                      addr |-> x.addr, size |-> x.size]],
      age |-> [age EXCEPT ![l] = AsNewest(@)],
      conflict |-> FlagsAfterLoad(e, r),
      reg_entry |-> [reg_entry EXCEPT ![r] = e]]

Preloads(x, r) ==
  /\ preload' = [preload EXCEPT ![r] = x]
  /\ true_conflict' = [true_conflict EXCEPT ![r] = FALSE]

SuperLoad(x, r) ==
  LET new == Loaded(x, r)
  IN /\ punted = "no"
     /\ entry' = new.entry /\ age' = new.age
     /\ conflict' = new.conflict /\ reg_entry' = new.reg_entry
     /\ Preloads(x, r)
     /\ UNCHANGED <<punted, overflowed>>

(* Playdoh then drops the entry of the register's previous preload.  That  *)
(* is another entry than the one just taken only if the line was not full. *)
Full(l) == \A s \in Slots : entry[<<l, s>>].valid

PlaydohLoad(x, r) ==
  LET new == Loaded(x, r)
  IN /\ punted = "no"
     /\ RegConflict(new.entry, new.age, r)
     /\ conflict' = new.conflict /\ reg_entry' = new.reg_entry
     /\ Preloads(x, r)
     /\ overflowed' = (overflowed \/ Full(Line(x.addr)))

(* Mutant: the smaller of the two sizes decides.                           *)
Conflicts_MinSize(x, en) ==
  LET min_size == IF x.size <= en.size THEN x.size ELSE en.size
  IN /\ en.valid
     /\ Checksum(en.addr) = Checksum(x.addr)
     /\ (en.addr % 8) \div min_size = (x.addr % 8) \div min_size

(* The test of a store against an entry: same checksum, and equal address  *)
(* bits above the larger of the two access sizes.                          *)
Conflicts(x, en) ==
  LET max_size == IF x.size >= en.size THEN x.size ELSE en.size
  IN /\ en.valid
     /\ Checksum(en.addr) = Checksum(x.addr)
     /\ (en.addr % 8) \div max_size = (x.addr % 8) \div max_size

(* What the compiled program observes: two aligned accesses share a byte.  *)
Overlap(x, y) == x.addr < y.addr + y.size /\ y.addr < x.addr + x.size

(* S_sim_MCB_store: flag the registers of the entries in conflict, drop    *)
(* those entries, and leave them at the end of the line for reuse.         *)
Store(x) ==
  LET l    == Line(x.addr)
      gone == {s \in Slots : Conflicts(x, entry[<<l, s>>])}
      hit  == {entry[<<l, s>>].reg : s \in gone}
  IN /\ punted = "no"
     /\ entry' = [e \in Ids |-> IF e[1] = l /\ e[2] \in gone
                                THEN [entry[e] EXCEPT !.valid = FALSE]
                                ELSE entry[e]]
     /\ \E b \in Ages : MovedToEnd(age[l], b, gone) /\ age' = [age EXCEPT ![l] = b]
     /\ conflict' = [r \in Regs |-> IF r \in hit THEN "LOAD_STORE" ELSE conflict[r]]
     /\ reg_entry' = [r \in Regs |-> IF r \in hit THEN NULL ELSE reg_entry[r]]
     /\ true_conflict' = [r \in Regs |-> \/ true_conflict[r]
                                         \/ preload[r] # None /\ Overlap(x, preload[r])]
     /\ UNCHANGED <<punted, preload, overflowed>>

(* A check guards one preload.                                             *)
Checked(r) ==
  /\ preload' = [preload EXCEPT ![r] = None]
  /\ true_conflict' = [true_conflict EXCEPT ![r] = FALSE]

(* S_sim_MCB_beq: the trace says whether the program branched to its fixup *)
(* code, which it does on a true conflict.                                 *)
Beq(r) ==
  /\ punted = "no" /\ preload[r] # None
  /\ punted' = IF true_conflict[r] /\ conflict[r] = "NO_CONFLICT"
               THEN "No conflict detected for true conflict" ELSE "no"
  /\ Checked(r)
  /\ UNCHANGED <<entry, age, conflict, reg_entry, overflowed>>

(* S_sim_MCB_verify: the flag and reg_entry must agree, and the entry must *)
(* be the one of the preload; then the entry is dropped.                   *)
VerifyFails(r) ==
  LET en == reg_entry[r]
  IN \/ en # NULL /\ entry[en].addr # preload[r].addr
     \/ en = NULL /\ conflict[r] = "NO_CONFLICT"
     \/ en # NULL /\ conflict[r] # "NO_CONFLICT"

Verify(r) ==
  /\ punted = "no" /\ preload[r] # None
  /\ IF VerifyFails(r)
     THEN punted' = "verify" /\ UNCHANGED <<entry, age, reg_entry>>
     ELSE /\ RegConflict(entry, age, r)
          /\ reg_entry' = [reg_entry EXCEPT ![r] = NULL]
  /\ Checked(r)
  /\ UNCHANGED <<conflict, overflowed>>

(* Clear all valid bits.                                                   *)
Invalidated == [e \in Ids |-> [entry[e] EXCEPT !.valid = FALSE]]

(* S_sim_MCB_taken_branch: a preload and its check are in one block, so a  *)
(* taken branch leaves no preload to guard.                                *)
TakenBranch ==
  /\ punted = "no"
  /\ entry' = Invalidated
  /\ preload' = [r \in Regs |-> None]
  /\ true_conflict' = [r \in Regs |-> FALSE]
  /\ UNCHANGED <<age, conflict, reg_entry, punted, overflowed>>

(* S_sim_MCB_context_switch, when the simulation resumes after skipping    *)
(* instructions: anything may have happened, so every register conflicts.  *)
ContextSwitch ==
  /\ punted = "no" /\ Sampling
  /\ entry' = Invalidated
  /\ conflict' = [r \in Regs |-> "CONTEXT_SWITCH"]
  /\ reg_entry' = [r \in Regs |-> NULL]
  /\ UNCHANGED <<age, punted, preload, true_conflict, overflowed>>

(* The instructions of the superscalar fetch stage that use the buffer.    *)
SuperNext ==
  \/ \E x \in Accesses, r \in Regs : SuperLoad(x, r)
  \/ \E x \in Accesses : Store(x)
  \/ \E r \in Regs : Beq(r)
  \/ TakenBranch
  \/ ContextSwitch

SuperSpec == Init /\ [][SuperNext]_vars

(* The Playdoh model never flushes the buffer on a taken branch.           *)
PlaydohNext ==
  \/ \E x \in Accesses, r \in Regs : PlaydohLoad(x, r)
  \/ \E x \in Accesses : Store(x)
  \/ \E r \in Regs : Verify(r)
  \/ ContextSwitch

PlaydohSpec == Init /\ [][PlaydohNext]_vars
-----------------------------------------------------------------------------
Entries == [valid : BOOLEAN, reg : Regs \cup {0}, addr : Nat, size : {0, 1, 2, 4, 8}]

(* Every line of the buffer stays a list of all its entries (the ranks are *)
(* a permutation), and flags and reg_entry keep their ranges.              *)
TypeOK ==
  /\ entry \in [Ids -> Entries]
  /\ age \in [Lines -> Ages]
  /\ conflict \in [Regs -> Flags]
  /\ reg_entry \in [Regs -> Ids \cup {NULL, WILD}]
  /\ preload \in [Regs -> Accesses \cup {None}]
  /\ true_conflict \in [Regs -> BOOLEAN]

(* A preload pushed out of a full line leaves its register with a flag;    *)
(* Playdoh's reg_entry still names its entry then, and a preload that      *)
(* takes its register's own entry is dropped as soon as it is made.  So    *)
(* under Playdoh the properties below hold until a preload finds its line  *)
(* full.  In the superscalar model overflowed stays FALSE.                 *)

Reported == \A r \in Regs : true_conflict[r] => conflict[r] # "NO_CONFLICT"

Tracked ==
  \A r \in Regs :
    preload[r] # None /\ conflict[r] = "NO_CONFLICT" =>
      \E s \in Slots :
        entry[<<Line(preload[r].addr), s>>] =
          [valid |-> TRUE, reg |-> r,
           addr |-> preload[r].addr, size |-> preload[r].size]

(* A store that overlapped a preload is reported at the preload's check:   *)
(* whatever the hash function, the replacements in the line and the other  *)
(* preloads to the same register did in between, the flag is set.          *)
TrueConflictsAreReported == overflowed \/ Reported

(* Why: as long as a register's flag is clear, the preload its next check  *)
(* guards is in the buffer.                                                *)
PreloadsAreTracked == overflowed \/ Tracked

(* The sanity checks of S_sim_MCB_beq and S_sim_MCB_verify never fail, and *)
(* a Playdoh preload follows a wild pointer only in a simulation without   *)
(* sampling, which runs without the context switch that clears reg_entry.  *)
ChecksNeverPunt ==
  \/ overflowed
  \/ punted = "no"
  \/ punted = "wild pointer" /\ ~ Sampling
=============================================================================
