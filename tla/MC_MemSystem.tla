---------------------------- MODULE MC_MemSystem ----------------------------
EXTENDS MemSystem
(* Three instruction blocks of two instructions in one set of two: every   *)
(* third block evicts.                                                     *)
MCFetchAddrs == {8, 12, 16, 24}
(* A block read (two segments), a prefetch and a one segment store.        *)
MCDcache == { [type |-> "READ_REQUEST", addr |-> 64, size |-> 8],
              [type |-> "PREFETCH_REQUEST", addr |-> 72, size |-> 8],
              [type |-> "WRITE_REQUEST", addr |-> 64, size |-> 4] }
(* The same with the requests of a memory copy.                            *)
MCDcacheCopies ==
  MCDcache \cup { [type |-> "MC_READ_REQUEST", addr |-> 80, size |-> 4],
                  [type |-> "MC_WRITE_REQUEST", addr |-> 88, size |-> 8] }
=============================================================================
