------------------------------- MODULE MC_Mcb -------------------------------
(* The two processor models that use the buffer; a simulation is of one.   *)
EXTENDS Mcb
VARIABLE processor

(* Words 0 and 1 share a line and differ in the checksum.                  *)
MCHash == [w \in 0 .. 1 |-> <<0, w>>]
(* A doubleword, its upper half, and a word of the other doubleword.       *)
MCAccesses == { [addr |-> 0, size |-> 8], [addr |-> 4, size |-> 4],
                [addr |-> 8, size |-> 4] }

MCInit == Init /\ processor \in {"super", "playdoh"}
MCNext ==
  \/ processor = "super" /\ SuperNext /\ UNCHANGED processor
  \/ processor = "playdoh" /\ PlaydohNext /\ UNCHANGED processor
MCSpec == MCInit /\ [][MCNext]_<<vars, processor>>
=============================================================================
